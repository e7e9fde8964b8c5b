------------------------------ MODULE BootLoader ------------------------------
(***************************************************************************)
(* The boot loader (gnu-efi/bootloader/main.c): efi_main opens the         *)
(* directories, loads the kernel's segments where they are linked, loads   *)
(* the fonts, takes the frame buffer, the memory map and the RSDP, leaves  *)
(* the boot services and calls the kernel.  The firmware is external: it   *)
(* may refuse an allocation, use memory of its own at any moment while the *)
(* boot services are on (Event), and hand out any configuration tables.    *)
(***************************************************************************)
EXTENDS Naturals, Sequences, FiniteSets, SequencesExt

CONSTANTS
    PageBytes,   \* bytes of a page
    TopPage,    \* the machine's pages are 0..TopPage
    Machines,    \* the sets of pages that can be free when the loader starts
    Images,      \* the kernels: sequences of segments [at |-> page, mem |-> bytes]
    Volumes,     \* the boot volumes: sets of entries <<directory, name>>
    MaxTables,   \* the most configuration tables the firmware has
    MaxEvents,   \* bound: how often the firmware uses memory of its own
    MaxMap       \* bound: the most descriptors of the memory map

LoaderAssumption ==
    /\ PageBytes \in Nat \ {0, 1}
    /\ TopPage \in Nat /\ MaxTables \in Nat /\ MaxEvents \in Nat /\ MaxMap \in Nat \ {0}
    /\ Machines \subseteq SUBSET (0..TopPage)
    /\ Images \subseteq Seq([at : Nat, mem : Nat \ {0, 1}])
    /\ \A kernel \in Images : \A i \in DOMAIN kernel :
          kernel[i].at + ((kernel[i].mem - 1) \div PageBytes) <= TopPage

MachinePage == 0..TopPage
Guid == {"acpi1", "acpi2", "other"}
Files == {"Kernel.elf", "zap-vga16.psf", "zap-light16.psf"}
Home == [f \in Files |-> IF f = "Kernel.elf" THEN "KERNEL" ELSE "FONTS"]

VolumesAssumption ==
    \A v \in Volumes : \A entry \in v :
        /\ entry[1] \in {"root", "KERNEL", "FONTS"}
        /\ entry[1] # "root" => <<"root", entry[1]>> \in v

VARIABLES
    pc,          \* where efi_main is
    volume,      \* the entries of the boot volume, <<directory, name>>
    dir,         \* the directories that LoadFile found; "none" is NULL
    opened,      \* file -> the directory it was read from
    free,        \* the pages the firmware has free
    holding,     \* the pages whose last contents are the kernel's
    image, seg,  \* the kernel's segments and the next one to load
    denied,      \* an allocation was refused, and written to all the same
    descriptors, \* entries of the firmware's memory map
    map,         \* newMap: size, whether its buffer was filled, whether the key still fits
    buffer,      \* GetMemoryMap has a buffer
    steady,      \* no descriptor was added since GetMemoryMap asked for the size
    config,      \* the GUIDs of the configuration tables
    beyond,      \* the GUID read behind them
    rsdp,        \* index of the table handed over, 0 for NULL
    services,    \* the boot services are on
    events       \* how often the firmware used memory

loader == <<dir, opened, image, seg, denied, map, buffer, steady, config, beyond, rsdp>>
firmware == <<free, holding, descriptors, services, events>>
loaderVars == <<pc, volume, loader, firmware>>

PCs == {"directories", "kernel", "segments", "vga", "light", "framebuffer",
        "mapsize", "mapbuffer", "map", "rsdp", "exit", "enter", "entered", "halted"}

LoaderInit ==
    /\ pc = "directories"
    /\ volume \in Volumes
    /\ dir = [d \in {"KERNEL", "FONTS"} |-> "none"]
    /\ opened = [f \in Files |-> "none"]
    /\ free \in Machines
    /\ holding = {}
    /\ image = <<>> /\ seg = 1 /\ denied = FALSE
    /\ descriptors = 1
    /\ map = [size |-> 0, whole |-> FALSE, fresh |-> FALSE]
    /\ buffer = FALSE /\ steady = FALSE
    /\ config = <<>> /\ beyond = "other" /\ rsdp = 0
    /\ services = TRUE
    /\ events = 0

-------------------------------------------------------------------------------
(* The pages the file's bytes of a segment lie in, and those it asks for:  *)
(* p_memsz is multiplied by the page size where it should be rounded up.   *)
Spans(s) == s.at..(s.at + ((s.mem - 1) \div PageBytes))
SegmentPagesShort(mem) == (mem - 1) \div PageBytes  \* Slip: rounded down
SegmentPages(mem) == (mem * PageBytes - 1) \div PageBytes
Asked(s) == s.at..(s.at + SegmentPages(s.mem) - 1)

(* LoadFile: the directory the file is opened in, "none" if it is not there; a *)
(* directory that is NULL is the root of the volume.                           *)
LoadFile(directory, path) ==
    LET from == IF directory = "none" THEN "root" ELSE directory
    IN  IF <<from, path>> \in volume THEN from ELSE "none"

(* AllocatePool: memory out of free pages, or out of a page the pool already has; *)
(* the key of a map taken before it is stale, and the map may have grown.         *)
AllocatePool(pages, grows) ==
    /\ pages \subseteq free
    /\ free' = free \ pages
    /\ descriptors + grows <= MaxMap
    /\ descriptors' = descriptors + grows
    /\ UNCHANGED <<services, events>>

Directories ==
    /\ pc = "directories"
    /\ dir' = [d \in {"KERNEL", "FONTS"} |-> IF LoadFile("none", d) = "none" THEN "none" ELSE d]
    /\ pc' = "kernel"
    /\ UNCHANGED <<volume, opened, image, seg, denied, map, buffer, steady, config, beyond, rsdp, firmware>>

(* A file that is missing halts the machine. *)
Missing(at, file) ==
    /\ pc = at
    /\ LoadFile(dir[Home[file]], file) = "none"
    /\ pc' = "halted"
    /\ UNCHANGED <<volume, loader, firmware>>

Open(file) == opened' = [opened EXCEPT ![file] = LoadFile(dir[Home[file]], file)]

(* What is read goes into pool memory.  The status is not looked at: if the memory was *)
(* refused, it goes to wherever the uninitialised pointer leads, into some page or to  *)
(* where the processor faults.                                                         *)
ReadIntoPool(next) ==
    \E pages \in SUBSET free :
        /\ Cardinality(pages) <= 1
        /\ AllocatePool(pages, 0)
        /\ \/ holding' = holding \ pages /\ pc' = next /\ UNCHANGED denied
           \/ \E p \in MachinePage :
                 /\ holding' = holding \ (pages \cup {p})
                 /\ pc' \in {next, "halted"}
                 /\ denied' = TRUE

(* LoadELFFile: the header and the program headers.  A header that is not an x86-64 ELF is  *)
(* only reported, so an image stands for whatever headers are read.  The memory for the     *)
(* file's information may be refused to no effect: the information goes elsewhere, over the *)
(* loader's stack, and that nothing is needed there any more is assumed.                    *)
LoadHeaders ==
    /\ pc = "kernel"
    /\ LoadFile(dir["KERNEL"], "Kernel.elf") # "none"
    /\ Open("Kernel.elf")
    /\ image' \in Images
    /\ ReadIntoPool("segments")
    /\ UNCHANGED <<volume, dir, seg, map, buffer, steady, config, beyond, rsdp>>

(* One PT_LOAD segment: the status of AllocatePages is not looked at, and the file is *)
(* read to where the segment is linked in any case.                                   *)
LoadSegment ==
    /\ pc = "segments" /\ seg <= Len(image)
    /\ LET s == image[seg]
           granted == Asked(s) \subseteq free
       IN  /\ free' = IF granted THEN free \ Asked(s) ELSE free
           /\ denied' = (denied \/ ~granted)
           /\ holding' = holding \cup Spans(s)
    /\ seg' = seg + 1
    /\ UNCHANGED <<pc, volume, dir, opened, image, map, buffer, steady, config, beyond, rsdp,
                   descriptors, services, events>>

SegmentsDone ==
    /\ pc = "segments" /\ seg > Len(image)
    /\ pc' = "vga"
    /\ UNCHANGED <<volume, loader, firmware>>

(* LoadPSFFont: the header and the glyphs are read into pool memory. *)
LoadPSFFont(at, file, next) ==
    /\ pc = at
    /\ LoadFile(dir["FONTS"], file) # "none"
    /\ Open(file)
    /\ ReadIntoPool(next)
    /\ UNCHANGED <<volume, dir, image, seg, map, buffer, steady, config, beyond, rsdp>>

(* GetFramebuffer: without a graphics output protocol the machine halts. *)
GetFramebuffer ==
    /\ pc = "framebuffer"
    /\ pc' \in {"mapsize", "halted"}
    /\ UNCHANGED <<volume, loader, firmware>>

(* GetMemoryMap's first call, for the size: MapSize is not initialised and no buffer *)
(* is given, so a value that would be large enough may come back as it was.          *)
MapSize ==
    /\ pc = "mapsize"
    /\ \E guess \in 0..MaxMap :
          map' = [map EXCEPT !.size = IF guess < descriptors THEN descriptors ELSE guess]
    /\ steady' = TRUE
    /\ pc' = "mapbuffer"
    /\ UNCHANGED <<volume, dir, opened, image, seg, denied, buffer, config, beyond, rsdp, firmware>>

(* The buffer for the map: it changes the map it is for, or there is no memory. *)
MapBuffer ==
    /\ pc = "mapbuffer"
    /\ \/ \E pages \in SUBSET free, grows \in 0..1 :
             /\ Cardinality(pages) <= 1
             /\ AllocatePool(pages, grows)
             /\ holding' = holding \ pages
             /\ buffer' = TRUE /\ steady' = (steady /\ grows = 0)
       \/ buffer' = FALSE /\ UNCHANGED <<firmware, steady>>
    /\ pc' = "map"
    /\ UNCHANGED <<volume, dir, opened, image, seg, denied, map, config, beyond, rsdp>>

(* The second call fills the buffer if it is large enough and reports the size either way. *)
GetMemoryMap ==
    /\ pc = "map"
    /\ map' = [size |-> descriptors, whole |-> buffer /\ descriptors <= map.size, fresh |-> TRUE]
    /\ pc' = "rsdp"
    /\ UNCHANGED <<volume, dir, opened, image, seg, denied, buffer, steady, config, beyond, rsdp, firmware>>

(* CompareGuid of the library: 0 for equal GUIDs. *)
CompareGuid(a, b) == IF a = b THEN 0 ELSE 1

(* The loop indexes ConfigTable with i and also steps it: entry i's table goes with *)
(* the GUID of entry 2i, which may be one behind the tables.                        *)
Compared(i) == IF 2 * i - 1 <= Len(config') THEN config'[2 * i - 1] ELSE beyond'
RSDPTable(g) == g \in {"acpi1", "acpi2"}
GetRSDP ==
    /\ pc = "rsdp"
    /\ config' \in {c \in BoundedSeq(Guid, MaxTables) :
                       Cardinality({i \in DOMAIN c : c[i] = "acpi2"}) <= 1}
    /\ beyond' \in Guid
    /\ rsdp' = LET taken == {i \in DOMAIN config' :
                                 CompareGuid(Compared(i), "acpi2") # 0 /\ RSDPTable(config'[i])}
               IN  IF taken = {} THEN 0 ELSE Max(taken)
    /\ pc' = "exit"
    /\ UNCHANGED <<volume, dir, opened, image, seg, denied, map, buffer, steady, firmware>>

(* ExitBootServices refuses a stale key; its status is not looked at. *)
ExitBootServices ==
    /\ pc = "exit"
    /\ services' = (services /\ ~map.fresh)
    /\ pc' = "enter"
    /\ UNCHANGED <<volume, loader, free, holding, descriptors, events>>

(* The last Print uses the console of the boot services that may be gone. *)
EnterKernel ==
    /\ pc = "enter"
    /\ pc' \in IF services THEN {"entered"} ELSE {"entered", "halted"}
    /\ UNCHANGED <<volume, loader, firmware>>

(* The firmware's own timers and console, while the boot services are on. *)
Event ==
    /\ services /\ pc \notin {"halted", "entered"} /\ events < MaxEvents
    /\ events' = events + 1
    /\ \E p \in free, grows \in 0..1 :
          /\ descriptors + grows <= MaxMap
          /\ descriptors' = descriptors + grows
          /\ free' = free \ {p}
          /\ holding' = holding \ {p}
          /\ steady' = (steady /\ (grows = 0 \/ pc \notin {"mapbuffer", "map"}))
    /\ map' = [map EXCEPT !.fresh = FALSE]
    /\ UNCHANGED <<pc, volume, dir, opened, image, seg, denied, buffer, config, beyond, rsdp, services>>

Stopped == pc \in {"halted", "entered"} /\ UNCHANGED loaderVars

LoaderNext ==
    \/ Directories \/ LoadHeaders \/ LoadSegment \/ SegmentsDone
    \/ Missing("kernel", "Kernel.elf")
    \/ Missing("vga", "zap-vga16.psf") \/ Missing("light", "zap-light16.psf")
    \/ LoadPSFFont("vga", "zap-vga16.psf", "light")
    \/ LoadPSFFont("light", "zap-light16.psf", "framebuffer")
    \/ GetFramebuffer \/ MapSize \/ MapBuffer \/ GetMemoryMap \/ GetRSDP
    \/ ExitBootServices \/ EnterKernel \/ Event \/ Stopped

LoaderSpec == LoaderInit /\ [][LoaderNext]_loaderVars

-------------------------------------------------------------------------------
(* The state has its shape. *)
LoaderTypeOK ==
    /\ pc \in PCs /\ volume \in Volumes
    /\ dir \in [{"KERNEL", "FONTS"} -> {"none", "KERNEL", "FONTS"}]
    /\ opened \in [Files -> {"none", "root", "KERNEL", "FONTS"}]
    /\ free \subseteq MachinePage /\ holding \subseteq MachinePage
    /\ image \in Images \cup {<<>>} /\ seg \in 1..(Len(image) + 1) /\ denied \in BOOLEAN
    /\ descriptors \in 0..MaxMap
    /\ map \in [size : 0..MaxMap, whole : BOOLEAN, fresh : BOOLEAN]
    /\ buffer \in BOOLEAN /\ steady \in BOOLEAN /\ services \in BOOLEAN
    /\ config \in BoundedSeq(Guid, MaxTables) /\ beyond \in Guid
    /\ rsdp \in 0..Len(config) /\ events \in 0..MaxEvents

(* LoadFile and its callers: the kernel is entered only with all three files read,   *)
(* each from its own directory, or from the root of a volume without that directory. *)
EntersOnlyWithFiles ==
    pc = "entered" =>
        \A f \in Files :
            /\ <<opened[f], f>> \in volume
            /\ opened[f] = Home[f] \/ (opened[f] = "root" /\ <<"root", Home[f]>> \notin volume)

(* LoadELFFile: nothing that the loader reads later and nothing the firmware does lies *)
(* over the kernel that is entered.                                                    *)
KernelIntact ==
    pc = "entered" => \A i \in DOMAIN image : Spans(image[i]) \subseteq holding

(* GetMemoryMap: the map the kernel gets is whole, unless its buffer could not be had or *)
(* the memory map got longer between the buffer's size and the second call.              *)
MapWhole == pc = "entered" /\ buffer /\ steady => map.whole

(* GetRSDP, as the loop works out: an ACPI 2.0 table is handed over if it is the last of *)
(* the tables that begin with "RSD PTR " and the GUID at twice its index is another one. *)
RSDPFound ==
    pc = "entered" =>
        /\ rsdp # 0 => config[rsdp] # "other"
        /\ \A i \in DOMAIN config :
              /\ config[i] = "acpi2"
              /\ \A j \in DOMAIN config : config[j] # "other" => j <= i
              /\ i # 1 /\ (2 * i - 1 > Len(config) => beyond # "acpi2")
              => rsdp = i

(* What the kernel receives, whatever files, tables and pages there are.  Only the map's   *)
(* buffer may be refused: where another allocation was, the loader has read over memory    *)
(* that it does not have.                                                                  *)
KernelReceives == /\ LoaderTypeOK
                  /\ ~denied => EntersOnlyWithFiles /\ KernelIntact /\ MapWhole /\ RSDPFound
===============================================================================
