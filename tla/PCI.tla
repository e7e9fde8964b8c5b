--------------------------------- MODULE PCI ---------------------------------
(***************************************************************************)
(* PCI::Enumerate, one pass through one of its four loops at a time.  The  *)
(* loops' counters are static: a call returns in the middle of the         *)
(* innermost loop and the next call goes on from there.  Its users are     *)
(* AHCI::Init, once, which breaks off at the first AHCI controller, and    *)
(* then list pci, which goes on to the end; each resets the counters first.*)
(***************************************************************************)
EXTENDS Integers, Sequences

CONSTANTS Segments,    \* the entries of the table MCFG: [StartBus, EndBus]
          Devices,     \* devices of a bus, 32 in the source
          Funcs,       \* functions of a device, 8 in the source
          Machines,    \* the machines considered: sets of functions
          Ahci         \* the functions that are AHCI controllers

Entries == Len(Segments)

(* <<entry, bus, device, function>>, counted from 0.                       *)
Function == (0 .. Entries - 1) \X Nat \X (0 .. Devices - 1) \X (0 .. Funcs - 1)

SegmentsAssumption == Segments \in Seq([StartBus : 0 .. 255, EndBus : 0 .. 255])
SizeAssumption == Devices \in Nat \ {0} /\ Funcs \in Nat \ {0}
MachinesAssumption == \A m \in Machines : m \subseteq Function
AhciAssumption == Ahci \subseteq Function
PCIAssumption == SegmentsAssumption /\ SizeAssumption /\ MachinesAssumption /\ AhciAssumption

VARIABLES machine,     \* the functions that answer, a member of Machines
          Entry, Bus, Device, Func,
          loop,        \* the loop whose condition is tested next, "idle" outside
          user,        \* who calls
          given,       \* the functions returned since the reset
          ACHIDevice   \* what AHCI::Init has found

pciVars == <<machine, Entry, Bus, Device, Func, loop, user, given, ACHIDevice>>

NoDevice == <<>>

PCIInit == /\ machine \in Machines
           /\ Entry = 0 /\ Bus = 0 /\ Device = 0 /\ Func = 0
           /\ loop = "idle"
           /\ user = "none"
           /\ given = {}
           /\ ACHIDevice = NoDevice

-----------------------------------------------------------------------------
(* Slip: the innermost counter is not reset. *)
ResetButFunc == Entry' = 0 /\ Bus' = 0 /\ Device' = 0 /\ UNCHANGED Func

ResetEnumeration == Entry' = 0 /\ Bus' = 0 /\ Device' = 0 /\ Func' = 0

(* A user resets the counters and makes its first call.                    *)
Begin ==
    /\ loop = "idle"
    /\ user' = IF user = "none" THEN "ahci" ELSE "list"
    /\ ResetEnumeration
    /\ given' = {}
    /\ loop' = "entry"
    /\ UNCHANGED <<machine, ACHIDevice>>

(* A function's DeviceID is neither 0 nor 0xFFFF.                          *)
Answers(d, f) == <<Entry, Bus, d, f>> \in machine

EntryLoop ==
    /\ loop = "entry"
    /\ IF Entry < Entries
       THEN /\ Bus' = IF Bus = 0 THEN Segments[Entry + 1].StartBus ELSE Bus
            /\ loop' = "bus"
            /\ UNCHANGED Entry
       ELSE /\ Entry' = 0
            /\ loop' = "idle"
            /\ UNCHANGED Bus
    /\ UNCHANGED <<machine, Device, Func, user, given, ACHIDevice>>

BusLoop ==
    /\ loop = "bus"
    /\ IF Bus < Segments[Entry + 1].EndBus
       THEN IF Answers(0, 0) THEN loop' = "device" /\ UNCHANGED <<Entry, Bus>>
                             ELSE Bus' = Bus + 1 /\ UNCHANGED <<Entry, loop>>
       ELSE Bus' = 0 /\ Entry' = Entry + 1 /\ loop' = "entry"
    /\ UNCHANGED <<machine, Device, Func, user, given, ACHIDevice>>

DeviceLoop ==
    /\ loop = "device"
    /\ IF Device < Devices
       THEN IF Answers(Device, 0) THEN loop' = "func" /\ UNCHANGED <<Bus, Device>>
                                  ELSE Device' = Device + 1 /\ UNCHANGED <<Bus, loop>>
       ELSE Device' = 0 /\ Bus' = Bus + 1 /\ loop' = "bus"
    /\ UNCHANGED <<machine, Entry, Func, user, given, ACHIDevice>>

FuncAfterReturn == Func + 1

(* The loop body of AHCI::Init.                                            *)
Controller(f) == user = "ahci" /\ f \in Ahci

Breaks(f) == Controller(f)

FuncLoop ==
    /\ loop = "func"
    /\ LET f == <<Entry, Bus, Device, Func>> IN
       IF Func < Funcs
       THEN IF Answers(Device, Func)
            THEN /\ Func' = FuncAfterReturn
                 /\ given' = given \cup {f}
                 /\ loop' = IF Breaks(f) THEN "idle" ELSE "entry"
                 /\ ACHIDevice' = IF Controller(f) THEN f ELSE ACHIDevice
                 /\ UNCHANGED Device
            ELSE Func' = Func + 1 /\ UNCHANGED <<Device, loop, given, ACHIDevice>>
       ELSE Func' = 0 /\ Device' = Device + 1 /\ loop' = "device" /\ UNCHANGED <<given, ACHIDevice>>
    /\ UNCHANGED <<machine, Entry, Bus, user>>

Enumerate == EntryLoop \/ BusLoop \/ DeviceLoop \/ FuncLoop

PCINext == Begin \/ Enumerate

PCISpec == PCIInit /\ [][PCINext]_pciVars /\ WF_pciVars(Enumerate)

-----------------------------------------------------------------------------
PCITypeOK == /\ machine \in Machines
             /\ Entry \in 0 .. Entries /\ Bus \in 0 .. 255
             /\ Device \in 0 .. Devices /\ Func \in 0 .. Funcs
             /\ loop \in {"idle", "entry", "bus", "device", "func"}
             /\ user \in {"none", "ahci", "list"}
             /\ given \subseteq machine
             /\ ACHIDevice \in {NoDevice} \cup Ahci
             /\ loop \in {"bus", "device", "func"} => Entry < Entries

Before(f, g) == \E i \in 1 .. 4 : f[i] < g[i] /\ \A j \in 1 .. i - 1 : f[j] = g[j]

(* The functions that Enumerate can reach: the bus is one of the entry's,  *)
(* the last one left out, its device 0 answers and the device's function 0.*)
Reachable(f) == /\ f[2] >= Segments[f[1] + 1].StartBus
                /\ f[2] < Segments[f[1] + 1].EndBus
                /\ <<f[1], f[2], 0, 0>> \in machine
                /\ <<f[1], f[2], f[3], 0>> \in machine

Visible == {f \in machine : Reachable(f)}

Promise == INSTANCE Devices WITH visible <- Visible, asking <- loop # "idle"

(* Through all the returns into and out of four loops, each enumeration    *)
(* gives the visible functions in order, once, and all before it says that *)
(* there are no more, however the one before it was broken off.            *)
ImplementsDevices == Promise!Spec

(* AHCI::Init breaks off at the first of the visible AHCI controllers; if  *)
(* there is none ACHIDevice stays null, and BAR5 is read through it all the*)
(* same.                                                                   *)
FirstController ==
    loop = "idle" /\ user # "none" =>
        IF ACHIDevice = NoDevice THEN Visible \cap Ahci = {}
        ELSE /\ ACHIDevice \in Visible \cap Ahci
             /\ \A f \in Visible \cap Ahci : f = ACHIDevice \/ Before(ACHIDevice, f)

(* Every enumeration comes to an end.                                      *)
AlwaysEnds == loop # "idle" ~> loop = "idle"

(* Each enumeration gives the visible functions in order and once, however *)
(* earlier ones were broken off, and AHCI::Init breaks off at the first    *)
(* controller, or reads through null: all that the two users rely on.      *)
PCISafe == PCITypeOK /\ FirstController
EnumeratesAll == []PCISafe /\ ImplementsDevices
=============================================================================
