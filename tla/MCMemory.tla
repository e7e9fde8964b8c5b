----------------------------- MODULE MCMemory -----------------------------
(***************************************************************************)
(* Memory, from the loader on: the pages, the page table, the heap alone   *)
(* and the heap with interrupts, and the list of processes that grows in   *)
(* it.  The models share no state, so that their interleavings would add   *)
(* nothing: a behaviour is that of one part, and the others stay as they   *)
(* begin.                                                                  *)
(***************************************************************************)
EXTENDS PageAllocator, PageTable, BootLoader, Heap, HeapInterrupts,
        ProcessList

VARIABLE part

-----------------------------------------------------------------------------
(* Twelve pages in four descriptors with a hole, as below the frame buffer *)
(* of a machine: RAM goes on above it.                                     *)
Extent(first, n, conventional) == [start |-> first, pages |-> n, conventional |-> conventional]

SmallMap    == <<Extent(0, 1, FALSE), Extent(1, 6, TRUE), Extent(7, 1, FALSE),
                 Extent(11, 4, TRUE)>>
SmallKernel == {3}
SmallScreen == 9 .. 10

(* One address that Init maps, and two of one last table that share the    *)
(* first two tables with it: two of the five pages left are for tables.    *)
SmallVirtual == {<<0, 0, 0, 0>>, <<0, 1, 0, 0>>, <<0, 1, 0, 1>>}
SmallBoot    == <<[v |-> <<0, 0, 0, 0>>, p |-> 2]>>

(* A machine of five pages of two bytes; kernels of one and of two segments;*)
(* the volume that the Makefile builds, one without directories, and broken*)
(* ones.                                                                   *)
Built == {<<"root", "KERNEL">>, <<"root", "FONTS">>} \cup {<<Home[f], f>> : f \in Files}
Flat == {<<"root", f>> : f \in Files}
SmallVolumes == {Built, Flat, Built \ {<<"FONTS", "zap-light16.psf">>},
                 {<<"root", "KERNEL">>, <<"KERNEL", "Kernel.elf">>, <<"root", "zap-light16.psf">>}}
SmallImages == {<<[at |-> 1, mem |-> 3]>>, <<[at |-> 0, mem |-> 2], [at |-> 2, mem |-> 3]>>}
SmallMachines == {0..4, (0..4) \ {3}}

ASSUME HeapAssumption /\ InterAssumption
ASSUME PageAssumption /\ VirtualAssumption /\ BootAssumption
ASSUME LoaderAssumption /\ VolumesAssumption
ASSUME ListAssumption /\ RoomAssumption

-----------------------------------------------------------------------------
PartInit == /\ part \in {"pages", "heap", "interrupted heap", "table", "loader", "list"}
            /\ Init /\ (part # "pages" => locked = LockedAtBoot({}))
            /\ HeapInit
            /\ InterInit /\ (part # "interrupted heap" => memory[0].size = 4)
            /\ TableInit /\ (part # "table" => table = [page \in Frame |-> Cleared])
            /\ LoaderInit /\ (part # "loader" => volume = Built /\ free = MachinePage)
            /\ ListInit

partVars == <<part, vars, heapVars, interVars, tableVars, loaderVars, listVars>>

Alone(name) == part = name /\ UNCHANGED part

PartNext ==
    \/ /\ Alone("pages") /\ Next
       /\ UNCHANGED <<heapVars, interVars, tableVars, loaderVars, listVars>>
    \/ /\ Alone("heap") /\ HeapNext
       /\ UNCHANGED <<vars, interVars, tableVars, loaderVars, listVars>>
    \/ /\ Alone("interrupted heap") /\ InterNext
       /\ UNCHANGED <<vars, heapVars, tableVars, loaderVars, listVars>>
    \/ /\ Alone("table") /\ TableNext
       /\ UNCHANGED <<vars, heapVars, interVars, loaderVars, listVars>>
    \/ /\ Alone("loader") /\ LoaderNext
       /\ UNCHANGED <<vars, heapVars, interVars, tableVars, listVars>>
    \/ /\ Alone("list") /\ ListNext
       /\ UNCHANGED <<vars, heapVars, interVars, tableVars, loaderVars>>

PartSpec == PartInit /\ [][PartNext]_partVars

=============================================================================
