----------------------------- MODULE MCDrivers -----------------------------
(***************************************************************************)
(* The drivers: clock, mouse, the interrupt controllers and the boot, PCI, *)
(* and the ways the kernel stops.  The models share no state, so that      *)
(* their interleavings would add nothing: a behaviour is that of one part, *)
(* and the others stay as they begin.                                      *)
(***************************************************************************)
EXTENDS Clock, Interrupts, Mouse, PCI, Panic

VARIABLE part

-----------------------------------------------------------------------------
(* A clock of eleven seconds to the minute, which BCD writes 0 .. 9, 16.   *)
ShortRadix == <<11, 2, 1, 1, 2, 1>>

(* Packets without a movement, with a click, of both signs, with bytes     *)
(* that have bit 3 set, and of -256; those without bit 3 in movements.     *)
WideMoves   == {<<8, 0, 0>>, <<9, 3, 4>>, <<24, 247, 1>>, <<24, 253, 8>>, <<42, 8, 250>>, <<24, 0, 4>>}
NarrowMoves == {<<8, 0, 0>>, <<9, 3, 4>>, <<24, 247, 1>>}

Narrow == INSTANCE Mouse WITH Moves <- NarrowMoves

(* The configurations a firmware may leave the 8042 in: with and without   *)
(* the mouse, with interrupts of the keyboard.  The scan code of A, 0x1E,  *)
(* has bits 1 and 4 set and bits 0 and 5 clear.                            *)
Configurations == [irq1 : {TRUE}, irq12 : BOOLEAN, keyOff : {FALSE}, mouseOff : BOOLEAN]
AtReset == [irq1 |-> TRUE, irq12 |-> FALSE, keyOff |-> FALSE, mouseOff |-> TRUE]
CodeOfA == [irq1 |-> FALSE, irq12 |-> TRUE, keyOff |-> TRUE, mouseOff |-> FALSE]
Codes == {CodeOfA}

(* Two segments that share bus numbers, the second one not from bus 0 on;  *)
(* every machine out of ten functions: bridges and their functions, a bus  *)
(* without its device 0, a bus at the end of a segment.                    *)
TwoSegments == <<[StartBus |-> 0, EndBus |-> 2], [StartBus |-> 1, EndBus |-> 3]>>
Candidates == {<<0, 0, 0, 0>>, <<0, 0, 0, 1>>, <<0, 0, 1, 0>>, <<0, 0, 1, 1>>, <<0, 1, 0, 0>>,
               <<0, 1, 1, 0>>, <<0, 2, 0, 0>>, <<1, 1, 0, 0>>, <<1, 1, 1, 1>>, <<1, 2, 0, 0>>}
Controllers == {<<0, 0, 1, 1>>, <<0, 1, 0, 0>>, <<1, 2, 0, 0>>}

AllMachines == SUBSET Candidates

(* Four screens; the shortest and the longest of the exceptions' messages, *)
(* of the jokes and of the numbers.                                        *)
Sizes == {<<640, 480>>, <<800, 600>>, <<1024, 768>>, <<1920, 1080>>}

Messages == {"Page Fault", "Floating Point Exception"}
Oops == {"Oops.", "Everything's going to plan. No, really, that was supposed to happen."}
Counts == {"0", "18446744073709551615"}

ASSUME MouseAssumption /\ Narrow!MouseAssumption
ASSUME PCIAssumption
ASSUME PanicAssumption

-----------------------------------------------------------------------------
Mice == {"wide mouse", "narrow mouse"}
Part == {"clock", "boot", "pci", "stop"} \cup Mice

PartInit == /\ part \in Part
            /\ Init /\ (part # "clock" => ~bcd)
            /\ MouseInit /\ (part \notin Mice => ~spurious)
            /\ BootInit /\ (part # "boot" => config = AtReset /\ imr = {0})
            /\ PCIInit /\ (part # "pci" => machine = {})
            /\ PanicInit /\ (part # "stop" => size = <<640, 480>> /\ enabled)

partVars  == <<part, vars, mouseVars, bootVars, pciVars, panicVars>>

Alone(p) == part = p /\ UNCHANGED part

PartNext ==
    \/ Alone("clock") /\ Next /\ UNCHANGED <<mouseVars, bootVars, pciVars, panicVars>>
    \/ Alone("wide mouse") /\ MouseNext /\ UNCHANGED <<vars, bootVars, pciVars, panicVars>>
    \/ Alone("narrow mouse") /\ Narrow!MouseNext /\ UNCHANGED <<vars, bootVars, pciVars, panicVars>>
    \/ Alone("boot") /\ BootNext /\ UNCHANGED <<vars, mouseVars, pciVars, panicVars>>
    \/ Alone("pci") /\ PCINext /\ UNCHANGED <<vars, mouseVars, bootVars, panicVars>>
    \/ Alone("stop") /\ PanicNext /\ UNCHANGED <<vars, mouseVars, bootVars, pciVars>>

PartSpec ==
    /\ PartInit /\ [][PartNext]_partVars
    /\ WF_mouseVars(part = "narrow mouse" /\ Narrow!Send)
    /\ WF_mouseVars(part = "narrow mouse" /\ Narrow!Interrupt)
    /\ WF_bootVars(part = "boot" /\ KernelMain)
    /\ WF_bootVars(part = "boot" /\ Handler)
    /\ WF_bootVars(part = "boot" /\ Answer)
    /\ SF_bootVars(part = "boot" /\ Deliver(0))
    /\ SF_bootVars(part = "boot" /\ Deliver(1))
    /\ SF_bootVars(part = "boot" /\ Deliver(12))
    /\ WF_pciVars(part = "pci" /\ Enumerate)
    /\ WF_panicVars(part = "stop" /\ Draw)

-----------------------------------------------------------------------------
(* What the drivers and the kernel must come to in the end: the mouse's    *)
(* driver is back in step after the last loss if movements have bit 3      *)
(* clear, every byte of the 8042 is taken if the timer rests, every        *)
(* enumeration ends, and every call that stops the kernel gets to its HLT. *)
GoesOn == (part = "narrow mouse" => Narrow!BackInStep) /\ BytesTaken /\ AlwaysEnds /\ Halts
=============================================================================
