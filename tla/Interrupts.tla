----------------------------- MODULE Interrupts -----------------------------
(***************************************************************************)
(* How the kernel comes up and takes its interrupts: the order of          *)
(* KernelMain (kernel.cpp), IDT::SetupInterrupts with the two 8259         *)
(* controllers, Mouse::InitPS2 with the polled 8042 controller, and the    *)
(* three handlers of Handlers.cpp, up to which byte each of them reads.    *)
(*                                                                         *)
(* The 8042 holds one byte at a time.  A byte in it holds up the line of   *)
(* IRQ 1 or 12; a rising line is latched in irr until a processor takes    *)
(* it.  A byte that was read by polling leaves its latch behind: the       *)
(* controllers that exist differ in whether the latch falls with the line. *)
(***************************************************************************)
EXTENDS Naturals, Sequences, FiniteSetsExt

CONSTANTS NoByte,      \* no byte, no handler
          Configs,     \* configurations the firmware may leave the 8042 in
          KeyBytes     \* what the bits of a scan code say, read as a configuration

\* What the configuration byte of the 8042 says, and what port 0x60 gives.
Configuration == [irq1 : BOOLEAN, irq12 : BOOLEAN, keyOff : BOOLEAN, mouseOff : BOOLEAN]
Byte(source, bits) == [from |-> source, bits |-> bits]
Bytes == [from : {"controller", "mouse", "key", "stale"}, bits : Configuration \cup {NoByte}]

IRQs == {0, 1, 3, 12}        \* timer, keyboard and mouse; and a line the kernel has no handler for
Running == [irq : IRQs, at : {"read", "body", "eoi2", "eoi1"}]

ASSUME BootAssumption == /\ Configs \subseteq Configuration /\ KeyBytes \subseteq Configuration
                         /\ NoByte \notin Configuration \cup Bytes \cup Running

VARIABLES pc,          \* KernelMain is at BootOrder[pc]
          flag,        \* the interrupt flag outside the handlers
          irr, imr,    \* latched and masked requests
          isr1, isr2,  \* requests in service, in each controller
          masks,       \* a1 and a2: what was masked before the controllers were set up
          handler,     \* the handler that runs, and where it is
          config,      \* configuration byte of the 8042
          status,      \* Status of InitPS2, and whose byte it was made of
          out, last,   \* its output buffer, and the byte port 0x60 gives when that is empty
          acks, answer,\* answers the mouse, and the 8042 itself, still have to give
          stream       \* the mouse reports movements

boot == <<pc, flag, masks, status>>
pic == <<irr, imr, isr1, isr2>>
ps2 == <<config, out, last, acks, answer, stream>>
bootVars == <<boot, pic, handler, ps2>>
-----------------------------------------------------------------------------
BootOrder ==
    <<"GDT", "UEFI", "PageAllocator", "PageTable", "Heap", "Fonts", "Renderer", "PIT", "RTC",
      "LIDT", "ReadMasks", "ICW", "WriteMasks",
      "EnableMouse", "AskStatus", "ReadStatus", "WriteStatus", "Defaults", "ReadAck", "Report", "ReadAck",
      "EnableInterrupts", "STI", "ACPI", "PCI", "AHCI", "Compositor", "Loop">>

Done == {BootOrder[i] : i \in 1..(pc - 1)}
At(step) == pc <= Len(BootOrder) /\ BootOrder[pc] = step
InitPS2 == {"EnableMouse", "AskStatus", "ReadStatus", "WriteStatus", "Defaults", "ReadAck", "Report"}

\* What a step, and what a handler, finds initialised.
Uses(step) == CASE step = "PageTable" -> {"PageAllocator"}
                [] step = "Heap" -> {"PageAllocator", "PageTable"}
                [] step = "LIDT" -> {"GDT"}
                [] step = "PCI" -> {"ACPI", "PageTable"}
                [] step = "AHCI" -> {"PCI", "PageTable"}
                [] step = "Compositor" -> {"Heap"}
                [] step = "Loop" -> {"Heap", "Fonts", "Renderer", "Compositor", "STI"}
                [] OTHER -> {}
HandlerUses(irq) == CASE irq = 0 -> {"PIT", "RTC"} [] irq = 12 -> {"Renderer"} [] OTHER -> {}

Cascade(irq) == IF irq < 8 THEN irq ELSE 2
Vector(irq) == IF irq < 8 THEN 32 + irq ELSE 40 + (irq - 8)
Gates == {0, 2, 3, 4, 5, 6, 7, 8, 10, 11, 12, 13, 14, 16} \cup {32, 33, 44}
Masked == {3}                \* of IRQs, by 11111000 and 11101111

Stale == Byte("stale", NoByte)

\* The lines a full output buffer holds up.
Raised(buffer, conf) ==
    IF buffer = NoByte THEN {}
    ELSE IF buffer.from = "mouse" THEN {12 : x \in {c \in {conf} : c.irq12}}
    ELSE {1 : x \in {c \in {conf} : c.irq1}}

\* What is latched once the lines are those of out' and config'.
Latch(requests) ==
    LET before == Raised(out, config)
        after == Raised(out', config')
    IN irr' \in {requests \cup (after \ before), (requests \ (before \ after)) \cup (after \ before)}
-----------------------------------------------------------------------------
BootInit == /\ pc = 1 /\ flag = FALSE /\ masks = {} /\ status = NoByte /\ handler = NoByte
            /\ irr = {} /\ imr \in {IRQs, {0}} /\ isr1 = {} /\ isr2 = {}
            /\ config \in Configs /\ out = NoByte /\ last = Stale
            /\ acks = 0 /\ answer = FALSE /\ stream = FALSE

Advance == handler = NoByte /\ pc' = pc + 1

\* The steps of KernelMain that no interrupt depends on but through their order.
Plain == /\ pc <= Len(BootOrder)
         /\ BootOrder[pc] \notin InitPS2 \cup {"ReadMasks", "ICW", "WriteMasks", "EnableInterrupts", "STI"}
         /\ Advance /\ UNCHANGED <<flag, masks, status, pic, handler, ps2>>

ReadMasks == /\ At("ReadMasks") /\ Advance /\ masks' = imr
             /\ UNCHANGED <<flag, status, pic, handler, ps2>>

\* ICW1 to ICW4: the first of them forgets the masks and all requests.
ICW == /\ At("ICW") /\ Advance
       /\ irr' = {} /\ imr' = {} /\ isr1' = {} /\ isr2' = {}
       /\ UNCHANGED <<flag, masks, status, handler, ps2>>

WriteMasks == /\ At("WriteMasks") /\ Advance /\ imr' = masks
              /\ UNCHANGED <<flag, masks, status, irr, isr1, isr2, handler, ps2>>

EnableInterrupts == /\ At("EnableInterrupts") /\ Advance /\ imr' = Masked
                    /\ UNCHANGED <<flag, masks, status, irr, isr1, isr2, handler, ps2>>

STI == At("STI") /\ Advance /\ flag' = TRUE /\ UNCHANGED <<masks, status, pic, handler, ps2>>

\* Port 0x60 gives the byte in the buffer, or once more the one before it.
Given == IF out = NoByte THEN last ELSE out
ReadPort == out' = NoByte /\ last' = Given

EnableMouse == /\ At("EnableMouse") /\ Advance
               /\ config' = [config EXCEPT !.mouseOff = FALSE]
               /\ UNCHANGED <<flag, masks, status, pic, handler, out, last, acks, answer, stream>>

AskStatus == /\ At("AskStatus") /\ Advance /\ answer' = TRUE
             /\ UNCHANGED <<flag, masks, status, pic, handler, config, out, last, acks, stream>>

\* MouseWaitInput waits for any byte, and any is taken for the answer, which the 8042 gives
\* long before its timeout.
ReadStatus == /\ At("ReadStatus") /\ Advance /\ out # NoByte
              /\ status' = Byte(out.from, [out.bits EXCEPT !.irq12 = TRUE])
              /\ ReadPort /\ UNCHANGED config /\ Latch(irr)
              /\ UNCHANGED <<flag, masks, imr, isr1, isr2, handler, acks, answer, stream>>

WriteStatus == /\ At("WriteStatus") /\ Advance /\ config' = status.bits
               /\ UNCHANGED out /\ Latch(irr)
               /\ UNCHANGED <<flag, masks, status, imr, isr1, isr2, handler, last, acks, answer, stream>>

\* 0xF6, set defaults, and 0xF4, report movements: the mouse acknowledges both.
Defaults == /\ At("Defaults") /\ Advance /\ acks' = acks + 1
            /\ UNCHANGED <<flag, masks, status, pic, handler, config, out, last, answer, stream>>
Report == /\ At("Report") /\ Advance /\ acks' = acks + 1 /\ stream' = TRUE
          /\ UNCHANGED <<flag, masks, status, pic, handler, config, out, last, answer>>

\* MouseRead; an empty buffer is read when the mouse took longer than the timeout.
ReadAck == /\ At("ReadAck") /\ Advance
           /\ ReadPort /\ UNCHANGED config /\ Latch(irr)
           /\ UNCHANGED <<flag, masks, status, imr, isr1, isr2, handler, acks, answer, stream>>
-----------------------------------------------------------------------------
\* A byte arrives in the empty buffer of the 8042.
Answer == /\ answer /\ out = NoByte /\ answer' = FALSE
          /\ out' = Byte("controller", config) /\ UNCHANGED config /\ Latch(irr)
          /\ UNCHANGED <<boot, imr, isr1, isr2, handler, last, acks, stream>>

Ack == /\ acks > 0 /\ out = NoByte /\ acks' = acks - 1
       /\ out' = Byte("mouse", NoByte) /\ UNCHANGED config /\ Latch(irr)
       /\ UNCHANGED <<boot, imr, isr1, isr2, handler, last, answer, stream>>

Movement == /\ stream /\ acks = 0 /\ ~config.mouseOff /\ out = NoByte
            /\ out' = Byte("mouse", NoByte) /\ UNCHANGED config /\ Latch(irr)
            /\ UNCHANGED <<boot, imr, isr1, isr2, handler, last, acks, answer, stream>>

\* Nothing in the kernel keeps keys away: one may be hit, and its byte lie there, from the start.
KeyHit == /\ ~config.keyOff /\ out = NoByte
          /\ \E bits \in KeyBytes : out' = Byte("key", bits)
          /\ UNCHANGED config /\ Latch(irr)
          /\ UNCHANGED <<boot, imr, isr1, isr2, handler, last, acks, answer, stream>>

\* The timer, or a device the firmware left running.
Pulse == /\ \E irq \in {0, 3} : irr' = irr \cup {irq}
         /\ UNCHANGED <<boot, imr, isr1, isr2, handler, ps2>>
-----------------------------------------------------------------------------
Body(irq) == [irq |-> irq, at |-> IF irq = 0 THEN "body" ELSE "read"]

\* The processor takes the request of the highest priority; the gate clears the flag.
Deliver(irq) ==
    /\ flag /\ handler = NoByte /\ irq \in irr \ imr
    /\ \A other \in irr \ imr : Cascade(irq) <= Cascade(other)
    /\ \A other \in isr1 : Cascade(irq) < other
    /\ irq >= 8 => isr2 = {}
    /\ handler' = Body(irq)
    /\ irr' = irr \ {irq}
    /\ isr1' = isr1 \cup {Cascade(irq)}
    /\ isr2' = IF irq < 8 THEN isr2 ELSE isr2 \cup {irq}
    /\ UNCHANGED <<boot, imr, ps2>>

\* Slip: the handler leaves the byte where it is.
HandlerReadsNot == /\ handler # NoByte /\ handler.at = "read"
                   /\ handler' = [handler EXCEPT !.at = "body"]
                   /\ UNCHANGED <<boot, pic, ps2>>
\* IO::InByte(0x60), the first statement of Keyboard and of Mouse.
HandlerReads == /\ handler # NoByte /\ handler.at = "read"
                /\ ReadPort /\ UNCHANGED config /\ Latch(irr)
                /\ handler' = [handler EXCEPT !.at = "body"]
                /\ UNCHANGED <<boot, imr, isr1, isr2, acks, answer, stream>>

\* Slip: the mouse handler, too, ends it in the first controller only.
HandlerBodyOne == /\ handler # NoByte /\ handler.at = "body"
                  /\ handler' = [handler EXCEPT !.at = "eoi1"]
                  /\ UNCHANGED <<boot, pic, ps2>>
HandlerBody == /\ handler # NoByte /\ handler.at = "body"
               /\ handler' = [handler EXCEPT !.at = IF handler.irq = 12 THEN "eoi2" ELSE "eoi1"]
               /\ UNCHANGED <<boot, pic, ps2>>

\* An end of interrupt ends the one of the highest priority in service.
Ended(isr) == IF isr = {} THEN {} ELSE isr \ {Min(isr)}

EOI2 == /\ handler # NoByte /\ handler.at = "eoi2"
        /\ isr2' = Ended(isr2) /\ handler' = [handler EXCEPT !.at = "eoi1"]
        /\ UNCHANGED <<boot, irr, imr, isr1, ps2>>

EOI1 == /\ handler # NoByte /\ handler.at = "eoi1"
        /\ isr1' = Ended(isr1) /\ handler' = NoByte
        /\ UNCHANGED <<boot, irr, imr, isr2, ps2>>
-----------------------------------------------------------------------------
KernelMain == \/ Plain \/ ReadMasks \/ ICW \/ WriteMasks \/ EnableInterrupts \/ STI
              \/ EnableMouse \/ AskStatus \/ ReadStatus \/ WriteStatus \/ Defaults \/ Report \/ ReadAck
Handler == HandlerReads \/ HandlerBody \/ EOI2 \/ EOI1
Hardware == Answer \/ Ack \/ Movement \/ KeyHit \/ Pulse

BootNext == KernelMain \/ Handler \/ Hardware \/ \E irq \in IRQs : Deliver(irq)

\* KernelMain and the handlers are run, the 8042 answers, and a request is taken in the end.
BootSpec == /\ BootInit /\ [][BootNext]_bootVars
            /\ WF_bootVars(KernelMain) /\ WF_bootVars(Handler) /\ WF_bootVars(Answer)
            /\ SF_bootVars(Deliver(0)) /\ SF_bootVars(Deliver(1)) /\ SF_bootVars(Deliver(12))
-----------------------------------------------------------------------------
BootTypeOK == /\ pc \in 1..(Len(BootOrder) + 1) /\ flag \in BOOLEAN
              /\ irr \subseteq IRQs /\ imr \subseteq IRQs /\ masks \subseteq IRQs
              /\ isr1 \subseteq {0, 1, 2, 3} /\ isr2 \subseteq {12}
              /\ handler \in Running \cup {NoByte}
              /\ config \in Configuration /\ status \in Bytes \cup {NoByte}
              /\ out \in Bytes \cup {NoByte} /\ last \in Bytes
              /\ acks \in 0..2 /\ answer \in BOOLEAN /\ stream \in BOOLEAN

(* No interrupt is taken whose vector SetHandler has given no gate: the     *)
(* devices that firmware left running stay masked, from ICW1 on, which      *)
(* unmasks all of them, until the last step of SetupInterrupts.             *)
GatedOnly == handler # NoByte => "LIDT" \in Done /\ Vector(handler.irq) \in Gates

(* The order of KernelMain: no step runs, and no interrupt is taken, before *)
(* everything it uses was initialised.  Interrupts are on for the last      *)
(* third of it.                                                             *)
NothingEarly == /\ pc <= Len(BootOrder) => Uses(BootOrder[pc]) \subseteq Done
                /\ handler # NoByte => HandlerUses(handler.irq) \subseteq Done

(* Every handler acknowledges exactly the controllers that raised it: when  *)
(* none runs, nothing is in service, and no later request is held back.     *)
Acknowledged == handler = NoByte => isr1 = {} /\ isr2 = {}

\* A scan code was there when InitPS2 looked for the answer to its question.
Misread == status # NoByte /\ status.from = "key"

(* InitPS2 changes the bits of the controller it means to change and no     *)
(* others: "Set the compaq status bit" (Mouse.cpp:94), unless a key was hit *)
(* before the 8042 answered: then the scan code is the configuration.       *)
OnlyCompaqBit == [][\/ config' \in {config, [config EXCEPT !.irq12 = TRUE], [config EXCEPT !.mouseOff = FALSE]}
                    \/ Misread]_bootVars

\* How many bytes the keyboard handler, or the mouse handler, has yet to read for its requests.
Owed(irq) == (IF irq \in irr THEN 1 ELSE 0) + (IF handler = [irq |-> irq, at |-> "read"] THEN 1 ELSE 0)
InStep == "STI" \in Done /\ \A irq \in {1, 12} : Owed(irq) = IF irq \in Raised(out, config) THEN 1 ELSE 0

(* Once every request belongs to the byte in the buffer, each handler reads *)
(* the byte it was called for, for ever: no handler takes the other's byte, *)
(* none reads twice, and none finds the port empty.                         *)
StaysInStep == [][InStep => InStep']_bootVars

\* The timer leaves the processor to others now and then.
TimerRests == []<>(handler = NoByte /\ 0 \notin irr)

(* A byte in the controller is always taken in the end: it blocks all later *)
(* ones, of the other device too.  A configuration that is a scan code may  *)
(* leave it there, with the keyboard's interrupt off.                       *)
BytesTaken == TimerRests => [](out # NoByte => <>(out = NoByte \/ Misread))

(* The kernel's way to its loop, and from there on.                        *)
BootOrderly == BootTypeOK /\ GatedOnly /\ NothingEarly /\ Acknowledged

(* The one byte of the 8042 that keyboard, mouse and controller share:     *)
(* no handler takes another's, and nothing but an answer is written back.  *)
SharedByte == StaysInStep /\ OnlyCompaqBit
=============================================================================
