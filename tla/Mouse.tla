-------------------------------- MODULE Mouse --------------------------------
(***************************************************************************)
(* The mouse driver between the three-byte packets of a PS/2 mouse and     *)
(* Mouse::Position.  Each byte is one interrupt: the handler in            *)
(* Handlers.cpp puts it into MousePacket, and after the third byte         *)
(* HandleMousePacket moves the mouse and MouseInterupt takes the buttons.  *)
(* A byte may get lost on the way (the controller holds one byte and       *)
(* interrupts may be off), and the answer to the last command of InitPS2   *)
(* may come after MouseWaitInput has given up waiting for it, as a byte    *)
(* like the others.                                                        *)
(***************************************************************************)
EXTENDS Integers, Sequences

CONSTANTS Moves,            \* the packets the mouse sends: <<byte, byte, byte>>
          Width, Height,    \* the screen
          StartX, StartY,   \* 500, 500 in the source
          MaxLost           \* bounds the bytes that get lost

PacketByte == 0 .. 255

Bit(b, n) == (b \div 2^n) % 2 = 1

(* The first byte of a packet has bit 3 set, which the handler waits for.  *)
MovesAssumption == /\ Moves \subseteq PacketByte \X PacketByte \X PacketByte
                   /\ \A p \in Moves : Bit(p[1], 3)
ScreenAssumption == /\ Width \in Nat /\ Height \in Nat /\ Width >= 8 /\ Height >= 16
                    /\ StartX \in Nat /\ StartY \in Nat
LostAssumption == MaxLost \in Nat

MouseAssumption == MovesAssumption /\ ScreenAssumption /\ LostAssumption

ACK == 250        \* 0xFA, the mouse's answer to a command

VARIABLES wire,      \* the bytes of the mouse's answer or packet still to come
          MouseCycle, MousePacket,
          X, Y,      \* Mouse::Position
          held,      \* the buttons MouseInterupt saw last: left, middle, right
          sent,      \* the packet that the mouse sent last
          lost,      \* bytes lost so far
          spurious,  \* the answer came late
          handled    \* a packet has been handled

mouseVars == <<wire, MouseCycle, MousePacket, X, Y, held, sent, lost, spurious, handled>>

MouseTypeOK == /\ wire \in {w \in Seq(PacketByte) : Len(w) <= 3}
               /\ MouseCycle \in 0 .. 2
               /\ MousePacket \in [0 .. 2 -> PacketByte]
               /\ X \in Int /\ Y \in Int
               /\ held \in [1 .. 3 -> BOOLEAN]
               /\ sent \in Moves \cup {<<8, 0, 0>>}
               /\ lost \in 0 .. MaxLost
               /\ spurious \in BOOLEAN /\ handled \in BOOLEAN

MouseInit == /\ spurious \in BOOLEAN
             /\ wire = IF spurious THEN <<ACK>> ELSE <<>>
             /\ MouseCycle = 0
             /\ MousePacket = [i \in 0 .. 2 |-> 0]
             /\ X = StartX /\ Y = StartY
             /\ held = [i \in 1 .. 3 |-> FALSE]
             /\ sent = <<8, 0, 0>>
             /\ lost = 0
             /\ handled = FALSE

-----------------------------------------------------------------------------
(* The mouse.                                                              *)
Send == /\ wire = <<>>
        /\ \E p \in Moves : sent' = p /\ wire' = p
        /\ UNCHANGED <<MouseCycle, MousePacket, X, Y, held, lost, spurious, handled>>

Lose == /\ wire # <<>>
        /\ lost < MaxLost
        /\ wire' = Tail(wire)
        /\ lost' = lost + 1
        /\ UNCHANGED <<MouseCycle, MousePacket, X, Y, held, sent, spurious, handled>>

-----------------------------------------------------------------------------
(* HandleMousePacket                                                       *)

Clamp(n, upper) == IF n < 0 THEN 0 ELSE IF n > upper THEN upper ELSE n

(* Slip: the sign bit is not told from the movement. *)
DistanceUnsigned(b, sign) == b

(* 256 - b in eight bits: a movement of -256 becomes none.                 *)
Distance(b, sign) == IF sign THEN -((256 - b) % 256) ELSE b

Buttons(b) == [i \in 1 .. 3 |-> Bit(b, CASE i = 1 -> 0 [] i = 2 -> 1 [] i = 3 -> 2)]

(* The packet as it is when its last byte b has come.                      *)
HandleMousePacket(b) ==
    /\ X' = Clamp(X + Distance(MousePacket[1], Bit(MousePacket[0], 4)), Width - 8)
    /\ Y' = Clamp(Y - Distance(b, Bit(MousePacket[0], 5)), Height - 16)
    /\ held' = Buttons(MousePacket[0])
    /\ handled' = TRUE

Starts(b) == Bit(b, 3)

NextCycle == (MouseCycle + 1) % 3

(* The interrupt handler Mouse.                                            *)
Interrupt ==
    /\ wire # <<>>
    /\ wire' = Tail(wire)
    /\ LET b == Head(wire) IN
       IF MouseCycle = 0 /\ ~Starts(b)
       THEN UNCHANGED <<MouseCycle, MousePacket, X, Y, held, handled>>
       ELSE /\ MousePacket' = [MousePacket EXCEPT ![MouseCycle] = b]
            /\ MouseCycle' = NextCycle
            /\ IF MouseCycle = 2 THEN HandleMousePacket(b)
                                 ELSE UNCHANGED <<X, Y, held, handled>>
    /\ UNCHANGED <<sent, lost, spurious>>

MouseNext == Send \/ Lose \/ Interrupt

(* A fair mouse: it goes on moving, and its bytes raise interrupts.        *)
MouseSpec == MouseInit /\ [][MouseNext]_mouseVars /\ WF_mouseVars(Send) /\ WF_mouseVars(Interrupt)

-----------------------------------------------------------------------------
(* Whatever bytes come, in whatever order and however many get lost, the   *)
(* cursor is on the screen once a packet has been handled.                 *)
OnScreen == handled => X \in 0 .. Width - 8 /\ Y \in 0 .. Height - 16

(* The position of a packet that has come in full is that of its bytes in  *)
(* the packet.                                                             *)
Aligned == MouseCycle = (3 - Len(wire)) % 3

(* As long as no byte was lost and no answer came late the driver is never *)
(* out of step with the mouse.                                             *)
AlignedUntilLoss == lost = 0 /\ ~spurious => Aligned

(* A click that MouseInterupt sees is one that the mouse sent, and the     *)
(* mouse moves as far as it said (but for a movement of -256), again until *)
(* the first byte is lost.                                                 *)
Signed(b, sign) == IF sign THEN b - 256 ELSE b
HandledAsSent ==
    [][Interrupt /\ MouseCycle = 2 /\ lost = 0 /\ ~spurious =>
          /\ held' = Buttons(sent[1])
          /\ LET dx == Signed(sent[2], Bit(sent[1], 4)) IN
             dx # -256 => X' = Clamp(X + dx, Width - 8)
          /\ LET dy == Signed(sent[3], Bit(sent[1], 5)) IN
             dy # -256 => Y' = Clamp(Y - dy, Height - 16)]_mouseVars

(* After the last loss the driver finds the beginning of a packet again,   *)
(* provided that movements keep bit 3 clear: it skips such bytes only where*)
(* it waits for the first one.                                             *)
BackInStep == <>[]Aligned

(* Whatever bytes get lost, the mouse stays on the screen, and it moves as *)
(* far, and presses what it said, until one is lost or comes late.         *)
MouseSafe == MouseTypeOK /\ OnScreen /\ AlignedUntilLoss
MouseRight == []MouseSafe /\ HandledAsSent
=============================================================================
