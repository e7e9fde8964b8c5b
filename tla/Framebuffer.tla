---------------------------- MODULE Framebuffer ----------------------------
(***************************************************************************)
(* Framebuffer.cpp over the memory of a process' frame buffer, as          *)
(* Process.cpp allocates it: a pixel more to each line and a line more     *)
(* than it shows, since PutPixel takes a column and a row too many.        *)
(*                                                                         *)
(* Memory is a function of pixels.  A font is one character of it and the  *)
(* first row of the next; Print is taken character by character.           *)
(***************************************************************************)
EXTENDS Integers, FiniteSets, FiniteSetsExt

CONSTANTS Width, Height, Edge, GlyphW, GlyphH, Ink, Corner, Scales, Amounts,
          NextInk,        \* the ink of the next character's first row
          Colour, High, Low, Black, Foreground, Background,  \* colours
          NewLineOffset,  \* where a line of text starts
          MaxOps          \* bound: how many operations

(* A line of text holds a character; a scroll is not higher than the       *)
(* buffer; Scale is 1 unless a caller says otherwise.                      *)
FramebufferAssumption ==
    /\ {Width, Height, Edge, GlyphW, GlyphH} \subseteq Nat \ {0}
    /\ NewLineOffset \in Nat /\ MaxOps \in Nat
    /\ Corner \subseteq Int \X Int
    /\ 1 \in Scales
    /\ \A s \in Scales : s \in Nat \ {0} /\ NewLineOffset + s * GlyphW <= Width
    /\ Amounts \subseteq 0 .. Height
    /\ Foreground # Background

Pitch == Width + 1              \* PixelsPerScanline
Length == (Height + 1) * Pitch  \* Size / 4

VARIABLES memory,  \* what is at Base
          past,    \* history: the pixels written at Base + Length or later, or
                   \* before Base
          cursor,  \* Pos, where Print is
          last,    \* history: the character printed last, and its scale
          ops      \* operations so far

bufferVars == <<memory, past, cursor, last, ops>>

Index(x, y) == x + y * Pitch

BufferInit == /\ memory = [i \in 0 .. Length - 1 |-> i]
              /\ past = {}
              /\ cursor \in Corner
              /\ last = <<0, 1>> /\ ops = 0

(* Stores of the colours that a function gives to pixels.                  *)
Stored(colours) ==
    /\ memory' = [i \in 0 .. Length - 1 |-> IF i \in DOMAIN colours THEN colours[i]
                                                                    ELSE memory[i]]
    /\ past' = past \cup {i \in DOMAIN colours : i \notin 0 .. Length - 1}

All(S, c) == [i \in S |-> c]

(* The bounds of PutPixel and DrawRect: one more than there are.           *)
Taken(x, y) == x \in 0 .. Width /\ y \in 0 .. Height

Indices(points) == {Index(q[1], q[2]) : q \in points}

PutPixels(points) == Indices({q \in points : Taken(q[1], q[2])})

Operation == ops < MaxOps /\ ops' = ops + 1
-----------------------------------------------------------------------------
PutPixel == /\ Operation
            /\ \E a \in Corner : Stored(All(PutPixels({a}), Colour))
            /\ UNCHANGED <<cursor, last>>

DrawRect ==
    /\ Operation
    /\ \E a, b \in Corner :
         /\ Taken(a[1], a[2]) /\ Taken(b[1], b[2])
         /\ Stored(All(Indices((a[1] .. b[1] - 1) \X (a[2] .. b[2] - 1)), Colour))
    /\ UNCHANGED <<cursor, last>>

(* The strips above and below, then the ones at the sides, which reach     *)
(* over the corners, then the two corners where both colours meet.         *)
Strips(a, b) ==
    LET above == PutPixels((a[1] - Edge .. b[1] + Edge - 1) \X (a[2] - Edge .. a[2] - 1))
        below == PutPixels((a[1] - Edge .. b[1] + Edge - 1) \X (b[2] .. b[2] + Edge - 1))
        left  == PutPixels((a[1] - Edge .. a[1] - 1) \X (a[2] - Edge .. b[2] + Edge - 1))
        right == PutPixels((b[1] .. b[1] + Edge - 1) \X (a[2] - Edge .. b[2] + Edge - 1))
        corner(x, y, h) == PutPixels({q \in (x .. x + Edge - 1) \X (y .. y + Edge - 1) :
                                        (q[1] - x + q[2] - y < Edge) = h})
        corners(h) == corner(b[1], a[2] - Edge, h) \cup corner(a[1] - Edge, b[2], h)
        high  == ((((above \ below) \cup left) \ right) \ corners(FALSE)) \cup corners(TRUE)
    IN  [i \in above \cup below \cup left \cup right \cup corners(TRUE) \cup corners(FALSE)
           |-> IF i \in high THEN High ELSE Low]

DrawRectEdge == /\ Operation
                /\ \E a, b \in Corner : a[1] <= b[1] /\ a[2] <= b[2] /\ Stored(Strips(a, b))
                /\ UNCHANGED <<cursor, last>>

(* Fill goes by lines, Clear by the size of the buffer.                    *)
Fill == /\ Operation
        /\ Stored(All(Indices((0 .. Width - 1) \X (0 .. Height - 1)), Colour))
        /\ UNCHANGED <<cursor, last>>

Clear == /\ Operation
         /\ Stored(All(0 .. Length - 1, Black))
         /\ UNCHANGED <<cursor, last>>

(* Everything from Amount lines on is moved to the start, the row that is  *)
(* not shown with it, and Amount lines are emptied.                        *)
(* Slip: the lines after the last one that moved, not that is shown.       *)
EmptiedPast(n) == Height + 1 - n
Emptied(n) == Height - n

ScrollUp ==
    /\ Operation
    /\ \E n \in Amounts :
         LET moved == [i \in 0 .. Length - n * Pitch - 1 |-> memory[i + n * Pitch]]
             first == Pitch * Emptied(n)
         IN  Stored([i \in (0 .. Length - n * Pitch - 1)
                           \cup (first .. first + n * Pitch - 1) |->
                      IF i >= first /\ i < first + n * Pitch THEN Black ELSE moved[i]])
    /\ UNCHANGED <<cursor, last>>
-----------------------------------------------------------------------------
(* PutChar: the row of the glyph advances after the first line and then    *)
(* after every Scale lines, so that the first row is one line high and, at *)
(* a scale above one, the last line is the next glyph's.                   *)
RowAt(y, s) == (y + s - 1) \div s
Inked(x, row) == IF row = GlyphH THEN x \in NextInk ELSE <<x, row>> \in Ink

PutChar(at, s) ==
    LET square == {q \in (at[1] .. at[1] + s * GlyphW - 1) \X
                         (at[2] .. at[2] + s * GlyphH - 1) : Taken(q[1], q[2])}
        colour == [q \in square |-> IF Inked((q[1] - at[1]) \div s, RowAt(q[2] - at[2], s))
                                    THEN Foreground ELSE Background]
    IN  Stored([i \in Indices(square) |->
                  colour[CHOOSE q \in square : Index(q[1], q[2]) = i]])

(* Print, a character: the sums are unsigned, a column far to the left     *)
(* counts as one to the right.                                             *)
Wraps(x, s) == LET end == x + NewLineOffset + 2 * s * GlyphW
               IN  end > Width \/ end < 0

Print1 ==
    /\ Operation
    /\ \E s \in Scales :
         LET at == IF Wraps(cursor[1], s) THEN <<NewLineOffset, cursor[2] + s * GlyphH>>
                                          ELSE cursor
         IN  /\ PutChar(at, s)
             /\ cursor' = <<at[1] + s * GlyphW, at[2]>>
             /\ last' = <<at[1], s>>

(* Print, the end of a line.                                               *)
NewLine == /\ Operation
           /\ \E s \in Scales : cursor' = <<NewLineOffset, cursor[2] + s * GlyphH>>
           /\ UNCHANGED <<memory, past, last>>

BufferNext == \/ PutPixel \/ DrawRect \/ DrawRectEdge \/ Fill \/ Clear \/ ScrollUp
              \/ Print1 \/ NewLine

BufferSpec == BufferInit /\ [][BufferNext]_bufferVars
-----------------------------------------------------------------------------
(* Every variable has a value of its type, and nothing is ever written     *)
(* outside the memory that the process has allocated.                      *)
BufferTypeOK ==
    /\ DOMAIN memory = 0 .. Length - 1 /\ past = {}
    /\ cursor \in Int \X Int /\ last \in Int \X Scales /\ ops \in 0 .. MaxOps

(* A character whose start is not left of the picture is printed on one    *)
(* line: no part of it is beyond the last column.                          *)
TextInLine == last[1] + last[2] * GlyphW <= Width

(* Memory and text keep to the picture.                                    *)
InsidePicture == BufferTypeOK /\ TextInLine

(* The memory shows the picture that was drawn: the pixels and the line    *)
(* that are not shown never come into it, and no line runs into another.   *)
Shown == [p \in (0 .. Width - 1) \X (0 .. Height - 1) |-> memory[Index(p[1], p[2])]]

Picture == INSTANCE Canvas WITH
    picture <- Shown,
    Initial <- [p \in (0 .. Width - 1) \X (0 .. Height - 1) |-> Index(p[1], p[2])]
ImplementsCanvas == []InsidePicture /\ Picture!Spec
=============================================================================
