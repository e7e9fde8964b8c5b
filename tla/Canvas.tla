------------------------------- MODULE Canvas -------------------------------
(***************************************************************************)
(* What a program expects of the frame buffer that it draws in: a picture  *)
(* of Width by Height points.  Drawing changes the points that it is asked *)
(* to change, as far as they are on the picture, and no others; scrolling  *)
(* moves every line up and leaves empty ones below.                        *)
(***************************************************************************)
EXTENDS Integers

CONSTANTS Width, Height,   \* the size of the picture
          Edge,            \* how wide an edge is
          GlyphW, GlyphH,  \* the size of a character
          Ink,             \* which of its points are ink
          Corner,          \* where things are drawn
          Scales, Amounts, \* scales of characters, amounts scrolled
          Colour, High, Low, Black, Foreground, Background,  \* colours
          Initial          \* what the picture is at first

VARIABLE picture

Point == (0 .. Width - 1) \X (0 .. Height - 1)

Rect(a, b) == {p \in Point : \A d \in 1 .. 2 : a[d] <= p[d] /\ p[d] < b[d]}
Around(a, b) == Rect(<<a[1] - Edge, a[2] - Edge>>, <<b[1] + Edge, b[2] + Edge>>)
                   \ Rect(a, b)
Reaches(a) == a[1] \in 0 .. Width /\ a[2] \in 0 .. Height

(* The points of the area get one of the colours each, the others keep     *)
(* theirs.                                                                 *)
Painted(area, colours) ==
    \A p \in Point : IF p \in area THEN picture'[p] \in colours
                                   ELSE picture'[p] = picture[p]

DrawRect == \E a, b \in Corner : /\ Painted(Rect(a, b), {Colour})
                                 /\ Reaches(a) /\ Reaches(b)
DrawRectEdge == \E a, b \in Corner : Painted(Around(a, b), {High, Low})
PutPixel == \E a \in Corner : Painted({a}, {Colour})
Fill == Painted(Point, {Colour})
Clear == Painted(Point, {Black})

(* A character of scale one shows its ink; of a larger one the picture     *)
(* only promises where it is.                                              *)
Draws(at, s) ==
    /\ Painted(Rect(at, <<at[1] + s * GlyphW, at[2] + s * GlyphH>>), {Foreground, Background})
    /\ s = 1 => \A p \in Rect(at, <<at[1] + GlyphW, at[2] + GlyphH>>) :
                   picture'[p] = Foreground <=> <<p[1] - at[1], p[2] - at[2]>> \in Ink
Put == \E s \in Scales : \E x \in -(s * GlyphW) .. Width, y \in -(s * GlyphH) .. Height :
          Draws(<<x, y>>, s)

ScrollUp ==
    \E n \in Amounts :
      picture' = [p \in Point |-> IF p[2] + n < Height THEN picture[<<p[1], p[2] + n>>]
                                                       ELSE Black]

Init == picture = Initial

Next == DrawRect \/ DrawRectEdge \/ PutPixel \/ Fill \/ Clear \/ Put \/ ScrollUp

Spec == Init /\ [][Next]_picture
=============================================================================
