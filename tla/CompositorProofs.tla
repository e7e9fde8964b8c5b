-------------------------- MODULE CompositorProofs --------------------------
(***************************************************************************)
(* What TLAPS proves of Compositor, for any number of processes and places,*)
(* and of Framebuffer, for any size of buffer and of font.                 *)
(***************************************************************************)
EXTENDS Compositor, Framebuffer, TLAPS

(* What main code has rendered and copied when no interrupt has overtaken  *)
(* it: a redraw has rendered the processes before main.i, and the screen   *)
(* is current once Backbuffer is copied.                                   *)
Served ==
    /\ main.all => main.pc \notin {"idle", "look", "render"}
    /\ ~overtaken /\ main.all =>
         /\ redraw
         /\ main.pc = "all" => \A j \in staleBack : main.i <= j
         /\ main.pc # "all" => staleBack = {}
    /\ main.pc = "all" => main.all
    /\ ~overtaken /\ (main.all \/ ~redraw) /\ main.pc \in {"restore", "reset"} =>
         staleFront = {}

(* Where SwapBuffers is with the cursor and with DrawMouse.                *)
CursorSaved == main.pc \in {"copy", "restore"} => cursorBack \subseteq {main.pos}

InHide    == draw /\ wish /\ cursorFront \subseteq {old} /\ main.todo = Place
InCopy    == /\ ~draw
             /\ main.pos = None => ~wish
             /\ main.pos # None => wish /\ old = main.pos
             /\ cursorFront \subseteq main.todo \cup {old}
InRestore == ~draw /\ wish /\ old = main.pos /\ cursorFront \subseteq {old}

InSwap == ~meddled => /\ main.pc = "hide" => InHide
                      /\ main.pc = "copy" => InCopy
                      /\ main.pc = "restore" => InRestore

(* The picture and the cursor are separate parts of the invariant.         *)
Current == NothingForgotten /\ Served
Cursor  == BackHasNoCursor /\ CursorSaved /\ OneCursor /\ DrawMouseKept /\ InSwap

Inv == TypeOK /\ Current /\ Cursor

LEMMA InitInv == Init => Inv
<1> USE CompositorAssumption
<1> SUFFICES ASSUME Init PROVE Inv
  OBVIOUS
<1>1. TypeOK
  <2>1. main \in [pc : {"idle", "look", "render", "all", "swap", "hide", "copy",
                        "restore", "reset"},
                  i : 1 .. N + 1, all : BOOLEAN, pos : Place \cup {None},
                  todo : SUBSET Place]
    BY DEF Init
  <2> QED BY <2>1 DEF Init, TypeOK
<1>2. Current
  BY DEF Init, Current, NothingForgotten, Served
<1>3. Cursor
  BY DEF Init, Cursor, BackHasNoCursor, CursorSaved, OneCursor, DrawMouseKept, InSwap,
         Swapping
<1> QED BY <1>1, <1>2, <1>3 DEF Inv

-----------------------------------------------------------------------------
(***************************************************************************)
(* Types.                                                                  *)
(***************************************************************************)
LEMMA NextType == TypeOK /\ [Next]_vars => TypeOK'
<1> USE CompositorAssumption
<1> SUFFICES ASSUME TypeOK, [Next]_vars PROVE TypeOK'
  OBVIOUS
<1>1. CASE Draw
  <2>1. PICK i \in Proc : /\ staleBack' = staleBack \cup {i}
                          /\ staleFront' = staleFront \cup {i}
                          /\ main' = [main EXCEPT !.pc = "look", !.i = i]
    BY <1>1 DEF Draw
  <2>2. i \in 1 .. N + 1
    BY DEF Proc
  <2> QED BY <1>1, <2>1, <2>2 DEF Draw, TypeOK, flags, cursors, sets
<1>2. CASE Look
  BY <1>2 DEF Look, TypeOK, shown, cursors, sets, At, Goto
<1>3. CASE Render
  BY <1>3 DEF Render, TypeOK, cursors, sets, At, Goto
<1>4. CASE Update
  <2>1. main' = [main EXCEPT !.pc = IF redraw THEN "all" ELSE "swap", !.i = 1,
                             !.all = redraw]
    BY <1>4 DEF Update
  <2>2. 1 \in 1 .. N + 1 /\ redraw \in BOOLEAN
    BY DEF TypeOK
  <2>3. (IF redraw THEN "all" ELSE "swap") \in {"all", "swap"}
    OBVIOUS
  <2>4. main' \in [pc : {"idle", "look", "render", "all", "swap", "hide", "copy",
                         "restore", "reset"},
                   i : 1 .. N + 1, all : BOOLEAN, pos : Place \cup {None},
                   todo : SUBSET Place]
    BY <2>1, <2>2, <2>3, Zenon DEF TypeOK
  <2> QED BY <1>4, <2>4 DEF Update, TypeOK, shown, cursors, sets
<1>5. CASE RenderAll
  BY <1>5 DEF RenderAll, TypeOK, flags, cursors, sets, At, Goto, Listed
<1>6. CASE Test
  BY <1>6 DEF Test, TypeOK, shown, flags, cursors, sets, At
<1>7. CASE Hide
  BY <1>7 DEF Hide, TypeOK, shown, flags, sets, At
<1>8. CASE Copy
  BY <1>8 DEF Copy, TypeOK, flags, sets, At, Goto, CopiedAt
<1>9. CASE Restore
  BY <1>9 DEF Restore, TypeOK, shown, flags, sets, At, Goto, DrawAgain
<1>10. CASE Reset
  BY <1>10 DEF Reset, TypeOK, shown, cursors, sets, At, Goto
<1>11. CASE Change
  BY <1>11 DEF Change, TypeOK, cursors, sets, Requested
<1>12. CASE MoveMouse
  BY <1>12 DEF MoveMouse, TypeOK, shown, flags, sets, Cleaned, CopiedAt
<1>13. CASE SetDrawMouse
  BY <1>13 DEF SetDrawMouse, TypeOK, shown, flags
<1>14. CASE UNCHANGED vars
  BY <1>14 DEF TypeOK, vars, shown, flags, cursors, sets
<1> QED
  BY <1>1, <1>2, <1>3, <1>4, <1>5, <1>6, <1>7, <1>8, <1>9, <1>10, <1>11, <1>12, <1>13,
     <1>14 DEF Next, Loop

-----------------------------------------------------------------------------
(***************************************************************************)
(* The picture: only drawing, rendering, copying and changes of windows    *)
(* disturb it.                                                             *)
(***************************************************************************)
LEMMA NextPicture == TypeOK /\ Current /\ [Next]_vars => Current'
<1> USE CompositorAssumption DEF Current, NothingForgotten, Served, At, Goto
<1> SUFFICES ASSUME TypeOK, Current, [Next]_vars PROVE Current'
  OBVIOUS
<1>1. CASE Draw
  BY <1>1 DEF Draw, flags, TypeOK
<1>2. CASE Look
  BY <1>2 DEF Look, shown, TypeOK
<1>3. CASE Render
  BY <1>3 DEF Render, TypeOK
<1>4. CASE Update
  BY <1>4 DEF Update, shown, TypeOK, Proc
<1>5. CASE RenderAll
  BY <1>5 DEF RenderAll, flags, TypeOK, Listed, Proc
<1>6. CASE Test
  BY <1>6 DEF Test, shown, flags, TypeOK
<1>7. CASE Hide
  BY <1>7 DEF Hide, shown, flags, TypeOK
<1>8. CASE Copy
  BY <1>8 DEF Copy, flags, TypeOK
<1>9. CASE Restore
  BY <1>9 DEF Restore, shown, flags, TypeOK
<1>10. CASE Reset
  BY <1>10 DEF Reset, shown, TypeOK
<1>11. CASE Change
  BY <1>11 DEF Change, Requested, TypeOK
<1>12. CASE MoveMouse
  BY <1>12 DEF MoveMouse, shown, flags
<1>13. CASE SetDrawMouse
  BY <1>13 DEF SetDrawMouse, shown, flags
<1>14. CASE UNCHANGED vars
  BY <1>14 DEF vars, shown, flags
<1> QED
  BY <1>1, <1>2, <1>3, <1>4, <1>5, <1>6, <1>7, <1>8, <1>9, <1>10, <1>11, <1>12, <1>13,
     <1>14 DEF Next, Loop

-----------------------------------------------------------------------------
(***************************************************************************)
(* The cursor: drawing and rendering leave it alone.                       *)
(***************************************************************************)
LEMMA NextCursor == TypeOK /\ Cursor /\ [Next]_vars => Cursor'
<1> USE CompositorAssumption
    DEF Cursor, BackHasNoCursor, CursorSaved, OneCursor, DrawMouseKept, InSwap, InHide,
        InCopy, InRestore, Swapping, At, Goto
<1> SUFFICES ASSUME TypeOK, Cursor, [Next]_vars PROVE Cursor'
  OBVIOUS
<1>1. CASE Draw
  BY <1>1 DEF Draw, cursors, sets, TypeOK
<1>2. CASE Look
  BY <1>2 DEF Look, cursors, sets, TypeOK
<1>3. CASE Render
  BY <1>3 DEF Render, cursors, sets, TypeOK
<1>4. CASE Update
  BY <1>4 DEF Update, cursors, sets, TypeOK
<1>5. CASE RenderAll
  BY <1>5 DEF RenderAll, cursors, sets, TypeOK
<1>6. CASE Test
  BY <1>6 DEF Test, cursors, sets, TypeOK
<1>7. CASE Hide
  BY <1>7 DEF Hide, sets, TypeOK
<1>8. CASE Copy
  BY <1>8 DEF Copy, sets, TypeOK, CopiedAt
<1>9. CASE Restore
  BY <1>9 DEF Restore, sets, TypeOK, DrawAgain, SavedAt
<1>10. CASE Reset
  BY <1>10 DEF Reset, cursors, sets, TypeOK
<1>11. CASE Change
  BY <1>11 DEF Change, cursors, sets
<1>12. CASE MoveMouse
  BY <1>12 DEF MoveMouse, sets, TypeOK, Cleaned, CopiedAt
<1>13. CASE SetDrawMouse
  BY <1>13 DEF SetDrawMouse, TypeOK
<1>14. CASE UNCHANGED vars
  BY <1>14 DEF vars, cursors, sets
<1> QED
  BY <1>1, <1>2, <1>3, <1>4, <1>5, <1>6, <1>7, <1>8, <1>9, <1>10, <1>11, <1>12, <1>13,
     <1>14 DEF Next, Loop

LEMMA InvHolds == Spec => []Inv
<1>1. Inv /\ [Next]_vars => Inv'
  BY NextType, NextPicture, NextCursor DEF Inv
<1> QED BY InitInv, <1>1, PTL DEF Spec
-----------------------------------------------------------------------------
(* Every variable of the compositor keeps a value of its type.             *)
THEOREM TypeCorrect == Spec => []TypeOK
<1>1. Inv => TypeOK
  BY DEF Inv
<1> QED BY <1>1, InvHolds, PTL

(* The flags of Compositor.cpp lose no change of the picture but one that  *)
(* an interrupt makes while Update() renders.                              *)
THEOREM NoChangeIsForgotten == Spec => []NothingForgotten
<1>1. Inv => NothingForgotten
  BY DEF Inv, Current
<1> QED BY <1>1, InvHolds, PTL

(* SwapBuffers leaves no cursor in Backbuffer, and RedrawMouse finds the   *)
(* one on the screen where OldMousePos says.                               *)
THEOREM CursorIsClean == Spec => [](BackHasNoCursor /\ OneCursor)
<1>1. Inv => BackHasNoCursor /\ OneCursor
  BY DEF Inv, Cursor
<1> QED BY <1>1, InvHolds, PTL

(* DrawMouse is what set drawmouse made it, unless that ran inside         *)
(* SwapBuffers.                                                            *)
THEOREM DrawMouseIsKept == Spec => []DrawMouseKept
<1>1. Inv => DrawMouseKept
  BY DEF Inv, Cursor
<1> QED BY <1>1, InvHolds, PTL

(* The cursor is clean and DrawMouse kept, however many processes there    *)
(* are and wherever the mouse moves during SwapBuffers.                    *)
THEOREM CursorIsRight == Spec => []CursorClean
<1>1. Inv => CursorClean
  BY DEF Inv, Cursor, CursorClean
<1> QED BY <1>1, InvHolds, PTL

-----------------------------------------------------------------------------
(* Framebuffer.  Lines of Pitch pixels: an index is that of one point.     *)

LEMMA Times ==
    ASSUME NEW m \in Nat, NEW n \in Nat, NEW k \in Nat, m <= n
    PROVE  m * k <= n * k
OBVIOUS

LEMMA Sizes ==
    ASSUME FramebufferAssumption
    PROVE  /\ Width \in Nat \ {0} /\ Height \in Nat \ {0} /\ Edge \in Nat \ {0}
           /\ GlyphW \in Nat \ {0} /\ GlyphH \in Nat \ {0}
           /\ NewLineOffset \in Nat /\ MaxOps \in Nat
           /\ Pitch \in Nat /\ Pitch = Width + 1
           /\ Height * Pitch \in Nat
           /\ Length = Height * Pitch + Pitch /\ Length \in Nat
BY DEF FramebufferAssumption, Pitch, Length

Area == (0 .. Width) \X (0 .. Height)
Visible == (0 .. Width - 1) \X (0 .. Height - 1)

LEMMA IndexInside ==
    ASSUME FramebufferAssumption, NEW x \in 0 .. Width, NEW y \in 0 .. Height
    PROVE  /\ Index(x, y) \in 0 .. Length - 1
           /\ y * Pitch \in Nat /\ y * Pitch <= Height * Pitch
<1>1. y * Pitch \in Nat /\ y * Pitch <= Height * Pitch  BY Sizes, Times
<1>. DEFINE u == y * Pitch
            v == Height * Pitch
<1>2. Index(x, y) = x + u  BY DEF Index
<1>. HIDE DEF u, v
<1>. QED  BY <1>1, <1>2, Sizes DEF u, v

LEMMA IndexOnce ==
    ASSUME FramebufferAssumption, NEW x \in 0 .. Width, NEW y \in 0 .. Height,
           NEW a \in 0 .. Width, NEW b \in 0 .. Height, Index(x, y) = Index(a, b)
    PROVE  x = a /\ y = b
<1>. DEFINE u == y * Pitch
            v == b * Pitch
<1>1. u \in Nat /\ v \in Nat /\ x + u = a + v  BY Sizes, IndexInside DEF Index
<1>2. y < b => u + Pitch <= v
  <2>. SUFFICES ASSUME y < b  PROVE u + Pitch <= v
    OBVIOUS
  <2>1. (y + 1) * Pitch <= b * Pitch  BY Sizes, Times
  <2>2. (y + 1) * Pitch = y * Pitch + Pitch  BY Sizes
  <2>. QED  BY <2>1, <2>2
<1>3. b < y => v + Pitch <= u
  <2>. SUFFICES ASSUME b < y  PROVE v + Pitch <= u
    OBVIOUS
  <2>1. (b + 1) * Pitch <= y * Pitch  BY Sizes, Times
  <2>2. (b + 1) * Pitch = b * Pitch + Pitch  BY Sizes
  <2>. QED  BY <2>1, <2>2
<1>4. y = b => u = v  OBVIOUS
<1>. HIDE DEF u, v
<1>. QED  BY <1>1, <1>2, <1>3, <1>4, Sizes

LEMMA IndicesOf ==
    ASSUME FramebufferAssumption, NEW points, points \subseteq Area
    PROVE  /\ Indices(points) \subseteq 0 .. Length - 1
           /\ \A p \in Area : Index(p[1], p[2]) \in Indices(points) <=> p \in points
<1>1. Indices(points) \subseteq 0 .. Length - 1
  BY IndexInside DEF Indices, Area
<1>2. ASSUME NEW p \in Area, NEW q \in points, Index(p[1], p[2]) = Index(q[1], q[2])
      PROVE  p = q
  <2>1. p = <<p[1], p[2]>> /\ q = <<q[1], q[2]>>  BY DEF Area
  <2>2. p[1] = q[1] /\ p[2] = q[2]  BY <1>2, IndexOnce DEF Area
  <2>. QED  BY <2>1, <2>2
<1>. QED  BY <1>1, <1>2 DEF Indices

(* What stores into the memory show.                                       *)
LEMMA Stores ==
    ASSUME FramebufferAssumption, NEW colours, Stored(colours),
           DOMAIN colours \subseteq 0 .. Length - 1
    PROVE  /\ past' = past /\ DOMAIN memory' = 0 .. Length - 1
           /\ \A p \in Visible :
                Shown'[p] = IF Index(p[1], p[2]) \in DOMAIN colours
                            THEN colours[Index(p[1], p[2])] ELSE Shown[p]
<1>1. past' = past /\ DOMAIN memory' = 0 .. Length - 1  BY DEF Stored
<1>2. ASSUME NEW p \in Visible
      PROVE  Shown'[p] = IF Index(p[1], p[2]) \in DOMAIN colours
                         THEN colours[Index(p[1], p[2])] ELSE Shown[p]
  <2>1. Index(p[1], p[2]) \in 0 .. Length - 1  BY IndexInside, Sizes DEF Visible
  <2>2. Shown'[p] = memory'[Index(p[1], p[2])] /\ Shown[p] = memory[Index(p[1], p[2])]
    BY DEF Shown, Visible
  <2>. QED  BY <2>1, <2>2 DEF Stored
<1>. QED  BY <1>1, <1>2

(* Points of one colour.                                                   *)
LEMMA StoresAll ==
    ASSUME FramebufferAssumption, NEW points, points \subseteq Area, NEW c,
           Stored(All(Indices(points), c))
    PROVE  /\ past' = past /\ DOMAIN memory' = 0 .. Length - 1
           /\ \A p \in Visible : Shown'[p] = IF p \in points THEN c ELSE Shown[p]
<1>1. DOMAIN All(Indices(points), c) = Indices(points)  BY DEF All
<1>2. Indices(points) \subseteq 0 .. Length - 1  BY IndicesOf
<1>3. \A p \in Visible : p \in Area  BY Sizes DEF Visible, Area
<1>4. \A p \in Visible : Index(p[1], p[2]) \in Indices(points) <=> p \in points
  BY <1>3, IndicesOf
<1>5. /\ past' = past /\ DOMAIN memory' = 0 .. Length - 1
      /\ \A p \in Visible :
           Shown'[p] = IF Index(p[1], p[2]) \in Indices(points)
                       THEN All(Indices(points), c)[Index(p[1], p[2])] ELSE Shown[p]
  BY <1>1, <1>2, Stores
<1>. QED  BY <1>4, <1>5 DEF All

Kept == past' = past /\ DOMAIN memory' = 0 .. Length - 1

LEMMA PutPixelPaints ==
    ASSUME FramebufferAssumption, PutPixel
    PROVE  Picture!PutPixel /\ Kept
<1>1. PICK a \in Corner : Stored(All(PutPixels({a}), Colour))  BY DEF PutPixel
<1>. DEFINE points == {q \in {a} : Taken(q[1], q[2])}
<1>2. a \in Int \X Int  BY DEF FramebufferAssumption
<1>3. points \subseteq Area  BY <1>2 DEF Taken, Area
<1>4. Stored(All(Indices(points), Colour))  BY <1>1 DEF PutPixels
<1>5. \A p \in Visible : p \in points <=> p \in {a}
  BY Sizes DEF Visible, Taken
<1>. HIDE DEF points
<1>6. Kept /\ \A p \in Visible : Shown'[p] = IF p \in points THEN Colour ELSE Shown[p]
  BY <1>3, <1>4, StoresAll DEF Kept
<1>7. Picture!Painted({a}, {Colour})
  BY <1>5, <1>6 DEF Picture!Painted, Picture!Point, Visible
<1>. QED  BY <1>6, <1>7 DEF Picture!PutPixel

LEMMA DrawRectPaints ==
    ASSUME FramebufferAssumption, DrawRect
    PROVE  Picture!DrawRect /\ Kept
<1>. DEFINE points(a, b) == (a[1] .. b[1] - 1) \X (a[2] .. b[2] - 1)
<1>1. PICK a \in Corner, b \in Corner :
           /\ Taken(a[1], a[2]) /\ Taken(b[1], b[2])
           /\ Stored(All(Indices(points(a, b)), Colour))
  BY DEF DrawRect
<1>2. a[1] \in Int /\ a[2] \in Int /\ b[1] \in Int /\ b[2] \in Int
  BY DEF FramebufferAssumption
<1>3. points(a, b) \subseteq Area  BY <1>1, <1>2, Sizes DEF Taken, Area
<1>5. \A p \in Visible : p \in points(a, b) <=> p \in Picture!Rect(a, b)
  <2>1. ASSUME NEW p \in Visible  PROVE p \in points(a, b) <=> p \in Picture!Rect(a, b)
    <3>1. p = <<p[1], p[2]>> /\ p[1] \in Int /\ p[2] \in Int  BY Sizes DEF Visible
    <3>2. p \in Picture!Rect(a, b) <=> \A d \in 1 .. 2 : a[d] <= p[d] /\ p[d] < b[d]
      BY DEF Picture!Rect, Picture!Point, Visible
    <3>3. \A d : d \in 1 .. 2 <=> d = 1 \/ d = 2  OBVIOUS
    <3>. QED  BY <1>2, <3>1, <3>2, <3>3
  <2>. QED  BY <2>1
<1>. HIDE DEF points
<1>6. Kept /\ \A p \in Visible : Shown'[p] = IF p \in points(a, b) THEN Colour ELSE Shown[p]
  BY <1>1, <1>3, StoresAll DEF Kept
<1>7. Picture!Painted(Picture!Rect(a, b), {Colour})
  BY <1>5, <1>6 DEF Picture!Painted, Picture!Point, Visible
<1>. QED  BY <1>1, <1>6, <1>7 DEF Picture!DrawRect, Picture!Reaches, Taken

LEMMA FillPaints ==
    ASSUME FramebufferAssumption, Fill
    PROVE  Picture!Fill /\ Kept
<1>1. Stored(All(Indices(Visible), Colour))  BY DEF Fill, Visible
<1>2. Visible \subseteq Area  BY Sizes DEF Visible, Area
<1>3. Kept /\ \A p \in Visible : Shown'[p] = IF p \in Visible THEN Colour ELSE Shown[p]
  BY <1>1, <1>2, StoresAll DEF Kept
<1>. QED  BY <1>3 DEF Picture!Fill, Picture!Painted, Picture!Point, Visible

LEMMA ClearPaints ==
    ASSUME FramebufferAssumption, Clear
    PROVE  Picture!Clear /\ Kept
<1>. DEFINE colours == All(0 .. Length - 1, Black)
<1>1. Stored(colours) /\ DOMAIN colours = 0 .. Length - 1  BY DEF Clear, All
<1>2. \A i \in 0 .. Length - 1 : colours[i] = Black  BY DEF All
<1>. HIDE DEF colours
<1>3. Kept /\ \A p \in Visible : Shown'[p] = IF Index(p[1], p[2]) \in 0 .. Length - 1
                           THEN colours[Index(p[1], p[2])] ELSE Shown[p]
  BY <1>1, Stores DEF Kept
<1>4. \A p \in Visible : Index(p[1], p[2]) \in 0 .. Length - 1
  BY IndexInside, Sizes DEF Visible
<1>. QED  BY <1>2, <1>3, <1>4 DEF Picture!Clear, Picture!Painted, Picture!Point, Visible

(* ScrollUp in lines: Amount of them are less than the buffer.             *)
LEMMA ScrollUpPaints ==
    ASSUME FramebufferAssumption, ScrollUp
    PROVE  Picture!ScrollUp /\ Kept
<1>. DEFINE low(n) == 0 .. Length - n * Pitch - 1
            first(n) == Pitch * Emptied(n)
            high(n) == first(n) .. first(n) + n * Pitch - 1
            moved(n) == [i \in low(n) |-> memory[i + n * Pitch]]
            colours(n) == [i \in low(n) \cup high(n) |->
                             IF i >= first(n) /\ i < first(n) + n * Pitch THEN Black
                                                                         ELSE moved(n)[i]]
<1>1. PICK n \in Amounts : Stored(colours(n))  BY DEF ScrollUp
<1>2. n \in Nat /\ n <= Height  BY Sizes DEF FramebufferAssumption
<1>. DEFINE gone == n * Pitch
            stay == (Height - n) * Pitch
<1>3. gone \in Nat /\ stay \in Nat /\ Height * Pitch = stay + gone /\ Length = stay + gone + Pitch
  <2>1. Height * Pitch = (Height - n) * Pitch + n * Pitch  BY <1>2, Sizes
  <2>2. n * Pitch \in Nat /\ (Height - n) * Pitch \in Nat  BY <1>2, Sizes
  <2>. QED  BY <2>1, <2>2, Sizes
<1>4. first(n) = stay  BY <1>2, Sizes DEF Emptied
<1>5. DOMAIN colours(n) = low(n) \cup high(n)  OBVIOUS
<1>6. /\ low(n) = 0 .. stay + Pitch - 1 /\ high(n) = stay .. stay + gone - 1
      /\ \A i \in 0 .. stay + Pitch - 1 :
           colours(n)[i] = IF i >= stay /\ i < stay + gone THEN Black ELSE memory[i + gone]
      /\ \A i \in stay .. stay + gone - 1 : colours(n)[i] = Black
  <2>1. low(n) = 0 .. stay + Pitch - 1
    <3>1. Length - gone - 1 = stay + Pitch - 1
      <4>. HIDE DEF gone, stay
      <4>. QED  BY <1>3, Sizes
    <3>. QED  BY <3>1
  <2>2. high(n) = stay .. stay + gone - 1  BY <1>4
  <2>3. \A i \in low(n) : moved(n)[i] = memory[i + gone]  OBVIOUS
  <2>4. \A i \in low(n) \cup high(n) :
           colours(n)[i] = IF i >= first(n) /\ i < first(n) + gone THEN Black ELSE moved(n)[i]
    OBVIOUS
  <2>. HIDE DEF colours, moved, low, high, first, gone, stay
  <2>5. \A i \in 0 .. stay + Pitch - 1 :
           colours(n)[i] = IF i >= stay /\ i < stay + gone THEN Black ELSE memory[i + gone]
    BY <1>4, <2>1, <2>3, <2>4
  <2>6. \A i \in stay .. stay + gone - 1 : colours(n)[i] = Black
    BY <1>3, <1>4, <2>2, <2>4
  <2>. QED  BY <2>1, <2>2, <2>5, <2>6
<1>. HIDE DEF colours, low, high, gone, stay
<1>7. DOMAIN colours(n) \subseteq 0 .. Length - 1
  <2>1. Pitch \in Nat /\ Pitch > 0  BY Sizes
  <2>2. low(n) \subseteq 0 .. Length - 1  BY <1>3, <1>6, <2>1
  <2>3. high(n) \subseteq 0 .. Length - 1  BY <1>3, <1>6, <2>1
  <2>. QED  BY <1>5, <2>2, <2>3
<1>8. Kept /\ \A p \in Visible :
                Shown'[p] = IF Index(p[1], p[2]) \in DOMAIN colours(n)
                            THEN colours(n)[Index(p[1], p[2])] ELSE Shown[p]
  BY <1>1, <1>7, Stores DEF Kept
<1>9. ASSUME NEW p \in Visible
      PROVE  Shown'[p] = IF p[2] + n < Height THEN Shown[<<p[1], p[2] + n>>] ELSE Black
  <2>. DEFINE u == p[2] * Pitch
  <2>1. /\ p[1] \in Nat /\ p[1] < Width /\ p[2] \in Nat /\ p[2] < Height
    BY Sizes DEF Visible
  <2>2. u \in Nat /\ Index(p[1], p[2]) = p[1] + u  BY <2>1, Sizes DEF Index
  <2>3. u + Pitch <= stay + gone
    <3>1. (p[2] + 1) * Pitch <= Height * Pitch  BY <2>1, Sizes, Times
    <3>2. (p[2] + 1) * Pitch = p[2] * Pitch + Pitch  BY <2>1, Sizes
    <3>. QED  BY <1>3, <3>1, <3>2
  <2>4. CASE p[2] + n < Height
    <3>1. u + Pitch <= stay
      <4>1. (p[2] + 1) * Pitch <= (Height - n) * Pitch  BY <1>2, <2>1, <2>4, Sizes, Times
      <4>2. (p[2] + 1) * Pitch = p[2] * Pitch + Pitch  BY <2>1, Sizes
      <4>. QED  BY <4>1, <4>2 DEF stay
    <3>2. u + gone = (p[2] + n) * Pitch  BY <1>2, <2>1, Sizes DEF gone
    <3>3. <<p[1], p[2] + n>> \in Visible  BY <1>2, <2>1, <2>4, Sizes DEF Visible
    <3>4. Shown[<<p[1], p[2] + n>>] = memory[p[1] + (u + gone)]
      BY <3>2, <3>3 DEF Shown, Visible, Index
    <3>. HIDE DEF u
    <3>5. p[1] + u \in 0 .. stay + Pitch - 1 /\ p[1] + u < stay
      BY <1>3, <2>1, <2>2, <3>1, Sizes
    <3>6. Shown'[p] = memory[(p[1] + u) + gone]
      <4>1. p[1] + u \in DOMAIN colours(n)  BY <1>5, <1>6, <3>5
      <4>2. colours(n)[p[1] + u] = memory[(p[1] + u) + gone]
        <5>. DEFINE i == p[1] + u
        <5>1. i \in 0 .. stay + Pitch - 1 /\ i < stay  BY <3>5
        <5>. HIDE DEF i
        <5>2. colours(n)[i] = memory[i + gone]  BY <1>3, <1>6, <5>1
        <5>. QED  BY <5>2 DEF i
      <4>. QED  BY <1>8, <2>2, <4>1, <4>2
    <3>7. (p[1] + u) + gone = p[1] + (u + gone)  BY <1>3, <2>1, <2>2
    <3>. QED  BY <2>4, <3>4, <3>6, <3>7
  <2>5. CASE ~(p[2] + n < Height)
    <3>1. stay <= u
      <4>1. (Height - n) * Pitch <= p[2] * Pitch  BY <1>2, <2>1, <2>5, Sizes, Times
      <4>. QED  BY <4>1 DEF stay
    <3>. HIDE DEF u
    <3>2. p[1] + u \in stay .. stay + gone - 1  BY <1>3, <2>1, <2>2, <2>3, <3>1, Sizes
    <3>. QED  BY <1>5, <1>6, <1>8, <2>2, <2>5, <3>2
  <2>. QED  BY <2>4, <2>5
<1>10. Shown' = [p \in Visible |-> IF p[2] + n < Height THEN Shown[<<p[1], p[2] + n>>]
                                                         ELSE Black]
  <2>1. Shown' = [p \in Visible |-> Shown'[p]]  BY DEF Shown, Visible
  <2>. QED  BY <1>9, <2>1
<1>. QED  BY <1>8, <1>10 DEF Picture!ScrollUp, Picture!Point, Visible

LEMMA PutPixelsOf ==
    ASSUME FramebufferAssumption, NEW points, points \subseteq Int \X Int
    PROVE  /\ PutPixels(points) \subseteq 0 .. Length - 1
           /\ \A p \in Visible : Index(p[1], p[2]) \in PutPixels(points) <=> p \in points
<1>. DEFINE taken == {q \in points : Taken(q[1], q[2])}
<1>1. taken \subseteq Area
  <2>1. ASSUME NEW q \in taken  PROVE q \in Area
    <3>1. q = <<q[1], q[2]>> /\ q[1] \in 0 .. Width /\ q[2] \in 0 .. Height  BY DEF Taken
    <3>. QED  BY <3>1 DEF Area
  <2>. QED  BY <2>1
<1>2. \A p \in Visible : p \in Area /\ (p \in taken <=> p \in points)
  BY Sizes DEF Visible, Area, Taken
<1>3. PutPixels(points) = Indices(taken)  BY DEF PutPixels
<1>. HIDE DEF taken
<1>. QED  BY <1>1, <1>2, <1>3, IndicesOf

(* The four strips and the two corners are what lies around the rectangle. *)
LEMMA DrawRectEdgePaints ==
    ASSUME FramebufferAssumption, DrawRectEdge
    PROVE  Picture!DrawRectEdge /\ Kept
<1>1. PICK a \in Corner, b \in Corner : a[1] <= b[1] /\ a[2] <= b[2] /\ Stored(Strips(a, b))
  BY DEF DrawRectEdge
<1>2. a[1] \in Int /\ a[2] \in Int /\ b[1] \in Int /\ b[2] \in Int
  BY DEF FramebufferAssumption
<1>3. Edge \in Nat \ {0}  BY Sizes
<1>. DEFINE above == (a[1] - Edge .. b[1] + Edge - 1) \X (a[2] - Edge .. a[2] - 1)
            below == (a[1] - Edge .. b[1] + Edge - 1) \X (b[2] .. b[2] + Edge - 1)
            left  == (a[1] - Edge .. a[1] - 1) \X (a[2] - Edge .. b[2] + Edge - 1)
            right == (b[1] .. b[1] + Edge - 1) \X (a[2] - Edge .. b[2] + Edge - 1)
            square(x, y, h) == {q \in (x .. x + Edge - 1) \X (y .. y + Edge - 1) :
                                  (q[1] - x + q[2] - y < Edge) = h}
            D == PutPixels(above) \cup PutPixels(below) \cup PutPixels(left) \cup PutPixels(right)
                   \cup (PutPixels(square(b[1], a[2] - Edge, TRUE))
                           \cup PutPixels(square(a[1] - Edge, b[2], TRUE)))
                   \cup (PutPixels(square(b[1], a[2] - Edge, FALSE))
                           \cup PutPixels(square(a[1] - Edge, b[2], FALSE)))
<1>4. DOMAIN Strips(a, b) = D /\ \A i \in D : Strips(a, b)[i] \in {High, Low}
  BY DEF Strips
<1>5. /\ above \subseteq Int \X Int /\ below \subseteq Int \X Int
      /\ left \subseteq Int \X Int /\ right \subseteq Int \X Int
      /\ \A h \in BOOLEAN : /\ square(b[1], a[2] - Edge, h) \subseteq Int \X Int
                            /\ square(a[1] - Edge, b[2], h) \subseteq Int \X Int
  BY <1>2, <1>3
<1>6. ASSUME NEW p \in Visible
      PROVE  p \in Picture!Around(a, b) <=>
                \/ p \in above \cup below \cup left \cup right
                \/ p \in square(b[1], a[2] - Edge, TRUE) \cup square(a[1] - Edge, b[2], TRUE)
                \/ p \in square(b[1], a[2] - Edge, FALSE) \cup square(a[1] - Edge, b[2], FALSE)
  <2>1. p = <<p[1], p[2]>> /\ p[1] \in Int /\ p[2] \in Int  BY Sizes DEF Visible
  <2>2. \A d : d \in 1 .. 2 <=> d = 1 \/ d = 2  OBVIOUS
  <2>3. p \in Picture!Rect(a, b) <=> /\ a[1] <= p[1] /\ p[1] < b[1]
                                   /\ a[2] <= p[2] /\ p[2] < b[2]
    BY <2>2 DEF Picture!Rect, Picture!Point, Visible
  <2>4. p \in Picture!Rect(<<a[1] - Edge, a[2] - Edge>>, <<b[1] + Edge, b[2] + Edge>>)
          <=> /\ a[1] - Edge <= p[1] /\ p[1] < b[1] + Edge
              /\ a[2] - Edge <= p[2] /\ p[2] < b[2] + Edge
    BY <2>2 DEF Picture!Rect, Picture!Point, Visible
  <2>5. p \in Picture!Around(a, b) <=>
          /\ a[1] - Edge <= p[1] /\ p[1] < b[1] + Edge
          /\ a[2] - Edge <= p[2] /\ p[2] < b[2] + Edge
          /\ p[1] < a[1] \/ p[1] >= b[1] \/ p[2] < a[2] \/ p[2] >= b[2]
    BY <1>2, <2>1, <2>3, <2>4 DEF Picture!Around
  <2>6. /\ p \in above <=> /\ a[1] - Edge <= p[1] /\ p[1] < b[1] + Edge
                          /\ a[2] - Edge <= p[2] /\ p[2] < a[2]
        /\ p \in below <=> /\ a[1] - Edge <= p[1] /\ p[1] < b[1] + Edge
                          /\ b[2] <= p[2] /\ p[2] < b[2] + Edge
        /\ p \in left <=> /\ a[1] - Edge <= p[1] /\ p[1] < a[1]
                         /\ a[2] - Edge <= p[2] /\ p[2] < b[2] + Edge
        /\ p \in right <=> /\ b[1] <= p[1] /\ p[1] < b[1] + Edge
                          /\ a[2] - Edge <= p[2] /\ p[2] < b[2] + Edge
    BY <1>2, <1>3, <2>1
  <2>7. \A h \in BOOLEAN :
          /\ p \in square(b[1], a[2] - Edge, h) =>
                /\ b[1] <= p[1] /\ p[1] < b[1] + Edge
                /\ a[2] - Edge <= p[2] /\ p[2] < a[2]
          /\ p \in square(a[1] - Edge, b[2], h) =>
                /\ a[1] - Edge <= p[1] /\ p[1] < a[1]
                /\ b[2] <= p[2] /\ p[2] < b[2] + Edge
    BY <1>2, <1>3, <2>1
  <2>. DEFINE cornered == \/ p \in square(b[1], a[2] - Edge, TRUE)
                          \/ p \in square(a[1] - Edge, b[2], TRUE)
                          \/ p \in square(b[1], a[2] - Edge, FALSE)
                          \/ p \in square(a[1] - Edge, b[2], FALSE)
  <2>8. cornered =>
          \/ /\ b[1] <= p[1] /\ p[1] < b[1] + Edge /\ a[2] - Edge <= p[2] /\ p[2] < a[2]
          \/ /\ a[1] - Edge <= p[1] /\ p[1] < a[1] /\ b[2] <= p[2] /\ p[2] < b[2] + Edge
    <3>. HIDE DEF square
    <3>. QED  BY <2>7
  <2>. HIDE DEF above, below, left, right, cornered
  <2>9. p \in Picture!Around(a, b) <=>
          p \in above \/ p \in below \/ p \in left \/ p \in right \/ cornered
    BY <1>1, <1>2, <1>3, <2>1, <2>5, <2>6, <2>8
  <2>. HIDE DEF square
  <2>. QED  BY <2>9 DEF cornered
<1>. HIDE DEF above, below, left, right, square
<1>7. D \subseteq 0 .. Length - 1  BY <1>5, PutPixelsOf
<1>8. \A p \in Visible : Index(p[1], p[2]) \in D <=> p \in Picture!Around(a, b)
  <2>1. ASSUME NEW p \in Visible
        PROVE  Index(p[1], p[2]) \in D <=> p \in Picture!Around(a, b)
    <3>1. \A S : S \subseteq Int \X Int => (Index(p[1], p[2]) \in PutPixels(S) <=> p \in S)
      BY PutPixelsOf
    <3>. QED  BY <1>5, <1>6, <3>1
  <2>. QED  BY <2>1
<1>. HIDE DEF D
<1>9. Kept /\ \A p \in Visible : Shown'[p] = IF Index(p[1], p[2]) \in D
                           THEN Strips(a, b)[Index(p[1], p[2])] ELSE Shown[p]
  BY <1>1, <1>4, <1>7, Stores DEF Kept
<1>10. Picture!Painted(Picture!Around(a, b), {High, Low})
  BY <1>4, <1>8, <1>9 DEF Picture!Painted, Picture!Point, Visible
<1>. QED  BY <1>9, <1>10 DEF Picture!DrawRectEdge

(* A character, wherever it is: one that is not on the picture at all is   *)
(* as good as one at its lower right corner.                               *)
LEMMA PutCharPaints ==
    ASSUME FramebufferAssumption, NEW at \in Int \X Int, NEW s \in Scales, PutChar(at, s)
    PROVE  Picture!Put /\ Kept
<1>0. /\ at = <<at[1], at[2]>> /\ at[1] \in Int /\ at[2] \in Int
      /\ s \in Nat \ {0} /\ s * GlyphW \in Nat /\ s * GlyphH \in Nat
      /\ Width \in Nat \ {0} /\ Height \in Nat \ {0}
  BY Sizes, SMTT(40) DEF FramebufferAssumption
<1>. DEFINE square == {q \in (at[1] .. at[1] + s * GlyphW - 1) \X
                             (at[2] .. at[2] + s * GlyphH - 1) : Taken(q[1], q[2])}
            colour == [q \in square |-> IF Inked((q[1] - at[1]) \div s, RowAt(q[2] - at[2], s))
                                        THEN Foreground ELSE Background]
            colours == [i \in Indices(square) |->
                          colour[CHOOSE q \in square : Index(q[1], q[2]) = i]]
            place == <<at[1] + s * GlyphW, at[2] + s * GlyphH>>
<1>1. Stored(colours)  BY DEF PutChar
<1>2. square \subseteq Area
  <2>1. ASSUME NEW q \in square  PROVE q \in Area
    <3>1. q = <<q[1], q[2]>> /\ q[1] \in 0 .. Width /\ q[2] \in 0 .. Height  BY DEF Taken
    <3>. QED  BY <3>1 DEF Area
  <2>. QED  BY <2>1
<1>3. ASSUME NEW p \in Visible
      PROVE  /\ p \in Area /\ p = <<p[1], p[2]>> /\ p[1] \in Int /\ p[2] \in Int
             /\ p[1] < Width /\ p[2] < Height /\ p[1] >= 0 /\ p[2] >= 0
             /\ p \in square <=> /\ at[1] <= p[1] /\ p[1] < at[1] + s * GlyphW
                                /\ at[2] <= p[2] /\ p[2] < at[2] + s * GlyphH
             /\ p \in Picture!Rect(at, place) <=> p \in square
  <2>1. /\ p \in Area /\ p = <<p[1], p[2]>> /\ p[1] \in Int /\ p[2] \in Int
        /\ p[1] < Width /\ p[2] < Height /\ p[1] >= 0 /\ p[2] >= 0
    BY <1>0 DEF Visible, Area
  <2>2. Taken(p[1], p[2])  BY <1>0, <2>1 DEF Taken
  <2>3. p \in square <=> /\ at[1] <= p[1] /\ p[1] < at[1] + s * GlyphW
                         /\ at[2] <= p[2] /\ p[2] < at[2] + s * GlyphH
    <3>. DEFINE w == s * GlyphW
                h == s * GlyphH
    <3>1. w \in Nat /\ h \in Nat  BY <1>0
    <3>2. p \in square <=> p \in (at[1] .. at[1] + w - 1) \X (at[2] .. at[2] + h - 1)
      BY <2>2
    <3>. HIDE DEF w, h, square
    <3>3. p \in square <=> /\ at[1] <= p[1] /\ p[1] < at[1] + w
                          /\ at[2] <= p[2] /\ p[2] < at[2] + h
      BY <1>0, <2>1, <3>1, <3>2
    <3>. QED  BY <3>3 DEF w, h
  <2>4. \A d : d \in 1 .. 2 <=> d = 1 \/ d = 2  OBVIOUS
  <2>5. p \in Picture!Rect(at, place) <=>
            /\ at[1] <= p[1] /\ p[1] < at[1] + s * GlyphW
            /\ at[2] <= p[2] /\ p[2] < at[2] + s * GlyphH
    BY <2>4 DEF Picture!Rect, Picture!Point, Visible
  <2>. QED  BY <2>1, <2>3, <2>5
<1>4. ASSUME NEW p \in Visible, p \in square
      PROVE  colours[Index(p[1], p[2])] = colour[p]
  <2>1. Index(p[1], p[2]) \in Indices(square)  BY <1>4 DEF Indices
  <2>2. ASSUME NEW q \in square, Index(q[1], q[2]) = Index(p[1], p[2])  PROVE q = p
    <3>1. q \in Area /\ p \in Area  BY <1>2, <1>3
    <3>2. q[1] = p[1] /\ q[2] = p[2]  BY <2>2, <3>1, IndexOnce DEF Area
    <3>. QED  BY <3>1, <3>2 DEF Area
  <2>3. (CHOOSE q \in square : Index(q[1], q[2]) = Index(p[1], p[2])) = p
    <3>. HIDE DEF square
    <3>. QED  BY <1>4, <2>2
  <2>. QED  BY <2>1, <2>3
<1>5. DOMAIN colours = Indices(square)  OBVIOUS
<1>6. \A q \in square : colour[q] \in {Foreground, Background}  OBVIOUS
<1>7. \A q \in square : colour[q] = Foreground <=>
                        Inked((q[1] - at[1]) \div s, RowAt(q[2] - at[2], s))
  BY DEF FramebufferAssumption
<1>. HIDE DEF colours, colour, square
<1>8. Kept /\ \A p \in Visible :
                Shown'[p] = IF p \in square THEN colour[p] ELSE Shown[p]
  <2>1. Indices(square) \subseteq 0 .. Length - 1  BY <1>2, IndicesOf
  <2>2. \A p \in Visible : Index(p[1], p[2]) \in Indices(square) <=> p \in square
    BY <1>2, <1>3, IndicesOf
  <2>3. Kept /\ \A p \in Visible : Shown'[p] = IF Index(p[1], p[2]) \in Indices(square)
                             THEN colours[Index(p[1], p[2])] ELSE Shown[p]
    BY <1>1, <1>5, <2>1, Stores DEF Kept
  <2>. QED  BY <1>4, <2>2, <2>3
<1>9. CASE \E p \in Visible : p \in square
  <2>1. at[1] \in -(s * GlyphW) .. Width /\ at[2] \in -(s * GlyphH) .. Height
    <3>1. PICK p \in Visible : p \in square  BY <1>9
    <3>. DEFINE w == s * GlyphW
                h == s * GlyphH
    <3>2. /\ at[1] <= p[1] /\ p[1] < at[1] + w /\ at[2] <= p[2] /\ p[2] < at[2] + h
          /\ p[1] \in Int /\ p[2] \in Int
          /\ p[1] < Width /\ p[2] < Height /\ p[1] >= 0 /\ p[2] >= 0
      BY <1>3, <3>1
    <3>3. w \in Nat /\ h \in Nat  BY <1>0
    <3>4. at[1] \in -w .. Width /\ at[2] \in -h .. Height
      <4>. HIDE DEF w, h
      <4>. QED  BY <1>0, <3>2, <3>3
    <3>. QED  BY <3>4
  <2>2. Picture!Painted(Picture!Rect(at, place), {Foreground, Background})
    BY <1>3, <1>6, <1>8 DEF Picture!Painted, Picture!Point, Visible
  <2>3. ASSUME s = 1, NEW p \in Picture!Rect(at, <<at[1] + GlyphW, at[2] + GlyphH>>)
        PROVE  Shown'[p] = Foreground <=> <<p[1] - at[1], p[2] - at[2]>> \in Ink
    <3>1. p \in Visible  BY DEF Picture!Rect, Picture!Point, Visible
    <3>2. s * GlyphW = GlyphW /\ s * GlyphH = GlyphH  BY <2>3, Sizes
    <3>3. p \in square  BY <1>3, <2>3, <3>1, <3>2
    <3>4. p[2] - at[2] \in 0 .. GlyphH - 1 /\ p[1] - at[1] \in 0 .. GlyphW - 1
      BY <1>0, <1>3, <3>1, <3>2, <3>3, Sizes
    <3>5. (p[1] - at[1]) \div s = p[1] - at[1] /\ RowAt(p[2] - at[2], s) = p[2] - at[2]
      <4>1. \A k \in Int : k \div 1 = k /\ (k + 1 - 1) \div 1 = k  OBVIOUS
      <4>. QED  BY <2>3, <3>4, <4>1 DEF RowAt
    <3>6. Inked(p[1] - at[1], p[2] - at[2]) <=> <<p[1] - at[1], p[2] - at[2]>> \in Ink
      BY <3>4, Sizes DEF Inked
    <3>. QED  BY <1>7, <1>8, <3>1, <3>3, <3>5, <3>6
  <2>4. Picture!Draws(<<at[1], at[2]>>, s)  BY <1>0, <2>2, <2>3 DEF Picture!Draws
  <2>. QED  BY <1>8, <2>1, <2>4 DEF Picture!Put
<1>10. CASE ~\E p \in Visible : p \in square
  <2>. DEFINE off == <<Width, Height>>
  <2>1. ASSUME NEW r  PROVE Picture!Rect(off, r) = {}
    <3>1. ASSUME NEW p \in Visible  PROVE ~(off[1] <= p[1])
      <4>1. off[1] = Width  OBVIOUS
      <4>. HIDE DEF off
      <4>. QED  BY <1>0, <1>3, <4>1
    <3>2. ASSUME NEW p \in Picture!Rect(off, r)  PROVE off[1] <= p[1] /\ p \in Visible
      <4>1. 1 \in 1 .. 2  OBVIOUS
      <4>. HIDE DEF off
      <4>. QED  BY <4>1 DEF Picture!Rect, Picture!Point, Visible
    <3>. QED  BY <3>1, <3>2
  <2>2. Picture!Painted({}, {Foreground, Background})
    BY <1>8, <1>10 DEF Picture!Painted, Picture!Point, Visible
  <2>3. Picture!Draws(off, s)  BY <2>1, <2>2 DEF Picture!Draws
  <2>4. Width \in -(s * GlyphW) .. Width /\ Height \in -(s * GlyphH) .. Height  BY <1>0
  <2>. QED  BY <1>8, <2>3, <2>4 DEF Picture!Put
<1>. QED  BY <1>9, <1>10

-----------------------------------------------------------------------------
LEMMA InsideNext ==
    ASSUME FramebufferAssumption, InsidePicture, [BufferNext]_bufferVars
    PROVE  InsidePicture' /\ [Picture!Next]_Shown
<1>0. /\ DOMAIN memory = 0 .. Length - 1 /\ past = {}
      /\ cursor \in Int \X Int /\ last \in Int \X Scales /\ ops \in 0 .. MaxOps
      /\ TextInLine /\ MaxOps \in Nat
  BY Sizes DEF InsidePicture, BufferTypeOK
<1>1. Operation => ops' \in 0 .. MaxOps  BY <1>0 DEF Operation
<1>2. ASSUME Kept, Operation, UNCHANGED <<cursor, last>>  PROVE InsidePicture'
  BY <1>0, <1>1, <1>2 DEF Kept, InsidePicture, BufferTypeOK, TextInLine
<1>3. CASE PutPixel
  BY <1>2, <1>3, PutPixelPaints DEF PutPixel, Picture!Next
<1>4. CASE DrawRect
  BY <1>2, <1>4, DrawRectPaints DEF DrawRect, Picture!Next
<1>5. CASE DrawRectEdge
  BY <1>2, <1>5, DrawRectEdgePaints DEF DrawRectEdge, Picture!Next
<1>6. CASE Fill
  BY <1>2, <1>6, FillPaints DEF Fill, Picture!Next
<1>7. CASE Clear
  BY <1>2, <1>7, ClearPaints DEF Clear, Picture!Next
<1>8. CASE ScrollUp
  BY <1>2, <1>8, ScrollUpPaints DEF ScrollUp, Picture!Next
<1>9. CASE Print1
  <2>. DEFINE Begun(s) == IF Wraps(cursor[1], s)
                         THEN <<NewLineOffset, cursor[2] + s * GlyphH>>
                         ELSE cursor
  <2>1. PICK s \in Scales : /\ PutChar(Begun(s), s)
                            /\ cursor' = <<Begun(s)[1] + s * GlyphW, Begun(s)[2]>>
                            /\ last' = <<Begun(s)[1], s>>
    BY <1>9 DEF Print1
  <2>2. /\ s \in Nat \ {0} /\ s * GlyphW \in Nat /\ s * GlyphH \in Nat
        /\ NewLineOffset + s * GlyphW <= Width /\ NewLineOffset \in Nat /\ Width \in Nat
    BY Sizes DEF FramebufferAssumption
  <2>3. cursor = <<cursor[1], cursor[2]>> /\ cursor[1] \in Int /\ cursor[2] \in Int  BY <1>0
  <2>4. Begun(s) \in Int \X Int
    <3>1. <<NewLineOffset, cursor[2] + s * GlyphH>> \in Int \X Int  BY <2>2, <2>3
    <3>. QED  BY <1>0, <3>1
  <2>5. Begun(s)[1] + s * GlyphW <= Width
    <3>1. CASE Wraps(cursor[1], s)
      BY <2>2, <3>1
    <3>2. CASE ~Wraps(cursor[1], s)
      <4>1. Begun(s)[1] = cursor[1]  BY <3>2
      <4>2. ~(cursor[1] + NewLineOffset + 2 * s * GlyphW > Width)  BY <3>2 DEF Wraps
      <4>3. 2 * s * GlyphW = 2 * (s * GlyphW)  BY <2>2, Sizes
      <4>. DEFINE w == s * GlyphW
      <4>4. cursor[1] + w <= Width
        <5>1. ~(cursor[1] + NewLineOffset + 2 * w > Width) /\ w \in Nat  BY <2>2, <4>2, <4>3
        <5>. HIDE DEF w
        <5>. QED  BY <2>2, <2>3, <5>1
      <4>. QED  BY <4>1, <4>4
    <3>. QED  BY <3>1, <3>2
  <2>. HIDE DEF Begun
  <2>6. Picture!Put /\ Kept  BY <2>1, <2>4, PutCharPaints
  <2>7. Begun(s)[1] \in Int /\ Begun(s)[2] \in Int  BY <2>4
  <2>8. cursor' \in Int \X Int /\ last' \in Int \X Scales  BY <2>1, <2>2, <2>7
  <2>9. TextInLine'  BY <2>1, <2>5 DEF TextInLine
  <2>10. ops' \in 0 .. MaxOps  BY <1>1, <1>9 DEF Print1
  <2>11. InsidePicture'  BY <1>0, <2>6, <2>8, <2>9, <2>10 DEF Kept, InsidePicture, BufferTypeOK
  <2>. QED  BY <2>6, <2>11 DEF Picture!Next
<1>10. CASE NewLine
  <2>1. PICK s \in Scales : cursor' = <<NewLineOffset, cursor[2] + s * GlyphH>>
    BY <1>10 DEF NewLine
  <2>2. s * GlyphH \in Nat /\ NewLineOffset \in Nat  BY Sizes DEF FramebufferAssumption
  <2>3. cursor[2] \in Int  BY <1>0
  <2>4. cursor' \in Int \X Int  BY <2>1, <2>2, <2>3
  <2>5. UNCHANGED <<memory, past, last>> /\ ops' \in 0 .. MaxOps  BY <1>1, <1>10 DEF NewLine
  <2>. QED  BY <1>0, <2>4, <2>5 DEF InsidePicture, BufferTypeOK, TextInLine, Shown
<1>11. CASE UNCHANGED bufferVars
  BY <1>0, <1>11 DEF bufferVars, InsidePicture, BufferTypeOK, TextInLine, Shown
<1>. QED  BY <1>3, <1>4, <1>5, <1>6, <1>7, <1>8, <1>9, <1>10, <1>11 DEF BufferNext

LEMMA InsideInit == FramebufferAssumption /\ BufferInit => InsidePicture
<1>. SUFFICES ASSUME FramebufferAssumption, BufferInit  PROVE InsidePicture
  OBVIOUS
<1>1. 1 * GlyphW = GlyphW /\ NewLineOffset + GlyphW <= Width /\ Width \in Nat
  BY Sizes DEF FramebufferAssumption
<1>2. last = <<0, 1>> /\ last \in Int \X Scales  BY DEF BufferInit, FramebufferAssumption
<1>3. last[1] + last[2] * GlyphW <= Width  BY <1>1, <1>2, Sizes
<1>4. cursor \in Int \X Int  BY DEF BufferInit, FramebufferAssumption
<1>. QED  BY <1>2, <1>3, <1>4, Sizes DEF BufferInit, InsidePicture, BufferTypeOK, TextInLine

(* Framebuffer.cpp never stores outside the memory of the buffer, and what *)
(* it prints stays on its line, for every size of buffer and of font.      *)
THEOREM BufferIsSafe == FramebufferAssumption => (BufferSpec => []InsidePicture)
<1>. SUFFICES ASSUME FramebufferAssumption  PROVE BufferSpec => []InsidePicture
  OBVIOUS
<1>1. BufferInit => InsidePicture  BY InsideInit
<1>2. InsidePicture /\ [BufferNext]_bufferVars => InsidePicture'  BY InsideNext
<1>. QED  BY <1>1, <1>2, PTL DEF BufferSpec

(* Every function of Framebuffer.cpp paints the points that it is asked to *)
(* and no others, wherever they lie.                                       *)
THEOREM BufferImplementsCanvas == FramebufferAssumption => (BufferSpec => ImplementsCanvas)
<1>. SUFFICES ASSUME FramebufferAssumption  PROVE BufferSpec => ImplementsCanvas
  OBVIOUS
<1>1. BufferInit => Picture!Init
  <2>. SUFFICES ASSUME BufferInit  PROVE Picture!Init
    OBVIOUS
  <2>1. \A p \in Visible : Index(p[1], p[2]) \in 0 .. Length - 1
    BY IndexInside, Sizes DEF Visible
  <2>2. \A p \in Visible : memory[Index(p[1], p[2])] = Index(p[1], p[2])
    BY <2>1 DEF BufferInit
  <2>. QED  BY <2>2 DEF Picture!Init, Shown, Visible
<1>2. InsidePicture /\ [BufferNext]_bufferVars => [Picture!Next]_Shown  BY InsideNext
<1>3. BufferSpec => []InsidePicture  BY BufferIsSafe
<1>. QED  BY <1>1, <1>2, <1>3, PTL DEF BufferSpec, ImplementsCanvas, Picture!Spec
=============================================================================
