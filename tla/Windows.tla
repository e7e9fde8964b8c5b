------------------------------ MODULE Windows ------------------------------
(***************************************************************************)
(* Where windows are, what the screen shows of them and which of them a    *)
(* click reaches: the geometry of Process.cpp, the mouse interrupt of      *)
(* ProcessHandler.cpp and both Updates of Compositor.cpp together.         *)
(*                                                                         *)
(* A pixel is abstracted to the process that painted it last.  Pixels are  *)
(* numbered as in memory, so that one drawn past the end of a line is the  *)
(* first of the next.  Rendering is one step here; what interrupts do      *)
(* between its parts is in Compositor, who is started when in              *)
(* ProcessHandler.                                                         *)
(***************************************************************************)
EXTENDS Integers, Sequences, FiniteSets, FiniteSetsExt, SequencesExt

CONSTANTS ScreenW, ScreenH,  \* Renderer::GetScreenSize()
          Edge,              \* RAISED_WIDTH
          Bar,               \* FRAME_OFFSET.Y
          ButtonSize,        \* CLOSE_BUTTON_SIZE and MINIMIZE_BUTTON_SIZE
          MinWidth,          \* MINIMIZED_WINDOW_WIDTH
          GlyphW, GlyphH,    \* the size of a character
          RightMargin,       \* how near the mouse comes to the right edge
          LowerMargin,       \* and to the lower one
          Spots,             \* where the mouse is when it interrupts
          Proc,              \* processes
          Type, Size, Place, \* what INIT answers: the type, size and position
          TitleLength,       \* how long the title is
          Answers,           \* processes that answer MOUSE with DRAW
          None               \* no process

ASSUME WindowsAssumption ==
    /\ {ScreenW, ScreenH, Edge, Bar, ButtonSize, MinWidth, GlyphW, GlyphH,
        RightMargin, LowerMargin} \subseteq Nat \ {0}
    /\ Spots \subseteq (0 .. ScreenW - RightMargin) \X (0 .. ScreenH - LowerMargin)
    /\ None \notin Proc /\ Answers \subseteq Proc
    /\ Type \in [Proc -> {"FULLSCREEN", "WINDOWED", "FRAMELESSWINDOW"}]
    /\ {Size, Place} \subseteq [Proc -> Nat \X Nat]

(* The desktop fills the screen and everything else begins on it, a window *)
(* with its frame: what the programs answer to INIT, at 1920 by 1080.      *)
ASSUME PlacesAssumption ==
    /\ IsFiniteSet(Proc)
    /\ \E p \in Proc : Type[p] = "FULLSCREEN"
    /\ \A p \in Proc :
          /\ Type[p] = "FULLSCREEN" => Place[p] = <<0, 0>> /\ Size[p] = <<ScreenW, ScreenH>>
          /\ Place[p][1] + Size[p][1] <= ScreenW /\ Place[p][2] + Size[p][2] <= ScreenH
          /\ Type[p] = "WINDOWED" =>
                /\ Edge <= Place[p][1] /\ Place[p][1] + Size[p][1] + Edge <= ScreenW
                /\ Edge + Bar <= Place[p][2] /\ Place[p][2] + Size[p][2] + Edge <= ScreenH

(* The buttons and a line of text fit into a title bar, the buttons and    *)
(* the title into the width of a window, minimized or not, and the margins *)
(* that the mouse keeps do not hide the close button: 30 pixels of bar, 16 *)
(* of button and text, margins of 8 and 16.                                *)
ASSUME ReachAssumption ==
    /\ ButtonSize > 1 /\ MinWidth > 1 /\ TitleLength \in [Proc -> Nat]
    /\ Bar \div 2 + ButtonSize \div 2 < Bar
    /\ ButtonSize - ButtonSize \div 2 <= Bar \div 2
    /\ GlyphH - GlyphH \div 2 <= Bar \div 2 + Edge
    /\ RightMargin < Edge + ButtonSize + ButtonSize \div 2
    /\ LowerMargin < Edge + Bar \div 2 + ButtonSize \div 2
    /\ \A p \in Proc : Type[p] = "WINDOWED" =>
          /\ ButtonSize + ButtonSize \div 2 <= Size[p][1]
          /\ \A w \in {MinWidth, Size[p][1]} : 2 * Edge + (TitleLength[p] + 1) * GlyphW <= w

VARIABLES list,    \* Processes, the lowest first
          type,    \* Type of every process
          pos,     \* Pos of every process
          focus,   \* FocusedProcess
          moving,  \* MovingWindow
          delta,   \* MovingWindowPosDelta
          redraw,  \* RedrawRequest
          pending, \* processes whose first DRAW, or the one that answers MOUSE,
                   \* is not served yet
          shown    \* the pixels of Backbuffer that each process painted last

vars == <<list, type, pos, focus, moving, delta, redraw, pending, shown>>

Plus(a, b) == <<a[1] + b[1], a[2] + b[2]>>
Minus(a, b) == <<a[1] - b[1], a[2] - b[2]>>
FrameOffset == <<0, Bar>>

(* STL::Contains(TopLeft, BottomRight, Pos): strictly inside.              *)
InRect(topLeft, bottomRight, p) ==
    \A d \in 1 .. 2 : topLeft[d] < p[d] /\ p[d] < bottomRight[d]

Clamp(n, lower, upper) == IF n < lower THEN lower ELSE IF n > upper THEN upper ELSE n

(* GetSize(): a minimized window is a title bar of one width.              *)
SizeOf(p) == IF type[p] = "MINIMIZED" THEN <<MinWidth, 0>> ELSE Size[p]

(* Slip: the lower edge is forgotten.                                      *)
SetPosLow(p, t, to) ==
    LET extent == IF t = "MINIMIZED" THEN <<0, 0>> ELSE Size[p]
    IN  <<Clamp(to[1], Edge, ScreenW - extent[1] - Edge),
          Clamp(to[2], Edge + Bar, ScreenH - extent[2])>>

(* SetPos(NewPos): the frame of a window stays on the screen, of a         *)
(* minimized one only its top left corner.                                 *)
SetPos(p, t, to) ==
    LET extent == IF t = "MINIMIZED" THEN <<0, 0>> ELSE Size[p]
    IN  <<Clamp(to[1], Edge, ScreenW - extent[1] - Edge),
          Clamp(to[2], Edge + Bar, ScreenH - extent[2] - Edge)>>

(* The two buttons, relative to the upper right corner of the content; the *)
(* divisions are of C, towards zero.                                       *)
CloseButton(p) ==
    Plus(Plus(pos[p], <<SizeOf(p)[1], 0>>),
         <<-(ButtonSize \div 2) - ButtonSize, -(Bar \div 2) - (ButtonSize \div 2)>>)
MinimizeButton(p) == Minus(CloseButton(p), <<ButtonSize + 3 * Edge, 0>>)
OnButton(corner, m) == InRect(corner, Plus(corner, <<ButtonSize, ButtonSize>>), m)
-----------------------------------------------------------------------------
(* Painting.  PutPixel takes a column and a row too many.                  *)
Lines(x1, x2, y1, y2) ==
    {y * ScreenW + x : x \in x1 .. x2 - 1, y \in y1 .. y2 - 1}
PutPixels(x1, x2, y1, y2) ==
    Lines(Max({x1, 0}), Min({x2, ScreenW + 1}), Max({y1, 0}), Min({y2, ScreenH + 1}))

OnScreen(p) == p[1] \in 0 .. ScreenW /\ p[2] \in 0 .. ScreenH

(* DrawRect draws nothing when a corner is off the screen.                 *)
DrawRect(a, b) ==
    IF OnScreen(a) /\ OnScreen(b) THEN Lines(a[1], b[1], a[2], b[2]) ELSE {}

(* DrawRectEdge: four strips around the rectangle; what lies inside is     *)
(* left.                                                                   *)
DrawRectEdge(a, b) ==
    PutPixels(a[1] - Edge, b[1] + Edge, a[2] - Edge, a[2])
    \cup PutPixels(a[1] - Edge, b[1] + Edge, b[2], b[2] + Edge)
    \cup PutPixels(a[1] - Edge, a[1], a[2] - Edge, b[2] + Edge)
    \cup PutPixels(b[1], b[1] + Edge, a[2] - Edge, b[2] + Edge)

(* Print(Title): a character that does not fit, with one more beside it,   *)
(* goes to the start of the next line of text.                             *)
TextAt(p) == Plus(pos[p], <<2 * Edge, -(Bar \div 2) - (GlyphH \div 2)>>)
NextGlyph(at) == IF at[1] + 2 * GlyphW > ScreenW THEN <<0, at[2] + GlyphH>> ELSE at
GlyphPos(first, length) ==
    LET at[i \in 0 .. length - 1] ==
            IF i = 0 THEN NextGlyph(first) ELSE NextGlyph(Plus(at[i - 1], <<GlyphW, 0>>))
    IN  [i \in 1 .. length |-> at[i - 1]]
PrintTitle(p) == UNION {PutPixels(at[1], at[1] + GlyphW, at[2], at[2] + GlyphH) :
                     at \in ToSet(GlyphPos(TextAt(p), TitleLength[p]))}

(* Render: frame, title bar, buttons and title of a window, then the       *)
(* content, a pixel too wide since the lines of a process are; not when it *)
(* leaves the screen.                                                      *)
Button(corner) == DrawRect(corner, Plus(corner, <<ButtonSize, ButtonSize>>))
                  \cup DrawRectEdge(corner, Plus(corner, <<ButtonSize, ButtonSize>>))
(* Slip: the title bar has no background.                                  *)
FrameBare(p) ==
    IF type[p] \notin {"WINDOWED", "MINIMIZED"} THEN {}
    ELSE DrawRectEdge(Minus(pos[p], FrameOffset), Plus(pos[p], SizeOf(p)))
         \cup Button(CloseButton(p)) \cup Button(MinimizeButton(p)) \cup PrintTitle(p)
Frame(p) ==
    IF type[p] \notin {"WINDOWED", "MINIMIZED"} THEN {}
    ELSE DrawRectEdge(Minus(pos[p], FrameOffset), Plus(pos[p], SizeOf(p)))
         \cup DrawRect(Minus(pos[p], FrameOffset), Plus(pos[p], <<SizeOf(p)[1], 0>>))
         \cup Button(CloseButton(p)) \cup Button(MinimizeButton(p)) \cup PrintTitle(p)

Fits(p) == /\ pos[p][1] >= 0 /\ pos[p][1] + Size[p][1] <= ScreenW
           /\ pos[p][2] >= 0 /\ pos[p][2] + Size[p][2] <= ScreenH
Content(p) ==
    IF type[p] = "MINIMIZED" \/ ~Fits(p) THEN {}
    ELSE Lines(pos[p][1], pos[p][1] + Size[p][1] + 1, pos[p][2], pos[p][2] + Size[p][2])

Rendered(p) == Frame(p) \cup Content(p)
Pixels == 0 .. ScreenW * ScreenH - 1

Paint(p, on) == LET r == Rendered(p) \cap Pixels
                IN  [q \in Proc |-> IF q = p THEN on[q] \cup r ELSE on[q] \ r]

(* Update(), when a redraw is requested: everything, the lowest first, so  *)
(* that of all that are rendered at a pixel the highest is seen there.     *)
Picture(on) ==
    LET layers   == {[at |-> i, drawn |-> Rendered(list[i]) \cap Pixels] : i \in 1 .. Len(list)}
        above(i) == UNION {l.drawn : l \in {k \in layers : k.at > i}}
    IN  [p \in Proc |-> (on[p] \ above(0)) \cup
                       UNION {l.drawn \ above(l.at) : l \in {k \in layers : list[k.at] = p}}]
-----------------------------------------------------------------------------
Blank == [p \in Proc |-> {}]

(* The processes have been started in any order, the desktop first.        *)
Init == /\ list \in {l \in SetToSeqs(Proc) : Type[l[1]] = "FULLSCREEN"}
        /\ type = Type
        /\ pos = Place
        /\ focus = None /\ moving = None /\ delta = <<0, 0>>
        /\ redraw = FALSE /\ pending = {}
        /\ shown = Picture(Blank)

(* SetDepth(Depth) of a process in the list: it changes places.            *)
Slot(seq, p) == CHOOSE i \in 1 .. Len(seq) : seq[i] = p

SetDepth(seq, p, depth) ==
    [seq EXCEPT ![Slot(seq, p)] = seq[depth + 1], ![depth + 1] = p]

Windowed(p) == p # None /\ type[p] = "WINDOWED"

SetFocusedProcess(p) ==
    /\ redraw' = (redraw \/ Windowed(focus) \/ Windowed(p))
    /\ focus' = p
    /\ list' = IF type[p] = "FULLSCREEN" THEN list
               ELSE SetDepth(list, p, Len(list) - 1)

(* What the mouse is over: the title bar, with the left button down, or    *)
(* else the content.  The highest in the list is asked first.              *)
OverTitle(p, m, left) ==
    /\ left /\ type[p] \in {"WINDOWED", "MINIMIZED"}
    /\ InRect(Minus(pos[p], FrameOffset), Plus(pos[p], <<SizeOf(p)[1], 0>>), m)
OverContent(p, m) == InRect(pos[p], Plus(pos[p], SizeOf(p)), m)

Over(m, left) ==
    LET S == {i \in 1 .. Len(list) : OverTitle(list[i], m, left) \/ OverContent(list[i], m)}
    IN  IF S = {} THEN None ELSE list[Max(S)]

Mice == (0 .. ScreenW - RightMargin) \X (0 .. ScreenH - LowerMargin)
-----------------------------------------------------------------------------
(* MouseInterupt while a window is moved.                                  *)
Move(m, left) ==
    /\ moving # None
    /\ pos' = [pos EXCEPT ![moving] = SetPos(moving, type[moving], Plus(m, delta))]
    /\ IF left THEN UNCHANGED <<focus, moving>>
               ELSE focus' = moving /\ moving' = None
    /\ redraw' = TRUE
    /\ UNCHANGED <<list, type, delta, pending, shown>>

(* KillProcess, from the close button.                                     *)
FocusLeft(p) == IF focus = p THEN None ELSE focus

Erase(seq, p) == [i \in 1 .. Len(seq) - 1 |-> IF i < Slot(seq, p) THEN seq[i] ELSE seq[i + 1]]

Close(m) ==
    /\ moving = None
    /\ \E p \in Proc :
          /\ p = Over(m, TRUE) /\ OverTitle(p, m, TRUE) /\ OnButton(CloseButton(p), m)
          /\ focus' = FocusLeft(p)
          /\ list' = Erase(list, p)
          /\ pending' = pending \ {p}
    /\ redraw' = TRUE
    /\ UNCHANGED <<type, pos, moving, delta, shown>>

(* Minimize(): the other type, and SetPos again.                           *)
Placed(p, t) == SetPos(p, t, pos[p])

(* Slip: nothing is rendered again.                                        *)
RedrawKept(r) == r
RedrawAsked(r) == TRUE

Minimize(m) ==
    /\ moving = None
    /\ \E p \in Proc :
          /\ p = Over(m, TRUE) /\ OverTitle(p, m, TRUE)
          /\ ~OnButton(CloseButton(p), m) /\ OnButton(MinimizeButton(p), m)
          /\ LET t == IF type[p] = "MINIMIZED" THEN "WINDOWED" ELSE "MINIMIZED"
             IN  /\ type' = [type EXCEPT ![p] = t]
                 /\ pos' = [pos EXCEPT ![p] = Placed(p, t)]
    /\ redraw' = RedrawAsked(redraw)
    /\ UNCHANGED <<list, focus, moving, delta, pending, shown>>

(* The title bar: the window is moved with the mouse from now on.          *)
Grabbed(p, m) == Minus(pos[p], m)

Grab(m) ==
    /\ moving = None
    /\ \E p \in Proc :
          /\ p = Over(m, TRUE) /\ OverTitle(p, m, TRUE)
          /\ ~OnButton(CloseButton(p), m) /\ ~OnButton(MinimizeButton(p), m)
          /\ moving' = p /\ delta' = Grabbed(p, m)
          /\ SetFocusedProcess(p)
    /\ UNCHANGED <<type, pos, pending, shown>>

(* The content: the process is told, and focused when the button is down.  *)
Tell(m, left) ==
    /\ moving = None
    /\ \E p \in Proc :
          /\ p = Over(m, left) /\ ~OverTitle(p, m, left)
          /\ IF left THEN SetFocusedProcess(p) ELSE UNCHANGED <<list, focus, redraw>>
          /\ pending' = pending \cup ({p} \cap Answers)
    /\ UNCHANGED <<type, pos, moving, delta, shown>>

MouseInterupt == \E m \in Spots : \/ \E left \in BOOLEAN : Move(m, left) \/ Tell(m, left)
                                 \/ Close(m) \/ Minimize(m) \/ Grab(m)
-----------------------------------------------------------------------------
(* StartProcess: pushed, then moved to depth 1, which INIT answers.        *)
Start == \E p \in Proc :
           /\ p \notin ToSet(list)
           /\ type' = [type EXCEPT ![p] = Type[p]]
           /\ pos' = [pos EXCEPT ![p] = Place[p]]
           /\ list' = SetDepth(Append(list, p), p, 1)
           /\ pending' = pending \cup {p}
           /\ UNCHANGED <<focus, moving, delta, redraw, shown>>

(* DRAW, which any TICK may ask for, and Update(i): the process is         *)
(* rendered alone when the content of none above meets its own.            *)
Meets(p, q) ==
    \A d \in 1 .. 2 : /\ pos[p][d] <= pos[q][d] + SizeOf(q)[d]
                      /\ pos[p][d] + SizeOf(p)[d] >= pos[q][d]

Covered(i) == \E j \in i + 1 .. Len(list) : Meets(list[i], list[j])

Draw == \E i \in 1 .. Len(list) :
          /\ type[list[i]] # "MINIMIZED"
          /\ IF Covered(i) THEN redraw' = TRUE /\ UNCHANGED shown
                           ELSE shown' = Paint(list[i], shown) /\ UNCHANGED redraw
          /\ pending' = pending \ {list[i]}
          /\ UNCHANGED <<list, type, pos, focus, moving, delta>>

Update == /\ redraw
          /\ shown' = Picture(shown)
          /\ redraw' = FALSE
          /\ UNCHANGED <<list, type, pos, focus, moving, delta, pending>>

Next == MouseInterupt \/ Start \/ Draw \/ Update

Spec == Init /\ [][Next]_vars
-----------------------------------------------------------------------------
(* Every variable has a value of its type; only windows are minimized or   *)
(* moved.                                                                  *)
TypeOK ==
    /\ list \in Seq(Proc) /\ IsInjective(list)
    /\ type \in [Proc -> {"FULLSCREEN", "WINDOWED", "FRAMELESSWINDOW", "MINIMIZED"}]
    /\ \A p \in Proc : type[p] # Type[p] => Type[p] = "WINDOWED" /\ type[p] = "MINIMIZED"
    /\ pos \in [Proc -> (0 .. ScreenW) \X (0 .. ScreenH)]
    /\ focus \in ToSet(list) \cup {None}
    /\ moving \in {p \in ToSet(list) : Type[p] = "WINDOWED"} \cup {None}
    /\ redraw \in BOOLEAN /\ pending \subseteq Proc
    /\ shown \in [Proc -> SUBSET Pixels]

(* Wherever windows are dragged, and whatever is minimized there and shown *)
(* again, the whole frame of a window is on the screen: Render refuses no  *)
(* part of it.                                                             *)
FrameInside ==
    \A p \in ToSet(list) : type[p] = "WINDOWED" =>
        /\ pos[p][1] - Edge >= 0 /\ pos[p][1] + Size[p][1] + Edge <= ScreenW
        /\ pos[p][2] - Bar - Edge >= 0 /\ pos[p][2] + Size[p][2] + Edge <= ScreenH

(* Unless a redraw is requested, what is seen of a process is where its    *)
(* picture is now, and nothing is seen of one that does not run: nothing   *)
(* is left where a window was before it was moved, minimized or closed.    *)
NoGhost ==
    ~redraw => \A p \in Proc : IF p \in ToSet(list) THEN shown[p] \subseteq Rendered(p)
                                                     ELSE shown[p] = {}

(* When the whole picture has been rendered, a click answers what is seen: *)
(* on the title bar or the content of the process that the pixel shows it  *)
(* is that process, unless a minimized window hangs over the right edge,   *)
(* whose title bar is not drawn and yet clicked.                           *)
Hangs(p) == type[p] = "MINIMIZED" /\ pos[p][1] + MinWidth > ScreenW
ClickMeetsPicture ==
    shown = Picture(shown) /\ ~(\E p \in ToSet(list) : Hangs(p)) =>
        \A p \in ToSet(list), m \in Mice :
            /\ m[2] * ScreenW + m[1] \in shown[p]
            /\ OverTitle(p, m, TRUE) \/ OverContent(p, m)
            => Over(m, TRUE) = p

(* No sequence of drags takes a window where the mouse, which keeps a      *)
(* margin, cannot bring it back: there is a place on the title bar that is *)
(* not a button, and the close button of a window can be clicked.          *)
Reachable ==
    \A p \in ToSet(list) : Type[p] = "WINDOWED" =>
        /\ \E m \in Mice : OverTitle(p, m, TRUE) /\ ~OnButton(CloseButton(p), m)
                            /\ ~OnButton(MinimizeButton(p), m)
        /\ type[p] = "WINDOWED" => \E m \in Mice : OnButton(CloseButton(p), m)

(* What Render writes past the end of Backbuffer is one pixel, the last of *)
(* a FULLSCREEN process or of a frame in the corner, and Allocate rounds   *)
(* sizes up by at least that much.  The exception is the title of a        *)
(* minimized window that hangs over the right edge near the lower one: the *)
(* characters that do not fit go to a second line of text, whose pixels    *)
(* may be below the screen.                                                *)
PastTheEnd == ScreenW * ScreenH
OnePast == \A p \in ToSet(list) : \A c \in Rendered(p) :
              c > PastTheEnd => Hangs(p) /\ c \in PrintTitle(p)

(* What the screen shows of the processes, over any sequence of drags,     *)
(* clicks, starts and kills.                                               *)
PictureRight == TypeOK /\ FrameInside /\ NoGhost

(* Windows stay within the reach of the mouse, pixels in Backbuffer.       *)
StaysInReach == Reachable /\ OnePast
=============================================================================
