----------------------------- MODULE Compositor -----------------------------
(***************************************************************************)
(* The two frame buffers and the three flags of Compositor.cpp, between    *)
(* the loop of the process handler, which draws, renders and copies, and   *)
(* the interrupts, which move windows, move the cursor and set drawmouse.  *)
(*                                                                         *)
(* What a buffer shows is abstracted to the processes whose present look   *)
(* or place it does not show, and to the places where it has a cursor.     *)
(* Main code goes from one access of the shared flags to the next, where   *)
(* an interrupt could tell the difference; an interrupt is one action.     *)
(***************************************************************************)
EXTENDS Integers

CONSTANTS N,        \* the number of processes
          Place,    \* where the cursor can be
          Origin,   \* (0, 0), what OldMousePos is at first
          None      \* no place

ASSUME CompositorAssumption == N \in Nat /\ Origin \in Place /\ None \notin Place

Proc == 1 .. N

VARIABLES staleBack,    \* processes that Backbuffer does not show as they are
          staleFront,   \* the same for Frontbuffer
          redraw,       \* RedrawRequest
          swap,         \* BufferSwapRequest
          overtaken,    \* history: a redraw was requested during one
          cursorBack,   \* places where Backbuffer has a cursor
          cursorFront,  \* places where Frontbuffer has a cursor
          draw,         \* DrawMouse
          mouse,        \* Mouse::Position
          old,          \* OldMousePos
          wish,         \* history: what drawmouse was last set to
          meddled,      \* history: drawmouse was set inside SwapBuffers
          main          \* where main code is; its process, whether it renders
                        \* all, MousePos in SwapBuffers, what is left to copy

shown   == <<staleBack, staleFront>>
flags   == <<redraw, swap, overtaken>>
cursors == <<cursorBack, cursorFront, draw, mouse, old>>
sets    == <<wish, meddled>>
vars    == <<shown, flags, cursors, sets, main>>

Init == /\ staleBack = {} /\ staleFront = {}
        /\ redraw = FALSE /\ swap = FALSE /\ overtaken = FALSE
        /\ cursorBack = {} /\ cursorFront = {}
        /\ draw = FALSE /\ mouse \in Place /\ old = Origin
        /\ wish = FALSE /\ meddled = FALSE
        /\ main = [pc |-> "idle", i |-> 1, all |-> FALSE, pos |-> None, todo |-> {}]

At(pc)   == main.pc = pc
Goto(pc) == main' = [main EXCEPT !.pc = pc]
-----------------------------------------------------------------------------
(* DRAW or CLEAR of a process, then Update(i): when a process above it     *)
(* overlaps it, everything has to be rendered again.                       *)
Draw == /\ At("idle")
        /\ \E i \in Proc : /\ staleBack' = staleBack \cup {i}
                           /\ staleFront' = staleFront \cup {i}
                           /\ main' = [main EXCEPT !.pc = "look", !.i = i]
        /\ UNCHANGED <<flags, cursors, sets>>

Look == /\ At("look")
        /\ \/ redraw' = TRUE /\ Goto("idle")
           \/ redraw' = redraw /\ Goto("render")
        /\ UNCHANGED <<shown, swap, overtaken, cursors, sets>>

Render == /\ At("render")
          /\ staleBack' = staleBack \ {main.i}
          /\ swap' = TRUE
          /\ Goto("idle")
          /\ UNCHANGED <<staleFront, redraw, overtaken, cursors, sets>>
-----------------------------------------------------------------------------
(* Update(): everything is rendered, if that was requested, and copied.    *)
Update == /\ At("idle")
          /\ redraw \/ swap
          /\ main' = [main EXCEPT !.pc = IF redraw THEN "all" ELSE "swap",
                                  !.i = 1, !.all = redraw]
          /\ overtaken' = (overtaken /\ ~redraw)
          /\ UNCHANGED <<shown, redraw, swap, cursors, sets>>

Listed(i) == i <= N

RenderAll == /\ At("all")
             /\ \/ /\ Listed(main.i)
                   /\ staleBack' = staleBack \ {main.i}
                   /\ main' = [main EXCEPT !.i = @ + 1]
                \/ /\ ~Listed(main.i)
                   /\ Goto("swap")
                   /\ UNCHANGED staleBack
             /\ UNCHANGED <<staleFront, flags, cursors, sets>>

(* SwapBuffers.  While it has DrawMouse cleared, RedrawMouse does nothing. *)
Test == /\ At("swap")
        /\ main' = [main EXCEPT !.pc = IF draw THEN "hide" ELSE "copy",
                                !.pos = None, !.todo = Place]
        /\ UNCHANGED <<shown, flags, cursors, sets>>

Hide == /\ At("hide")
        /\ draw' = FALSE
        /\ cursorBack' = cursorBack \cup {mouse}
        /\ old' = mouse
        /\ main' = [main EXCEPT !.pc = "copy", !.pos = mouse]
        /\ UNCHANGED <<shown, flags, cursorFront, mouse, sets>>

(* CopyMemory reaches a place; after the last one all has been copied.     *)
CopiedAt(p) == (cursorFront \ {p}) \cup (cursorBack \cap {p})

Copy == /\ At("copy")
        /\ \/ \E p \in main.todo :
                /\ cursorFront' = CopiedAt(p)
                /\ main' = [main EXCEPT !.todo = @ \ {p}]
                /\ UNCHANGED staleFront
           \/ /\ main.todo = {}
              /\ staleFront' = staleBack
              /\ Goto(IF main.pos = None THEN "reset" ELSE "restore")
              /\ UNCHANGED cursorFront
        /\ UNCHANGED <<staleBack, flags, cursorBack, draw, mouse, old, sets>>

(* Slip: the pixels are put back where the mouse is by now.                *)
SavedAtMouse == mouse
SavedAt == main.pos

DrawAgain(d) == TRUE

Restore == /\ At("restore")
           /\ cursorBack' = cursorBack \ {SavedAt}
           /\ draw' = DrawAgain(draw)
           /\ Goto("reset")
           /\ UNCHANGED <<shown, flags, cursorFront, mouse, old, sets>>

(* The requests are reset after they have been served.                     *)
Reset == /\ At("reset")
         /\ \/ main.all /\ redraw' = FALSE /\ swap' = swap
               /\ main' = [main EXCEPT !.all = FALSE]
            \/ ~main.all /\ swap' = FALSE /\ redraw' = redraw
               /\ Goto("idle")
         /\ UNCHANGED <<shown, overtaken, cursors, sets>>
-----------------------------------------------------------------------------
(* Interrupts.  A window that is moved, minimized, raised or killed makes  *)
(* every process have to be rendered.                                      *)
(* Slip: nothing is requested.                                             *)
NotRequested(r) == r
Requested(r) == TRUE

Change == /\ staleBack' = Proc /\ staleFront' = Proc
          /\ redraw' = Requested(redraw)
          /\ overtaken' = (overtaken \/ (main.all /\ ~At("idle")))
          /\ UNCHANGED <<swap, cursors, sets, main>>

(* MouseInterupt ends with RedrawMouse, which copies from Backbuffer where *)
(* the cursor was.                                                         *)
Cleaned == CopiedAt(old)

MoveMouse == /\ mouse' \in Place
             /\ \/ /\ draw
                   /\ cursorFront' = Cleaned \cup {mouse'}
                   /\ old' = mouse'
                \/ ~draw /\ UNCHANGED <<cursorFront, old>>
             /\ UNCHANGED <<shown, flags, cursorBack, draw, sets, main>>

(* set drawmouse, which the desktop runs at its start and a button of the  *)
(* system menu before it resets the programs.                              *)
Swapping == main.pc \in {"hide", "copy", "restore"}

SetDrawMouse == /\ draw' \in BOOLEAN
                /\ wish' = draw'
                /\ meddled' = (meddled \/ Swapping)
                /\ UNCHANGED <<shown, flags, cursorBack, cursorFront, mouse, old, main>>

Loop == \/ Draw \/ Look \/ Render \/ Update \/ RenderAll
        \/ Test \/ Hide \/ Copy \/ Restore \/ Reset

Next == Loop \/ Change \/ MoveMouse \/ SetDrawMouse

Spec == Init /\ [][Next]_vars
-----------------------------------------------------------------------------
(* Every variable has a value of its type; the loop over the processes     *)
(* ends with the last one.                                                 *)
TypeOK ==
    /\ staleBack \subseteq Proc /\ staleFront \subseteq Proc
    /\ {redraw, swap, overtaken} \subseteq BOOLEAN
    /\ cursorBack \subseteq Place /\ cursorFront \subseteq Place
    /\ draw \in BOOLEAN /\ mouse \in Place /\ old \in Place
    /\ wish \in BOOLEAN /\ meddled \in BOOLEAN
    /\ main \in [pc : {"idle", "look", "render", "all", "swap", "hide", "copy",
                       "restore", "reset"},
                 i : 1 .. N + 1, all : BOOLEAN, pos : Place \cup {None},
                 todo : SUBSET Place]

(* Whatever the screen does not show as it is has a request pending, or is *)
(* what main code is drawing: no change of the picture is forgotten, but   *)
(* for one that an interrupt made during a redraw.                         *)
NothingForgotten ==
    ~overtaken /\ ~redraw =>
       /\ staleBack \subseteq {main.i}
       /\ staleBack # {} => main.pc \in {"look", "render"}
       /\ staleFront # {} => swap \/ main.pc \in {"look", "render"}

(* SwapBuffers takes its cursor out of Backbuffer again, wherever the      *)
(* mouse has gone: no copy ever spreads a second one.                      *)
BackHasNoCursor == main.pc \notin {"copy", "restore"} => cursorBack = {}

(* Outside of SwapBuffers the screen has a cursor at OldMousePos only, the *)
(* place that RedrawMouse cleans, unless drawmouse was set inside it.      *)
OneCursor == ~meddled /\ ~Swapping => cursorFront \subseteq {old}

(* DrawMouse is what it was set to, unless it was set inside SwapBuffers.  *)
DrawMouseKept == ~meddled /\ ~Swapping => draw = wish

(* The manual of set: drawmouse is "A boolean value that sets if a cursor  *)
(* is drawn to the screen" (System.cpp:288).                               *)
DrawMouseObeyed == At("idle") => draw = wish

(* The cursor: in Backbuffer never for good, on the screen once, and shown *)
(* or not as it was set, however the mouse moves and interrupts redraw.    *)
CursorClean == TypeOK /\ BackHasNoCursor /\ OneCursor /\ DrawMouseKept
=============================================================================
