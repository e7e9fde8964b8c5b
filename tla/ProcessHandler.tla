--------------------------- MODULE ProcessHandler ---------------------------
(***************************************************************************)
(* ProcessHandler::Loop, which the kernel enters last and never leaves,    *)
(* and the three interrupt handlers that call back into the process        *)
(* handler.  Interrupt gates clear IF, so a handler runs to its end and is *)
(* one action; the loop can be interrupted between any two steps below.    *)
(*                                                                         *)
(* A step of the loop is the code between two of its accesses to the       *)
(* shared state.  Taken as one step each: a search through the list, the   *)
(* element moves of List::Erase, PushRequest and PopRequest, and the Kill  *)
(* and delete of one round of KillAllProcesses.                            *)
(***************************************************************************)
EXTENDS ProcessTable, TLC

CONSTANT MaxStarts   \* no command or menu is used once this many IDs are given

ASSUME HandlerAssumption == MaxStarts \in Nat

VARIABLES ph,    \* the shared state, a Table
          m,     \* the main loop: where it is and its local variables
          race   \* history: what interrupts have changed behind its back

vars == <<ph, m, race>>

Labels == {"start", "check", "id", "construct", "grow", "store", "depth",
           "focus", "for", "pop", "act", "answer", "compose", "kill",
           "unfocus", "unlast", "unmove", "tell", "told", "delete", "erase",
           "killall", "update", "paintfor", "paint", "unflag", "empty", "hlt"}

(* Labels inside StartProcess.                                             *)
Calling == {"check", "id", "construct", "grow", "store", "depth"}
(* Labels between the first and the last step of a change to the list, or  *)
(* to the list and FocusedProcess.                                         *)
Writing == Calling \cup {"focus", "erase", "killall"}
(* Labels at which the list itself is not in order.                        *)
Torn    == {"store", "erase", "killall"}
(* Labels inside KillProcess, the search done and the delete to come.      *)
Killing == {"unfocus", "unlast", "unmove", "tell", "told", "delete"}
(* Labels at which the loop relies on an index or a pointer it has.        *)
Holding == {"pop", "act", "answer", "compose", "kill", "unfocus", "unlast",
            "unmove", "tell", "told", "delete", "paint"}

Main == [pc    : Labels,
         i     : Slot,                \* the index of the loop that runs
         req   : Request,             \* the request that was popped
         cur   : Addr \cup {Null},    \* this of the SendMessage that runs
         id    : Nat,                 \* and the ID it has
         prog  : Program,             \* the argument of StartProcess
         fresh : Addr \cup {Null},    \* its NewProcess
         d     : Slot,                \* and NewProcess->Depth, or KillProcess's i
         ret   : {"for", "hlt", "answer"}]   \* where StartProcess returns to

At(l)    == ph.stop = "running" /\ m.pc = l
Goto(l)  == [m EXCEPT !.pc = l]

StartTTY(ret) == [m EXCEPT !.pc = "check", !.prog = "tty", !.ret = ret]

Init == /\ ph = NoTable
        /\ m = [pc |-> "start", i |-> 0, req |-> "SUCCESS", cur |-> Null, id |-> 0,
                prog |-> "tty", fresh |-> Null, d |-> 0, ret |-> "for"]
        /\ race = {}

-----------------------------------------------------------------------------
(***************************************************************************)
(* StartProcess as the loop runs it, for the tty or, inside the desktop's  *)
(* Procedure, for the topbar.                                              *)
(***************************************************************************)
Start == /\ At("start")
         /\ m' = StartTTY("for")
         /\ UNCHANGED <<ph, race>>

(* Where a call of StartProcess goes on.                                   *)
Returned == [m EXCEPT !.pc = IF m.ret = "answer" THEN "answer" ELSE "focus",
                      !.fresh = Null, !.d = 0]

Check == /\ At("check")
         /\ IF AlreadyRuns(ph, m.prog)
            THEN /\ m' = Returned
                 /\ ph' = IF ph.data[First(Hits(ph, Running(ph, m.prog)))] \in ph.live
                          THEN ph ELSE Halt(ph, "StartProcess")
            ELSE m' = Goto("id") /\ UNCHANGED ph
         /\ UNCHANGED race

IncrementID == /\ At("id")
               /\ ph' = CountID(ph)
               /\ m' = Goto("construct")
               /\ UNCHANGED race

(* The rest of the constructor and, for a FULLSCREEN program, KillProcess  *)
(* of the one it replaces (OnlyTopbarOnTop: there is none here).           *)
Construct == /\ At("construct")
             /\ \E a \in Addr \ ph.live : \E d \in Depths(ph, m.prog) :
                  /\ ph' = MakeRoom(NewProcess(ph, m.prog, a), m.prog)
                  /\ m' = [m EXCEPT !.pc = "grow", !.fresh = a, !.d = d]
             /\ UNCHANGED race

PushGrow == /\ At("grow")
            /\ ph.size < Capacity
            /\ ph' = Grow(ph)
            /\ m' = Goto("store")
            /\ UNCHANGED race

PushStore == /\ At("store")
             /\ ph' = IF ph.size > 0 THEN Store(ph, m.fresh) ELSE Halt(ph, "Push")
             /\ m' = Goto("depth")
             /\ UNCHANGED race

UpdateDepth == /\ At("depth")
               /\ IF m.fresh \in ph.live
                  THEN ph' = SetDepth(ph, m.fresh, m.d)
                  ELSE ph' = Halt(ph, "UpdateDepth")
               /\ m' = Returned
               /\ UNCHANGED race

Focus == /\ At("focus")
         /\ ph' = [ph EXCEPT !.focused = ph.data[0]]
         /\ m' = [m EXCEPT !.pc = m.ret, !.i = 0, !.ret = "for"]
         /\ UNCHANGED race

-----------------------------------------------------------------------------
(***************************************************************************)
(* The for loop: one request of each process.                              *)
(***************************************************************************)
For == /\ At("for")
       /\ m' = IF m.i < ph.size THEN Goto("pop") ELSE [m EXCEPT !.pc = "update", !.i = 0]
       /\ UNCHANGED <<ph, race>>

(* The process that Processes[i] names now; or, for the call site l, none. *)
Following(a) == a = ph.data[m.i] /\ a \in ph.live
Dangling(l) == /\ ph.data[m.i] \notin ph.live
               /\ ph' = Halt(ph, l)
               /\ UNCHANGED <<m, race>>

(* Slip: the index stays.                                                  *)
AdvanceInPlace == [m EXCEPT !.pc = "for", !.req = "SUCCESS", !.cur = Null, !.id = 0]

Advance == [m EXCEPT !.pc = "for", !.i = @ + 1,
                     !.req = "SUCCESS", !.cur = Null, !.id = 0]

(* Where the switch sends a request.                                       *)
Dispatch(r) == CASE r = "SUCCESS"          -> Advance
                 [] r \in {"CLEAR", "DRAW"} -> [m EXCEPT !.pc = "act", !.req = r]
                 [] r = "KILL"             -> Goto("kill")
                 [] r = "RESET"            -> [m EXCEPT !.pc = "killall", !.i = 0]

Pop == /\ At("pop")
       /\ \/ \E a \in Addr : /\ Following(a)
                             /\ ph' = PopRequest(ph, a)
                             /\ m' = Dispatch(PendingRequest(ph, a))
                             /\ UNCHANGED race
          \/ Dangling("pop")

(* Processes[i]->Clear() or ->Draw(), read again: the message is sent.  A  *)
(* desktop that shows the last frame of its animation starts the topbar.   *)
Act == /\ At("act")
       /\ \/ \E a \in Addr, next \in {"answer", "check"} :
               /\ Following(a)
               /\ next = "check" => /\ m.req = "DRAW"
                                    /\ ph.proc[a].prog = "desktop"
                                    /\ "desktop" \in ph.anim
               /\ ph' = [ph EXCEPT !.last = a]
               /\ m' = [m EXCEPT !.pc = next, !.cur = a, !.id = ph.proc[a].id,
                                 !.prog = IF next = "check" THEN "topbar" ELSE @,
                                 !.ret = IF next = "check" THEN "answer" ELSE @]
               /\ UNCHANGED race
          \/ Dangling("act")

(* The Procedure returns and SendMessage pushes its answer.  By then it    *)
(* has drawn in the frame buffer of its process.                           *)
Answer ==
    /\ At("answer")
    /\ \/ /\ m.cur \in ph.live
          /\ ph.proc[m.cur].id = m.id
          /\ LET p       == ph.proc[m.cur].prog
                 playing == p \in ph.anim
             IN \/ /\ m.req = "CLEAR"
                   /\ \E r \in ClearReplies(p) : ph' = Answered(ph, m.cur, r)
                \/ /\ m.req = "DRAW"
                   /\ \E ended \in BOOLEAN : \E r \in DrawReplies(p, ended) :
                        /\ ended => MayEnd(p, playing)
                        /\ MustEnd(p, playing) => ended
                        /\ p = "desktop" => ended = (m.ret = "answer")
                        /\ ph' = [Answered(ph, m.cur, r) EXCEPT
                                    !.anim = IF ended THEN @ \ {p} ELSE @]
          /\ m' = [m EXCEPT !.pc = "compose", !.req = "SUCCESS", !.cur = Null,
                            !.id = 0, !.prog = "tty", !.ret = "for"]
       \/ /\ \/ m.cur \notin ph.live
             \/ ph.proc[m.cur].id # m.id
          /\ ph' = Halt(ph, "SendMessage")
          /\ UNCHANGED m
    /\ UNCHANGED race

(* Compositor::Update(i): the window is drawn unless it touches another    *)
(* one above it; then everything is to be redrawn.                         *)
Compose ==
    /\ At("compose")
    /\ \/ \E a \in Addr, overlap \in BOOLEAN :
            /\ Following(a)
            /\ overlap => m.i + 1 < ph.size
            /\ ph' = [ph EXCEPT !.redraw = @ \/ overlap]
            /\ m' = Advance
            /\ UNCHANGED race
       \/ Dangling("compose")

(***************************************************************************)
(* The KILL request: KillProcess(Processes[i]->GetID()) as the loop runs   *)
(* it, interrupts between its steps.  It names the process by its slot     *)
(* throughout, and the search, the resets, Kill and delete all read the    *)
(* slot again.                                                             *)
(***************************************************************************)
Kill ==
    /\ At("kill")
    /\ \/ \E a \in Addr : \E k \in Slots(ph) :
            /\ Following(a)
            /\ k = First(Hits(ph, WithID(ph, ph.proc[a].id)))
            /\ ph' = IF ph.data[k] \in ph.live THEN ph ELSE Halt(ph, "KillProcess")
            /\ m' = [m EXCEPT !.pc = "unfocus", !.d = k]
            /\ UNCHANGED race
       \/ Dangling("kill")

Victim == ph.data[m.d]

(* Slip: FocusedProcess is not looked at.                                  *)
ForgetNoFocused == At("unfocus") /\ m' = Goto("unlast") /\ UNCHANGED <<ph, race>>

ForgetFocused == /\ At("unfocus")
                 /\ ph' = [ph EXCEPT !.focused = IF @ = Victim THEN Null ELSE @]
                 /\ m' = Goto("unlast")
                 /\ UNCHANGED race

ForgetLast == /\ At("unlast")
              /\ ph' = [ph EXCEPT !.last = IF @ = Victim THEN Null ELSE @]
              /\ m' = Goto("unmove")
              /\ UNCHANGED race

(* Slip: MovingWindow is not looked at.                                    *)
ForgetNoMoving == At("unmove") /\ m' = Goto("tell") /\ UNCHANGED <<ph, race>>

ForgetMoving == /\ At("unmove")
                /\ ph' = [ph EXCEPT !.moving = IF @ = Victim THEN Null ELSE @]
                /\ m' = Goto("tell")
                /\ UNCHANGED race

(* Processes[i]->Kill(): the KILL message, and its answer.                 *)
Tell == /\ At("tell")
        /\ IF Victim \in ph.live
           THEN /\ ph' = [ph EXCEPT !.last = Victim]
                /\ m' = [m EXCEPT !.pc = "told", !.cur = Victim, !.id = ph.proc[Victim].id]
           ELSE ph' = Halt(ph, "KillProcess") /\ UNCHANGED m
        /\ UNCHANGED race

Told == /\ At("told")
        /\ IF m.cur \in ph.live /\ ph.proc[m.cur].id = m.id
           THEN \E r \in KillReplies(ph.proc[m.cur].prog) : ph' = Answered(ph, m.cur, r)
           ELSE ph' = Halt(ph, "SendMessage")
        /\ m' = [m EXCEPT !.pc = "delete", !.cur = Null, !.id = 0]
        /\ UNCHANGED race

(* delete Processes[i]; LastMessagedProcess has been reset by now.         *)
DeleteVictim == /\ At("delete")
                /\ IF Victim \in ph.live
                   THEN ph' = Delete(ph, Victim) /\ m' = Goto("erase")
                   ELSE ph' = Halt(ph, "KillProcess") /\ UNCHANGED m
                /\ UNCHANGED race

EraseSlot == /\ At("erase")
             /\ ph.size > 0
             /\ ph' = Unlisted(ph, m.d)
             /\ m' = [m EXCEPT !.pc = "for", !.d = 0]
             /\ UNCHANGED race

(* The RESET request: KillAllProcesses, then Loop from its beginning.      *)
KillAllProcesses ==
    /\ At("killall")
    /\ IF m.i < ph.size
       THEN /\ ph' = KillAt(ph, m.i)
            /\ m' = [m EXCEPT !.i = @ + 1]
       ELSE /\ ph' = Clear(ph)
            /\ m' = [m EXCEPT !.pc = "start", !.i = 0]
    /\ UNCHANGED race

-----------------------------------------------------------------------------
(***************************************************************************)
(* Compositor::Update() and the end of the while loop.                     *)
(***************************************************************************)
Update == /\ At("update")
          /\ m' = Goto(IF ph.redraw THEN "paintfor" ELSE "empty")
          /\ UNCHANGED <<ph, race>>

PaintFor == /\ At("paintfor")
            /\ m' = IF m.i < ph.size THEN Goto("paint") ELSE [m EXCEPT !.pc = "unflag", !.i = 0]
            /\ UNCHANGED <<ph, race>>

Paint == /\ At("paint")
         /\ \/ /\ ph.data[m.i] \in ph.live
               /\ m' = [m EXCEPT !.pc = "paintfor", !.i = @ + 1]
               /\ UNCHANGED <<ph, race>>
            \/ Dangling("paint")

Unflag == /\ At("unflag")
          /\ ph' = [ph EXCEPT !.redraw = FALSE]
          /\ m' = Goto("empty")
          /\ UNCHANGED race

(* Slip: the tty is never restarted.                                       *)
EmptyUnseen == At("empty") /\ m' = Goto("hlt") /\ UNCHANGED <<ph, race>>

Empty == /\ At("empty")
         /\ m' = IF ph.size = 0 THEN StartTTY("hlt") ELSE Goto("hlt")
         /\ UNCHANGED <<ph, race>>

-----------------------------------------------------------------------------
(***************************************************************************)
(* The interrupts.  One leaves the shared state s behind and wakes a loop  *)
(* that has halted.                                                        *)
(***************************************************************************)
Enabled == ph.stop = "running"

(* An interrupt that leaves s behind has come between the loop and the     *)
(* process that it is killing: the slot is no longer in the list or names  *)
(* another one, or the process has been focused or grabbed again.          *)
Slipped(s)  == \/ m.d \notin Slots(s)
               \/ s.data[m.d] # Victim
Regained(s) == \/ s.focused = Victim /\ ph.focused # Victim
               \/ s.moving = Victim /\ ph.moving # Victim

Interrupt(s) ==
    /\ ph' = s
    /\ m' = IF m.pc = "hlt" THEN [m EXCEPT !.pc = "for", !.i = 0] ELSE m
    /\ race' = race \cup
         (IF m.pc \in Writing /\ <<s.data, s.size, s.live>> # <<ph.data, ph.size, ph.live>>
          THEN {"write"} ELSE {}) \cup
         (IF \/ m.pc \in Killing /\ Slipped(s)
             \/ m.pc \in Killing \ {"unfocus"} /\ Regained(s)
          THEN {"victim"} ELSE {}) \cup
         (IF m.pc \in Holding /\ ~(ph.live \subseteq s.live) THEN {"kill"} ELSE {})

(* MaxStarts: the user may still start programs, and end the last one.     *)
Budget == ph.newID < MaxStarts

(* Addresses left free for the topbar that the loop may start over others. *)
Spare == IF "desktop" \in Installed THEN 1 ELSE 0

(* Is there room to list a new process of q at address a?                  *)
Room(s, q, a) == LET t == MakeRoom(NewProcess(CountID(s), q, a), q)
                 IN /\ t.size + Spare < Capacity
                    /\ Cardinality(Addr \ t.live) >= Spare

(* States after the command start q.                                       *)
Starts(s, q) ==
    IF AlreadyRuns(s, q) THEN {StartProcess(s, q, Null, 0)}
    ELSE {StartProcess(s, q, x[1], x[2]) :
            x \in {y \in (Addr \ s.live) \X Depths(s, q) : Budget /\ Room(s, q, y[1])}}

(* States after the command line that a program may run: start, kill or    *)
(* suicide (which is kill of its own ID), or one that changes no process.  *)
Kills(s)    == IF Budget \/ s.size > 1
               THEN {KillProcess(s, id) : id \in 1 .. s.newID} ELSE {}
Commands(s) == Kills(s) \cup UNION {Starts(s, q) : q \in Program}

(* The topbar's button of a menu: start it, or kill the ID that was kept.  *)
Toggles(s, q) ==
    IF s.menu[q] = -1
    THEN {[t EXCEPT !.menu[q] = StartedID(s, q)] : t \in Starts(s, q)}
    ELSE {[KillProcess(s, s.menu[q]) EXCEPT !.menu[q] = -1]}

KeyEffects(s, a) ==
    {s} \cup IF s.proc[a].prog \in CommandLine THEN Commands(s) ELSE {}

MouseEffects(s, a) ==
    {s} \cup CASE s.proc[a].prog = "topbar" ->
                    UNION {Toggles(s, q) : q \in Menus \cap Installed}
               [] s.proc[a].prog = "startmenu" ->
                    UNION {Starts(s, q) : q \in StartMenuEntries}
               [] OTHER -> {}

(* A keyboard interrupt on a key pressed down: KeyBoardInterupt.           *)
KeyBoardInterupt ==
    /\ Enabled
    /\ ph.focused # Null
    /\ IF ph.focused \in ph.live
       THEN \E s \in KeyEffects(ph, ph.focused), r \in KeyReplies(ph.proc[ph.focused].prog) :
              Interrupt(Answered(s, ph.focused, r))
       ELSE Interrupt(Halt(ph, "KeyBoardInterupt"))

(* MouseInterupt while a window is dragged.                                *)
DragWindow ==
    /\ Enabled
    /\ ph.moving # Null
    /\ IF ph.moving \in ph.live
       THEN \E held \in BOOLEAN :
              Interrupt([ph EXCEPT !.focused = IF held THEN @ ELSE ph.moving,
                                   !.moving = IF held THEN @ ELSE Null,
                                   !.redraw = TRUE])
       ELSE Interrupt(Halt(ph, "MouseInterupt"))

(* The scan of MouseInterupt from the top of the list reaches slot k.      *)
Reaches(k) == /\ Enabled
              /\ ph.moving = Null
              /\ \A j \in k .. ph.size - 1 : ph.data[j] \in ph.live

Framed(a) == ph.proc[a].type \in {"WINDOWED", "MINIMIZED"}

CloseWindow == \E k \in Slots(ph) :
    /\ Reaches(k)
    /\ Framed(ph.data[k])
    /\ Interrupt(KillProcess(ph, ph.proc[ph.data[k]].id))

MinimizeWindow == \E k \in Slots(ph) :
    /\ Reaches(k)
    /\ Framed(ph.data[k])
    /\ Interrupt([Minimize(ph, ph.data[k]) EXCEPT !.redraw = TRUE])

GrabWindow == \E k \in Slots(ph) :
    /\ Reaches(k)
    /\ Framed(ph.data[k])
    /\ Interrupt(SetFocusedProcess([ph EXCEPT !.moving = ph.data[k]], ph.data[k]))

(* The pointer is in the window: a MOUSE message, and with the left button *)
(* held the focus, to whatever is then at slot k.                          *)
ClickWindow == \E k \in Slots(ph), left \in BOOLEAN :
    /\ Reaches(k)
    /\ ph.proc[ph.data[k]].type # "MINIMIZED"
    /\ LET a == ph.data[k] IN
       \E r \in MouseReplies(ph.proc[a].prog),
          s \in IF left THEN MouseEffects(ph, a) ELSE {ph} :
         /\ r = "RESET" => left
         /\ LET t == Answered(s, a, r)
            IN Interrupt(IF left THEN SetFocusedProcess(t, t.data[k]) ELSE t)

(* The restart and shutdown buttons of the system menu.                    *)
PowerOff == \E k \in Slots(ph) :
    /\ Reaches(k)
    /\ ph.proc[ph.data[k]].prog = "systemmenu"
    /\ Interrupt(Halt(ph, "off"))

(* The pointer is over no window.                                          *)
ClickNothing ==
    /\ Enabled
    /\ ph.moving = Null
    /\ Interrupt(IF Intact(ph) THEN ph ELSE Halt(ph, "MouseInterupt"))

MouseInterupt == \/ DragWindow \/ CloseWindow \/ MinimizeWindow \/ GrabWindow
                 \/ ClickWindow \/ PowerOff \/ ClickNothing

(* A TICK for every process.  A process that a torn list names twice gets  *)
(* one of its two ticks here.                                              *)
PITInterupt ==
    /\ Enabled
    /\ IF Intact(ph)
       THEN \E r \in [Listed(ph) -> Request] :
              /\ \A a \in Listed(ph) :
                   r[a] \in TickReplies(ph.proc[a].prog, ph.proc[a].prog \in ph.anim)
              /\ Interrupt([ph EXCEPT
                   !.proc = [a \in Addr |-> IF a \in Listed(ph)
                                            THEN PushRequest(ph, a, r[a]).proc[a]
                                            ELSE @[a]],
                   !.last = IF ph.size = 0 THEN @ ELSE Null])
       ELSE Interrupt(Halt(ph, "PITInterupt"))

-----------------------------------------------------------------------------
Loop == \/ Start \/ Check \/ IncrementID \/ Construct \/ PushGrow \/ PushStore
        \/ UpdateDepth \/ Focus \/ For \/ Pop \/ Act \/ Answer \/ Compose
        \/ Kill \/ ForgetFocused \/ ForgetLast \/ ForgetMoving \/ Tell \/ Told
        \/ DeleteVictim \/ EraseSlot \/ KillAllProcesses \/ Update \/ PaintFor \/ Paint
        \/ Unflag \/ Empty

Next == Loop \/ KeyBoardInterupt \/ MouseInterupt \/ PITInterupt

Spec == Init /\ [][Next]_vars

(* The processor executes the loop and the timer keeps ticking.            *)
FairSpec == Spec /\ WF_vars(Loop) /\ WF_vars(PITInterupt)
-----------------------------------------------------------------------------
(* Every variable keeps the values of its type, and the index with which   *)
(* the loop goes into Processes stays inside its array: also while, within *)
(* the desktop's Procedure, the loop runs StartProcess.                    *)
IndexOK == /\ m.pc \in Holding \/ m.ret = "answer" => m.i < Capacity
           /\ m.ret = "answer" => m.pc \in Calling \cup {"answer"}

TypeOK == /\ ph \in Table
          /\ m \in Main
          /\ race \subseteq {"write", "kill", "victim"}
          /\ IndexOK

Stopped == ph.stop # "running"
Faulted == ph.stop \in Fault

(* No interrupt has changed the list inside a change of it by the loop,    *)
(* nor come between the loop and the process it was killing.               *)
Undisturbed == race \cap {"write", "victim"} = {}

(* Loop is at its beginning, for the first time or after a RESET.          *)
Beginning == \/ m.pc \in {"killall", "start"}
             \/ /\ m.pc \in Calling \cup {"focus"}
                /\ m.ret = "for"

(* The list holds every process once and no deleted one, between the steps *)
(* that change it, whatever order commands, clicks, KILL and RESET requests*)
(* and the loop's own restarts of the tty come in: what every loop over    *)
(* Processes in ProcessHandler.cpp relies on.                              *)
TableIntact ==
    /\ TypeOK
    /\ Undisturbed /\ m.pc \notin Torn =>
           /\ \A j, k \in Slots(ph) : ph.data[j] = ph.data[k] => j = k
           /\ ph.live = Listed(ph) \cup ({m.fresh} \ {Null})
           /\ m.pc = "grow" => m.fresh \notin Listed(ph)

(* No program runs twice and no two processes share an ID, although        *)
(* StartProcess looks for the program first and takes an ID later.         *)
NoTwins ==
    Undisturbed => \A a, b \in ph.live :
        \/ ph.proc[a].prog = ph.proc[b].prog
        \/ ph.proc[a].id = ph.proc[b].id
        => a = b

(* The FULLSCREEN program, of which there is at most one, is drawn below   *)
(* all windows: the swaps of SetDepth never move it off the bottom.        *)
FullscreenAtBottom ==
    Undisturbed /\ m.pc \notin Torn \cup {"depth"} =>
        \A k \in Slots(ph) : ph.proc[ph.data[k]].type = "FULLSCREEN" => k = 0

(* KillProcess leaves no pointer to what it deletes: outside of a RESET    *)
(* the focused and the last messaged process exist, unless a click gave    *)
(* the focus back to the process that the loop was killing.                *)
PointersLive ==
    Undisturbed /\ ~Beginning => {ph.focused, ph.last} \subseteq ph.live \cup {Null}

(* A window that is being dragged is deleted without ending the drag by    *)
(* KillAllProcesses, or by the loop's KillProcess after an interrupt came  *)
(* between it and its process, and by nothing else; MovingWindow then      *)
(* dangles until the mouse moves.                                          *)
OrphanedOnlyByReset ==
    [][/\ ph.moving \in ph.live
       /\ ph'.moving = ph.moving
       => \/ ph.moving \in ph'.live
          \/ m.pc = "killall"
          \/ m.pc = "delete" /\ "victim" \in race]_vars

(* The topbar's IDs never name another program's process, so that closing  *)
(* a menu cannot kill a bystander, however the menu was ended meanwhile.   *)
MenuOwner ==
    Undisturbed => \A q \in Menus, a \in ph.live :
        ph.proc[a].id = ph.menu[q] => ph.proc[a].prog = q

(* The kernel follows a dangling pointer only after an interrupt that      *)
(* killed what the loop was holding, changed the list during a change or   *)
(* gave the focus or the drag back to the process the loop was killing,    *)
(* in one that lands inside Push, delete/Erase or KillAllProcesses, or in  *)
(* the RESET that leaves FocusedProcess and MovingWindow behind.           *)
FaultOrigin ==
    Faulted => \/ race # {}
               \/ m.pc \in Torn
               \/ Beginning
               \/ ph.moving \notin ph.live \cup {Null}

(* When the last process is gone the tty is started again.                 *)
TtyComesBack == ph.size = 0 ~> (ph.size > 0 \/ Stopped)

(* However often it is interrupted and whatever is killed, the loop gets   *)
(* through its passes and comes back to HLT.                               *)
LoopComesRound == []<>(m.pc = "hlt" \/ Stopped)

(* Addresses are compared and nothing else, so that their permutations are *)
(* a symmetry of the runs that check no liveness.                          *)
Symmetry == Permutations(Addr)
=============================================================================
