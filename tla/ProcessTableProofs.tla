------------------------- MODULE ProcessTableProofs -------------------------
(***************************************************************************)
(* The list of processes stays in order, label by label of Loop, and what  *)
(* the loop goes on holding between two of its steps is there unless an    *)
(* interrupt has taken it: the invariants of ProcessHandler about the      *)
(* table, the processes without a window and what ends in a fault, proved  *)
(* for every set of addresses, programs and bounds.                        *)
(***************************************************************************)
EXTENDS ProcessHandlerProofs

Pushing == {"grow", "store", "depth"}

(* At each label of the loop: what its next step finds.  A process that is *)
(* alone in the list is at its depth, 0; another goes to depth 1.          *)
AtGrow == m.pc = "grow" =>
    /\ m.fresh \in Addr /\ Lists(ph, {m.fresh}) /\ Known(ph) /\ Bottom(ph)
    /\ \/ ph.size = 0 /\ m.d = 0
       \/ ph.size > 0 /\ m.d = 1 /\ ph.proc[m.fresh].type # "FULLSCREEN"

Stored == IF m.pc = "store" THEN Store(ph, m.fresh) ELSE ph

AtStored == m.pc \in {"store", "depth"} =>
    /\ m.fresh \in Addr /\ Lists(Stored, {}) /\ Known(Stored)
    /\ ph.size > 0 /\ Stored.data[ph.size - 1] = m.fresh
    /\ \/ ph.size = 1 /\ m.d = 0
       \/ ph.size > 1 /\ m.d = 1 /\ Bottom(Stored)

AtErase == m.pc = "erase" => m.d \in Slots(ph) /\ Sound(Unlisted(ph, m.d))

AtKillAll == m.pc = "killall" =>
    /\ m.i <= ph.size /\ Distinct(ph) /\ Known(ph)
    /\ ph.live = {ph.data[k] : k \in m.i .. ph.size - 1}

AtCall == m.pc \in {"check", "id", "construct"} =>
    IF m.ret = "answer" THEN m.prog = "topbar" /\ ph.size > 0
                        ELSE m.prog = "tty" /\ ph.size = 0

AtCount == /\ m.pc = "id" => \A a \in ph.live : ph.proc[a].prog # m.prog
           /\ m.pc = "construct" => Vacant(ph, m.prog)

AtEnds == /\ m.pc = "start" => ph.size = 0
          /\ m.pc = "focus" => ph.size > 0

Pointing == LastLive(ph) /\ (~Beginning => FocusedLive(ph))

Ordered == /\ m.pc \notin Torn \cup Pushing => Sound(ph)
           /\ AtGrow /\ AtStored /\ AtErase /\ AtKillAll /\ AtCall /\ AtCount /\ AtEnds
           /\ Pointing

(* What KillProcess of the loop has made sure of about the process that it *)
(* is about to delete: it is the one in the slot, and no longer focused,   *)
(* and from the fourth step on no longer dragged.                          *)
Spared == "victim" \notin race =>
    /\ m.pc \in Killing => m.d \in Slots(ph)
    /\ m.pc \in Killing \ {"unfocus"} => ph.focused # Victim \/ Victim = Null
    /\ m.pc \in {"tell", "told", "delete"} => ph.moving # Victim \/ Victim = Null

OrderInv == /\ TypeOK
            /\ Spared
            /\ m.pc \notin Pushing => m.fresh = Null
            /\ Undisturbed => Ordered

-----------------------------------------------------------------------------
(***************************************************************************)
(* Steps that keep the list in order, label by label.                      *)
(***************************************************************************)
LEMMA StoreAlike ==
  ASSUME NEW s \in Table, NEW t \in Table, Alike(s, t), s.size > 0, NEW a \in Addr
  PROVE  /\ Store(s, a) \in Table /\ Store(t, a) \in Table
         /\ Alike(Store(s, a), Store(t, a))
<1>1. Store(s, a) \in Table /\ Store(t, a) \in Table
  BY StoreType DEF Alike, Similar
<1> QED BY <1>1 DEF Store, Alike, Similar, Table

LEMMA UnlistedAlike ==
  ASSUME NEW s \in Table, NEW t \in Table, Alike(s, t), NEW k \in Slots(s)
  PROVE  /\ Unlisted(s, k) \in Table /\ Unlisted(t, k) \in Table
         /\ Alike(Unlisted(s, k), Unlisted(t, k))
<1>1. k \in Slot /\ s.size > 0 /\ t.size > 0
  BY TableParts DEF Alike, Similar
<1>2. Unlisted(s, k) \in Table /\ Unlisted(t, k) \in Table
  BY <1>1, UnlistedParts
<1> QED BY <1>2 DEF Unlisted, Erase, Alike, Similar, Table

(* Nothing but what the list does not hold changes, and the loop stays     *)
(* where it is.                                                            *)
LEMMA QuietOrdered ==
  ASSUME OrderInv, Undisturbed, TypeOK', Alike(ph, ph'), Pointed(ph, ph'), m' = m
  PROVE  Ordered'
<1>1. ph \in Table /\ ph' \in Table /\ Ordered
  BY DEF OrderInv, TypeOK
<1>2. ph'.size = ph.size /\ ph'.data = ph.data /\ ph'.live = ph.live /\ ph'.newID = ph.newID
  BY DEF Alike, Similar
<1>3. m'.pc \notin Torn \cup Pushing => Sound(ph')
  BY <1>1, AlikeSound DEF Ordered
<1>4. AtGrow'
  <2> SUFFICES ASSUME m.pc = "grow" PROVE
        /\ m.fresh \in Addr /\ Lists(ph', {m.fresh}) /\ Known(ph') /\ Bottom(ph')
        /\ \/ ph'.size = 0 /\ m.d = 0
           \/ ph'.size > 0 /\ m.d = 1 /\ ph'.proc[m.fresh].type # "FULLSCREEN"
    BY DEF AtGrow
  <2>1. /\ m.fresh \in Addr /\ Lists(ph, {m.fresh}) /\ Known(ph) /\ Bottom(ph)
        /\ \/ ph.size = 0 /\ m.d = 0
           \/ ph.size > 0 /\ m.d = 1 /\ ph.proc[m.fresh].type # "FULLSCREEN"
    BY <1>1 DEF Ordered, AtGrow
  <2>2. Listed(ph) \subseteq Addr
    BY <1>1, <2>1, TableParts DEF Lists
  <2>3. Lists(ph', {m.fresh}) /\ Known(ph') /\ Bottom(ph')
    BY <1>1, <2>1, <2>2, AlikeLists, AlikeBottom, SimilarKnown DEF Alike
  <2>4. ph'.proc[m.fresh].type = "FULLSCREEN" <=> ph.proc[m.fresh].type = "FULLSCREEN"
    BY <2>1 DEF Alike, Similar
  <2> QED BY <1>2, <2>1, <2>3, <2>4
<1>5. AtStored'
  <2> SUFFICES ASSUME m.pc \in {"store", "depth"} PROVE
        /\ m.fresh \in Addr /\ Lists(Stored', {}) /\ Known(Stored')
        /\ ph'.size > 0 /\ Stored'.data[ph'.size - 1] = m.fresh
        /\ \/ ph'.size = 1 /\ m.d = 0
           \/ ph'.size > 1 /\ m.d = 1 /\ Bottom(Stored')
    BY DEF AtStored
  <2>1. /\ m.fresh \in Addr /\ Lists(Stored, {}) /\ Known(Stored)
        /\ ph.size > 0 /\ Stored.data[ph.size - 1] = m.fresh
        /\ \/ ph.size = 1 /\ m.d = 0
           \/ ph.size > 1 /\ m.d = 1 /\ Bottom(Stored)
    BY <1>1 DEF Ordered, AtStored
  <2>2. Stored' = IF m.pc = "store" THEN Store(ph', m.fresh) ELSE ph'
    BY DEF Stored
  <2>3. Stored \in Table /\ Stored' \in Table /\ Alike(Stored, Stored')
    BY <1>1, <2>1, <2>2, StoreAlike DEF Stored
  <2>4. Listed(Stored) \subseteq Addr
    BY <2>1, <2>3, TableParts DEF Lists
  <2>5. /\ Lists(Stored', {}) /\ Known(Stored') /\ (Bottom(Stored) => Bottom(Stored'))
        /\ Stored'.data = Stored.data
    BY <2>1, <2>3, <2>4, AlikeLists, AlikeBottom, SimilarKnown DEF Alike
  <2> QED BY <1>2, <2>1, <2>5
<1>6. AtErase'
  <2> SUFFICES ASSUME m.pc = "erase" PROVE m.d \in Slots(ph') /\ Sound(Unlisted(ph', m.d))
    BY DEF AtErase
  <2>1. m.d \in Slots(ph) /\ Sound(Unlisted(ph, m.d))
    BY <1>1 DEF Ordered, AtErase
  <2> QED BY <1>1, <1>2, <2>1, UnlistedAlike, AlikeSound DEF Slots
<1>7. AtKillAll'
  <2>1. m.pc = "killall" => Known(ph) /\ Known(ph')
    BY <1>1, SimilarKnown DEF Ordered, AtKillAll, Alike
  <2> QED BY <1>1, <1>2, <2>1 DEF Ordered, AtKillAll, Distinct, Slots
<1>8. AtCall' /\ AtEnds'
  BY <1>1, <1>2 DEF Ordered, AtCall, AtEnds
<1>9. AtCount'
  <2>1. \A a \in ph.live : ph'.proc[a].prog = ph.proc[a].prog /\ ph'.proc[a].id = ph.proc[a].id
    BY <1>1, TableParts DEF Alike, Similar
  <2>2. \A q \in Menus : ph'.menu[q] \in {ph.menu[q], -1, 0}
    BY DEF Alike, Similar
  <2>3. CASE m.pc = "id"
    BY <1>1, <1>2, <2>1, <2>3 DEF Ordered, AtCount
  <2>4. CASE m.pc = "construct"
    <3>1. Vacant(ph, m.prog) /\ ph.newID \in Nat
      BY <1>1, <2>4, TableParts DEF Ordered, AtCount
    <3>2. Vacant(ph', m.prog)
      BY <1>2, <2>1, <2>2, <3>1 DEF Vacant
    <3> QED BY <2>4, <3>2 DEF AtCount
  <2> QED BY <2>3, <2>4 DEF AtCount
<1>10. Pointing'
  BY <1>1 DEF Ordered, Pointing, Pointed, Beginning
<1> QED BY <1>3, <1>4, <1>5, <1>6, <1>7, <1>8, <1>9, <1>10 DEF Ordered

(* A step between labels at which the list is in order and nothing hangs   *)
(* on its length.                                                          *)
Settled == Labels \ (Writing \cup {"start"})

LEMMA SettledOrdered ==
  ASSUME OrderInv, Undisturbed, m.pc \in Settled, m'.pc \in Settled,
         Sound(ph'), Pointed(ph, ph')
  PROVE  Ordered'
<1>1. Ordered
  BY DEF OrderInv
<1>2. AtGrow' /\ AtStored' /\ AtErase' /\ AtKillAll' /\ AtCall' /\ AtCount' /\ AtEnds'
  BY DEF Settled, Writing, Calling, AtGrow, AtStored, AtErase, AtKillAll, AtCall, AtCount,
         AtEnds
<1>3. Pointing'
  BY <1>1 DEF Ordered, Pointing, Pointed, Beginning, Settled, Writing
<1> QED BY <1>2, <1>3 DEF Ordered

LEMMA SettledSound ==
  ASSUME OrderInv, Undisturbed, m.pc \in Settled
  PROVE  Sound(ph)
  BY DEF OrderInv, Ordered, Settled, Writing, Calling, Torn, Pushing

(* An interrupt in between either leaves the slot and the two pointers, or *)
(* is a race.                                                              *)
LEMMA InterruptSpared ==
  ASSUME TypeOK, Spared, NEW t, Interrupt(t)
  PROVE  Spared'
<1>0. m \in Main /\ ph' = t
  BY DEF TypeOK, Interrupt
<1> SUFFICES ASSUME "victim" \notin race', m'.pc \in Killing
             PROVE  /\ m'.d \in Slots(t)
                    /\ m'.pc # "unfocus" => t.focused # t.data[m'.d] \/ t.data[m'.d] = Null
                    /\ m'.pc \in {"tell", "told", "delete"} =>
                         t.moving # t.data[m'.d] \/ t.data[m'.d] = Null
  BY <1>0 DEF Spared, Killing, Victim
<1>1. m' = m /\ m.pc \in Killing
  BY <1>0 DEF Interrupt, Main, Killing
<1>2. /\ "victim" \notin race
      /\ ~ Slipped(t)
      /\ m.pc # "unfocus" => ~ Regained(t)
  BY <1>1 DEF Interrupt
<1> QED BY <1>0, <1>1, <1>2 DEF Spared, Slipped, Regained, Killing, Victim

LEMMA InterruptOrdered ==
  ASSUME OrderInv, NEW t, Interrupt(t), Effect(ph, t)
  PROVE  OrderInv'
<1>1. ph \in Table /\ m \in Main /\ ph' = t
  BY DEF OrderInv, TypeOK, Interrupt
<1>2. TypeOK'
  BY InterruptType DEF OrderInv, Effect
<1>3. \/ m' = m
      \/ m.pc = "hlt" /\ m' = [m EXCEPT !.pc = "for", !.i = 0]
  BY DEF Interrupt
<1>4. m'.pc \notin Pushing => m'.fresh = Null
  BY <1>1, <1>3 DEF OrderInv, Main, Pushing
<1>5. ASSUME Undisturbed' PROVE Ordered'
  <2>1. Undisturbed /\ (m.pc \in Writing => /\ t.data = ph.data /\ t.live = ph.live)
    BY <1>5 DEF Undisturbed, Interrupt
  <2>2. CASE Alike(ph, t) /\ m' = m
    BY <1>1, <1>2, <2>1, <2>2, QuietOrdered DEF Effect
  <2>3. CASE m.pc \in Settled
    <3>1. m'.pc \in Settled
      BY <1>1, <1>3, <2>3 DEF Settled, Main, Labels, Writing, Calling
    <3> QED BY <1>1, <2>1, <2>3, <3>1, SettledSound, SettledOrdered DEF Effect
  <2>4. CASE m.pc \in Writing
    <3>1. Alike(ph, t) /\ m' = m
      BY <1>3, <2>1, <2>4 DEF Effect, Writing, Calling
    <3> QED BY <2>2, <3>1
  <2>5. CASE m.pc = "start"
    <3>1. Sound(ph) /\ ph.size = 0
      BY <2>1, <2>5 DEF OrderInv, Ordered, AtEnds, Torn, Pushing
    <3>2. Alike(ph, t) /\ m' = m
      BY <1>1, <1>3, <2>5, <3>1, SoundSize DEF Effect
    <3> QED BY <2>2, <3>2
  <2>6. m.pc \in Labels
    BY <1>1 DEF Main
  <2> QED BY <2>3, <2>4, <2>5, <2>6 DEF Settled
<1>6. Spared'
  BY InterruptSpared DEF OrderInv
<1> QED BY <1>2, <1>4, <1>5, <1>6 DEF OrderInv

-----------------------------------------------------------------------------
(***************************************************************************)
(* StartProcess as the loop runs it.                                       *)
(***************************************************************************)
LEMMA StartOrdered ==
  ASSUME OrderInv, Undisturbed, Start
  PROVE  Ordered'
<1>1. m.pc = "start" /\ m' = StartTTY("for") /\ ph' = ph /\ m \in Main
  BY DEF Start, At, OrderInv, TypeOK
<1>2. m'.pc = "check" /\ m'.prog = "tty" /\ m'.ret = "for"
  BY <1>1 DEF StartTTY, Main
<1>3. Sound(ph) /\ ph.size = 0 /\ LastLive(ph)
  BY <1>1 DEF OrderInv, Ordered, AtEnds, Pointing, Torn, Pushing
<1> QED
  BY <1>1, <1>2, <1>3
  DEF Ordered, AtGrow, AtStored, AtErase, AtKillAll, AtCall, AtCount, AtEnds, Pointing,
      Beginning, Calling

LEMMA CheckOrdered ==
  ASSUME OrderInv, Undisturbed, Check
  PROVE  Ordered'
<1>1. m.pc = "check" /\ m \in Main /\ ph \in Table /\ Ordered
  BY DEF Check, At, OrderInv, TypeOK
<1>2. Sound(ph) /\ AtCall /\ Pointing
  BY <1>1 DEF Ordered, Torn, Pushing
<1>3. CASE AlreadyRuns(ph, m.prog)
  <2>1. m.ret = "answer"
    <3>1. Slots(ph) # {}
      BY <1>3 DEF AlreadyRuns, Hits
    <3> QED BY <1>1, <1>2, <3>1 DEF AtCall, Slots
  <2>2. m'.pc = "answer"
    BY <1>1, <1>3, <2>1 DEF Check, Returned, Main
  <2>3. ph' = ph \/ ph' = Halt(ph, "StartProcess")
    BY <1>3 DEF Check
  <2>4. ph' \in Table /\ Alike(ph, ph') /\ Pointed(ph, ph')
    BY <1>1, <2>3, ReflexiveAlike, HaltAlike, HaltType DEF Reason, Fault
  <2>5. Sound(ph')
    BY <1>1, <1>2, <2>4, AlikeSound
  <2>6. Pointing'
    BY <1>1, <1>2, <2>1, <2>2, <2>4 DEF Pointing, Beginning, Pointed, Calling
  <2> QED
    BY <2>2, <2>5, <2>6
    DEF Ordered, AtGrow, AtStored, AtErase, AtKillAll, AtCall, AtCount, AtEnds
<1>4. CASE ~ AlreadyRuns(ph, m.prog)
  <2>1. m' = Goto("id") /\ ph' = ph
    BY <1>4 DEF Check
  <2>2. m'.pc = "id" /\ m'.ret = m.ret /\ m'.prog = m.prog
    BY <1>1, <2>1 DEF Goto, Main
  <2>3. \A a \in ph.live : ph.proc[a].prog # m.prog
    BY <1>2, <1>4, NotRunning DEF Sound, Lists
  <2>4. Pointing'
    BY <1>1, <1>2, <2>1, <2>2 DEF Pointing, Beginning, Calling
  <2> QED
    BY <1>1, <1>2, <2>1, <2>2, <2>3, <2>4
    DEF Ordered, AtGrow, AtStored, AtErase, AtKillAll, AtCall, AtCount, AtEnds
<1> QED BY <1>3, <1>4

LEMMA IncrementIDOrdered ==
  ASSUME OrderInv, Undisturbed, IncrementID
  PROVE  Ordered'
<1>1. /\ m.pc = "id" /\ m \in Main /\ ph \in Table /\ Ordered
      /\ ph' = CountID(ph) /\ m' = Goto("construct")
  BY DEF IncrementID, At, OrderInv, TypeOK
<1>2. m'.pc = "construct" /\ m'.ret = m.ret /\ m'.prog = m.prog
  BY <1>1 DEF Goto, Main
<1>3. Sound(ph) /\ AtCall /\ Pointing /\ \A a \in ph.live : ph.proc[a].prog # m.prog
  BY <1>1 DEF Ordered, AtCount, Torn, Pushing
<1>4. Known(ph') /\ Vacant(ph', m.prog)
  BY <1>1, <1>3, CountIDParts DEF Sound
<1>5. Sound(ph') /\ ph'.size = ph.size /\ Pointed(ph, ph')
  BY <1>1, <1>3, <1>4, CountIDLists DEF Sound
<1>6. Pointing'
  BY <1>1, <1>2, <1>3, <1>5 DEF Pointing, Beginning, Calling, Pointed
<1> QED
  BY <1>1, <1>2, <1>3, <1>4, <1>5, <1>6
  DEF Ordered, AtGrow, AtStored, AtErase, AtKillAll, AtCall, AtCount, AtEnds

LEMMA ConstructOrdered ==
  ASSUME OrderInv, Undisturbed, Construct
  PROVE  Ordered'
<1>1. /\ m.pc = "construct" /\ m \in Main /\ ph \in Table /\ Ordered
      /\ m.prog \in Program
  BY DEF Construct, At, OrderInv, TypeOK, Main
<1>2. PICK a \in Addr \ ph.live, d \in Depths(ph, m.prog) :
        /\ ph' = MakeRoom(NewProcess(ph, m.prog, a), m.prog)
        /\ m' = [m EXCEPT !.pc = "grow", !.fresh = a, !.d = d]
  BY DEF Construct
<1>3. m'.pc = "grow" /\ m'.ret = m.ret /\ m'.fresh = a /\ m'.d = d
  BY <1>1, <1>2 DEF Main
<1>4. Sound(ph) /\ AtCall /\ Pointing /\ Vacant(ph, m.prog)
  BY <1>1 DEF Ordered, AtCount, Torn, Pushing
<1> DEFINE u == NewProcess(ph, m.prog, a)
<1>5. /\ u \in Table /\ u.size = ph.size /\ u.proc[a].type = InitType(m.prog)
      /\ Pointed(ph, u)
  BY <1>1, NewProcessParts
<1>6. Lists(u, {a}) /\ Known(u) /\ Bottom(u)
  BY <1>1, <1>4, NewProcessLists, NewProcessKnown DEF Sound
<1>7. InitType("tty") = "FULLSCREEN" /\ InitType("topbar") = "FRAMELESSWINDOW"
  BY DEF InitType, Procedure, Tty, Topbar, Quiet
<1> HIDE DEF u
<1>8. \/ ph.size = 0 /\ d = 0 /\ m.prog = "tty"
      \/ ph.size > 0 /\ d = 1 /\ InitType(m.prog) # "FULLSCREEN"
  <2>1. ph.size \in Nat
    BY <1>1, TableParts
  <2>2. CASE m.ret = "answer"
    BY <1>1, <1>4, <1>7, <2>1, <2>2, DepthOfType DEF AtCall, Depths
  <2>3. CASE m.ret # "answer"
    BY <1>1, <1>4, <1>7, <2>1, <2>3, DepthOfType DEF AtCall, Depths
  <2> QED BY <2>2, <2>3
<1>9. ph' = u
  <2>1. CASE ph.size = 0
    <3>1. \A A : Hits(u, A) = {}
      BY <1>5, <2>1 DEF Hits, Slots
    <3> QED BY <1>2, <3>1 DEF MakeRoom, KillFirst, u
  <2>2. CASE InitType(m.prog) # "FULLSCREEN"
    BY <1>2, <2>2 DEF MakeRoom, u
  <2> QED BY <1>8, <2>1, <2>2
<1>10. Pointing'
  BY <1>1, <1>3, <1>4, <1>5, <1>9 DEF Pointing, Beginning, Calling, Pointed
<1>11. AtGrow'
  BY <1>3, <1>5, <1>6, <1>8, <1>9 DEF AtGrow
<1> QED
  BY <1>3, <1>10, <1>11
  DEF Ordered, AtStored, AtErase, AtKillAll, AtCall, AtCount, AtEnds, Torn, Pushing

LEMMA PushGrowOrdered ==
  ASSUME OrderInv, Undisturbed, PushGrow
  PROVE  Ordered'
<1>1. /\ m.pc = "grow" /\ m \in Main /\ ph \in Table /\ Ordered
      /\ ph.size < Capacity /\ ph' = Grow(ph) /\ m' = Goto("store")
  BY DEF PushGrow, At, OrderInv, TypeOK
<1>2. m'.pc = "store" /\ m'.ret = m.ret /\ m'.fresh = m.fresh /\ m'.d = m.d
  BY <1>1 DEF Goto, Main
<1>3. /\ m.fresh \in Addr /\ Lists(ph, {m.fresh}) /\ Known(ph) /\ Bottom(ph) /\ Pointing
      /\ \/ ph.size = 0 /\ m.d = 0
         \/ ph.size > 0 /\ m.d = 1 /\ ph.proc[m.fresh].type # "FULLSCREEN"
  BY <1>1 DEF Ordered, AtGrow
<1> DEFINE a == m.fresh
           t == Store(Grow(ph), a)
<1>4. /\ t \in Table /\ ph'.size = ph.size + 1
      /\ t.size = ph.size + 1 /\ t.newID = ph.newID /\ t.menu = ph.menu
      /\ t.live = ph.live /\ t.proc = ph.proc
      /\ \A j \in Slots(t) : t.data[j] = IF j = ph.size THEN a ELSE ph.data[j]
      /\ ph.size \in Slots(t)
  BY <1>1, <1>3, PushParts
<1>5. Lists(t, {})
  BY <1>1, <1>3, PushLists
<1>6. ph.size > 0 => Bottom(t)
  <2>1. ph.size > 0 => ph.proc[a].type # "FULLSCREEN"
    BY <1>3
  <2> QED BY <1>1, <1>3, <2>1, PushBottom
<1>7. Stored' = t
  BY <1>1, <1>2 DEF Stored
<1> HIDE DEF t
<1>8. Known(t)
  BY <1>3, <1>4, FewerKnown
<1>9. ph.size \in Nat /\ ph'.size - 1 = ph.size
  BY <1>1, <1>4, TableParts
<1>10. AtStored'
  BY <1>2, <1>3, <1>4, <1>5, <1>6, <1>7, <1>8, <1>9 DEF AtStored
<1>11. ph'.live = ph.live /\ ph'.last = ph.last /\ ph'.focused = ph.focused
  BY <1>1 DEF Grow, Table
<1>12. Pointing'
  BY <1>1, <1>2, <1>3, <1>11 DEF Pointing, Beginning, Calling, LastLive, FocusedLive
<1> QED
  BY <1>2, <1>10, <1>12
  DEF Ordered, AtGrow, AtErase, AtKillAll, AtCall, AtCount, AtEnds, Torn, Pushing

LEMMA PushStoreOrdered ==
  ASSUME OrderInv, Undisturbed, PushStore
  PROVE  Ordered'
<1>1. m.pc = "store" /\ m \in Main /\ ph \in Table /\ Ordered /\ m' = Goto("depth")
  BY DEF PushStore, At, OrderInv, TypeOK
<1>2. m'.pc = "depth" /\ m'.ret = m.ret /\ m'.fresh = m.fresh /\ m'.d = m.d
  BY <1>1 DEF Goto, Main
<1>3. /\ Pointing
      /\ m.fresh \in Addr /\ Lists(Stored, {}) /\ Known(Stored)
      /\ ph.size > 0 /\ Stored.data[ph.size - 1] = m.fresh
      /\ \/ ph.size = 1 /\ m.d = 0
         \/ ph.size > 1 /\ m.d = 1 /\ Bottom(Stored)
  BY <1>1 DEF Ordered, AtStored
<1>4. ph' = Store(ph, m.fresh)
  BY <1>3 DEF PushStore
<1>5. Stored = ph' /\ Stored' = ph'
  BY <1>1, <1>2, <1>4 DEF Stored
<1>6. /\ ph'.live = ph.live /\ ph'.last = ph.last /\ ph'.focused = ph.focused
      /\ ph'.size = ph.size
  BY <1>1, <1>4 DEF Store, Table
<1>7. AtStored'
  BY <1>2, <1>3, <1>5, <1>6 DEF AtStored
<1>8. Pointing'
  BY <1>1, <1>2, <1>3, <1>6 DEF Pointing, Beginning, Calling, LastLive, FocusedLive
<1> QED
  BY <1>2, <1>7, <1>8
  DEF Ordered, AtGrow, AtErase, AtKillAll, AtCall, AtCount, AtEnds, Torn, Pushing

LEMMA UpdateDepthOrdered ==
  ASSUME OrderInv, Undisturbed, UpdateDepth
  PROVE  Ordered'
<1>1. m.pc = "depth" /\ m \in Main /\ ph \in Table /\ Ordered /\ m' = Returned
  BY DEF UpdateDepth, At, OrderInv, TypeOK
<1>2. /\ m'.pc = IF m.ret = "answer" THEN "answer" ELSE "focus"
      /\ m'.ret = m.ret
  BY <1>1 DEF Returned, Main
<1> DEFINE a == m.fresh
           d == m.d
<1>3. /\ Pointing
      /\ a \in Addr /\ Lists(ph, {}) /\ Known(ph)
      /\ ph.size > 0 /\ ph.data[ph.size - 1] = a
      /\ \/ ph.size = 1 /\ d = 0
         \/ ph.size > 1 /\ d = 1 /\ Bottom(ph)
  BY <1>1 DEF Ordered, AtStored, Stored
<1>4. ph.size \in Nat /\ ph.size - 1 \in Slots(ph) /\ d \in Slots(ph) /\ d \in Slot
  BY <1>1, <1>3, TableParts DEF Slots
<1>5. a \in Listed(ph) /\ a \in ph.live
  BY <1>3, <1>4 DEF Listed, Lists
<1>6. ph' = SetDepth(ph, a, d)
  BY <1>5 DEF UpdateDepth
<1> HIDE DEF a, d
<1>7. /\ ph' \in Table /\ ph'.live = ph.live /\ ph'.proc = ph.proc /\ ph'.newID = ph.newID
      /\ ph'.size = ph.size /\ ph'.menu = ph.menu /\ Pointed(ph, ph')
  BY <1>1, <1>3, <1>4, <1>6, SetDepthSame
<1>8. Lists(ph', {}) /\ Known(ph')
  BY <1>1, <1>3, <1>4, <1>5, <1>6, <1>7, SetDepthLists, FewerKnown
<1>9. Bottom(ph')
  <2>1. CASE ph.size = 1
    BY <1>7, <2>1 DEF Bottom, Slots
  <2>2. CASE ph.size > 1 /\ d = 1 /\ Bottom(ph)
    <3>1. ph.proc[a].type # "FULLSCREEN"
      BY <1>3, <1>4, <2>2 DEF Bottom
    <3> QED BY <1>1, <1>3, <1>4, <1>5, <1>6, <2>2, <3>1, SetDepthBottom DEF Lists
  <2> QED BY <1>3, <2>1, <2>2
<1>10. Pointing'
  BY <1>1, <1>2, <1>3, <1>7 DEF Pointing, Beginning, Calling, Pointed
<1> QED
  BY <1>2, <1>3, <1>7, <1>8, <1>9, <1>10
  DEF Ordered, Sound, AtGrow, AtStored, AtErase, AtKillAll, AtCall, AtCount, AtEnds

LEMMA FocusOrdered ==
  ASSUME OrderInv, Undisturbed, Focus
  PROVE  Ordered'
<1>1. /\ m.pc = "focus" /\ m \in Main /\ ph \in Table /\ Ordered /\ IndexOK
      /\ ph' = [ph EXCEPT !.focused = ph.data[0]]
      /\ m' = [m EXCEPT !.pc = m.ret, !.i = 0, !.ret = "for"]
  BY DEF Focus, At, OrderInv, TypeOK
<1>2. m'.pc \in {"for", "hlt"}
  BY <1>1 DEF IndexOK, Calling, Main
<1>3. Sound(ph) /\ ph.size > 0 /\ LastLive(ph)
  BY <1>1 DEF Ordered, AtEnds, Pointing, Torn, Pushing
<1>4. ph.data[0] \in ph.live
  <2>1. 0 \in Slots(ph)
    BY <1>1, <1>3, TableParts DEF Slots
  <2> QED BY <1>3, <2>1 DEF Sound, Lists, Listed
<1>5. /\ ph' \in Table /\ Alike(ph, ph') /\ FocusedLive(ph') /\ LastLive(ph')
  BY <1>1, <1>3, <1>4, TableParts DEF Table, Alike, Similar, FocusedLive, LastLive
<1>6. Sound(ph')
  BY <1>1, <1>3, <1>5, AlikeSound
<1> QED
  BY <1>2, <1>5, <1>6
  DEF Ordered, Pointing, AtGrow, AtStored, AtErase, AtKillAll, AtCall, AtCount, AtEnds

-----------------------------------------------------------------------------
(***************************************************************************)
(* The rest of Loop.                                                       *)
(***************************************************************************)
LEMMA DanglingOrdered ==
  ASSUME OrderInv, Undisturbed, NEW l \in Reason, Dangling(l)
  PROVE  Ordered'
<1>1. ph \in Table /\ ph' = Halt(ph, l) /\ m' = m
  BY DEF OrderInv, TypeOK, Dangling
<1>2. Alike(ph, ph') /\ Pointed(ph, ph')
  BY <1>1, HaltAlike
<1> QED BY <1>1, <1>2, DanglingType, QuietOrdered DEF OrderInv

LEMMA SettledAlike ==
  ASSUME OrderInv, Undisturbed, m.pc \in Settled, m'.pc \in Settled, ph' \in Table,
         Alike(ph, ph'), Pointed(ph, ph')
  PROVE  Ordered'
<1>1. Sound(ph) /\ ph \in Table
  BY SettledSound DEF OrderInv, TypeOK
<1>2. Sound(ph')
  BY <1>1, AlikeSound
<1> QED BY <1>2, SettledOrdered

LEMMA PassOrdered ==
  ASSUME OrderInv, Undisturbed, For \/ Update \/ PaintFor \/ Unflag
  PROVE  Ordered'
<1>0. m \in Main /\ ph \in Table
  BY DEF OrderInv, TypeOK
<1>1. m.pc \in {"for", "update", "paintfor", "unflag"}
  BY DEF For, Update, PaintFor, Unflag, At
<1>2. m'.pc \in {"pop", "update", "paintfor", "empty", "paint", "unflag"}
  BY <1>0 DEF For, Update, PaintFor, Unflag, Goto, Main
<1>3. m.pc \in Settled /\ m'.pc \in Settled
  BY <1>1, <1>2 DEF Settled, Labels, Writing, Calling
<1>4. ph' = ph \/ ph' = [ph EXCEPT !.redraw = FALSE]
  BY DEF For, Update, PaintFor, Unflag
<1>5. ph' \in Table /\ Alike(ph, ph') /\ Pointed(ph, ph')
  BY <1>0, <1>4 DEF Table, Alike, Similar, Pointed, LastLive, FocusedLive
<1> QED BY <1>3, <1>5, SettledAlike

LEMMA PaintOrdered ==
  ASSUME OrderInv, Undisturbed, Paint
  PROVE  Ordered'
<1>0. m \in Main /\ ph \in Table
  BY DEF OrderInv, TypeOK
<1>1. CASE Dangling("paint")
  BY <1>1, DanglingOrdered DEF Reason, Fault
<1>2. CASE ~ Dangling("paint")
  <2>1. m.pc = "paint" /\ m' = [m EXCEPT !.pc = "paintfor", !.i = @ + 1] /\ ph' = ph
    BY <1>2 DEF Paint, At
  <2>2. m.pc \in Settled /\ m'.pc \in Settled
    BY <1>0, <2>1 DEF Settled, Labels, Writing, Calling, Main
  <2> QED BY <1>0, <2>1, <2>2, ReflexiveAlike, SettledAlike
<1> QED BY <1>1, <1>2

LEMMA EmptyOrdered ==
  ASSUME OrderInv, Undisturbed, Empty
  PROVE  Ordered'
<1>0. m \in Main /\ ph \in Table /\ m.pc = "empty" /\ ph' = ph /\ Ordered
  BY DEF OrderInv, TypeOK, Empty, At
<1>1. m.pc \in Settled
  BY <1>0 DEF Settled, Labels, Writing, Calling
<1>2. CASE ph.size = 0
  <2>1. m' = StartTTY("hlt")
    BY <1>2 DEF Empty
  <2>2. m'.pc = "check" /\ m'.prog = "tty" /\ m'.ret = "hlt"
    BY <1>0, <2>1 DEF StartTTY, Main
  <2>3. Pointing'
    BY <1>0, <2>2 DEF Ordered, Pointing, Beginning, Calling
  <2>4. Sound(ph')
    BY <1>0, <1>1, SettledSound
  <2> QED
    BY <1>0, <1>2, <2>2, <2>3, <2>4
    DEF Ordered, AtGrow, AtStored, AtErase, AtKillAll, AtCall, AtCount, AtEnds
<1>3. CASE ph.size # 0
  <2>1. m' = Goto("hlt")
    BY <1>3 DEF Empty
  <2>2. m'.pc \in Settled
    BY <1>0, <2>1 DEF Goto, Main, Settled, Labels, Writing, Calling
  <2> QED BY <1>0, <1>1, <2>2, ReflexiveAlike, SettledAlike
<1> QED BY <1>2, <1>3

LEMMA PopOrdered ==
  ASSUME OrderInv, Undisturbed, Pop
  PROVE  Ordered'
<1>0. m \in Main /\ ph \in Table /\ Ordered
  BY DEF OrderInv, TypeOK
<1>1. CASE Dangling("pop")
  BY <1>1, DanglingOrdered DEF Reason, Fault
<1>2. CASE ~ Dangling("pop")
  <2>1. PICK a \in Addr : /\ ph' = PopRequest(ph, a)
                          /\ m' = Dispatch(PendingRequest(ph, a))
                          /\ m.pc = "pop"
    BY <1>2 DEF Pop, At
  <2>2. /\ ph' \in Table /\ Alike(ph, ph') /\ Pointed(ph, ph')
        /\ PendingRequest(ph, a) \in Request
    BY <1>0, <2>1, PopRequestType, PopRequestAlike
  <2>3. m.pc \in Settled
    BY <2>1 DEF Settled, Labels, Writing, Calling
  <2>4. m'.pc \in {"for", "act", "kill"} \/ m' = [m EXCEPT !.pc = "killall", !.i = 0]
    BY <1>0, <2>1, <2>2 DEF Dispatch, Advance, Goto, Main, Request
  <2>5. CASE m'.pc \in {"for", "act", "kill"}
    <3>1. m'.pc \in Settled
      BY <2>5 DEF Settled, Labels, Writing, Calling
    <3> QED BY <2>2, <2>3, <3>1, SettledAlike
  <2>6. CASE m' = [m EXCEPT !.pc = "killall", !.i = 0]
    <3>1. m'.pc = "killall" /\ m'.i = 0
      BY <1>0, <2>6 DEF Main
    <3>2. Sound(ph') /\ ph'.size \in Nat
      BY <1>0, <2>2, <2>3, SettledSound, AlikeSound, TableParts
    <3>3. AtKillAll'
      BY <3>1, <3>2 DEF AtKillAll, Sound, Lists, Listed, Slots
    <3>4. Pointing'
      BY <1>0, <2>2, <3>1 DEF Ordered, Pointing, Pointed, Beginning
    <3> QED
      BY <3>1, <3>3, <3>4
      DEF Ordered, AtGrow, AtStored, AtErase, AtCall, AtCount, AtEnds, Torn
  <2> QED BY <2>4, <2>5, <2>6
<1> QED BY <1>1, <1>2

LEMMA ActOrdered ==
  ASSUME OrderInv, Undisturbed, Act
  PROVE  Ordered'
<1>0. m \in Main /\ ph \in Table /\ Ordered
  BY DEF OrderInv, TypeOK
<1>1. CASE Dangling("act")
  BY <1>1, DanglingOrdered DEF Reason, Fault
<1>2. CASE ~ Dangling("act")
  <2>1. PICK a \in Addr, next \in {"answer", "check"} :
          /\ a \in ph.live
          /\ ph' = [ph EXCEPT !.last = a]
          /\ m' = [m EXCEPT !.pc = next, !.cur = a, !.id = ph.proc[a].id,
                            !.prog = IF next = "check" THEN "topbar" ELSE @,
                            !.ret = IF next = "check" THEN "answer" ELSE @]
          /\ m.pc = "act"
    BY <1>2 DEF Act, At, Following
  <2>2. ph' \in Table /\ Alike(ph, ph') /\ Pointed(ph, ph')
    BY <1>0, <2>1 DEF Table, Alike, Similar, Pointed, LastLive, FocusedLive
  <2>3. m.pc \in Settled
    BY <2>1 DEF Settled, Labels, Writing, Calling
  <2>4. CASE next = "answer"
    <3>1. m'.pc \in Settled
      BY <1>0, <2>1, <2>4 DEF Settled, Labels, Writing, Calling, Main
    <3> QED BY <2>2, <2>3, <3>1, SettledAlike
  <2>5. CASE next = "check"
    <3>1. m'.pc = "check" /\ m'.prog = "topbar" /\ m'.ret = "answer"
      BY <1>0, <2>1, <2>5 DEF Main
    <3>2. Sound(ph) /\ ph.size > 0
      BY <1>0, <2>1, <2>3, SettledSound, SoundSize, TableParts
    <3>3. Sound(ph') /\ ph'.size > 0
      BY <1>0, <2>2, <3>2, AlikeSound DEF Alike, Similar
    <3>4. Pointing'
      BY <1>0, <2>1, <2>2, <3>1 DEF Ordered, Pointing, Pointed, Beginning, Calling
    <3> QED
      BY <3>1, <3>3, <3>4
      DEF Ordered, AtGrow, AtStored, AtErase, AtKillAll, AtCall, AtCount, AtEnds
  <2> QED BY <2>4, <2>5
<1> QED BY <1>1, <1>2

LEMMA AnswerOrdered ==
  ASSUME OrderInv, Undisturbed, Answer, TypeOK'
  PROVE  Ordered'
<1>0. m \in Main /\ ph \in Table /\ m.pc = "answer"
  BY DEF OrderInv, TypeOK, Answer, At
<1>1. CASE m.cur \in ph.live /\ ph.proc[m.cur].id = m.id
  <2>1. m' = [m EXCEPT !.pc = "compose", !.req = "SUCCESS", !.cur = Null,
                       !.id = 0, !.prog = "tty", !.ret = "for"]
    BY <1>1 DEF Answer
  <2>2. m.pc \in Settled /\ m'.pc \in Settled
    BY <1>0, <2>1 DEF Settled, Labels, Writing, Calling, Main
  <2>3. m.cur \in Addr
    BY <1>0, <1>1, TableParts
  <2>4. \E r \in Request, f \in SUBSET Program :
          \/ ph' = Answered(ph, m.cur, r)
          \/ ph' = [Answered(ph, m.cur, r) EXCEPT !.anim = f]
    <3> DEFINE p == ph.proc[m.cur].prog
    <3>1. ClearReplies(p) \subseteq Request
      BY RepliesType
    <3>2. ASSUME NEW ended \in BOOLEAN, NEW r \in DrawReplies(p, ended),
                 ph' = [Answered(ph, m.cur, r) EXCEPT !.anim = IF ended THEN @ \ {p} ELSE @]
          PROVE  \E f \in SUBSET Program : ph' = [Answered(ph, m.cur, r) EXCEPT !.anim = f]
      <4> DEFINE s == Answered(ph, m.cur, r)
      <4>1. s \in Table
        <5>1. r \in Request
          BY RepliesType
        <5> QED BY <1>0, <2>3, <5>1, AnsweredType
      <4> HIDE DEF s
      <4>2. (IF ended THEN s.anim \ {p} ELSE s.anim) \in SUBSET Program
        BY <4>1 DEF Table
      <4> QED BY <3>2, <4>2 DEF s
    <3>3. \A q, e : DrawReplies(q, e) \subseteq Request
      BY RepliesType
    <3>4. \/ \E r \in ClearReplies(p) : ph' = Answered(ph, m.cur, r)
          \/ \E ended \in BOOLEAN : \E r \in DrawReplies(p, ended) :
               ph' = [Answered(ph, m.cur, r) EXCEPT !.anim = IF ended THEN @ \ {p} ELSE @]
      BY <1>1 DEF Answer
    <3> HIDE DEF p
    <3>5. {} \in SUBSET Program
      OBVIOUS
    <3>6. CASE \E r \in ClearReplies(p) : ph' = Answered(ph, m.cur, r)
      BY <3>1, <3>5, <3>6
    <3>7. CASE \E ended \in BOOLEAN : \E r \in DrawReplies(p, ended) :
                 ph' = [Answered(ph, m.cur, r) EXCEPT !.anim = IF ended THEN @ \ {p} ELSE @]
      <4>0. PICK ended \in BOOLEAN : \E r \in DrawReplies(p, ended) :
              ph' = [Answered(ph, m.cur, r) EXCEPT !.anim = IF ended THEN @ \ {p} ELSE @]
        BY <3>7
      <4>1. PICK r \in DrawReplies(p, ended) :
              ph' = [Answered(ph, m.cur, r) EXCEPT !.anim = IF ended THEN @ \ {p} ELSE @]
        BY <4>0
      <4>2. PICK f \in SUBSET Program : ph' = [Answered(ph, m.cur, r) EXCEPT !.anim = f]
        BY <3>2, <4>1 DEF p
      <4>3. r \in Request
        BY <3>3
      <4> QED BY <4>2, <4>3
    <3> QED BY <3>4, <3>6, <3>7
  <2>5. PICK r \in Request, f \in SUBSET Program :
          \/ ph' = Answered(ph, m.cur, r)
          \/ ph' = [Answered(ph, m.cur, r) EXCEPT !.anim = f]
    BY <2>4
  <2> DEFINE s == Answered(ph, m.cur, r)
  <2>6. s \in Table /\ Alike(ph, s) /\ Pointed(ph, s)
    BY <1>0, <2>3, AnsweredType, AnsweredAlike
  <2> HIDE DEF s
  <2>7. LET t == [s EXCEPT !.anim = f] IN t \in Table /\ Alike(s, t) /\ Pointed(s, t)
    BY <2>6 DEF Table, Alike, Similar, Pointed, LastLive, FocusedLive
  <2>8. ph' \in Table /\ Alike(ph, ph') /\ Pointed(ph, ph')
    BY <2>5, <2>6, <2>7, AlikeTransitive DEF s
  <2> QED BY <2>2, <2>8, SettledAlike
<1>2. CASE ~ (m.cur \in ph.live /\ ph.proc[m.cur].id = m.id)
  <2>1. ph' = Halt(ph, "SendMessage") /\ m' = m
    BY <1>2 DEF Answer
  <2> QED BY <1>0, <2>1, HaltAlike, QuietOrdered
<1> QED BY <1>1, <1>2

LEMMA ComposeOrdered ==
  ASSUME OrderInv, Undisturbed, Compose
  PROVE  Ordered'
<1>0. m \in Main /\ ph \in Table
  BY DEF OrderInv, TypeOK
<1>1. CASE Dangling("compose")
  BY <1>1, DanglingOrdered DEF Reason, Fault
<1>2. CASE ~ Dangling("compose")
  <2>1. PICK overlap \in BOOLEAN : ph' = [ph EXCEPT !.redraw = @ \/ overlap]
    BY <1>2 DEF Compose
  <2>2. m.pc = "compose" /\ m' = Advance
    BY <1>2 DEF Compose, At
  <2>3. m.pc \in Settled /\ m'.pc \in Settled
    BY <1>0, <2>2 DEF Advance, Main, Settled, Labels, Writing, Calling
  <2>4. ph' \in Table /\ Alike(ph, ph') /\ Pointed(ph, ph')
    BY <1>0, <2>1 DEF Table, Alike, Similar, Pointed, LastLive, FocusedLive
  <2> QED BY <2>3, <2>4, SettledAlike
<1> QED BY <1>1, <1>2

LEMMA KillOrdered ==
  ASSUME OrderInv, Undisturbed, Kill
  PROVE  Ordered'
<1>0. m \in Main /\ ph \in Table /\ m.pc = "kill"
  BY DEF OrderInv, TypeOK, Kill, At
<1>1. CASE Dangling("kill")
  BY <1>1, DanglingOrdered DEF Reason, Fault
<1>2. CASE ~ Dangling("kill")
  <2>1. /\ ph' = ph \/ ph' = Halt(ph, "KillProcess")
        /\ \E k \in Slots(ph) : m' = [m EXCEPT !.pc = "unfocus", !.d = k]
    BY <1>2 DEF Kill
  <2>2. m.pc \in Settled /\ m'.pc \in Settled
    BY <1>0, <2>1 DEF Main, Settled, Labels, Writing, Calling
  <2>3. ph' \in Table /\ Alike(ph, ph') /\ Pointed(ph, ph')
    BY <1>0, <2>1, ReflexiveAlike, HaltAlike, HaltType DEF Reason, Fault
  <2> QED BY <2>2, <2>3, SettledAlike
<1> QED BY <1>1, <1>2

(* The steps of KillProcess that leave the list alone.                     *)
LEMMA ForgetOrdered ==
  ASSUME OrderInv, Undisturbed, ForgetFocused \/ ForgetLast \/ ForgetMoving \/ Tell \/ Told
  PROVE  Ordered'
<1>0. m \in Main /\ ph \in Table /\ TypeOK
  BY DEF OrderInv, TypeOK
<1>1. m.pc \in Killing
  BY DEF ForgetFocused, ForgetLast, ForgetMoving, Tell, Told, At, Killing
<1>2. m' = m \/ m'.pc \in Killing
  BY <1>0 DEF ForgetFocused, ForgetLast, ForgetMoving, Tell, Told, Goto, Main, Killing
<1>3. m.pc \in Settled /\ m'.pc \in Settled
  BY <1>1, <1>2 DEF Killing, Settled, Labels, Writing, Calling
<1>4. Alike(ph, ph') /\ Pointed(ph, ph')
  <2>1. CASE ForgetFocused \/ ForgetLast \/ ForgetMoving
    BY <1>0, <2>1
    DEF ForgetFocused, ForgetLast, ForgetMoving, Alike, Similar, Pointed, LastLive,
        FocusedLive, Table
  <2>2. CASE Tell
    <3>1. Victim \in ph.live => Alike(ph, [ph EXCEPT !.last = Victim])
                                 /\ Pointed(ph, [ph EXCEPT !.last = Victim])
      BY <1>0 DEF Alike, Similar, Pointed, LastLive, FocusedLive, Table
    <3> QED BY <1>0, <2>2, <3>1, HaltAlike DEF Tell
  <2>3. CASE Told
    <3>1. \A r \in KillReplies(ph.proc[m.cur].prog) : m.cur \in ph.live =>
            Alike(ph, Answered(ph, m.cur, r)) /\ Pointed(ph, Answered(ph, m.cur, r))
      BY <1>0, RepliesType, AnsweredAlike, TableParts
    <3> QED BY <1>0, <2>3, <3>1, HaltAlike DEF Told
  <2> QED BY <2>1, <2>2, <2>3
<1>5. ph' \in Table
  BY VictimType DEF OrderInv, TypeOK
<1> QED BY <1>3, <1>4, <1>5, SettledAlike

LEMMA DeleteVictimOrdered ==
  ASSUME OrderInv, Undisturbed, DeleteVictim
  PROVE  Ordered'
<1>0. m \in Main /\ ph \in Table /\ Ordered /\ m.pc = "delete" /\ Spared
  BY DEF OrderInv, TypeOK, DeleteVictim, At
<1> DEFINE k == m.d
<1>1. Sound(ph)
  BY <1>0, SettledSound DEF Settled, Labels, Writing, Calling
<1>2. k \in Slots(ph) /\ ph.data[k] \in ph.live
  BY <1>0, <1>1 DEF Spared, Undisturbed, Killing, Sound, Lists, Listed
<1>3. ph.focused # ph.data[k] /\ ph.moving # ph.data[k]
  BY <1>0, <1>2, TableParts DEF Spared, Undisturbed, Killing, Victim
<1>4. ph' = Delete(ph, ph.data[k]) /\ m' = Goto("erase")
  BY <1>2 DEF DeleteVictim, Victim
<1>5. ph' = Killed(ph, k)
  <2>1. Forget(ph, ph.data[k]) = [ph EXCEPT !.last = IF @ = ph.data[k] THEN Null ELSE @]
    BY <1>0, <1>3 DEF Forget, Table
  <2>2. Delete(ph, ph.data[k]) = Delete(Forget(ph, ph.data[k]), ph.data[k])
    BY <1>0, <2>1 DEF Delete, Table
  <2> QED BY <1>4, <2>2 DEF Killed
<1>6. m'.pc = "erase" /\ m'.d = k
  BY <1>0, <1>4 DEF Goto, Main
<1>7. /\ ph' \in Table /\ ph'.size = ph.size /\ ph'.newID = ph.newID
      /\ ph'.menu = ph.menu /\ ph'.live \subseteq ph.live
      /\ \A a \in ph'.live : ph'.proc[a] = ph.proc[a]
      /\ Pointed(ph, ph')
  BY <1>0, <1>2, <1>5, KilledParts
<1> DEFINE t == Unlisted(ph', k)
<1>8. Lists(t, {}) /\ Bottom(t)
  BY <1>0, <1>1, <1>2, <1>5, UnlistedLists, UnlistedBottom DEF Sound
<1>9. /\ t.live = ph'.live /\ t.proc = ph'.proc /\ t.newID = ph'.newID
      /\ t.menu = ph'.menu
  BY <1>0, <1>2, <1>7, UnlistedParts, TableParts
<1>10. Known(t)
  BY <1>1, <1>7, <1>9, FewerKnown DEF Sound
<1>11. AtErase'
  BY <1>2, <1>6, <1>7, <1>8, <1>10 DEF AtErase, Sound, Slots
<1>12. Pointing'
  BY <1>0, <1>6, <1>7 DEF Ordered, Pointing, Pointed, Beginning, Calling
<1> QED
  BY <1>6, <1>11, <1>12
  DEF Ordered, AtGrow, AtStored, AtKillAll, AtCall, AtCount, AtEnds, Torn

LEMMA EraseSlotOrdered ==
  ASSUME OrderInv, Undisturbed, EraseSlot
  PROVE  Ordered'
<1>1. /\ m \in Main /\ ph \in Table /\ Ordered /\ m.pc = "erase"
      /\ ph' = Unlisted(ph, m.d) /\ m' = [m EXCEPT !.pc = "for", !.d = 0]
  BY DEF OrderInv, TypeOK, EraseSlot, At
<1>2. m'.pc = "for"
  BY <1>1 DEF Main
<1>3. Sound(ph') /\ m.d \in Slots(ph)
  BY <1>1 DEF Ordered, AtErase
<1>4. ph'.live = ph.live /\ ph'.last = ph.last /\ ph'.focused = ph.focused
  BY <1>1, <1>3, UnlistedParts, TableParts
<1>5. Pointing'
  BY <1>1, <1>2, <1>4
  DEF Ordered, Pointing, Beginning, LastLive, FocusedLive, Calling
<1> QED
  BY <1>2, <1>3, <1>5
  DEF Ordered, AtGrow, AtStored, AtErase, AtKillAll, AtCall, AtCount, AtEnds

LEMMA KillAllOrdered ==
  ASSUME OrderInv, Undisturbed, KillAllProcesses, TypeOK'
  PROVE  Ordered'
<1>0. /\ m \in Main /\ ph \in Table /\ ph' \in Table /\ Ordered /\ m.pc = "killall"
      /\ ph.size \in Nat /\ m.i \in Nat
  BY CapacityIsNat, TableParts DEF OrderInv, TypeOK, KillAllProcesses, At, Main, Slot
<1>1. /\ m.i <= ph.size /\ Distinct(ph) /\ Known(ph)
      /\ ph.live = {ph.data[k] : k \in m.i .. ph.size - 1}
      /\ LastLive(ph)
  BY <1>0 DEF Ordered, AtKillAll, Pointing
<1>2. CASE m.i < ph.size
  <2> DEFINE x == ph.data[m.i]
  <2>1. ph' = KillAt(ph, m.i) /\ m' = [m EXCEPT !.i = @ + 1]
    BY <1>2 DEF KillAllProcesses
  <2>2. x \in ph.live
    BY <1>0, <1>1, <1>2
  <2>3. ph' = Delete(ph, x) /\ m'.pc = "killall" /\ m'.i = m.i + 1
    BY <1>0, <2>1, <2>2 DEF KillAt, Main
  <2>4. /\ ph'.data = ph.data /\ ph'.size = ph.size /\ ph'.newID = ph.newID
        /\ ph'.menu = ph.menu /\ ph'.live = ph.live \ {x} /\ ph'.last = Null
        /\ ph'.proc = [ph.proc EXCEPT ![x] = NoProcess]
    BY <1>0, <2>3 DEF Delete, Table
  <2>5. \A a \in ph'.live : ph'.proc[a] = ph.proc[a]
    BY <1>0, <2>4, TableParts
  <2>6. Known(ph')
    BY <1>1, <2>4, <2>5, FewerKnown
  <2>7. ph'.live = {ph'.data[k] : k \in m'.i .. ph'.size - 1}
    <3>1. \A k \in m.i + 1 .. ph.size - 1 : ph.data[k] # x
      BY <1>0, <1>1, <1>2 DEF Distinct, Slots
    <3>2. m.i .. ph.size - 1 = {m.i} \cup (m.i + 1 .. ph.size - 1)
      BY <1>0, <1>2
    <3> QED BY <1>1, <2>3, <2>4, <3>1, <3>2
  <2>8. AtKillAll'
    BY <1>0, <1>1, <1>2, <2>3, <2>4, <2>6, <2>7 DEF AtKillAll, Distinct, Slots
  <2>9. Pointing'
    BY <2>3, <2>4 DEF Pointing, Beginning, LastLive
  <2> QED
    BY <2>3, <2>8, <2>9
    DEF Ordered, AtGrow, AtStored, AtErase, AtCall, AtCount, AtEnds, Torn
<1>3. CASE ~ (m.i < ph.size)
  <2>1. ph' = Clear(ph) /\ m' = [m EXCEPT !.pc = "start", !.i = 0]
    BY <1>3 DEF KillAllProcesses
  <2>2. m'.pc = "start"
    BY <1>0, <2>1 DEF Main
  <2>3. /\ ph'.size = 0 /\ ph'.live = ph.live /\ ph'.last = ph.last
        /\ ph'.newID = ph.newID /\ ph'.menu = ph.menu /\ ph'.proc = ph.proc
    BY <1>0, <2>1 DEF Clear, Table
  <2>4. ph.live = {}
    BY <1>0, <1>1, <1>3
  <2>5. Slots(ph') = {} /\ Listed(ph') = {}
    BY <2>3 DEF Slots, Listed
  <2>6. Sound(ph')
    <3>1. Known(ph')
      BY <1>1, <2>3, FewerKnown
    <3> QED BY <2>3, <2>4, <2>5, <3>1 DEF Sound, Lists, Distinct, Bottom
  <2>7. Pointing'
    BY <1>1, <2>2, <2>3 DEF Pointing, Beginning, LastLive
  <2> QED
    BY <2>2, <2>3, <2>6, <2>7
    DEF Ordered, AtGrow, AtStored, AtErase, AtKillAll, AtCall, AtCount, AtEnds
<1> QED BY <1>2, <1>3

-----------------------------------------------------------------------------
(***************************************************************************)
(* The invariant, and what it says.                                        *)
(***************************************************************************)
LEMMA LoopOrdered ==
  ASSUME OrderInv, Undisturbed, Loop, TypeOK'
  PROVE  Ordered'
  BY StartOrdered, CheckOrdered, IncrementIDOrdered, ConstructOrdered, PushGrowOrdered,
     PushStoreOrdered, UpdateDepthOrdered, FocusOrdered, PassOrdered, PaintOrdered,
     EmptyOrdered, PopOrdered, ActOrdered, AnswerOrdered, ComposeOrdered, KillOrdered,
     ForgetOrdered, DeleteVictimOrdered, EraseSlotOrdered, KillAllOrdered
  DEF Loop

(* Only Construct sets fresh, and what leaves Pushing resets it.           *)
LEMMA LoopFresh ==
  ASSUME OrderInv, Loop
  PROVE  m'.pc \notin Pushing => m'.fresh = Null
<1>0. m \in Main /\ (m.pc \notin Pushing => m.fresh = Null)
  BY DEF OrderInv, TypeOK
<1>1. CASE Start \/ For \/ Update \/ PaintFor \/ Unflag \/ Empty
  BY <1>0, <1>1
  DEF Start, For, Update, PaintFor, Unflag, Empty, At, StartTTY, Goto, Main, Pushing
<1>2. CASE Check \/ IncrementID \/ UpdateDepth
  BY <1>0, <1>2 DEF Check, IncrementID, UpdateDepth, At, Returned, Goto, Main, Pushing
<1>3. CASE Construct \/ PushGrow \/ PushStore
  BY <1>0, <1>3 DEF Construct, PushGrow, PushStore, At, Goto, Main, Pushing
<1>4. CASE Focus \/ EraseSlot
  BY <1>0, <1>4 DEF Focus, EraseSlot, At, Main, Pushing
<1>5. CASE Pop
  <2>1. m.pc = "pop" /\ (m' = m \/ \E r \in Request : m' = Dispatch(r))
    <3>1. \A a \in Addr : PendingRequest(ph, a) \in Request
      BY PopRequestType DEF OrderInv, TypeOK
    <3> QED BY <1>5, <3>1 DEF Pop, At, Dangling
  <2> QED BY <1>0, <2>1 DEF Dispatch, Advance, Goto, Main, Pushing, Request
<1>6. CASE Act
  BY <1>0, <1>6 DEF Act, At, Dangling, Main, Pushing
<1>7. CASE Answer
  BY <1>0, <1>7 DEF Answer, At, Main, Pushing
<1>8. CASE Compose
  BY <1>0, <1>8 DEF Compose, At, Dangling, Advance, Main, Pushing
<1>9. CASE Kill
  BY <1>0, <1>9 DEF Kill, At, Dangling, Main, Pushing
<1>10. CASE Paint
  BY <1>0, <1>10 DEF Paint, At, Dangling, Main, Pushing
<1>11. CASE KillAllProcesses
  BY <1>0, <1>11 DEF KillAllProcesses, At, Main, Pushing
<1>12. CASE ForgetFocused \/ ForgetLast \/ ForgetMoving \/ Tell \/ Told \/ DeleteVictim
  BY <1>0, <1>12
  DEF ForgetFocused, ForgetLast, ForgetMoving, Tell, Told, DeleteVictim, At, Goto, Main, Pushing
<1> QED
  BY <1>1, <1>2, <1>3, <1>4, <1>5, <1>6, <1>7, <1>8, <1>9, <1>10, <1>11, <1>12 DEF Loop

(* Into KillProcess, and through it, the loop comes only by its own steps. *)
LEMMA LoopSpared ==
  ASSUME TypeOK, Spared, Loop, race' = race
  PROVE  Spared'
<1>0. m \in Main /\ ph \in Table
  BY DEF TypeOK
<1> SUFFICES ASSUME "victim" \notin race, m'.pc \in Killing
             PROVE  /\ m'.d \in Slots(ph')
                    /\ m'.pc # "unfocus" => ph'.focused # Victim' \/ Victim' = Null
                    /\ m'.pc \in {"tell", "told", "delete"} =>
                         ph'.moving # Victim' \/ Victim' = Null
  BY DEF Spared, Killing
<1>1. CASE Kill
  <2>1. CASE Dangling("kill")
    BY <1>1, <2>1 DEF Dangling, Kill, At, Killing
  <2>2. CASE ~ Dangling("kill")
    <3>1. PICK k \in Slots(ph) : /\ ph' = ph \/ ph' = Halt(ph, "KillProcess")
                                 /\ m' = [m EXCEPT !.pc = "unfocus", !.d = k]
      BY <1>1, <2>2 DEF Kill
    <3>2. m'.pc = "unfocus" /\ m'.d = k /\ ph'.size = ph.size
      BY <1>0, <3>1 DEF Main, Halt, Table
    <3> QED BY <3>2 DEF Slots
  <2> QED BY <2>1, <2>2
<1>2. CASE ForgetFocused
  <2>1. /\ m.pc = "unfocus" /\ m'.pc = "unlast" /\ m'.d = m.d
        /\ ph'.data = ph.data /\ ph'.size = ph.size
        /\ ph'.focused = IF ph.focused = Victim THEN Null ELSE ph.focused
    BY <1>0, <1>2 DEF ForgetFocused, At, Goto, Main, Table
  <2> QED BY <2>1 DEF Spared, Killing, Victim, Slots
<1>3. CASE ForgetLast
  <2>1. /\ m.pc = "unlast" /\ m'.pc = "unmove" /\ m'.d = m.d
        /\ ph'.data = ph.data /\ ph'.size = ph.size /\ ph'.focused = ph.focused
    BY <1>0, <1>3 DEF ForgetLast, At, Goto, Main, Table
  <2> QED BY <2>1 DEF Spared, Killing, Victim, Slots
<1>4. CASE ForgetMoving
  <2>1. /\ m.pc = "unmove" /\ m'.pc = "tell" /\ m'.d = m.d
        /\ ph'.data = ph.data /\ ph'.size = ph.size /\ ph'.focused = ph.focused
        /\ ph'.moving = IF ph.moving = Victim THEN Null ELSE ph.moving
    BY <1>0, <1>4 DEF ForgetMoving, At, Goto, Main, Table
  <2> QED BY <2>1 DEF Spared, Killing, Victim, Slots
<1>5. CASE Tell \/ Told
  <2>1. /\ m.pc \in {"tell", "told"} /\ m'.d = m.d
        /\ m'.pc \in {"tell", "told", "delete"}
    BY <1>0, <1>5 DEF Tell, Told, At, Main
  <2>2. /\ ph'.data = ph.data /\ ph'.size = ph.size /\ ph'.focused = ph.focused
        /\ ph'.moving = ph.moving
    BY <1>0, <1>5 DEF Tell, Told, Halt, Answered, PushRequest, Table
  <2> QED BY <2>1, <2>2 DEF Spared, Killing, Victim, Slots
<1>6. CASE DeleteVictim
  <2>1. m.pc = "delete"
    BY <1>6 DEF DeleteVictim, At
  <2>2. CASE m' = m /\ ph' = Halt(ph, "KillProcess")
    <3>1. /\ ph'.data = ph.data /\ ph'.size = ph.size /\ ph'.focused = ph.focused
          /\ ph'.moving = ph.moving
      BY <1>0, <2>2 DEF Halt, Table
    <3> QED BY <2>1, <2>2, <3>1 DEF Spared, Killing, Victim, Slots
  <2>3. CASE m' = Goto("erase")
    BY <1>0, <2>3 DEF Goto, Main, Killing
  <2> QED BY <1>6, <2>2, <2>3 DEF DeleteVictim
<1>7. CASE Start \/ For \/ Update \/ PaintFor \/ Unflag \/ Empty
  BY <1>0, <1>7
  DEF Start, For, Update, PaintFor, Unflag, Empty, At, StartTTY, Goto, Main, Killing
<1>8. CASE Check \/ IncrementID \/ UpdateDepth
  BY <1>0, <1>8 DEF Check, IncrementID, UpdateDepth, At, Returned, Goto, Main, Killing
<1>9. CASE Construct \/ PushGrow \/ PushStore
  BY <1>0, <1>9 DEF Construct, PushGrow, PushStore, At, Goto, Main, Killing
<1>10. CASE Focus \/ EraseSlot \/ KillAllProcesses
  BY <1>0, <1>10 DEF Focus, EraseSlot, KillAllProcesses, At, Main, Killing
<1>11. CASE Pop
  <2>1. m.pc = "pop" /\ (m' = m \/ \E r \in Request : m' = Dispatch(r))
    <3>1. \A a \in Addr : PendingRequest(ph, a) \in Request
      BY PopRequestType DEF TypeOK
    <3> QED BY <1>11, <3>1 DEF Pop, At, Dangling
  <2> QED BY <1>0, <2>1 DEF Dispatch, Advance, Goto, Main, Killing, Request
<1>12. CASE Act \/ Answer \/ Compose \/ Paint
  BY <1>0, <1>12 DEF Act, Answer, Compose, Paint, At, Dangling, Advance, Main, Killing
<1> QED
  BY <1>1, <1>2, <1>3, <1>4, <1>5, <1>6, <1>7, <1>8, <1>9, <1>10, <1>11, <1>12 DEF Loop

LEMMA OrderNext == OrderInv /\ [Next]_vars => OrderInv'
<1> SUFFICES ASSUME OrderInv, [Next]_vars PROVE OrderInv'
  OBVIOUS
<1>1. CASE Loop
  <2>1. TypeOK'
    BY <1>1, CallingType, RequestsType, KillingType, VictimType, PaintingType
    DEF Loop, OrderInv
  <2>2. race' = race
    BY <1>1
    DEF Loop, Start, Check, IncrementID, Construct, PushGrow, PushStore, UpdateDepth, Focus,
        For, Pop, Act, Answer, Compose, Kill, ForgetFocused, ForgetLast, ForgetMoving, Tell, Told,
        DeleteVictim, EraseSlot, KillAllProcesses, Update, PaintFor, Paint, Unflag, Empty,
        Dangling
  <2>3. Undisturbed' => Ordered'
    BY <1>1, <2>1, <2>2, LoopOrdered DEF Undisturbed
  <2> QED BY <1>1, <2>1, <2>2, <2>3, LoopFresh, LoopSpared DEF OrderInv
<1>2. CASE KeyBoardInterupt
  BY <1>2, KeyBoardInteruptEffect, InterruptOrdered DEF OrderInv
<1>3. CASE MouseInterupt
  BY <1>3, MouseInteruptEffect, InterruptOrdered DEF OrderInv
<1>4. CASE PITInterupt
  BY <1>4, PITInteruptEffect, InterruptOrdered DEF OrderInv
<1>5. CASE UNCHANGED vars
  <2>1. ph' = ph /\ m' = m /\ race' = race
    BY <1>5 DEF vars
  <2>2. TypeOK'
    BY <2>1 DEF OrderInv, TypeOK, IndexOK
  <2>3. Undisturbed' => Ordered'
    BY <2>1, <2>2, QuietOrdered, ReflexiveAlike DEF Undisturbed
  <2>4. Spared'
    BY <2>1 DEF OrderInv, Spared, Victim
  <2> QED BY <2>1, <2>2, <2>3, <2>4 DEF OrderInv
<1> QED BY <1>1, <1>2, <1>3, <1>4, <1>5 DEF Next

LEMMA OrderInit == Init => OrderInv
<1> SUFFICES ASSUME Init PROVE OrderInv
  OBVIOUS
<1>1. /\ ph.size = 0 /\ ph.live = {} /\ ph.last = Null /\ ph.newID = 0
      /\ ph.menu = [q \in Menus |-> -1] /\ m.pc = "start" /\ m.fresh = Null
  BY DEF Init, NoTable
<1>2. Slots(ph) = {}
  BY <1>1 DEF Slots
<1>3. Sound(ph)
  BY <1>1, <1>2
  DEF Sound, Lists, Distinct, Listed, Known, Unique, Counted, Owned, Bottom
<1>4. Ordered
  BY <1>1, <1>3
  DEF Ordered, AtGrow, AtStored, AtErase, AtKillAll, AtCall, AtCount, AtEnds, Pointing,
      LastLive, Beginning
<1>5. Spared
  BY <1>1 DEF Spared, Killing
<1> QED BY <1>1, <1>4, <1>5, InitTypeOK DEF OrderInv

LEMMA OrderKept == Spec => []OrderInv
  BY OrderInit, OrderNext, PTL DEF Spec

(* Between the steps that change it the list holds every process once and  *)
(* no deleted one, unless an interrupt changed it inside such a change.    *)
THEOREM TableCorrect == Spec => []TableIntact
<1>1. OrderInv => TableIntact
  <2> SUFFICES ASSUME OrderInv, Undisturbed, m.pc \notin Torn
               PROVE  /\ Distinct(ph)
                      /\ ph.live = Listed(ph) \cup ({m.fresh} \ {Null})
                      /\ m.pc = "grow" => m.fresh \notin Listed(ph)
    BY DEF TableIntact, Distinct, OrderInv
  <2>1. Ordered /\ ph \in Table /\ (m.pc \notin Pushing => m.fresh = Null)
    BY DEF OrderInv, TypeOK
  <2>2. CASE m.pc = "grow"
    <3>1. Lists(ph, {m.fresh}) /\ m.fresh \in Addr
      BY <2>1, <2>2 DEF Ordered, AtGrow
    <3> QED BY <3>1, TableAssumption DEF Lists
  <2>3. CASE m.pc = "depth"
    <3>1. /\ Lists(ph, {}) /\ ph.size > 0 /\ ph.data[ph.size - 1] = m.fresh
      BY <2>1, <2>3 DEF Ordered, AtStored, Stored
    <3>2. ph.size - 1 \in Slots(ph)
      BY <2>1, <3>1, TableParts DEF Slots
    <3>3. m.fresh \in Listed(ph)
      BY <3>1, <3>2 DEF Listed
    <3> QED BY <2>3, <3>1, <3>3 DEF Lists
  <2>4. CASE m.pc \notin Pushing
    BY <2>1, <2>4 DEF Ordered, Sound, Lists, Pushing
  <2> QED BY <2>2, <2>3, <2>4 DEF Pushing, Torn
<1> QED BY <1>1, OrderKept, PTL

LEMMA OrderKnown ==
  ASSUME OrderInv, Undisturbed
  PROVE  Known(ph)
<1>1. Ordered /\ ph \in Table
  BY DEF OrderInv, TypeOK
<1>2. CASE m.pc = "grow"
  BY <1>1, <1>2 DEF Ordered, AtGrow
<1>3. CASE m.pc \in {"store", "depth"}
  <2>1. Known(Stored)
    BY <1>1, <1>3 DEF Ordered, AtStored
  <2>2. /\ Stored.live = ph.live /\ Stored.proc = ph.proc /\ Stored.newID = ph.newID
        /\ Stored.menu = ph.menu
    BY <1>1 DEF Stored, Store, Table
  <2> QED BY <2>1, <2>2, FewerKnown
<1>4. CASE m.pc = "erase"
  <2>1. m.d \in Slots(ph) /\ Known(Unlisted(ph, m.d))
    BY <1>1, <1>4 DEF Ordered, AtErase, Sound
  <2>2. LET t == Unlisted(ph, m.d) IN
        t.live = ph.live /\ t.proc = ph.proc /\ t.newID = ph.newID /\ t.menu = ph.menu
    BY <1>1, <2>1, UnlistedParts, TableParts
  <2> QED BY <2>1, <2>2, FewerKnown
<1>5. CASE m.pc = "killall"
  BY <1>1, <1>5 DEF Ordered, AtKillAll
<1>6. CASE m.pc \notin Torn \cup Pushing
  BY <1>1, <1>6 DEF Ordered, Sound
<1> QED BY <1>2, <1>3, <1>4, <1>5, <1>6 DEF Torn, Pushing

(* No program runs twice and no two processes share an ID.                 *)
THEOREM NoTwinsCorrect == Spec => []NoTwins
<1>1. OrderInv => NoTwins
  BY OrderKnown DEF NoTwins, Known, Unique
<1> QED BY <1>1, OrderKept, PTL

(* A menu ID of the topbar names a process of that menu's program or none. *)
THEOREM MenuOwnerCorrect == Spec => []MenuOwner
<1>1. OrderInv => MenuOwner
  BY OrderKnown DEF MenuOwner, Known, Owned
<1> QED BY <1>1, OrderKept, PTL

(* FULLSCREEN programs are at the bottom of the list.                      *)
THEOREM BottomCorrect == Spec => []FullscreenAtBottom
<1>1. OrderInv => FullscreenAtBottom
  <2> SUFFICES ASSUME OrderInv, Undisturbed, m.pc \notin Torn \cup {"depth"}
               PROVE  Bottom(ph)
    BY DEF FullscreenAtBottom, Bottom
  <2>1. Ordered
    BY DEF OrderInv
  <2>2. CASE m.pc = "grow"
    BY <2>1, <2>2 DEF Ordered, AtGrow
  <2>3. CASE m.pc # "grow"
    BY <2>1, <2>3 DEF Ordered, Sound, Torn, Pushing
  <2> QED BY <2>2, <2>3
<1> QED BY <1>1, OrderKept, PTL

(* FocusedProcess and LastMessagedProcess exist, outside of a RESET.       *)
THEOREM PointersCorrect == Spec => []PointersLive
<1>1. OrderInv => PointersLive
  BY DEF OrderInv, Ordered, Pointing, LastLive, FocusedLive, PointersLive
<1> QED BY <1>1, OrderKept, PTL

-----------------------------------------------------------------------------
(***************************************************************************)
(* What the loop holds, and why nothing dangles without a race.            *)
(***************************************************************************)
(* t still has what a loop interrupted in s relies on: a process that      *)
(* lives in both kept its ID, and the list is no shorter unless one died;  *)
(* MovingWindow does not outlive what it names.                            *)
Spares(s, t) == /\ \A a \in s.live \cap t.live : t.proc[a].id = s.proc[a].id
                /\ s.live \subseteq t.live => t.size >= s.size
                /\ s.moving \in s.live \ t.live => t.moving # s.moving
Steady(s, t) == /\ t.live = s.live /\ t.size = s.size /\ t.moving = s.moving
                /\ \A a \in Addr : t.proc[a].id = s.proc[a].id

LEMMA SteadySpares ==
  ASSUME NEW s \in Table
  PROVE  /\ Spares(s, s)
         /\ \A t, u : Spares(s, t) /\ Steady(t, u) => Spares(s, u)
         /\ \A u : Steady(s, u) => Spares(s, u)
<1>1. s.live \subseteq Addr /\ s.size \in Nat
  BY TableParts
<1> QED BY <1>1 DEF Spares, Steady

LEMMA SteadySteps ==
  ASSUME NEW s \in Table
  PROVE  /\ Steady(s, s)
         /\ \A why : Steady(s, Halt(s, why))
         /\ \A a \in Addr : \A r : /\ Steady(s, PushRequest(s, a, r))
                               /\ PushRequest(s, a, r).stop = s.stop
                               /\ PushRequest(s, a, r).data = s.data
         /\ \A a \in Addr : \A r : /\ Steady(s, Answered(s, a, r))
                               /\ Answered(s, a, r).stop = s.stop
                               /\ Answered(s, a, r).data = s.data
         /\ \A a \in Addr : /\ Steady(s, PopRequest(s, a))
                            /\ PopRequest(s, a).stop = s.stop
         /\ \A a \in Addr : /\ Steady(s, [Minimize(s, a) EXCEPT !.redraw = TRUE])
                            /\ [Minimize(s, a) EXCEPT !.redraw = TRUE].stop = s.stop
         /\ \A q \in Menus : \A i : /\ Steady(s, [s EXCEPT !.menu[q] = i])
                                /\ [s EXCEPT !.menu[q] = i].stop = s.stop
                                /\ [s EXCEPT !.menu[q] = i].data = s.data
<1>1. Steady(s, s)
  BY DEF Steady
<1>2. ASSUME NEW why PROVE Steady(s, Halt(s, why))
  BY DEF Steady, Halt, Table
<1>3. ASSUME NEW a \in Addr, NEW q
      PROVE  LET t == [s EXCEPT !.proc[a].reqs = q] IN
             Steady(s, t) /\ t.stop = s.stop /\ t.data = s.data
  <2>1. s.proc \in [Addr -> Process] /\ s.proc[a] \in Process
    BY DEF Table
  <2> QED BY <2>1 DEF Steady, Table, Process
<1>4. ASSUME NEW a \in Addr, NEW r
      PROVE  /\ Steady(s, PushRequest(s, a, r)) /\ PushRequest(s, a, r).stop = s.stop
             /\ PushRequest(s, a, r).data = s.data
  BY <1>1, <1>3 DEF PushRequest
<1>5. ASSUME NEW a \in Addr, NEW r
      PROVE  /\ Steady(s, Answered(s, a, r)) /\ Answered(s, a, r).stop = s.stop
             /\ Answered(s, a, r).data = s.data
  <2>1. CASE a \in s.live /\ PushRequest(s, a, r) # s
    <3> DEFINE q == Append(s.proc[a].reqs, r)
    <3>1. Answered(s, a, r) = [[s EXCEPT !.proc[a].reqs = q] EXCEPT !.last = Null]
      BY <2>1 DEF Answered, PushRequest
    <3>2. s.proc \in [Addr -> Process] /\ s.proc[a] \in Process
      BY DEF Table
    <3> HIDE DEF q
    <3> QED BY <3>1, <3>2 DEF Steady, Table, Process
  <2>2. CASE ~ (a \in s.live /\ PushRequest(s, a, r) # s)
    <3>1. Answered(s, a, r) = [s EXCEPT !.last = Null]
      BY <2>2 DEF Answered
    <3> QED BY <3>1 DEF Steady, Table
  <2> QED BY <2>1, <2>2
<1>6. ASSUME NEW a \in Addr
      PROVE  Steady(s, PopRequest(s, a)) /\ PopRequest(s, a).stop = s.stop
  BY <1>1, <1>3 DEF PopRequest
<1>7. ASSUME NEW a \in Addr
      PROVE  /\ Steady(s, [Minimize(s, a) EXCEPT !.redraw = TRUE])
             /\ [Minimize(s, a) EXCEPT !.redraw = TRUE].stop = s.stop
  <2>1. s.proc \in [Addr -> Process] /\ s.proc[a] \in Process
    BY DEF Table
  <2>2. ASSUME NEW y
        PROVE  LET t == [[s EXCEPT !.proc[a].type = y] EXCEPT !.redraw = TRUE] IN
               Steady(s, t) /\ t.stop = s.stop
    BY <2>1 DEF Steady, Table, Process
  <2> QED BY <2>2 DEF Minimize
<1>8. ASSUME NEW q \in Menus, NEW i
      PROVE  LET t == [s EXCEPT !.menu[q] = i] IN
             Steady(s, t) /\ t.stop = s.stop /\ t.data = s.data
  BY DEF Steady, Table
<1> QED BY <1>1, <1>2, <1>4, <1>5, <1>6, <1>7, <1>8

LEMMA SetDepthSteady ==
  ASSUME NEW s \in Table, NEW a, NEW d
  PROVE  Steady(s, SetDepth(s, a, d)) /\ SetDepth(s, a, d).stop = s.stop
<1>1. ASSUME NEW f PROVE /\ Steady(s, [s EXCEPT !.data = f])
                         /\ [s EXCEPT !.data = f].stop = s.stop
  BY DEF Steady, Table
<1> QED BY <1>1, SteadySteps DEF SetDepth

LEMMA SetFocusedSteady ==
  ASSUME NEW s \in Table, NEW a
  PROVE  /\ Steady(s, SetFocusedProcess(s, a))
         /\ a \in s.live /\ FocusedLive(s) => SetFocusedProcess(s, a).stop = s.stop
<1>1. ASSUME NEW r
      PROVE  LET t == [s EXCEPT !.focused = a, !.redraw = r] IN
             /\ Steady(s, t) /\ t.stop = s.stop
             /\ a \in s.live /\ r \in BOOLEAN => t \in Table
  BY TableParts DEF Steady, Table
<1> DEFINE r == \/ s.redraw
                \/ s.proc[a].type = "WINDOWED"
                \/ s.focused # Null /\ s.proc[s.focused].type = "WINDOWED"
           t == [s EXCEPT !.focused = a, !.redraw = r]
           u == SetFocusedProcess(s, a)
<1>2. CASE a \notin s.live \/ s.focused \notin s.live \cup {Null}
  BY <1>2, SteadySteps DEF SetFocusedProcess, FocusedLive
<1>3. CASE ~ (a \notin s.live \/ s.focused \notin s.live \cup {Null})
  <2>0. r \in BOOLEAN
    BY DEF Table
  <2> HIDE DEF r
  <2>1. t \in Table /\ Steady(s, t) /\ t.stop = s.stop
    BY <1>1, <1>3, <2>0
  <2>2. u = t \/ u = SetDepth(t, a, s.size - 1)
    BY <1>3, Zenon DEF SetFocusedProcess, r
  <2> HIDE DEF t, u
  <2>3. Steady(t, u) /\ u.stop = t.stop
    BY <2>1, <2>2, SetDepthSteady, SteadySteps
  <2>4. Steady(s, u) /\ u.stop = s.stop
    BY <2>1, <2>3 DEF Steady
  <2> QED BY <2>4 DEF u
<1> QED BY <1>2, <1>3

(* KillFirst: MovingWindow is forgotten, and a list of live processes is   *)
(* gone through without a fault.                                           *)
LEMMA KillFirstSpares ==
  ASSUME NEW s \in Table, NEW A
  PROVE  /\ Spares(s, KillFirst(s, A))
         /\ Intact(s) => KillFirst(s, A).stop = s.stop
<1> DEFINE t == KillFirst(s, A)
<1>1. CASE Hits(s, A) = {}
  BY <1>1, SteadySpares DEF KillFirst
<1>2. CASE Hits(s, A) # {} /\ s.data[First(Hits(s, A))] \notin s.live
  <2>1. First(Hits(s, A)) \in Slots(s)
    BY <1>2, TableParts, FirstIsLeast DEF Hits
  <2>2. ~ Intact(s)
    BY <1>2, <2>1 DEF Intact, Listed
  <2>3. t = Halt(s, "KillProcess")
    BY <1>2 DEF KillFirst
  <2> QED BY <2>2, <2>3, SteadySteps, SteadySpares
<1>3. CASE Hits(s, A) # {} /\ s.data[First(Hits(s, A))] \in s.live
  <2> DEFINE k == First(Hits(s, A))
             x == s.data[k]
             u == Killed(s, k)
  <2>0. First(Hits(s, A)) \in Hits(s, A)
    <3>1. Hits(s, A) \in SUBSET Nat
      BY TableParts DEF Hits
    <3> QED BY <1>3, <3>1, FirstIsLeast
  <2>1. k \in Slots(s) /\ k \in Slot /\ s.size > 0 /\ x \in s.live
    BY <1>3, <2>0, TableParts DEF Hits
  <2>2. t = Unlisted(u, k)
    BY <1>3 DEF KillFirst, Killed
  <2> HIDE DEF k
  <2>3. /\ u \in Table /\ u.size = s.size /\ u.live = s.live \ {x}
        /\ \A a \in u.live : u.proc[a] = s.proc[a]
    BY <2>1, KilledParts
  <2>4. u.stop = s.stop /\ u.moving = IF s.moving = x THEN Null ELSE s.moving
    BY DEF Killed, Delete, Forget, Table
  <2> HIDE DEF u
  <2>5. /\ t.live = u.live /\ t.proc = u.proc /\ t.stop = u.stop /\ t.moving = u.moving
    BY <2>2, <2>3 DEF Unlisted, Erase, Table
  <2>6. x # Null
    BY <2>1, TableParts
  <2> HIDE DEF t
  <2>7. Spares(s, t)
    BY <2>1, <2>3, <2>4, <2>5, <2>6 DEF Spares
  <2> QED BY <2>4, <2>5, <2>7 DEF t
<1> QED BY <1>1, <1>2, <1>3

LEMMA NoRoomNeeded ==
  ASSUME NEW s, NEW p \in Menus \cup StartMenuEntries \cup {"topbar"}
  PROVE  MakeRoom(s, p) = s
<1>1. InitType(p) # "FULLSCREEN"
  BY DEF InitType, Procedure, Topbar, SystemMenu, StartMenu, Terminal, Calculator, Tetris,
         Quiet, Menus, StartMenuEntries
<1> QED BY <1>1 DEF MakeRoom

(* Starting: what a new FULLSCREEN program replaces dies, and no other.    *)
LEMMA StartedSpares ==
  ASSUME NEW s \in Table, NEW p \in Program, NEW a \in Addr \ s.live, NEW d \in Slot,
         ~ AlreadyRuns(s, p),
         MakeRoom(NewProcess(CountID(s), p, a), p).size < Capacity
  PROVE  LET t == StartProcess(s, p, a, d)
         IN  Spares(s, t) /\ t.stop = s.stop /\ a \in t.live
<1> DEFINE c == CountID(s)
           u == NewProcess(c, p, a)
           w == MakeRoom(u, p)
           v == Store(Grow(w), a)
           t == SetDepth(v, a, d)
<1>0. StartProcess(s, p, a, d) = t /\ a \in StartProcess(s, p, a, d).live
  BY StartedLives DEF StartProcess
<1>1. /\ c \in Table /\ c.live = s.live /\ c.data = s.data /\ c.size = s.size
      /\ c.proc = s.proc /\ c.moving = s.moving /\ c.stop = s.stop
  <2>1. c.moving = s.moving /\ c.stop = s.stop
    BY DEF CountID, Table
  <2> QED BY <2>1, CountIDLists
<1> HIDE DEF c
<1>2. /\ u \in Table /\ u.live = s.live \cup {a} /\ u.data = s.data /\ u.size = s.size
      /\ \A b \in Addr \ {a} : u.proc[b] = s.proc[b]
      /\ u.moving = s.moving /\ u.stop = s.stop
  <2>1. u.moving = c.moving /\ u.stop = c.stop
    BY <1>1 DEF NewProcess, Table
  <2> HIDE DEF u
  <2>2. /\ u \in Table /\ u.live = c.live \cup {a} /\ u.data = c.data /\ u.size = c.size
        /\ \A b \in Addr \ {a} : u.proc[b] = c.proc[b]
    BY <1>1, NewProcessParts DEF u
  <2> QED BY <1>1, <2>1, <2>2
<1> HIDE DEF u
<1>3. Spares(u, w) /\ w.stop = u.stop /\ w \in Table
  <2> DEFINE A == {b \in Fullscreen(u) : b \in Listed(u)}
  <2>1. Intact(u)
    BY <1>2, NotRunning DEF Intact, Listed, Slots
  <2>2. /\ Spares(u, KillFirst(u, A)) /\ KillFirst(u, A).stop = u.stop
        /\ KillFirst(u, A) \in Table
    BY <1>2, <2>1, KillFirstSpares, KillFirstType
  <2> QED BY <1>2, <2>2, SteadySpares DEF MakeRoom
<1>4. w.size < Capacity
  BY DEF u, c
<1> HIDE DEF w
<1>5. /\ v \in Table /\ v.live = w.live /\ v.proc = w.proc /\ v.size = w.size + 1
      /\ v.moving = w.moving /\ v.stop = w.stop
  <2>1. v.moving = w.moving /\ v.stop = w.stop
    BY <1>3 DEF Store, Grow, Table
  <2> QED BY <1>3, <1>4, <2>1, PushParts
<1> HIDE DEF v
<1>6. Steady(v, t) /\ t.stop = v.stop
  BY <1>5, SetDepthSteady
<1> HIDE DEF t
<1>7. w.live = t.live /\ t.size = w.size + 1 /\ t.moving = w.moving
  BY <1>5, <1>6 DEF Steady
<1>8. w.live \subseteq Addr /\ u.live \subseteq Addr /\ w.size \in Nat /\ u.size \in Nat
  BY <1>2, <1>3, TableParts
<1>9. \A b \in s.live \cap t.live : t.proc[b].id = s.proc[b].id
  BY <1>2, <1>3, <1>5, <1>6, <1>7, <1>8 DEF Spares, Steady
<1>10. s.live \subseteq t.live => t.size >= s.size
  BY <1>0, <1>2, <1>3, <1>7, <1>8 DEF Spares
<1>11. s.moving \in s.live \ t.live => t.moving # s.moving
  BY <1>2, <1>3, <1>7 DEF Spares
<1> QED BY <1>0, <1>2, <1>3, <1>5, <1>6, <1>9, <1>10, <1>11 DEF Spares

LEMMA StartsSpares ==
  ASSUME NEW s \in Table, NEW q \in Program, NEW t \in Starts(s, q)
  PROVE  Spares(s, t) /\ (Intact(s) => t.stop = s.stop)
<1>1. CASE AlreadyRuns(s, q)
  <2> DEFINE k == First(Hits(s, Running(s, q)))
  <2>1. t = IF s.data[k] \in s.live THEN s ELSE Halt(s, "StartProcess")
    BY <1>1 DEF Starts, StartProcess
  <2>2. k \in Slots(s)
    <3>1. Hits(s, Running(s, q)) \in SUBSET Nat
      BY TableParts DEF Hits
    <3>2. k \in Hits(s, Running(s, q))
      BY <1>1, <3>1, FirstIsLeast DEF AlreadyRuns
    <3> QED BY <3>2 DEF Hits
  <2>3. Intact(s) => s.data[k] \in s.live
    BY <2>2 DEF Intact, Listed
  <2> HIDE DEF k
  <2> QED BY <2>1, <2>3, SteadySteps, SteadySpares
<1>2. CASE ~ AlreadyRuns(s, q)
  <2>1. PICK a \in Addr \ s.live, d \in Depths(s, q) :
          /\ t = StartProcess(s, q, a, d)
          /\ MakeRoom(NewProcess(CountID(s), q, a), q).size < Capacity
    BY <1>2, StartsSplit
  <2>2. d \in Slot
    BY DepthsType
  <2> QED BY <1>2, <2>1, <2>2, StartedSpares
<1> QED BY <1>1, <1>2

LEMMA TogglesSpares ==
  ASSUME NEW s \in Table, NEW q \in Menus \cap Installed, NEW u \in Toggles(s, q)
  PROVE  Spares(s, u) /\ (Intact(s) => u.stop = s.stop)
<1>0. q \in Program
  BY DEF Program
<1>1. CASE s.menu[q] # -1
  <2> DEFINE t == KillProcess(s, s.menu[q])
  <2>1. u = [t EXCEPT !.menu[q] = -1]
    BY <1>1 DEF Toggles
  <2>2. t \in Table /\ Spares(s, t) /\ (Intact(s) => t.stop = s.stop)
    BY KillFirstType, KillFirstSpares DEF KillProcess
  <2> HIDE DEF t
  <2>3. Steady(t, u) /\ u.stop = t.stop
    BY <2>1, <2>2, SteadySteps
  <2> QED BY <2>2, <2>3, SteadySpares
<1>2. CASE s.menu[q] = -1
  <2>1. PICK t \in Starts(s, q) : u = [t EXCEPT !.menu[q] = StartedID(s, q)]
    BY <1>2 DEF Toggles
  <2>2. t \in Table /\ Spares(s, t) /\ (Intact(s) => t.stop = s.stop)
    BY <1>0, StartsType, StartsSpares
  <2>3. Steady(t, u) /\ u.stop = t.stop
    BY <2>1, <2>2, SteadySteps
  <2> QED BY <2>2, <2>3, SteadySpares
<1> QED BY <1>1, <1>2

LEMMA EffectsSpare ==
  ASSUME NEW s \in Table, NEW a, NEW t \in KeyEffects(s, a) \cup MouseEffects(s, a)
  PROVE  Spares(s, t) /\ (Intact(s) => t.stop = s.stop)
<1>1. ASSUME NEW u \in Commands(s) PROVE Spares(s, u) /\ (Intact(s) => u.stop = s.stop)
  BY KillFirstSpares, StartsSpares DEF Commands, Kills, KillProcess
<1>2. ASSUME NEW u \in UNION {Toggles(s, q) : q \in Menus \cap Installed}
      PROVE  Spares(s, u) /\ (Intact(s) => u.stop = s.stop)
  BY TogglesSpares
<1>3. ASSUME NEW u \in UNION {Starts(s, q) : q \in StartMenuEntries}
      PROVE  Spares(s, u) /\ (Intact(s) => u.stop = s.stop)
  BY StartsSpares DEF StartMenuEntries, Program
<1>4. t \in KeyEffects(s, a) => t = s \/ t \in Commands(s)
  BY DEF KeyEffects
<1>5. t \in MouseEffects(s, a) =>
        \/ t = s
        \/ t \in UNION {Toggles(s, q) : q \in Menus \cap Installed}
        \/ t \in UNION {Starts(s, q) : q \in StartMenuEntries}
  BY DEF MouseEffects
<1> QED BY <1>1, <1>2, <1>3, <1>4, <1>5, SteadySpares

-----------------------------------------------------------------------------
(***************************************************************************)
(* The interrupts.                                                         *)
(***************************************************************************)
LEMMA KeyBoardInteruptSpares ==
  ASSUME TypeOK, KeyBoardInterupt
  PROVE  /\ Spares(ph, ph')
         /\ Intact(ph) /\ FocusedLive(ph) => ph'.stop \notin Fault
<1>0. ph \in Table /\ ph.stop = "running" /\ "running" \notin Fault /\ ph.focused # Null
  BY DEF TypeOK, KeyBoardInterupt, Enabled, Fault
<1>1. CASE ph.focused \notin ph.live
  <2>1. ph' = Halt(ph, "KeyBoardInterupt")
    BY <1>1 DEF KeyBoardInterupt, Interrupt
  <2> QED BY <1>0, <1>1, <2>1, SteadySteps, SteadySpares DEF FocusedLive
<1>2. CASE ph.focused \in ph.live
  <2>1. ph.focused \in Addr
    BY <1>0, <1>2, TableParts
  <2>2. PICK s \in KeyEffects(ph, ph.focused), r \in KeyReplies(ph.proc[ph.focused].prog) :
          ph' = Answered(s, ph.focused, r)
    BY <1>2 DEF KeyBoardInterupt, Interrupt
  <2>3. s \in Table /\ Spares(ph, s) /\ (Intact(ph) => s.stop = ph.stop)
    BY <1>0, <2>1, EffectsType, EffectsSpare
  <2>4. Steady(s, ph') /\ ph'.stop = s.stop
    BY <2>1, <2>2, <2>3, SteadySteps
  <2> QED BY <1>0, <2>3, <2>4, SteadySpares
<1> QED BY <1>1, <1>2

LEMMA PITInteruptSpares ==
  ASSUME TypeOK, PITInterupt
  PROVE  /\ Spares(ph, ph')
         /\ Intact(ph) => ph'.stop \notin Fault
<1>0. ph \in Table /\ ph.stop = "running" /\ "running" \notin Fault
  BY DEF TypeOK, PITInterupt, Enabled, Fault
<1>1. CASE ~ Intact(ph)
  <2>1. ph' = Halt(ph, "PITInterupt")
    BY <1>1 DEF PITInterupt, Interrupt
  <2> QED BY <1>0, <1>1, <2>1, SteadySteps, SteadySpares
<1>2. CASE Intact(ph)
  <2> DEFINE new(r) == [a \in Addr |-> IF a \in Listed(ph)
                                       THEN PushRequest(ph, a, r[a]).proc[a]
                                       ELSE ph.proc[a]]
  <2>1. PICK r \in [Listed(ph) -> Request] :
          ph' = [ph EXCEPT !.proc = new(r), !.last = IF ph.size = 0 THEN @ ELSE Null]
    BY <1>2 DEF PITInterupt, Interrupt
  <2>2. \A a \in Addr : new(r)[a].id = ph.proc[a].id
    BY <1>0, SteadySteps DEF Steady
  <2> HIDE DEF new
  <2>3. Steady(ph, ph') /\ ph'.stop = ph.stop
    BY <1>0, <2>1, <2>2 DEF Steady, Table
  <2> QED BY <1>0, <2>3, SteadySpares
<1> QED BY <1>1, <1>2

(* A click on a menu's button or entry leaves something alive in the slot  *)
(* of the window that was clicked, which SetFocusedProcess then reads: the *)
(* topbar stays in it, or slides down and is still in the last slot.       *)
LEMMA ClickedSlotLive ==
  ASSUME NEW s \in Table, Sound(s), NEW k \in Slots(s),
         NEW t \in MouseEffects(s, s.data[k])
  PROVE  t \in Table /\ t.data[k] \in t.live
<1> DEFINE a == s.data[k]
<1>0. a \in s.live /\ a \in Addr /\ s.live # {} /\ Intact(s) /\ k \in Nat /\ k < s.size
  BY TableParts DEF Sound, Lists, Listed, Intact
<1>1. t \in Table
  BY <1>0, EffectsType
<1>2. Effect(s, t) /\ Spares(s, t)
  BY <1>0, EffectsKeep, EffectsSpare
<1>3. ASSUME k < t.size PROVE t.data[k] \in t.live
  <2>1. k \in Slots(t)
    BY <1>0, <1>1, <1>3, TableParts DEF Slots
  <2>2. Sound(t)
    BY <1>2 DEF Effect
  <2> QED BY <2>1, <2>2 DEF Sound, Lists, Listed
<1>4. CASE s.live \subseteq t.live
  <2>1. k < t.size
    BY <1>0, <1>1, <1>2, <1>4, TableParts DEF Spares
  <2> QED BY <1>1, <1>3, <2>1
<1>5. CASE ~ (s.live \subseteq t.live)
  <2>1. t # s
    BY <1>5
  <2>2. ASSUME NEW q \in Menus \cup StartMenuEntries, q \in Program, NEW u \in Starts(s, q)
        PROVE  s.live \subseteq u.live
    <3>1. CASE AlreadyRuns(s, q)
      BY <2>2, <3>1, StartsSplit DEF Alike, Similar
    <3>2. CASE ~ AlreadyRuns(s, q)
      <4>1. PICK b \in Addr \ s.live, d \in Depths(s, q) :
              /\ u = StartProcess(s, q, b, d)
              /\ MakeRoom(NewProcess(CountID(s), q, b), q).size < Capacity
        BY <2>2, <3>2, StartsSplit
      <4> DEFINE n == NewProcess(CountID(s), q, b)
                 v == Store(Grow(n), b)
      <4>2. CountID(s) \in Table /\ CountID(s).live = s.live
        BY CountIDLists
      <4>3. n \in Table /\ n.live = s.live \cup {b} /\ n.size < Capacity
        BY <2>2, <4>1, <4>2, NewProcessParts, NoRoomNeeded
      <4>4. u = SetDepth(v, b, d)
        BY <2>2, <3>2, <4>1, NoRoomNeeded DEF StartProcess
      <4> HIDE DEF n
      <4>5. v \in Table /\ v.live = n.live
        BY <4>3, PushParts
      <4> HIDE DEF v
      <4>6. u.live = v.live
        BY <4>4, <4>5, SetDepthSteady DEF Steady
      <4> QED BY <4>3, <4>5, <4>6
    <3> QED BY <3>1, <3>2
  <2>3. ~ \E q \in StartMenuEntries : t \in Starts(s, q)
    BY <1>5, <2>2 DEF StartMenuEntries, Program
  <2>4. PICK q \in Menus \cap Installed : s.proc[a].prog = "topbar" /\ t \in Toggles(s, q)
    BY <2>1, <2>3 DEF MouseEffects
  <2>5. s.menu[q] # -1
    <3>1. ASSUME s.menu[q] = -1 PROVE FALSE
      <4>1. PICK u \in Starts(s, q) : t = [u EXCEPT !.menu[q] = StartedID(s, q)]
        BY <2>4, <3>1 DEF Toggles
      <4>2. q \in Program /\ u \in Table
        BY StartsType DEF Program
      <4>3. Steady(u, t)
        BY <4>1, <4>2, SteadySteps
      <4>4. s.live \subseteq t.live
        BY <2>2, <4>2, <4>3 DEF Steady
      <4> QED BY <1>5, <4>4
    <3> QED BY <3>1
  <2> DEFINE w == KillProcess(s, s.menu[q])
             A == WithID(s, s.menu[q])
  <2>6. t = [w EXCEPT !.menu[q] = -1]
    BY <2>4, <2>5 DEF Toggles
  <2>7. w \in Table /\ w = KillFirst(s, A)
    BY KillFirstType DEF KillProcess
  <2>8. t.live = w.live /\ t.data = w.data /\ t.size = w.size
    BY <2>6, <2>7, SteadySteps DEF Steady
  <2>9. w # s /\ w.live # s.live
    BY <1>5, <2>8
  <2>10. PICK h \in Hits(s, A) : s.data[h] \in s.live /\ w = Unlisted(Killed(s, h), h)
    <3>1. Halt(s, "KillProcess").live = s.live
      BY DEF Halt, Table
    <3> QED BY <2>7, <2>9, <3>1, KillFirstCases
  <2>11. /\ h \in Slots(s) /\ h \in Nat /\ h < s.size /\ h \in Slot
         /\ s.proc[s.data[h]].id = s.menu[q]
    BY <2>10, TableParts DEF Hits, WithID
  <2>12. a # s.data[h]
    BY <1>0, <2>4, <2>11 DEF Sound, Known, Owned, Menus
  <2> DEFINE x == Killed(s, h)
  <2>13. x \in Table /\ x.data = s.data /\ x.size = s.size /\ x.live = s.live \ {s.data[h]}
    BY <2>10, <2>11, KilledParts
  <2> HIDE DEF x, w
  <2>14. /\ w.size = s.size - 1 /\ w.live = x.live
         /\ w.data = [j \in Slot |-> IF j >= h /\ j < s.size - 1
                                     THEN s.data[j + 1] ELSE s.data[j]]
    BY <2>10, <2>13 DEF Unlisted, Erase, Table, x
  <2>15. CASE k < s.size - 1
    BY <1>1, <1>3, <2>8, <2>14, <2>15
  <2>16. CASE ~ (k < s.size - 1)
    <3>1. k \in Slot
      BY TableParts
    <3>2. w.data[k] = s.data[k]
      BY <2>14, <2>16, <3>1
    <3> QED BY <1>0, <1>1, <2>8, <2>12, <2>13, <2>14, <3>2
  <2> QED BY <2>15, <2>16
<1> QED BY <1>4, <1>5

(* What kills and starts no process leaves the list as it is.              *)
LEMMA ClickedListSame ==
  ASSUME NEW s \in Table, NEW a, NEW t \in MouseEffects(s, a), t.live = s.live
  PROVE  t.data = s.data
<1>1. ASSUME NEW q \in Program, NEW u \in Starts(s, q), u.live = s.live
      PROVE  u.data = s.data
  <2>1. CASE AlreadyRuns(s, q)
    BY <1>1, <2>1, StartsSplit DEF Alike
  <2>2. CASE ~ AlreadyRuns(s, q)
    <3>1. PICK b \in Addr \ s.live, d \in Depths(s, q) :
            /\ u = StartProcess(s, q, b, d)
            /\ MakeRoom(NewProcess(CountID(s), q, b), q).size < Capacity
      BY <1>1, <2>2, StartsSplit
    <3>2. d \in Slot
      BY DepthsType
    <3>3. b \in u.live
      BY <2>2, <3>1, <3>2, StartedSpares
    <3> QED BY <1>1, <3>1, <3>3
  <2> QED BY <2>1, <2>2
<1>2. ASSUME NEW A, KillFirst(s, A).live = s.live PROVE KillFirst(s, A).data = s.data
  <2> DEFINE u == KillFirst(s, A)
  <2>1. Halt(s, "KillProcess").data = s.data
    BY DEF Halt, Table
  <2>2. ASSUME NEW k \in Hits(s, A), s.data[k] \in s.live, u = Unlisted(Killed(s, k), k)
        PROVE  FALSE
    <3> DEFINE x == Killed(s, k)
    <3>1. k \in Slots(s)
      BY DEF Hits
    <3>2. x \in Table /\ x.live = s.live \ {s.data[k]}
      BY <2>2, <3>1, KilledParts
    <3> HIDE DEF x
    <3>3. Unlisted(x, k).live = x.live
      BY <3>2 DEF Unlisted, Erase, Table
    <3> QED BY <1>2, <2>2, <3>2, <3>3 DEF x
  <2> QED BY <2>1, <2>2, KillFirstCases
<1>3. ASSUME NEW q \in Menus \cap Installed, t \in Toggles(s, q) PROVE t.data = s.data
  <2>0. q \in Program
    BY DEF Program
  <2>1. CASE s.menu[q] # -1
    <3> DEFINE u == KillProcess(s, s.menu[q])
    <3>1. t = [u EXCEPT !.menu[q] = -1]
      BY <1>3, <2>1 DEF Toggles
    <3>2. u \in Table /\ (u.live = s.live => u.data = s.data)
      BY <1>2, KillFirstType DEF KillProcess
    <3> HIDE DEF u
    <3>3. Steady(u, t) /\ t.data = u.data
      BY <3>1, <3>2, SteadySteps
    <3> QED BY <3>2, <3>3 DEF Steady
  <2>2. CASE s.menu[q] = -1
    <3>1. PICK u \in Starts(s, q) : t = [u EXCEPT !.menu[q] = StartedID(s, q)]
      BY <1>3, <2>2 DEF Toggles
    <3>2. u \in Table /\ (u.live = s.live => u.data = s.data)
      BY <1>1, <2>0, StartsType
    <3>3. Steady(u, t) /\ t.data = u.data
      BY <3>1, <3>2, SteadySteps
    <3> QED BY <3>2, <3>3 DEF Steady
  <2> QED BY <2>1, <2>2
<1>4. ASSUME NEW q \in StartMenuEntries, t \in Starts(s, q) PROVE t.data = s.data
  BY <1>1, <1>4 DEF StartMenuEntries, Program
<1>5. \/ t = s
      \/ \E q \in Menus \cap Installed : t \in Toggles(s, q)
      \/ \E q \in StartMenuEntries : t \in Starts(s, q)
  BY DEF MouseEffects
<1> QED BY <1>3, <1>4, <1>5

LEMMA MouseInteruptSpares ==
  ASSUME TypeOK, MouseInterupt
  PROVE  /\ Spares(ph, ph')
         /\ /\ Intact(ph) /\ FocusedLive(ph) /\ ph.moving \in ph.live \cup {Null}
            /\ Sound(ph) \/ ph'.live = ph.live
            => ph'.stop \notin Fault
<1>0. ph \in Table /\ ph.stop = "running" /\ {"running", "off"} \cap Fault = {}
  BY DEF TypeOK, MouseInterupt, DragWindow, CloseWindow, MinimizeWindow, GrabWindow,
         ClickWindow, PowerOff, ClickNothing, Reaches, Enabled, Fault
<1>1. ASSUME NEW why PROVE Spares(ph, Halt(ph, why)) /\ Halt(ph, why).stop = why
  <2>1. Halt(ph, why).stop = why
    BY <1>0 DEF Halt, Table
  <2> QED BY <1>0, <2>1, SteadySteps, SteadySpares
<1>2. ASSUME NEW k \in Slots(ph), Reaches(k)
      PROVE  ph.data[k] \in ph.live /\ ph.data[k] \in Addr
  <2>1. k \in k .. ph.size - 1
    BY <1>0, TableParts DEF Slots
  <2> QED BY <1>0, <1>2, <2>1, TableParts DEF Reaches
<1>3. CASE DragWindow
  <2>1. CASE ph.moving \notin ph.live
    BY <1>1, <1>3, <2>1 DEF DragWindow, Interrupt
  <2>2. CASE ph.moving \in ph.live
    <3>1. PICK held \in BOOLEAN :
            ph' = [ph EXCEPT !.focused = IF held THEN @ ELSE ph.moving,
                             !.moving = IF held THEN @ ELSE Null, !.redraw = TRUE]
      BY <1>3, <2>2 DEF DragWindow, Interrupt
    <3>2. ph'.live = ph.live /\ ph'.size = ph.size /\ ph'.proc = ph.proc /\ ph'.stop = ph.stop
      BY <1>0, <3>1 DEF Table
    <3> QED BY <1>0, <3>2, TableParts DEF Spares
  <2> QED BY <2>1, <2>2
<1>4. CASE CloseWindow
  <2>1. PICK id : ph' = KillProcess(ph, id)
    BY <1>4 DEF CloseWindow, Interrupt
  <2> QED BY <1>0, <2>1, KillFirstSpares DEF KillProcess
<1>5. CASE MinimizeWindow
  <2>1. PICK k \in Slots(ph) : /\ Reaches(k)
                               /\ ph' = [Minimize(ph, ph.data[k]) EXCEPT !.redraw = TRUE]
    BY <1>5 DEF MinimizeWindow, Interrupt
  <2>2. ph.data[k] \in Addr
    BY <1>2, <2>1
  <2>3. Steady(ph, ph') /\ ph'.stop = ph.stop
    BY <1>0, <2>1, <2>2, SteadySteps
  <2> QED BY <1>0, <2>3, SteadySpares
<1>6. CASE GrabWindow
  <2>1. PICK k \in Slots(ph) : /\ Reaches(k)
          /\ ph' = SetFocusedProcess([ph EXCEPT !.moving = ph.data[k]], ph.data[k])
    BY <1>6 DEF GrabWindow, Interrupt
  <2> DEFINE t == [ph EXCEPT !.moving = ph.data[k]]
  <2>2. /\ t \in Table /\ t.live = ph.live /\ t.size = ph.size /\ t.proc = ph.proc
        /\ t.stop = ph.stop /\ t.focused = ph.focused /\ ph.moving = Null
    BY <1>0, <1>2, <2>1 DEF Table, Reaches
  <2> HIDE DEF t
  <2>3. /\ Steady(t, ph')
        /\ FocusedLive(ph) => ph'.stop = ph.stop
    BY <1>2, <2>1, <2>2, SetFocusedSteady DEF FocusedLive, t
  <2>4. Null \notin ph.live /\ ph.live \subseteq Addr /\ ph.size \in Nat
    BY <1>0, TableParts
  <2>5. Spares(ph, ph')
    BY <2>2, <2>3, <2>4 DEF Spares, Steady
  <2> QED BY <1>0, <2>3, <2>5
<1>7. CASE ClickWindow
  <2>0. PICK k \in Slots(ph), left \in BOOLEAN :
          /\ Reaches(k)
          /\ \E r \in MouseReplies(ph.proc[ph.data[k]].prog),
                s \in IF left THEN MouseEffects(ph, ph.data[k]) ELSE {ph} :
                  LET t == Answered(s, ph.data[k], r)
                  IN ph' = IF left THEN SetFocusedProcess(t, t.data[k]) ELSE t
    BY <1>7 DEF ClickWindow, Interrupt
  <2> DEFINE a == ph.data[k]
  <2>1. PICK r \in MouseReplies(ph.proc[a].prog),
             s \in IF left THEN MouseEffects(ph, a) ELSE {ph} :
             LET t == Answered(s, a, r)
             IN ph' = IF left THEN SetFocusedProcess(t, t.data[k]) ELSE t
    BY <2>0
  <2> DEFINE t == Answered(s, a, r)
  <2>2. a \in Addr /\ a \in ph.live /\ ph.live # {}
    BY <1>2, <2>0
  <2>3. /\ s \in Table /\ Spares(ph, s) /\ (Intact(ph) => s.stop = ph.stop)
        /\ r \in Request
    BY <1>0, <2>1, <2>2, EffectsType, EffectsSpare, SteadySpares, RepliesType
  <2>4. t \in Table /\ Steady(s, t) /\ t.stop = s.stop /\ t.data = s.data
    BY <2>2, <2>3, SteadySteps, AnsweredType
  <2>5. FocusedLive(ph) => FocusedLive(t)
    <3>1. Effect(ph, s)
      <4>1. Effect(ph, ph)
        BY <1>0, ReflexiveAlike, AlikeEffect
      <4> QED BY <1>0, <2>1, <2>2, <4>1, EffectsKeep
    <3>2. Pointed(s, t)
      BY <2>2, <2>3, AnsweredAlike
    <3> QED BY <3>1, <3>2 DEF Effect, Pointed
  <2>6. CASE ~ left
    <3>1. ph' = t
      BY <2>1, <2>6
    <3> QED BY <1>0, <2>3, <2>4, <3>1, SteadySpares
  <2>7. CASE left
    <3>1. ph' = SetFocusedProcess(t, t.data[k])
      BY <2>1, <2>7
    <3> HIDE DEF t
    <3>2. Steady(t, ph') /\ (t.data[k] \in t.live /\ FocusedLive(t) => ph'.stop = t.stop)
      BY <2>4, <3>1, SetFocusedSteady
    <3>3. Spares(ph, ph')
      BY <1>0, <2>3, <2>4, <3>2, SteadySpares DEF Steady
    <3>4. ASSUME Sound(ph) PROVE t.data[k] \in t.live
      <4>1. s.data[k] \in s.live
        BY <1>0, <2>1, <2>7, <3>4, ClickedSlotLive
      <4> QED BY <2>4, <4>1 DEF Steady
    <3>5. ASSUME ph'.live = ph.live PROVE t.data[k] \in t.live
      <4>1. s.live = ph.live
        BY <2>4, <3>2, <3>5 DEF Steady
      <4>2. s.data = ph.data
        BY <1>0, <2>1, <2>7, <4>1, ClickedListSame
      <4> QED BY <2>2, <2>4, <4>1, <4>2 DEF Steady
    <3> QED BY <1>0, <2>3, <2>4, <2>5, <3>2, <3>3, <3>4, <3>5
  <2> QED BY <2>6, <2>7
<1>8. CASE PowerOff
  BY <1>0, <1>1, <1>8 DEF PowerOff, Interrupt
<1>9. CASE ClickNothing
  <2>1. CASE Intact(ph)
    BY <1>0, <1>9, <2>1, SteadySpares DEF ClickNothing, Interrupt
  <2>2. CASE ~ Intact(ph)
    BY <1>1, <1>9, <2>2 DEF ClickNothing, Interrupt
  <2> QED BY <2>1, <2>2
<1> QED BY <1>3, <1>4, <1>5, <1>6, <1>7, <1>8, <1>9 DEF MouseInterupt

-----------------------------------------------------------------------------
(***************************************************************************)
(* The steps of the loop.                                                  *)
(***************************************************************************)
(* Where the loop goes, it has an index inside the list, and the Procedure *)
(* that runs has its process: unless an interrupt took them away.          *)
Held == race = {} =>
    /\ m.pc \in Holding \/ m.ret = "answer" => m.i < ph.size
    /\ m.pc \in {"answer", "told"} \/ m.ret = "answer" =>
         m.cur \in ph.live /\ ph.proc[m.cur].id = m.id

LEMMA LoopSpares ==
  ASSUME TypeOK, Spared, Loop, m.pc # "killall",
         ~ (m.pc = "delete" /\ "victim" \in race), ph.moving \in ph.live \ ph'.live
  PROVE  ph'.moving # ph.moving
<1>0. ph \in Table
  BY DEF TypeOK
<1>1. CASE Construct
  <2>1. PICK a \in Addr : ph' = MakeRoom(NewProcess(ph, m.prog, a), m.prog)
    BY <1>1 DEF Construct
  <2> DEFINE u == NewProcess(ph, m.prog, a)
  <2>2. m.prog \in Program
    BY DEF TypeOK, Main
  <2>3. u \in Table /\ ph.live \subseteq u.live
    BY <1>0, <2>2, NewProcessParts
  <2>4. u.moving = ph.moving
    BY <1>0 DEF NewProcess, Table
  <2> HIDE DEF u
  <2>5. Spares(u, ph')
    BY <2>1, <2>3, KillFirstSpares, SteadySpares DEF MakeRoom, u
  <2> QED BY <2>3, <2>4, <2>5 DEF Spares
<1>2. CASE DeleteVictim
  <2>1. m.pc = "delete" /\ "victim" \notin race
    BY <1>2 DEF DeleteVictim, At
  <2>2. ph.moving # Victim \/ Victim = Null
    BY <2>1 DEF Spared
  <2>3. CASE Victim \in ph.live
    <3>1. ph'.live = ph.live \ {Victim}
      BY <1>0, <1>2, <2>3 DEF DeleteVictim, Delete, Table
    <3>2. Victim # Null
      BY <1>0, <2>3, TableParts
    <3> QED BY <2>2, <3>1, <3>2
  <2>4. CASE Victim \notin ph.live
    BY <1>0, <1>2, <2>4 DEF DeleteVictim, Halt, Table
  <2> QED BY <2>3, <2>4
<1>3. CASE Start \/ Check \/ IncrementID \/ PushGrow \/ PushStore \/ Focus
  BY <1>0, <1>3
  DEF Start, Check, IncrementID, PushGrow, PushStore, Focus, Halt, CountID, Grow, Store, Table
<1>4. CASE UpdateDepth
  BY <1>0, <1>4, SetDepthSteady, SteadySteps DEF UpdateDepth, Steady
<1>5. CASE For \/ Update \/ PaintFor \/ Unflag \/ Empty \/ Act \/ Compose \/ Paint
  BY <1>0, <1>5
  DEF For, Update, PaintFor, Unflag, Empty, Act, Compose, Paint, Dangling, Halt, Table
<1>6. CASE Pop
  BY <1>0, <1>6, SteadySteps DEF Pop, Dangling, Steady
<1>7. CASE Answer
  <2>1. ASSUME NEW a \in Addr, NEW r
        PROVE  Answered(ph, a, r).live = ph.live
    BY <1>0, SteadySteps DEF Steady
  <2>2. \/ ph' = Halt(ph, "SendMessage")
        \/ \E r : ph' = Answered(ph, m.cur, r)
        \/ \E r, anim : ph' = [Answered(ph, m.cur, r) EXCEPT !.anim = anim]
    BY <1>7 DEF Answer
  <2>3. CASE m.cur \in ph.live
    <3>1. m.cur \in Addr
      BY <1>0, <2>3, TableParts
    <3>2. \A r, anim : [Answered(ph, m.cur, r) EXCEPT !.anim = anim].live = ph.live
      <4> TAKE r, anim
      <4>1. Answered(ph, m.cur, r).live = ph.live
        BY <2>1, <3>1
      <4> QED BY <1>0, <4>1 DEF Answered, PushRequest, Table
    <3>3. Halt(ph, "SendMessage").live = ph.live
      BY <1>0 DEF Halt, Table
    <3>4. ph'.live = ph.live
      BY <2>1, <2>2, <3>1, <3>2, <3>3, Zenon
    <3> QED BY <3>4
  <2>4. CASE m.cur \notin ph.live
    <3>1. ph' = Halt(ph, "SendMessage")
      BY <1>7, <2>4 DEF Answer
    <3> QED BY <1>0, <3>1, SteadySteps DEF Steady
  <2> QED BY <2>3, <2>4
<1>8. CASE EraseSlot
  BY <1>0, <1>8 DEF EraseSlot, Unlisted, Erase, Table
<1>9. CASE KillAllProcesses
  BY <1>9 DEF KillAllProcesses, At
<1>10. CASE Kill
  BY <1>0, <1>10 DEF Kill, Dangling, Halt, Table
<1>11. CASE ForgetFocused \/ ForgetLast \/ ForgetMoving \/ Tell \/ Told
  BY <1>0, <1>11
  DEF ForgetFocused, ForgetLast, ForgetMoving, Tell, Told, Halt, Answered, PushRequest, Table
<1> QED
  BY <1>1, <1>2, <1>3, <1>4, <1>5, <1>6, <1>7, <1>8, <1>9, <1>10, <1>11 DEF Loop

(* Only KillAllProcesses, and the loop's KillProcess after an interrupt    *)
(* came between, delete the window that is being dragged without ending    *)
(* the drag.                                                               *)
THEOREM OrphanedCorrect == Spec => OrphanedOnlyByReset
<1> DEFINE Step == /\ ph.moving \in ph.live
                   /\ ph'.moving = ph.moving
                   => \/ ph.moving \in ph'.live
                      \/ m.pc = "killall"
                      \/ m.pc = "delete" /\ "victim" \in race
<1>1. OrderInv /\ [Next]_vars => Step \/ UNCHANGED vars
  <2> SUFFICES ASSUME OrderInv, Next, ph.moving \in ph.live, ph'.moving = ph.moving,
                      m.pc # "killall", ~ (m.pc = "delete" /\ "victim" \in race),
                      ph.moving \notin ph'.live
               PROVE  FALSE
    BY DEF vars
  <2>0. TypeOK /\ Spared
    BY DEF OrderInv
  <2>1. CASE Loop
    BY <2>0, <2>1, LoopSpares
  <2>2. CASE KeyBoardInterupt \/ MouseInterupt \/ PITInterupt
    BY <2>0, <2>2, KeyBoardInteruptSpares, MouseInteruptSpares, PITInteruptSpares DEF Spares
  <2> QED BY <2>1, <2>2 DEF Next
<1>2. OrderInv /\ [Next]_vars => [Step]_vars
  BY <1>1
<1> QED BY <1>2, OrderKept, PTL DEF Spec, OrphanedOnlyByReset

-----------------------------------------------------------------------------
(***************************************************************************)
(* Without a race the loop keeps what it holds, and nothing faults.        *)
(***************************************************************************)
HoldInv == OrderInv /\ Held /\ FaultOrigin

LEMMA InterruptHeld ==
  ASSUME OrderInv, Held, NEW t, Interrupt(t), t \in Table, Spares(ph, t)
  PROVE  Held'
<1>0. ph \in Table /\ m \in Main /\ ph' = t /\ IndexOK
  BY DEF OrderInv, TypeOK, Interrupt
<1> SUFFICES ASSUME race' = {}
             PROVE  /\ m'.pc \in Holding \/ m'.ret = "answer" => m'.i < ph'.size
                    /\ m'.pc \in {"answer", "told"} \/ m'.ret = "answer" =>
                         m'.cur \in ph'.live /\ ph'.proc[m'.cur].id = m'.id
  BY DEF Held
<1>1. /\ race = {}
      /\ m.pc \in Writing => t.size = ph.size /\ t.live = ph.live
      /\ m.pc \in Holding => ph.live \subseteq t.live
  BY DEF Interrupt
<1>2. CASE m.pc = "hlt"
  <2>1. m'.pc = "for" /\ m'.ret = m.ret
    BY <1>0, <1>2 DEF Interrupt, Main
  <2>2. m.ret # "answer"
    BY <1>0, <1>2 DEF IndexOK, Calling
  <2> QED BY <2>1, <2>2 DEF Holding
<1>3. CASE m.pc # "hlt"
  <2>1. m' = m
    BY <1>3 DEF Interrupt
  <2>2. /\ ph.size \in Nat /\ t.size \in Nat /\ m.i \in Nat
    BY <1>0, TableParts DEF Main, Slot
  <2>3. m.ret = "answer" => m.pc \in Writing \cup {"answer"}
    BY <1>0 DEF IndexOK, Writing
  <2>4. ASSUME m.pc \in Holding \/ m.ret = "answer" PROVE m.i < t.size
    BY <1>1, <2>2, <2>3, <2>4 DEF Held, Spares, Holding
  <2>5. ASSUME m.pc \in {"answer", "told"} \/ m.ret = "answer"
        PROVE  m.cur \in t.live /\ t.proc[m.cur].id = m.id
    <3>1. m.cur \in ph.live /\ ph.proc[m.cur].id = m.id
      BY <1>1, <2>5 DEF Held
    <3>2. ph.live \subseteq t.live
      BY <1>1, <2>3, <2>5 DEF Holding
    <3> QED BY <3>1, <3>2 DEF Spares
  <2> QED BY <1>0, <2>1, <2>4, <2>5
<1> QED BY <1>2, <1>3

(* Outside of the list's changes it names only live processes.             *)
LEMMA OrderedIntact ==
  ASSUME OrderInv, Undisturbed, m.pc \notin Torn
  PROVE  /\ Intact(ph)
         /\ m.pc \notin Writing => Sound(ph)
         /\ ~ Beginning => FocusedLive(ph)
<1>1. Ordered /\ ph \in Table
  BY DEF OrderInv, TypeOK
<1>2. CASE m.pc = "grow"
  BY <1>1, <1>2 DEF Ordered, AtGrow, Lists, Intact, Pointing, Writing, Calling
<1>3. CASE m.pc = "depth"
  BY <1>1, <1>3 DEF Ordered, AtStored, Stored, Lists, Intact, Pointing, Writing, Calling
<1>4. CASE m.pc \notin Torn \cup Pushing
  BY <1>1, <1>4 DEF Ordered, Sound, Lists, Intact, Pointing
<1> QED BY <1>2, <1>3, <1>4 DEF Torn, Pushing

LEMMA InterruptFaultless ==
  ASSUME OrderInv, KeyBoardInterupt \/ MouseInterupt \/ PITInterupt
  PROVE  FaultOrigin'
<1>0. /\ ph \in Table /\ m \in Main /\ ph' \in Table /\ \E t : Interrupt(t) /\ ph' = t
  <2>1. \E t : Interrupt(t) /\ Effect(ph, t)
    BY KeyBoardInteruptEffect, MouseInteruptEffect, PITInteruptEffect DEF OrderInv
  <2> QED BY <2>1 DEF Effect, Interrupt, OrderInv, TypeOK
<1> SUFFICES ASSUME race' = {}, m'.pc \notin Torn, ~ Beginning',
                    ph'.moving \in ph'.live \cup {Null}
             PROVE  ph'.stop \notin Fault
  BY DEF FaultOrigin, Faulted
<1>1. /\ race = {}
      /\ m.pc \in Writing => ph'.live = ph.live
  BY <1>0 DEF Interrupt
<1>2. \/ m' = m
      \/ m.pc = "hlt"
  BY <1>0 DEF Interrupt
<1>3. m.pc \notin Torn /\ ~ Beginning
  BY <1>2 DEF Torn, Beginning, Calling
<1>4. Intact(ph) /\ (m.pc \notin Writing => Sound(ph)) /\ FocusedLive(ph)
  BY <1>1, <1>3, OrderedIntact DEF Undisturbed
<1>5. CASE KeyBoardInterupt
  BY <1>4, <1>5, KeyBoardInteruptSpares DEF OrderInv
<1>6. CASE PITInterupt
  BY <1>4, <1>6, PITInteruptSpares DEF OrderInv
<1>7. CASE MouseInterupt
  <2>1. CASE ph.moving \in ph.live \cup {Null}
    BY <1>1, <1>4, <1>7, <2>1, MouseInteruptSpares DEF OrderInv
  <2>2. CASE ph.moving \notin ph.live \cup {Null}
    <3>1. DragWindow
      BY <1>7, <2>2 DEF MouseInterupt, CloseWindow, MinimizeWindow, GrabWindow, ClickWindow,
                        PowerOff, ClickNothing, Reaches
    <3>2. ph' = Halt(ph, "MouseInterupt")
      BY <2>2, <3>1 DEF DragWindow, Interrupt
    <3>3. ph'.moving = ph.moving /\ ph'.live = ph.live
      BY <1>0, <3>2 DEF Halt, Table
    <3> QED BY <2>2, <3>3
  <2> QED BY <2>1, <2>2
<1> QED BY <1>5, <1>6, <1>7

(* A label at which the loop has an index it may follow.                   *)
LEMMA Followed ==
  ASSUME OrderInv, Undisturbed, m.pc \in Holding, m.i < ph.size
  PROVE  ph.data[m.i] \in ph.live
<1>1. Sound(ph)
  BY OrderedIntact DEF Torn, Holding, Writing, Calling
<1>2. m.i \in Slots(ph)
  BY TableParts DEF OrderInv, TypeOK, Main, Slot, Slots
<1> QED BY <1>1, <1>2 DEF Sound, Lists, Listed

(* At these labels the loop leaves the processes and their number alone.   *)
LEMMA SteadyHolds ==
  ASSUME OrderInv, Held, race' = {}, race = {}, TypeOK', Steady(ph, ph'),
         ph'.stop = "running",
         m'.pc \in Holding \/ m'.ret = "answer" =>
           \/ m'.i = m.i /\ (m.pc \in Holding \/ m.ret = "answer")
           \/ m'.i < ph.size,
         m'.pc \in {"answer", "told"} \/ m'.ret = "answer" =>
           \/ /\ m'.cur = m.cur /\ m'.id = m.id
              /\ m.pc \in {"answer", "told"} \/ m.ret = "answer"
           \/ m'.cur \in ph.live /\ m'.id = ph.proc[m'.cur].id
  PROVE  Held' /\ FaultOrigin'
<1>1. ph \in Table /\ ph.live \subseteq Addr
  BY TableParts DEF OrderInv, TypeOK
<1>2. Held'
  BY <1>1 DEF Held, Steady
<1>3. FaultOrigin'
  BY DEF FaultOrigin, Faulted, Fault
<1> QED BY <1>2, <1>3

LEMMA CallHeld ==
  ASSUME OrderInv, Held, race' = {}, race = {}, TypeOK',
         Check \/ IncrementID \/ Construct \/ PushGrow \/ PushStore \/ UpdateDepth \/ Focus
  PROVE  Held' /\ FaultOrigin'
<1>0. /\ ph \in Table /\ m \in Main /\ Ordered /\ ph.live \subseteq Addr /\ IndexOK
      /\ ph.stop = "running" /\ m.pc \in Calling \cup {"focus"} /\ Undisturbed
      /\ ph.size \in Nat /\ m.i \in Nat
  BY TableParts
  DEF OrderInv, TypeOK, Undisturbed, Check, IncrementID, Construct, PushGrow, PushStore,
      UpdateDepth, Focus, At, Calling, Main, Slot
<1>1. /\ m.pc \notin Holding
      /\ m.ret = "answer" => /\ m.i < ph.size /\ m.cur \in ph.live
                             /\ ph.proc[m.cur].id = m.id
  BY <1>0 DEF Held, Calling, Holding
<1>2. Returned.pc \in {"answer", "focus"} /\ (Returned.pc = "answer" => m.ret = "answer")
      /\ Returned.i = m.i /\ Returned.cur = m.cur /\ Returned.id = m.id /\ Returned.ret = m.ret
  BY <1>0 DEF Returned, Main
<1>3. CASE Check
  <2>0. m.pc = "check"
    BY <1>3 DEF Check, At
  <2>1. Intact(ph)
    BY <1>0, <2>0, OrderedIntact DEF Torn
  <2>2. ph' = ph /\ (m' = Returned \/ m' = Goto("id"))
    <3>1. CASE AlreadyRuns(ph, m.prog)
      <4> DEFINE H == Hits(ph, Running(ph, m.prog))
      <4>1. H \in SUBSET Nat /\ H # {}
        BY <1>0, <3>1, TableParts DEF AlreadyRuns, Hits
      <4>2. First(H) \in H
        BY <4>1, FirstIsLeast
      <4>3. ph.data[First(H)] \in ph.live
        BY <2>1, <4>2 DEF Hits, Intact, Listed
      <4> QED BY <1>3, <3>1, <4>3 DEF Check
    <3>2. CASE ~ AlreadyRuns(ph, m.prog)
      BY <1>3, <3>2 DEF Check
    <3> QED BY <3>1, <3>2
  <2>3. Goto("id").pc = "id" /\ Goto("id").i = m.i /\ Goto("id").cur = m.cur
        /\ Goto("id").id = m.id /\ Goto("id").ret = m.ret
    BY <1>0 DEF Goto, Main
  <2>4. Steady(ph, ph') /\ ph'.stop = "running"
    BY <1>0, <2>2 DEF Steady
  <2> QED BY <1>1, <1>2, <2>2, <2>3, <2>4, SteadyHolds DEF Holding
<1>4. CASE IncrementID \/ PushGrow
  <2>1. /\ m'.pc \in {"construct", "store"} /\ m'.i = m.i /\ m'.cur = m.cur
        /\ m'.id = m.id /\ m'.ret = m.ret
    BY <1>0, <1>4 DEF IncrementID, PushGrow, Goto, Main
  <2>2. /\ ph'.size >= ph.size /\ ph'.live = ph.live /\ ph'.proc = ph.proc
        /\ ph'.stop = "running" /\ ph'.size \in Nat
    BY <1>0, <1>4 DEF IncrementID, PushGrow, CountID, Grow, Table
  <2> QED BY <1>0, <1>1, <2>1, <2>2 DEF Held, FaultOrigin, Faulted, Fault, Holding
<1>5. CASE Construct
  <2>0. m.pc = "construct" /\ m.prog \in Program
    BY <1>0, <1>5 DEF Construct, At, Main
  <2>1. PICK a \in Addr \ ph.live : \E d \in Depths(ph, m.prog) :
          /\ ph' = MakeRoom(NewProcess(ph, m.prog, a), m.prog)
          /\ m' = [m EXCEPT !.pc = "grow", !.fresh = a, !.d = d]
    BY <1>5 DEF Construct
  <2> DEFINE u == NewProcess(ph, m.prog, a)
  <2>2. /\ u \in Table /\ u.data = ph.data /\ u.size = ph.size
        /\ u.live = ph.live \cup {a} /\ \A b \in Addr \ {a} : u.proc[b] = ph.proc[b]
    BY <1>0, <2>0, NewProcessParts
  <2>3. u.stop = ph.stop
    BY <1>0 DEF NewProcess, Table
  <2> HIDE DEF u
  <2>4. Intact(u)
    <3>1. Intact(ph)
      BY <1>0, <2>0, OrderedIntact DEF Torn
    <3> QED BY <2>2, <3>1 DEF Intact, Listed, Slots
  <2>5. ph'.stop = "running"
    BY <1>0, <2>1, <2>2, <2>3, <2>4, KillFirstSpares DEF MakeRoom, u
  <2>6. m'.pc = "grow" /\ m'.i = m.i /\ m'.cur = m.cur /\ m'.id = m.id /\ m'.ret = m.ret
    BY <1>0, <2>1 DEF Main
  <2>7. m.ret = "answer" => ph' = u
    <3>1. m.ret = "answer" => m.prog = "topbar"
      BY <1>0, <2>0 DEF Ordered, AtCall
    <3> QED BY <2>1, <3>1, NoRoomNeeded DEF u
  <2> QED BY <1>0, <1>1, <2>2, <2>5, <2>6, <2>7 DEF Held, FaultOrigin, Faulted, Fault, Holding
<1>6. CASE PushStore
  <2>1. m.pc = "store" /\ ph.size > 0
    BY <1>0, <1>6 DEF PushStore, At, Ordered, AtStored
  <2>2. /\ ph'.size = ph.size /\ ph'.live = ph.live /\ ph'.proc = ph.proc
        /\ ph'.stop = "running" /\ ph'.moving = ph.moving
    BY <1>0, <1>6, <2>1 DEF PushStore, Store, Table
  <2>3. m'.pc = "depth" /\ m'.i = m.i /\ m'.cur = m.cur /\ m'.id = m.id /\ m'.ret = m.ret
    BY <1>0, <1>6 DEF PushStore, Goto, Main
  <2> QED BY <1>1, <2>2, <2>3 DEF Held, FaultOrigin, Faulted, Fault, Holding
<1>7. CASE UpdateDepth
  <2>1. m.pc = "depth"
    BY <1>7 DEF UpdateDepth, At
  <2>2. m.fresh \in ph.live
    <3>1. Lists(ph, {}) /\ ph.size > 0 /\ ph.data[ph.size - 1] = m.fresh
      BY <1>0, <2>1 DEF Ordered, AtStored, Stored
    <3>2. ph.size - 1 \in Slots(ph)
      BY <1>0, <3>1 DEF Slots
    <3> QED BY <3>1, <3>2 DEF Lists, Listed
  <2>3. Steady(ph, ph') /\ ph'.stop = "running" /\ m' = Returned
    BY <1>0, <1>7, <2>2, SetDepthSteady DEF UpdateDepth
  <2> QED BY <1>1, <1>2, <2>3, SteadyHolds DEF Holding
<1>8. CASE Focus
  <2>1. m.pc = "focus" /\ m.ret # "answer" /\ m.ret \in {"for", "hlt", "answer"}
    BY <1>0, <1>8 DEF Focus, At, IndexOK, Calling, Main
  <2>2. m'.pc = m.ret /\ m'.ret = "for" /\ ph'.stop = "running"
    BY <1>0, <1>8 DEF Focus, Main, Table
  <2> QED BY <2>1, <2>2 DEF Held, FaultOrigin, Faulted, Fault, Holding
<1> QED BY <1>3, <1>4, <1>5, <1>6, <1>7, <1>8

LEMMA PassHeld ==
  ASSUME OrderInv, Held, race' = {}, race = {}, TypeOK',
         \/ Start \/ For \/ EraseSlot \/ KillAllProcesses
         \/ Update \/ PaintFor \/ Unflag \/ Empty
  PROVE  Held' /\ FaultOrigin'
<1>0. ph \in Table /\ m \in Main /\ IndexOK /\ ph.stop = "running"
  BY DEF OrderInv, TypeOK, Start, For, EraseSlot, KillAllProcesses, Update, PaintFor, Unflag,
         Empty, At
<1>1. CASE Start \/ Update \/ Unflag \/ Empty
  <2>1. m.pc \in {"start", "update", "unflag", "empty"}
    BY <1>1 DEF Start, Update, Unflag, Empty, At
  <2>2. m.ret # "answer"
    BY <1>0, <2>1 DEF IndexOK, Calling
  <2>3. m'.pc \in {"check", "paintfor", "empty", "hlt"} /\ m'.ret # "answer"
    BY <1>0, <1>1, <2>2 DEF Start, Update, Unflag, Empty, StartTTY, Goto, Main
  <2>4. ph'.stop = "running"
    BY <1>0, <1>1 DEF Start, Update, Unflag, Empty, Table
  <2> QED BY <2>3, <2>4 DEF Held, FaultOrigin, Faulted, Fault, Holding
<1>2. CASE For \/ PaintFor
  <2>1. m.pc \in {"for", "paintfor"} /\ ph' = ph
    BY <1>2 DEF For, PaintFor, At
  <2>2. m.ret # "answer"
    BY <1>0, <2>1 DEF IndexOK, Calling
  <2>3. /\ m'.ret # "answer" /\ m'.pc \notin {"answer", "told"}
        /\ m'.pc \in Holding => m'.i = m.i /\ m.i < ph.size
    BY <1>0, <1>2, <2>1, <2>2 DEF For, PaintFor, Goto, Main, Holding
  <2> QED BY <1>0, <2>1, <2>3 DEF Held, FaultOrigin, Faulted, Fault
<1>3. CASE EraseSlot
  <2>1. m.pc = "erase" /\ m.ret # "answer"
    BY <1>0, <1>3 DEF EraseSlot, At, IndexOK, Calling
  <2>2. m'.pc = "for" /\ m'.ret = m.ret /\ ph'.stop = "running"
    BY <1>0, <1>3 DEF EraseSlot, Unlisted, Erase, Main, Table
  <2> QED BY <2>1, <2>2 DEF Held, FaultOrigin, Faulted, Fault, Holding
<1>4. CASE KillAllProcesses
  <2>1. m.pc = "killall" /\ m.ret # "answer"
    BY <1>0, <1>4 DEF KillAllProcesses, At, IndexOK, Calling
  <2>2. m'.pc \in {"killall", "start"} /\ m'.ret = m.ret
    BY <1>0, <1>4, <2>1 DEF KillAllProcesses, Main
  <2> QED BY <2>1, <2>2 DEF Held, FaultOrigin, Beginning, Holding
<1> QED BY <1>1, <1>2, <1>3, <1>4

LEMMA RequestHeld ==
  ASSUME OrderInv, Held, race' = {}, race = {}, TypeOK',
         Pop \/ Act \/ Answer \/ Compose \/ Kill \/ Paint
  PROVE  Held' /\ FaultOrigin'
<1>0. /\ ph \in Table /\ m \in Main /\ IndexOK /\ ph.stop = "running" /\ m.pc \in Holding
      /\ Undisturbed /\ ph.live \subseteq Addr
  BY TableParts
  DEF OrderInv, TypeOK, Undisturbed, Pop, Act, Answer, Compose, Kill, Paint, At, Holding
<1>1. m.i < ph.size /\ ph.data[m.i] \in ph.live
  BY <1>0, Followed DEF Held
<1>2. \A l : ~ Dangling(l)
  BY <1>1 DEF Dangling
<1>3. m.pc # "answer" => m.ret # "answer"
  BY <1>0 DEF IndexOK, Holding, Calling
<1>4. /\ Advance.pc = "for" /\ Advance.ret = m.ret
  BY <1>0 DEF Advance, Main
<1>5. CASE Pop
  <2>0. m.pc = "pop"
    BY <1>5 DEF Pop, At
  <2>1. PICK a \in Addr : /\ ph' = PopRequest(ph, a)
                          /\ m' = Dispatch(PendingRequest(ph, a))
    BY <1>2, <1>5 DEF Pop
  <2>2. Steady(ph, ph') /\ ph'.stop = "running"
    BY <1>0, <2>1, SteadySteps
  <2>3. PendingRequest(ph, a) \in Request
    BY <1>0, PopRequestType
  <2>4. /\ m'.ret = m.ret /\ m'.pc \notin {"answer", "told"}
        /\ m'.pc \in Holding => m'.i = m.i
    BY <1>0, <2>1, <2>3 DEF Dispatch, Request, Advance, Goto, Main, Holding
  <2> QED BY <1>0, <1>3, <2>0, <2>2, <2>4, SteadyHolds
<1>6. CASE Act
  <2>0. m.pc = "act"
    BY <1>6 DEF Act, At
  <2>1. PICK a \in Addr, next \in {"answer", "check"} :
          /\ Following(a)
          /\ ph' = [ph EXCEPT !.last = a]
          /\ m' = [m EXCEPT !.pc = next, !.cur = a, !.id = ph.proc[a].id,
                            !.prog = IF next = "check" THEN "topbar" ELSE @,
                            !.ret = IF next = "check" THEN "answer" ELSE @]
    BY <1>2, <1>6 DEF Act
  <2>2. Steady(ph, ph') /\ ph'.stop = "running"
    BY <1>0, <2>1 DEF Steady, Table
  <2>3. m'.i = m.i /\ m'.cur \in ph.live /\ m'.id = ph.proc[m'.cur].id
    BY <1>0, <2>1 DEF Following, Main
  <2> QED BY <1>0, <2>2, <2>3, SteadyHolds
<1>7. CASE Answer
  <2>0. m.pc = "answer" /\ m.cur \in ph.live /\ ph.proc[m.cur].id = m.id /\ m.cur \in Addr
    BY <1>0, <1>7 DEF Answer, At, Held
  <2>1. /\ m' = [m EXCEPT !.pc = "compose", !.req = "SUCCESS", !.cur = Null,
                          !.id = 0, !.prog = "tty", !.ret = "for"]
        /\ \/ \E r : ph' = Answered(ph, m.cur, r)
           \/ \E r, anim : ph' = [Answered(ph, m.cur, r) EXCEPT !.anim = anim]
    BY <1>7, <2>0 DEF Answer
  <2>2. m'.pc = "compose" /\ m'.ret = "for" /\ m'.i = m.i
    BY <1>0, <2>1 DEF Main
  <2>3. \A r : Steady(ph, Answered(ph, m.cur, r)) /\ Answered(ph, m.cur, r).stop = ph.stop
    BY <1>0, <2>0, SteadySteps
  <2>4. ASSUME NEW r, NEW anim
        PROVE  LET t == [Answered(ph, m.cur, r) EXCEPT !.anim = anim] IN
               Steady(ph, t) /\ t.stop = ph.stop
    <3> DEFINE u == Answered(ph, m.cur, r)
               t == [u EXCEPT !.anim = anim]
    <3>1. t.live = u.live /\ t.size = u.size /\ t.moving = u.moving /\ t.proc = u.proc
          /\ t.stop = u.stop
      BY <1>0 DEF Answered, PushRequest, Table
    <3> HIDE DEF u
    <3>2. Steady(ph, u) /\ u.stop = ph.stop
      BY <2>3 DEF u
    <3> HIDE DEF t
    <3>3. Steady(ph, t) /\ t.stop = ph.stop
      BY <3>1, <3>2 DEF Steady
    <3> QED BY <3>3 DEF t, u
  <2>5. Steady(ph, ph') /\ ph'.stop = ph.stop
    <3>1. CASE \E r : ph' = Answered(ph, m.cur, r)
      BY <2>3, <3>1
    <3>2. CASE \E r, anim : ph' = [Answered(ph, m.cur, r) EXCEPT !.anim = anim]
      <4>1. PICK r, anim : ph' = [Answered(ph, m.cur, r) EXCEPT !.anim = anim]
        BY <3>2
      <4> QED BY <2>4, <4>1
    <3> QED BY <2>1, <3>1, <3>2
  <2> QED BY <1>0, <2>2, <2>5, SteadyHolds
<1>8. CASE Compose
  <2>1. \E overlap : ph' = [ph EXCEPT !.redraw = overlap] /\ m' = Advance
    BY <1>2, <1>8 DEF Compose
  <2>2. Steady(ph, ph') /\ ph'.stop = "running"
    BY <1>0, <2>1 DEF Steady, Table
  <2>3. m.pc # "answer"
    BY <1>8 DEF Compose, At
  <2> QED BY <1>3, <1>4, <2>1, <2>2, <2>3, SteadyHolds DEF Holding
<1>9. CASE Kill
  <2>0. m.pc = "kill" /\ Sound(ph)
    BY <1>0, <1>9, OrderedIntact DEF Kill, At, Torn, Writing, Calling
  <2>1. PICK k \in Slots(ph) :
          /\ ph' = IF ph.data[k] \in ph.live THEN ph ELSE Halt(ph, "KillProcess")
          /\ m' = [m EXCEPT !.pc = "unfocus", !.d = k]
    BY <1>2, <1>9 DEF Kill
  <2>2. ph' = ph
    BY <2>0, <2>1 DEF Sound, Lists, Listed
  <2>3. m'.pc = "unfocus" /\ m'.ret = m.ret /\ m'.i = m.i
    BY <1>0, <2>1 DEF Main
  <2> QED BY <1>0, <1>1, <1>3, <2>0, <2>2, <2>3 DEF Held, FaultOrigin, Faulted, Fault
<1>10. CASE Paint
  <2>0. m.pc = "paint"
    BY <1>10 DEF Paint, At
  <2>1. ph' = ph /\ m' = [m EXCEPT !.pc = "paintfor", !.i = m.i + 1]
    BY <1>2, <1>10 DEF Paint
  <2>2. m'.pc = "paintfor" /\ m'.ret = m.ret
    BY <1>0, <2>1 DEF Main
  <2> QED BY <1>0, <1>3, <2>0, <2>1, <2>2 DEF Held, FaultOrigin, Faulted, Fault, Holding
<1> QED BY <1>5, <1>6, <1>7, <1>8, <1>9, <1>10

(* KillProcess finds its process where it left it.                         *)
LEMMA VictimHeld ==
  ASSUME OrderInv, Held, race' = {}, race = {}, TypeOK',
         ForgetFocused \/ ForgetLast \/ ForgetMoving \/ Tell \/ Told \/ DeleteVictim
  PROVE  Held' /\ FaultOrigin'
<1>0. /\ ph \in Table /\ m \in Main /\ IndexOK /\ ph.stop = "running" /\ Undisturbed
      /\ m.pc \in Killing /\ ph.live \subseteq Addr
  BY TableParts
  DEF OrderInv, TypeOK, Undisturbed, ForgetFocused, ForgetLast, ForgetMoving, Tell, Told,
      DeleteVictim, At, Killing
<1>1. m.pc \in Holding /\ m.ret # "answer" /\ m.i < ph.size
  BY <1>0 DEF Held, IndexOK, Holding, Killing, Calling
<1>2. Victim \in ph.live
  <2>1. Sound(ph)
    BY <1>0, OrderedIntact DEF Torn, Writing, Calling, Killing
  <2>2. m.d \in Slots(ph)
    BY <1>0 DEF OrderInv, Spared
  <2> QED BY <2>1, <2>2 DEF Victim, Sound, Lists, Listed
<1>3. CASE ForgetFocused \/ ForgetLast \/ ForgetMoving
  <2>1. /\ ph'.size = ph.size /\ ph'.stop = "running"
        /\ m'.i = m.i /\ m'.ret = m.ret /\ m'.pc \in {"unlast", "unmove", "tell"}
    BY <1>0, <1>3 DEF ForgetFocused, ForgetLast, ForgetMoving, Goto, Main, Table
  <2> QED BY <1>1, <2>1 DEF Held, FaultOrigin, Faulted, Fault
<1>4. CASE Tell
  <2>1. /\ ph' = [ph EXCEPT !.last = Victim]
        /\ m' = [m EXCEPT !.pc = "told", !.cur = Victim, !.id = ph.proc[Victim].id]
    BY <1>2, <1>4 DEF Tell
  <2>2. Steady(ph, ph') /\ ph'.stop = "running"
    BY <1>0, <2>1 DEF Steady, Table
  <2>3. m'.i = m.i /\ m'.cur = Victim /\ m'.id = ph.proc[Victim].id
    BY <1>0, <2>1 DEF Main
  <2> QED BY <1>0, <1>1, <1>2, <2>2, <2>3, SteadyHolds
<1>5. CASE Told
  <2>0. m.pc = "told" /\ m.cur \in ph.live /\ ph.proc[m.cur].id = m.id /\ m.cur \in Addr
    BY <1>0, <1>5 DEF Told, At, Held
  <2>1. /\ m' = [m EXCEPT !.pc = "delete", !.cur = Null, !.id = 0]
        /\ \E r : ph' = Answered(ph, m.cur, r)
    BY <1>5, <2>0 DEF Told
  <2>2. m'.pc = "delete" /\ m'.ret = m.ret /\ m'.i = m.i
    BY <1>0, <2>1 DEF Main
  <2>3. Steady(ph, ph') /\ ph'.stop = ph.stop
    BY <1>0, <2>0, <2>1, SteadySteps
  <2> QED BY <1>0, <1>1, <2>2, <2>3, SteadyHolds
<1>6. CASE DeleteVictim
  <2>1. m'.pc = "erase" /\ m'.ret = m.ret
    BY <1>0, <1>2, <1>6 DEF DeleteVictim, Goto, Main
  <2> QED BY <1>1, <2>1 DEF Held, FaultOrigin, Torn, Holding
<1> QED BY <1>3, <1>4, <1>5, <1>6

LEMMA HoldNext == HoldInv /\ [Next]_vars => HoldInv'
<1> SUFFICES ASSUME HoldInv, [Next]_vars PROVE HoldInv'
  OBVIOUS
<1>0. OrderInv /\ OrderInv' /\ Held /\ FaultOrigin /\ TypeOK' /\ ph \in Table
  BY OrderNext DEF HoldInv, OrderInv, TypeOK
<1>1. CASE Loop
  <2>1. race' = race
    BY <1>1
    DEF Loop, Start, Check, IncrementID, Construct, PushGrow, PushStore, UpdateDepth, Focus,
        For, Pop, Act, Answer, Compose, Kill, ForgetFocused, ForgetLast, ForgetMoving, Tell, Told,
        DeleteVictim, EraseSlot, KillAllProcesses, Update, PaintFor, Paint, Unflag, Empty,
        Dangling
  <2>2. CASE race # {}
    BY <1>0, <2>1, <2>2 DEF HoldInv, Held, FaultOrigin
  <2>3. CASE race = {}
    BY <1>0, <1>1, <2>1, <2>3, CallHeld, PassHeld, RequestHeld, VictimHeld
    DEF HoldInv, Loop
  <2> QED BY <2>2, <2>3
<1>2. CASE KeyBoardInterupt \/ MouseInterupt \/ PITInterupt
  <2>1. PICK t : Interrupt(t) /\ t \in Table /\ ph' = t
    BY <1>0, <1>2, KeyBoardInteruptEffect, MouseInteruptEffect, PITInteruptEffect
    DEF Effect, OrderInv, Interrupt
  <2>2. Spares(ph, t)
    BY <1>0, <1>2, <2>1, KeyBoardInteruptSpares, MouseInteruptSpares, PITInteruptSpares
    DEF OrderInv
  <2> QED BY <1>0, <1>2, <2>1, <2>2, InterruptHeld, InterruptFaultless DEF HoldInv
<1>3. CASE UNCHANGED vars
  BY <1>0, <1>3
  DEF vars, HoldInv, Held, FaultOrigin, Faulted, Beginning
<1> QED BY <1>1, <1>2, <1>3 DEF Next

(* The kernel follows a dangling pointer only for the reasons named.       *)
THEOREM FaultCorrect == Spec => []FaultOrigin
<1>1. Init => HoldInv
  <2>1. Init => Held /\ FaultOrigin
    BY DEF Init, NoTable, Held, FaultOrigin, Faulted, Fault, Holding
  <2> QED BY <2>1, OrderInit DEF HoldInv
<1>2. HoldInv => FaultOrigin
  BY DEF HoldInv
<1> QED BY <1>1, <1>2, HoldNext, PTL DEF Spec
=============================================================================
