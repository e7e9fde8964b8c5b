------------------------ MODULE ProcessHandlerProofs ------------------------
(***************************************************************************)
(* What TLAPS proves of ProcessHandler, for every set of addresses,        *)
(* programs and bounds: its types, and what killing, SetDepth, starting    *)
(* and the interrupts make of the list of processes.                       *)
(***************************************************************************)
EXTENDS ProcessHandler, FiniteSetTheorems, NaturalsInduction, WellFoundedInduction,
        TLAPS

(* The length of the list's array is a number.                             *)
LEMMA CapacityIsNat == Capacity \in Nat
  BY TableAssumption, FS_CardinalityType DEF Capacity

(* A set of numbers that is not empty has a least element, so First is the *)
(* slot at which a loop over the list stops.                               *)
LEMMA FirstIsLeast ==
  ASSUME NEW S \in SUBSET Nat, S # {}
  PROVE  First(S) \in S /\ \A k \in S : First(S) <= k
<1>1. PICK x \in S : \A y \in S : <<y, x>> \notin OpToRel(<, Nat)
  BY NatLessThanWellFounded, WFMin, Zenon
<1>2. \A y \in S : ~ (y < x)
  BY <1>1, Zenon DEF OpToRel
<1>3. x \in S /\ \A y \in S : x <= y
  BY <1>2
<1> QED
  BY <1>3, Zenon DEF First, Min

-----------------------------------------------------------------------------
(***************************************************************************)
(* The functions of ProcessTable map tables to tables.                     *)
(***************************************************************************)
LEMMA NoProcessType == NoProcess \in Process
  BY TableAssumption DEF NoProcess, Process, Stack, Type

(* PushRequest leaves a process a process: its stack does not outgrow.     *)
LEMMA PushRequestType ==
  ASSUME NEW s \in Table, NEW a \in Addr, NEW r \in Request
  PROVE  PushRequest(s, a, r) \in Table
<1> DEFINE q == s.proc[a].reqs
           p == [s.proc[a] EXCEPT !.reqs = Append(q, r)]
<1>1. s.proc \in [Addr -> Process] /\ s.proc[a] \in Process
  BY DEF Table
<1>2. q \in Seq(Request) /\ Len(q) \in Nat
  BY <1>1 DEF Process, Stack
<1>3. ASSUME Len(q) < RequestCapacity PROVE p \in Process
  <2>1. Append(q, r) \in Stack
    BY <1>2, <1>3, TableAssumption DEF Stack
  <2> QED BY <2>1, <1>1 DEF Process
<1>4. ASSUME p \in Process PROVE [s EXCEPT !.proc[a].reqs = Append(@, r)] \in Table
  <2>1. [s.proc EXCEPT ![a] = p] \in [Addr -> Process]
    BY <1>1, <1>4
  <2>2. [s EXCEPT !.proc[a].reqs = Append(@, r)] = [s EXCEPT !.proc = [s.proc EXCEPT ![a] = p]]
    OBVIOUS
  <2>3. [s EXCEPT !.proc = [s.proc EXCEPT ![a] = p]] \in Table
    BY <2>1 DEF Table
  <2> QED BY <2>2, <2>3
<1> QED BY <1>3, <1>4 DEF PushRequest

LEMMA PopRequestType ==
  ASSUME NEW s \in Table, NEW a \in Addr
  PROVE  PopRequest(s, a) \in Table /\ PendingRequest(s, a) \in Request
<1> DEFINE q == s.proc[a].reqs
           p == [s.proc[a] EXCEPT !.reqs = SubSeq(q, 1, Len(q) - 1)]
<1>1. s.proc \in [Addr -> Process] /\ s.proc[a] \in Process
  BY DEF Table
<1>2. q \in Seq(Request) /\ Len(q) \in Nat /\ Len(q) <= RequestCapacity
  BY <1>1 DEF Process, Stack
<1>3. PendingRequest(s, a) \in Request
  BY <1>2 DEF PendingRequest, Request
<1>4. ASSUME q # <<>> PROVE p \in Process
  <2>1. SubSeq(q, 1, Len(q) - 1) \in Stack
    BY <1>2, <1>4, TableAssumption DEF Stack
  <2> QED BY <2>1, <1>1 DEF Process
<1>5. ASSUME p \in Process
      PROVE  [s EXCEPT !.proc[a].reqs = SubSeq(@, 1, Len(@) - 1)] \in Table
  <2>1. [s.proc EXCEPT ![a] = p] \in [Addr -> Process]
    BY <1>1, <1>5
  <2>2. [s EXCEPT !.proc[a].reqs = SubSeq(@, 1, Len(@) - 1)]
        = [s EXCEPT !.proc = [s.proc EXCEPT ![a] = p]]
    OBVIOUS
  <2>3. [s EXCEPT !.proc = [s.proc EXCEPT ![a] = p]] \in Table
    BY <2>1 DEF Table
  <2> QED BY <2>2, <2>3
<1> QED BY <1>3, <1>4, <1>5 DEF PopRequest, PendingRequest

LEMMA AnsweredType ==
  ASSUME NEW s \in Table, NEW a \in Addr, NEW r \in Request
  PROVE  Answered(s, a, r) \in Table
<1>1. \A t \in Table : [t EXCEPT !.last = Null] \in Table
  BY DEF Table
<1> QED BY <1>1, PushRequestType DEF Answered

LEMMA MinimizeType ==
  ASSUME NEW s \in Table, NEW a \in Addr
  PROVE  Minimize(s, a) \in Table
<1>1. s.proc \in [Addr -> Process] /\ s.proc[a] \in Process
  BY DEF Table
<1>2. ASSUME NEW y \in Type PROVE [s EXCEPT !.proc[a].type = y] \in Table
  <2>1. [s.proc[a] EXCEPT !.type = y] \in Process
    BY <1>1 DEF Process
  <2>2. [s.proc EXCEPT ![a] = [s.proc[a] EXCEPT !.type = y]] \in [Addr -> Process]
    BY <1>1, <2>1
  <2> QED BY <2>2 DEF Table
<1>3. s.proc[a].type \in Type
  BY <1>1 DEF Process
<1> QED BY <1>2, <1>3 DEF Minimize, Type

LEMMA SetDepthType ==
  ASSUME NEW s \in Table, NEW a \in Addr, NEW d \in Slot
  PROVE  SetDepth(s, a, d) \in Table
<1> DEFINE S == {j \in Slots(s) : s.data[j] = a}
<1>1. Slots(s) \subseteq Slot /\ Slots(s) \subseteq Nat
  BY CapacityIsNat DEF Slots, Slot, Table
<1>2. ASSUME a \in Listed(s) PROVE First(S) \in Slot
  <2>1. S # {} /\ S \in SUBSET Nat
    BY <1>1, <1>2 DEF Listed
  <2> QED BY <2>1, <1>1, FirstIsLeast
<1>3. ASSUME NEW k \in Slot
      PROVE  [s EXCEPT !.data = [@ EXCEPT ![k] = s.data[d], ![d] = a]] \in Table
  BY DEF Table
<1> QED BY <1>2, <1>3 DEF SetDepth

(* What every program's Procedure asks for and answers.                    *)
LEMMA ProcedureType ==
  ASSUME NEW p
  PROVE  /\ Procedure(p).type \in Type
         /\ Procedure(p).depth \in {0, 1}
         /\ Procedure(p).tick \subseteq Request
         /\ Procedure(p).key \subseteq Request
         /\ Procedure(p).mouse \subseteq Request
         /\ Procedure(p).draw \subseteq Request
<1> DEFINE Sound(r) == /\ r.type \in Type
                       /\ r.depth \in {0, 1}
                       /\ r.tick \subseteq Request
                       /\ r.key \subseteq Request
                       /\ r.mouse \subseteq Request
                       /\ r.draw \subseteq Request
<1>1. /\ Sound(Tty) /\ Sound(Desktop) /\ Sound(Topbar) /\ Sound(SystemMenu)
      /\ Sound(StartMenu) /\ Sound(Terminal) /\ Sound(Calculator) /\ Sound(Tetris)
  BY DEF Tty, Desktop, Topbar, SystemMenu, StartMenu, Terminal, Calculator, Tetris,
         Quiet, Type, Request
<1>2. Sound(Guest)
  BY ProgramsAssumption DEF Guest, Quiet, Type, Request
<1>3. Procedure(p) \in {Tty, Desktop, Topbar, SystemMenu, StartMenu, Terminal,
                        Calculator, Tetris, Guest}
  BY DEF Procedure
<1> HIDE DEF Sound
<1>4. Sound(Procedure(p))
  BY <1>1, <1>2, <1>3
<1> QED BY <1>4 DEF Sound

LEMMA NewProcessType ==
  ASSUME NEW s \in Table, NEW p \in Program, NEW a \in Addr
  PROVE  NewProcess(s, p, a) \in Table /\ NewProcess(s, p, a).size = s.size
<1> DEFINE q == IF RequestCapacity = 0 THEN <<>> ELSE <<"DRAW">>
           x == [id |-> s.newID, prog |-> p, type |-> InitType(p), reqs |-> q]
<1>1. q \in Stack
  BY TableAssumption DEF Stack, Request
<1>2. InitType(p) \in Type
  BY ProcedureType DEF InitType
<1>3. x \in Process
  BY <1>1, <1>2 DEF Process, Table
<1>4. [s.proc EXCEPT ![a] = x] \in [Addr -> Process]
  BY <1>3 DEF Table
<1>5. s.anim \cup {p} \in SUBSET Program
  BY DEF Table
<1>6. [s.menu EXCEPT !["systemmenu"] = -1] \in [Menus -> Nat \cup {-1}]
  BY DEF Table
<1> QED BY <1>4, <1>5, <1>6 DEF NewProcess, Table

LEMMA KillStepTypes ==
  ASSUME NEW s \in Table, NEW a \in Addr
  PROVE  /\ Forget(s, a) \in Table
         /\ Delete(s, a) \in Table
         /\ Forget(s, a).size = s.size /\ Delete(s, a).size = s.size
         /\ \A k \in Slot : s.size > 0 => Unlisted(s, k) \in Table
<1>1. Forget(s, a) \in Table /\ Forget(s, a).size = s.size
  BY DEF Forget, Table
<1>2. Delete(s, a) \in Table /\ Delete(s, a).size = s.size
  BY NoProcessType DEF Delete, Table
<1>3. ASSUME NEW k \in Slot, s.size > 0 PROVE Unlisted(s, k) \in Table
  <2>1. [j \in Slot |-> IF j >= k /\ j < s.size - 1 THEN s.data[j + 1] ELSE s.data[j]]
          \in [Slot -> Addr \cup {Null}]
    BY CapacityIsNat DEF Table, Slot
  <2>2. s.size - 1 \in Slot
    BY <1>3, CapacityIsNat DEF Table, Slot
  <2> QED BY <2>1, <2>2 DEF Unlisted, Erase, Table
<1> QED BY <1>1, <1>2, <1>3

LEMMA HitSlot ==
  ASSUME NEW s \in Table, NEW A, Hits(s, A) # {}
  PROVE  /\ First(Hits(s, A)) \in Slots(s)
         /\ First(Hits(s, A)) \in Slot
         /\ s.size > 0
<1>1. Slots(s) \subseteq Slot /\ Slots(s) \subseteq Nat
  BY CapacityIsNat DEF Slots, Slot, Table
<1>2. Hits(s, A) \in SUBSET Nat /\ Hits(s, A) \subseteq Slots(s)
  BY <1>1 DEF Hits
<1>3. First(Hits(s, A)) \in Slots(s)
  BY <1>2, FirstIsLeast
<1> QED BY <1>1, <1>3, CapacityIsNat DEF Slots, Slot, Table

LEMMA HaltType ==
  ASSUME NEW s \in Table, NEW why \in Reason
  PROVE  Halt(s, why) \in Table
  BY DEF Halt, Table

LEMMA KillFirstType ==
  ASSUME NEW s \in Table, NEW A
  PROVE  KillFirst(s, A) \in Table
<1> DEFINE k == First(Hits(s, A))
           a == s.data[k]
<1>1. ASSUME Hits(s, A) # {}, a \in s.live
      PROVE  Unlisted(Delete(Forget(s, a), a), k) \in Table
  <2>1. k \in Slot /\ s.size > 0
    BY <1>1, HitSlot
  <2>2. a \in Addr
    BY <1>1 DEF Table
  <2>3. Forget(s, a) \in Table /\ Forget(s, a).size = s.size
    BY <2>2, KillStepTypes
  <2>4. Delete(Forget(s, a), a) \in Table /\ Delete(Forget(s, a), a).size = s.size
    BY <2>2, <2>3, KillStepTypes
  <2> QED BY <2>1, <2>2, <2>4, KillStepTypes
<1>2. Halt(s, "KillProcess") \in Table
  BY HaltType DEF Reason, Fault
<1> QED BY <1>1, <1>2 DEF KillFirst

LEMMA DepthsType ==
  ASSUME NEW s \in Table, NEW p
  PROVE  Depths(s, p) \subseteq Slot
<1>1. InitDepth(p) \in {0, 1}
  BY ProcedureType DEF InitDepth
<1>2. InitDepth(p) <= s.size => InitDepth(p) \in Slot
  BY <1>1, CapacityIsNat DEF Table, Slot
<1> QED BY <1>2 DEF Depths

LEMMA CountIDType ==
  ASSUME NEW s \in Table
  PROVE  CountID(s) \in Table /\ CountID(s).size = s.size
  BY DEF CountID, Table

LEMMA GrowType ==
  ASSUME NEW s \in Table, s.size < Capacity
  PROVE  Grow(s) \in Table /\ Grow(s).size > 0
<1>1. s.size + 1 \in Slot /\ s.size + 1 > 0
  BY CapacityIsNat DEF Table, Slot
<1> QED BY <1>1 DEF Grow, Table

LEMMA StoreType ==
  ASSUME NEW s \in Table, NEW a \in Addr \cup {Null}, s.size > 0
  PROVE  Store(s, a) \in Table
<1>1. s.size - 1 \in Slot
  BY CapacityIsNat DEF Table, Slot
<1> QED BY <1>1 DEF Store, Table

(* Killing never lengthens the list.                                       *)
LEMMA KillFirstShrinks ==
  ASSUME NEW s \in Table, NEW A
  PROVE  KillFirst(s, A).size <= s.size
  BY CapacityIsNat DEF KillFirst, Unlisted, Erase, Delete, Forget, Halt, Table, Slot

LEMMA MakeRoomType ==
  ASSUME NEW s \in Table, NEW p \in Program
  PROVE  MakeRoom(s, p) \in Table /\ MakeRoom(s, p).size <= s.size
<1>1. s.size <= s.size
  BY CapacityIsNat DEF Table, Slot
<1> QED BY <1>1, KillFirstType, KillFirstShrinks DEF MakeRoom

LEMMA StartProcessType ==
  ASSUME NEW s \in Table, NEW p \in Program, NEW a, NEW d,
         \/ AlreadyRuns(s, p)
         \/ /\ a \in Addr /\ d \in Slot
            /\ MakeRoom(NewProcess(CountID(s), p, a), p).size < Capacity
  PROVE  StartProcess(s, p, a, d) \in Table
<1>1. CASE AlreadyRuns(s, p)
  BY <1>1, HaltType DEF StartProcess, Reason, Fault
<1>2. CASE ~ AlreadyRuns(s, p)
  <2> DEFINE t == NewProcess(CountID(s), p, a)
             u == MakeRoom(t, p)
             v == Store(Grow(u), a)
  <2>1. t \in Table /\ t.size = s.size
    BY <1>2, CountIDType, NewProcessType
  <2>2. u \in Table /\ u.size < Capacity
    BY <1>2, <2>1, MakeRoomType
  <2>3. v \in Table
    BY <1>2, <2>2, GrowType, StoreType
  <2>4. SetDepth(v, a, d) \in Table
    BY <1>2, <2>3, SetDepthType
  <2> QED BY <1>2, <2>4, Zenon DEF StartProcess
<1> QED BY <1>1, <1>2

LEMMA SetFocusedProcessType ==
  ASSUME NEW s \in Table, NEW a
  PROVE  SetFocusedProcess(s, a) \in Table
<1> DEFINE r == \/ s.redraw
                \/ s.proc[a].type = "WINDOWED"
                \/ s.focused # Null /\ s.proc[s.focused].type = "WINDOWED"
           t == [s EXCEPT !.focused = a, !.redraw = r]
<1>1. CASE a \notin s.live \/ s.focused \notin s.live \cup {Null}
  BY <1>1, HaltType DEF SetFocusedProcess, Reason, Fault
<1>2. CASE a \in s.live /\ s.focused \in s.live \cup {Null}
  <2>1. a \in Addr
    BY <1>2 DEF Table
  <2>2. t \in Table /\ t.size = s.size
    BY <2>1 DEF Table
  <2>3. s.size # 0 => s.size - 1 \in Slot
    BY CapacityIsNat DEF Table, Slot
  <2>4. s.size # 0 => SetDepth(t, a, s.size - 1) \in Table
    BY <2>1, <2>2, <2>3, SetDepthType
  <2> QED BY <1>2, <2>2, <2>4, Zenon DEF SetFocusedProcess
<1> QED BY <1>1, <1>2

LEMMA KillAtType ==
  ASSUME NEW s \in Table, NEW k \in Slot
  PROVE  KillAt(s, k) \in Table
<1>1. s.data[k] \in s.live => s.data[k] \in Addr
  BY DEF Table
<1> QED BY <1>1, KillStepTypes, HaltType DEF KillAt, Reason, Fault

LEMMA ClearType ==
  ASSUME NEW s \in Table
  PROVE  Clear(s) \in Table
<1>1. 0 \in Slot
  BY CapacityIsNat DEF Slot
<1>2. [k \in Slot |-> Null] \in [Slot -> Addr \cup {Null}]
  OBVIOUS
<1> QED BY <1>1, <1>2 DEF Clear, Table

-----------------------------------------------------------------------------
(***************************************************************************)
(* What an interrupt may leave behind is a table.                          *)
(***************************************************************************)
LEMMA RepliesType ==
  ASSUME NEW p, NEW playing
  PROVE  /\ TickReplies(p, playing) \subseteq Request
         /\ KeyReplies(p) \subseteq Request
         /\ MouseReplies(p) \subseteq Request
         /\ DrawReplies(p, playing) \subseteq Request
         /\ ClearReplies(p) \subseteq Request
         /\ KillReplies(p) \subseteq Request
<1>1. GuestRequests \subseteq Request /\ {"SUCCESS", "DRAW"} \subseteq Request
  BY ProgramsAssumption DEF Request
<1> QED
  BY <1>1, ProcedureType
  DEF TickReplies, KeyReplies, MouseReplies, DrawReplies, ClearReplies, KillReplies

LEMMA StartsType ==
  ASSUME NEW s \in Table, NEW q \in Program
  PROVE  Starts(s, q) \subseteq Table
<1>1. CASE AlreadyRuns(s, q)
  BY <1>1, StartProcessType DEF Starts
<1>2. CASE ~ AlreadyRuns(s, q)
  <2>1. ASSUME NEW x \in (Addr \ s.live) \X Depths(s, q), Room(s, q, x[1])
        PROVE  StartProcess(s, q, x[1], x[2]) \in Table
    <3> DEFINE u == MakeRoom(NewProcess(CountID(s), q, x[1]), q)
    <3>1. x[1] \in Addr /\ x[2] \in Slot
      BY DepthsType
    <3>2. u \in Table
      BY <3>1, CountIDType, NewProcessType, MakeRoomType
    <3>3. u.size < Capacity
      BY <2>1, <3>2, CapacityIsNat DEF Room, Spare, Table, Slot
    <3> QED BY <3>1, <3>3, StartProcessType
  <2> QED BY <1>2, <2>1 DEF Starts
<1> QED BY <1>1, <1>2

LEMMA KillsType ==
  ASSUME NEW s \in Table, NEW id
  PROVE  KillProcess(s, id) \in Table /\ Kills(s) \subseteq Table
  BY KillFirstType DEF KillProcess, Kills

LEMMA TogglesType ==
  ASSUME NEW s \in Table, NEW q \in Menus \cap Installed
  PROVE  Toggles(s, q) \subseteq Table
<1>1. ASSUME NEW t \in Table, NEW id \in Nat \cup {-1}
      PROVE  [t EXCEPT !.menu[q] = id] \in Table
  BY DEF Table
<1>2. StartedID(s, q) \in Nat
  BY DEF StartedID, Table
<1>3. Starts(s, q) \subseteq Table /\ KillProcess(s, s.menu[q]) \in Table
  BY StartsType, KillsType DEF Program
<1> QED BY <1>1, <1>2, <1>3 DEF Toggles

LEMMA EffectsType ==
  ASSUME NEW s \in Table, NEW a \in Addr
  PROVE  KeyEffects(s, a) \subseteq Table /\ MouseEffects(s, a) \subseteq Table
<1>1. Commands(s) \subseteq Table
  BY StartsType, KillsType DEF Commands
<1>2. UNION {Toggles(s, q) : q \in Menus \cap Installed} \subseteq Table
  BY TogglesType
<1>3. UNION {Starts(s, q) : q \in StartMenuEntries} \subseteq Table
  BY StartsType DEF StartMenuEntries, Program
<1>4. KeyEffects(s, a) \subseteq Table
  BY <1>1 DEF KeyEffects
<1>5. MouseEffects(s, a) \subseteq Table
  BY <1>2, <1>3 DEF MouseEffects
<1> QED BY <1>4, <1>5

(* Interrupt keeps the type and wakes the loop at an index in the array.   *)
LEMMA InterruptType ==
  ASSUME TypeOK, NEW s \in Table, Interrupt(s)
  PROVE  TypeOK'
<1>1. m' \in Main /\ IndexOK'
  <2>1. CASE m.pc = "hlt"
    <3>1. m' = [m EXCEPT !.pc = "for", !.i = 0] /\ m.ret # "answer"
      BY <2>1 DEF TypeOK, Interrupt, IndexOK, Calling
    <3>2. 0 \in Slot /\ "for" \in Labels
      BY CapacityIsNat DEF Slot, Labels
    <3>3. m' \in Main
      BY <3>1, <3>2 DEF TypeOK, Main
    <3> QED BY <3>1, <3>3 DEF IndexOK, Holding, TypeOK, Main
  <2>2. CASE m.pc # "hlt"
    BY <2>2 DEF TypeOK, Interrupt, IndexOK
  <2> QED BY <2>1, <2>2
<1>2. race' \subseteq {"write", "kill", "victim"}
  BY DEF TypeOK, Interrupt
<1> QED BY <1>1, <1>2 DEF TypeOK, Interrupt

LEMMA KeyBoardInteruptType == TypeOK /\ KeyBoardInterupt => TypeOK'
<1> SUFFICES ASSUME TypeOK, KeyBoardInterupt PROVE TypeOK'
  OBVIOUS
<1>1. CASE ph.focused \notin ph.live
  BY <1>1, HaltType, InterruptType DEF KeyBoardInterupt, TypeOK, Reason, Fault
<1>2. CASE ph.focused \in ph.live
  <2>1. ph \in Table /\ ph.focused \in Addr
    BY <1>2 DEF TypeOK, Table
  <2>2. PICK s \in KeyEffects(ph, ph.focused), r \in KeyReplies(ph.proc[ph.focused].prog) :
          Interrupt(Answered(s, ph.focused, r))
    BY <1>2 DEF KeyBoardInterupt
  <2>3. Answered(s, ph.focused, r) \in Table
    BY <2>1, EffectsType, RepliesType, AnsweredType
  <2> QED BY <2>2, <2>3, InterruptType
<1> QED BY <1>1, <1>2

LEMMA MouseInteruptType == TypeOK /\ MouseInterupt => TypeOK'
<1> SUFFICES ASSUME TypeOK, MouseInterupt PROVE TypeOK'
  OBVIOUS
<1>0. ph \in Table
  BY DEF TypeOK
<1>1. CASE DragWindow
  <2>1. \A held \in BOOLEAN : ph.moving \in ph.live =>
          [ph EXCEPT !.focused = IF held THEN @ ELSE ph.moving,
                     !.moving = IF held THEN @ ELSE Null,
                     !.redraw = TRUE] \in Table
    BY <1>0 DEF Table
  <2>2. Halt(ph, "MouseInterupt") \in Table
    BY <1>0, HaltType DEF Reason, Fault
  <2> QED BY <1>1, <2>1, <2>2, InterruptType DEF DragWindow
<1>2. CASE CloseWindow
  BY <1>0, <1>2, KillsType, InterruptType DEF CloseWindow
<1>3. ASSUME NEW k \in Slots(ph), Reaches(k)
      PROVE  ph.data[k] \in ph.live /\ ph.data[k] \in Addr
  <2>1. k \in k .. ph.size - 1
    BY <1>0, CapacityIsNat DEF Slots, Table, Slot
  <2> QED BY <1>0, <1>3, <2>1 DEF Reaches, Table
<1>4. CASE MinimizeWindow
  <2>1. PICK k \in Slots(ph) : /\ Reaches(k)
                               /\ Interrupt([Minimize(ph, ph.data[k]) EXCEPT !.redraw = TRUE])
    BY <1>4 DEF MinimizeWindow
  <2>2. Minimize(ph, ph.data[k]) \in Table
    BY <1>0, <1>3, <2>1, MinimizeType
  <2>3. [Minimize(ph, ph.data[k]) EXCEPT !.redraw = TRUE] \in Table
    BY <2>2 DEF Table
  <2> QED BY <2>1, <2>3, InterruptType
<1>5. CASE GrabWindow
  <2>1. PICK k \in Slots(ph) : /\ Reaches(k)
          /\ Interrupt(SetFocusedProcess([ph EXCEPT !.moving = ph.data[k]], ph.data[k]))
    BY <1>5 DEF GrabWindow
  <2>2. [ph EXCEPT !.moving = ph.data[k]] \in Table
    BY <1>0, <1>3, <2>1 DEF Table
  <2> QED BY <2>1, <2>2, SetFocusedProcessType, InterruptType
<1>6. CASE ClickWindow
  <2>0. PICK k \in Slots(ph), left \in BOOLEAN :
          /\ Reaches(k)
          /\ \E r \in MouseReplies(ph.proc[ph.data[k]].prog),
                s \in IF left THEN MouseEffects(ph, ph.data[k]) ELSE {ph} :
                  LET t == Answered(s, ph.data[k], r)
                  IN Interrupt(IF left THEN SetFocusedProcess(t, t.data[k]) ELSE t)
    BY <1>6 DEF ClickWindow
  <2>1. PICK r \in MouseReplies(ph.proc[ph.data[k]].prog),
             s \in IF left THEN MouseEffects(ph, ph.data[k]) ELSE {ph} :
             LET t == Answered(s, ph.data[k], r)
             IN Interrupt(IF left THEN SetFocusedProcess(t, t.data[k]) ELSE t)
    BY <2>0
  <2> DEFINE t == Answered(s, ph.data[k], r)
  <2>2. s \in Table
    BY <1>0, <1>3, <2>0, <2>1, EffectsType
  <2>3. t \in Table
    BY <1>3, <2>0, <2>1, <2>2, RepliesType, AnsweredType
  <2>4. SetFocusedProcess(t, t.data[k]) \in Table
    BY <2>3, SetFocusedProcessType
  <2> QED BY <2>1, <2>3, <2>4, InterruptType
<1>7. CASE PowerOff
  BY <1>0, <1>7, HaltType, InterruptType DEF PowerOff, Reason
<1>8. CASE ClickNothing
  BY <1>0, <1>8, HaltType, InterruptType DEF ClickNothing, Reason, Fault
<1> QED
  BY <1>1, <1>2, <1>4, <1>5, <1>6, <1>7, <1>8 DEF MouseInterupt

LEMMA PITInteruptType == TypeOK /\ PITInterupt => TypeOK'
<1> SUFFICES ASSUME TypeOK, PITInterupt PROVE TypeOK'
  OBVIOUS
<1>0. ph \in Table
  BY DEF TypeOK
<1>1. CASE ~ Intact(ph)
  BY <1>0, <1>1, HaltType, InterruptType DEF PITInterupt, Reason, Fault
<1>2. CASE Intact(ph)
  <2> DEFINE new(r) == [a \in Addr |-> IF a \in Listed(ph)
                                       THEN PushRequest(ph, a, r[a]).proc[a]
                                       ELSE ph.proc[a]]
             t(r) == [ph EXCEPT !.proc = new(r),
                                !.last = IF ph.size = 0 THEN @ ELSE Null]
  <2>1. PICK r \in [Listed(ph) -> Request] : Interrupt(t(r))
    BY <1>2 DEF PITInterupt
  <2>2. ASSUME NEW a \in Addr PROVE new(r)[a] \in Process
    <3>1. a \in Listed(ph) => PushRequest(ph, a, r[a]) \in Table
      BY <1>0, PushRequestType
    <3> QED BY <1>0, <3>1 DEF Table
  <2>3. new(r) \in [Addr -> Process]
    BY <2>2
  <2>4. t(r) \in Table
    BY <1>0, <2>3 DEF Table
  <2> QED BY <2>1, <2>4, InterruptType
<1> QED BY <1>1, <1>2

-----------------------------------------------------------------------------
(***************************************************************************)
(* The steps of the loop.  Each leaves a table and local variables of      *)
(* their types; the index stays in the array because only For goes on to   *)
(* a step that uses it, and ret is "answer" only inside the call that Act  *)
(* makes.                                                                  *)
(***************************************************************************)
LEMMA InitTypeOK == Init => TypeOK
<1> SUFFICES ASSUME Init PROVE TypeOK
  OBVIOUS
<1>1. 0 \in Slot
  BY CapacityIsNat DEF Slot
<1>2. ph \in Table
  BY <1>1, NoProcessType DEF Init, NoTable, Table, Reason
<1>3. m \in Main /\ "tty" \in Program
  BY <1>1, ProgramsAssumption DEF Init, Main, Labels, Request, Program
<1> QED BY <1>2, <1>3 DEF Init, TypeOK, IndexOK, Holding

LEMMA CallingType ==
  ASSUME TypeOK,
         Start \/ Check \/ IncrementID \/ Construct \/ PushGrow \/ PushStore
               \/ UpdateDepth \/ Focus
  PROVE  TypeOK'
<1>0. ph \in Table /\ m \in Main /\ race \subseteq {"write", "kill", "victim"} /\ IndexOK
  BY DEF TypeOK
<1>1. 0 \in Slot /\ "tty" \in Program
  BY CapacityIsNat, ProgramsAssumption DEF Slot, Program
<1>2. Calling \subseteq Labels /\ {"start", "for", "hlt", "answer", "focus"} \subseteq Labels
  BY DEF Calling, Labels
<1>3. ASSUME NEW l \in Calling, m.pc \in Calling
      PROVE  Goto(l) \in Main /\ (m' = Goto(l) => IndexOK')
  BY <1>0, <1>2, <1>3 DEF Goto, Main, IndexOK, Calling, Holding
<1>4. ASSUME m.pc \in Calling
      PROVE  Returned \in Main /\ (m' = Returned => IndexOK')
  BY <1>0, <1>1, <1>2, <1>4 DEF Returned, Main, IndexOK, Calling, Holding
<1>5. CASE Start
  BY <1>0, <1>1, <1>2, <1>5 DEF Start, StartTTY, TypeOK, Main, IndexOK, Calling, Holding, At
<1>6. CASE Check
  <2>1. m.pc \in Calling
    BY <1>6 DEF Check, At, Calling
  <2>2. ph' \in Table
    BY <1>0, <1>6, HaltType DEF Check, Reason, Fault
  <2>3. m' = Returned \/ m' = Goto("id")
    BY <1>6 DEF Check
  <2>4. race' = race
    BY <1>6 DEF Check
  <2> QED BY <1>0, <1>3, <1>4, <2>1, <2>2, <2>3, <2>4 DEF TypeOK, Calling
<1>7. CASE IncrementID
  <2>1. m.pc \in Calling /\ ph' = CountID(ph) /\ m' = Goto("construct") /\ race' = race
    BY <1>7 DEF IncrementID, At, Calling
  <2>2. ph' \in Table
    BY <1>0, <2>1, CountIDType
  <2> QED BY <1>0, <1>3, <2>1, <2>2 DEF TypeOK, Calling
<1>8. CASE Construct
  <2>1. PICK a \in Addr \ ph.live, d \in Depths(ph, m.prog) :
          /\ ph' = MakeRoom(NewProcess(ph, m.prog, a), m.prog)
          /\ m' = [m EXCEPT !.pc = "grow", !.fresh = a, !.d = d]
    BY <1>8 DEF Construct
  <2>2. m.prog \in Program /\ d \in Slot
    BY <1>0, <2>1, DepthsType DEF Main
  <2>3. ph' \in Table
    BY <1>0, <2>1, <2>2, NewProcessType, MakeRoomType
  <2>4. m' \in Main
    BY <1>0, <1>2, <2>1, <2>2 DEF Main, Calling
  <2>5. IndexOK'
    BY <1>0, <1>8, <2>1 DEF Construct, At, IndexOK, Calling, Holding, Main
  <2> QED BY <1>0, <1>8, <2>3, <2>4, <2>5 DEF TypeOK, Construct
<1>9. CASE PushGrow
  <2>1. m.pc \in Calling /\ ph' = Grow(ph) /\ ph.size < Capacity
        /\ m' = Goto("store") /\ race' = race
    BY <1>9 DEF PushGrow, At, Calling
  <2>2. ph' \in Table
    BY <1>0, <2>1, GrowType
  <2> QED BY <1>0, <1>3, <2>1, <2>2 DEF TypeOK, Calling
<1>10. CASE PushStore
  <2>1. /\ m.pc \in Calling /\ m' = Goto("depth") /\ race' = race
        /\ ph' = IF ph.size > 0 THEN Store(ph, m.fresh) ELSE Halt(ph, "Push")
    BY <1>10 DEF PushStore, At, Calling
  <2>2. m.fresh \in Addr \cup {Null}
    BY <1>0 DEF Main
  <2>3. ph' \in Table
    BY <1>0, <2>1, <2>2, StoreType, HaltType DEF Reason, Fault
  <2> QED BY <1>0, <1>3, <2>1, <2>3 DEF TypeOK, Calling
<1>11. CASE UpdateDepth
  <2>1. /\ m.pc \in Calling /\ m' = Returned /\ race' = race
        /\ ph' = IF m.fresh \in ph.live THEN SetDepth(ph, m.fresh, m.d)
                                        ELSE Halt(ph, "UpdateDepth")
    BY <1>11 DEF UpdateDepth, At, Calling
  <2>2. m.d \in Slot /\ (m.fresh \in ph.live => m.fresh \in Addr)
    BY <1>0 DEF Main, Table
  <2>3. ph' \in Table
    BY <1>0, <2>1, <2>2, SetDepthType, HaltType DEF Reason, Fault
  <2> QED BY <1>0, <1>4, <2>1, <2>3 DEF TypeOK
<1>12. CASE Focus
  <2>1. /\ m.pc = "focus" /\ race' = race
        /\ ph' = [ph EXCEPT !.focused = ph.data[0]]
        /\ m' = [m EXCEPT !.pc = m.ret, !.i = 0, !.ret = "for"]
    BY <1>12 DEF Focus, At
  <2>2. m.ret \in {"for", "hlt"}
    BY <1>0, <2>1 DEF IndexOK, Calling, Main
  <2>3. ph' \in Table
    BY <1>0, <1>1, <2>1 DEF Table
  <2>4. m' \in Main
    BY <1>0, <1>1, <1>2, <2>1, <2>2 DEF Main
  <2>5. IndexOK'
    BY <1>0, <2>1, <2>2 DEF IndexOK, Holding, Main
  <2> QED BY <1>0, <2>1, <2>3, <2>4, <2>5 DEF TypeOK
<1> QED BY <1>5, <1>6, <1>7, <1>8, <1>9, <1>10, <1>11, <1>12

(* The index may be advanced: it is in the array and ret is not "answer".  *)
LEMMA AdvanceType ==
  ASSUME TypeOK, m.pc \in Holding \ {"answer"}
  PROVE  /\ m.i + 1 \in Slot
         /\ Advance \in Main
         /\ m' = Advance => IndexOK'
<1>1. m \in Main /\ m.i < Capacity /\ m.ret # "answer"
  BY DEF TypeOK, IndexOK, Calling, Holding
<1>2. m.i + 1 \in Slot /\ "for" \in Labels /\ "SUCCESS" \in Request
  BY <1>1, CapacityIsNat DEF Main, Slot, Labels, Request
<1>3. Advance \in Main
  BY <1>1, <1>2 DEF Advance, Main
<1> QED BY <1>1, <1>2, <1>3 DEF Advance, IndexOK, Holding, Main

(* A call site that finds its pointer dangling stops the machine.          *)
LEMMA DanglingType ==
  ASSUME TypeOK, NEW l \in Reason, Dangling(l)
  PROVE  TypeOK'
<1>1. ph' \in Table
  BY HaltType DEF Dangling, TypeOK
<1> QED BY <1>1 DEF Dangling, TypeOK, IndexOK

LEMMA RequestsType ==
  ASSUME TypeOK, For \/ Pop \/ Act \/ Answer \/ Compose
  PROVE  TypeOK'
<1>0. ph \in Table /\ m \in Main /\ race \subseteq {"write", "kill", "victim"} /\ IndexOK
  BY DEF TypeOK
<1>1. 0 \in Slot /\ "tty" \in Program /\ "SUCCESS" \in Request
  BY CapacityIsNat, ProgramsAssumption DEF Slot, Program, Request
<1>2. CASE For
  <2>1. /\ m.pc = "for" /\ ph' = ph /\ race' = race /\ m.ret # "answer"
        /\ m' = IF m.i < ph.size THEN Goto("pop") ELSE [m EXCEPT !.pc = "update", !.i = 0]
    BY <1>0, <1>2 DEF For, At, IndexOK, Calling
  <2>2. m' \in Main
    BY <1>0, <1>1, <2>1 DEF Goto, Main, Labels
  <2>3. m.i < ph.size => m.i < Capacity
    BY <1>0, CapacityIsNat DEF Main, Table, Slot
  <2>4. IndexOK'
    BY <1>0, <2>1, <2>3 DEF Goto, Main, IndexOK, Holding
  <2> QED BY <1>0, <2>1, <2>2, <2>4 DEF TypeOK
<1>3. CASE Pop
  <2>1. CASE Dangling("pop")
    BY <2>1, DanglingType DEF Reason, Fault
  <2>2. CASE ~ Dangling("pop")
    <3>1. PICK a \in Addr : /\ ph' = PopRequest(ph, a)
                            /\ m' = Dispatch(PendingRequest(ph, a))
                            /\ race' = race /\ m.pc = "pop"
      BY <1>3, <2>2 DEF Pop, At
    <3> DEFINE r == PendingRequest(ph, a)
    <3>2. ph' \in Table /\ r \in Request
      BY <1>0, <3>1, PopRequestType
    <3>3. m.i < Capacity /\ m.ret # "answer"
      BY <1>0, <3>1 DEF IndexOK, Calling, Holding
    <3>4. CASE r = "SUCCESS"
      <4>1. m' = Advance
        BY <3>1, <3>4 DEF Dispatch
      <4> QED BY <1>0, <3>1, <3>2, <4>1, AdvanceType DEF TypeOK, Holding
    <3>5. CASE r # "SUCCESS"
      <4>1. m' \in {[m EXCEPT !.pc = "act", !.req = r], Goto("kill"),
                    [m EXCEPT !.pc = "killall", !.i = 0]}
        BY <3>1, <3>2, <3>5 DEF Dispatch, Request
      <4> HIDE DEF r
      <4>2. m' \in Main
        <5>1. [m EXCEPT !.pc = "act", !.req = r] \in Main
          BY <1>0, <3>2 DEF Main, Labels
        <5>2. Goto("kill") \in Main /\ [m EXCEPT !.pc = "killall", !.i = 0] \in Main
          BY <1>0, <1>1 DEF Goto, Main, Labels
        <5> QED BY <4>1, <5>1, <5>2
      <4>3. IndexOK'
        BY <1>0, <3>3, <4>1 DEF Goto, Main, IndexOK, Holding
      <4> QED BY <1>0, <3>1, <3>2, <4>2, <4>3 DEF TypeOK
    <3> QED BY <3>4, <3>5
  <2> QED BY <2>1, <2>2
<1>4. CASE Act
  <2>1. CASE Dangling("act")
    BY <2>1, DanglingType DEF Reason, Fault
  <2>2. CASE ~ Dangling("act")
    <3>1. PICK a \in Addr, next \in {"answer", "check"} :
            /\ Following(a)
            /\ next = "check" => "desktop" \in ph.anim /\ ph.proc[a].prog = "desktop"
            /\ ph' = [ph EXCEPT !.last = a]
            /\ m' = [m EXCEPT !.pc = next, !.cur = a, !.id = ph.proc[a].id,
                              !.prog = IF next = "check" THEN "topbar" ELSE @,
                              !.ret = IF next = "check" THEN "answer" ELSE @]
            /\ race' = race /\ m.pc = "act"
      BY <1>4, <2>2 DEF Act, At
    <3>2. ph' \in Table
      BY <1>0, <3>1 DEF Table
    <3>3. ph.proc[a].id \in Nat
      BY <1>0 DEF Table, Process
    <3>4. next = "check" => "topbar" \in Program
      <4>1. Guests \cap Shipped = {} /\ "desktop" \in Shipped
        BY ProgramsAssumption DEF Shipped
      <4>2. next = "check" => "desktop" \in Program
        BY <1>0, <3>1 DEF Table
      <4> QED BY <4>1, <4>2, ProgramsAssumption DEF Program
    <3>5. m' \in Main
      BY <1>0, <3>1, <3>3, <3>4 DEF Main, Labels
    <3>6. m.i < Capacity /\ m.ret # "answer"
      BY <1>0, <3>1 DEF IndexOK, Calling, Holding
    <3>7. IndexOK'
      BY <1>0, <3>1, <3>6 DEF Main, IndexOK, Calling, Holding
    <3> QED BY <1>0, <3>1, <3>2, <3>5, <3>7 DEF TypeOK
  <2> QED BY <2>1, <2>2
<1>5. CASE Answer
  <2>1. CASE m.cur \in ph.live /\ ph.proc[m.cur].id = m.id
    <3>1. /\ m' = [m EXCEPT !.pc = "compose", !.req = "SUCCESS", !.cur = Null,
                            !.id = 0, !.prog = "tty", !.ret = "for"]
          /\ race' = race /\ m.pc = "answer"
      BY <1>5, <2>1 DEF Answer, At
    <3>2. m.cur \in Addr
      BY <1>0, <2>1 DEF Table
    <3>3. ph' \in Table
      <4> DEFINE p == ph.proc[m.cur].prog
      <4>1. ASSUME m.req = "CLEAR",
                   NEW r \in ClearReplies(p), ph' = Answered(ph, m.cur, r)
            PROVE  ph' \in Table
        <5>1. r \in Request
          BY RepliesType
        <5> QED BY <1>0, <3>2, <4>1, <5>1, AnsweredType
      <4>2. ASSUME NEW ended \in BOOLEAN, NEW r \in DrawReplies(p, ended),
                   ph' = [Answered(ph, m.cur, r) EXCEPT
                            !.anim = IF ended THEN @ \ {p} ELSE @]
            PROVE  ph' \in Table
        <5>1. Answered(ph, m.cur, r) \in Table
          <6>1. r \in Request
            BY RepliesType
          <6> QED BY <1>0, <3>2, <6>1, AnsweredType
        <5> QED BY <4>2, <5>1 DEF Table
      <4> QED BY <1>5, <2>1, <4>1, <4>2 DEF Answer
    <3>4. m' \in Main
      BY <1>0, <1>1, <3>1 DEF Main, Labels
    <3>5. IndexOK'
      BY <1>0, <3>1 DEF Main, IndexOK, Holding
    <3> QED BY <1>0, <3>1, <3>3, <3>4, <3>5 DEF TypeOK
  <2>2. CASE ~ (m.cur \in ph.live /\ ph.proc[m.cur].id = m.id)
    <3>1. ph' = Halt(ph, "SendMessage") /\ m' = m /\ race' = race
      BY <1>5, <2>2 DEF Answer
    <3>2. ph' \in Table
      BY <1>0, <3>1, HaltType DEF Reason, Fault
    <3> QED BY <1>0, <3>1, <3>2 DEF TypeOK, IndexOK
  <2> QED BY <2>1, <2>2
<1>6. CASE Compose
  <2>1. CASE Dangling("compose")
    BY <2>1, DanglingType DEF Reason, Fault
  <2>2. CASE ~ Dangling("compose")
    <3>1. PICK overlap \in BOOLEAN : ph' = [ph EXCEPT !.redraw = @ \/ overlap]
      BY <1>6, <2>2 DEF Compose
    <3>2. m.pc = "compose" /\ m' = Advance /\ race' = race
      BY <1>6, <2>2 DEF Compose, At
    <3>3. ph' \in Table
      BY <1>0, <3>1 DEF Table
    <3> QED BY <1>0, <3>2, <3>3, AdvanceType DEF TypeOK, Holding
  <2> QED BY <2>1, <2>2
<1> QED BY <1>2, <1>3, <1>4, <1>5, <1>6

LEMMA KillingType ==
  ASSUME TypeOK, Kill \/ EraseSlot \/ KillAllProcesses
  PROVE  TypeOK'
<1>0. ph \in Table /\ m \in Main /\ race \subseteq {"write", "kill", "victim"} /\ IndexOK
  BY DEF TypeOK
<1>1. 0 \in Slot
  BY CapacityIsNat DEF Slot
<1>2. CASE Kill
  <2>1. CASE Dangling("kill")
    BY <2>1, DanglingType DEF Reason, Fault
  <2>2. CASE ~ Dangling("kill")
    <3>1. PICK k \in Slots(ph) :
            /\ ph' = IF ph.data[k] \in ph.live THEN ph ELSE Halt(ph, "KillProcess")
            /\ m' = [m EXCEPT !.pc = "unfocus", !.d = k]
            /\ race' = race
      BY <1>2, <2>2 DEF Kill
    <3>2. m.pc = "kill" /\ m.i < Capacity /\ m.ret # "answer"
      BY <1>0, <1>2 DEF Kill, At, IndexOK, Calling, Holding
    <3>3. k \in Slot
      BY <1>0, CapacityIsNat DEF Slots, Slot, Table
    <3>4. ph' \in Table
      BY <1>0, <3>1, HaltType DEF Reason, Fault
    <3>5. m' \in Main
      BY <1>0, <3>1, <3>3 DEF Main, Labels
    <3>6. IndexOK'
      BY <1>0, <3>1, <3>2 DEF Main, IndexOK
    <3> QED BY <1>0, <3>1, <3>4, <3>5, <3>6 DEF TypeOK
  <2> QED BY <2>1, <2>2
<1>3. CASE EraseSlot
  <2>1. /\ m.pc = "erase" /\ ph.size > 0 /\ ph' = Unlisted(ph, m.d)
        /\ m' = [m EXCEPT !.pc = "for", !.d = 0] /\ race' = race /\ m.ret # "answer"
    BY <1>0, <1>3 DEF EraseSlot, At, IndexOK, Calling
  <2>2. m.d \in Slot
    BY <1>0 DEF Main
  <2>3. ph' \in Table
    <3>1. ASSUME NEW a \in Addr PROVE Unlisted(ph, m.d) \in Table
      BY <1>0, <2>1, <2>2, KillStepTypes
    <3>2. ASSUME Addr = {} PROVE FALSE
      <4>1. Capacity = 0
        BY <3>2, FS_EmptySet DEF Capacity
      <4> QED BY <1>0, <2>1, <4>1 DEF Table, Slot
    <3> QED BY <2>1, <3>1, <3>2
  <2>4. m' \in Main
    BY <1>0, <1>1, <2>1 DEF Main, Labels
  <2>5. IndexOK'
    BY <1>0, <2>1 DEF Main, IndexOK, Holding
  <2> QED BY <1>0, <2>1, <2>3, <2>4, <2>5 DEF TypeOK
<1>4. CASE KillAllProcesses
  <2>1. m.pc = "killall" /\ m.ret # "answer" /\ race' = race
    BY <1>0, <1>4 DEF KillAllProcesses, At, IndexOK, Calling
  <2>2. CASE m.i < ph.size
    <3>1. ph' = KillAt(ph, m.i) /\ m' = [m EXCEPT !.i = @ + 1]
      BY <1>4, <2>2 DEF KillAllProcesses
    <3>2. m.i \in Slot /\ m.i + 1 \in Slot
      BY <1>0, <2>2, CapacityIsNat DEF Main, Table, Slot
    <3>3. ph' \in Table
      BY <1>0, <3>1, <3>2, KillAtType
    <3>4. m' \in Main /\ IndexOK'
      BY <1>0, <2>1, <3>1, <3>2 DEF Main, IndexOK, Holding
    <3> QED BY <1>0, <2>1, <3>3, <3>4 DEF TypeOK
  <2>3. CASE ~ (m.i < ph.size)
    <3>1. ph' = Clear(ph) /\ m' = [m EXCEPT !.pc = "start", !.i = 0]
      BY <1>4, <2>3 DEF KillAllProcesses
    <3>2. ph' \in Table
      BY <1>0, <3>1, ClearType
    <3>3. m' \in Main /\ IndexOK'
      BY <1>0, <1>1, <2>1, <3>1 DEF Main, Labels, IndexOK, Holding
    <3> QED BY <1>0, <2>1, <3>2, <3>3 DEF TypeOK
  <2> QED BY <2>2, <2>3
<1> QED BY <1>2, <1>3, <1>4

(* KillProcess of the loop, from the search to the delete.                 *)
LEMMA VictimType ==
  ASSUME TypeOK, ForgetFocused \/ ForgetLast \/ ForgetMoving \/ Tell \/ Told \/ DeleteVictim
  PROVE  TypeOK'
<1>0. /\ ph \in Table /\ m \in Main /\ race \subseteq {"write", "kill", "victim"} /\ IndexOK
      /\ Null \notin Addr /\ ph.live \subseteq Addr
  BY TableAssumption DEF TypeOK, Table
<1>1. /\ m.pc \in Killing /\ m.i < Capacity /\ m.ret # "answer" /\ race' = race
  BY <1>0
  DEF ForgetFocused, ForgetLast, ForgetMoving, Tell, Told, DeleteVictim, At, Killing, Holding,
      IndexOK, Calling
<1>2. ph' \in Table
  <2>1. CASE ForgetFocused
    BY <1>0, <2>1 DEF ForgetFocused, Table
  <2>2. CASE ForgetLast
    BY <1>0, <2>2 DEF ForgetLast, Table
  <2>3. CASE ForgetMoving
    BY <1>0, <2>3 DEF ForgetMoving, Table
  <2>4. CASE Tell
    <3>1. Halt(ph, "KillProcess") \in Table
      BY <1>0, HaltType DEF Reason, Fault
    <3>2. Victim \in ph.live => [ph EXCEPT !.last = Victim] \in Table
      BY <1>0 DEF Table
    <3> QED BY <2>4, <3>1, <3>2 DEF Tell
  <2>5. CASE Told
    <3>1. Halt(ph, "SendMessage") \in Table
      BY <1>0, HaltType DEF Reason, Fault
    <3>2. \A r \in KillReplies(ph.proc[m.cur].prog) :
            m.cur \in ph.live => Answered(ph, m.cur, r) \in Table
      BY <1>0, RepliesType, AnsweredType
    <3> QED BY <2>5, <3>1, <3>2 DEF Told
  <2>6. CASE DeleteVictim
    <3>1. Halt(ph, "KillProcess") \in Table
      BY <1>0, HaltType DEF Reason, Fault
    <3>2. Victim \in ph.live => Delete(ph, Victim) \in Table
      BY <1>0, KillStepTypes
    <3> QED BY <2>6, <3>1, <3>2 DEF DeleteVictim
  <2> QED BY <2>1, <2>2, <2>3, <2>4, <2>5, <2>6
<1>3. m' \in Main /\ m'.i = m.i /\ m'.ret = m.ret
  <2>1. CASE ForgetFocused \/ ForgetLast \/ ForgetMoving \/ DeleteVictim
    <3>1. m' = m \/ \E l \in {"unlast", "unmove", "tell", "erase"} : m' = Goto(l)
      BY <2>1 DEF ForgetFocused, ForgetLast, ForgetMoving, DeleteVictim
    <3> QED BY <1>0, <3>1 DEF Goto, Main, Labels
  <2>2. CASE Tell
    <3>1. m' = m \/ \E v \in ph.live : m' = [m EXCEPT !.pc = "told", !.cur = v,
                                                      !.id = ph.proc[v].id]
      BY <2>2 DEF Tell
    <3>2. \A v \in ph.live : v \in Addr /\ ph.proc[v].id \in Nat
      BY <1>0 DEF Table, Process
    <3>3. ASSUME NEW v \in Addr, NEW i \in Nat,
                 m' = [m EXCEPT !.pc = "told", !.cur = v, !.id = i]
          PROVE  m' \in Main /\ m'.i = m.i /\ m'.ret = m.ret
      BY <1>0, <3>3 DEF Main, Labels
    <3> QED BY <1>0, <3>1, <3>2, <3>3
  <2>3. CASE Told
    BY <1>0, <2>3 DEF Told, Main, Labels
  <2> QED BY <2>1, <2>2, <2>3
<1> QED BY <1>0, <1>1, <1>2, <1>3 DEF TypeOK, IndexOK

LEMMA PaintingType ==
  ASSUME TypeOK, Update \/ PaintFor \/ Paint \/ Unflag \/ Empty
  PROVE  TypeOK'
<1>0. ph \in Table /\ m \in Main /\ race \subseteq {"write", "kill", "victim"} /\ IndexOK
  BY DEF TypeOK
<1>1. 0 \in Slot /\ "tty" \in Program
  BY CapacityIsNat, ProgramsAssumption DEF Slot, Program
<1>2. ASSUME NEW l \in Labels \ Holding, m.ret # "answer"
      PROVE  Goto(l) \in Main /\ (m' = Goto(l) => IndexOK')
  BY <1>0, <1>2 DEF Goto, Main, IndexOK
<1>3. CASE Update
  <2>1. /\ m.ret # "answer" /\ ph' = ph /\ race' = race
        /\ m' = Goto(IF ph.redraw THEN "paintfor" ELSE "empty")
    BY <1>0, <1>3 DEF Update, At, IndexOK, Calling
  <2> QED BY <1>0, <1>2, <2>1 DEF TypeOK, Labels, Holding
<1>4. CASE PaintFor
  <2>1. /\ m.ret # "answer" /\ ph' = ph /\ race' = race
        /\ m' = IF m.i < ph.size THEN Goto("paint") ELSE [m EXCEPT !.pc = "unflag", !.i = 0]
    BY <1>0, <1>4 DEF PaintFor, At, IndexOK, Calling
  <2>2. m' \in Main
    BY <1>0, <1>1, <2>1 DEF Goto, Main, Labels
  <2>3. m.i < ph.size => m.i < Capacity
    BY <1>0, CapacityIsNat DEF Main, Table, Slot
  <2>4. IndexOK'
    BY <1>0, <2>1, <2>3 DEF Goto, Main, IndexOK, Holding
  <2> QED BY <1>0, <2>1, <2>2, <2>4 DEF TypeOK
<1>5. CASE Paint
  <2>1. CASE Dangling("paint")
    BY <2>1, DanglingType DEF Reason, Fault
  <2>2. CASE ~ Dangling("paint")
    <3>1. /\ m' = [m EXCEPT !.pc = "paintfor", !.i = @ + 1]
          /\ ph' = ph /\ race' = race /\ m.pc = "paint"
      BY <1>5, <2>2 DEF Paint, At
    <3>2. m.i + 1 \in Slot /\ m.ret # "answer"
      <4>1. m.pc \in Holding \ {"answer"}
        BY <3>1 DEF Holding
      <4> QED BY <1>0, <3>1, <4>1, AdvanceType DEF IndexOK, Calling
    <3>3. m' \in Main
      BY <1>0, <3>1, <3>2 DEF Main, Labels
    <3>4. IndexOK'
      BY <1>0, <3>1, <3>2 DEF Main, IndexOK, Holding
    <3> QED BY <1>0, <3>1, <3>3, <3>4 DEF TypeOK
  <2> QED BY <2>1, <2>2
<1>6. CASE Unflag
  <2>1. /\ m.ret # "answer" /\ ph' = [ph EXCEPT !.redraw = FALSE] /\ race' = race
        /\ m' = Goto("empty")
    BY <1>0, <1>6 DEF Unflag, At, IndexOK, Calling
  <2>2. ph' \in Table
    BY <1>0, <2>1 DEF Table
  <2> QED BY <1>0, <1>2, <2>1, <2>2 DEF TypeOK, Labels, Holding
<1>7. CASE Empty
  <2>1. /\ m.ret # "answer" /\ ph' = ph /\ race' = race
        /\ m' = IF ph.size = 0 THEN StartTTY("hlt") ELSE Goto("hlt")
    BY <1>0, <1>7 DEF Empty, At, IndexOK, Calling
  <2>2. m' = StartTTY("hlt") => m' \in Main /\ IndexOK'
    BY <1>0, <1>1, <2>1 DEF StartTTY, Main, Labels, IndexOK, Holding
  <2> QED BY <1>0, <1>2, <2>1, <2>2 DEF TypeOK, Labels, Holding
<1> QED BY <1>3, <1>4, <1>5, <1>6, <1>7

(***************************************************************************)
(* The types of ProcessHandler.h and Process.h are kept by the loop and by *)
(* every interrupt, and Loop never indexes Processes outside of its array, *)
(* whatever an interrupt does between two of its steps.                    *)
(***************************************************************************)
THEOREM TypeCorrect == Spec => []TypeOK
<1>1. Init => TypeOK
  BY InitTypeOK
<1>2. TypeOK /\ [Next]_vars => TypeOK'
  <2> SUFFICES ASSUME TypeOK, [Next]_vars PROVE TypeOK'
    OBVIOUS
  <2>1. CASE Loop
    BY <2>1, CallingType, RequestsType, KillingType, VictimType, PaintingType DEF Loop
  <2>2. CASE KeyBoardInterupt
    BY <2>2, KeyBoardInteruptType
  <2>3. CASE MouseInterupt
    BY <2>3, MouseInteruptType
  <2>4. CASE PITInterupt
    BY <2>4, PITInteruptType
  <2>5. CASE UNCHANGED vars
    BY <2>5 DEF vars, TypeOK, IndexOK
  <2> QED BY <2>1, <2>2, <2>3, <2>4, <2>5 DEF Next
<1> QED BY <1>1, <1>2, PTL DEF Spec
-----------------------------------------------------------------------------

(***************************************************************************)
(* What is true of the table whenever the list is in order.                *)
(***************************************************************************)
Distinct(s) == \A j, k \in Slots(s) : s.data[j] = s.data[k] => j = k
Bottom(s)   == \A k \in Slots(s) : s.proc[s.data[k]].type = "FULLSCREEN" => k = 0

(* Programs and IDs are those of one process each, no ID is given that was *)
(* not counted, and the topbar's IDs are its menus' or nobody's.           *)
Unique(s)  == \A a, b \in s.live : \/ s.proc[a].prog = s.proc[b].prog
                                   \/ s.proc[a].id = s.proc[b].id
                                   => a = b
Counted(s) == /\ \A a \in s.live : s.proc[a].id > 0 /\ s.proc[a].id <= s.newID
              /\ \A q \in Menus : s.menu[q] <= s.newID
Owned(s)   == \A q \in Menus, a \in s.live : s.proc[a].id = s.menu[q] => s.proc[a].prog = q
Known(s)   == Unique(s) /\ Counted(s) /\ Owned(s)

(* The list is that of the live processes but those of E.                  *)
Lists(s, E) == /\ Distinct(s)
               /\ s.live = Listed(s) \cup E
               /\ E \cap Listed(s) = {}
Sound(s)    == Lists(s, {}) /\ Known(s) /\ Bottom(s)

(* The two pointers to a process.                                          *)
LastLive(s)    == s.last \in s.live \cup {Null}
FocusedLive(s) == s.focused \in s.live \cup {Null}

(* The next ID is free, and so is the program p.                           *)
Vacant(s, p) == /\ s.newID > 0
                /\ \A a \in s.live : s.proc[a].id < s.newID /\ s.proc[a].prog # p
                /\ \A q \in Menus : s.menu[q] < s.newID

-----------------------------------------------------------------------------
(***************************************************************************)
(* Steps that leave the list alone.                                        *)
(***************************************************************************)
(* t has the processes of s, and menus of s or none.                       *)
Similar(s, t) == /\ t.live = s.live /\ t.newID = s.newID /\ t.size = s.size
                 /\ \A q \in Menus : t.menu[q] \in {s.menu[q], -1, 0}
                 /\ \A a \in Addr : /\ t.proc[a].id = s.proc[a].id
                                    /\ t.proc[a].prog = s.proc[a].prog
                                    /\ t.proc[a].type = "FULLSCREEN"
                                         <=> s.proc[a].type = "FULLSCREEN"
Alike(s, t)   == t.data = s.data /\ Similar(s, t)

(* The pointers name live processes as much as before.                     *)
Pointed(s, t) == /\ LastLive(s) => LastLive(t)
                 /\ FocusedLive(s) => FocusedLive(t)

(* What any interrupt does to the shared state.                            *)
Effect(s, t) == /\ t \in Table
                /\ Pointed(s, t)
                /\ Sound(s) => Sound(t)
                /\ t.live = s.live \/ s.live = {} => Similar(s, t)
                /\ (t.live = s.live /\ t.data = s.data) \/ s.live = {} => Alike(s, t)

LEMMA TableParts ==
  ASSUME NEW s \in Table
  PROVE  /\ s.data \in [Slot -> Addr \cup {Null}]
         /\ s.size \in Nat /\ s.size \in Slot /\ s.size <= Capacity
         /\ Slots(s) \subseteq Slot /\ Slots(s) \subseteq Nat
         /\ \A k \in Slots(s) : k < s.size
         /\ Slot \subseteq Nat
         /\ s.live \subseteq Addr /\ Null \notin s.live
         /\ s.proc \in [Addr -> Process]
         /\ \A a \in Addr : s.proc[a].id \in Nat
         /\ s.newID \in Nat
         /\ s.menu \in [Menus -> Nat \cup {-1}]
  BY CapacityIsNat, TableAssumption DEF Table, Slot, Slots, Process

LEMMA SimilarKnown ==
  ASSUME NEW s \in Table, NEW t \in Table, Similar(s, t), Known(s)
  PROVE  Known(t)
<1>1. Unique(t)
  BY TableParts DEF Similar, Known, Unique
<1>2. Counted(t)
  BY TableParts DEF Similar, Known, Counted
<1>3. Owned(t)
  BY TableParts DEF Similar, Known, Owned, Counted
<1> QED BY <1>1, <1>2, <1>3 DEF Known

LEMMA AlikeLists ==
  ASSUME NEW s, NEW t, NEW E, Alike(s, t), Lists(s, E)
  PROVE  Lists(t, E)
  BY DEF Alike, Similar, Lists, Distinct, Listed, Slots

LEMMA AlikeBottom ==
  ASSUME NEW s, NEW t, Alike(s, t), Listed(s) \subseteq Addr, Bottom(s)
  PROVE  Bottom(t)
  BY DEF Alike, Similar, Bottom, Listed, Slots

LEMMA AlikeSound ==
  ASSUME NEW s \in Table, NEW t \in Table, Alike(s, t), Sound(s)
  PROVE  Sound(t)
<1>1. Listed(s) \subseteq Addr
  BY TableParts DEF Sound, Lists
<1> QED BY <1>1, SimilarKnown, AlikeLists, AlikeBottom DEF Sound, Alike

LEMMA AlikeTransitive ==
  ASSUME NEW s, NEW t, NEW u
  PROVE  /\ Similar(s, t) /\ Similar(t, u) => Similar(s, u)
         /\ Alike(s, t) /\ Alike(t, u) => Alike(s, u)
         /\ Pointed(s, t) /\ Pointed(t, u) => Pointed(s, u)
<1>1. Similar(s, t) /\ Similar(t, u) => Similar(s, u)
  BY DEF Similar
<1> QED BY <1>1 DEF Alike, Pointed

LEMMA AlikeEffect ==
  ASSUME NEW s \in Table, NEW t \in Table, Alike(s, t), Pointed(s, t)
  PROVE  Effect(s, t)
  BY AlikeSound DEF Effect, Alike

(* An effect, and then a step that leaves the list alone.                  *)
LEMMA EffectThenAlike ==
  ASSUME NEW s \in Table, NEW t, NEW u \in Table,
         Effect(s, t), Alike(t, u), Pointed(t, u)
  PROVE  Effect(s, u)
<1>1. Sound(t) => Sound(u)
  BY AlikeSound DEF Effect
<1>2. u.live = t.live /\ u.data = t.data
  BY DEF Alike, Similar
<1> QED BY <1>1, <1>2, AlikeTransitive DEF Effect, Alike

LEMMA ReflexiveAlike == \A s : Alike(s, s) /\ Pointed(s, s)
  BY DEF Alike, Similar, Pointed

LEMMA HaltAlike ==
  ASSUME NEW s \in Table, NEW why
  PROVE  Alike(s, Halt(s, why)) /\ Pointed(s, Halt(s, why))
  BY DEF Halt, Alike, Similar, Pointed, LastLive, FocusedLive, Table

LEMMA PushRequestAlike ==
  ASSUME NEW s \in Table, NEW a \in Addr, NEW r
  PROVE  /\ Alike(s, PushRequest(s, a, r))
         /\ PushRequest(s, a, r).last = s.last
         /\ PushRequest(s, a, r).focused = s.focused
<1>1. s.proc \in [Addr -> Process] /\ s.proc[a] \in Process
  BY DEF Table
<1>2. ASSUME NEW q PROVE /\ Alike(s, [s EXCEPT !.proc[a].reqs = q])
                         /\ [s EXCEPT !.proc[a].reqs = q].last = s.last
                         /\ [s EXCEPT !.proc[a].reqs = q].focused = s.focused
  BY <1>1 DEF Alike, Similar, Table, Process
<1> QED BY <1>2, ReflexiveAlike DEF PushRequest

LEMMA PopRequestAlike ==
  ASSUME NEW s \in Table, NEW a \in Addr
  PROVE  Alike(s, PopRequest(s, a)) /\ Pointed(s, PopRequest(s, a))
<1>1. s.proc \in [Addr -> Process] /\ s.proc[a] \in Process
  BY DEF Table
<1>2. ASSUME NEW q PROVE /\ Alike(s, [s EXCEPT !.proc[a].reqs = q])
                         /\ Pointed(s, [s EXCEPT !.proc[a].reqs = q])
  BY <1>1 DEF Alike, Similar, Pointed, LastLive, FocusedLive, Table, Process
<1> QED BY <1>2, ReflexiveAlike DEF PopRequest

LEMMA AnsweredAlike ==
  ASSUME NEW s \in Table, NEW a \in Addr, NEW r \in Request
  PROVE  Alike(s, Answered(s, a, r)) /\ Pointed(s, Answered(s, a, r))
<1> DEFINE t == IF a \in s.live THEN PushRequest(s, a, r) ELSE s
<1>1. t \in Table /\ Alike(s, t) /\ t.focused = s.focused
  BY PushRequestType, PushRequestAlike, ReflexiveAlike
<1> HIDE DEF t
<1>2. /\ Alike(t, [t EXCEPT !.last = Null])
      /\ LastLive([t EXCEPT !.last = Null])
      /\ FocusedLive(t) => FocusedLive([t EXCEPT !.last = Null])
  BY <1>1 DEF Alike, Similar, LastLive, FocusedLive, Table
<1>3. FocusedLive(s) => FocusedLive(t)
  BY <1>1 DEF FocusedLive, Alike, Similar
<1>4. Answered(s, a, r) = [t EXCEPT !.last = Null]
  BY DEF Answered, t
<1> QED BY <1>1, <1>2, <1>3, <1>4, AlikeTransitive DEF Pointed

LEMMA MinimizeAlike ==
  ASSUME NEW s \in Table, NEW a \in Addr
  PROVE  /\ Alike(s, [Minimize(s, a) EXCEPT !.redraw = TRUE])
         /\ Pointed(s, [Minimize(s, a) EXCEPT !.redraw = TRUE])
<1>1. s.proc \in [Addr -> Process] /\ s.proc[a] \in Process
  BY DEF Table
<1>2. ASSUME NEW y, y = "FULLSCREEN" <=> s.proc[a].type = "FULLSCREEN"
      PROVE  /\ Alike(s, [[s EXCEPT !.proc[a].type = y] EXCEPT !.redraw = TRUE])
             /\ Pointed(s, [[s EXCEPT !.proc[a].type = y] EXCEPT !.redraw = TRUE])
  BY <1>1, <1>2 DEF Alike, Similar, Pointed, LastLive, FocusedLive, Table, Process
<1> QED BY <1>2 DEF Minimize

-----------------------------------------------------------------------------
(***************************************************************************)
(* Killing: the list loses a slot, and the live processes the one in it.   *)
(***************************************************************************)
Killed(s, k) == Delete(Forget(s, s.data[k]), s.data[k])

LEMMA KilledParts ==
  ASSUME NEW s \in Table, NEW k \in Slots(s), s.data[k] \in s.live
  PROVE  LET t == Killed(s, k) IN
         /\ t \in Table
         /\ t.data = s.data /\ t.size = s.size /\ t.newID = s.newID /\ t.menu = s.menu
         /\ t.live = s.live \ {s.data[k]}
         /\ \A a \in t.live : t.proc[a] = s.proc[a]
         /\ Pointed(s, t)
<1> DEFINE x == s.data[k]
<1>1. x \in Addr
  BY TableParts
<1>2. Killed(s, k) \in Table
  <2>1. Forget(s, x) \in Table
    BY <1>1, KillStepTypes
  <2> QED BY <1>1, <2>1, KillStepTypes DEF Killed
<1>3. LET t == Killed(s, k) IN
      /\ t.data = s.data /\ t.size = s.size /\ t.newID = s.newID /\ t.menu = s.menu
      /\ t.live = s.live \ {s.data[k]}
      /\ t.proc = [s.proc EXCEPT ![x] = NoProcess]
      /\ t.last = Null
      /\ t.focused = IF s.focused = x THEN Null ELSE s.focused
  BY DEF Killed, Delete, Forget, Table
<1>4. \A a \in Killed(s, k).live : Killed(s, k).proc[a] = s.proc[a]
  BY <1>1, <1>3, TableParts
<1>5. Pointed(s, Killed(s, k))
  BY <1>3 DEF Pointed, LastLive, FocusedLive
<1> QED BY <1>2, <1>3, <1>4, <1>5

LEMMA UnlistedParts ==
  ASSUME NEW s \in Table, NEW k \in Slot, s.size > 0
  PROVE  LET t == Unlisted(s, k) IN
         /\ t \in Table
         /\ t.size = s.size - 1
         /\ t.live = s.live /\ t.proc = s.proc /\ t.newID = s.newID /\ t.menu = s.menu
         /\ t.last = s.last /\ t.focused = s.focused
         /\ \A j \in Slots(t) : t.data[j] = IF j >= k THEN s.data[j + 1] ELSE s.data[j]
<1>1. Unlisted(s, k) \in Table
  <2>1. ASSUME NEW a \in Addr PROVE Unlisted(s, k) \in Table
    BY KillStepTypes
  <2>2. Addr # {}
    <3>1. Addr = {} => Capacity = 0
      BY FS_EmptySet DEF Capacity
    <3> QED BY <3>1, TableParts
  <2> QED BY <2>1, <2>2
<1>2. LET t == Unlisted(s, k) IN
      /\ t.size = s.size - 1
      /\ t.live = s.live /\ t.proc = s.proc /\ t.newID = s.newID /\ t.menu = s.menu
      /\ t.last = s.last /\ t.focused = s.focused
      /\ t.data = [j \in Slot |-> IF j >= k /\ j < s.size - 1
                                  THEN s.data[j + 1] ELSE s.data[j]]
  BY DEF Unlisted, Erase, Table
<1>3. Slots(Unlisted(s, k)) \subseteq Slot
  BY <1>1, TableParts
<1>4. \A j \in Slots(Unlisted(s, k)) : j < s.size - 1
  BY <1>1, <1>2, TableParts
<1> QED BY <1>1, <1>2, <1>3, <1>4

(* Taking the killed process out leaves the list in order.                 *)
LEMMA UnlistedLists ==
  ASSUME NEW s \in Table, NEW E, NEW k \in Slots(s), s.data[k] \in s.live, Lists(s, E)
  PROVE  LET t == Unlisted(Killed(s, k), k) IN
         /\ Lists(t, E)
         /\ \A j \in Slots(t) : \E i \in Slots(s) : t.data[j] = s.data[i] /\ i >= j /\ i # k
<1> DEFINE u == Killed(s, k)
           t == Unlisted(u, k)
           x == s.data[k]
<1>1. /\ u \in Table /\ u.size = s.size /\ u.data = s.data /\ u.live = s.live \ {x}
      /\ k \in Slot /\ u.size > 0
  BY KilledParts, TableParts
<1>2. /\ t.size = s.size - 1 /\ t.live = s.live \ {x}
      /\ \A j \in Slots(t) : t.data[j] = IF j >= k THEN s.data[j + 1] ELSE s.data[j]
  BY <1>1, UnlistedParts
<1> HIDE DEF t, u
<1>3. /\ s.size \in Nat /\ k \in Nat /\ k < s.size
      /\ Slots(t) = 0 .. s.size - 2 /\ Slots(s) = 0 .. s.size - 1
  BY <1>2, TableParts DEF Slots
<1>4. \A j \in Slots(t) : \E i \in Slots(s) : t.data[j] = s.data[i] /\ i >= j /\ i # k
  <2> TAKE j \in Slots(t)
  <2> DEFINE i == IF j >= k THEN j + 1 ELSE j
  <2>1. i \in Slots(s) /\ i >= j /\ i # k
    BY <1>3
  <2> QED BY <1>2, <2>1
<1>5. Distinct(t)
  <2> SUFFICES ASSUME NEW j \in Slots(t), NEW h \in Slots(t), t.data[j] = t.data[h]
               PROVE  j = h
    BY DEF Distinct
  <2> DEFINE f(n) == IF n >= k THEN n + 1 ELSE n
  <2>1. f(j) \in Slots(s) /\ f(h) \in Slots(s) /\ s.data[f(j)] = s.data[f(h)]
    BY <1>2, <1>3
  <2>2. f(j) = f(h)
    BY <2>1 DEF Lists, Distinct
  <2> QED BY <1>3, <2>2
<1>6. Listed(t) = Listed(s) \ {x}
  <2>1. Listed(t) \subseteq Listed(s) \ {x}
    BY <1>4 DEF Listed, Lists, Distinct
  <2>2. ASSUME NEW a \in Listed(s), a # x PROVE a \in Listed(t)
    <3>1. PICK i \in Slots(s) : a = s.data[i] /\ i # k
      BY <2>2 DEF Listed
    <3> DEFINE j == IF i > k THEN i - 1 ELSE i
    <3>2. j \in Slots(t) /\ t.data[j] = s.data[i]
      BY <1>2, <1>3, <3>1
    <3> QED BY <3>1, <3>2 DEF Listed
  <2> QED BY <2>1, <2>2
<1>7. t.live = Listed(t) \cup E /\ E \cap Listed(t) = {}
  <2>1. x \in Listed(s)
    BY DEF Listed
  <2> QED BY <1>2, <1>6, <2>1 DEF Lists
<1> QED BY <1>4, <1>5, <1>7 DEF Lists, t, u

LEMMA FewerKnown ==
  ASSUME NEW s, NEW t, Known(s), t.live \subseteq s.live,
         t.newID = s.newID, t.menu = s.menu,
         \A a \in t.live : t.proc[a] = s.proc[a]
  PROVE  Known(t)
  BY DEF Known, Unique, Counted, Owned

LEMMA UnlistedBottom ==
  ASSUME NEW s \in Table, NEW E, NEW k \in Slots(s), s.data[k] \in s.live,
         Lists(s, E), Bottom(s)
  PROVE  Bottom(Unlisted(Killed(s, k), k))
<1> DEFINE u == Killed(s, k)
           t == Unlisted(u, k)
<1>1. /\ k \in Slot /\ u \in Table /\ u.size > 0
      /\ \A a \in u.live : u.proc[a] = s.proc[a]
  BY KilledParts, TableParts
<1>2. t \in Table /\ t.live = u.live /\ t.proc = u.proc
  BY <1>1, UnlistedParts
<1>3. /\ Lists(t, E)
      /\ \A j \in Slots(t) : \E i \in Slots(s) : t.data[j] = s.data[i] /\ i >= j
  BY UnlistedLists
<1> HIDE DEF t, u
<1> SUFFICES ASSUME NEW j \in Slots(t), t.proc[t.data[j]].type = "FULLSCREEN" PROVE j = 0
  BY DEF Bottom, t, u
<1>4. PICK i \in Slots(s) : t.data[j] = s.data[i] /\ i >= j
  BY <1>3
<1>5. t.data[j] \in t.live
  BY <1>3 DEF Lists, Listed
<1>6. i = 0
  BY <1>1, <1>2, <1>4, <1>5 DEF Bottom
<1>7. j \in Nat /\ i \in Nat
  BY <1>2, TableParts
<1> QED BY <1>4, <1>6, <1>7

(* KillFirst: no trace, a halt, or the kill of one listed process.         *)
LEMMA KillFirstCases ==
  ASSUME NEW s \in Table, NEW A
  PROVE  LET t == KillFirst(s, A) IN
         \/ Hits(s, A) = {} /\ t = s
         \/ Hits(s, A) # {} /\ t = Halt(s, "KillProcess")
         \/ \E k \in Hits(s, A) : s.data[k] \in s.live /\ t = Unlisted(Killed(s, k), k)
<1>1. Hits(s, A) \in SUBSET Nat
  BY TableParts DEF Hits
<1>2. Hits(s, A) # {} => First(Hits(s, A)) \in Hits(s, A)
  BY <1>1, FirstIsLeast
<1> QED BY <1>2 DEF KillFirst, Killed

LEMMA KillFirstEffect ==
  ASSUME NEW s \in Table, NEW A
  PROVE  Effect(s, KillFirst(s, A))
<1> DEFINE t == KillFirst(s, A)
<1>0. t \in Table
  BY KillFirstType
<1>1. CASE t = s
  BY <1>0, <1>1, AlikeEffect, ReflexiveAlike
<1>2. CASE t = Halt(s, "KillProcess")
  BY <1>0, <1>2, AlikeEffect, HaltAlike
<1>3. ASSUME NEW k \in Hits(s, A), s.data[k] \in s.live, t = Unlisted(Killed(s, k), k)
      PROVE  Effect(s, t)
  <2> DEFINE u == Killed(s, k)
  <2>1. k \in Slots(s) /\ k \in Slot /\ s.size > 0
    BY TableParts DEF Hits
  <2>2. /\ u \in Table /\ u.size = s.size /\ u.newID = s.newID /\ u.menu = s.menu
        /\ u.live = s.live \ {s.data[k]}
        /\ \A a \in u.live : u.proc[a] = s.proc[a]
        /\ Pointed(s, u)
    BY <1>3, <2>1, KilledParts
  <2>3. /\ t.live = u.live /\ t.proc = u.proc /\ t.newID = u.newID /\ t.menu = u.menu
        /\ t.last = u.last /\ t.focused = u.focused
    BY <1>3, <2>1, <2>2, UnlistedParts
  <2>4. Pointed(s, t)
    BY <2>2, <2>3 DEF Pointed, LastLive, FocusedLive
  <2>5. Sound(s) => Sound(t)
    <3>1. Sound(s) => Lists(t, {}) /\ Bottom(t)
      BY <1>3, <2>1, UnlistedLists, UnlistedBottom DEF Sound
    <3>2. Sound(s) => Known(t)
      BY <2>2, <2>3, FewerKnown DEF Sound
    <3> QED BY <3>1, <3>2 DEF Sound
  <2>6. t.live # s.live /\ s.live # {}
    BY <1>3, <2>2, <2>3
  <2> QED BY <1>0, <2>4, <2>5, <2>6 DEF Effect
<1> QED BY <1>1, <1>2, <1>3, KillFirstCases

-----------------------------------------------------------------------------
(***************************************************************************)
(* SetDepth: two slots change places.                                      *)
(***************************************************************************)
LEMMA SetDepthParts ==
  ASSUME NEW s \in Table, NEW a \in Listed(s), a \in Addr, NEW d \in Slots(s)
  PROVE  \E k \in Slots(s) :
           LET t == SetDepth(s, a, d) IN
           /\ s.data[k] = a
           /\ t \in Table /\ Similar(s, t) /\ t.proc = s.proc /\ Slots(t) = Slots(s)
           /\ t.last = s.last /\ t.focused = s.focused /\ t.menu = s.menu
           /\ \A j \in Slots(s) : t.data[j] = IF j = d THEN a
                                              ELSE IF j = k THEN s.data[d] ELSE s.data[j]
<1> DEFINE S == {j \in Slots(s) : s.data[j] = a}
           k == First(S)
           t == SetDepth(s, a, d)
<1>1. k \in Slots(s) /\ s.data[k] = a
  <2>1. S # {} /\ S \in SUBSET Nat
    BY TableParts DEF Listed
  <2>2. k \in S
    BY <2>1, FirstIsLeast
  <2> QED BY <2>2
<1> HIDE DEF k
<1>2. d \in Slot /\ d <= s.size /\ k \in Slot
  BY <1>1, TableParts
<1>3. t = [s EXCEPT !.data = [s.data EXCEPT ![k] = s.data[d], ![d] = a]]
  BY <1>2, TableParts DEF SetDepth, k
<1>4. t \in Table
  BY <1>2, SetDepthType
<1> HIDE DEF t
<1>5. /\ t.live = s.live /\ t.newID = s.newID /\ t.size = s.size
      /\ t.menu = s.menu /\ t.proc = s.proc
      /\ t.last = s.last /\ t.focused = s.focused
      /\ t.data = [s.data EXCEPT ![k] = s.data[d], ![d] = a]
  BY <1>3 DEF Table
<1>6. Similar(s, t) /\ Slots(t) = Slots(s)
  BY <1>5 DEF Similar, Slots
<1>7. \A j \in Slots(s) : t.data[j] = IF j = d THEN a
                                      ELSE IF j = k THEN s.data[d] ELSE s.data[j]
  BY <1>2, <1>5, TableParts
<1> QED BY <1>1, <1>4, <1>5, <1>6, <1>7 DEF t

LEMMA SetDepthLists ==
  ASSUME NEW s \in Table, NEW E, Lists(s, E), NEW a \in Listed(s), a \in Addr,
         NEW d \in Slots(s)
  PROVE  Lists(SetDepth(s, a, d), E)
<1> DEFINE t == SetDepth(s, a, d)
<1>1. PICK k \in Slots(s) :
        /\ s.data[k] = a /\ Slots(t) = Slots(s) /\ t.live = s.live
        /\ \A j \in Slots(s) : t.data[j] = IF j = d THEN a
                                           ELSE IF j = k THEN s.data[d] ELSE s.data[j]
  BY SetDepthParts DEF Similar
<1> HIDE DEF t
<1>2. Distinct(t)
  BY <1>1 DEF Lists, Distinct
<1>3. Listed(t) = Listed(s)
  <2>1. Listed(t) \subseteq Listed(s)
    BY <1>1 DEF Listed
  <2>2. ASSUME NEW i \in Slots(s) PROVE s.data[i] \in Listed(t)
    <3> DEFINE j == IF i = d THEN k ELSE IF i = k THEN d ELSE i
    <3>1. j \in Slots(t) /\ t.data[j] = s.data[i]
      BY <1>1
    <3> QED BY <3>1 DEF Listed
  <2> QED BY <2>1, <2>2 DEF Listed
<1> QED BY <1>1, <1>2, <1>3 DEF Lists, t

(* A process that is not FULLSCREEN goes to any depth but 0, or is alone.  *)
LEMMA SetDepthBottom ==
  ASSUME NEW s \in Table, Distinct(s), Bottom(s), NEW a \in Listed(s), a \in Addr,
         s.proc[a].type # "FULLSCREEN", NEW d \in Slots(s), d > 0 \/ s.size = 1
  PROVE  Bottom(SetDepth(s, a, d))
<1> DEFINE t == SetDepth(s, a, d)
<1>1. PICK k \in Slots(s) :
        /\ s.data[k] = a /\ Slots(t) = Slots(s) /\ t.proc = s.proc
        /\ \A j \in Slots(s) : t.data[j] = IF j = d THEN a
                                           ELSE IF j = k THEN s.data[d] ELSE s.data[j]
  BY SetDepthParts
<1> HIDE DEF t
<1> SUFFICES ASSUME NEW j \in Slots(s), t.proc[t.data[j]].type = "FULLSCREEN" PROVE j = 0
  BY <1>1 DEF Bottom, t
<1>2. j # d
  BY <1>1
<1>3. CASE j = k
  <2>1. d = 0
    BY <1>1, <1>2, <1>3 DEF Bottom
  <2> QED BY <1>3, <2>1, TableParts DEF Slots
<1>4. CASE j # k
  BY <1>1, <1>2, <1>4 DEF Bottom
<1> QED BY <1>3, <1>4

(* The one FULLSCREEN process goes to depth 0.                             *)
LEMMA SetDepthToBottom ==
  ASSUME NEW s \in Table, Distinct(s), NEW a \in Listed(s), a \in Addr,
         \A j \in Slots(s) : s.proc[s.data[j]].type = "FULLSCREEN" => s.data[j] = a,
         0 \in Slots(s)
  PROVE  Bottom(SetDepth(s, a, 0))
<1> DEFINE t == SetDepth(s, a, 0)
<1>1. PICK k \in Slots(s) :
        /\ s.data[k] = a /\ Slots(t) = Slots(s) /\ t.proc = s.proc
        /\ \A j \in Slots(s) : t.data[j] = IF j = 0 THEN a
                                           ELSE IF j = k THEN s.data[0] ELSE s.data[j]
  BY SetDepthParts
<1> HIDE DEF t
<1> SUFFICES ASSUME NEW j \in Slots(s), t.proc[t.data[j]].type = "FULLSCREEN", j # 0
             PROVE  FALSE
  BY <1>1 DEF Bottom, t
<1>2. CASE j = k
  BY <1>1, <1>2 DEF Distinct
<1>3. CASE j # k
  BY <1>1, <1>3 DEF Distinct
<1> QED BY <1>2, <1>3

LEMMA SetFocusedProcessEffect ==
  ASSUME NEW s \in Table, NEW a
  PROVE  Effect(s, SetFocusedProcess(s, a)) /\ Similar(s, SetFocusedProcess(s, a))
<1> DEFINE r == \/ s.redraw
                \/ s.proc[a].type = "WINDOWED"
                \/ s.focused # Null /\ s.proc[s.focused].type = "WINDOWED"
           t == [s EXCEPT !.focused = a, !.redraw = r]
           u == SetFocusedProcess(s, a)
<1>1. CASE a \notin s.live \/ s.focused \notin s.live \cup {Null}
  <2>1. u = Halt(s, "SetFocusedProcess")
    BY <1>1 DEF SetFocusedProcess
  <2> QED BY <2>1, AlikeEffect, HaltAlike, SetFocusedProcessType DEF Alike
<1>2. CASE a \in s.live /\ s.focused \in s.live \cup {Null}
  <2>1. a \in Addr /\ u \in Table
    BY <1>2, SetFocusedProcessType, TableParts
  <2>2. t \in Table /\ Alike(s, t) /\ Pointed(s, t) /\ t.size = s.size /\ t.proc = s.proc
    BY <1>2, <2>1 DEF Alike, Similar, Pointed, LastLive, FocusedLive, Table
  <2>3. Effect(s, t)
    BY <2>2, AlikeEffect
  <2>4. \/ u = t
        \/ /\ u = SetDepth(t, a, t.size - 1)
           /\ s.size # 0 /\ s.proc[a].type # "FULLSCREEN"
    BY <1>2, <2>2, Zenon DEF SetFocusedProcess
  <2> HIDE DEF t, u
  <2>5. CASE u = t \/ a \notin Listed(t)
    <3>1. u = t
      BY <2>4, <2>5 DEF SetDepth
    <3> QED BY <2>2, <2>3, <3>1 DEF Alike, u
  <2>6. CASE u # t /\ a \in Listed(t)
    <3> DEFINE d == t.size - 1
    <3>0. t.size \in Nat /\ t.size # 0
      BY <2>2, <2>4, <2>6, TableParts, Zenon
    <3>1. d \in Slots(t) /\ (d > 0 \/ t.size = 1)
      BY <3>0 DEF Slots
    <3>2. Similar(t, u) /\ u.last = t.last /\ u.focused = t.focused
      BY <2>1, <2>2, <2>4, <2>6, <3>1, SetDepthParts
    <3>3. Similar(s, u) /\ Pointed(s, u)
      BY <2>2, <3>2, AlikeTransitive DEF Alike, Pointed, LastLive, FocusedLive, Similar
    <3>4. ASSUME Sound(s) PROVE Sound(u)
      <4>1. Sound(t)
        BY <2>3, <3>4 DEF Effect
      <4>2. Lists(t, {}) /\ Distinct(t) /\ Bottom(t) /\ t.proc[a].type # "FULLSCREEN"
        BY <2>2, <2>4, <2>6, <4>1 DEF Sound, Lists
      <4>3. u = SetDepth(t, a, d)
        BY <2>4, <2>6
      <4>4. Lists(u, {})
        BY <2>1, <2>2, <2>6, <3>1, <4>2, <4>3, SetDepthLists
      <4>5. Bottom(u)
        BY <2>1, <2>2, <2>6, <3>1, <4>2, <4>3, SetDepthBottom
      <4>6. Known(u)
        BY <2>1, <2>2, <3>2, <4>1, SimilarKnown DEF Sound
      <4> QED BY <4>4, <4>5, <4>6 DEF Sound
    <3>5. ASSUME s.live = {} PROVE FALSE
      BY <1>2, <3>5
    <3> QED BY <2>1, <3>3, <3>4, <3>5 DEF Effect, Alike, u
  <2> QED BY <2>5, <2>6
<1> QED BY <1>1, <1>2

-----------------------------------------------------------------------------
(***************************************************************************)
(* Starting: the constructor, Push and SetDepth.                           *)
(***************************************************************************)
LEMMA DepthOfType ==
  ASSUME NEW p
  PROVE  InitDepth(p) = IF InitType(p) = "FULLSCREEN" THEN 0 ELSE 1
  BY DEF InitDepth, InitType, Procedure, Tty, Desktop, Topbar, SystemMenu, StartMenu,
         Terminal, Calculator, Tetris, Guest, Quiet

LEMMA NewProcessParts ==
  ASSUME NEW s \in Table, NEW p \in Program, NEW a \in Addr
  PROVE  LET t == NewProcess(s, p, a) IN
         /\ t \in Table
         /\ t.data = s.data /\ t.size = s.size /\ t.newID = s.newID
         /\ t.live = s.live \cup {a}
         /\ t.proc[a].id = s.newID /\ t.proc[a].prog = p /\ t.proc[a].type = InitType(p)
         /\ \A b \in Addr \ {a} : t.proc[b] = s.proc[b]
         /\ \A q \in Menus : t.menu[q] \in {s.menu[q], -1}
         /\ Pointed(s, t)
<1> DEFINE x == [id |-> s.newID, prog |-> p, type |-> InitType(p),
                 reqs |-> IF RequestCapacity = 0 THEN <<>> ELSE <<"DRAW">>]
           t == NewProcess(s, p, a)
<1>1. /\ t.data = s.data /\ t.size = s.size /\ t.newID = s.newID
      /\ t.live = s.live \cup {a} /\ t.proc = [s.proc EXCEPT ![a] = x]
      /\ t.last = Null /\ t.focused = s.focused
      /\ t.menu = IF p = "topbar" THEN [s.menu EXCEPT !["systemmenu"] = -1] ELSE s.menu
  BY DEF NewProcess, Table
<1>2. t \in Table
  BY NewProcessType
<1> HIDE DEF t
<1>3. Pointed(s, t)
  BY <1>1 DEF Pointed, LastLive, FocusedLive
<1>4. \A q \in Menus : t.menu[q] \in {s.menu[q], -1}
  BY <1>1, TableParts
<1>5. /\ t.proc[a].id = s.newID /\ t.proc[a].prog = p /\ t.proc[a].type = InitType(p)
      /\ \A b \in Addr \ {a} : t.proc[b] = s.proc[b]
  BY <1>1, TableParts
<1> QED BY <1>1, <1>2, <1>3, <1>4, <1>5 DEF t

LEMMA NewProcessKnown ==
  ASSUME NEW s \in Table, NEW p \in Program, NEW a \in Addr \ s.live,
         Known(s), Vacant(s, p)
  PROVE  Known(NewProcess(s, p, a))
<1> DEFINE t == NewProcess(s, p, a)
<1>1. /\ t \in Table /\ t.newID = s.newID /\ t.live = s.live \cup {a}
      /\ t.proc[a].id = s.newID /\ t.proc[a].prog = p
      /\ \A b \in s.live : t.proc[b] = s.proc[b]
      /\ \A q \in Menus : t.menu[q] \in {s.menu[q], -1}
  BY NewProcessParts, TableParts
<1>2. /\ s.newID \in Nat /\ \A b \in s.live : s.proc[b].id \in Nat
      /\ \A q \in Menus : s.menu[q] \in Nat \cup {-1}
  BY TableParts
<1> HIDE DEF t
<1>3. Unique(t)
  BY <1>1, <1>2 DEF Unique, Known, Vacant
<1>4. Counted(t)
  BY <1>1, <1>2 DEF Counted, Known, Vacant
<1>5. Owned(t)
  BY <1>1, <1>2 DEF Owned, Counted, Known, Vacant
<1> QED BY <1>3, <1>4, <1>5 DEF Known, t

LEMMA NewProcessLists ==
  ASSUME NEW s \in Table, NEW p \in Program, NEW a \in Addr \ s.live,
         Lists(s, {}), Bottom(s)
  PROVE  /\ Lists(NewProcess(s, p, a), {a})
         /\ Bottom(NewProcess(s, p, a))
<1> DEFINE t == NewProcess(s, p, a)
<1>1. /\ t.data = s.data /\ t.size = s.size /\ t.live = s.live \cup {a}
      /\ \A b \in Addr \ {a} : t.proc[b] = s.proc[b]
  BY NewProcessParts
<1>2. Slots(t) = Slots(s) /\ Listed(t) = Listed(s) /\ Listed(s) \subseteq Addr \ {a}
  BY <1>1, TableParts DEF Lists, Listed, Slots
<1> HIDE DEF t
<1>3. Lists(t, {a})
  BY <1>1, <1>2 DEF Lists, Distinct
<1>4. Bottom(t)
  BY <1>1, <1>2 DEF Bottom, Listed
<1> QED BY <1>3, <1>4 DEF t

LEMMA CountIDParts ==
  ASSUME NEW s \in Table, NEW p, Known(s), \A a \in s.live : s.proc[a].prog # p
  PROVE  Known(CountID(s)) /\ Vacant(CountID(s), p)
<1>1. LET t == CountID(s) IN
      t.newID = s.newID + 1 /\ t.live = s.live /\ t.proc = s.proc /\ t.menu = s.menu
  BY DEF CountID, Table
<1>2. /\ s.newID \in Nat /\ \A b \in s.live : s.proc[b].id \in Nat
      /\ \A q \in Menus : s.menu[q] \in Nat \cup {-1}
  BY TableParts
<1> QED BY <1>1, <1>2 DEF Known, Unique, Counted, Owned, Vacant

LEMMA CountIDLists ==
  ASSUME NEW s \in Table
  PROVE  LET t == CountID(s) IN
         /\ t \in Table /\ t.live = s.live /\ t.proc = s.proc /\ t.size = s.size
         /\ t.data = s.data /\ t.newID = s.newID + 1 /\ t.menu = s.menu
         /\ \A E : Lists(s, E) => Lists(t, E)
         /\ Bottom(s) => Bottom(t)
         /\ Pointed(s, t)
<1>1. LET t == CountID(s) IN
         /\ t \in Table /\ t.live = s.live /\ t.proc = s.proc /\ t.size = s.size
         /\ t.data = s.data /\ t.newID = s.newID + 1 /\ t.menu = s.menu
         /\ t.last = s.last /\ t.focused = s.focused
  BY CountIDType DEF CountID, Table
<1> QED BY <1>1 DEF Lists, Distinct, Listed, Slots, Bottom, Pointed, LastLive, FocusedLive

LEMMA PushParts ==
  ASSUME NEW s \in Table, s.size < Capacity, NEW a \in Addr
  PROVE  LET t == Store(Grow(s), a) IN
         /\ t \in Table /\ Grow(s) \in Table /\ Grow(s).size = s.size + 1
         /\ t.size = s.size + 1 /\ t.newID = s.newID /\ t.menu = s.menu
         /\ t.live = s.live /\ t.proc = s.proc
         /\ t.last = s.last /\ t.focused = s.focused
         /\ \A j \in Slots(t) : t.data[j] = IF j = s.size THEN a ELSE s.data[j]
         /\ s.size \in Slots(t)
<1> DEFINE u == Grow(s)
           t == Store(u, a)
<1>1. u \in Table /\ u = [s EXCEPT !.size = s.size + 1]
  BY GrowType DEF Grow
<1>2. /\ u.size = s.size + 1 /\ u.size > 0 /\ u.data = s.data /\ u.newID = s.newID
      /\ u.menu = s.menu /\ u.live = s.live /\ u.proc = s.proc
      /\ u.last = s.last /\ u.focused = s.focused
  BY <1>1, TableParts DEF Table
<1> HIDE DEF u
<1>3. t \in Table /\ t = [u EXCEPT !.data = [u.data EXCEPT ![s.size] = a]]
  <2>1. u.size - 1 = s.size
    BY <1>2, TableParts
  <2>2. t = [u EXCEPT !.data = [u.data EXCEPT ![u.size - 1] = a]]
    BY DEF Store
  <2> QED BY <1>1, <1>2, <2>1, <2>2, StoreType
<1>4. /\ t.size = u.size /\ t.newID = u.newID
      /\ t.menu = u.menu /\ t.live = u.live /\ t.proc = u.proc
      /\ t.last = u.last /\ t.focused = u.focused
      /\ t.data = [u.data EXCEPT ![s.size] = a]
  BY <1>1, <1>3 DEF Table
<1> HIDE DEF t
<1>5. s.size \in Slots(t) /\ s.size \in Slot
  BY <1>2, <1>4, TableParts DEF Slots
<1>6. \A j \in Slots(t) : t.data[j] = IF j = s.size THEN a ELSE s.data[j]
  BY <1>2, <1>3, <1>4, <1>5, TableParts
<1> QED BY <1>1, <1>2, <1>3, <1>4, <1>5, <1>6 DEF t, u

LEMMA PushLists ==
  ASSUME NEW s \in Table, s.size < Capacity, NEW a \in Addr, Lists(s, {a})
  PROVE  Lists(Store(Grow(s), a), {}) /\ a \in Listed(Store(Grow(s), a))
<1> DEFINE t == Store(Grow(s), a)
<1>1. /\ t \in Table /\ t.size = s.size + 1 /\ t.live = s.live
      /\ \A j \in Slots(t) : t.data[j] = IF j = s.size THEN a ELSE s.data[j]
      /\ s.size \in Slots(t)
  BY PushParts
<1> HIDE DEF t
<1>2. Slots(t) = Slots(s) \cup {s.size} /\ s.size \notin Slots(s)
  BY <1>1, TableParts DEF Slots
<1>3. Listed(t) = Listed(s) \cup {a}
  BY <1>1, <1>2 DEF Listed
<1>4. Distinct(t)
  <2> SUFFICES ASSUME NEW j \in Slots(t), NEW k \in Slots(t), t.data[j] = t.data[k]
               PROVE  j = k
    BY DEF Distinct
  <2>1. \A i \in Slots(s) : s.data[i] # a
    BY DEF Lists, Listed
  <2> QED BY <1>1, <1>2, <2>1 DEF Lists, Distinct
<1> QED BY <1>1, <1>3, <1>4 DEF Lists, t

LEMMA PushBottom ==
  ASSUME NEW s \in Table, s.size < Capacity, NEW a \in Addr, Bottom(s),
         s.size = 0 \/ s.proc[a].type # "FULLSCREEN"
  PROVE  Bottom(Store(Grow(s), a))
<1> DEFINE t == Store(Grow(s), a)
<1>1. /\ t \in Table /\ t.size = s.size + 1 /\ t.proc = s.proc
      /\ \A j \in Slots(t) : t.data[j] = IF j = s.size THEN a ELSE s.data[j]
  BY PushParts
<1> HIDE DEF t
<1>2. Slots(t) = Slots(s) \cup {s.size}
  BY <1>1, TableParts DEF Slots
<1>3. Bottom(t)
  BY <1>1, <1>2 DEF Bottom
<1> QED BY <1>3 DEF t

(* A FULLSCREEN program finds no other one in the list.                    *)
LEMMA RoomMade ==
  ASSUME NEW s \in Table, NEW p, NEW a \in Addr,
         Lists(s, {a}), Known(s), Bottom(s), InitType(p) = "FULLSCREEN"
  PROVE  LET t == MakeRoom(s, p) IN
         /\ t \in Table /\ Lists(t, {a}) /\ Known(t)
         /\ \A j \in Slots(t) : t.proc[t.data[j]].type # "FULLSCREEN"
         /\ t.newID = s.newID /\ t.proc[a] = s.proc[a] /\ t.menu = s.menu
<1> DEFINE A == {b \in Fullscreen(s) : b \in Listed(s)}
           t == KillFirst(s, A)
<1>1. \A k \in Slots(s) : s.data[k] \in s.live /\ s.data[k] # a
  BY DEF Lists, Listed
<1>2. Hits(s, A) = {k \in Slots(s) : s.proc[s.data[k]].type = "FULLSCREEN"}
  BY <1>1 DEF Hits, Fullscreen, Listed
<1>3. CASE Hits(s, A) = {}
  <2>1. t = s
    BY <1>3, KillFirstCases
  <2> QED BY <1>2, <1>3, <2>1 DEF MakeRoom
<1>4. ASSUME NEW k \in Hits(s, A), t = Unlisted(Killed(s, k), k)
      PROVE  /\ t \in Table /\ Lists(t, {a}) /\ Known(t)
             /\ \A j \in Slots(t) : t.proc[t.data[j]].type # "FULLSCREEN"
             /\ t.newID = s.newID /\ t.proc[a] = s.proc[a] /\ t.menu = s.menu
  <2> DEFINE u == Killed(s, k)
  <2>1. k \in Slots(s) /\ s.data[k] \in s.live /\ k \in Slot /\ s.size > 0 /\ k = 0
    BY <1>1, <1>2, TableParts DEF Bottom
  <2>2. /\ u \in Table /\ u.size = s.size /\ u.newID = s.newID /\ u.menu = s.menu
        /\ u.live = s.live \ {s.data[k]}
        /\ \A b \in u.live : u.proc[b] = s.proc[b]
    BY <2>1, KilledParts
  <2>3. /\ t \in Table /\ t.live = u.live /\ t.proc = u.proc
        /\ t.newID = u.newID /\ t.menu = u.menu
    BY <1>4, <2>1, <2>2, UnlistedParts
  <2>4. /\ Lists(t, {a})
        /\ \A j \in Slots(t) : \E i \in Slots(s) : t.data[j] = s.data[i] /\ i >= j /\ i # k
    BY <1>4, <2>1, UnlistedLists
  <2>5. Known(t)
    BY <2>2, <2>3, FewerKnown
  <2>6. \A j \in Slots(t) : t.proc[t.data[j]].type # "FULLSCREEN"
    <3> TAKE j \in Slots(t)
    <3>1. PICK i \in Slots(s) : t.data[j] = s.data[i] /\ i # k
      BY <2>4
    <3>2. t.data[j] \in u.live
      BY <2>3, <2>4 DEF Lists, Listed
    <3> QED BY <2>1, <2>2, <2>3, <3>1, <3>2 DEF Bottom
  <2>7. a \in u.live
    BY <1>1, <2>1, <2>2 DEF Lists
  <2> QED BY <2>2, <2>3, <2>4, <2>5, <2>6, <2>7
<1>5. \/ Hits(s, A) = {}
      \/ \E k \in Hits(s, A) : t = Unlisted(Killed(s, k), k)
  <2>1. \A k \in Hits(s, A) : s.data[k] \in s.live
    BY <1>1 DEF Hits
  <2>2. Hits(s, A) # {} => First(Hits(s, A)) \in Hits(s, A)
    BY TableParts, FirstIsLeast DEF Hits
  <2> QED BY <2>1, <2>2 DEF KillFirst, Killed
<1> QED BY <1>3, <1>4, <1>5 DEF MakeRoom

LEMMA SetDepthSame ==
  ASSUME NEW s \in Table, NEW a \in Addr, NEW d \in Slot
  PROVE  LET t == SetDepth(s, a, d) IN
         /\ t \in Table /\ t.live = s.live /\ t.proc = s.proc /\ t.newID = s.newID
         /\ t.size = s.size /\ t.menu = s.menu /\ Pointed(s, t)
<1>1. SetDepth(s, a, d) \in Table
  BY SetDepthType
<1>2. ASSUME NEW f
      PROVE  LET t == [s EXCEPT !.data = f] IN
             /\ t.live = s.live /\ t.proc = s.proc /\ t.newID = s.newID
             /\ t.size = s.size /\ t.menu = s.menu /\ Pointed(s, t)
  BY DEF Table, Pointed, LastLive, FocusedLive
<1> QED BY <1>1, <1>2, ReflexiveAlike DEF SetDepth

LEMMA NotRunning ==
  ASSUME NEW s, NEW p, ~ AlreadyRuns(s, p)
  PROVE  /\ Listed(s) \subseteq s.live
         /\ \A a \in Listed(s) : s.proc[a].prog # p
  BY DEF AlreadyRuns, Hits, Listed, Running

(* The new process is alive, whatever was killed for it.                   *)
LEMMA StartedLives ==
  ASSUME NEW s \in Table, NEW p \in Program, NEW a \in Addr \ s.live, NEW d \in Slot,
         ~ AlreadyRuns(s, p),
         MakeRoom(NewProcess(CountID(s), p, a), p).size < Capacity
  PROVE  a \in StartProcess(s, p, a, d).live /\ Pointed(s, StartProcess(s, p, a, d))
<1> DEFINE c == CountID(s)
           u == NewProcess(c, p, a)
           w == MakeRoom(u, p)
           v == Store(Grow(w), a)
           t == SetDepth(v, a, d)
<1>1. c \in Table /\ c.live = s.live /\ c.data = s.data /\ c.size = s.size /\ Pointed(s, c)
  BY CountIDLists
<1> HIDE DEF c
<1>2. /\ u \in Table /\ u.live = c.live \cup {a} /\ u.data = c.data /\ u.size = c.size
      /\ Pointed(c, u)
  BY <1>1, NewProcessParts
<1> HIDE DEF u
<1>3. Slots(u) = Slots(s) /\ \A k \in Slots(u) : u.data[k] # a
  BY <1>1, <1>2, NotRunning DEF Listed, Slots
<1>4. w \in Table /\ a \in w.live /\ Pointed(u, w)
  <2> DEFINE A == {b \in Fullscreen(u) : b \in Listed(u)}
             x == KillFirst(u, A)
  <2>1. x \in Table /\ Pointed(u, x)
    BY <1>2, KillFirstEffect DEF Effect
  <2>2. Halt(u, "KillProcess").live = u.live
    BY <1>2 DEF Halt, Table
  <2>3. ASSUME NEW k \in Hits(u, A), u.data[k] \in u.live, x = Unlisted(Killed(u, k), k)
        PROVE  a \in x.live
    <3>1. k \in Slots(u) /\ k \in Slot /\ u.size > 0
      BY <1>2, TableParts DEF Hits
    <3> DEFINE z == Killed(u, k)
    <3>2. z \in Table /\ z.size > 0 /\ z.live = u.live \ {u.data[k]}
      BY <1>2, <2>3, <3>1, KilledParts
    <3> HIDE DEF z
    <3>3. Unlisted(z, k).live = z.live
      BY <3>1, <3>2, UnlistedParts
    <3>4. x.live = u.live \ {u.data[k]}
      BY <2>3, <3>2, <3>3 DEF z
    <3> QED BY <1>2, <1>3, <3>1, <3>4
  <2>4. a \in x.live
    BY <1>2, <2>2, <2>3, KillFirstCases
  <2>5. w = x \/ w = u
    BY DEF MakeRoom
  <2> QED BY <1>2, <2>1, <2>4, <2>5, ReflexiveAlike
<1>5. w.size < Capacity
  BY DEF u, c
<1> HIDE DEF w
<1>6. v \in Table /\ v.live = w.live /\ Pointed(w, v)
  BY <1>4, <1>5, PushParts DEF Pointed, LastLive, FocusedLive
<1> HIDE DEF v
<1>7. t.live = v.live /\ Pointed(v, t)
  BY <1>6, SetDepthSame
<1> HIDE DEF t
<1>8. Pointed(s, t) /\ a \in t.live
  BY <1>1, <1>2, <1>4, <1>6, <1>7 DEF Pointed
<1>9. StartProcess(s, p, a, d) = t
  BY DEF StartProcess, t, v, w, u, c
<1> QED BY <1>8, <1>9

(* A start from a list in order leaves one in order, with the new process  *)
(* under the ID that was counted.                                          *)
LEMMA StartedSound ==
  ASSUME NEW s \in Table, NEW p \in Program, NEW a \in Addr \ s.live,
         NEW d \in Depths(s, p), ~ AlreadyRuns(s, p), Sound(s), s.size > 0,
         MakeRoom(NewProcess(CountID(s), p, a), p).size < Capacity
  PROVE  LET t == StartProcess(s, p, a, d) IN
         /\ t \in Table /\ Sound(t)
         /\ t.newID = s.newID + 1 /\ t.proc[a].id = t.newID /\ t.proc[a].prog = p
         /\ a \in t.live
<1> DEFINE c == CountID(s)
           u == NewProcess(c, p, a)
           w == MakeRoom(u, p)
           v == Store(Grow(w), a)
           t == SetDepth(v, a, d)
<1>0. d = InitDepth(p)
  BY DepthOfType, TableParts DEF Depths
<1>1. /\ c \in Table /\ c.live = s.live /\ c.size = s.size /\ c.newID = s.newID + 1
      /\ Lists(c, {}) /\ Bottom(c) /\ Known(c) /\ Vacant(c, p)
  <2>1. \A b \in s.live : s.proc[b].prog # p
    BY NotRunning DEF Sound, Lists
  <2> QED BY <2>1, CountIDLists, CountIDParts DEF Sound
<1> HIDE DEF c
<1>2. /\ u \in Table /\ u.size = c.size /\ u.newID = c.newID
      /\ u.proc[a].id = c.newID /\ u.proc[a].prog = p /\ u.proc[a].type = InitType(p)
      /\ Lists(u, {a}) /\ Bottom(u) /\ Known(u)
  <2>1. a \in Addr \ c.live
    BY <1>1
  <2>2. Known(u)
    BY <1>1, <2>1, NewProcessKnown
  <2>3. Lists(u, {a}) /\ Bottom(u)
    BY <1>1, <2>1, NewProcessLists
  <2> HIDE DEF u
  <2>4. /\ u \in Table /\ u.size = c.size /\ u.newID = c.newID
        /\ u.proc[a].id = c.newID /\ u.proc[a].prog = p /\ u.proc[a].type = InitType(p)
    BY <1>1, NewProcessParts DEF u
  <2> QED BY <2>2, <2>3, <2>4
<1> HIDE DEF u
<1>3. /\ w \in Table /\ w.newID = u.newID /\ w.proc[a] = u.proc[a]
      /\ Lists(w, {a}) /\ Known(w)
      /\ IF InitType(p) = "FULLSCREEN"
         THEN \A j \in Slots(w) : w.proc[w.data[j]].type # "FULLSCREEN"
         ELSE w = u
  <2>1. CASE InitType(p) = "FULLSCREEN"
    <3> HIDE DEF w
    <3>1. /\ w \in Table /\ Lists(w, {a}) /\ Known(w)
          /\ \A j \in Slots(w) : w.proc[w.data[j]].type # "FULLSCREEN"
          /\ w.newID = u.newID /\ w.proc[a] = u.proc[a]
      BY <1>2, <2>1, RoomMade DEF w
    <3> QED BY <2>1, <3>1
  <2>2. CASE InitType(p) # "FULLSCREEN"
    BY <1>2, <2>2 DEF MakeRoom
  <2> QED BY <2>1, <2>2
<1>4. w.size < Capacity
  BY DEF u, c
<1> HIDE DEF w
<1>5. /\ v \in Table /\ v.size = w.size + 1 /\ v.newID = w.newID /\ v.menu = w.menu
      /\ v.live = w.live /\ v.proc = w.proc
      /\ \A j \in Slots(v) : v.data[j] = IF j = w.size THEN a ELSE w.data[j]
      /\ Lists(v, {}) /\ a \in Listed(v)
  BY <1>3, <1>4, PushParts, PushLists
<1> HIDE DEF v
<1>6. Known(v)
  BY <1>3, <1>5, FewerKnown
<1>7. Slots(v) = Slots(w) \cup {w.size} /\ w.size \in Nat
  BY <1>3, <1>5, TableParts DEF Slots
<1>8. ASSUME InitType(p) = "FULLSCREEN" PROVE Lists(t, {}) /\ Bottom(t) /\ d \in Slots(v)
  <2>1. d = 0 /\ 0 \in Slots(v)
    BY <1>0, <1>3, <1>5, <1>8, DepthOfType, TableParts DEF Slots
  <2>2. \A j \in Slots(v) : v.proc[v.data[j]].type = "FULLSCREEN" => v.data[j] = a
    BY <1>3, <1>5, <1>7, <1>8
  <2>3. Bottom(t)
    BY <1>5, <2>1, <2>2, SetDepthToBottom DEF Lists
  <2> QED BY <1>5, <2>1, <2>3, SetDepthLists
<1>9. ASSUME InitType(p) # "FULLSCREEN" PROVE Lists(t, {}) /\ Bottom(t) /\ d \in Slots(v)
  <2>1. d = 1 /\ d \in Slots(v)
    BY <1>0, <1>1, <1>2, <1>3, <1>5, <1>9, DepthOfType, TableParts DEF Slots
  <2>2. Bottom(v)
    BY <1>2, <1>3, <1>4, <1>9, PushBottom DEF v
  <2>3. Bottom(t)
    BY <1>2, <1>3, <1>5, <1>9, <2>1, <2>2, SetDepthBottom DEF Lists
  <2> QED BY <1>5, <2>1, <2>3, SetDepthLists
<1>10. /\ t \in Table /\ t.live = v.live /\ t.proc = v.proc /\ t.newID = v.newID
       /\ t.menu = v.menu
  BY <1>5, <1>8, <1>9, SetDepthSame, TableParts
<1> HIDE DEF t
<1>11. Known(t)
  BY <1>6, <1>10, FewerKnown
<1>12. a \in v.live
  BY <1>5 DEF Lists
<1>13. StartProcess(s, p, a, d) = t
  BY DEF StartProcess, t, v, w, u, c
<1> QED BY <1>1, <1>2, <1>3, <1>5, <1>8, <1>9, <1>10, <1>11, <1>12, <1>13 DEF Sound

-----------------------------------------------------------------------------
(***************************************************************************)
(* What interrupts do to the list.                                         *)
(***************************************************************************)
LEMMA StartsSplit ==
  ASSUME NEW s \in Table, NEW q \in Program, NEW t \in Starts(s, q)
  PROVE  \/ AlreadyRuns(s, q) /\ Alike(s, t) /\ Pointed(s, t)
         \/ /\ ~ AlreadyRuns(s, q)
            /\ \E a \in Addr \ s.live, d \in Depths(s, q) :
                 /\ t = StartProcess(s, q, a, d)
                 /\ MakeRoom(NewProcess(CountID(s), q, a), q).size < Capacity
<1>1. CASE AlreadyRuns(s, q)
  <2>1. t = s \/ t = Halt(s, "StartProcess")
    BY <1>1 DEF Starts, StartProcess
  <2> QED BY <1>1, <2>1, ReflexiveAlike, HaltAlike
<1>2. CASE ~ AlreadyRuns(s, q)
  <2>1. PICK x \in (Addr \ s.live) \X Depths(s, q) :
          t = StartProcess(s, q, x[1], x[2]) /\ Room(s, q, x[1])
    BY <1>2 DEF Starts
  <2> DEFINE u == MakeRoom(NewProcess(CountID(s), q, x[1]), q)
  <2>2. u \in Table
    BY CountIDType, NewProcessType, MakeRoomType
  <2>3. u.size < Capacity
    BY <2>1, <2>2, CapacityIsNat, TableParts DEF Room, Spare
  <2> QED BY <1>2, <2>1, <2>3
<1> QED BY <1>1, <1>2

LEMMA SoundSize ==
  ASSUME NEW s \in Table, Sound(s)
  PROVE  s.live = {} <=> s.size = 0
<1>1. s.size # 0 => 0 \in Slots(s)
  BY TableParts DEF Slots
<1>2. s.size = 0 => Slots(s) = {}
  BY DEF Slots
<1> QED BY <1>1, <1>2 DEF Sound, Lists, Listed

LEMMA StartsEffect ==
  ASSUME NEW s \in Table, s.live # {}, NEW q \in Program, NEW t \in Starts(s, q)
  PROVE  Effect(s, t)
<1>0. t \in Table
  BY StartsType
<1>1. CASE AlreadyRuns(s, q)
  BY <1>0, <1>1, StartsSplit, AlikeEffect
<1>2. CASE ~ AlreadyRuns(s, q)
  <2>1. PICK a \in Addr \ s.live, d \in Depths(s, q) :
          /\ t = StartProcess(s, q, a, d)
          /\ MakeRoom(NewProcess(CountID(s), q, a), q).size < Capacity
    BY <1>2, StartsSplit
  <2>2. d \in Slot
    BY DepthsType
  <2>3. a \in t.live /\ Pointed(s, t)
    BY <1>2, <2>1, <2>2, StartedLives
  <2>4. Sound(s) => Sound(t)
    <3>1. Sound(s) => s.size > 0
      BY SoundSize, TableParts
    <3> QED BY <1>2, <2>1, <3>1, StartedSound
  <2> QED BY <1>0, <2>3, <2>4 DEF Effect
<1> QED BY <1>1, <1>2

LEMMA MenuAlike ==
  ASSUME NEW s \in Table, NEW q \in Menus, NEW i \in {0, -1}
  PROVE  LET t == [s EXCEPT !.menu[q] = i] IN
         t \in Table /\ Alike(s, t) /\ Pointed(s, t)
  BY DEF Table, Alike, Similar, Pointed, LastLive, FocusedLive

LEMMA TogglesEffect ==
  ASSUME NEW s \in Table, s.live # {}, NEW q \in Menus \cap Installed,
         NEW u \in Toggles(s, q)
  PROVE  Effect(s, u)
<1>0. q \in Program
  BY DEF Program
<1>1. CASE s.menu[q] # -1
  <2>1. u = [KillProcess(s, s.menu[q]) EXCEPT !.menu[q] = -1]
    BY <1>1 DEF Toggles
  <2>2. KillProcess(s, s.menu[q]) \in Table /\ Effect(s, KillProcess(s, s.menu[q]))
    BY KillsType, KillFirstEffect DEF KillProcess
  <2> QED BY <2>1, <2>2, MenuAlike, EffectThenAlike
<1>2. CASE s.menu[q] = -1
  <2>1. PICK t \in Starts(s, q) : u = [t EXCEPT !.menu[q] = StartedID(s, q)]
    BY <1>2 DEF Toggles
  <2>2. t \in Table /\ Effect(s, t)
    BY <1>0, StartsType, StartsEffect
  <2>3. CASE AlreadyRuns(s, q)
    <3>1. StartedID(s, q) = 0
      BY <2>3 DEF StartedID
    <3> QED BY <2>1, <2>2, <3>1, MenuAlike, EffectThenAlike
  <2>4. CASE ~ AlreadyRuns(s, q)
    <3>1. PICK a \in Addr \ s.live, d \in Depths(s, q) :
            /\ t = StartProcess(s, q, a, d)
            /\ MakeRoom(NewProcess(CountID(s), q, a), q).size < Capacity
      BY <1>0, <2>4, StartsSplit
    <3>2. d \in Slot
      BY DepthsType
    <3>3. a \in t.live
      BY <1>0, <2>4, <3>1, <3>2, StartedLives
    <3>4. StartedID(s, q) = s.newID + 1 /\ s.newID + 1 \in Nat
      BY <2>4, TableParts DEF StartedID
    <3>5. /\ u.data = t.data /\ u.size = t.size /\ u.live = t.live /\ u.proc = t.proc
          /\ u.newID = t.newID /\ u.last = t.last /\ u.focused = t.focused
          /\ u.menu = [t.menu EXCEPT ![q] = s.newID + 1]
          /\ u \in Table
      BY <2>1, <2>2, <3>4 DEF Table
    <3>6. Pointed(s, u)
      BY <2>2, <3>5 DEF Effect, Pointed, LastLive, FocusedLive
    <3>7. ASSUME Sound(s) PROVE Sound(u)
      <4>1. s.size > 0
        BY <3>7, SoundSize, TableParts
      <4>2. /\ Sound(t) /\ t.newID = s.newID + 1 /\ t.proc[a].id = t.newID
            /\ t.proc[a].prog = q
        BY <1>0, <2>4, <3>1, <3>7, <4>1, StartedSound
      <4>3. Lists(u, {}) /\ Bottom(u)
        BY <3>5, <4>2 DEF Sound, Lists, Distinct, Listed, Bottom, Slots
      <4>4. Unique(u)
        BY <3>5, <4>2 DEF Sound, Known, Unique
      <4>5. u.menu[q] = t.newID /\ \A r \in Menus \ {q} : u.menu[r] = t.menu[r]
        BY <2>2, <3>5, <4>2, TableParts
      <4>6. Counted(u)
        BY <2>2, <3>5, <4>2, <4>5, TableParts DEF Sound, Known, Counted
      <4>7. Owned(u)
        <5> SUFFICES ASSUME NEW r \in Menus, NEW b \in u.live, u.proc[b].id = u.menu[r]
                     PROVE  u.proc[b].prog = r
          BY DEF Owned
        <5>1. CASE r = q
          BY <3>3, <3>5, <4>2, <4>5, <5>1 DEF Sound, Known, Unique
        <5>2. CASE r # q
          BY <3>5, <4>2, <4>5, <5>2 DEF Sound, Known, Owned
        <5> QED BY <5>1, <5>2
      <4> QED BY <4>3, <4>4, <4>6, <4>7 DEF Sound, Known
    <3> QED BY <3>3, <3>5, <3>6, <3>7 DEF Effect
  <2> QED BY <2>3, <2>4
<1> QED BY <1>1, <1>2

LEMMA EffectsKeep ==
  ASSUME NEW s \in Table, s.live # {}, NEW a,
         NEW t \in KeyEffects(s, a) \cup MouseEffects(s, a)
  PROVE  Effect(s, t)
<1>1. Effect(s, s)
  BY AlikeEffect, ReflexiveAlike
<1>2. ASSUME NEW u \in Commands(s) PROVE Effect(s, u)
  BY KillFirstEffect, StartsEffect DEF Commands, Kills, KillProcess
<1>3. ASSUME NEW u \in UNION {Toggles(s, q) : q \in Menus \cap Installed}
      PROVE  Effect(s, u)
  BY TogglesEffect
<1>4. ASSUME NEW u \in UNION {Starts(s, q) : q \in StartMenuEntries} PROVE Effect(s, u)
  BY StartsEffect DEF StartMenuEntries, Program
<1>5. t \in KeyEffects(s, a) => t = s \/ t \in Commands(s)
  BY DEF KeyEffects
<1>6. t \in MouseEffects(s, a) =>
        \/ t = s
        \/ t \in UNION {Toggles(s, q) : q \in Menus \cap Installed}
        \/ t \in UNION {Starts(s, q) : q \in StartMenuEntries}
  BY DEF MouseEffects
<1> QED BY <1>1, <1>2, <1>3, <1>4, <1>5, <1>6

LEMMA EffectThenFocus ==
  ASSUME NEW s \in Table, NEW t, Effect(s, t), NEW a
  PROVE  Effect(s, SetFocusedProcess(t, a))
<1> DEFINE u == SetFocusedProcess(t, a)
<1>1. t \in Table /\ Effect(t, u) /\ Similar(t, u)
  BY SetFocusedProcessEffect DEF Effect
<1>2. u.live = t.live
  BY <1>1 DEF Similar
<1> HIDE DEF u
<1>3. u \in Table /\ Pointed(s, u) /\ (Sound(s) => Sound(u))
  BY <1>1, AlikeTransitive DEF Effect
<1>4. u.live = s.live \/ s.live = {} => Similar(s, u)
  BY <1>1, <1>2, AlikeTransitive DEF Effect
<1>5. s.live = {} => Alike(s, u)
  <2>1. s.live = {} => Alike(s, t) /\ t.live = {}
    BY DEF Effect, Alike, Similar
  <2> QED BY <1>1, <2>1, AlikeTransitive DEF Effect
<1> QED BY <1>3, <1>4, <1>5 DEF Effect, Alike, u

LEMMA AlikeThenEffect ==
  ASSUME NEW s \in Table, NEW t \in Table, Alike(s, t), Pointed(s, t), NEW u, Effect(t, u)
  PROVE  Effect(s, u)
<1>1. Effect(s, t) /\ t.live = s.live /\ t.data = s.data
  BY AlikeEffect DEF Alike, Similar
<1> QED BY <1>1, AlikeTransitive DEF Effect, Alike

LEMMA KeyBoardInteruptEffect ==
  ASSUME TypeOK, KeyBoardInterupt
  PROVE  \E t : Interrupt(t) /\ Effect(ph, t)
<1>0. ph \in Table
  BY DEF TypeOK
<1>1. CASE ph.focused \notin ph.live
  <2>1. Halt(ph, "KeyBoardInterupt") \in Table
    BY <1>0, HaltType DEF Reason, Fault
  <2> QED BY <1>0, <1>1, <2>1, HaltAlike, AlikeEffect DEF KeyBoardInterupt
<1>2. CASE ph.focused \in ph.live
  <2>1. ph.focused \in Addr /\ ph.live # {}
    BY <1>0, <1>2, TableParts
  <2>2. PICK s \in KeyEffects(ph, ph.focused), r \in KeyReplies(ph.proc[ph.focused].prog) :
          Interrupt(Answered(s, ph.focused, r))
    BY <1>2 DEF KeyBoardInterupt
  <2>3. s \in Table /\ r \in Request
    BY <1>0, <2>1, EffectsType, RepliesType
  <2>4. Effect(ph, s)
    BY <1>0, <2>1, EffectsKeep
  <2>5. Answered(s, ph.focused, r) \in Table
    BY <2>1, <2>3, AnsweredType
  <2>6. Effect(ph, Answered(s, ph.focused, r))
    BY <1>0, <2>1, <2>3, <2>4, <2>5, AnsweredAlike, EffectThenAlike
  <2> QED BY <2>2, <2>6
<1> QED BY <1>1, <1>2

LEMMA MouseInteruptEffect ==
  ASSUME TypeOK, MouseInterupt
  PROVE  \E t : Interrupt(t) /\ Effect(ph, t)
<1>0. ph \in Table
  BY DEF TypeOK
<1>1. ASSUME NEW why \in Reason PROVE Effect(ph, Halt(ph, why))
  BY <1>0, HaltType, HaltAlike, AlikeEffect
<1>2. {"MouseInterupt", "off"} \subseteq Reason
  BY DEF Reason, Fault
<1>3. CASE DragWindow
  <2>1. ASSUME ph.moving \in ph.live, NEW held \in BOOLEAN
        PROVE  Effect(ph, [ph EXCEPT !.focused = IF held THEN @ ELSE ph.moving,
                                     !.moving = IF held THEN @ ELSE Null,
                                     !.redraw = TRUE])
    <3> DEFINE t == [ph EXCEPT !.focused = IF held THEN @ ELSE ph.moving,
                               !.moving = IF held THEN @ ELSE Null,
                               !.redraw = TRUE]
    <3>1. t \in Table /\ Alike(ph, t) /\ Pointed(ph, t)
      BY <1>0, <2>1 DEF Table, Alike, Similar, Pointed, LastLive, FocusedLive
    <3> QED BY <1>0, <3>1, AlikeEffect
  <2> QED BY <1>1, <1>2, <1>3, <2>1 DEF DragWindow
<1>4. CASE CloseWindow
  BY <1>0, <1>4, KillFirstEffect DEF CloseWindow, KillProcess
<1>5. ASSUME NEW k \in Slots(ph), Reaches(k)
      PROVE  ph.data[k] \in ph.live /\ ph.data[k] \in Addr
  <2>1. k \in k .. ph.size - 1
    BY <1>0, TableParts DEF Slots
  <2> QED BY <1>0, <1>5, <2>1, TableParts DEF Reaches
<1>6. CASE MinimizeWindow
  <2>1. PICK k \in Slots(ph) : /\ Reaches(k)
                               /\ Interrupt([Minimize(ph, ph.data[k]) EXCEPT !.redraw = TRUE])
    BY <1>6 DEF MinimizeWindow
  <2> DEFINE t == [Minimize(ph, ph.data[k]) EXCEPT !.redraw = TRUE]
  <2>2. Minimize(ph, ph.data[k]) \in Table
    BY <1>0, <1>5, <2>1, MinimizeType
  <2>3. t \in Table
    BY <2>2 DEF Table
  <2>4. Effect(ph, t)
    BY <1>0, <1>5, <2>1, <2>3, MinimizeAlike, AlikeEffect
  <2> QED BY <2>1, <2>4
<1>7. CASE GrabWindow
  <2>1. PICK k \in Slots(ph) : /\ Reaches(k)
          /\ Interrupt(SetFocusedProcess([ph EXCEPT !.moving = ph.data[k]], ph.data[k]))
    BY <1>7 DEF GrabWindow
  <2> DEFINE t == [ph EXCEPT !.moving = ph.data[k]]
  <2>2. t \in Table /\ Alike(ph, t) /\ Pointed(ph, t)
    BY <1>0, <1>5, <2>1 DEF Table, Alike, Similar, Pointed, LastLive, FocusedLive
  <2>3. Effect(t, SetFocusedProcess(t, ph.data[k]))
    BY <2>2, SetFocusedProcessEffect
  <2>4. Effect(ph, SetFocusedProcess(t, ph.data[k]))
    BY <1>0, <2>2, <2>3, AlikeThenEffect
  <2> QED BY <2>1, <2>4
<1>8. CASE ClickWindow
  <2>0. PICK k \in Slots(ph), left \in BOOLEAN :
          /\ Reaches(k)
          /\ \E r \in MouseReplies(ph.proc[ph.data[k]].prog),
                s \in IF left THEN MouseEffects(ph, ph.data[k]) ELSE {ph} :
                  LET t == Answered(s, ph.data[k], r)
                  IN Interrupt(IF left THEN SetFocusedProcess(t, t.data[k]) ELSE t)
    BY <1>8 DEF ClickWindow
  <2>1. PICK r \in MouseReplies(ph.proc[ph.data[k]].prog),
             s \in IF left THEN MouseEffects(ph, ph.data[k]) ELSE {ph} :
             LET t == Answered(s, ph.data[k], r)
             IN Interrupt(IF left THEN SetFocusedProcess(t, t.data[k]) ELSE t)
    BY <2>0
  <2> DEFINE t == Answered(s, ph.data[k], r)
  <2>2. ph.data[k] \in Addr /\ ph.live # {}
    BY <1>5, <2>0
  <2>3. s \in Table /\ r \in Request
    BY <1>0, <2>1, <2>2, EffectsType, RepliesType
  <2>4. Effect(ph, s)
    <3>1. Effect(ph, ph)
      BY <1>0, ReflexiveAlike, AlikeEffect
    <3> QED BY <1>0, <2>1, <2>2, <3>1, EffectsKeep
  <2>5. t \in Table /\ Alike(s, t) /\ Pointed(s, t)
    BY <2>2, <2>3, AnsweredType, AnsweredAlike
  <2> HIDE DEF t
  <2>6. Effect(ph, t)
    BY <1>0, <2>4, <2>5, EffectThenAlike
  <2>7. Effect(ph, SetFocusedProcess(t, t.data[k]))
    BY <1>0, <2>6, EffectThenFocus
  <2> QED BY <2>1, <2>6, <2>7 DEF t
<1>9. CASE PowerOff
  BY <1>1, <1>2, <1>9 DEF PowerOff
<1>10. CASE ClickNothing
  <2>1. Effect(ph, ph)
    BY <1>0, ReflexiveAlike, AlikeEffect
  <2> QED BY <1>1, <1>2, <1>10, <2>1 DEF ClickNothing
<1> QED
  BY <1>3, <1>4, <1>6, <1>7, <1>8, <1>9, <1>10 DEF MouseInterupt

LEMMA PITInteruptEffect ==
  ASSUME TypeOK, PITInterupt
  PROVE  \E t : Interrupt(t) /\ Effect(ph, t)
<1>0. ph \in Table
  BY DEF TypeOK
<1>1. CASE ~ Intact(ph)
  <2>1. Halt(ph, "PITInterupt") \in Table
    BY <1>0, HaltType DEF Reason, Fault
  <2> QED BY <1>0, <1>1, <2>1, HaltAlike, AlikeEffect DEF PITInterupt
<1>2. CASE Intact(ph)
  <2> DEFINE new(r) == [a \in Addr |-> IF a \in Listed(ph)
                                       THEN PushRequest(ph, a, r[a]).proc[a]
                                       ELSE ph.proc[a]]
             t(r) == [ph EXCEPT !.proc = new(r),
                                !.last = IF ph.size = 0 THEN @ ELSE Null]
  <2>1. PICK r \in [Listed(ph) -> Request] : Interrupt(t(r))
    BY <1>2 DEF PITInterupt
  <2>2. ASSUME NEW a \in Addr
        PROVE  /\ new(r)[a] \in Process
               /\ new(r)[a].id = ph.proc[a].id /\ new(r)[a].prog = ph.proc[a].prog
               /\ new(r)[a].type = "FULLSCREEN" <=> ph.proc[a].type = "FULLSCREEN"
    <3>1. a \in Listed(ph) => /\ PushRequest(ph, a, r[a]) \in Table
                              /\ Alike(ph, PushRequest(ph, a, r[a]))
      BY <1>0, PushRequestType, PushRequestAlike
    <3> QED BY <1>0, <3>1, TableParts DEF Alike, Similar
  <2>3. new(r) \in [Addr -> Process]
    BY <2>2
  <2> HIDE DEF new
  <2>4. t(r) \in Table /\ Pointed(ph, t(r))
    BY <1>0, <2>3 DEF Table, Pointed, LastLive, FocusedLive
  <2>5. Alike(ph, t(r))
    BY <1>0, <2>2 DEF Table, Alike, Similar
  <2> QED BY <1>0, <2>1, <2>4, <2>5, AlikeEffect
<1> QED BY <1>1, <1>2

=============================================================================
