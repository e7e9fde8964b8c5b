---------------------------- MODULE ProcessTable ----------------------------
(***************************************************************************)
(* The kernel state that the main loop and the interrupt handlers share:   *)
(* the list of processes, the processes themselves, the three pointers     *)
(* into them and the variables of the programs that hold process IDs.  An  *)
(* operator here is a whole function of ProcessHandler.cpp or Process.cpp  *)
(* applied to such a state, as it runs when nothing interrupts it.         *)
(*                                                                         *)
(* A pointer is an address of Addr.  Addresses are reused, and a slot of   *)
(* the list past its length still holds what was last stored there, as the *)
(* array behind STL::List does.  A function that follows a pointer to a    *)
(* process that was deleted stops the machine (stop names the function):   *)
(* what the code does then is undefined.                                   *)
(***************************************************************************)
EXTENDS Integers, FiniteSets, Sequences, FiniteSetsExt, Programs

CONSTANTS Addr,             \* addresses at which a Process can be allocated
          Null,
          RequestCapacity   \* slots of Process::Requests, 16 in the source

ASSUME TableAssumption == /\ IsFiniteSet(Addr)
                          /\ Null \notin Addr
                          /\ RequestCapacity \in Nat

Capacity == Cardinality(Addr)   \* bounds the length of the list
Slot == 0 .. Capacity

NoProcess == [id |-> 0, prog |-> "none", type |-> "WINDOWED", reqs |-> <<>>]

Stack == {q \in Seq(Request) : Len(q) <= RequestCapacity}

Process == [id   : Nat,
            prog : Program \cup {"none"},
            type : Type,
            reqs : Stack]

Menus == {"systemmenu", "startmenu"}

(* Why the machine stops: it is shut down, or a dangling pointer is        *)
(* followed, by one of these functions or at one of Loop's labels.         *)
Fault  == {"KillProcess", "StartProcess", "SetFocusedProcess", "SendMessage",
           "KillAllProcesses", "Push", "UpdateDepth", "KeyBoardInterupt",
           "MouseInterupt", "PITInterupt", "pop", "act", "compose", "kill", "paint"}
Reason == Fault \cup {"running", "off"}

Table == [data    : [Slot -> Addr \cup {Null}],   \* STL::List: Data,
          size    : Slot,                         \* Size
          live    : SUBSET Addr,                  \* allocated processes
          proc    : [Addr -> Process],
          newID   : Nat,                          \* Process::Process's counter
          focused : Addr \cup {Null},             \* FocusedProcess
          last    : Addr \cup {Null},             \* LastMessagedProcess
          moving  : Addr \cup {Null},             \* MovingWindow
          redraw  : BOOLEAN,                      \* Compositor::RedrawRequest
          anim    : SUBSET Program,               \* CurrentAnimation # nullptr
          menu    : [Menus -> Nat \cup {-1}],     \* Topbar's menu IDs
          stop    : Reason]                       \* why the machine stopped

NoTable == [data |-> [k \in Slot |-> Null], size |-> 0, live |-> {},
            proc |-> [a \in Addr |-> NoProcess], newID |-> 0,
            focused |-> Null, last |-> Null, moving |-> Null,
            redraw |-> FALSE, anim |-> {},
            menu |-> [m \in Menus |-> -1], stop |-> "running"]

-----------------------------------------------------------------------------
Slots(s)   == 0 .. (s.size - 1)
Listed(s)  == {s.data[k] : k \in Slots(s)}
Intact(s)  == Listed(s) \subseteq s.live
Halt(s, why) == [s EXCEPT !.stop = why]

(* The first slot of a set of slots, in the order of the loops over it.    *)
First(S) == Min(S)

(***************************************************************************)
(* Process.cpp                                                             *)
(***************************************************************************)
PushRequest(s, a, r) ==
    IF /\ s.proc[a].type # "MINIMIZED"
       /\ r # "SUCCESS"
       /\ Len(s.proc[a].reqs) < RequestCapacity
    THEN [s EXCEPT !.proc[a].reqs = Append(@, r)]
    ELSE s

(* The end of SendMessage: the answer is pushed on the process the message *)
(* was for, which its own handler may have deleted.  A write to its freed  *)
(* memory is not seen by the table.                                        *)
Answered(s, a, r) ==
    [(IF a \in s.live THEN PushRequest(s, a, r) ELSE s) EXCEPT !.last = Null]

PendingRequest(s, a) ==
    LET q == s.proc[a].reqs IN
    IF s.proc[a].type = "MINIMIZED" \/ q = <<>> THEN "SUCCESS" ELSE q[Len(q)]

PopRequest(s, a) ==
    IF PendingRequest(s, a) = "SUCCESS" THEN s
    ELSE [s EXCEPT !.proc[a].reqs = SubSeq(@, 1, Len(@) - 1)]

Minimize(s, a) ==
    LET other == CASE s.proc[a].type = "MINIMIZED" -> "WINDOWED"
                   [] s.proc[a].type = "WINDOWED"  -> "MINIMIZED"
                   [] OTHER                        -> s.proc[a].type
    IN [s EXCEPT !.proc[a].type = other]

(* The process changes place with the one at slot d.                       *)
SetDepth(s, a, d) ==
    IF d > s.size \/ a \notin Listed(s) THEN s
    ELSE LET k == First({j \in Slots(s) : s.data[j] = a})
         IN [s EXCEPT !.data = [@ EXCEPT ![k] = s.data[d], ![d] = a]]

(* The depths a new process of program p may come out of its constructor   *)
(* with: SetDepth(Info.Depth) leaves Depth uninitialized when the list is  *)
(* too short for it.                                                       *)
Depths(s, p) == IF InitDepth(p) <= s.size THEN {InitDepth(p)} ELSE Slot

(* The constructor, NewID already incremented, at the free address a.      *)
NewProcess(s, p, a) ==
    [s EXCEPT !.live = @ \cup {a},
              !.proc[a] = [id |-> s.newID, prog |-> p, type |-> InitType(p),
                           reqs |-> IF RequestCapacity = 0 THEN <<>>
                                                           ELSE <<"DRAW">>],
              !.last = Null,
              !.anim = IF p \in Animated THEN @ \cup {p} ELSE @,
              !.menu = IF p = "topbar" THEN [@ EXCEPT !["systemmenu"] = -1]
                                       ELSE @]

-----------------------------------------------------------------------------
(***************************************************************************)
(* ProcessHandler.cpp                                                      *)
(***************************************************************************)
(* Slip: one of the three pointers is not reset.                           *)
ForgetButFocused(s, a) ==
    [s EXCEPT !.last = IF @ = a THEN Null ELSE @, !.moving = IF @ = a THEN Null ELSE @]

(* The three pointers forget a process that KillProcess is about to delete.*)
Forget(s, a) ==
    [s EXCEPT !.focused = IF @ = a THEN Null ELSE @,
              !.last    = IF @ = a THEN Null ELSE @,
              !.moving  = IF @ = a THEN Null ELSE @]

(* Kill() and delete: the KILL message and its answer leave no trace but   *)
(* LastMessagedProcess.                                                    *)
Delete(s, a) == [s EXCEPT !.live = @ \ {a}, !.proc[a] = NoProcess, !.last = Null]

(* Slip: the move starts one slot too late.                                *)
EraseLate(s, k) ==
    [s EXCEPT !.data = [j \in Slot |-> IF j > k /\ j < s.size - 1
                                       THEN s.data[j + 1] ELSE s.data[j]],
              !.size = @ - 1]

(* STL::List::Erase: the last slot keeps its old content.                  *)
Erase(s, k) ==
    [s EXCEPT !.data = [j \in Slot |-> IF j >= k /\ j < s.size - 1
                                       THEN s.data[j + 1] ELSE s.data[j]],
              !.size = @ - 1]

Unlisted(s, k) == [Erase(s, k) EXCEPT !.redraw = TRUE]

(* The slots at which a search for one of the processes in A ends.         *)
Hits(s, A) == {k \in Slots(s) : s.data[k] \notin s.live \/ s.data[k] \in A}

WithID(s, id)     == {a \in s.live : s.proc[a].id = id}
Running(s, p)     == {a \in s.live : s.proc[a].prog = p}
Fullscreen(s)     == {a \in s.live : s.proc[a].type = "FULLSCREEN"}

KillFirst(s, A) ==
    LET k == First(Hits(s, A))
        a == s.data[k]
    IN IF Hits(s, A) = {}    THEN s
       ELSE IF a \notin s.live THEN Halt(s, "KillProcess")
       ELSE Unlisted(Delete(Forget(s, a), a), k)

KillProcess(s, id) == KillFirst(s, WithID(s, id))

(* Slips: the list is not searched; a start that found the program returns *)
(* the last ID; the old FULLSCREEN process is left running.                *)
AlreadyRunsUnchecked(s, p) == FALSE
StartedIDOfLast(s, p)      == IF Hits(s, Running(s, p)) # {} THEN s.newID ELSE s.newID + 1
MakeRoomForgotten(s, p)    == s

(* Whether StartProcess finds p in the list, and what it returns.          *)
AlreadyRuns(s, p) == Hits(s, Running(s, p)) # {}
StartedID(s, p)   == IF AlreadyRuns(s, p) THEN 0 ELSE s.newID + 1

CountID(s) == [s EXCEPT !.newID = @ + 1]

(* A new FULLSCREEN process takes the place of the listed one.             *)
MakeRoom(s, p) ==
    IF InitType(p) = "FULLSCREEN"
    THEN KillFirst(s, {a \in Fullscreen(s) : a \in Listed(s)})
    ELSE s

(* STL::List::Push in its two steps.                                       *)
Grow(s)     == [s EXCEPT !.size = @ + 1]
Store(s, a) == [s EXCEPT !.data[s.size - 1] = a]

StartProcess(s, p, a, d) ==
    IF AlreadyRuns(s, p)
    THEN IF s.data[First(Hits(s, Running(s, p)))] \in s.live
         THEN s ELSE Halt(s, "StartProcess")
    ELSE SetDepth(Store(Grow(MakeRoom(NewProcess(CountID(s), p, a), p)), a), a, d)

SetFocusedProcess(s, a) ==
    IF a \notin s.live \/ s.focused \notin s.live \cup {Null}
    THEN Halt(s, "SetFocusedProcess")
    ELSE LET t == [s EXCEPT !.focused = a,
                            !.redraw = \/ @
                                       \/ s.proc[a].type = "WINDOWED"
                                       \/ /\ s.focused # Null
                                          /\ s.proc[s.focused].type = "WINDOWED"]
         IN IF s.proc[a].type = "FULLSCREEN" \/ s.size = 0 THEN t
            ELSE SetDepth(t, a, s.size - 1)

(* One round of KillAllProcesses: unlike KillProcess it leaves the three   *)
(* pointers alone.                                                         *)
KillAt(s, k) == IF s.data[k] \in s.live THEN Delete(s, s.data[k])
                                        ELSE Halt(s, "KillAllProcesses")

(* STL::List::Clear.                                                       *)
Clear(s) == [s EXCEPT !.data = [k \in Slot |-> Null], !.size = 0]
=============================================================================
