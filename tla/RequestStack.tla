---------------------------- MODULE RequestStack ----------------------------
(***************************************************************************)
(* The request stack of one process, one memory access of the main loop at *)
(* a time.  Main code pops a request, acts on it and pushes the answer to  *)
(* the message it sent; a tick, a key or a click pushes another answer, or *)
(* minimizes the process, between any two of these accesses.  An interrupt *)
(* is one step: the gates are interrupt gates, nothing interrupts it.      *)
(*                                                                         *)
(* Both functions load RequestAmount into a register once; the accesses    *)
(* that follow, of the slot and of RequestAmount, may be compiled in either*)
(* order.  A request is the number of its push: what it asks for does not  *)
(* matter here.                                                            *)
(***************************************************************************)
EXTENDS Integers, Sequences

CONSTANTS Capacity,   \* slots of Process::Requests, 16 in the source
          MaxSent     \* bounds the requests of one run

ASSUME CapacityAssumption == Capacity \in Nat
ASSUME SentAssumption == MaxSent \in Nat

VARIABLES minimized,  \* Type = MINIMIZED
          RequestAmount,
          slots,      \* Requests
          access,     \* the next access of main code
          loaded,     \* RequestAmount as main code loaded it
          hand,       \* the request main code pops or pushes
          sent,       \* requests pushed so far, refused ones included
          refused,    \* those that found the stack full or the window minimized
          served,     \* how often each was popped
          risky       \* the parties of every race so far

vars == <<minimized, RequestAmount, slots, access, loaded, hand, sent, refused, served, risky>>

None == 0
Id   == 1 .. MaxSent
Slot == 0 .. Capacity - 1

Labels == {"pop", "load", "popFirst", "popSlot", "popAmount", "answer",
           "pushLoad", "pushFirst", "pushSlot", "pushAmount"}

(* Main code has loaded RequestAmount and has yet to store it, or to read  *)
(* the slot that it has given up.                                          *)
Between == access \in {"popFirst", "popSlot", "popAmount", "pushFirst", "pushAmount"}

Init == /\ minimized = FALSE
        /\ RequestAmount = 0
        /\ slots = [k \in Slot |-> None]
        /\ access = "pop"
        /\ loaded = 0
        /\ hand = None
        /\ sent = 0
        /\ refused = {}
        /\ served = [id \in Id |-> 0]
        /\ risky = {}

-----------------------------------------------------------------------------
(* PopRequest, called by Loop                                              *)

(* Slip: the test of Type the wrong way round. *)
PoppableInverted == minimized

Poppable == ~minimized

PopTest == /\ access = "pop"
           /\ Poppable
           /\ access' = "load"
           /\ UNCHANGED <<minimized, RequestAmount, slots, loaded, hand, sent, refused, served, risky>>

Empty == RequestAmount = 0

PopLoad == /\ access = "load"
           /\ loaded' = RequestAmount
           /\ access' = IF Empty THEN "pop" ELSE "popFirst"
           /\ UNCHANGED <<minimized, RequestAmount, slots, hand, sent, refused, served, risky>>

Top == loaded - 1

PopSlot == /\ access \in {"popFirst", "popSlot"}
           /\ hand' = slots[Top]
           /\ served' = [served EXCEPT ![slots[Top]] = @ + 1]
           /\ access' = IF access = "popFirst" THEN "popAmount" ELSE "answer"
           /\ UNCHANGED <<minimized, RequestAmount, slots, loaded, sent, refused, risky>>

PopAmount == /\ access \in {"popFirst", "popAmount"}
             /\ RequestAmount' = Top
             /\ access' = IF access = "popFirst" THEN "popSlot" ELSE "answer"
             /\ UNCHANGED <<minimized, slots, loaded, hand, sent, refused, served, risky>>

-----------------------------------------------------------------------------
(* PushRequest, called by SendMessage with the answer to DRAW, CLEAR       *)

(* The program answers SUCCESS. *)
NoAnswer == /\ access = "answer"
            /\ access' = "pop"
            /\ UNCHANGED <<minimized, RequestAmount, slots, loaded, hand, sent, refused, served, risky>>

PushTest == /\ access = "answer"
            /\ sent < MaxSent
            /\ sent' = sent + 1
            /\ hand' = sent + 1
            /\ refused' = IF minimized THEN refused \cup {sent + 1} ELSE refused
            /\ access' = IF minimized THEN "pop" ELSE "pushLoad"
            /\ UNCHANGED <<minimized, RequestAmount, slots, loaded, served, risky>>

StackFull == RequestAmount >= Capacity

PushLoad == /\ access = "pushLoad"
            /\ loaded' = RequestAmount
            /\ refused' = IF StackFull THEN refused \cup {hand} ELSE refused
            /\ access' = IF StackFull THEN "pop" ELSE "pushFirst"
            /\ UNCHANGED <<minimized, RequestAmount, slots, hand, sent, served, risky>>

PushSlot == /\ access \in {"pushFirst", "pushSlot"}
            /\ slots' = [slots EXCEPT ![loaded] = hand]
            /\ access' = IF access = "pushFirst" THEN "pushAmount" ELSE "pop"
            /\ UNCHANGED <<minimized, RequestAmount, loaded, hand, sent, refused, served, risky>>

PushAmount == /\ access \in {"pushFirst", "pushAmount"}
              /\ RequestAmount' = loaded + 1
              /\ access' = IF access = "pushFirst" THEN "pushSlot" ELSE "pop"
              /\ UNCHANGED <<minimized, slots, loaded, hand, sent, refused, served, risky>>

-----------------------------------------------------------------------------
(* Interrupts                                                              *)

(* The request main code is about to take or to store: with a push in      *)
(* between it may be lost, or the pushed one lost or popped twice.         *)
Disturbed == CASE access \in {"popFirst", "popSlot"} -> {slots[loaded - 1]}
               [] OTHER                          -> {hand}

(* Slips: the slot is written and the amount stays, or counts it twice. *)
RaisedNot   == RequestAmount
RaisedTwice == RequestAmount + 2
Raised    == RequestAmount + 1

(* A message of an interrupt handler and the PushRequest of its answer.    *)
InterruptPush ==
    /\ sent < MaxSent
    /\ sent' = sent + 1
    /\ IF minimized \/ StackFull
       THEN /\ refused' = refused \cup {sent + 1}
            /\ UNCHANGED <<RequestAmount, slots, risky>>
       ELSE /\ slots' = [slots EXCEPT ![RequestAmount] = sent + 1]
            /\ RequestAmount' = Raised
            /\ risky' = IF Between THEN risky \cup {sent + 1} \cup Disturbed ELSE risky
            /\ UNCHANGED refused
    /\ UNCHANGED <<minimized, access, loaded, hand, served>>

(* A click on the title bar's button: Process::Minimize.                   *)
Minimize == /\ minimized' = ~minimized
            /\ UNCHANGED <<RequestAmount, slots, access, loaded, hand, sent, refused, served, risky>>

-----------------------------------------------------------------------------
PopRequest  == PopTest \/ PopLoad \/ PopSlot \/ PopAmount
PushRequest == PushTest \/ PushLoad \/ PushSlot \/ PushAmount
Main == PopRequest \/ PushRequest \/ NoAnswer

Next == Main \/ InterruptPush \/ Minimize

(* The loop comes round at every interrupt, and so pops again and again.   *)
Spec == Init /\ [][Next]_vars /\ WF_vars(Main)

-----------------------------------------------------------------------------
Filled == {k \in 0 .. RequestAmount - 1 : ~(access = "pushSlot" /\ k = loaded)}

OnStack(id) == \E k \in Filled : slots[k] = id

(* The request whose slot is written, the amount not yet, or the reverse;  *)
(* the one taken out whose slot still counts.                              *)
Entering(id) == access \in {"pushLoad", "pushFirst", "pushSlot", "pushAmount"} /\ hand = id
Leaving(id)  == \/ access = "popAmount" /\ hand = id
                \/ access = "popSlot" /\ slots[loaded - 1] = id

TypeOK == /\ minimized \in BOOLEAN
          /\ RequestAmount \in 0 .. Capacity
          /\ slots \in [Slot -> Id \cup {None}]
          /\ access \in Labels
          /\ loaded \in 0 .. Capacity
          /\ hand \in Id \cup {None}
          /\ sent \in 0 .. MaxSent
          /\ refused \subseteq Id
          /\ served \in [Id -> Nat]
          /\ risky \subseteq Id

(* Whatever interrupts push between the accesses of main code, neither     *)
(* function touches a slot outside Requests nor takes one that was never   *)
(* filled, though the amount they use is the one loaded earlier.           *)
InBounds == /\ access \in {"popFirst", "popSlot", "popAmount"} => loaded \in 1 .. Capacity
            /\ access \in {"popFirst", "popSlot"} => slots[loaded - 1] # None
            /\ access \in {"pushFirst", "pushSlot", "pushAmount"} => loaded \in Slot
            /\ \A k \in Filled : slots[k] # None

(* A request that took no part in a race has exactly one fate: it was      *)
(* refused, waits, is being moved by main code, or was popped once.        *)
ExactlyOnce ==
    \A id \in (1 .. sent) \ risky :
        /\ served[id] = IF id \in refused \/ Entering(id) \/ (OnStack(id) /\ ~Leaving(id))
                           \/ (access = "popSlot" /\ Leaving(id))
                        THEN 0 ELSE 1
        /\ id \in refused => ~OnStack(id) /\ ~Entering(id)

(* Either function takes effect where it stores RequestAmount.             *)
Stack == IF risky = {}
         THEN [k \in 1 .. RequestAmount |-> IF access = "pushSlot" /\ k - 1 = loaded
                                     THEN hand ELSE slots[k - 1]]
         ELSE <<>>

Promise == INSTANCE Requests WITH stack <- Stack, raced <- risky # {}, Item <- Id

(* Until an interrupt pushes between two of main code's accesses the       *)
(* functions are the atomic push and pop that ProcessHandler takes them    *)
(* for.                                                                    *)
ImplementsRequests == Promise!Spec

(* Requests below newer ones do get their turn: when the interrupts stop   *)
(* pushing and the window stays open, the loop empties the stack.          *)
Drained == <>[](~minimized) => <>[](RequestAmount = 0)

(* The stack between the accesses of main code and interrupts.             *)
StackSafe == TypeOK /\ InBounds /\ ExactlyOnce
=============================================================================
