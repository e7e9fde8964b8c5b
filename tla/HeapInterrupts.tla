---------------------------- MODULE HeapInterrupts ----------------------------
(***************************************************************************)
(* The kernel heap (Memory/Heap.cpp) with interrupts: the main code's      *)
(* Allocate and Free go step by step through headers in memory, and an     *)
(* interrupt, which itself is not interrupted, makes whole calls between   *)
(* any two steps (a TICK that sets a label's text, a mouse click that      *)
(* starts or kills a program).  No lock is taken.  disturbed records that  *)
(* an interrupt changed a header that main code had read and still used.   *)
(*                                                                         *)
(* Heap has the whole calls on a list; here a header is found by its       *)
(* address even when no list has it.  Calls that Heap shows to destroy the *)
(* list without any interrupt are not made: a Reserve when LastSegment is  *)
(* not the list's last, and a Split whose rest would wrap around.          *)
(***************************************************************************)
EXTENDS Integers, FiniteSets, FiniteSetsExt

CONSTANTS HeaderSize,   \* sizeof(Segment)
          Granule,      \* the granularity of sizes
          PageUnit,     \* the size of a page
          LeastRest,    \* the least rest for which Split splits
          StartSizes,   \* values for HEAP_STARTSIZE
          Top,          \* bound: addresses are below it
          Sizes,        \* the sizes that callers ask for
          MaxGiven,     \* bound: live blocks
          MaxSteps      \* bound: calls

InterAssumption ==
    /\ HeaderSize \in Nat \ {0} /\ Granule \in Nat \ {0} /\ HeaderSize <= Granule
    /\ PageUnit \in Nat \ {0} /\ PageUnit % Granule = 0
    /\ LeastRest \in Nat \ {0}
    /\ Sizes \subseteq Nat \ {0} /\ StartSizes \subseteq Nat \ {0}
    /\ Top \in Nat /\ \A start \in StartSizes : HeaderSize + start <= Top
    /\ MaxGiven \in Nat /\ MaxSteps \in Nat

Address == 0 .. Top
Null == -1
Heading(size, next, free) == [size |-> size, next |-> next, free |-> free]

VARIABLES memory,   \* address -> the header that was last written there
          tail,     \* LastSegment
          given,    \* history: what callers hold, [at, size]
          doing,    \* where the main code is, "idle" outside the heap
          wanted, rounded, current, added,   \* its call's variables
          steps,    \* calls made so far
          disturbed \* history: an interrupt changed what the main code relies on

headers == <<memory, tail, given>>
local == <<doing, wanted, rounded, current, added>>
interVars == <<headers, local, steps, disturbed>>

InterInit ==
    /\ \E start \in StartSizes :
          memory = [a \in Address |-> IF a = 0 THEN Heading(start, Null, TRUE)
                                                ELSE Heading(0, Null, FALSE)]
    /\ tail = 0
    /\ given = {}
    /\ doing = "idle" /\ wanted = 0 /\ rounded = 0 /\ current = 0 /\ added = 0
    /\ steps = 0
    /\ disturbed = FALSE

-----------------------------------------------------------------------------
Behind(a) == a + HeaderSize
Ends(m, a) == a + HeaderSize + m[a].size
RoundUp(s) == s + (Granule - (s % Granule))

(* The headers of the list, which is in the order of addresses (Ascending). *)
Chain(m) ==
    LET chain[a \in Address] == {a} \cup IF m[a].next > a THEN chain[m[a].next] ELSE {}
    IN  chain[0]

(* Split, as the stores it makes: the new segment's header, then this one's. *)
RestOf(m, a, s) == m[a].size - s - HeaderSize
SplitsAt(m, a, s) == m[a].size > s /\ RestOf(m, a, s) >= LeastRest
Unwrapped(m, a, s) == m[a].size = s \/ RestOf(m, a, s) >= 0
WrittenLast(m, a, s) == [m EXCEPT ![Behind(a) + s] = Heading(RestOf(m, a, s), Null, TRUE)]  \* Slip
Written(m, a, s) == [m EXCEPT ![Behind(a) + s] = Heading(RestOf(m, a, s), m[a].next, TRUE)]

Shortened(m, a, s) == [m EXCEPT ![a].next = Behind(a) + s, ![a].size = s - HeaderSize]

Marked(m, a, free) == [m EXCEPT ![a].free = free]

(* Reserve, of a size that is already rounded. *)
TailIsLast == tail \in Chain(memory) /\ memory[tail].next = Null
InPages(s) == s + (PageUnit - (s % PageUnit))
Lengthened(m, n, s) == [[m EXCEPT ![n] = Heading(s, Null, TRUE)] EXCEPT ![tail].next = n]

-----------------------------------------------------------------------------
(* Whole calls, as an interrupt makes them.                                *)
Took(m, a, s) == Marked(IF SplitsAt(m, a, s) THEN Shortened(Written(m, a, s), a, s) ELSE m, a, FALSE)

(* Allocate goes through the list from its first segment on. *)
Fitting(m, s) == {a \in Chain(m) : m[a].free /\ m[a].size >= s}
FirstFitting(m, s) == IF Fitting(m, s) = {} THEN Null ELSE Min(Fitting(m, s))

(* Free goes through the list once, and on behind the segment that it has merged. *)
Joining(m) ==
    LET list == Chain(m)
        joins[a \in Address] ==
            /\ m[a].free /\ m[a].next # Null /\ m[m[a].next].free
            /\ \A p \in list : p < a /\ m[p].next = a => ~joins[p]
    IN  {a \in list : joins[a]}

Swept(m) ==
    LET joining == Joining(m)
    IN  [a \in Address |->
            IF a \in joining
            THEN [m[a] EXCEPT !.size = @ + m[m[a].next].size + HeaderSize, !.next = m[m[a].next].next]
            ELSE m[a]]

GiveOut(a, s) == given' = given \cup {[at |-> Behind(a), size |-> s]}

InterruptTakes(m, s, size) ==
    LET a == FirstFitting(m, size)
    IN  /\ a # Null /\ Unwrapped(m, a, size)
        /\ memory' = Took(m, a, size)
        /\ GiveOut(a, s)

InterruptReserves(s, size) ==
    /\ FirstFitting(memory, size) = Null /\ TailIsLast
    /\ tail' = Ends(memory, tail)
    /\ tail' + HeaderSize + InPages(size) <= Top
    /\ InterruptTakes(Lengthened(memory, tail', InPages(size)), s, RoundUp(size))

InterruptAllocates(s) ==
    \/ InterruptTakes(memory, s, RoundUp(s)) /\ UNCHANGED tail
    \/ InterruptReserves(s, RoundUp(s))

InterruptFrees(b) ==
    /\ memory' = Swept(Marked(memory, b.at - HeaderSize, TRUE))
    /\ given' = given \ {b}
    /\ UNCHANGED tail

(* What the main code has read and goes on to use: the header it is at, the one  *)
(* after it when it is about to merge the two, and LastSegment in Reserve.       *)
Relied == CASE doing \in {"fits", "split", "link", "mark", "sweep"} -> {current}
            [] doing = "merge" -> {current, memory[current].next}
            [] doing = "append" -> {tail}
            [] OTHER -> {}
Visited == IF doing \in {"test", "next"} THEN {current} ELSE {}

Interrupt ==
    /\ steps < MaxSteps /\ steps' = steps + 1
    /\ \/ Cardinality(given) < MaxGiven /\ \E s \in Sizes : InterruptAllocates(s)
       \/ \E b \in given : InterruptFrees(b)
    /\ LET list == Chain(memory')
       IN  disturbed' = (disturbed \/ (\E h \in Relied : memory'[h] # memory[h])
                                   \/ ~(Relied \cup Visited \subseteq list)
                                   \/ (doing = "append" /\ tail' # tail))
    /\ UNCHANGED local

-----------------------------------------------------------------------------
(* The main code's calls.                                                  *)
Goto(from, to) == doing = from /\ doing' = to

MainAllocate ==
    /\ Goto("idle", "test")
    /\ steps < MaxSteps /\ steps' = steps + 1
    /\ Cardinality(given) < MaxGiven
    /\ wanted' \in Sizes /\ rounded' = RoundUp(wanted') /\ current' = 0
    /\ UNCHANGED <<headers, added, disturbed>>

(* The loop of Allocate: Free, then the size, of one segment after the other. *)
Test ==
    /\ doing = "test"
    /\ doing' = IF memory[current].free THEN "fits" ELSE "next"
    /\ UNCHANGED <<headers, wanted, rounded, current, added, steps, disturbed>>

CheckFits ==
    /\ doing = "fits"
    /\ doing' = CASE memory[current].size = rounded -> "mark"
                  [] memory[current].size > rounded -> "split"
                  [] OTHER -> "next"
    /\ UNCHANGED <<headers, wanted, rounded, current, added, steps, disturbed>>

Step ==
    /\ doing = "next"
    /\ IF memory[current].next = Null
       THEN doing' = "reserve" /\ UNCHANGED current
       ELSE doing' = "test" /\ current' = memory[current].next
    /\ UNCHANGED <<headers, wanted, rounded, added, steps, disturbed>>

SplitWrite ==
    /\ doing = "split"
    /\ Unwrapped(memory, current, rounded)
    /\ IF SplitsAt(memory, current, rounded)
       THEN memory' = Written(memory, current, rounded) /\ doing' = "link"
       ELSE UNCHANGED memory /\ doing' = "mark"
    /\ UNCHANGED <<tail, given, wanted, rounded, current, added, steps, disturbed>>

SplitLink ==
    /\ Goto("link", "mark")
    /\ memory' = Shortened(memory, current, rounded)
    /\ UNCHANGED <<tail, given, wanted, rounded, current, added, steps, disturbed>>

Mark ==
    /\ Goto("mark", "idle")
    /\ memory' = Marked(memory, current, FALSE)
    /\ GiveOut(current, wanted)
    /\ UNCHANGED <<tail, wanted, rounded, current, added, steps, disturbed>>

(* Reserve: the new segment's place is read before its pages are mapped, LastSegment *)
(* is read again after that; then Allocate starts over with the rounded size.        *)
ReserveRead ==
    /\ Goto("reserve", "append")
    /\ TailIsLast
    /\ added' = Ends(memory, tail)
    /\ added' + HeaderSize + InPages(rounded) <= Top
    /\ UNCHANGED <<headers, wanted, rounded, current, steps, disturbed>>

ReserveAppend ==
    /\ Goto("append", "test")
    /\ memory' = Lengthened(memory, added, InPages(rounded))
    /\ tail' = added
    /\ rounded' = RoundUp(rounded) /\ current' = 0
    /\ UNCHANGED <<given, wanted, added, steps, disturbed>>

(* Free: the block's segment is free at once; the sweep follows. *)
MainFree ==
    /\ Goto("idle", "sweep")
    /\ steps < MaxSteps /\ steps' = steps + 1
    /\ \E b \in given : memory' = Marked(memory, b.at - HeaderSize, TRUE) /\ given' = given \ {b}
    /\ current' = 0
    /\ UNCHANGED <<tail, wanted, rounded, added, disturbed>>

MainSweep ==
    /\ doing = "sweep"
    /\ LET b == memory[current].next
       IN CASE b = Null -> doing' = "idle" /\ UNCHANGED current
            [] b # Null /\ memory[current].free /\ memory[b].free -> doing' = "merge" /\ UNCHANGED current
            [] OTHER -> current' = b /\ UNCHANGED doing
    /\ UNCHANGED <<headers, wanted, rounded, added, steps, disturbed>>

Merge ==
    /\ doing = "merge"
    /\ LET b == memory[current].next
           after == memory[b].next
       IN /\ memory' = [memory EXCEPT ![current].size = @ + memory[b].size + HeaderSize,
                                      ![current].next = after]
          /\ current' = IF after = Null THEN 0 ELSE after
          /\ doing' = IF after = Null THEN "idle" ELSE "sweep"
    /\ UNCHANGED <<tail, given, wanted, rounded, added, steps, disturbed>>

Main == \/ MainAllocate \/ Test \/ CheckFits \/ Step \/ SplitWrite \/ SplitLink \/ Mark
        \/ ReserveRead \/ ReserveAppend \/ MainFree \/ MainSweep \/ Merge

InterNext == ~disturbed /\ (Main \/ Interrupt)

InterSpec == InterInit /\ [][InterNext]_interVars

-----------------------------------------------------------------------------
(* Every variable has a value of its type. *)
InterTypeOK ==
    /\ memory \in [Address -> [size : Nat, next : Address \cup {Null}, free : BOOLEAN]]
    /\ tail \in Address
    /\ \A b \in given : b \in [at : Nat, size : Sizes]
    /\ doing \in {"idle", "test", "fits", "next", "split", "link", "mark", "reserve", "append",
                  "sweep", "merge"}
    /\ wanted \in Sizes \cup {0} /\ rounded \in Nat
    /\ current \in Address /\ added \in Address
    /\ steps \in 0 .. MaxSteps /\ disturbed \in BOOLEAN

(* The list's headers are in the order of addresses, and no segment runs into the next. *)
Ascending ==
    \A a \in Chain(memory) :
       /\ Ends(memory, a) <= Top
       /\ memory[a].next # Null => Ends(memory, a) <= memory[a].next

Bytes(b) == b.at .. b.at + b.size - 1

(* Heap.cpp without a lock: as long as no interrupt changed a header between the main *)
(* code's reading and using it, no two callers get a byte in common, and no header of *)
(* the list lies in a block.                                                          *)
Apart == ~disturbed =>
    /\ \A b, c \in given : b # c => Bytes(b) \cap Bytes(c) = {}
    /\ \A b \in given : \A a \in Chain(memory) : Bytes(b) \cap (a .. a + HeaderSize - 1) = {}

(* Every live block is still the block of a used segment on the list, so that Free will *)
(* find it, whatever an interrupt did in the middle of a split, a merge or a Reserve.   *)
Listed == ~disturbed =>
    \A b \in given : b.at - HeaderSize \in Chain(memory) /\ ~memory[b.at - HeaderSize].free

(* What main code keeps with whole calls of interrupts between its accesses. *)
BlocksSafe == InterTypeOK /\ Ascending /\ Apart /\ Listed
=============================================================================
