------------------------------ MODULE PageTable ------------------------------
(***************************************************************************)
(* MapAddress: the walk through four levels of tables, each of which is    *)
(* requested and cleared where there is none yet.  Main code walks access  *)
(* by access; an interrupt whose allocation grows the heap requests a page *)
(* and walks all the way.  A page is its index; page 0 is what a failed    *)
(* RequestPage returns, and MapAddress makes a table of that too.          *)
(*                                                                         *)
(* RequestPage is two steps: its search, and the store of FirstFreePage,   *)
(* from which on no other search finds the page (PageAllocator has all     *)
(* three accesses, and pages that are freed, which no page here is).       *)
(***************************************************************************)
EXTENDS Integers, Sequences, FiniteSetsExt

CONSTANTS Virtual,     \* addresses, by their indices in the four levels
          Index,       \* entries of a table, 512
          Boot,        \* the addresses that Init maps, in order, with the pages
          Registers,   \* pages of registers, mapped to themselves
          LastPage,    \* PageAmount - 1
          MaxCalls,    \* bounds the calls of MapAddress after Init
          Absent       \* an entry that is not Present

PageAssumption == LastPage \in Nat \ {0} /\ MaxCalls \in Nat /\ Absent \notin 0 .. LastPage
VirtualAssumption == Virtual \subseteq [1 .. 4 -> Index]
BootAssumption == /\ Boot \in Seq([v : Virtual, p : 0 .. LastPage])
                  /\ Registers \subseteq 0 .. LastPage

Frame == 0 .. LastPage
Root == 1       \* PML4, the first page that is requested

VARIABLES table,      \* the entries of each page that is a table
          unused,     \* pages that RequestPage has left
          lent,       \* pages that it has lent to the heap
          booted,     \* calls of MapAddress that Init has made
          walk,       \* where main code is in MapAddress
          calls,      \* after Init
          asked,      \* history: what MapAddress last made of an address
          crossed,    \* history: an interrupt mapped between main code's reading
                      \* of an absent entry and its storing of a table there
          shared,     \* history: an interrupt was lent the page that main code
                      \* had found for a table and not yet taken
          exhausted   \* history: RequestPage returned nullptr

tableVars == <<table, unused, lent, booted, walk, calls, asked, crossed, shared, exhausted>>

Idle == [pc |-> "idle", v |-> <<>>, p |-> 0, level |-> 0, at |-> 0, new |-> 0]

Cleared == [k \in Index |-> Absent]

(* What is in a page that has not been cleared: all 0, or all 1s.          *)
Garbage == {Cleared, [k \in Index |-> LastPage]}

TableInit == /\ table \in {[q \in Frame |-> IF q = Root THEN Cleared ELSE g] : g \in Garbage}
             /\ unused = 2 .. LastPage /\ lent = {}
             /\ booted = 0
             /\ walk = Idle
             /\ calls = 0
             /\ asked = [v \in Virtual |-> Absent]
             /\ crossed = FALSE /\ shared = FALSE /\ exhausted = FALSE

-----------------------------------------------------------------------------
Entry(t, q, v, level) == t[q][v[level]]

RequestPage(f) == IF f = {} THEN 0 ELSE Min(f)

(* Slip: the page's old contents stay. *)
ClearedNot(t, q) == t

SetMemory(t, q) == [t EXCEPT ![q] = Cleared]

Store(t, q, v, level, value) == [t EXCEPT ![q][v[level]] = value]

(* One level of a walk that nothing interrupts.                            *)
Descend(w, v, level) ==
    IF Entry(w.table, w.at, v, level) # Absent
    THEN [w EXCEPT !.at = Entry(w.table, w.at, v, level)]
    ELSE LET new == RequestPage(w.unused)
         IN [table  |-> Store(SetMemory(w.table, new), w.at, v, level, new),
             unused |-> w.unused \ {new},
             at     |-> new,
             none   |-> w.none \/ w.unused = {}]

Walk(v, w0) == LET w1 == Descend(w0, v, 1)
                   w2 == Descend(w1, v, 2)
               IN  Descend(w2, v, 3)

WalkLabels == {"idle", "page", "keep", "read", "search", "take", "clear", "install", "leaf"}
Extending  == {"search", "take", "clear", "install"}

(* Heap::Reserve inside of an interrupt: a page, mapped at the heap's end. *)
InterruptMap ==
    \E v \in Virtual :
        LET p == RequestPage(unused)
            w == Walk(v, [table |-> table, unused |-> unused \ {p}, at |-> Root,
                          none |-> exhausted \/ unused = {}])
        IN
        /\ booted = Len(Boot) /\ calls < MaxCalls
        /\ calls' = calls + 1
        /\ table' = Store(w.table, w.at, v, 4, p)
        /\ unused' = w.unused
        /\ lent' = IF unused = {} THEN lent ELSE lent \cup {p}
        /\ asked' = [asked EXCEPT ![v] = p]
        /\ exhausted' = w.none
        /\ crossed' = (crossed \/ walk.pc \in Extending)
        /\ shared' = (shared \/ walk.pc = "take")
        /\ UNCHANGED <<booted, walk>>

-----------------------------------------------------------------------------
Enter(pc, v, p) == walk' = [pc |-> pc, v |-> v, p |-> p, level |-> 1, at |-> Root, new |-> 0]

(* Init maps the frame buffer and every page to itself.                    *)
BootMap == /\ walk.pc = "idle"
           /\ booted < Len(Boot)
           /\ booted' = booted + 1
           /\ Enter("read", Boot[booted + 1].v, Boot[booted + 1].p)
           /\ UNCHANGED <<table, unused, lent, calls, asked, crossed, shared, exhausted>>

(* The heap asks for a page to map, the drivers map what they have found.  *)
LaterMap == /\ walk.pc = "idle"
            /\ booted = Len(Boot) /\ calls < MaxCalls
            /\ calls' = calls + 1
            /\ \E v \in Virtual : \/ Enter("page", v, 0)
                                  \/ \E p \in Registers : Enter("read", v, p)
            /\ UNCHANGED <<table, unused, lent, booted, asked, crossed, shared, exhausted>>

(* RequestPage, up to the page that it finds: for the heap, for a table.   *)
FindPage ==
    /\ \/ walk.pc = "page" /\ walk' = [walk EXCEPT !.p = RequestPage(unused),
                                                   !.pc = IF unused = {} THEN "read" ELSE "keep"]
       \/ walk.pc = "search" /\ walk' = [walk EXCEPT !.new = RequestPage(unused),
                                                     !.pc = IF unused = {} THEN "clear" ELSE "take"]
    /\ exhausted' = (exhausted \/ unused = {})
    /\ UNCHANGED <<table, unused, lent, booted, calls, asked, crossed, shared>>

(* The rest of it: FirstFreePage goes past the page, which is locked.      *)
TakePage ==
    /\ \/ /\ walk.pc = "keep" /\ walk' = [walk EXCEPT !.pc = "read"]
          /\ unused' = unused \ {walk.p} /\ lent' = lent \cup {walk.p}
       \/ /\ walk.pc = "take" /\ walk' = [walk EXCEPT !.pc = "clear"]
          /\ unused' = unused \ {walk.new} /\ UNCHANGED lent
    /\ UNCHANGED <<table, booted, calls, asked, crossed, shared, exhausted>>

Down(q) == walk' = [walk EXCEPT !.level = @ + 1, !.at = q,
                                !.pc = IF walk.level = 3 THEN "leaf" ELSE "read"]

Read ==
    /\ walk.pc = "read"
    /\ LET next == Entry(table, walk.at, walk.v, walk.level)
       IN \/ next # Absent /\ Down(next)
          \/ next = Absent /\ walk' = [walk EXCEPT !.pc = "search"]
    /\ UNCHANGED <<table, unused, lent, booted, calls, asked, crossed, shared, exhausted>>

(* One step: nobody else has the page, unless it is shared.                *)
ClearPage == /\ walk.pc = "clear"
             /\ table' = SetMemory(table, walk.new)
             /\ walk' = [walk EXCEPT !.pc = "install"]
             /\ UNCHANGED <<unused, lent, booted, calls, asked, crossed, shared, exhausted>>

(* Slip: the walk goes on without the entry. *)
LinkNone(t) == t

Link(t) == Store(t, walk.at, walk.v, walk.level, walk.new)

Install == /\ walk.pc = "install"
           /\ table' = Link(table)
           /\ Down(walk.new)
           /\ UNCHANGED <<unused, lent, booted, calls, asked, crossed, shared, exhausted>>

Leaf == /\ walk.pc = "leaf"
        /\ table' = Store(table, walk.at, walk.v, 4, walk.p)
        /\ asked' = [asked EXCEPT ![walk.v] = walk.p]
        /\ walk' = Idle
        /\ UNCHANGED <<unused, lent, booted, calls, crossed, shared, exhausted>>

(* The processor's walk.                                                   *)
Translate(v) == LET q1 == Entry(table, Root, v, 1)
                    q2 == IF q1 = Absent THEN Absent ELSE Entry(table, q1, v, 2)
                    q3 == IF q2 = Absent THEN Absent ELSE Entry(table, q2, v, 3)
                IN  IF q3 = Absent THEN Absent ELSE Entry(table, q3, v, 4)

(* The heap writes into its pages, where the processor finds them.         *)
Use == \E v \in Virtual :
           /\ Translate(v) \in lent
           /\ table' = [table EXCEPT ![Translate(v)] = [k \in Index |-> LastPage]]
           /\ UNCHANGED <<unused, lent, booted, walk, calls, asked, crossed, shared, exhausted>>

TableNext == \/ BootMap \/ LaterMap \/ FindPage \/ TakePage \/ Read
             \/ ClearPage \/ Install \/ Leaf \/ InterruptMap \/ Use

TableSpec == TableInit /\ [][TableNext]_tableVars

-----------------------------------------------------------------------------
TableTypeOK == /\ table \in [Frame -> [Index -> Frame \cup {Absent}]]
               /\ unused \subseteq Frame /\ lent \subseteq Frame
               /\ booted \in 0 .. Len(Boot)
               /\ calls \in 0 .. MaxCalls
               /\ walk.pc \in WalkLabels
               /\ walk.level \in 0 .. 4 /\ {walk.at, walk.new, walk.p} \subseteq Frame
               /\ asked \in [Virtual -> Frame \cup {Absent}]

(* MapAddress is what it seems to be as long as there are pages and no     *)
(* interrupt has mapped between main code's reading of an absent entry and *)
(* its storing of the new table there.  A page that both were lent for the *)
(* heap is no matter of the tables.                                        *)
Clean == ~crossed /\ ~exhausted

(* The processor finds what MapAddress was last told, for every address.   *)
MappedAsAsked == Clean => \A v \in Virtual : Translate(v) = asked[v]

(* After an interrupt has mapped before main code stored its new table an  *)
(* address may be lost, but none leads elsewhere; only a table whose page  *)
(* an interrupt was lent too, where an address may lead anywhere, is       *)
(* excepted.                                                               *)
NeverElsewhere == ~shared /\ ~exhausted => \A v \in Virtual : Translate(v) \in {asked[v], Absent}

(* The pages that Init has mapped stay mapped although tables are lost:    *)
(* all of theirs are there before interrupts are.                          *)
BootKept == booted = Len(Boot) /\ walk.pc = "idle" /\ ~shared /\ ~exhausted =>
                \A k \in DOMAIN Boot : Translate(Boot[k].v) # Absent

Map == IF Clean THEN [v \in Virtual |-> Translate(v)] ELSE asked

Promise == INSTANCE AddressSpace WITH map <- Map, Page <- Frame
ImplementsAddressSpace == Promise!Spec

(* What MapAddress keeps with an interrupt's MapAddress between its accesses. *)
TableSafe == TableTypeOK /\ MappedAsAsked /\ NeverElsewhere /\ BootKept
=============================================================================
