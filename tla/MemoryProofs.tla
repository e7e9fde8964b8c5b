---------------------------- MODULE MemoryProofs ----------------------------
(***************************************************************************)
(* What TLAPS proves of memory: of PageAllocator, for every memory map; of *)
(* PageTable, for any number of pages and entries of a table, and any      *)
(* addresses: what MapAddress keeps while an interrupt's MapAddress runs   *)
(* between its accesses; of BootLoader, for every volume, kernel and       *)
(* machine; of Heap, for all sizes of requests, of pages and of the        *)
(* quantum; of HeapInterrupts, the heap between its accesses, with an      *)
(* interrupt's Allocate or Free there; and of ProcessList, a list that     *)
(* keeps its elements in the heap, which is a sequence as long as they fit *)
(* its block.  The six share no state.                                     *)
(***************************************************************************)
EXTENDS PageAllocator, PageTable, BootLoader, Heap, HeapInterrupts, ProcessList, FiniteSetTheorems,
        SequenceTheorems, NaturalsInduction, WellFoundedInduction, TLAPS

(* The two pages in flight: the one main code has found is free, and all   *)
(* below it are locked; the hint is past the one it is about to lock.      *)
InFlight == /\ main.pc = "take" => \A p \in Page : p < main.page => p \in locked
            /\ main.pc = "lock" => main.page < hint
            /\ main.pc \in {"take", "lock"} => main.page \notin Reserved

(* What keeps a page from being handed out twice.                          *)
HeldSafe == ~raced => /\ held \subseteq locked
                      /\ main.pc \in {"take", "lock"} => main.page \notin held

Inv == /\ TypeOK
       /\ HintSound
       /\ InFlight
       /\ Reserved \subseteq locked
       /\ ReservedKept
       /\ HeldSafe
       /\ NoPageTwice

(* A set of numbers that is not empty has a least element.                 *)
LEMMA MinIsLeast ==
  ASSUME NEW S \in SUBSET Nat, S # {}
  PROVE  Min(S) \in S /\ \A k \in S : Min(S) <= k
<1>1. PICK x \in S : \A y \in S : <<y, x>> \notin OpToRel(<, Nat)
  BY NatLessThanWellFounded, WFMin, Zenon
<1>2. \A y \in S : ~ (y < x)
  BY <1>1, Zenon DEF OpToRel
<1>3. x \in S /\ \A y \in S : x <= y
  BY <1>2
<1> QED
  BY <1>3, Zenon DEF Min

(* The search of RequestPage ends at the first free page from the hint on. *)
LEMMA FoundIsFirst ==
  ASSUME Found # None
  PROVE  /\ Found \in Page /\ hint <= Found /\ Found \notin locked
         /\ \A p \in Page : hint <= p /\ p < Found => p \in locked
<1>1. FreeFrom(hint) # {} /\ Found = Min(FreeFrom(hint))
  BY DEF Found
<1>2. FreeFrom(hint) \in SUBSET Nat
  BY PageAmountAssumption DEF FreeFrom, Page
<1>3. Found \in FreeFrom(hint) /\ \A k \in FreeFrom(hint) : Found <= k
  BY <1>1, <1>2, MinIsLeast
<1>4. ASSUME NEW p \in Page, hint <= p, p < Found, p \notin locked PROVE FALSE
  <2>1. Found <= p
    BY <1>3, <1>4 DEF FreeFrom
  <2> QED BY <2>1, <1>2, <1>3, <1>4, PageAmountAssumption DEF Page
<1> QED BY <1>3, <1>4 DEF FreeFrom

LEMMA InitInv == Init => Inv
<1> SUFFICES ASSUME Init PROVE Inv
  OBVIOUS
<1>1. PICK garbage \in SUBSET Uncleared : locked = LockedAtBoot(garbage)
  BY DEF Init
<1>2. locked \subseteq 0 .. PageAmount
  <2>1. garbage \subseteq 0 .. PageAmount
    BY PageAmountAssumption DEF Uncleared
  <2> QED BY <1>1, <2>1 DEF LockedAtBoot, LockPages
<1>3. Reserved \subseteq locked
  <2>1. Page \subseteq 0 .. PageAmount
    BY PageAmountAssumption DEF Page
  <2> QED BY <1>1, <2>1, Zenon DEF LockedAtBoot, LockPages, Reserved
<1>4. TypeOK
  <2>1. main \in [pc : {"idle", "take", "lock", "hint"}, page : Page \cup {None}]
    BY DEF Init
  <2>2. main.pc = "idle" /\ hint \in 0 .. PageAmount
    BY PageAmountAssumption DEF Init
  <2>3. held \subseteq Page /\ twice \subseteq Page /\ raced \in BOOLEAN
    BY DEF Init
  <2> QED BY <1>2, <2>1, <2>2, <2>3, Zenon DEF TypeOK
<1>5. HintSound
  BY PageAmountAssumption DEF Init, HintSound, Page
<1> QED
  BY <1>3, <1>4, <1>5 DEF Init, Inv, InFlight, ReservedKept, HeldSafe, NoPageTwice

-----------------------------------------------------------------------------
(***************************************************************************)
(* Each step keeps the invariant.                                          *)
(***************************************************************************)
LEMMA SearchInv == Inv /\ Search => Inv'
<1> SUFFICES ASSUME Inv, Search PROVE Inv'
  OBVIOUS
<1>1. /\ Found \in Page /\ Found \notin locked
      /\ \A p \in Page : hint <= p /\ p < Found => p \in locked
  BY FoundIsFirst DEF Search
<1>2. main' = [pc |-> "take", page |-> Found]
  BY DEF Search
<1>3. TypeOK'
  BY <1>1, <1>2 DEF Inv, TypeOK, Search
<1>4. \A p \in Page : p < Found => p \in locked
  BY <1>1, PageAmountAssumption DEF Inv, TypeOK, HintSound, Search, Page
<1>5. HintSound'
  BY <1>2 DEF Inv, HintSound, Search
<1>6. InFlight'
  BY <1>1, <1>2, <1>4 DEF Inv, InFlight, Search
<1>7. HeldSafe' /\ NoPageTwice'
  BY <1>1, <1>2 DEF Inv, HeldSafe, NoPageTwice, Search
<1> QED BY <1>3, <1>5, <1>6, <1>7 DEF Inv, Search, ReservedKept

LEMMA TakeInv == Inv /\ Take => Inv'
<1> SUFFICES ASSUME Inv, Take PROVE Inv'
  OBVIOUS
<1>1. /\ main.page \in Page /\ main' = [pc |-> "lock", page |-> main.page]
      /\ hint' = main.page + 1 /\ main.pc = "take"
  BY DEF Take, Inv, TypeOK, NextHint
<1>2. TypeOK'
  BY <1>1, PageAmountAssumption DEF Inv, TypeOK, Take, Page
<1>3. HintSound'
  BY <1>1, PageAmountAssumption DEF Inv, HintSound, InFlight, Take, Page
<1>4. InFlight'
  BY <1>1, PageAmountAssumption DEF Inv, InFlight, Take, Page
<1>5. HeldSafe' /\ NoPageTwice'
  BY <1>1 DEF Inv, HeldSafe, NoPageTwice, Take
<1> QED BY <1>2, <1>3, <1>4, <1>5 DEF Inv, Take, ReservedKept

LEMMA LockInv == Inv /\ Lock => Inv'
<1> SUFFICES ASSUME Inv, Lock PROVE Inv'
  OBVIOUS
<1>1. /\ main.page \in Page /\ main' = [pc |-> "idle", page |-> None]
      /\ main.pc = "lock" /\ hint' = hint /\ raced' = raced
  BY DEF Lock, Inv, TypeOK
<1>2. locked' = locked \cup {main.page}
  BY <1>1, PageAmountAssumption DEF Lock, LockPages, Page
<1>3. /\ held' = held \cup {main.page}
      /\ twice' = IF main.page \in held THEN twice \cup {main.page} ELSE twice
  BY DEF Lock, HandOut
<1>4. TypeOK'
  <2>1. Page \subseteq 0 .. PageAmount
    BY PageAmountAssumption DEF Page
  <2>2. (locked \subseteq 0 .. PageAmount)' /\ (held \subseteq Page)'
    BY <1>1, <1>2, <1>3, <2>1, Zenon DEF Inv, TypeOK
  <2>3. (twice \subseteq Page)'
    BY <1>1, <1>3, Zenon DEF Inv, TypeOK
  <2> QED BY <1>1, <2>2, <2>3 DEF Inv, TypeOK
<1>5. HintSound'
  BY <1>1, <1>2 DEF Inv, HintSound
<1>6. InFlight'
  BY <1>1 DEF InFlight
<1>7. HeldSafe' /\ NoPageTwice'
  BY <1>1, <1>2, <1>3 DEF Inv, HeldSafe, NoPageTwice
<1>8. ReservedKept' /\ (Reserved \subseteq locked)'
  BY <1>1, <1>2, <1>3 DEF Inv, InFlight, ReservedKept
<1> QED BY <1>4, <1>5, <1>6, <1>7, <1>8 DEF Inv

LEMMA FreeInv == Inv /\ Free => Inv'
<1> SUFFICES ASSUME Inv, Free PROVE Inv'
  OBVIOUS
<1>1. PICK p \in held : /\ locked' = locked \ {p}
                        /\ held' = held \ {p}
                        /\ main' = [pc |-> "hint", page |-> p]
  BY DEF Free
<1>2. main.pc = "idle" /\ hint' = hint /\ twice' = twice /\ raced' = raced
  BY DEF Free
<1>3. TypeOK'
  BY <1>1, <1>2 DEF Inv, TypeOK
<1>4. HintSound'
  BY <1>1, <1>2 DEF Inv, HintSound
<1>5. InFlight' /\ HeldSafe' /\ NoPageTwice'
  BY <1>1, <1>2 DEF Inv, InFlight, HeldSafe, NoPageTwice
<1>6. ReservedKept' /\ (Reserved \subseteq locked)'
  BY <1>1 DEF Inv, ReservedKept
<1> QED BY <1>3, <1>4, <1>5, <1>6 DEF Inv

LEMMA LowerHintInv == Inv /\ LowerHint => Inv'
<1> SUFFICES ASSUME Inv, LowerHint PROVE Inv'
  OBVIOUS
<1>1. /\ main.page \in Page /\ main' = [pc |-> "idle", page |-> None]
      /\ main.pc = "hint" /\ hint' = IF hint > main.page THEN main.page ELSE hint
  BY DEF LowerHint, Inv, TypeOK, Lowered
<1>2. TypeOK'
  BY <1>1, PageAmountAssumption DEF Inv, TypeOK, LowerHint, Page
<1>3. HintSound'
  BY <1>1, PageAmountAssumption DEF Inv, TypeOK, HintSound, LowerHint, Page
<1>4. InFlight' /\ HeldSafe' /\ NoPageTwice'
  BY <1>1 DEF Inv, InFlight, HeldSafe, NoPageTwice, LowerHint
<1> QED BY <1>2, <1>3, <1>4 DEF Inv, LowerHint, ReservedKept

LEMMA InterruptRequestInv == Inv /\ InterruptRequest => Inv'
<1> SUFFICES ASSUME Inv, InterruptRequest PROVE Inv'
  OBVIOUS
<1>1. /\ Found \in Page /\ hint <= Found /\ Found \notin locked
      /\ \A p \in Page : hint <= p /\ p < Found => p \in locked
  BY FoundIsFirst DEF InterruptRequest
<1>2. /\ hint' = Found + 1 /\ main' = main
      /\ raced' = (raced \/ main.pc = "take")
      /\ held' = held \cup {Found}
      /\ twice' = IF Found \in held THEN twice \cup {Found} ELSE twice
  BY DEF InterruptRequest, NextHint, HandOut
<1>3. locked' = locked \cup {Found}
  BY <1>1, PageAmountAssumption DEF InterruptRequest, LockPages, Page
<1>4. Found \in Nat /\ hint \in Nat /\ hint < hint'
  BY <1>1, <1>2, PageAmountAssumption DEF Inv, TypeOK, Page
<1>5. TypeOK'
  BY <1>1, <1>2, <1>3, PageAmountAssumption DEF Inv, TypeOK, Page
<1>6. HintSound'
  <2>1. ASSUME NEW p \in Page, p < hint', p # Found
        PROVE  p \in locked \/ (main.pc \in {"lock", "hint"} /\ p = main.page)
    <3>1. CASE p < hint
      BY <2>1, <3>1 DEF Inv, HintSound
    <3>2. CASE hint <= p
      BY <2>1, <3>2, <1>1, <1>2, PageAmountAssumption DEF Page
    <3> QED BY <3>1, <3>2, <1>4, PageAmountAssumption DEF Page
  <2> QED BY <2>1, <1>2, <1>3 DEF HintSound
<1>7. InFlight'
  BY <1>2, <1>3, <1>4, PageAmountAssumption DEF Inv, TypeOK, InFlight, Page
<1>8. HeldSafe' /\ NoPageTwice'
  <2>1. ASSUME ~raced' PROVE Found \notin held /\ main.pc # "take" /\ ~raced
    BY <2>1, <1>1, <1>2 DEF Inv, HeldSafe
  <2>2. main.pc = "lock" => main.page # Found
    BY <1>1, <1>4, PageAmountAssumption DEF Inv, InFlight, TypeOK, Page
  <2> QED BY <2>1, <2>2, <1>2, <1>3 DEF Inv, HeldSafe, NoPageTwice
<1>9. ReservedKept' /\ (Reserved \subseteq locked)'
  BY <1>1, <1>2, <1>3 DEF Inv, ReservedKept
<1> QED BY <1>5, <1>6, <1>7, <1>8, <1>9 DEF Inv

LEMMA NextInv == Inv /\ [Next]_vars => Inv'
<1> SUFFICES ASSUME Inv, [Next]_vars PROVE Inv'
  OBVIOUS
<1>1. CASE Next
  BY <1>1, SearchInv, TakeInv, LockInv, FreeInv, LowerHintInv, InterruptRequestInv
  DEF Next
<1>2. CASE UNCHANGED vars
  BY <1>2 DEF vars, Inv, TypeOK, HintSound, InFlight, ReservedKept, HeldSafe, NoPageTwice
<1> QED BY <1>1, <1>2

LEMMA InvHolds == Spec => []Inv
  BY InitInv, NextInv, PTL DEF Spec

-----------------------------------------------------------------------------
(* Every variable of the allocator keeps a value of its type.              *)
THEOREM TypeCorrect == Spec => []TypeOK
<1>1. Inv => TypeOK
  BY DEF Inv
<1> QED BY <1>1, InvHolds, PTL

(* FirstFreePage never passes a free page: RequestPage in PageAllocator.cpp*)
(* finds every page that is free, however requests, frees and interrupts   *)
(* interleave.                                                             *)
THEOREM HintIsSound == Spec => []HintSound
<1>1. Inv => HintSound
  BY DEF Inv
<1> QED BY <1>1, InvHolds, PTL

(* RequestPage hands a page to one holder, unless an interrupt requests a  *)
(* page between the test and the hint's move in main code.                 *)
THEOREM PagesAreNotShared == Spec => []NoPageTwice
<1>1. Inv => NoPageTwice
  BY DEF Inv
<1> QED BY <1>1, InvHolds, PTL

(* RequestPage never hands out what Init has locked for the firmware, the  *)
(* kernel, the frame buffer and the status map, races included.            *)
THEOREM ReservedIsKept == Spec => []ReservedKept
<1>1. Inv => ReservedKept
  BY DEF Inv
<1> QED BY <1>1, InvHolds, PTL

(* All of this at once, for any memory map and any interrupts: what        *)
(* RequestPage and FreePage keep.                                          *)
THEOREM PagesAreSafe == Spec => []PagesSafe
<1>1. Inv => PagesSafe
  BY DEF Inv, PagesSafe
<1> QED BY <1>1, InvHolds, PTL

-----------------------------------------------------------------------------
(***************************************************************************)
(* The page tables.                                                        *)
(***************************************************************************)
Assumptions == PageAssumption /\ VirtualAssumption /\ BootAssumption

All    == [1 .. 4 -> Index]
Tables == [Frame -> [Index -> Frame \cup {Absent}]]

Below(t, q, i) == IF q = Absent THEN Absent ELSE t[q][i]

(* The table of each level on the way to u, and what the last one says.    *)
Path2(t, u) == t[Root][u[1]]
Path3(t, u) == Below(t, Path2(t, u), u[2])
Path4(t, u) == Below(t, Path3(t, u), u[3])
Path(t, u, l) == IF l = 1 THEN Root ELSE IF l = 2 THEN Path2(t, u)
                 ELSE IF l = 3 THEN Path3(t, u) ELSE Path4(t, u)
Final(t, u) == Below(t, Path4(t, u), u[4])

Agree(u, w, n) == \A i \in 1 .. n : u[i] = w[i]

(* No table is one twice, and none is a page that may still be requested.  *)
Tree(t, f) ==
    /\ f \subseteq 2 .. LastPage
    /\ \A u \in All, l \in 1 .. 4 : Path(t, u, l) \in (Frame \ f) \cup {Absent}
    /\ \A u, w \in All, l, k \in 1 .. 4 :
          Path(t, u, l) # Absent /\ Path(t, u, l) = Path(t, w, k) => l = k /\ Agree(u, w, l - 1)

OffTree(t, x) == \A u \in All, l \in 1 .. 4 : Path(t, u, l) # x

(* Nothing that an address leads through or to is lost, and no page that   *)
(* is neither a table nor free is touched.                                 *)
Kept(t, f, s, g) ==
    /\ g \subseteq f
    /\ \A u \in All : /\ \A k \in 1 .. 4 : Path(t, u, k) # Absent => Path(s, u, k) = Path(t, u, k)
                     /\ Final(s, u) = Final(t, u)
    /\ \A y \in Frame \ f : OffTree(t, y) => OffTree(s, y) /\ s[y] = t[y]

(* What the interrupt has left when it has a page to map.                  *)
Remaining == unused \ {RequestPage(unused)}

(* An interrupt's walk to v has come to level l.                           *)
Walked(w, v, l) ==
    /\ w \in [table : Tables, unused : SUBSET Frame, at : Frame, none : BOOLEAN]
    /\ exhausted \/ unused = {} => w.none
    /\ ~w.none => /\ Tree(w.table, w.unused)
                  /\ w.at = Path(w.table, v, l)
                  /\ Kept(table, Remaining, w.table, w.unused)

(* Main code is at a table on the way to its address, and the one that it  *)
(* is about to install is nobody's and empty.                              *)
MainGood(t, f) ==
    /\ walk.pc # "idle" => walk.at = Path(t, walk.v, walk.level) /\ walk.at # Absent
    /\ walk.pc = "keep" => walk.p \in lent \/ (walk.p \in f /\ walk.p = RequestPage(f))
    /\ walk.pc = "take" => walk.new \in f
    /\ walk.pc \in {"clear", "install"} =>
           walk.new \in Frame \ f /\ walk.new \notin lent /\ OffTree(t, walk.new)
    /\ walk.pc = "install" => t[walk.new] = Cleared

(* No page of the heap is a table, or may be one yet.                      *)
HeapApart(t, f) == \A y \in lent : y \in Frame \ f /\ OffTree(t, y)

(* Only after a race is there something where main code installs a table,  *)
(* and what Init has mapped is not below.                                  *)
Installing ==
    walk.pc \in Extending =>
        /\ table[walk.at][walk.v[walk.level]] # Absent => crossed
        /\ \A k \in 1 .. booted : \/ Boot[k].v = walk.v
                                  \/ ~Agree(Boot[k].v, walk.v, walk.level)

Answers == /\ \A v \in Virtual : Final(table, v) \in {asked[v], Absent}
           /\ ~crossed => \A v \in Virtual : Final(table, v) = asked[v]
           /\ \A k \in 1 .. booted : \/ Final(table, Boot[k].v) # Absent
                                     \/ walk.pc # "idle" /\ Boot[k].v = walk.v

Typed == /\ TableTypeOK
         /\ walk \in [pc : WalkLabels, v : Virtual \cup {<<>>},
                      p : Frame, level : 0 .. 4, at : Frame, new : Frame]
         /\ exhausted \in BOOLEAN /\ shared \in BOOLEAN /\ (shared => crossed)
         /\ walk.pc # "idle" => walk.v \in Virtual
         /\ walk.pc \in {"read"} \cup Extending => walk.level \in 1 .. 3
         /\ walk.pc \in {"page", "keep"} => walk.level = 1
         /\ walk.pc = "leaf" => walk.level = 4

Whole == /\ Tree(table, unused) /\ MainGood(table, unused) /\ HeapApart(table, unused)
         /\ Installing /\ Answers

TableInv == Typed /\ (~exhausted /\ ~shared => Whole)

-----------------------------------------------------------------------------
(***************************************************************************)
(* The way through the levels.                                             *)
(***************************************************************************)
LEMMA Constants ==
  ASSUME Assumptions
  PROVE  /\ Root \in Frame /\ Absent \notin Frame /\ Frame \subseteq Nat /\ 0 \in Frame
         /\ Virtual \subseteq All
         /\ \A k \in 1 .. Len(Boot) : Boot[k].v \in Virtual /\ Boot[k].p \in Frame
         /\ Registers \subseteq Frame
         /\ Len(Boot) \in Nat
<1>1. LastPage \in Nat /\ LastPage >= 1 /\ Absent \notin 0 .. LastPage
  BY DEF Assumptions, PageAssumption
<1>2. Boot \in Seq([v : Virtual, p : Frame]) /\ Registers \subseteq Frame /\ Virtual \subseteq All
  BY DEF Assumptions, VirtualAssumption, BootAssumption, Frame, All
<1>3. Len(Boot) \in Nat /\ \A k \in 1 .. Len(Boot) : Boot[k] \in [v : Virtual, p : Frame]
  BY <1>2, ElementOfSeq, LenProperties
<1>4. \A k \in 1 .. Len(Boot) : Boot[k].v \in Virtual /\ Boot[k].p \in Frame
  BY <1>3
<1>5. Root \in Frame /\ Absent \notin Frame /\ Frame \subseteq Nat /\ 0 \in Frame
  BY <1>1 DEF Root, Frame
<1> QED BY <1>2, <1>3, <1>4, <1>5

LEMMA PathStep ==
  ASSUME Assumptions, NEW t, NEW u
  PROVE  /\ Path(t, u, 1) = Root /\ Root # Absent
         /\ \A l \in 1 .. 3 : Path(t, u, l + 1) = Below(t, Path(t, u, l), u[l])
         /\ Final(t, u) = Below(t, Path(t, u, 4), u[4])
<1>1. Root # Absent
  BY Constants
<1>2. ASSUME NEW l \in 1 .. 3 PROVE Path(t, u, l + 1) = Below(t, Path(t, u, l), u[l])
  <2>1. l = 1 \/ l = 2 \/ l = 3
    OBVIOUS
  <2>2. CASE l = 1
    BY <1>1, <2>2 DEF Path, Path2, Below
  <2>3. CASE l = 2
    BY <2>3 DEF Path, Path3
  <2>4. CASE l = 3
    BY <2>4 DEF Path, Path4
  <2> QED BY <2>1, <2>2, <2>3, <2>4
<1> QED BY <1>1, <1>2 DEF Path, Final

LEMMA AgreePath ==
  ASSUME Assumptions, NEW t, NEW u, NEW w, NEW l \in 1 .. 4, Agree(u, w, l - 1)
  PROVE  Path(t, u, l) = Path(t, w, l)
<1>1. /\ l = 1 \/ l = 2 \/ l = 3 \/ l = 4
      /\ l > 1 => u[1] = w[1]
      /\ l > 2 => u[2] = w[2]
      /\ l > 3 => u[3] = w[3]
  BY DEF Agree
<1> QED BY <1>1 DEF Path, Path2, Path3, Path4

(* Tables that agree wherever the way to u leads agree about u.            *)
LEMMA SameWay ==
  ASSUME Assumptions, NEW t, NEW s, NEW u, NEW n \in 1 .. 4,
         \A k \in 1 .. n - 1 : Path(t, u, k) # Absent =>
                              s[Path(t, u, k)][u[k]] = t[Path(t, u, k)][u[k]]
  PROVE  \A k \in 1 .. n : Path(s, u, k) = Path(t, u, k)
<1>1. Path(s, u, 1) = Path(t, u, 1)
  BY PathStep
<1>2. ASSUME NEW k \in 1 .. 3, k < n, Path(s, u, k) = Path(t, u, k)
      PROVE  Path(s, u, k + 1) = Path(t, u, k + 1)
  BY <1>2, PathStep DEF Below
<1>3. n > 1 => Path(s, u, 2) = Path(t, u, 2)
  BY <1>1, <1>2
<1>4. n > 2 => Path(s, u, 3) = Path(t, u, 3)
  BY <1>2, <1>3
<1>5. n > 3 => Path(s, u, 4) = Path(t, u, 4)
  BY <1>2, <1>4
<1>6. \A k \in 1 .. n : k = 1 \/ (k = 2 /\ n > 1) \/ (k = 3 /\ n > 2) \/ (k = 4 /\ n > 3)
  OBVIOUS
<1> QED BY <1>1, <1>3, <1>4, <1>5, <1>6

LEMMA SameFinal ==
  ASSUME Assumptions, NEW t, NEW s, NEW u,
         \A k \in 1 .. 4 : Path(t, u, k) # Absent => s[Path(t, u, k)][u[k]] = t[Path(t, u, k)][u[k]]
  PROVE  (\A k \in 1 .. 4 : Path(s, u, k) = Path(t, u, k)) /\ Final(s, u) = Final(t, u)
<1>1. \A k \in 1 .. 4 : Path(s, u, k) = Path(t, u, k)
  BY SameWay
<1> QED BY <1>1, PathStep DEF Below

LEMMA Stored ==
  ASSUME Assumptions, NEW t \in Tables, NEW q \in Frame, NEW v \in All, NEW l \in 1 .. 4,
         NEW x \in Frame \cup {Absent}
  PROVE  /\ Store(t, q, v, l, x) \in Tables
         /\ Store(t, q, v, l, x)[q][v[l]] = x
         /\ \A r \in Frame, i \in Index : r # q \/ i # v[l] => Store(t, q, v, l, x)[r][i] = t[r][i]
         /\ \A r \in Frame : r # q => Store(t, q, v, l, x)[r] = t[r]
<1>1. v[l] \in Index
  BY DEF All
<1> QED BY <1>1 DEF Store, Tables

(* Fewer pages may be left.                                                *)
LEMMA TreeShrinks ==
  ASSUME NEW t, NEW f, NEW g, Tree(t, f), g \subseteq f
  PROVE  Tree(t, g)
  BY DEF Tree

(* A page that is no table can be written over.                            *)
LEMMA Overwritten ==
  ASSUME Assumptions, NEW t, NEW x, OffTree(t, x), NEW s, \A r : r # x => s[r] = t[r]
  PROVE  \A u \in All : /\ \A k \in 1 .. 4 : Path(s, u, k) = Path(t, u, k)
                       /\ Final(s, u) = Final(t, u)
<1> SUFFICES ASSUME NEW u \in All
             PROVE (\A k \in 1 .. 4 : Path(s, u, k) = Path(t, u, k)) /\ Final(s, u) = Final(t, u)
  OBVIOUS
<1>1. \A k \in 1 .. 4 : s[Path(t, u, k)] = t[Path(t, u, k)]
  BY DEF OffTree
<1> QED BY <1>1, SameFinal

LEMMA ClearedAway ==
  ASSUME Assumptions, NEW t \in Tables, NEW x \in Frame, OffTree(t, x)
  PROVE  /\ SetMemory(t, x) \in Tables /\ SetMemory(t, x)[x] = Cleared
         /\ \A r \in Frame : r # x => SetMemory(t, x)[r] = t[r]
         /\ \A u \in All : /\ \A k \in 1 .. 4 : Path(SetMemory(t, x), u, k) = Path(t, u, k)
                          /\ Final(SetMemory(t, x), u) = Final(t, u)
<1> DEFINE s == SetMemory(t, x)
<1>1. s \in Tables /\ s[x] = Cleared /\ \A r : r # x => s[r] = t[r]
  BY DEF SetMemory, Tables, Cleared
<1> HIDE DEF s
<1>2. \A u \in All : (\A k \in 1 .. 4 : Path(s, u, k) = Path(t, u, k)) /\ Final(s, u) = Final(t, u)
  BY <1>1, Overwritten
<1> QED BY <1>1, <1>2 DEF s

(* A new table is linked: what was below its entry is lost, and nothing    *)
(* else.                                                                   *)
LEMMA Linked ==
  ASSUME Assumptions, NEW t \in Tables, NEW f, Tree(t, f), NEW v \in All, NEW l \in 1 .. 3,
         Path(t, v, l) # Absent, NEW x \in Frame, t[x] = Cleared, OffTree(t, x), NEW u \in All
  PROVE  LET s == Store(t, Path(t, v, l), v, l, x) IN
         IF Agree(u, v, l)
         THEN /\ \A k \in 1 .. l : Path(s, u, k) = Path(t, u, k)
              /\ Path(s, u, l + 1) = x
              /\ \A k \in l + 2 .. 4 : Path(s, u, k) = Absent
              /\ Final(s, u) = Absent
         ELSE /\ \A k \in 1 .. 4 : Path(s, u, k) = Path(t, u, k)
              /\ Final(s, u) = Final(t, u)
<1> DEFINE at == Path(t, v, l)
           s  == Store(t, at, v, l, x)
<1>1. at \in Frame /\ x # at /\ u[l] \in Index /\ v[l] \in Index /\ l \in 1 .. 4
  BY Constants DEF Tree, OffTree, All
<1>2. /\ s \in Tables /\ s[at][v[l]] = x /\ s[x] = Cleared
      /\ \A r \in Frame, i \in Index : r # at \/ i # v[l] => s[r][i] = t[r][i]
  <2>1. s \in Tables /\ s[at][v[l]] = x
    BY <1>1 DEF Store, Tables
  <2>2. \A r \in Frame, i \in Index : r # at \/ i # v[l] => s[r][i] = t[r][i]
    BY <1>1 DEF Store, Tables
  <2>3. s[x] = t[x]
    BY <1>1 DEF Store, Tables
  <2> QED BY <2>1, <2>2, <2>3
<1> HIDE DEF at, s
<1>3. \A k \in 1 .. 4 : u[k] \in Index /\ (Path(t, u, k) # Absent => Path(t, u, k) \in Frame)
  BY DEF Tree, All
<1>4. \A k \in 1 .. 4 : Path(t, u, k) = at => k = l /\ Agree(u, v, l - 1)
  BY <1>1, Constants DEF Tree, at
<1>5. CASE ~Agree(u, v, l)
  <2>1. ASSUME NEW k \in 1 .. 4, Path(t, u, k) # Absent
        PROVE  s[Path(t, u, k)][u[k]] = t[Path(t, u, k)][u[k]]
    <3>1. Path(t, u, k) = at => u[k] # v[l]
      <4>1. Agree(u, v, l - 1) /\ u[l] = v[l] => Agree(u, v, l)
        BY DEF Agree
      <4> QED BY <1>4, <1>5, <4>1
    <3> QED BY <1>2, <1>3, <2>1, <3>1
  <2> QED BY <1>5, <2>1, SameFinal DEF s, at
<1>6. CASE Agree(u, v, l)
  <2>1. \A k \in 1 .. l - 1 : Path(t, u, k) # Absent =>
                              s[Path(t, u, k)][u[k]] = t[Path(t, u, k)][u[k]]
    BY <1>2, <1>3, <1>4
  <2>2. \A k \in 1 .. l : Path(s, u, k) = Path(t, u, k)
    BY <1>1, <2>1, SameWay
  <2>3. Path(t, u, l) = at /\ u[l] = v[l]
    <3>1. Agree(u, v, l - 1) /\ u[l] = v[l]
      BY <1>6 DEF Agree
    <3> QED BY <1>1, <3>1, AgreePath DEF at
  <2>4. Path(s, u, l) = at /\ at # Absent
    BY <1>1, <2>2, <2>3, Constants
  <2>5. Path(s, u, l + 1) = x
    BY <1>2, <2>3, <2>4, PathStep DEF Below
  <2>6. \A i \in Index : s[x][i] = Absent
    BY <1>2 DEF Cleared
  <2>7. l + 2 \in 1 .. 4 => Path(s, u, l + 2) = Absent
    <3>1. l + 1 \in 1 .. 3 => Path(s, u, l + 1 + 1) = Below(s, x, u[l + 1])
      BY <2>5, PathStep
    <3> QED BY <1>3, <2>6, <3>1 DEF Below
  <2>8. l + 3 \in 1 .. 4 => Path(s, u, l + 3) = Absent
    <3>1. l + 2 \in 1 .. 3 => Path(s, u, l + 2 + 1) = Below(s, Path(s, u, l + 2), u[l + 2])
      BY PathStep
    <3> QED BY <2>7, <3>1 DEF Below
  <2>9. \A k \in l + 2 .. 4 : Path(s, u, k) = Absent
    <3>1. \A k \in l + 2 .. 4 : k = l + 2 \/ k = l + 3
      OBVIOUS
    <3> QED BY <2>7, <2>8, <3>1
  <2>10. Final(s, u) = Absent
    <3>1. CASE l = 3
      BY <1>3, <2>5, <2>6, <3>1, PathStep DEF Below
    <3>2. CASE l # 3
      <4>1. Path(s, u, 4) = Absent
        BY <2>9, <3>2
      <4> QED BY <4>1, PathStep DEF Below
    <3> QED BY <3>1, <3>2
  <2> QED BY <1>6, <2>2, <2>5, <2>9, <2>10 DEF s, at
<1> QED BY <1>5, <1>6

(* So the tables are a tree again, of one table more.                      *)
LEMMA LinkedTree ==
  ASSUME Assumptions, NEW t \in Tables, NEW f, Tree(t, f), NEW v \in All, NEW l \in 1 .. 3,
         Path(t, v, l) # Absent, NEW x \in Frame \ f, t[x] = Cleared, OffTree(t, x)
  PROVE  Tree(Store(t, Path(t, v, l), v, l, x), f)
<1> DEFINE s == Store(t, Path(t, v, l), v, l, x)
<1>1. ASSUME NEW u \in All, NEW k \in 1 .. 4, Path(s, u, k) # Absent
      PROVE  \/ Path(s, u, k) = x /\ k = l + 1 /\ Agree(u, v, l)
             \/ Path(s, u, k) = Path(t, u, k) /\ Path(t, u, k) # x
  <2>1. Path(t, u, k) # x
    BY DEF OffTree
  <2>2. CASE ~Agree(u, v, l)
    BY <2>1, <2>2, Linked
  <2>3. CASE Agree(u, v, l)
    <3>1. /\ \A i \in 1 .. l : Path(s, u, i) = Path(t, u, i)
          /\ Path(s, u, l + 1) = x
          /\ \A i \in l + 2 .. 4 : Path(s, u, i) = Absent
      BY <2>3, Linked
    <3>2. k \in 1 .. l \/ k = l + 1 \/ k \in l + 2 .. 4
      OBVIOUS
    <3> QED BY <1>1, <2>1, <2>3, <3>1, <3>2
  <2> QED BY <2>2, <2>3
<1> HIDE DEF s
<1>2. \A u \in All, k \in 1 .. 4 : Path(s, u, k) \in (Frame \ f) \cup {Absent}
  BY <1>1 DEF Tree
<1>3. ASSUME NEW u \in All, NEW w \in All, NEW i \in 1 .. 4, NEW k \in 1 .. 4,
             Path(s, u, i) # Absent, Path(s, u, i) = Path(s, w, k)
      PROVE  i = k /\ Agree(u, w, i - 1)
  <2>1. CASE Path(s, u, i) = x
    <3>1. i = l + 1 /\ k = l + 1 /\ Agree(u, v, l) /\ Agree(w, v, l)
      BY <1>1, <1>3, <2>1
    <3> QED BY <3>1 DEF Agree
  <2>2. CASE Path(s, u, i) # x
    <3>1. Path(s, u, i) = Path(t, u, i) /\ Path(s, w, k) = Path(t, w, k)
      BY <1>1, <1>3, <2>2
    <3> QED BY <1>3, <3>1 DEF Tree
  <2> QED BY <2>1, <2>2
<1>4. f \subseteq 2 .. LastPage
  BY DEF Tree
<1>5. Tree(s, f)
  BY <1>2, <1>3, <1>4 DEF Tree
<1> QED BY <1>5 DEF s

(* Addresses that agree in all four levels are one.                        *)
LEMMA AgreeAll ==
  ASSUME NEW u \in All, NEW w \in All, Agree(u, w, 4)
  PROVE  u = w
  BY DEF Agree, All

(* The entry of a last table is set: this is seen from its address alone.  *)
LEMMA Leafed ==
  ASSUME Assumptions, NEW t \in Tables, NEW f, Tree(t, f), NEW v \in All,
         Path(t, v, 4) # Absent, NEW p \in Frame
  PROVE  LET s == Store(t, Path(t, v, 4), v, 4, p) IN
         /\ \A u \in All : /\ \A k \in 1 .. 4 : Path(s, u, k) = Path(t, u, k)
                           /\ Final(s, u) = IF u = v THEN p ELSE Final(t, u)
         /\ Tree(s, f)
<1> DEFINE at == Path(t, v, 4)
           s  == Store(t, at, v, 4, p)
<1>1. at \in Frame /\ v[4] \in Index
  BY DEF Tree, All
<1>2. s[at][v[4]] = p /\ \A r \in Frame, i \in Index : r # at \/ i # v[4] => s[r][i] = t[r][i]
  BY <1>1 DEF Store, Tables
<1> HIDE DEF at, s
<1>3. ASSUME NEW u \in All
      PROVE  /\ \A k \in 1 .. 4 : Path(s, u, k) = Path(t, u, k)
             /\ Final(s, u) = IF u = v THEN p ELSE Final(t, u)
  <2>1. \A k \in 1 .. 4 : u[k] \in Index /\ (Path(t, u, k) # Absent => Path(t, u, k) \in Frame)
    BY DEF Tree, All
  <2>2. \A k \in 1 .. 4 : Path(t, u, k) = at => k = 4 /\ Agree(u, v, 3)
    BY <1>1, Constants DEF Tree, at
  <2>3. \A k \in 1 .. 4 : Path(s, u, k) = Path(t, u, k)
    <3>1. \A k \in 1 .. 4 - 1 : Path(t, u, k) # Absent =>
                                  s[Path(t, u, k)][u[k]] = t[Path(t, u, k)][u[k]]
      BY <1>2, <2>1, <2>2
    <3> QED BY <3>1, SameWay
  <2>4. Final(s, u) = Below(s, Path(t, u, 4), u[4]) /\ Final(t, u) = Below(t, Path(t, u, 4), u[4])
    BY <2>3, PathStep
  <2>5. CASE u = v
    <3>1. Path(t, u, 4) = at /\ u[4] = v[4]
      BY <2>5 DEF at
    <3>2. Final(s, u) = s[at][v[4]]
      BY <1>1, <2>4, <3>1, Constants DEF Below
    <3> QED BY <1>2, <2>3, <2>5, <3>2
  <2>6. CASE u # v
    <3>1. Path(t, u, 4) = at => u[4] # v[4]
      <4>1. Agree(u, v, 3) /\ u[4] = v[4] => Agree(u, v, 4)
        BY DEF Agree
      <4> QED BY <2>2, <2>6, <4>1, AgreeAll
    <3>2. CASE Path(t, u, 4) = Absent
      BY <2>3, <2>4, <2>6, <3>2 DEF Below
    <3>3. CASE Path(t, u, 4) # Absent
      <4>1. Path(t, u, 4) \in Frame /\ u[4] \in Index
        BY <2>1, <3>3
      <4>2. s[Path(t, u, 4)][u[4]] = t[Path(t, u, 4)][u[4]]
        BY <1>2, <3>1, <4>1
      <4> QED BY <2>3, <2>4, <2>6, <3>3, <4>2 DEF Below
    <3> QED BY <3>2, <3>3
  <2> QED BY <2>3, <2>5, <2>6
<1>4. Tree(s, f)
  BY <1>3 DEF Tree
<1> QED BY <1>3, <1>4 DEF s, at

-----------------------------------------------------------------------------
(***************************************************************************)
(* A page is requested for a table.                                        *)
(***************************************************************************)
LEMMA AbsentBelow ==
  ASSUME Assumptions, NEW t, NEW u, NEW k \in 1 .. 4, Path(t, u, k) = Absent
  PROVE  (\A j \in k .. 4 : Path(t, u, j) = Absent) /\ Final(t, u) = Absent
<1>1. \A l \in 1 .. 3 : Path(t, u, l) = Absent => Path(t, u, l + 1) = Absent
  BY PathStep DEF Below
<1>2. \A j \in k .. 4 : Path(t, u, j) = Absent
  <2>1. /\ k + 1 \in 2 .. 4 => Path(t, u, k + 1) = Absent
        /\ k \in 1 .. 3 => k + 1 \in 2 .. 4
    BY <1>1
  <2>2. k + 2 \in 3 .. 4 => Path(t, u, k + 2) = Absent
    <3>1. k + 1 \in 1 .. 3 /\ Path(t, u, k + 1) = Absent => Path(t, u, k + 1 + 1) = Absent
      BY <1>1
    <3> QED BY <2>1, <3>1
  <2>3. k + 3 \in 4 .. 4 => Path(t, u, k + 3) = Absent
    <3>1. k + 2 \in 1 .. 3 /\ Path(t, u, k + 2) = Absent => Path(t, u, k + 2 + 1) = Absent
      BY <1>1
    <3> QED BY <2>2, <3>1
  <2>4. \A j \in k .. 4 : j = k \/ j = k + 1 \/ j = k + 2 \/ j = k + 3
    OBVIOUS
  <2> QED BY <2>1, <2>2, <2>3, <2>4
<1>3. Path(t, u, 4) = Absent
  BY <1>2
<1> QED BY <1>2, <1>3, PathStep DEF Below

(* The page that RequestPage returns is no table, and is cleared.          *)
LEMMA Requested ==
  ASSUME Assumptions, NEW t \in Tables, NEW f, Tree(t, f), f # {}
  PROVE  LET x == RequestPage(f)
             c == SetMemory(t, x)
         IN  /\ x \in f /\ x \in Frame /\ x \in Frame \ (f \ {x})
             /\ c \in Tables /\ c[x] = Cleared /\ \A r \in Frame : r # x => c[r] = t[r]
             /\ \A u \in All : (\A k \in 1 .. 4 : Path(c, u, k) = Path(t, u, k))
                             /\ Final(c, u) = Final(t, u)
             /\ OffTree(c, x) /\ Tree(c, f \ {x})
<1> DEFINE x == RequestPage(f)
           c == SetMemory(t, x)
<1>1. f \subseteq 2 .. LastPage /\ 2 .. LastPage \subseteq Frame /\ Frame \subseteq Nat
  BY Constants DEF Tree, Frame, Assumptions, PageAssumption
<1>2. x \in f
  BY <1>1, MinIsLeast DEF RequestPage
<1> HIDE DEF x
<1>3. x \in Frame /\ OffTree(t, x)
  <2>1. x \in Frame /\ x # Absent
    BY <1>1, <1>2, Constants
  <2> QED BY <1>2, <2>1 DEF Tree, OffTree
<1>4. /\ c \in Tables /\ c[x] = Cleared /\ \A r \in Frame : r # x => c[r] = t[r]
      /\ \A u \in All : (\A k \in 1 .. 4 : Path(c, u, k) = Path(t, u, k))
                      /\ Final(c, u) = Final(t, u)
  BY <1>3, ClearedAway
<1> HIDE DEF c
<1>5. OffTree(c, x)
  BY <1>3, <1>4 DEF OffTree
<1>6. Tree(c, f \ {x})
  <2>1. \A u \in All, l \in 1 .. 4 : Path(c, u, l) \in (Frame \ (f \ {x})) \cup {Absent}
    BY <1>4 DEF Tree
  <2>2. \A u, w \in All, l, k \in 1 .. 4 :
          Path(c, u, l) # Absent /\ Path(c, u, l) = Path(c, w, k) => l = k /\ Agree(u, w, l - 1)
    BY <1>4 DEF Tree
  <2> QED BY <1>1, <2>1, <2>2 DEF Tree
<1> QED BY <1>2, <1>3, <1>4, <1>5, <1>6 DEF x, c

-----------------------------------------------------------------------------
(***************************************************************************)
(* The walk of an interrupt, level by level.                               *)
(***************************************************************************)
LEMMA KeptTwice ==
  ASSUME NEW t, NEW f, NEW s, NEW g, NEW r, NEW h, Kept(t, f, s, g), Kept(s, g, r, h)
  PROVE  Kept(t, f, r, h)
<1>1. h \subseteq f
  BY DEF Kept
<1>2. ASSUME NEW u \in All
      PROVE  /\ \A k \in 1 .. 4 : Path(t, u, k) # Absent => Path(r, u, k) = Path(t, u, k)
             /\ Final(r, u) = Final(t, u)
  BY DEF Kept
<1>3. ASSUME NEW y \in Frame \ f, OffTree(t, y)
      PROVE  OffTree(r, y) /\ r[y] = t[y]
  <2>1. y \in Frame \ g
    BY DEF Kept
  <2> QED BY <1>3, <2>1 DEF Kept
<1> QED BY <1>1, <1>2, <1>3 DEF Kept

LEMMA KeptSame ==
  ASSUME NEW t, NEW f
  PROVE  Kept(t, f, t, f)
  BY DEF Kept

(* Where no table was, a page that was free becomes one.                   *)
LEMMA Extended ==
  ASSUME Assumptions, NEW t \in Tables, NEW f, Tree(t, f), f # {}, NEW v \in All,
         NEW l \in 1 .. 3, Path(t, v, l) # Absent, Entry(t, Path(t, v, l), v, l) = Absent
  PROVE  LET x == RequestPage(f)
             s == Store(SetMemory(t, x), Path(t, v, l), v, l, x)
         IN  /\ s \in Tables /\ Tree(s, f \ {x}) /\ x = Path(s, v, l + 1)
             /\ Kept(t, f, s, f \ {x})
<1> DEFINE x  == RequestPage(f)
           c  == SetMemory(t, x)
           at == Path(t, v, l)
           s  == Store(c, at, v, l, x)
<1>1. /\ x \in f /\ x \in Frame /\ x \in Frame \ (f \ {x})
      /\ c \in Tables /\ c[x] = Cleared /\ \A r \in Frame : r # x => c[r] = t[r]
      /\ \A u \in All : (\A k \in 1 .. 4 : Path(c, u, k) = Path(t, u, k))
                      /\ Final(c, u) = Final(t, u)
      /\ OffTree(c, x) /\ Tree(c, f \ {x})
  BY Requested
<1> HIDE DEF x, c
<1>2. at = Path(c, v, l) /\ at \in Frame /\ at # Absent /\ l \in 1 .. 4
  BY <1>1 DEF Tree
<1>3. s \in Tables /\ \A r \in Frame : r # at => s[r] = c[r]
  BY <1>1, <1>2 DEF Store, Tables, All
<1>4. Tree(s, f \ {x})
  BY <1>1, <1>2, LinkedTree
<1>5. ASSUME NEW u \in All
      PROVE  IF Agree(u, v, l)
             THEN /\ \A k \in 1 .. l : Path(s, u, k) = Path(c, u, k)
                  /\ Path(s, u, l + 1) = x
                  /\ \A k \in l + 2 .. 4 : Path(s, u, k) = Absent
                  /\ Final(s, u) = Absent
             ELSE /\ \A k \in 1 .. 4 : Path(s, u, k) = Path(c, u, k)
                  /\ Final(s, u) = Final(c, u)
  BY <1>1, <1>2, Linked
<1> HIDE DEF s, at
<1>6. x = Path(s, v, l + 1)
  <2>1. Agree(v, v, l)
    BY DEF Agree
  <2> QED BY <1>5, <2>1
<1>7. ASSUME NEW u \in All, Agree(u, v, l)
      PROVE  (\A k \in l + 1 .. 4 : Path(t, u, k) = Absent) /\ Final(t, u) = Absent
  <2>1. Path(t, u, l) = at /\ u[l] = v[l]
    <3>1. Agree(u, v, l - 1) /\ u[l] = v[l]
      BY <1>7 DEF Agree
    <3> QED BY <1>2, <3>1, AgreePath DEF at
  <2>2. Path(t, u, l + 1) = Absent
    BY <2>1, PathStep DEF Below, Entry, at
  <2> QED BY <2>2, AbsentBelow
<1>8. ASSUME NEW u \in All
      PROVE  /\ \A k \in 1 .. 4 : Path(t, u, k) # Absent => Path(s, u, k) = Path(t, u, k)
             /\ Final(s, u) = Final(t, u)
  <2>1. CASE Agree(u, v, l)
    <3>1. \A k \in 1 .. 4 : k \in 1 .. l \/ k \in l + 1 .. 4
      OBVIOUS
    <3> QED BY <1>1, <1>5, <1>7, <2>1, <3>1
  <2>2. CASE ~Agree(u, v, l)
    BY <1>1, <1>5, <2>2
  <2> QED BY <2>1, <2>2
<1>9. ASSUME NEW y \in Frame \ f, OffTree(t, y)
      PROVE  OffTree(s, y) /\ s[y] = t[y]
  <2>1. y # x /\ y # at /\ y # Absent
    BY <1>1, <1>2, <1>9, Constants DEF OffTree, at
  <2>2. ASSUME NEW u \in All, NEW k \in 1 .. 4
        PROVE  Path(s, u, k) # y
    <3>1. k \in 1 .. l \/ k = l + 1 \/ k \in l + 2 .. 4
      OBVIOUS
    <3>2. Path(c, u, k) # y
      BY <1>1, <1>9 DEF OffTree
    <3>3. CASE Agree(u, v, l)
      BY <1>5, <2>1, <3>1, <3>2, <3>3
    <3>4. CASE ~Agree(u, v, l)
      BY <1>5, <3>2, <3>4
    <3> QED BY <3>3, <3>4
  <2> QED BY <1>1, <1>3, <2>1, <2>2 DEF OffTree
<1>10. Kept(t, f, s, f \ {x})
  BY <1>8, <1>9 DEF Kept
<1> QED BY <1>3, <1>4, <1>6, <1>10 DEF s, at, c, x

LEMMA PageFound ==
  ASSUME Assumptions, NEW f, f \subseteq Frame
  PROVE  RequestPage(f) \in Frame /\ (f # {} => RequestPage(f) \in f)
<1>1. f # {} => Min(f) \in f
  BY MinIsLeast, Constants
<1> QED BY <1>1, Constants DEF RequestPage

LEMMA DescendTyped ==
  ASSUME Assumptions, NEW v \in All, NEW l \in 1 .. 3,
         NEW w \in [table : Tables, unused : SUBSET Frame, at : Frame, none : BOOLEAN]
  PROVE  Descend(w, v, l) \in [table : Tables, unused : SUBSET Frame, at : Frame, none : BOOLEAN]
<1> DEFINE e == Entry(w.table, w.at, v, l)
           x == RequestPage(w.unused)
           c == SetMemory(w.table, x)
           s == Store(c, w.at, v, l, x)
<1>1. v[l] \in Index /\ e \in Frame \cup {Absent} /\ x \in Frame
  BY PageFound DEF All, Entry, Tables
<1>2. c \in Tables
  BY <1>1 DEF SetMemory, Tables, Cleared
<1> HIDE DEF x, c
<1>3. s \in Tables
  BY <1>1, <1>2 DEF Store, Tables
<1>4. CASE e # Absent
  <2>1. Descend(w, v, l) = [w EXCEPT !.at = e]
    BY <1>4 DEF Descend
  <2> HIDE DEF e
  <2> QED BY <1>1, <1>4, <2>1
<1>5. CASE e = Absent
  <2>1. Descend(w, v, l) = [table |-> s, unused |-> w.unused \ {x}, at |-> x,
                            none |-> w.none \/ w.unused = {}]
    BY <1>5 DEF Descend, c, x
  <2> HIDE DEF s
  <2> QED BY <1>1, <1>3, <2>1
<1> QED BY <1>4, <1>5

LEMMA Descended ==
  ASSUME Assumptions, NEW v \in All, NEW l \in 1 .. 3, NEW w, Walked(w, v, l)
  PROVE  Walked(Descend(w, v, l), v, l + 1)
<1> DEFINE e == Entry(w.table, w.at, v, l)
           x == RequestPage(w.unused)
           s == Store(SetMemory(w.table, x), w.at, v, l, x)
<1>1. /\ w.table \in Tables /\ w.unused \in SUBSET Frame /\ w.at \in Frame /\ w.none \in BOOLEAN
      /\ v[l] \in Index
  BY DEF Walked, All
<1>2. CASE e # Absent
  <2>1. e \in Frame
    BY <1>1, <1>2 DEF Entry, Tables
  <2>2. Descend(w, v, l) = [w EXCEPT !.at = e]
    BY <1>2 DEF Descend
  <2>3. ~w.none => e = Path(w.table, v, l + 1)
    <3>1. ~w.none => w.at = Path(w.table, v, l) /\ w.at # Absent
      BY <1>1, Constants DEF Walked
    <3> QED BY <3>1, PathStep DEF Below, Entry
  <2> HIDE DEF e
  <2> QED BY <2>1, <2>2, <2>3 DEF Walked
<1>3. CASE e = Absent
  <2>1. Descend(w, v, l) = [table |-> s, unused |-> w.unused \ {x}, at |-> x,
                            none |-> w.none \/ w.unused = {}]
    BY <1>3 DEF Descend
  <2>2. x \in Frame
    <3>1. w.unused # {} => Min(w.unused) \in w.unused
      BY <1>1, MinIsLeast, Constants
    <3> QED BY <1>1, <3>1, Constants DEF RequestPage
  <2>3. s \in Tables
    <3>1. SetMemory(w.table, x) \in Tables
      BY <1>1, <2>2 DEF SetMemory, Tables, Cleared
    <3> QED BY <1>1, <2>2, <3>1 DEF Store, Tables
  <2>4. ASSUME ~w.none, w.unused # {}
        PROVE  /\ Tree(s, w.unused \ {x}) /\ x = Path(s, v, l + 1)
               /\ Kept(table, Remaining, s, w.unused \ {x})
    <3>1. /\ Tree(w.table, w.unused) /\ w.at = Path(w.table, v, l) /\ w.at # Absent
          /\ Kept(table, Remaining, w.table, w.unused)
      BY <1>1, <2>4, Constants DEF Walked
    <3>2. /\ Tree(s, w.unused \ {x}) /\ x = Path(s, v, l + 1)
          /\ Kept(w.table, w.unused, s, w.unused \ {x})
      <4> DEFINE t  == w.table
                 at == Path(t, v, l)
                 r  == Store(SetMemory(t, x), at, v, l, x)
      <4>1. Entry(t, at, v, l) = Absent
        BY <1>3, <3>1
      <4>2. s = r
        BY <3>1
      <4>3. /\ Tree(r, w.unused \ {x}) /\ x = Path(r, v, l + 1)
            /\ Kept(t, w.unused, r, w.unused \ {x})
        <5> HIDE DEF t
        <5>1. t \in Tables /\ Tree(t, w.unused) /\ at # Absent
          BY <1>1, <3>1 DEF t
        <5> QED BY <2>4, <4>1, <5>1, Extended
      <4> QED BY <4>2, <4>3
    <3> QED BY <3>1, <3>2, KeptTwice
  <2> HIDE DEF s, x
  <2> DEFINE d == Descend(w, v, l)
  <2>5. /\ d.table = s /\ d.unused = w.unused \ {x} /\ d.at = x
        /\ d.none = (w.none \/ w.unused = {})
        /\ d \in [table : Tables, unused : SUBSET Frame, at : Frame, none : BOOLEAN]
    BY <1>1, <2>1, <2>2, <2>3
  <2> HIDE DEF d
  <2>6. Walked(d, v, l + 1)
    BY <2>4, <2>5 DEF Walked
  <2> QED BY <2>6 DEF d
<1> QED BY <1>2, <1>3

-----------------------------------------------------------------------------
(***************************************************************************)
(* Every step keeps the invariant.                                         *)
(***************************************************************************)
LEMMA TableInitHolds ==
  ASSUME Assumptions, TableInit
  PROVE  TableInv
<1>1. table \in Tables /\ table[Root] = Cleared
  BY Constants DEF TableInit, Tables, Garbage, Cleared, Frame, Assumptions, PageAssumption
<1>2. ASSUME NEW u \in All
      PROVE  /\ Path(table, u, 1) = Root /\ \A k \in 2 .. 4 : Path(table, u, k) = Absent
             /\ Final(table, u) = Absent
  <2>1. u[1] \in Index /\ Path(table, u, 1) = Root /\ Root # Absent
    BY PathStep DEF All
  <2>2. Path(table, u, 2) = Absent
    BY <1>1, <2>1 DEF Path, Path2, Cleared
  <2> QED BY <2>1, <2>2, AbsentBelow
<1>3. Typed
  <2>1. /\ 0 \in Frame /\ 0 \in 0 .. 4 /\ 0 \in 0 .. Len(Boot) /\ 0 \in 0 .. MaxCalls
        /\ unused \subseteq Frame
    BY Constants DEF TableInit, Frame, Assumptions, PageAssumption
  <2> QED BY <1>1, <2>1 DEF TableInit, Typed, TableTypeOK, Idle, Tables, WalkLabels, Extending
<1>4. Tree(table, unused)
  <2>1. unused = 2 .. LastPage /\ Root \in Frame /\ Root \notin unused /\ Root # Absent
    BY Constants DEF TableInit, Root
  <2>2. \A u \in All, l \in 1 .. 4 : Path(table, u, l) \in (Frame \ unused) \cup {Absent}
    <3>1. \A l \in 1 .. 4 : l = 1 \/ l \in 2 .. 4
      OBVIOUS
    <3> QED BY <1>2, <2>1, <3>1
  <2>3. \A u, w \in All, l, k \in 1 .. 4 :
          Path(table, u, l) # Absent /\ Path(table, u, l) = Path(table, w, k)
            => l = k /\ Agree(u, w, l - 1)
    <3>1. \A l \in 1 .. 4 : l = 1 \/ l \in 2 .. 4
      OBVIOUS
    <3>2. \A u, w \in All : Agree(u, w, 1 - 1)
      BY DEF Agree
    <3> QED BY <1>2, <3>1, <3>2
  <2> QED BY <2>1, <2>2, <2>3 DEF Tree
<1>5. MainGood(table, unused) /\ HeapApart(table, unused) /\ Installing
  BY DEF TableInit, Idle, MainGood, HeapApart, Installing, Extending
<1>6. Answers
  BY <1>2, Constants DEF TableInit, Answers
<1> QED BY <1>3, <1>4, <1>5, <1>6 DEF TableInv, Whole

(* Main code begins a call of MapAddress.                                  *)
LEMMA Entered ==
  ASSUME Assumptions, TableInv, walk.pc = "idle", NEW here \in {"page", "read"}, NEW v \in Virtual,
         NEW p \in Frame, Enter(here, v, p), booted' \in 0 .. Len(Boot), calls' \in 0 .. MaxCalls,
         UNCHANGED <<table, unused, lent, asked, crossed, shared, exhausted>>,
         \/ booted' = booted
         \/ booted' = booted + 1 /\ v = Boot[booted + 1].v
  PROVE  TableInv'
<1>0. /\ walk' = [pc |-> here, v |-> v, p |-> p, level |-> 1, at |-> Root, new |-> 0]
      /\ walk'.pc \in {"page", "read"} /\ walk'.v = v /\ walk'.level = 1 /\ walk'.at = Root
  BY DEF Enter
<1>1. Typed'
  <2>1. Root \in Frame /\ 0 \in Frame
    BY Constants
  <2>2. walk' \in [pc : WalkLabels, v : Virtual \cup {<<>>},
                   p : Frame, level : 0 .. 4, at : Frame, new : Frame]
    BY <1>0, <2>1 DEF WalkLabels
  <2> QED BY <1>0, <2>2 DEF TableInv, Typed, TableTypeOK, Extending
<1>2. ASSUME ~exhausted, ~shared
      PROVE  Whole'
  <2>1. Tree(table', unused') /\ HeapApart(table, unused)'
    BY <1>2 DEF TableInv, Whole, HeapApart
  <2>2. MainGood(table, unused)'
    BY <1>0, PathStep, Constants DEF MainGood
  <2>3. Installing'
    BY <1>0 DEF Installing, Extending
  <2>4. Answers'
    <3>1. \A k \in 1 .. booted : Final(table, Boot[k].v) # Absent
      BY <1>2 DEF TableInv, Whole, Answers
    <3>2. walk'.pc # "idle" /\ walk'.v = v
      BY <1>0
    <3>3. \A k \in 1 .. booted' : k \in 1 .. booted \/ Boot[k].v = v
      BY DEF TableInv, Typed, TableTypeOK
    <3> QED BY <1>2, <3>1, <3>2, <3>3 DEF TableInv, Whole, Answers
  <2> QED BY <2>1, <2>2, <2>3, <2>4 DEF Whole
<1> QED BY <1>1, <1>2 DEF TableInv

LEMMA BootStep ==
  ASSUME Assumptions, TableInv, BootMap
  PROVE  TableInv'
<1>1. booted + 1 \in 1 .. Len(Boot) /\ booted' \in 0 .. Len(Boot) /\ calls' \in 0 .. MaxCalls
  BY Constants DEF BootMap, TableInv, Typed, TableTypeOK
<1>2. Boot[booted + 1].v \in Virtual /\ Boot[booted + 1].p \in Frame
  BY <1>1, Constants
<1> QED BY <1>1, <1>2, Entered DEF BootMap

LEMMA LaterStep ==
  ASSUME Assumptions, TableInv, LaterMap
  PROVE  TableInv'
<1>1. booted' \in 0 .. Len(Boot) /\ calls' \in 0 .. MaxCalls /\ booted' = booted
  BY DEF LaterMap, TableInv, Typed, TableTypeOK, Assumptions, PageAssumption
<1>2. PICK v \in Virtual : Enter("page", v, 0) \/ \E p \in Registers : Enter("read", v, p)
  BY DEF LaterMap
<1>3. 0 \in Frame /\ Registers \subseteq Frame
  BY Constants
<1>4. CASE Enter("page", v, 0)
  BY <1>1, <1>3, <1>4, Entered DEF LaterMap
<1>5. CASE \E p \in Registers : Enter("read", v, p)
  <2>1. PICK p \in Registers : Enter("read", v, p)
    BY <1>5
  <2> QED BY <1>1, <1>3, <2>1, Entered DEF LaterMap
<1> QED BY <1>2, <1>4, <1>5

(* Where main code goes on, it stays at its table.                         *)
LEMMA GoesOnTyped ==
  ASSUME Assumptions, TableInv, walk.pc # "idle", NEW here \in WalkLabels \ {"idle"}, NEW x \in Frame,
         NEW p \in Frame, walk' = [walk EXCEPT !.pc = here, !.new = x, !.p = p],
         here \in {"page", "keep"} => walk.level = 1,
         here \in {"read"} \cup Extending => walk.level \in 1 .. 3, here # "leaf",
         table' \in Tables, unused' \subseteq Frame, lent' \subseteq Frame, exhausted' \in BOOLEAN,
         UNCHANGED <<booted, calls, asked, crossed, shared>>
  PROVE  /\ Typed'
         /\ walk'.pc = here /\ walk'.v = walk.v /\ walk'.level = walk.level /\ walk'.at = walk.at
         /\ walk'.new = x /\ walk'.p = p
<1>1. /\ walk' \in [pc : WalkLabels, v : Virtual \cup {<<>>},
                    p : Frame, level : 0 .. 4, at : Frame, new : Frame]
      /\ walk'.pc = here /\ walk'.v = walk.v /\ walk'.level = walk.level /\ walk'.at = walk.at
      /\ walk'.new = x /\ walk'.p = p
  BY DEF TableInv, Typed
<1> QED BY <1>1 DEF TableInv, Typed, TableTypeOK, Tables

LEMMA FindStep ==
  ASSUME Assumptions, TableInv, FindPage
  PROVE  TableInv'
<1> DEFINE x == RequestPage(unused)
<1>1. /\ exhausted' = (exhausted \/ unused = {})
      /\ UNCHANGED <<table, unused, lent, booted, calls, asked, crossed, shared>>
  BY DEF FindPage
<1>2. x \in Frame /\ (unused # {} => x \in unused)
  BY PageFound DEF TableInv, Typed, TableTypeOK
<1>3. /\ table' \in Tables /\ unused' \subseteq Frame /\ lent' \subseteq Frame /\ exhausted' \in BOOLEAN
      /\ walk.new \in Frame /\ walk.p \in Frame
      /\ walk = [walk EXCEPT !.new = walk.new, !.p = walk.p]
  BY <1>1 DEF TableInv, Typed, TableTypeOK, Tables
<1>4. CASE walk.pc = "page"
  <2> DEFINE here == IF unused = {} THEN "read" ELSE "keep"
  <2>1. walk' = [walk EXCEPT !.pc = here, !.new = walk.new, !.p = x]
    <3>1. walk' = [walk EXCEPT !.p = x, !.pc = here]
      BY <1>4 DEF FindPage
    <3> QED BY <3>1, <1>3 DEF TableInv, Typed
  <2>2. here \in WalkLabels \ {"idle"} /\ here # "leaf" /\ walk.level = 1 /\ here \notin Extending
        /\ walk.level \in 1 .. 3
    BY <1>4 DEF WalkLabels, TableInv, Typed, Extending
  <2>3. unused # {} => here = "keep"
    OBVIOUS
  <2>4. here \in {"read", "keep"}
    OBVIOUS
  <2>a. unused # {} => x = RequestPage(unused)
    OBVIOUS
  <2> HIDE DEF here, x
  <2>5. /\ Typed'
        /\ walk'.pc = here /\ walk'.v = walk.v /\ walk'.level = walk.level /\ walk'.at = walk.at
        /\ walk'.p = x
    BY <1>1, <1>2, <1>3, <1>4, <2>1, <2>2, GoesOnTyped
  <2>6. ASSUME ~exhausted', ~shared'
        PROVE  Whole'
    <3>1. Whole /\ unused # {}
      BY <1>1, <2>6 DEF TableInv
    <3>2. MainGood(table, unused)' /\ Installing' /\ HeapApart(table, unused)'
      BY <1>1, <1>2, <1>4, <2>2, <2>3, <2>a, <2>5, <3>1 DEF MainGood, Installing, Whole, HeapApart
    <3>3. Answers'
      BY <1>1, <1>4, <2>4, <2>5, <3>1 DEF Answers, Whole
    <3> QED BY <1>1, <3>1, <3>2, <3>3 DEF Whole
  <2> QED BY <2>5, <2>6 DEF TableInv
<1>5. CASE walk.pc = "search"
  <2> DEFINE here == IF unused = {} THEN "clear" ELSE "take"
  <2>1. walk' = [walk EXCEPT !.pc = here, !.new = x, !.p = walk.p]
    <3>1. walk' = [walk EXCEPT !.new = x, !.pc = here]
      BY <1>5 DEF FindPage
    <3> QED BY <3>1, <1>3 DEF TableInv, Typed
  <2>2. here \in WalkLabels \ {"idle"} /\ here # "leaf" /\ walk.level \in 1 .. 3 /\ here \in Extending
        /\ here \notin {"page", "keep"} /\ walk.pc \in Extending
    BY <1>5 DEF WalkLabels, TableInv, Typed, Extending
  <2>3. unused # {} => here = "take"
    OBVIOUS
  <2> HIDE DEF here, x
  <2>5. /\ Typed'
        /\ walk'.pc = here /\ walk'.v = walk.v /\ walk'.level = walk.level /\ walk'.at = walk.at
        /\ walk'.new = x
    BY <1>1, <1>2, <1>3, <1>5, <2>1, <2>2, GoesOnTyped
  <2>6. ASSUME ~exhausted', ~shared'
        PROVE  Whole'
    <3>1. Whole /\ unused # {}
      BY <1>1, <2>6 DEF TableInv
    <3>2. MainGood(table, unused)' /\ Installing' /\ HeapApart(table, unused)'
      BY <1>1, <1>2, <1>5, <2>2, <2>3, <2>5, <3>1 DEF MainGood, Installing, Whole, HeapApart
    <3>3. Answers'
      BY <1>1, <1>5, <2>2, <2>5, <3>1 DEF Answers, Whole
    <3> QED BY <1>1, <3>1, <3>2, <3>3 DEF Whole
  <2> QED BY <2>5, <2>6 DEF TableInv
<1> QED BY <1>4, <1>5 DEF FindPage

LEMMA TakeStep ==
  ASSUME Assumptions, TableInv, TakePage
  PROVE  TableInv'
<1>1. UNCHANGED <<table, booted, calls, asked, crossed, shared, exhausted>>
  BY DEF TakePage
<1>2. /\ table' \in Tables /\ unused' \subseteq Frame /\ lent' \subseteq Frame /\ exhausted' \in BOOLEAN
      /\ walk.new \in Frame /\ walk.p \in Frame
  BY DEF TakePage, TableInv, Typed, TableTypeOK, Tables
<1>3. ASSUME NEW x \in unused, ~exhausted', ~shared', unused' = unused \ {x}
      PROVE  /\ Whole /\ Tree(table', unused') /\ x \in Frame \ unused' /\ OffTree(table, x)
             /\ x \notin lent
  <2>1. Whole
    BY <1>1, <1>3 DEF TableInv
  <2>2. Tree(table', unused')
    BY <1>1, <1>3, <2>1, TreeShrinks DEF Whole
  <2>3. x \in Frame /\ x # Absent
    BY Constants DEF TableInv, Typed, TableTypeOK
  <2>4. OffTree(table, x)
    BY <2>1, <2>3 DEF Whole, Tree, OffTree
  <2> QED BY <1>3, <2>1, <2>2, <2>3, <2>4 DEF Whole, HeapApart
<1>4. CASE walk.pc = "keep"
  <2>1. unused' = unused \ {walk.p} /\ lent' = lent \cup {walk.p}
        /\ walk' = [walk EXCEPT !.pc = "read"]
    BY <1>4 DEF TakePage
  <2>2. walk' = [walk EXCEPT !.pc = "read", !.new = walk.new, !.p = walk.p]
    BY <2>1 DEF TableInv, Typed
  <2>3. /\ walk.level = 1 /\ walk.level \in 1 .. 3 /\ walk.pc \notin Extending
        /\ "read" \in WalkLabels \ {"idle"}
    BY <1>4 DEF TableInv, Typed, WalkLabels, Extending
  <2>4. /\ Typed'
        /\ walk'.pc = "read" /\ walk'.v = walk.v /\ walk'.level = walk.level /\ walk'.at = walk.at
    BY <1>1, <1>2, <1>4, <2>2, <2>3, GoesOnTyped
  <2>5. ASSUME ~exhausted', ~shared'
        PROVE  Whole'
    <3>1. Whole /\ (walk.p \in unused \/ walk.p \in lent)
      BY <1>1, <1>4, <2>5 DEF TableInv, Whole, MainGood
    <3>2. /\ Whole /\ Tree(table', unused') /\ walk.p \in Frame \ unused' /\ OffTree(table, walk.p)
      <4>1. CASE walk.p \in unused
        BY <1>3, <2>1, <2>5, <4>1
      <4>2. CASE walk.p \notin unused
        <5>1. unused' = unused /\ walk.p \in lent
          BY <2>1, <3>1, <4>2
        <5> QED BY <1>1, <3>1, <5>1 DEF Whole, HeapApart
      <4> QED BY <4>1, <4>2
    <3>3. MainGood(table, unused)' /\ Installing' /\ HeapApart(table, unused)'
      BY <1>1, <1>4, <2>1, <2>4, <3>2 DEF MainGood, Installing, Whole, HeapApart, Extending, OffTree
    <3>4. Answers'
      BY <1>1, <1>4, <2>4, <3>2 DEF Answers, Whole
    <3> QED BY <3>2, <3>3, <3>4 DEF Whole
  <2> QED BY <2>4, <2>5 DEF TableInv
<1>5. CASE walk.pc = "take"
  <2>1. unused' = unused \ {walk.new} /\ lent' = lent
        /\ walk' = [walk EXCEPT !.pc = "clear"]
    BY <1>5 DEF TakePage
  <2>2. walk' = [walk EXCEPT !.pc = "clear", !.new = walk.new, !.p = walk.p]
    BY <2>1 DEF TableInv, Typed
  <2>3. /\ walk.level \in 1 .. 3 /\ "clear" \in WalkLabels \ {"idle"} /\ walk.pc \in Extending
        /\ "clear" \in Extending
    BY <1>5 DEF TableInv, Typed, WalkLabels, Extending
  <2>4. /\ Typed'
        /\ walk'.pc = "clear" /\ walk'.v = walk.v /\ walk'.level = walk.level /\ walk'.at = walk.at
        /\ walk'.new = walk.new
    BY <1>1, <1>2, <1>5, <2>2, <2>3, GoesOnTyped
  <2>5. ASSUME ~exhausted', ~shared'
        PROVE  Whole'
    <3>1. walk.new \in unused
      BY <1>1, <1>5, <2>5 DEF TableInv, Whole, MainGood
    <3>2. /\ Whole /\ Tree(table', unused') /\ walk.new \in Frame \ unused'
          /\ OffTree(table, walk.new) /\ walk.new \notin lent
      BY <1>3, <2>1, <2>5, <3>1
    <3>3. MainGood(table, unused)'
      BY <1>1, <1>5, <2>1, <2>4, <3>2 DEF MainGood, Whole
    <3>4. Installing' /\ HeapApart(table, unused)'
      BY <1>1, <2>1, <2>3, <2>4, <3>2 DEF Installing, Whole, HeapApart
    <3>5. Answers'
      BY <1>1, <1>5, <2>4, <3>2 DEF Answers, Whole
    <3> QED BY <3>2, <3>3, <3>4, <3>5 DEF Whole
  <2> QED BY <2>4, <2>5 DEF TableInv
<1> QED BY <1>4, <1>5 DEF TakePage

LEMMA ReadStep ==
  ASSUME Assumptions, TableInv, Read
  PROVE  TableInv'
<1> DEFINE e == Entry(table, walk.at, walk.v, walk.level)
<1>1. /\ walk.v \in All /\ walk.v \in Virtual /\ walk.level \in 1 .. 3 /\ walk.at \in Frame
      /\ walk.pc = "read" /\ table \in Tables /\ unused \subseteq Frame
      /\ UNCHANGED <<table, unused, lent, booted, calls, asked, crossed, shared, exhausted>>
  BY Constants DEF TableInv, Typed, TableTypeOK, Read, Tables
<1>2. walk.v[walk.level] \in Index /\ e \in Frame \cup {Absent}
  BY <1>1 DEF Entry, All, Tables
<1>3. ASSUME ~exhausted, ~shared
      PROVE  /\ Whole /\ walk.at = Path(table, walk.v, walk.level) /\ walk.at # Absent
             /\ Answers /\ e = Path(table, walk.v, walk.level + 1)
  <2>1. Whole
    BY <1>3 DEF TableInv
  <2>2. walk.at = Path(table, walk.v, walk.level) /\ walk.at # Absent
    BY <1>1, <2>1 DEF Whole, MainGood
  <2> QED BY <1>1, <2>1, <2>2, PathStep DEF Whole, Below, Entry
<1>4. CASE e # Absent
  <2>1. Down(e)
    BY <1>4 DEF Read
  <2> HIDE DEF e
  <2>2. Typed'
    <3> DEFINE next == IF walk.level = 3 THEN "leaf" ELSE "read"
    <3>1. walk' = [walk EXCEPT !.level = @ + 1, !.at = e, !.pc = next]
      BY <2>1 DEF Down
    <3>2. /\ next \in {"read", "leaf"} /\ walk.level + 1 \in 2 .. 4
          /\ (next = "leaf" <=> walk.level + 1 = 4)
      BY <1>1
    <3>3. e \in Frame
      BY <1>2, <1>4
    <3> HIDE DEF next
    <3>4. /\ walk' \in [pc : WalkLabels, v : Virtual \cup {<<>>},
                        p : Frame, level : 0 .. 4, at : Frame, new : Frame]
          /\ walk'.pc = next /\ walk'.v = walk.v /\ walk'.level = walk.level + 1
      <4>1. walk \in [pc : WalkLabels, v : Virtual \cup {<<>>},
                      p : Frame, level : 0 .. 4, at : Frame, new : Frame]
        BY DEF TableInv, Typed
      <4>2. walk' = [pc |-> next, v |-> walk.v, p |-> walk.p, level |-> walk.level + 1,
                     at |-> e, new |-> walk.new]
        BY <3>1, <4>1
      <4>3. walk.level + 1 \in 0 .. 4 /\ next \in WalkLabels
        BY <3>2 DEF WalkLabels
      <4> QED BY <3>3, <4>1, <4>2, <4>3
    <3> QED BY <1>1, <3>2, <3>4 DEF TableInv, Typed, TableTypeOK, Tables, Extending
  <2>3. walk'.pc \in {"read", "leaf"} /\ walk'.v = walk.v /\ walk'.at = e
        /\ walk'.level = walk.level + 1
    BY <2>1 DEF TableInv, Typed, Down
  <2>4. ASSUME ~exhausted', ~shared'
        PROVE  Whole'
    <3>1. Tree(table', unused') /\ HeapApart(table, unused)'
      BY <1>1, <1>3, <2>4 DEF Whole, HeapApart
    <3>2. MainGood(table, unused)' /\ Installing'
      BY <1>1, <1>3, <1>4, <2>3, <2>4 DEF MainGood, Installing, Extending
    <3>3. Answers'
      BY <1>1, <1>3, <2>3, <2>4 DEF Answers
    <3> QED BY <3>1, <3>2, <3>3 DEF Whole
  <2> QED BY <2>2, <2>4 DEF TableInv
<1>5. CASE e = Absent
  <2>1. walk' = [walk EXCEPT !.pc = "search", !.new = walk.new, !.p = walk.p]
    <3>1. walk' = [walk EXCEPT !.pc = "search"]
      BY <1>5 DEF Read
    <3> QED BY <3>1 DEF TableInv, Typed
  <2>2. "search" \in WalkLabels \ {"idle"} /\ "search" \in Extending
    BY DEF WalkLabels, Extending
  <2>3. /\ table' \in Tables /\ unused' \subseteq Frame /\ lent' \subseteq Frame
        /\ exhausted' \in BOOLEAN /\ walk.new \in Frame /\ walk.p \in Frame
    BY <1>1 DEF TableInv, Typed, TableTypeOK, Tables
  <2>4. /\ Typed'
        /\ walk'.pc = "search" /\ walk'.v = walk.v /\ walk'.at = walk.at
        /\ walk'.level = walk.level
    BY <1>1, <2>1, <2>2, <2>3, GoesOnTyped
  <2>5. ASSUME ~exhausted', ~shared'
        PROVE  Whole'
    <3>1. Whole
      BY <1>1, <1>3, <2>5
    <3>2. MainGood(table, unused)' /\ HeapApart(table, unused)'
      BY <1>1, <2>4, <3>1 DEF MainGood, Whole, HeapApart
    <3>3. ASSUME NEW k \in 1 .. booted, Agree(Boot[k].v, walk.v, walk.level)
          PROVE  Boot[k].v = walk.v
      <4> DEFINE u == Boot[k].v
                 l == walk.level
                 n == l + 1
      <4>1. u \in All
        BY Constants DEF TableInv, Typed, TableTypeOK
      <4>2. Agree(u, walk.v, n - 1) /\ n \in 1 .. 4
        <5>1. n - 1 = l
          BY <1>1
        <5> HIDE DEF n
        <5> QED BY <1>1, <3>3, <5>1 DEF n
      <4>3. Path(table, u, n) = Path(table, walk.v, n)
        <5> HIDE DEF u, n
        <5> QED BY <4>2, AgreePath
      <4>4. Path(table, u, n) = Absent
        BY <1>1, <1>3, <1>5, <2>5, <4>3
      <4>5. Final(table, u) = Absent
        <5> HIDE DEF u, n
        <5> QED BY <4>2, <4>4, AbsentBelow
      <4> QED BY <1>1, <1>3, <2>5, <4>5 DEF Answers
    <3>4. Installing'
      BY <1>1, <1>5, <2>4, <3>3 DEF Installing, Entry
    <3>5. Answers'
      BY <1>1, <2>4, <3>1 DEF Answers, Whole
    <3> QED BY <1>1, <3>1, <3>2, <3>4, <3>5 DEF Whole
  <2> QED BY <2>4, <2>5 DEF TableInv
<1> QED BY <1>4, <1>5

LEMMA ClearStep ==
  ASSUME Assumptions, TableInv, ClearPage
  PROVE  TableInv'
<1> DEFINE x == walk.new
<1>1. /\ walk.v \in All /\ walk.level \in 1 .. 3 /\ walk.at \in Frame /\ x \in Frame
      /\ walk.pc = "clear" /\ table \in Tables /\ walk.p \in Frame
      /\ unused' \subseteq Frame /\ lent' \subseteq Frame /\ exhausted' \in BOOLEAN
      /\ table' = SetMemory(table, x)
      /\ UNCHANGED <<unused, lent, booted, calls, asked, crossed, shared, exhausted>>
  BY Constants DEF TableInv, Typed, TableTypeOK, ClearPage, Tables, Extending
<1>2. table' \in Tables
  BY <1>1 DEF SetMemory, Tables, Cleared
<1>3. walk' = [walk EXCEPT !.pc = "install", !.new = x, !.p = walk.p]
  <2>1. walk' = [walk EXCEPT !.pc = "install"]
    BY DEF ClearPage
  <2> QED BY <2>1 DEF TableInv, Typed
<1>4. "install" \in WalkLabels \ {"idle"} /\ "install" \in Extending /\ walk.pc \in Extending
  BY <1>1 DEF WalkLabels, Extending
<1>5. /\ Typed'
      /\ walk'.pc = "install" /\ walk'.v = walk.v /\ walk'.at = walk.at /\ walk'.new = x
      /\ walk'.level = walk.level
  BY <1>1, <1>2, <1>3, <1>4, GoesOnTyped
<1>6. ASSUME ~exhausted', ~shared'
      PROVE  Whole'
  <2>1. Whole
    BY <1>1, <1>6 DEF TableInv
  <2>2. x \in Frame \ unused /\ x \notin lent /\ OffTree(table, x)
        /\ walk.at = Path(table, walk.v, walk.level) /\ walk.at # Absent
    BY <1>1, <2>1 DEF Whole, MainGood
  <2>3. /\ table'[x] = Cleared /\ \A r \in Frame : r # x => table'[r] = table[r]
        /\ \A u \in All : (\A k \in 1 .. 4 : Path(table', u, k) = Path(table, u, k))
                        /\ Final(table', u) = Final(table, u)
    BY <1>1, <2>2, ClearedAway
  <2> HIDE DEF x
  <2>4. Tree(table', unused')
    <3>1. Tree(table, unused)
      BY <2>1 DEF Whole
    <3> QED BY <1>1, <2>3, <3>1 DEF Tree
  <2>5. walk.at = Path(table', walk.v, walk.level) /\ walk.at # x
    BY <1>1, <2>2, <2>3 DEF OffTree
  <2>6. \A y : OffTree(table, y) => OffTree(table', y)
    BY <2>3 DEF OffTree
  <2>7. MainGood(table, unused)'
    BY <1>1, <1>5, <2>2, <2>3, <2>5, <2>6 DEF MainGood
  <2>8. HeapApart(table, unused)'
    BY <1>1, <2>1, <2>6 DEF HeapApart, Whole
  <2>9. Installing'
    BY <1>1, <1>4, <1>5, <2>1, <2>3, <2>5 DEF Installing, Whole
  <2>10. Answers'
    <3>1. \A v \in Virtual : Final(table', v) = Final(table, v)
      BY <2>3, Constants
    <3>2. \A k \in 1 .. booted : Boot[k].v \in Virtual
      BY Constants DEF TableInv, Typed, TableTypeOK
    <3> QED BY <1>1, <1>5, <2>1, <3>1, <3>2 DEF Answers, Whole
  <2> QED BY <2>4, <2>7, <2>8, <2>9, <2>10 DEF Whole
<1> QED BY <1>5, <1>6 DEF TableInv

(* What the heap writes into its pages changes no address.                 *)
LEMMA UseStep ==
  ASSUME Assumptions, TableInv, Use
  PROVE  TableInv'
<1> DEFINE c == [k \in Index |-> LastPage]
<1>1. PICK v \in Virtual :
        /\ Translate(v) \in lent /\ table' = [table EXCEPT ![Translate(v)] = c]
        /\ UNCHANGED <<unused, lent, booted, walk, calls, asked, crossed, shared, exhausted>>
  BY DEF Use
<1> DEFINE x == Translate(v)
<1>2. x \in lent /\ table' = [table EXCEPT ![x] = c]
  BY <1>1
<1> HIDE DEF x
<1>3. c \in [Index -> Frame \cup {Absent}] /\ x \in Frame /\ table \in Tables
  <2>1. LastPage \in Frame
    BY DEF Frame, Assumptions, PageAssumption
  <2> QED BY <1>2, <2>1 DEF TableInv, Typed, TableTypeOK, Tables
<1> HIDE DEF c
<1>4. table' \in Tables
  BY <1>2, <1>3 DEF Tables
<1>5. Typed'
  BY <1>1, <1>4 DEF TableInv, Typed, TableTypeOK, Tables
<1>6. ASSUME ~exhausted', ~shared'
      PROVE  Whole'
  <2>1. Whole
    BY <1>1, <1>6 DEF TableInv
  <2>2. OffTree(table, x)
    BY <1>2, <2>1 DEF Whole, HeapApart
  <2>3. /\ \A r \in Frame : r # x => table'[r] = table[r]
        /\ \A u \in All : (\A k \in 1 .. 4 : Path(table', u, k) = Path(table, u, k))
                        /\ Final(table', u) = Final(table, u)
    <3>1. \A r : r # x => table'[r] = table[r]
      BY <1>2, <1>3 DEF Tables
    <3>2. \A u \in All : (\A k \in 1 .. 4 : Path(table', u, k) = Path(table, u, k))
                        /\ Final(table', u) = Final(table, u)
      BY <2>2, <3>1, Overwritten
    <3> QED BY <3>1, <3>2
  <2>4. Tree(table', unused')
    <3>1. Tree(table, unused)
      BY <2>1 DEF Whole
    <3>2. \A u \in All, l \in 1 .. 4 : Path(table', u, l) = Path(table, u, l)
      BY <2>3
    <3>3. unused' = unused
      BY <1>1
    <3> QED BY ONLY <3>1, <3>2, <3>3 DEF Tree
  <2>5. \A y : OffTree(table, y) => OffTree(table', y)
    BY <2>3 DEF OffTree
  <2>6. ASSUME walk.pc # "idle"
        PROVE  walk.at = Path(table', walk.v, walk.level) /\ walk.at # Absent /\ walk.at # x
               /\ walk.at \in Frame
    <3>1. walk.v \in All /\ walk.level \in 1 .. 4 /\ walk.at \in Frame
      BY <2>6, Constants DEF TableInv, Typed, WalkLabels, Extending
    <3>2. walk.at = Path(table, walk.v, walk.level) /\ walk.at # Absent
      BY <2>1, <2>6 DEF Whole, MainGood
    <3> QED BY <2>2, <2>3, <3>1, <3>2 DEF OffTree
  <2>7. MainGood(table, unused)'
    <3>1. MainGood(table, unused)
      BY <2>1 DEF Whole
    <3>2. walk.pc = "install" => table'[walk.new] = table[walk.new]
      BY <1>2, <2>3, <3>1 DEF MainGood
    <3> QED BY <1>1, <2>5, <2>6, <3>1, <3>2 DEF MainGood
  <2>8. HeapApart(table, unused)'
    BY <1>1, <2>1, <2>5 DEF HeapApart, Whole
  <2>9. Installing'
    BY <1>1, <2>1, <2>3, <2>6 DEF Installing, Whole, Extending
  <2>10. Answers'
    <3>1. \A u \in Virtual : Final(table', u) = Final(table, u)
      BY <2>3, Constants
    <3>2. \A k \in 1 .. booted : Boot[k].v \in Virtual
      BY Constants DEF TableInv, Typed, TableTypeOK
    <3> QED BY <1>1, <2>1, <3>1, <3>2 DEF Answers, Whole
  <2> QED BY <2>4, <2>7, <2>8, <2>9, <2>10 DEF Whole
<1> QED BY <1>5, <1>6 DEF TableInv

LEMMA InstallStep ==
  ASSUME Assumptions, TableInv, Install
  PROVE  TableInv'
<1> DEFINE v == walk.v
           l == walk.level
           x == walk.new
<1>1. /\ v \in All /\ v \in Virtual /\ l \in 1 .. 3 /\ x \in Frame /\ walk.at \in Frame
      /\ walk.pc = "install" /\ table \in Tables
  BY Constants DEF TableInv, Typed, TableTypeOK, Install, Tables, Extending
<1>2. /\ table' = Store(table, walk.at, v, l, x)
      /\ UNCHANGED <<unused, lent, booted, calls, asked, crossed, shared, exhausted>>
  BY DEF Install, Link
<1>3. walk' = [pc |-> IF l = 3 THEN "leaf" ELSE "read", v |-> v, p |-> walk.p, level |-> l + 1,
               at |-> x, new |-> x]
  BY DEF Install, Down, TableInv, Typed
<1>4. Typed'
  <2>1. table' \in Tables
    BY <1>1, <1>2 DEF Store, Tables, All
  <2>2. l + 1 \in 2 .. 4 /\ (l = 3 <=> l + 1 = 4) /\ walk.p \in Frame
    BY <1>1 DEF TableInv, Typed
  <2> HIDE DEF v, l, x
  <2>3. /\ walk' \in [pc : WalkLabels, v : Virtual \cup {<<>>},
                      p : Frame, level : 0 .. 4, at : Frame, new : Frame]
        /\ walk'.pc \in {"read", "leaf"} /\ walk'.v = v /\ walk'.level = l + 1
        /\ (walk'.pc = "leaf" <=> l + 1 = 4)
    BY <1>1, <1>3, <2>2 DEF WalkLabels
  <2> QED BY <1>1, <1>2, <2>1, <2>2, <2>3 DEF TableInv, Typed, TableTypeOK, Tables, Extending
<1>5. walk'.pc \in {"read", "leaf"} /\ walk'.v = v /\ walk'.level = l + 1 /\ walk'.at = x
  BY <1>3
<1>6. ASSUME ~exhausted', ~shared'
      PROVE  Whole'
  <2>1. Whole
    BY <1>2, <1>6 DEF TableInv
  <2>2. /\ Tree(table, unused) /\ walk.at = Path(table, v, l) /\ walk.at # Absent
        /\ x \in Frame \ unused /\ table[x] = Cleared /\ OffTree(table, x)
    BY <1>1, <2>1 DEF Whole, MainGood
  <2>3. /\ table[walk.at][v[l]] # Absent => crossed
        /\ \A k \in 1 .. booted : Boot[k].v = v \/ ~Agree(Boot[k].v, v, l)
    BY <1>1, <2>1 DEF Whole, Installing, Extending
  <2> HIDE DEF v, l, x
  <2>4. Tree(table', unused')
    <3>1. Tree(Store(table, Path(table, v, l), v, l, x), unused)
      BY <1>1, <2>2, LinkedTree
    <3> QED BY <1>2, <2>2, <3>1
  <2>5. ASSUME NEW u \in All
        PROVE  IF Agree(u, v, l) THEN Path(table', u, l + 1) = x /\ Final(table', u) = Absent
               ELSE Final(table', u) = Final(table, u)
    <3> DEFINE s == Store(table, Path(table, v, l), v, l, x)
    <3>1. IF Agree(u, v, l) THEN Path(s, u, l + 1) = x /\ Final(s, u) = Absent
          ELSE Final(s, u) = Final(table, u)
      BY <1>1, <2>2, Linked
    <3> QED BY <1>2, <2>2, <3>1
  <2>6. MainGood(table, unused)'
    <3>1. Agree(v, v, l)
      BY DEF Agree
    <3>2. Path(table', v, l + 1) = x /\ x # Absent
      BY <1>1, <2>5, <3>1, Constants
    <3> QED BY <1>5, <3>2 DEF MainGood
  <2>7. Installing' /\ HeapApart(table, unused)'
    <3>1. Installing'
      BY <1>5 DEF Installing, Extending
    <3>2. ASSUME NEW y \in lent
          PROVE  y \in Frame \ unused /\ OffTree(table', y)
      <4>1. y \in Frame \ unused /\ OffTree(table, y) /\ x \notin lent
        BY <1>1, <2>1 DEF Whole, HeapApart, MainGood, x
      <4>2. y # Absent /\ y # x
        BY <4>1, Constants
      <4>3. ASSUME NEW u \in All, NEW k \in 1 .. 4
            PROVE  Path(table', u, k) # y
        <5> DEFINE s == Store(table, Path(table, v, l), v, l, x)
        <5>1. IF Agree(u, v, l)
              THEN /\ \A i \in 1 .. l : Path(s, u, i) = Path(table, u, i)
                   /\ Path(s, u, l + 1) = x
                   /\ \A i \in l + 2 .. 4 : Path(s, u, i) = Absent
              ELSE \A i \in 1 .. 4 : Path(s, u, i) = Path(table, u, i)
          BY <1>1, <2>2, Linked
        <5>2. s = table'
          BY <1>2, <2>2
        <5> HIDE DEF s
        <5>3. k \in 1 .. l \/ k = l + 1 \/ k \in l + 2 .. 4
          BY <1>1
        <5>4. Path(table, u, k) # y
          BY <4>1 DEF OffTree
        <5> QED BY <4>2, <5>1, <5>2, <5>3, <5>4
      <4> QED BY <4>1, <4>3 DEF OffTree
    <3> QED BY <1>2, <3>1, <3>2 DEF HeapApart
  <2>8. ASSUME ~crossed, NEW u \in All, Agree(u, v, l)
        PROVE  Final(table, u) = Absent
    <3>1. Path(table, u, l) = walk.at /\ u[l] = v[l] /\ l \in 1 .. 4
      <4>1. Agree(u, v, l - 1) /\ u[l] = v[l] /\ l \in 1 .. 4
        BY <1>1, <2>8 DEF Agree
      <4> QED BY <2>2, <4>1, AgreePath
    <3>2. Path(table, u, l + 1) = Absent
      BY <1>1, <2>2, <2>3, <2>8, <3>1, PathStep DEF Below
    <3>3. l + 1 \in 1 .. 4
      BY <1>1
    <3> QED BY <3>2, <3>3, AbsentBelow
  <2>9. Answers'
    <3>1. Answers
      BY <2>1 DEF Whole
    <3>2. \A u \in Virtual : Final(table', u) \in {asked[u], Absent}
      BY <2>5, <3>1, Constants DEF Answers
    <3>3. ~crossed => \A u \in Virtual : Final(table', u) = asked[u]
      BY <2>5, <2>8, <3>1, Constants DEF Answers
    <3>4. ASSUME NEW k \in 1 .. booted
          PROVE  Final(table', Boot[k].v) # Absent \/ Boot[k].v = v
      <4>1. Boot[k].v \in All
        BY Constants DEF TableInv, Typed, TableTypeOK
      <4> QED BY <2>3, <2>5, <3>1, <4>1 DEF Answers, v
    <3> QED BY <1>2, <1>5, <3>2, <3>3, <3>4 DEF Answers
  <2> QED BY <2>4, <2>6, <2>7, <2>9 DEF Whole
<1> QED BY <1>4, <1>6 DEF TableInv

LEMMA LeafStep ==
  ASSUME Assumptions, TableInv, Leaf
  PROVE  TableInv'
<1>1. /\ walk.v \in All /\ walk.v \in Virtual /\ walk.p \in Frame /\ walk.at \in Frame
      /\ walk.pc = "leaf" /\ walk.level = 4 /\ table \in Tables
      /\ asked \in [Virtual -> Frame \cup {Absent}]
  BY Constants DEF TableInv, Typed, TableTypeOK, Leaf, Tables
<1>2. /\ table' = Store(table, walk.at, walk.v, 4, walk.p)
      /\ asked' = [asked EXCEPT ![walk.v] = walk.p]
      /\ walk' = Idle
      /\ UNCHANGED <<unused, lent, booted, calls, crossed, shared, exhausted>>
  BY DEF Leaf
<1>3. Typed'
  <2>1. table' \in Tables
    BY <1>1, <1>2 DEF Store, Tables, All
  <2>2. asked' \in [Virtual -> Frame \cup {Absent}]
    BY <1>1, <1>2
  <2>3. 0 \in Frame
    BY Constants
  <2> QED BY <1>2, <2>1, <2>2, <2>3 DEF TableInv, Typed, TableTypeOK, Tables, Idle, WalkLabels, Extending
<1>4. ASSUME ~exhausted', ~shared'
      PROVE  Whole'
  <2>1. Whole
    BY <1>2, <1>4 DEF TableInv
  <2>2. Tree(table, unused) /\ walk.at = Path(table, walk.v, 4) /\ walk.at # Absent /\ Answers
    BY <1>1, <2>1 DEF Whole, MainGood
  <2>3. /\ \A u \in All : /\ \A k \in 1 .. 4 : Path(table', u, k) = Path(table, u, k)
                         /\ Final(table', u) = IF u = walk.v THEN walk.p ELSE Final(table, u)
        /\ Tree(table', unused')
    <3> DEFINE s == Store(table, Path(table, walk.v, 4), walk.v, 4, walk.p)
    <3>1. /\ \A u \in All : /\ \A k \in 1 .. 4 : Path(s, u, k) = Path(table, u, k)
                            /\ Final(s, u) = IF u = walk.v THEN walk.p ELSE Final(table, u)
          /\ Tree(s, unused)
      BY <1>1, <2>2, Leafed
    <3> QED BY <1>2, <2>2, <3>1
  <2>4. MainGood(table, unused)' /\ Installing' /\ HeapApart(table, unused)'
    <3>1. MainGood(table, unused)' /\ Installing'
      BY <1>2 DEF MainGood, Installing, Idle, Extending
    <3>2. \A y : OffTree(table, y) => OffTree(table', y)
      BY <2>3 DEF OffTree
    <3> QED BY <1>2, <2>1, <3>1, <3>2 DEF HeapApart, Whole
  <2>5. Answers'
    <3>1. \A u \in Virtual : asked'[u] = IF u = walk.v THEN walk.p ELSE asked[u]
      BY <1>1, <1>2
    <3>2. /\ \A u \in Virtual : Final(table', u) \in {asked'[u], Absent}
          /\ ~crossed => \A u \in Virtual : Final(table', u) = asked'[u]
      BY <2>2, <2>3, <3>1, Constants DEF Answers
    <3>3. ASSUME NEW k \in 1 .. booted
          PROVE  Final(table', Boot[k].v) # Absent
      <4>1. Boot[k].v \in All
        BY Constants DEF TableInv, Typed, TableTypeOK
      <4>2. walk.p # Absent
        BY <1>1, Constants
      <4> QED BY <2>2, <2>3, <4>1, <4>2 DEF Answers
    <3> QED BY <1>2, <3>2, <3>3 DEF Answers
  <2> QED BY <2>3, <2>4, <2>5 DEF Whole
<1> QED BY <1>3, <1>4 DEF TableInv

LEMMA InterruptStep ==
  ASSUME Assumptions, TableInv, InterruptMap
  PROVE  TableInv'
<1> DEFINE p == RequestPage(unused)
<1>1. PICK v \in Virtual :
        LET w == Walk(v, [table |-> table, unused |-> unused \ {p}, at |-> Root,
                          none |-> exhausted \/ unused = {}])
        IN
        /\ calls < MaxCalls /\ calls' = calls + 1
        /\ table' = Store(w.table, w.at, v, 4, p)
        /\ unused' = w.unused
        /\ lent' = IF unused = {} THEN lent ELSE lent \cup {p}
        /\ asked' = [asked EXCEPT ![v] = p]
        /\ exhausted' = w.none
        /\ crossed' = (crossed \/ walk.pc \in Extending)
        /\ shared' = (shared \/ walk.pc = "take")
        /\ UNCHANGED <<booted, walk>>
  BY DEF InterruptMap
<1> DEFINE w0 == [table |-> table, unused |-> unused \ {p}, at |-> Root,
                  none |-> exhausted \/ unused = {}]
           w == Walk(v, w0)
           t == w.table
<1>2. /\ v \in All /\ p \in Frame /\ table \in Tables /\ unused \in SUBSET Frame
      /\ exhausted \in BOOLEAN /\ shared \in BOOLEAN /\ asked \in [Virtual -> Frame \cup {Absent}]
      /\ calls' \in 0 .. MaxCalls /\ lent \subseteq Frame
      /\ unused # {} => p \in unused
  BY <1>1, PageFound, Constants DEF TableInv, Typed, TableTypeOK, Tables, Assumptions, PageAssumption
<1>3. ~shared => Walked(w, v, 4)
  <2> DEFINE w1 == Descend(w0, v, 1)
             w2 == Descend(w1, v, 2)
  <2>1. ~shared => Walked(w0, v, 1)
    <3>1. ~exhausted /\ ~shared => Tree(table, unused \ {p})
      BY TreeShrinks DEF TableInv, Whole
    <3>2. Root \in Frame /\ Root = Path(table, v, 1)
      BY Constants, PathStep
    <3>3. unused \ {p} = Remaining
      BY DEF Remaining
    <3>4. Kept(table, Remaining, table, Remaining)
      BY KeptSame
    <3>5. /\ w0.table = table /\ w0.unused = Remaining /\ w0.at = Root
          /\ w0.none = (exhausted \/ unused = {})
          /\ w0 \in [table : Tables, unused : SUBSET Frame, at : Frame, none : BOOLEAN]
      BY <1>2, <3>2, <3>3
    <3> HIDE DEF w0, p
    <3> QED BY <3>1, <3>2, <3>3, <3>4, <3>5 DEF Walked
  <2> HIDE DEF w0
  <2>2. ~shared => Walked(w1, v, 2)
    BY <1>2, <2>1, Descended
  <2> HIDE DEF w1
  <2>3. ~shared => Walked(w2, v, 3)
    BY <1>2, <2>2, Descended
  <2> HIDE DEF w2
  <2>4. ~shared => Walked(Descend(w2, v, 3), v, 4)
    BY <1>2, <2>3, Descended
  <2> QED BY <2>4 DEF Walk, w1, w2
<1>4. w.table \in Tables /\ w.unused \subseteq Frame /\ w.at \in Frame /\ w.none \in BOOLEAN
  <2> DEFINE Record == [table : Tables, unused : SUBSET Frame, at : Frame, none : BOOLEAN]
  <2>1. w0 \in Record
    BY <1>2, Constants
  <2> HIDE DEF w0
  <2>2. ASSUME NEW l \in 1 .. 3, NEW y \in Record
        PROVE  Descend(y, v, l) \in Record
    BY <1>2, DescendTyped
  <2> HIDE DEF Record
  <2>3. w \in Record
    BY <2>1, <2>2 DEF Walk
  <2> QED BY <2>3 DEF Record
<1>5. /\ table' = Store(t, w.at, v, 4, p) /\ unused' = w.unused /\ exhausted' = w.none
      /\ asked' = [asked EXCEPT ![v] = p]
      /\ lent' = IF unused = {} THEN lent ELSE lent \cup {p}
      /\ crossed' = (crossed \/ walk.pc \in Extending)
      /\ shared' = (shared \/ walk.pc = "take") /\ UNCHANGED <<booted, walk>>
  BY <1>1
<1> HIDE DEF w, p
<1>6. table' \in Tables
  BY <1>2, <1>4, <1>5 DEF Store, Tables, All
<1>7. Typed'
  <2>1. asked' \in [Virtual -> Frame \cup {Absent}]
    BY <1>2, <1>5
  <2>2. lent' \subseteq Frame /\ shared' \in BOOLEAN
    BY <1>2, <1>5
  <2>3. shared' => crossed'
    BY <1>5 DEF TableInv, Typed, Extending
  <2> QED BY <1>2, <1>4, <1>5, <1>6, <2>1, <2>2, <2>3 DEF TableInv, Typed, TableTypeOK, Tables
<1>8. ASSUME ~exhausted', ~shared'
      PROVE  Whole'
  <2>0. ~shared /\ walk.pc # "take"
    BY <1>2, <1>5, <1>8
  <2>1. ~exhausted /\ unused # {} /\ Tree(t, w.unused) /\ w.at = Path(t, v, 4)
        /\ Kept(table, Remaining, t, w.unused)
    BY <1>3, <1>5, <1>8, <2>0 DEF Walked
  <2>2. Whole /\ Remaining = unused \ {p} /\ p \in unused
    BY <1>2, <2>0, <2>1 DEF TableInv, Remaining, p
  <2> HIDE DEF t
  <2>3. t \in Tables /\ w.at # Absent /\ w.unused \subseteq unused \ {p}
    BY <1>4, <2>1, <2>2, Constants DEF t, Kept
  <2>4. /\ \A u \in All : /\ \A k \in 1 .. 4 : Path(table', u, k) = Path(t, u, k)
                         /\ Final(table', u) = IF u = v THEN p ELSE Final(t, u)
        /\ Tree(table', unused')
    <3> DEFINE s == Store(t, Path(t, v, 4), v, 4, p)
    <3>1. /\ \A u \in All : /\ \A k \in 1 .. 4 : Path(s, u, k) = Path(t, u, k)
                           /\ Final(s, u) = IF u = v THEN p ELSE Final(t, u)
          /\ Tree(s, w.unused)
      BY <1>2, <2>1, <2>3, Leafed
    <3> QED BY <1>5, <2>1, <3>1
  <2>5. \A u \in All : /\ \A k \in 1 .. 4 : Path(table, u, k) # Absent
                                       => Path(table', u, k) = Path(table, u, k)
                    /\ Final(table', u) = IF u = v THEN p ELSE Final(table, u)
    BY <2>1, <2>4 DEF Kept
  <2>6. ASSUME NEW y \in Frame \ Remaining, OffTree(table, y)
        PROVE  OffTree(t, y) /\ t[y] = table[y] /\ OffTree(table', y)
    BY <2>1, <2>4, <2>6 DEF Kept, OffTree
  <2>7. HeapApart(table, unused)'
    <3>1. p \in Frame \ Remaining /\ OffTree(table, p)
      <4>1. p # Absent
        BY <1>2, Constants
      <4> QED BY <1>2, <2>2, <4>1 DEF Whole, Tree, OffTree
    <3>2. \A y \in lent : y \in Frame \ Remaining /\ OffTree(table, y) /\ y \notin unused
      BY <2>2 DEF Whole, HeapApart
    <3> QED BY <1>5, <2>2, <2>3, <2>6, <3>1, <3>2 DEF HeapApart
  <2>8. MainGood(table, unused)'
    <3>1. ASSUME walk.pc # "idle"
          PROVE  walk.at = Path(table', walk.v, walk.level) /\ walk.at # Absent
      <4>1. walk.v \in All /\ walk.level \in 1 .. 4
        BY <3>1, Constants DEF TableInv, Typed, WalkLabels, Extending
      <4> QED BY <2>2, <2>5, <3>1, <4>1 DEF Whole, MainGood
    <3>2. ASSUME walk.pc \in {"clear", "install"}
          PROVE  /\ walk.new \in Frame \ unused' /\ OffTree(table', walk.new) /\ walk.new \notin lent'
                 /\ table'[walk.new] = table[walk.new]
      <4>1. walk.new \in Frame \ unused /\ OffTree(table, walk.new) /\ walk.new \notin lent
        BY <2>2, <3>2 DEF Whole, MainGood
      <4>2. walk.new \in Frame \ Remaining
        BY <2>2, <4>1
      <4>3. OffTree(t, walk.new) /\ t[walk.new] = table[walk.new] /\ OffTree(table', walk.new)
        BY <2>6, <4>1, <4>2
      <4>4. walk.new # w.at
        BY <1>2, <2>1, <4>3 DEF OffTree
      <4>5. table'[walk.new] = t[walk.new]
        BY <1>5, <2>3, <4>1, <4>4 DEF Store, Tables
      <4> QED BY <1>5, <2>2, <2>3, <4>1, <4>3, <4>5
    <3>3. walk.pc = "install" => table[walk.new] = Cleared
      BY <2>2 DEF Whole, MainGood
    <3>4. walk.pc = "keep" => walk.p \in lent'
      BY <1>5, <2>1, <2>2 DEF Whole, MainGood, p
    <3> QED BY <1>5, <2>0, <3>1, <3>2, <3>3, <3>4 DEF MainGood
  <2>9. Installing'
    <3>1. Installing
      BY <2>2 DEF Whole
    <3> QED BY <1>5, <3>1 DEF Installing
  <2>10. Answers'
    <3>1. \A u \in Virtual : asked'[u] = IF u = v THEN p ELSE asked[u]
      BY <1>2, <1>5
    <3>2. Answers /\ p # Absent
      BY <1>2, <2>2, Constants DEF Whole
    <3>3. /\ \A u \in Virtual : Final(table', u) \in {asked'[u], Absent}
          /\ ~crossed => \A u \in Virtual : Final(table', u) = asked'[u]
      BY <2>5, <3>1, <3>2, Constants DEF Answers
    <3>4. \A k \in 1 .. booted : Boot[k].v \in All
      BY Constants DEF TableInv, Typed, TableTypeOK
    <3>5. ASSUME NEW k \in 1 .. booted, ~(walk.pc # "idle" /\ Boot[k].v = walk.v)
          PROVE  Final(table', Boot[k].v) # Absent
      <4>1. Final(table, Boot[k].v) # Absent
        BY <3>2, <3>5 DEF Answers
      <4> QED BY <2>5, <3>2, <3>4, <4>1
    <3> QED BY <1>5, <3>3, <3>5 DEF Answers
  <2> QED BY <2>4, <2>7, <2>8, <2>9, <2>10 DEF Whole
<1> QED BY <1>7, <1>8 DEF TableInv

LEMMA TableNextHolds ==
  ASSUME Assumptions, TableInv, [TableNext]_tableVars
  PROVE  TableInv'
<1>1. CASE UNCHANGED tableVars
  BY <1>1 DEF tableVars, TableInv, Typed, TableTypeOK, Whole, MainGood, HeapApart, Installing, Answers
<1>2. CASE TableNext
  BY <1>2, BootStep, LaterStep, FindStep, TakeStep, ReadStep, ClearStep, InstallStep, LeafStep,
     InterruptStep, UseStep DEF TableNext
<1> QED BY <1>1, <1>2

LEMMA TableInvAlways ==
  ASSUME Assumptions
  PROVE  TableSpec => []TableInv
<1>1. TableInit => TableInv
  BY TableInitHolds
<1>2. TableInv /\ [TableNext]_tableVars => TableInv'
  BY TableNextHolds
<1> QED BY <1>1, <1>2, PTL DEF TableSpec

-----------------------------------------------------------------------------
LEMMA TranslateIs ==
  ASSUME NEW v
  PROVE  Translate(v) = Final(table, v)
  BY DEF Translate, Entry, Final, Path4, Path3, Path2, Below

LEMMA TableInvSafe ==
  ASSUME Assumptions, TableInv
  PROVE  TableSafe
<1>1. TableTypeOK
  BY DEF TableInv, Typed
<1>2. MappedAsAsked /\ NeverElsewhere
  BY TranslateIs DEF MappedAsAsked, NeverElsewhere, Clean, TableInv, Typed, Whole, Answers
<1>3. BootKept
  <2>1. DOMAIN Boot = 1 .. Len(Boot)
    BY LenProperties DEF Assumptions, BootAssumption
  <2> QED BY <2>1, TranslateIs DEF BootKept, TableInv, Whole, Answers
<1> QED BY <1>1, <1>2, <1>3 DEF TableSafe

(* MapAddress with an interrupt's Reserve between any two of its accesses, *)
(* those of RequestPage among them, for any number of pages and entries    *)
(* and any addresses: while there are pages and none found for a table is  *)
(* lent to an interrupt, the processor finds what was last asked for, or   *)
(* nothing if an interrupt came between the reading of an absent entry and *)
(* the storing of the new table, and what Init has mapped stays mapped.    *)
THEOREM TableIsSafe ==
  ASSUME Assumptions
  PROVE  TableSpec => []TableSafe
<1>1. TableInv => TableSafe
  BY TableInvSafe
<1> QED BY <1>1, TableInvAlways, PTL

AsAsked == Map = asked

LEMMA MapIsAsked ==
  ASSUME Assumptions, TableInv
  PROVE  AsAsked
<1>1. asked = [v \in Virtual |-> asked[v]]
  BY DEF TableInv, Typed, TableTypeOK
<1>2. Clean => \A v \in Virtual : Translate(v) = asked[v]
  BY TranslateIs DEF Clean, TableInv, Typed, Whole, Answers
<1> QED BY <1>1, <1>2 DEF Map, AsAsked

LEMMA PromiseStep ==
  ASSUME Assumptions, TableInv, AsAsked, AsAsked', [TableNext]_tableVars
  PROVE  [Promise!MapAddress]_Map
<1>1. Map = asked /\ Map' = asked'
  BY DEF AsAsked
<1>2. asked' = asked \/ \E v \in Virtual, p \in Frame : asked' = [asked EXCEPT ![v] = p]
  <2>1. CASE asked' = asked
    BY <2>1
  <2>2. CASE Leaf
    BY <2>2 DEF Leaf, TableInv, Typed, TableTypeOK
  <2>3. CASE InterruptMap
    <3>1. RequestPage(unused) \in Frame
      BY PageFound DEF TableInv, Typed, TableTypeOK
    <3>2. \E v \in Virtual : asked' = [asked EXCEPT ![v] = RequestPage(unused)]
      BY <2>3 DEF InterruptMap
    <3> QED BY <3>1, <3>2
  <2> QED BY <2>1, <2>2, <2>3 DEF TableNext, tableVars, BootMap, LaterMap, FindPage, TakePage, Read,
                                  ClearPage, Install, Use
<1>3. asked \in [Virtual -> Frame \cup {Absent}]
  BY DEF TableInv, Typed, TableTypeOK
<1>4. \A v \in Virtual, p \in Frame : asked' = [asked EXCEPT ![v] = p] =>
         asked'[v] \in Frame /\ asked' = [asked EXCEPT ![v] = asked'[v]]
  BY <1>3
<1> QED BY <1>1, <1>2, <1>4 DEF Promise!MapAddress

(* The page table is a map from addresses to pages that only MapAddress    *)
(* changes, each time at one address, to the page asked for.               *)
THEOREM TableImplementsMap ==
  ASSUME Assumptions
  PROVE  TableSpec => ImplementsAddressSpace
<1>1. TableInit => Promise!Init
  BY TableInitHolds, MapIsAsked DEF TableInit, Promise!Init, AsAsked
<1>2. TableInv => AsAsked
  BY MapIsAsked
<1>3. TableInv /\ AsAsked /\ AsAsked' /\ [TableNext]_tableVars => [Promise!MapAddress]_Map
  BY PromiseStep
<1> QED BY <1>1, <1>2, <1>3, TableInvAlways, PTL DEF TableSpec, ImplementsAddressSpace, Promise!Spec

-----------------------------------------------------------------------------
(* The boot loader.  A set of numbers up to a bound has a greatest one.        *)
LEMMA MaxIsGreatest ==
  ASSUME NEW n \in Nat, NEW S \in SUBSET (1 .. n), S # {}
  PROVE  Max(S) \in S /\ \A k \in S : k <= Max(S)
<1> DEFINE From(k) == n - k
           D == {From(k) : k \in S}
<1>1. D \in SUBSET Nat /\ D # {}
  <2>1. \A k \in S : From(k) \in Nat
    OBVIOUS
  <2>2. \E k \in S : From(k) \in D
    OBVIOUS
  <2> QED BY <2>1, <2>2
<1>2. Min(D) \in D /\ \A d \in D : Min(D) <= d
  BY <1>1, MinIsLeast
<1>3. PICK x \in S : Min(D) = From(x)
  BY <1>2
<1>4. \A y \in S : From(y) \in D
  OBVIOUS
<1>5. \A y \in S : From(x) <= From(y)
  BY <1>2, <1>3, <1>4
<1>6. \A y \in S : x >= y
  BY <1>5
<1>7. Max(S) \in S /\ \A y \in S : Max(S) >= y
  BY <1>6, Zenon DEF Max
<1> QED
  BY <1>7

(* A set of numbers up to a bound with at most one member has no two.           *)
LEMMA OnlyOne ==
  ASSUME NEW n \in Nat, NEW S \in SUBSET (1 .. n), Cardinality(S) <= 1,
         NEW i \in S, NEW j \in S
  PROVE  i = j
<1>1. IsFiniteSet(S)
  <2>1. IsFiniteSet(1 .. n)
    BY FS_Interval
  <2> QED BY <2>1, FS_Subset
<1>2. SUFFICES ASSUME i # j PROVE FALSE
  OBVIOUS
<1>3. IsFiniteSet({i}) /\ Cardinality({i}) = 1
  BY FS_Singleton
<1>4. IsFiniteSet({i} \cup {j}) /\ Cardinality({i} \cup {j}) = 2
  <2>1. j \notin {i} BY <1>2
  <2> QED BY <1>3, <2>1, FS_AddElement
<1>5. {i} \cup {j} \subseteq S
  OBVIOUS
<1>6. Cardinality({i} \cup {j}) <= Cardinality(S)
  BY <1>1, <1>5, FS_Subset
<1>7. Cardinality(S) \in Nat
  BY <1>1, FS_CardinalityType
<1> QED
  BY <1>4, <1>6, <1>7

(* A kernel is a sequence of segments; none is loaded before its headers are.   *)
LEMMA KernelIsSequence ==
  ASSUME LoaderAssumption, NEW kernel \in Images \cup {<<>>}
  PROVE  /\ Len(kernel) \in Nat /\ DOMAIN kernel = 1 .. Len(kernel)
         /\ Len(kernel) > 0 => kernel \in Images
<1> DEFINE Loaded == [at : Nat, mem : Nat \ {0, 1}]
<1>1. \A k \in Images : k \in Seq(Loaded)
  BY Zenon DEF LoaderAssumption
<1> HIDE DEF Loaded
<1>2. <<>> \in Seq(Loaded) /\ Len(<<>>) = 0
  OBVIOUS
<1>3. kernel \in Seq(Loaded)
  BY <1>1, <1>2
<1> QED
  BY <1>2, <1>3

(* A segment's bytes lie in pages that the loader asks for, and in the machine: *)
(* it asks for a page a byte.                                                   *)
LEMMA AsksEnough ==
  ASSUME LoaderAssumption, NEW kernel \in Images, NEW i \in DOMAIN kernel
  PROVE  Spans(kernel[i]) \subseteq Asked(kernel[i]) /\ Spans(kernel[i]) \subseteq MachinePage
<1> DEFINE at == kernel[i].at
           mem == kernel[i].mem
<1>1. PageBytes \in Nat /\ PageBytes >= 2 /\ TopPage \in Nat
  BY DEF LoaderAssumption
<1>2. kernel[i] \in [at : Nat, mem : Nat \ {0, 1}]
  <2> DEFINE Loaded == [at : Nat, mem : Nat \ {0, 1}]
  <2>1. kernel \in Seq(Loaded)
    BY Zenon DEF LoaderAssumption
  <2> HIDE DEF Loaded
  <2>2. kernel[i] \in Loaded
    BY <2>1
  <2> QED BY <2>2 DEF Loaded
<1>3. at \in Nat /\ mem \in Nat /\ mem >= 2
  BY <1>2
<1>4. at + ((mem - 1) \div PageBytes) <= TopPage
  BY Zenon DEF LoaderAssumption
<1> HIDE DEF at, mem
<1>5. (mem - 1) \div PageBytes <= mem - 2
  <2>1. (mem - 1) \div PageBytes \in Int
    BY <1>1, <1>3
  <2>2. PageBytes * ((mem - 1) \div PageBytes) <= mem - 1
    BY <1>1, <1>3
  <2>3. (mem - 1) \div PageBytes > mem - 2 => PageBytes * ((mem - 1) \div PageBytes) >= 2 * (mem - 1)
    BY <1>1, <1>3, <2>1
  <2> DEFINE q == (mem - 1) \div PageBytes
             r == PageBytes * q
  <2> HIDE DEF q, r
  <2>4. q \in Int /\ r <= mem - 1 /\ (q > mem - 2 => r >= 2 * (mem - 1))
    BY <2>1, <2>2, <2>3 DEF q, r
  <2>5. r \in Int
    BY <1>1, <2>4 DEF r
  <2> QED BY <1>3, <2>4, <2>5 DEF q
<1>6. (mem * PageBytes - 1) \div PageBytes = mem - 1
  <2>1. mem * PageBytes - 1 = PageBytes * (mem - 1) + (PageBytes - 1)
    BY <1>1, <1>3
  <2> QED BY <1>1, <1>3, <2>1
<1>7. (mem - 1) \div PageBytes \in Nat
  BY <1>1, <1>3
<1>8. at .. (at + ((mem - 1) \div PageBytes)) \subseteq at .. (at + (mem - 1) - 1)
  BY <1>3, <1>5, <1>7
<1>9. at .. (at + ((mem - 1) \div PageBytes)) \subseteq 0 .. TopPage
  BY <1>1, <1>3, <1>4, <1>7
<1> QED
  BY <1>6, <1>8, <1>9, Zenon DEF Spans, Asked, SegmentPages, MachinePage, at, mem

(* The two directories are what the volume has of them.                         *)
DirsLooked ==
  pc # "directories" =>
    \A d \in {"KERNEL", "FONTS"} : dir[d] = IF <<"root", d>> \in volume THEN d ELSE "none"

(* Each file is what LoadFile found, from the moment that it is read.           *)
ReadRight(f) == /\ <<opened[f], f>> \in volume
                /\ opened[f] = Home[f] \/ (opened[f] = "root" /\ <<"root", Home[f]>> \notin volume)
FilesRead == /\ pc \notin {"directories", "kernel", "halted"} => ReadRight("Kernel.elf")
             /\ pc \notin {"directories", "kernel", "segments", "vga", "halted"} => ReadRight("zap-vga16.psf")
             /\ pc \in {"framebuffer", "mapsize", "mapbuffer", "map", "rsdp", "exit", "enter", "entered"} =>
                   ReadRight("zap-light16.psf")

(* The segments loaded so far lie in memory that is no longer free, so neither  *)
(* the loader nor the firmware gets it again.                                   *)
SegmentsKept ==
  /\ pc \in {"directories", "kernel"} => image = <<>>
  /\ pc \notin {"directories", "kernel", "segments", "halted"} => seg > Len(image)
  /\ ~denied => \A i \in DOMAIN image :
                   i < seg => Spans(image[i]) \subseteq holding /\ Spans(image[i]) \cap free = {}

(* The buffer is large enough for as long as nothing was added to the map.      *)
MapFits ==
  /\ pc \in {"mapbuffer", "map"} /\ steady => descriptors <= map.size
  /\ pc \in {"rsdp", "exit", "enter", "entered"} /\ buffer /\ steady => map.whole

(* What GetRSDP hands over, from when it has looked.                            *)
Handed ==
  /\ rsdp # 0 => config[rsdp] # "other"
  /\ \A i \in DOMAIN config :
        /\ config[i] = "acpi2"
        /\ \A j \in DOMAIN config : config[j] # "other" => j <= i
        /\ i # 1 /\ (2 * i - 1 > Len(config) => beyond # "acpi2")
        => rsdp = i
TableTaken == pc \in {"exit", "enter", "entered"} => Handed

LoaderInv == LoaderTypeOK /\ DirsLooked /\ FilesRead /\ SegmentsKept /\ MapFits /\ TableTaken

(* Memory for a file is had, or the file is read over some page.                *)
LEMMA IntoPool ==
  ASSUME NEW next, ReadIntoPool(next)
  PROVE  /\ pc' = next \/ pc' = "halted"
         /\ \E pages \in SUBSET free :
               /\ free' = free \ pages
               /\ \/ denied' = denied /\ holding' = holding \ pages
                  \/ denied' = TRUE
         /\ denied \in BOOLEAN => denied' \in BOOLEAN
         /\ holding' \subseteq holding /\ free' \subseteq free
         /\ \E pages : AllocatePool(pages, 0)
<1>1. PICK pages \in SUBSET free :
        /\ AllocatePool(pages, 0)
        /\ \/ holding' = holding \ pages /\ pc' = next /\ UNCHANGED denied
           \/ \E p \in MachinePage :
                 /\ holding' = holding \ (pages \cup {p})
                 /\ pc' \in {next, "halted"}
                 /\ denied' = TRUE
  BY DEF ReadIntoPool
<1>2. free' = free \ pages
  BY <1>1 DEF AllocatePool
<1>3. holding' \subseteq holding /\ (pc' = next \/ pc' = "halted")
      /\ ((denied' = denied /\ holding' = holding \ pages) \/ denied' = TRUE)
  BY <1>1
<1> QED BY <1>1, <1>2, <1>3

LEMMA LoaderStarts == LoaderAssumption /\ LoaderInit => LoaderInv
<1> SUFFICES ASSUME LoaderAssumption, LoaderInit PROVE LoaderInv
  OBVIOUS
<1>1. DirsLooked /\ FilesRead /\ MapFits /\ TableTaken
  BY DEF LoaderInit, DirsLooked, FilesRead, MapFits, TableTaken
<1>2. SegmentsKept
  BY DEF LoaderInit, SegmentsKept
<1>3. config \in BoundedSeq(Guid, MaxTables) /\ rsdp \in 0 .. Len(config)
  <2>1. config = <<>> /\ rsdp = 0 /\ MaxTables \in Nat
    BY DEF LoaderInit, LoaderAssumption
  <2>2. <<>> \in [1 .. 0 -> Guid] /\ Len(<<>>) = 0
    OBVIOUS
  <2>3. 0 \in 0 .. MaxTables
    BY <2>1
  <2>4. <<>> \in UNION {[1 .. m -> Guid] : m \in 0 .. MaxTables}
    BY <2>2, <2>3
  <2>5. BoundedSeq(Guid, MaxTables) = UNION {[1 .. m -> Guid] : m \in 0 .. MaxTables}
    BY Zenon DEF BoundedSeq, SeqOf
  <2> QED BY <2>1, <2>2, <2>4, <2>5
<1>4. free \subseteq MachinePage /\ holding \subseteq MachinePage
  BY DEF LoaderInit, LoaderAssumption, MachinePage
<1>5. descriptors \in 0 .. MaxMap /\ map \in [size : 0 .. MaxMap, whole : BOOLEAN, fresh : BOOLEAN]
      /\ events \in 0 .. MaxEvents /\ seg \in 1 .. (Len(image) + 1)
  BY DEF LoaderInit, LoaderAssumption
<1>6. /\ pc \in PCs /\ volume \in Volumes
      /\ dir \in [{"KERNEL", "FONTS"} -> {"none", "KERNEL", "FONTS"}]
      /\ opened \in [Files -> {"none", "root", "KERNEL", "FONTS"}]
      /\ image \in Images \cup {<<>>} /\ denied \in BOOLEAN /\ buffer \in BOOLEAN
      /\ steady \in BOOLEAN /\ services \in BOOLEAN /\ beyond \in Guid
  BY DEF LoaderInit, PCs, Guid
<1> QED
  BY <1>1, <1>2, <1>3, <1>4, <1>5, <1>6 DEF LoaderInv, LoaderTypeOK

(* The directories and the files read from them.                                *)
LEMMA FilesKept ==
  ASSUME LoaderInv, [LoaderNext]_loaderVars
  PROVE  DirsLooked' /\ FilesRead'
<1>1. DirsLooked /\ FilesRead /\ dir \in [{"KERNEL", "FONTS"} -> {"none", "KERNEL", "FONTS"}]
      /\ opened \in [Files -> {"none", "root", "KERNEL", "FONTS"}]
  BY DEF LoaderInv, LoaderTypeOK
<1>2. CASE Directories
  <2>1. DirsLooked'
    BY <1>2 DEF Directories, DirsLooked, LoadFile
  <2>2. FilesRead'
    BY <1>2 DEF Directories, FilesRead
  <2> QED BY <2>1, <2>2
<1>3. ASSUME NEW f \in Files, pc # "directories", LoadFile(dir[Home[f]], f) # "none", Open(f),
             UNCHANGED <<volume, dir>>
      PROVE  ReadRight(f)' /\ \A g \in Files : g # f /\ ReadRight(g) => ReadRight(g)'
  <2>1. Home[f] \in {"KERNEL", "FONTS"}
    BY DEF Home
  <2>2. dir[Home[f]] = IF <<"root", Home[f]>> \in volume THEN Home[f] ELSE "none"
    BY <1>1, <1>3, <2>1 DEF DirsLooked
  <2>3. opened'[f] = LoadFile(dir[Home[f]], f) /\ \A g \in Files : g # f => opened'[g] = opened[g]
    BY <1>1, <1>3 DEF Open
  <2> DEFINE from == IF dir[Home[f]] = "none" THEN "root" ELSE dir[Home[f]]
  <2>4. <<from, f>> \in volume /\ opened'[f] = from
    BY <1>3, <2>3 DEF LoadFile
  <2>5. from = Home[f] \/ (from = "root" /\ <<"root", Home[f]>> \notin volume)
    BY <2>1, <2>2
  <2> HIDE DEF from
  <2>6. ReadRight(f)'
    BY <1>3, <2>4, <2>5 DEF ReadRight
  <2>7. \A g \in Files : g # f /\ ReadRight(g) => ReadRight(g)'
    BY <1>3, <2>3 DEF ReadRight
  <2> QED BY <2>6, <2>7
<1>4. {"Kernel.elf", "zap-vga16.psf", "zap-light16.psf"} \subseteq Files
  BY DEF Files
<1>5. CASE LoadHeaders
  <2>1. ReadRight("Kernel.elf")'
    <3>1. Home["Kernel.elf"] = "KERNEL"
      BY DEF Home, Files
    <3> QED BY <1>3, <1>4, <1>5, <3>1 DEF LoadHeaders
  <2>2. /\ pc = "kernel" /\ UNCHANGED <<volume, dir>>
        /\ pc' = "segments" \/ pc' = "halted"
    BY <1>5, IntoPool DEF LoadHeaders
  <2>3. DirsLooked'
    BY <1>1, <2>2 DEF DirsLooked
  <2>4. FilesRead'
    BY <2>1, <2>2 DEF FilesRead
  <2> QED BY <2>3, <2>4
<1>6. CASE LoadPSFFont("vga", "zap-vga16.psf", "light")
  <2>0. Home["zap-vga16.psf"] = "FONTS"
    BY DEF Home, Files
  <2>1. ReadRight("zap-vga16.psf")' /\ (ReadRight("Kernel.elf") => ReadRight("Kernel.elf")')
    BY <1>3, <1>4, <1>6, <2>0 DEF LoadPSFFont
  <2>2. /\ pc = "vga" /\ UNCHANGED <<volume, dir>>
        /\ pc' = "light" \/ pc' = "halted"
    BY <1>6, IntoPool DEF LoadPSFFont
  <2>3. DirsLooked'
    BY <1>1, <2>2 DEF DirsLooked
  <2>4. ReadRight("Kernel.elf")
    BY <1>1, <2>2 DEF FilesRead
  <2>5. FilesRead'
    BY <2>1, <2>2, <2>4 DEF FilesRead
  <2> QED BY <2>3, <2>5
<1>7. CASE LoadPSFFont("light", "zap-light16.psf", "framebuffer")
  <2>0. Home["zap-light16.psf"] = "FONTS"
    BY DEF Home, Files
  <2>1. ReadRight("zap-light16.psf")' /\ (ReadRight("Kernel.elf") => ReadRight("Kernel.elf")')
        /\ (ReadRight("zap-vga16.psf") => ReadRight("zap-vga16.psf")')
    BY <1>3, <1>4, <1>7, <2>0 DEF LoadPSFFont
  <2>2. /\ pc = "light" /\ UNCHANGED <<volume, dir>>
        /\ pc' = "framebuffer" \/ pc' = "halted"
    BY <1>7, IntoPool DEF LoadPSFFont
  <2>3. DirsLooked'
    BY <1>1, <2>2 DEF DirsLooked
  <2>4. ReadRight("Kernel.elf") /\ ReadRight("zap-vga16.psf")
    BY <1>1, <2>2 DEF FilesRead
  <2>5. FilesRead'
    BY <2>1, <2>2, <2>4 DEF FilesRead
  <2> QED BY <2>3, <2>5
<1>8. ASSUME UNCHANGED <<volume, dir, opened>>,
             \/ pc' = pc
             \/ pc # "directories" /\ pc' = "halted"
             \/ <<pc, pc'>> \in {<<"segments", "vga">>, <<"framebuffer", "mapsize">>,
                   <<"mapsize", "mapbuffer">>, <<"mapbuffer", "map">>, <<"map", "rsdp">>,
                   <<"rsdp", "exit">>, <<"exit", "enter">>, <<"enter", "entered">>}
      PROVE  DirsLooked' /\ FilesRead'
  <2>1. \A f : ReadRight(f) => ReadRight(f)'
    BY <1>8 DEF ReadRight
  <2>2. FilesRead'
    BY <1>1, <1>8, <2>1 DEF FilesRead
  <2>3. DirsLooked'
    BY <1>1, <1>8 DEF DirsLooked
  <2> QED BY <2>2, <2>3
<1>9. CASE LoadSegment \/ SegmentsDone \/ GetFramebuffer \/ MapSize \/ MapBuffer \/ GetMemoryMap
  BY <1>8, <1>9 DEF LoadSegment, SegmentsDone, GetFramebuffer, MapSize, MapBuffer, GetMemoryMap, loader
<1>10. CASE GetRSDP \/ ExitBootServices \/ EnterKernel \/ Event \/ Stopped \/ UNCHANGED loaderVars
  BY <1>8, <1>10 DEF GetRSDP, ExitBootServices, EnterKernel, Event, Stopped, loaderVars, loader
<1>11. ASSUME NEW at \in {"kernel", "vga", "light"}, NEW file, Missing(at, file)
       PROVE  DirsLooked' /\ FilesRead'
  BY <1>8, <1>11 DEF Missing, loader
<1> QED
  BY <1>2, <1>5, <1>6, <1>7, <1>9, <1>10, <1>11 DEF LoaderNext

(* The kernel's segments: what is loaded stays held and is never free again.    *)
LEMMA SegmentsStay ==
  ASSUME LoaderAssumption, LoaderInv, [LoaderNext]_loaderVars
  PROVE  SegmentsKept'
<1>1. SegmentsKept /\ seg \in 1 .. (Len(image) + 1) /\ denied \in BOOLEAN
  BY DEF LoaderInv, LoaderTypeOK
<1>2. image \in Images \cup {<<>>} /\ (image = <<>> => seg = 1)
  BY DEF LoaderInv, LoaderTypeOK
<1>4. Len(image) \in Nat /\ seg \in Nat /\ DOMAIN image = 1 .. Len(image)
  BY <1>1, <1>2, KernelIsSequence
<1>5. CASE LoadHeaders
  <2>1. image = <<>> /\ seg = 1 /\ seg' = 1
    BY <1>1, <1>2, <1>5 DEF LoadHeaders, SegmentsKept
  <2>2. image' \in Images /\ pc' \in {"segments", "halted"}
    BY <1>5, IntoPool DEF LoadHeaders
  <2>3. \A i \in DOMAIN image' : i >= 1
    <3>1. DOMAIN image' = 1 .. Len(image')
      BY <2>2, KernelIsSequence
    <3> QED BY <3>1
  <2>4. \A i \in DOMAIN image' : ~(i < seg')
    BY <2>1, <2>3
  <2> QED BY <2>2, <2>4 DEF SegmentsKept
<1>6. CASE LoadSegment
  <2> DEFINE s == image[seg]
  <2>1. /\ pc' = pc /\ pc = "segments" /\ seg <= Len(image) /\ seg' = seg + 1 /\ image' = image
        /\ free' = (IF Asked(s) \subseteq free THEN free \ Asked(s) ELSE free)
        /\ denied' = (denied \/ ~ (Asked(s) \subseteq free))
        /\ holding' = holding \cup Spans(s)
    BY <1>6 DEF LoadSegment
  <2>2. image \in Images /\ seg \in DOMAIN image
    BY <1>1, <1>2, <1>4, <2>1, KernelIsSequence
  <2>3. Spans(s) \subseteq Asked(s)
    BY <2>2, AsksEnough
  <2> HIDE DEF s
  <2>4. ASSUME ~denied', NEW i \in DOMAIN image, i < seg + 1
        PROVE  Spans(image[i]) \subseteq holding' /\ Spans(image[i]) \cap free' = {}
    <3>1. ~denied /\ Asked(s) \subseteq free /\ free' = free \ Asked(s)
      BY <2>1, <2>4
    <3>2. CASE i = seg
      <4>1. image[i] = s
        BY <3>2 DEF s
      <4> QED BY <2>1, <2>3, <3>1, <4>1
    <3>3. CASE i # seg
      <4>1. i < seg
        BY <1>4, <2>4, <3>3
      <4>2. Spans(image[i]) \subseteq holding /\ Spans(image[i]) \cap free = {}
        BY <1>1, <3>1, <4>1 DEF SegmentsKept
      <4> QED BY <2>1, <3>1, <4>2
    <3> QED BY <3>2, <3>3
  <2> QED BY <2>1, <2>4 DEF SegmentsKept
<1>7. ASSUME UNCHANGED <<image, seg, denied>>,
             NEW pages \in SUBSET free, free' = free \ pages, holding \ pages \subseteq holding',
             pc' = "segments" => pc = "segments",
             pc' \in {"directories", "kernel"} => pc \in {"directories", "kernel"},
             pc \in {"directories", "kernel"} => pc' \in {"directories", "kernel", "halted"},
             pc = "segments" /\ pc' \notin {"segments", "halted"} => seg > Len(image),
             pc = "halted" => pc' = "halted"
      PROVE  SegmentsKept'
  <2>1. ASSUME ~denied, NEW i \in DOMAIN image, i < seg
        PROVE  Spans(image[i]) \subseteq holding' /\ Spans(image[i]) \cap free' = {}
    <3>1. Spans(image[i]) \subseteq holding /\ Spans(image[i]) \cap free = {}
      BY <1>1, <2>1 DEF SegmentsKept
    <3> QED BY <1>7, <3>1
  <2>2. /\ pc' \in {"directories", "kernel"} => image' = <<>>
        /\ pc' \notin {"directories", "kernel", "segments", "halted"} => seg' > Len(image')
    BY <1>1, <1>7 DEF SegmentsKept
  <2> QED BY <1>7, <2>1, <2>2 DEF SegmentsKept
<1>8. ASSUME UNCHANGED <<image, seg, denied, free, holding>>,
             pc' = "segments" => pc = "segments",
             pc' \in {"directories", "kernel"} => pc \in {"directories", "kernel"},
             pc \in {"directories", "kernel"} => pc' \in {"directories", "kernel", "halted"},
             pc = "segments" /\ pc' \notin {"segments", "halted"} => seg > Len(image),
             pc = "halted" => pc' = "halted"
      PROVE  SegmentsKept'
  <2>1. {} \in SUBSET free /\ free' = free \ {} /\ holding \ {} \subseteq holding'
    BY <1>8
  <2> QED BY <1>7, <1>8, <2>1
<1>9. CASE Directories \/ SegmentsDone \/ GetFramebuffer \/ MapSize \/ GetMemoryMap
  BY <1>8, <1>9 DEF Directories, SegmentsDone, GetFramebuffer, MapSize, GetMemoryMap, loader, firmware
<1>10. CASE GetRSDP \/ ExitBootServices \/ EnterKernel \/ Stopped \/ UNCHANGED loaderVars
  BY <1>8, <1>10 DEF GetRSDP, ExitBootServices, EnterKernel, Stopped, loaderVars, loader, firmware
<1>11. ASSUME NEW at \in {"kernel", "vga", "light"}, NEW file, Missing(at, file)
       PROVE  SegmentsKept'
  BY <1>8, <1>11 DEF Missing, loader, firmware
<1>12. ASSUME NEW at, NEW file, NEW next, LoadPSFFont(at, file, next),
              <<at, next>> \in {<<"vga", "light">>, <<"light", "framebuffer">>}
       PROVE  SegmentsKept'
  <2>1. PICK pages \in SUBSET free : /\ free' = free \ pages
                                    /\ \/ denied' = denied /\ holding' = holding \ pages
                                       \/ denied' = TRUE
    BY <1>12, IntoPool DEF LoadPSFFont
  <2>2. UNCHANGED <<image, seg>> /\ pc = at /\ (pc' = next \/ pc' = "halted")
    BY <1>12, IntoPool DEF LoadPSFFont
  <2>3. pc \in {"vga", "light"} /\ pc' \in {"light", "framebuffer", "halted"}
    BY <1>12, <2>2
  <2>4. CASE denied' = denied /\ holding' = holding \ pages
    BY <1>7, <2>1, <2>2, <2>3, <2>4
  <2>5. CASE denied' = TRUE
    BY <1>1, <2>2, <2>3, <2>5 DEF SegmentsKept
  <2> QED BY <2>1, <2>4, <2>5
<1>13. CASE MapBuffer
  <2>1. CASE UNCHANGED firmware
    BY <1>8, <1>13, <2>1 DEF MapBuffer, firmware
  <2>2. ASSUME NEW pages \in SUBSET free, NEW grows \in 0 .. 1, AllocatePool(pages, grows),
               holding' = holding \ pages
        PROVE  SegmentsKept'
    <3>1. free' = free \ pages
      BY <2>2 DEF AllocatePool
    <3>2. UNCHANGED <<image, seg, denied>> /\ pc = "mapbuffer" /\ pc' = "map"
      BY <1>13 DEF MapBuffer
    <3> QED BY <1>7, <2>2, <3>1, <3>2
  <2> QED BY <1>13, <2>1, <2>2 DEF MapBuffer
<1>14. CASE Event
  <2>1. PICK p \in free : free' = free \ {p} /\ holding' = holding \ {p}
    BY <1>14 DEF Event
  <2>2. UNCHANGED <<pc, image, seg, denied>> /\ {p} \in SUBSET free
    BY <1>14, <2>1 DEF Event
  <2> QED BY <1>7, <2>1, <2>2
<1> QED
  BY <1>5, <1>6, <1>9, <1>10, <1>11, <1>12, <1>13, <1>14 DEF LoaderNext

(* The memory map: no step but the firmware's own lengthens it unnoticed.       *)
LEMMA MapStaysFit ==
  ASSUME LoaderAssumption, LoaderInv, [LoaderNext]_loaderVars
  PROVE  MapFits'
<1>1. /\ MapFits /\ descriptors \in Nat /\ map \in [size : 0 .. MaxMap, whole : BOOLEAN, fresh : BOOLEAN]
      /\ steady \in BOOLEAN /\ buffer \in BOOLEAN /\ MaxMap \in Nat
  BY DEF LoaderInv, LoaderTypeOK, LoaderAssumption
<1>2. CASE MapSize
  <2>1. PICK guess \in 0 .. MaxMap :
            map' = [map EXCEPT !.size = IF guess < descriptors THEN descriptors ELSE guess]
    BY <1>2 DEF MapSize
  <2>2. pc' = "mapbuffer" /\ descriptors' = descriptors
    BY <1>2 DEF MapSize, firmware
  <2>3. map'.size = IF guess < descriptors THEN descriptors ELSE guess
    BY <1>1, <2>1
  <2> QED BY <1>1, <2>2, <2>3 DEF MapFits
<1>3. CASE MapBuffer
  <2>1. pc = "mapbuffer" /\ pc' = "map" /\ map' = map
    BY <1>3 DEF MapBuffer
  <2>2. CASE UNCHANGED <<firmware, steady>>
    BY <1>1, <2>1, <2>2 DEF MapFits, firmware
  <2>3. ASSUME NEW pages, NEW grows \in 0 .. 1, AllocatePool(pages, grows),
               steady' = (steady /\ grows = 0)
        PROVE  MapFits'
    <3>1. descriptors' = descriptors + grows
      BY <2>3 DEF AllocatePool
    <3>2. steady' => steady /\ grows = 0
      BY <2>3, Zenon
    <3>3. steady' => steady /\ descriptors' = descriptors
      BY <1>1, <3>1, <3>2
    <3> QED BY <1>1, <2>1, <3>3 DEF MapFits
  <2> QED BY <1>3, <2>2, <2>3 DEF MapBuffer
<1>4. CASE GetMemoryMap
  <2>1. /\ pc = "map" /\ pc' = "rsdp" /\ steady' = steady /\ buffer' = buffer
        /\ map'.whole = (buffer /\ descriptors <= map.size)
    BY <1>4 DEF GetMemoryMap
  <2> QED BY <1>1, <2>1 DEF MapFits
<1>5. CASE Event
  <2>1. PICK grows \in 0 .. 1 :
            /\ descriptors' = descriptors + grows
            /\ steady' = (steady /\ (grows = 0 \/ pc \notin {"mapbuffer", "map"}))
    BY <1>5 DEF Event
  <2>2. map' = [map EXCEPT !.fresh = FALSE] /\ UNCHANGED <<pc, buffer>>
    BY <1>5 DEF Event
  <2>3. map'.size = map.size /\ map'.whole = map.whole
    BY <1>1, <2>2
  <2>4. steady' => steady
    BY <2>1, Zenon
  <2>5. steady' /\ pc \in {"mapbuffer", "map"} => grows = 0
    BY <2>1, Zenon
  <2>6. steady' /\ pc \in {"mapbuffer", "map"} => descriptors' = descriptors
    BY <1>1, <2>1, <2>5
  <2> QED BY <1>1, <2>2, <2>3, <2>4, <2>6 DEF MapFits
<1>6. ASSUME UNCHANGED <<map, buffer, steady>>,
             pc' \in {"mapbuffer", "map"} => pc' = pc /\ descriptors' = descriptors,
             pc' \in {"rsdp", "exit", "enter", "entered"} => pc \in {"rsdp", "exit", "enter", "entered"}
      PROVE  MapFits'
  BY <1>1, <1>6 DEF MapFits
<1>7. CASE Directories \/ LoadSegment \/ SegmentsDone \/ GetFramebuffer
  BY <1>6, <1>7 DEF Directories, LoadSegment, SegmentsDone, GetFramebuffer, loader, firmware
<1>11. CASE LoadHeaders
  <2>1. UNCHANGED <<map, buffer, steady>> /\ (pc' = "segments" \/ pc' = "halted")
    BY <1>11, IntoPool DEF LoadHeaders
  <2> QED BY <1>6, <2>1
<1>8. CASE GetRSDP \/ ExitBootServices \/ EnterKernel \/ Stopped \/ UNCHANGED loaderVars
  BY <1>6, <1>8 DEF GetRSDP, ExitBootServices, EnterKernel, Stopped, loaderVars, loader, firmware
<1>9. ASSUME NEW at, NEW file, Missing(at, file) PROVE MapFits'
  BY <1>6, <1>9 DEF Missing, loader, firmware
<1>10. ASSUME NEW at, NEW file, NEW next \in {"light", "framebuffer"}, LoadPSFFont(at, file, next)
       PROVE  MapFits'
  <2>1. UNCHANGED <<map, buffer, steady>> /\ (pc' = next \/ pc' = "halted")
    BY <1>10, IntoPool DEF LoadPSFFont
  <2> QED BY <1>6, <1>10, <2>1
<1> QED
  BY <1>2, <1>3, <1>4, <1>5, <1>7, <1>8, <1>9, <1>10, <1>11 DEF LoaderNext

(* GetRSDP's loop: the last table that begins like an RSDP and is compared with *)
(* a GUID that is not ACPI 2.0's; there is one ACPI 2.0 GUID at most.           *)
LEMMA LastIsTaken ==
  ASSUME LoaderAssumption, GetRSDP
  PROVE  Handed' /\ rsdp' \in 0 .. Len(config')
<1> DEFINE taken == {i \in DOMAIN config' :
                        CompareGuid(Compared(i), "acpi2") # 0 /\ RSDPTable(config'[i])}
           modern == {i \in DOMAIN config' : config'[i] = "acpi2"}
<1>1. config' \in BoundedSeq(Guid, MaxTables) /\ Cardinality(modern) <= 1
  BY DEF GetRSDP
<1>2. PICK n \in 0 .. MaxTables : config' \in [1 .. n -> Guid]
  BY <1>1, Zenon DEF BoundedSeq, SeqOf
<1>3. n \in Nat /\ DOMAIN config' = 1 .. n /\ Len(config') = n
  BY <1>2 DEF LoaderAssumption
<1>4. rsdp' = IF taken = {} THEN 0 ELSE Max(taken)
  BY Zenon DEF GetRSDP
<1>5. taken \in SUBSET (1 .. n) /\ modern \in SUBSET (1 .. n)
  BY <1>3
<1>6. taken # {} => rsdp' \in taken /\ \A k \in taken : k <= rsdp'
  BY <1>3, <1>4, <1>5, MaxIsGreatest
<1>7. rsdp' \in 0 .. n
  BY <1>3, <1>4, <1>5, <1>6
<1>8. ASSUME rsdp' # 0 PROVE config'[rsdp'] # "other"
  <2>1. rsdp' \in taken
    BY <1>4, <1>6, <1>8
  <2>2. RSDPTable(config'[rsdp'])
    BY <2>1
  <2> QED BY <2>2 DEF RSDPTable
<1>9. ASSUME NEW i \in DOMAIN config', config'[i] = "acpi2",
             \A j \in DOMAIN config' : config'[j] # "other" => j <= i,
             i # 1, 2 * i - 1 > Len(config') => beyond' # "acpi2"
      PROVE  rsdp' = i
  <2>1. i \in 1 .. n
    BY <1>3, <1>9
  <2>2. Compared(i) # "acpi2"
    <3>1. CASE 2 * i - 1 <= Len(config')
      <4>1. Compared(i) = config'[2 * i - 1] /\ 2 * i - 1 \in DOMAIN config'
        BY <1>3, <2>1, <3>1 DEF Compared
      <4>2. 2 * i - 1 # i
        BY <1>9, <2>1
      <4>3. i \in modern
        BY <1>9
      <4>4. ASSUME config'[2 * i - 1] = "acpi2" PROVE FALSE
        <5>1. 2 * i - 1 \in modern
          BY <4>1, <4>4
        <5> HIDE DEF modern
        <5> QED BY <1>1, <1>3, <1>5, <4>2, <4>3, <5>1, OnlyOne, ZenonT(60)
      <4> QED BY <4>1, <4>4
    <3>2. CASE 2 * i - 1 > Len(config')
      BY <1>3, <1>9, <2>1, <3>2 DEF Compared
    <3> QED BY <1>3, <2>1, <3>1, <3>2
  <2>3. CompareGuid(Compared(i), "acpi2") # 0
    BY <2>2 DEF CompareGuid
  <2>4. i \in taken
    BY <1>9, <2>3 DEF RSDPTable
  <2>5. rsdp' \in taken /\ i <= rsdp'
    BY <1>6, <2>4
  <2>6. rsdp' <= i
    <3>1. rsdp' \in DOMAIN config' /\ RSDPTable(config'[rsdp'])
      BY <2>5
    <3> QED BY <1>9, <3>1 DEF RSDPTable
  <2> QED BY <1>3, <1>7, <2>1, <2>5, <2>6
<1>10. Handed'
  BY <1>8, <1>9 DEF Handed
<1> QED
  BY <1>3, <1>7, <1>10

LEMMA TableStays ==
  ASSUME LoaderAssumption, LoaderInv, [LoaderNext]_loaderVars
  PROVE  TableTaken' /\ rsdp' \in 0 .. Len(config') /\ config' \in BoundedSeq(Guid, MaxTables)
<1>1. TableTaken /\ rsdp \in 0 .. Len(config) /\ config \in BoundedSeq(Guid, MaxTables)
  BY DEF LoaderInv, LoaderTypeOK
<1>2. CASE GetRSDP
  BY <1>2, LastIsTaken DEF GetRSDP, TableTaken
<1>3. ASSUME UNCHANGED <<config, beyond, rsdp>>,
             pc' \in {"exit", "enter", "entered"} => pc \in {"exit", "enter", "entered"}
      PROVE  TableTaken' /\ rsdp' \in 0 .. Len(config') /\ config' \in BoundedSeq(Guid, MaxTables)
  <2>1. Handed => Handed'
    BY <1>3 DEF Handed
  <2> QED BY <1>1, <1>3, <2>1 DEF TableTaken
<1>4. CASE Directories \/ LoadSegment \/ SegmentsDone \/ GetFramebuffer \/ MapSize
  BY <1>3, <1>4 DEF Directories, LoadSegment, SegmentsDone, GetFramebuffer, MapSize, loader
<1>8. CASE LoadHeaders
  <2>1. UNCHANGED <<config, beyond, rsdp>> /\ (pc' = "segments" \/ pc' = "halted")
    BY <1>8, IntoPool DEF LoadHeaders
  <2> QED BY <1>3, <2>1
<1>5. CASE MapBuffer \/ GetMemoryMap \/ ExitBootServices \/ EnterKernel \/ Event \/ Stopped \/ UNCHANGED loaderVars
  BY <1>3, <1>5 DEF MapBuffer, GetMemoryMap, ExitBootServices, EnterKernel, Event, Stopped, loaderVars, loader
<1>6. ASSUME NEW at, NEW file, Missing(at, file)
      PROVE  TableTaken' /\ rsdp' \in 0 .. Len(config') /\ config' \in BoundedSeq(Guid, MaxTables)
  BY <1>3, <1>6 DEF Missing, loader
<1>7. ASSUME NEW at, NEW file, NEW next \in {"light", "framebuffer"}, LoadPSFFont(at, file, next)
      PROVE  TableTaken' /\ rsdp' \in 0 .. Len(config') /\ config' \in BoundedSeq(Guid, MaxTables)
  <2>1. UNCHANGED <<config, beyond, rsdp>> /\ (pc' = next \/ pc' = "halted")
    BY <1>7, IntoPool DEF LoadPSFFont
  <2> QED BY <1>3, <1>7, <2>1
<1> QED
  BY <1>2, <1>4, <1>5, <1>6, <1>7, <1>8 DEF LoaderNext

(* The state keeps its shape.                                                   *)
LEMMA LoaderShape ==
  ASSUME LoaderAssumption, LoaderInv, [LoaderNext]_loaderVars
  PROVE  LoaderTypeOK'
<1>1. LoaderTypeOK
  BY DEF LoaderInv
<1>2. config' \in BoundedSeq(Guid, MaxTables) /\ rsdp' \in 0 .. Len(config')
  BY TableStays
<1>3. pc' \in PCs /\ volume' \in Volumes
  <2>1. pc \in PCs /\ volume \in Volumes
    BY <1>1 DEF LoaderTypeOK
  <2>2. volume' = volume
    BY DEF LoaderNext, Directories, LoadHeaders, LoadSegment, SegmentsDone, Missing, LoadPSFFont,
           GetFramebuffer, MapSize, MapBuffer, GetMemoryMap, GetRSDP, ExitBootServices, EnterKernel,
           Event, Stopped, loaderVars
  <2>3. pc' \in PCs
    BY <2>1, IntoPool DEF LoaderNext, Directories, LoadHeaders, LoadSegment, SegmentsDone, Missing, LoadPSFFont,
           GetFramebuffer, MapSize, MapBuffer, GetMemoryMap, GetRSDP, ExitBootServices, EnterKernel,
           Event, Stopped, loaderVars, PCs
  <2> QED BY <2>1, <2>2, <2>3
<1>4. dir' \in [{"KERNEL", "FONTS"} -> {"none", "KERNEL", "FONTS"}]
  <2>1. dir \in [{"KERNEL", "FONTS"} -> {"none", "KERNEL", "FONTS"}]
    BY <1>1 DEF LoaderTypeOK
  <2>2. CASE Directories
    BY <2>2 DEF Directories
  <2>3. CASE ~Directories
    <3>1. dir' = dir
      BY <2>3 DEF LoaderNext, LoadHeaders, LoadSegment, SegmentsDone, Missing, LoadPSFFont,
           GetFramebuffer, MapSize, MapBuffer, GetMemoryMap, GetRSDP, ExitBootServices, EnterKernel,
           Event, Stopped, loaderVars, loader
    <3> QED BY <2>1, <3>1
  <2> QED BY <2>2, <2>3
<1>5. opened' \in [Files -> {"none", "root", "KERNEL", "FONTS"}]
  <2>1. opened \in [Files -> {"none", "root", "KERNEL", "FONTS"}]
        /\ dir \in [{"KERNEL", "FONTS"} -> {"none", "KERNEL", "FONTS"}]
    BY <1>1 DEF LoaderTypeOK
  <2>2. ASSUME NEW f \in Files, Open(f) PROVE opened' \in [Files -> {"none", "root", "KERNEL", "FONTS"}]
    <3>1. Home[f] \in {"KERNEL", "FONTS"}
      BY DEF Home
    <3>2. dir[Home[f]] \in {"none", "KERNEL", "FONTS"}
      BY <2>1, <3>1
    <3>3. LoadFile(dir[Home[f]], f) \in {"none", "root", "KERNEL", "FONTS"}
      BY <3>2 DEF LoadFile
    <3> QED BY <2>1, <2>2, <3>3 DEF Open
  <2>3. UNCHANGED opened \/ Open("Kernel.elf") \/ Open("zap-vga16.psf") \/ Open("zap-light16.psf")
    BY DEF LoaderNext, Directories, LoadHeaders, LoadSegment, SegmentsDone, Missing, LoadPSFFont,
           GetFramebuffer, MapSize, MapBuffer, GetMemoryMap, GetRSDP, ExitBootServices, EnterKernel,
           Event, Stopped, loaderVars, loader
  <2> QED BY <2>1, <2>2, <2>3 DEF Files
<1>6. free' \subseteq MachinePage
  <2>1. free \subseteq MachinePage
    BY <1>1 DEF LoaderTypeOK
  <2>2. free' \subseteq free
    BY IntoPool DEF LoaderNext, Directories, LoadHeaders, LoadSegment, SegmentsDone, Missing, LoadPSFFont,
           GetFramebuffer, MapSize, MapBuffer, GetMemoryMap, GetRSDP, ExitBootServices, EnterKernel,
           Event, Stopped, loaderVars, firmware, AllocatePool
  <2> QED BY <2>1, <2>2
<1>7. holding' \subseteq MachinePage
  <2>1. holding \subseteq MachinePage /\ image \in Images \cup {<<>>} /\ seg \in 1 .. (Len(image) + 1)
    BY <1>1 DEF LoaderTypeOK
  <2>2. CASE LoadSegment
    <3>1. holding' = holding \cup Spans(image[seg]) /\ seg <= Len(image)
      BY <2>2 DEF LoadSegment
    <3>2. image \in Images
      BY <2>1, <3>1, KernelIsSequence
    <3>3. seg \in DOMAIN image
      BY <2>1, <3>1, KernelIsSequence
    <3>4. Spans(image[seg]) \subseteq MachinePage
      BY <3>2, <3>3, AsksEnough
    <3> QED BY <2>1, <3>1, <3>4
  <2>3. CASE ~LoadSegment
    <3>1. holding' \subseteq holding
      BY <2>3, IntoPool DEF LoaderNext, Directories, LoadHeaders, SegmentsDone, Missing, LoadPSFFont,
           GetFramebuffer, MapSize, MapBuffer, GetMemoryMap, GetRSDP, ExitBootServices, EnterKernel,
           Event, Stopped, loaderVars, firmware, AllocatePool
    <3> QED BY <2>1, <3>1
  <2> QED BY <2>2, <2>3
<1>8. image' \in Images \cup {<<>>} /\ seg' \in 1 .. (Len(image') + 1) /\ denied' \in BOOLEAN
  <2>1. image \in Images \cup {<<>>} /\ seg \in 1 .. (Len(image) + 1) /\ denied \in BOOLEAN
    BY <1>1 DEF LoaderTypeOK
  <2>3. \A kernel \in Images \cup {<<>>} : Len(kernel) \in Nat
    BY KernelIsSequence
  <2>4. Len(<<>>) = 0
    OBVIOUS
  <2>5. Len(image) \in Nat
    BY <2>1, <2>3
  <2>6. CASE LoadHeaders
    <3>1. image' \in Images /\ seg' = seg /\ denied' \in BOOLEAN /\ pc = "kernel"
      BY <2>1, <2>6, IntoPool DEF LoadHeaders
    <3>2. image = <<>>
      BY <3>1 DEF LoaderInv, SegmentsKept
    <3>3. seg = 1
      BY <2>1, <2>4, <3>2
    <3>4. Len(image') \in Nat
      BY <2>3, <3>1
    <3> QED BY <2>1, <3>1, <3>3, <3>4
  <2>7. CASE LoadSegment
    <3>1. image' = image /\ seg' = seg + 1 /\ seg <= Len(image)
      BY <2>7 DEF LoadSegment
    <3>2. denied' \in BOOLEAN
      BY <2>7 DEF LoadSegment
    <3> QED BY <2>1, <2>5, <3>1, <3>2
  <2>8. CASE ~LoadHeaders /\ ~LoadSegment
    <3>1. UNCHANGED <<image, seg>> /\ denied' \in BOOLEAN
      BY <2>1, <2>8, IntoPool DEF LoaderNext, Directories, SegmentsDone, Missing, LoadPSFFont,
           GetFramebuffer, MapSize, MapBuffer, GetMemoryMap, GetRSDP, ExitBootServices, EnterKernel,
           Event, Stopped, loaderVars, loader
    <3> QED BY <2>1, <3>1
  <2> QED BY <2>6, <2>7, <2>8
<1>9. descriptors' \in 0 .. MaxMap /\ events' \in 0 .. MaxEvents /\ services' \in BOOLEAN
  <2>1. /\ descriptors \in 0 .. MaxMap /\ events \in 0 .. MaxEvents /\ services \in BOOLEAN
        /\ MaxMap \in Nat /\ MaxEvents \in Nat
    BY <1>1 DEF LoaderTypeOK, LoaderAssumption
  <2>2. ASSUME NEW pages, NEW grows \in 0 .. 1, AllocatePool(pages, grows)
        PROVE  descriptors' \in 0 .. MaxMap /\ UNCHANGED <<services, events>>
    BY <2>1, <2>2 DEF AllocatePool
  <2>3. CASE LoadHeaders
    <3>1. PICK pages : AllocatePool(pages, 0)
      BY <2>3, IntoPool DEF LoadHeaders
    <3> QED BY <2>1, <2>2, <3>1
  <2>4. ASSUME NEW at, NEW file, NEW next, LoadPSFFont(at, file, next)
        PROVE  descriptors' \in 0 .. MaxMap /\ UNCHANGED <<services, events>>
    <3>1. PICK pages : AllocatePool(pages, 0)
      BY <2>4, IntoPool DEF LoadPSFFont
    <3> QED BY <2>2, <3>1
  <2>5. CASE MapBuffer
    BY <2>1, <2>2, <2>5 DEF MapBuffer, firmware
  <2>6. CASE Event
    <3>1. PICK grows \in 0 .. 1 : descriptors + grows <= MaxMap /\ descriptors' = descriptors + grows
      BY <2>6 DEF Event
    <3>2. events < MaxEvents /\ events' = events + 1 /\ services' = services
      BY <2>6 DEF Event
    <3> QED BY <2>1, <3>1, <3>2
  <2>7. CASE ExitBootServices
    BY <2>1, <2>7 DEF ExitBootServices
  <2>8. CASE LoadSegment
    BY <2>1, <2>8 DEF LoadSegment
  <2>9. CASE \/ Directories \/ SegmentsDone \/ \E at \in PCs, file \in Files : Missing(at, file)
             \/ GetFramebuffer \/ MapSize \/ GetMemoryMap \/ GetRSDP \/ EnterKernel \/ Stopped
             \/ UNCHANGED loaderVars
    <3>1. UNCHANGED firmware
      BY <2>9 DEF Directories, SegmentsDone, Missing, GetFramebuffer, MapSize, GetMemoryMap, GetRSDP,
             EnterKernel, Stopped, loaderVars
    <3> QED BY <2>1, <3>1 DEF firmware
  <2> QED
    BY <2>1, <2>3, <2>4, <2>5, <2>6, <2>7, <2>8, <2>9 DEF LoaderNext, PCs, Files
<1>10. /\ map' \in [size : 0 .. MaxMap, whole : BOOLEAN, fresh : BOOLEAN]
       /\ buffer' \in BOOLEAN /\ steady' \in BOOLEAN /\ beyond' \in Guid
  <2>1. /\ map \in [size : 0 .. MaxMap, whole : BOOLEAN, fresh : BOOLEAN]
        /\ buffer \in BOOLEAN /\ steady \in BOOLEAN /\ beyond \in Guid
        /\ descriptors \in 0 .. MaxMap
    BY <1>1 DEF LoaderTypeOK
  <2>2. CASE MapSize
    <3>1. PICK guess \in 0 .. MaxMap :
              map' = [map EXCEPT !.size = IF guess < descriptors THEN descriptors ELSE guess]
      BY <2>2 DEF MapSize
    <3>2. steady' = TRUE /\ UNCHANGED <<buffer, beyond>>
      BY <2>2 DEF MapSize
    <3> QED BY <2>1, <3>1, <3>2
  <2>3. CASE MapBuffer
    <3>1. map' = map /\ beyond' = beyond
      BY <2>3 DEF MapBuffer
    <3>2. buffer' \in BOOLEAN /\ steady' \in BOOLEAN
      BY <2>1, <2>3, Zenon DEF MapBuffer
    <3> QED BY <2>1, <3>1, <3>2
  <2>4. CASE GetMemoryMap
    <3>1. map' = [size |-> descriptors, whole |-> buffer /\ descriptors <= map.size, fresh |-> TRUE]
          /\ UNCHANGED <<buffer, steady, beyond>>
      BY <2>4 DEF GetMemoryMap
    <3>2. (buffer /\ descriptors <= map.size) \in BOOLEAN
      BY Zenon
    <3> QED BY <2>1, <3>1, <3>2
  <2>5. CASE Event
    <3>1. map' = [map EXCEPT !.fresh = FALSE] /\ UNCHANGED <<buffer, beyond>>
      BY <2>5 DEF Event
    <3>2. steady' \in BOOLEAN
      BY <2>5, Zenon DEF Event
    <3> QED BY <2>1, <3>1, <3>2
  <2>6. CASE GetRSDP
    BY <2>1, <2>6 DEF GetRSDP
  <2>7. CASE ~MapSize /\ ~MapBuffer /\ ~GetMemoryMap /\ ~Event /\ ~GetRSDP
    <3>1. UNCHANGED <<map, buffer, steady, beyond>>
      BY <2>7 DEF LoaderNext, Directories, LoadHeaders, LoadSegment, SegmentsDone, Missing, LoadPSFFont,
           GetFramebuffer, ExitBootServices, EnterKernel, Stopped, loaderVars, loader
    <3> QED BY <2>1, <3>1
  <2> QED BY <2>2, <2>3, <2>4, <2>5, <2>6, <2>7
<1> QED
  BY <1>2, <1>3, <1>4, <1>5, <1>6, <1>7, <1>8, <1>9, <1>10 DEF LoaderTypeOK

(* What the kernel receives: whatever the volume, the machine's free memory,    *)
(* the kernel's segments and the firmware's tables are, and whatever memory the *)
(* firmware uses meanwhile, as long as no memory that is read into is refused.  *)
THEOREM KernelReceivesRight ==
  LoaderAssumption => (LoaderSpec => []KernelReceives)
<1> SUFFICES ASSUME LoaderAssumption PROVE LoaderSpec => []KernelReceives
  OBVIOUS
<1>1. LoaderInit => LoaderInv
  BY LoaderStarts
<1>2. LoaderInv /\ [LoaderNext]_loaderVars => LoaderInv'
  BY FilesKept, SegmentsStay, MapStaysFit, TableStays, LoaderShape DEF LoaderInv
<1>3. LoaderInv => KernelReceives
  <2> SUFFICES ASSUME LoaderInv PROVE KernelReceives
    OBVIOUS
  <2>1. EntersOnlyWithFiles
    BY DEF LoaderInv, FilesRead, ReadRight, EntersOnlyWithFiles, Files
  <2>2. ~denied => KernelIntact
    <3>1. ASSUME pc = "entered", ~denied, NEW i \in DOMAIN image PROVE Spans(image[i]) \subseteq holding
      <4>1. SegmentsKept /\ image \in Images \cup {<<>>} /\ seg \in 1 .. (Len(image) + 1)
        BY DEF LoaderInv, LoaderTypeOK
      <4>2. seg > Len(image)
        BY <3>1, <4>1 DEF SegmentsKept
      <4>3. Len(image) \in Nat /\ DOMAIN image = 1 .. Len(image)
        BY <4>1, KernelIsSequence
      <4>4. i < seg
        BY <4>1, <4>2, <4>3
      <4> QED BY <3>1, <4>1, <4>4 DEF SegmentsKept
    <3> QED BY <3>1 DEF KernelIntact
  <2>3. MapWhole
    BY DEF LoaderInv, MapFits, MapWhole
  <2>4. RSDPFound
    BY Zenon DEF LoaderInv, TableTaken, Handed, RSDPFound
  <2> QED BY <2>1, <2>2, <2>3, <2>4 DEF LoaderInv, KernelReceives
<1> QED
  BY <1>1, <1>2, <1>3, PTL DEF LoaderSpec

-----------------------------------------------------------------------------
(* The heap.  A list of segments as Heap keeps it: one after the other in      *)
(* memory, with no two places where two free ones meet but one, and the blocks *)
(* that callers hold each in a used segment of its own.                        *)
Seg == [at : Nat, size : Nat, free : BOOLEAN]

Ordered(L) == \A i \in 1 .. Len(L) - 1 : End(L[i]) <= L[i + 1].at

Pair(L, i) == i \in 1 .. Len(L) - 1 /\ L[i].free /\ L[i + 1].free

OnePair(L) == \A i, j \in Nat : Pair(L, i) /\ Pair(L, j) => i = j

Limit(L, i) == IF i = Len(L) THEN End(L[i]) ELSE L[i + 1].at

Held(L, i, b) == ~L[i].free /\ Start(L[i]) = b.at /\ b.at + b.size <= Limit(L, i)

Holds(L, B) == /\ \A b \in B : \E i \in 1 .. Len(L) : Held(L, i, b)
               /\ \A i \in 1 .. Len(L) : ~L[i].free => \E b \in B : b.at = Start(L[i])
               /\ \A b, c \in B : b.at = c.at => b = c

LEMMA Numbers ==
  ASSUME HeapAssumption
  PROVE  /\ Header \in Nat /\ Header > 0 /\ Quantum \in Nat /\ Quantum > 0
         /\ PageSize \in Nat /\ PageSize > 0 /\ MinSplit \in Nat /\ StartSize \in Nat
         /\ Word \in Nat /\ Word > 0 /\ StartSize >= PageSize /\ Header <= Quantum
         /\ PageSize <= MinSplit /\ PageSize % Quantum = 0
<1>1. /\ Header \in Nat /\ Header > 0 /\ Quantum \in Nat /\ Quantum > 0
      /\ PageSize \in Nat /\ PageSize > 0 /\ MinSplit \in Nat /\ StartSize \in Nat
      /\ Word \in Nat /\ Word > 0 /\ StartSize > 0
  BY DEF HeapAssumption
<1>2. StartSize % PageSize = 0 /\ Header <= Quantum /\ PageSize <= MinSplit /\ PageSize % Quantum = 0
  BY DEF HeapAssumption
<1>3. StartSize >= PageSize
  <2>1. StartSize < PageSize => StartSize % PageSize = StartSize
    BY <1>1
  <2> QED BY <1>1, <1>2, <2>1
<1> QED
  BY <1>1, <1>2, <1>3

LEMMA ListElements ==
  ASSUME NEW L \in Seq(Seg)
  PROVE  /\ Len(L) \in Nat /\ DOMAIN L = 1 .. Len(L)
         /\ \A k \in 1 .. Len(L) : /\ L[k] \in Seg /\ L[k].at \in Nat /\ L[k].size \in Nat
                                   /\ L[k].free \in BOOLEAN
<1>1. \A k \in 1 .. Len(L) : L[k] \in Seg
  OBVIOUS
<1>2. \A s \in Seg : s.at \in Nat /\ s.size \in Nat /\ s.free \in BOOLEAN
  BY DEF Seg
<1> QED
  BY <1>1, <1>2

(* First fit: the first segment that is free and large enough, 0 for none.     *)
LEMMA FirstIs ==
  ASSUME NEW L \in Seq(Seg), NEW size \in Nat
  PROVE  /\ FirstFit(L, size) \in 0 .. Len(L)
         /\ FirstFit(L, size) # 0 => Fits(L[FirstFit(L, size)], size)
         /\ FirstFit(L, size) = 0 => \A i \in 1 .. Len(L) : ~Fits(L[i], size)
         /\ \A i \in 1 .. Len(L) : Fits(L[i], size) => FirstFit(L, size) <= i
<1> DEFINE I == {i \in 1 .. Len(L) : Fits(L[i], size)}
<1>1. FirstFit(L, size) = IF I # {} THEN Min(I) ELSE 0
  BY Zenon DEF FirstFit, SelectInSeq
<1>2. I \in SUBSET Nat
  OBVIOUS
<1>3. I # {} => Min(I) \in I /\ \A k \in I : Min(I) <= k
  BY <1>2, MinIsLeast
<1>4. Len(L) \in Nat
  OBVIOUS
<1> HIDE DEF I
<1>5. CASE I = {}
  BY <1>1, <1>4, <1>5 DEF I
<1>6. CASE I # {}
  <2> DEFINE f == FirstFit(L, size)
  <2>1. f \in I /\ \A k \in I : f <= k
    BY <1>1, <1>3, <1>6
  <2> HIDE DEF f
  <2>2. f \in 1 .. Len(L) /\ Fits(L[f], size) /\ \A i \in 1 .. Len(L) : Fits(L[i], size) => f <= i
    BY <2>1 DEF I
  <2> QED BY <1>4, <2>2 DEF f
<1> QED
  BY <1>5, <1>6

(* In order means that all that follow a segment lie behind it.                *)
LEMMA LaterBehind ==
  ASSUME HeapAssumption, NEW L \in Seq(Seg), Ordered(L),
         NEW i \in 1 .. Len(L), NEW j \in 1 .. Len(L), i < j
  PROVE  End(L[i]) <= L[j].at /\ L[i].at < L[j].at /\ Start(L[i]) < Start(L[j]) /\ Start(L[i]) <= L[j].at
<1> DEFINE Bad == {k \in Nat : i < k /\ k <= Len(L) /\ ~(End(L[i]) <= L[k].at)}
<1>1. Header \in Nat /\ Header > 0 /\ Len(L) \in Nat
  BY Numbers
<1>2. \A k \in 1 .. Len(L) : L[k].at \in Nat /\ L[k].size \in Nat
  BY ListElements
<1>3. ASSUME Bad # {} PROVE FALSE
  <2> DEFINE m == Min(Bad)
  <2>1. m \in Bad /\ \A k \in Bad : m <= k
    BY <1>3, MinIsLeast
  <2> HIDE DEF m
  <2>2. m \in Nat /\ i < m /\ m <= Len(L) /\ ~(End(L[i]) <= L[m].at)
    BY <2>1
  <2>3. m - 1 \in 1 .. Len(L) - 1 /\ (m - 1) + 1 = m /\ m - 1 \in 1 .. Len(L) /\ m \in 1 .. Len(L)
    BY <1>1, <2>2
  <2>4. End(L[m - 1]) <= L[m].at
    BY <2>3 DEF Ordered
  <2>5. m - 1 # i
    BY <2>2, <2>4
  <2>6. m - 1 \notin Bad
    BY <2>1, <2>2
  <2>7. End(L[i]) <= L[m - 1].at
    BY <2>2, <2>3, <2>5, <2>6
  <2>8. L[m - 1].at \in Nat /\ L[m - 1].size \in Nat /\ L[m].at \in Nat /\ L[i].at \in Nat /\ L[i].size \in Nat
    BY <1>2, <2>3
  <2>9. End(L[m - 1]) = L[m - 1].at + Header + L[m - 1].size /\ End(L[i]) = L[i].at + Header + L[i].size
    BY DEF End, Start
  <2> DEFINE a == L[m - 1].at
             z == L[m - 1].size
             x == End(L[m - 1])
             e == End(L[i])
  <2>10. e <= a /\ x <= L[m].at /\ ~(e <= L[m].at) /\ x = a + Header + z
    BY <2>2, <2>4, <2>7, <2>9, Zenon
  <2>11. a \in Nat /\ z \in Nat
    BY <2>8, Zenon
  <2>12. e = L[i].at + Header + L[i].size
    BY <2>9, Zenon
  <2> HIDE DEF a, z, x, e
  <2> QED BY <1>1, <2>8, <2>10, <2>11, <2>12
<1>4. End(L[i]) <= L[j].at
  BY <1>3
<1>5. L[i].at \in Nat /\ L[i].size \in Nat /\ L[j].at \in Nat
  BY <1>2
<1> QED
  BY <1>1, <1>4, <1>5 DEF End, Start

(* What Split makes of a segment that is not too small for another header.     *)
LEMMA CutIs ==
  ASSUME HeapAssumption, NEW s \in Seg, NEW size \in Nat, Header <= size,
         s.size > size, Splits(s, size), ~Wraps(s, size)
  PROVE  LET used == Cut(s, size)[1]
             rest == Cut(s, size)[2]
         IN  /\ Cut(s, size) = <<used, rest>> /\ used \in Seg /\ rest \in Seg
             /\ ~used.free /\ used.at = s.at /\ rest.free
             /\ rest.at = Start(s) + size /\ End(used) <= rest.at
             /\ End(rest) <= End(s) /\ rest.size >= PageSize
<1> DEFINE used == Segment(s.at, size - Header, FALSE)
           rest == Segment(Start(s) + size, Rest(s, size), TRUE)
<1>1. /\ Header \in Nat /\ Header > 0 /\ Word \in Nat /\ Word > 0 /\ MinSplit \in Nat
      /\ PageSize \in Nat /\ PageSize <= MinSplit
  BY Numbers
<1>2. s.at \in Nat /\ s.size \in Nat
  BY DEF Seg
<1>3. s.size >= size + Header
  BY <1>1, <1>2 DEF Wraps
<1> DEFINE x == s.size - size - Header
           r == Rest(s, size)
<1>4. x \in Nat
  BY <1>1, <1>2, <1>3
<1>5. r = x % Word
  BY DEF Rest
<1> HIDE DEF x
<1>6. r \in Nat /\ r <= x
  <2>1. x % Word \in Nat /\ x % Word <= x
    BY <1>1, <1>4
  <2> QED BY <1>5, <2>1
<1>7. r >= MinSplit
  BY DEF Splits
<1> HIDE DEF r
<1>8. r >= PageSize /\ r <= s.size - size - Header
  BY <1>1, <1>6, <1>7, <1>4, <1>2 DEF x
<1>9. used = [at |-> s.at, size |-> size - Header, free |-> FALSE]
      /\ rest = [at |-> s.at + Header + size, size |-> r, free |-> TRUE]
  BY DEF Segment, Start, r
<1>10. Cut(s, size) = <<used, rest>>
  BY DEF Cut
<1> HIDE DEF used, rest
<1>11. /\ used.at = s.at /\ used.size = size - Header /\ used.free = FALSE
       /\ rest.at = s.at + Header + size /\ rest.size = r /\ rest.free = TRUE
  BY <1>9
<1>12. used \in Seg /\ rest \in Seg
  BY <1>1, <1>2, <1>6, <1>9 DEF Seg
<1>13. End(used) <= rest.at /\ End(rest) <= End(s) /\ rest.at = Start(s) + size
  BY <1>1, <1>2, <1>6, <1>8, <1>11 DEF End, Start
<1> QED
  BY <1>8, <1>10, <1>11, <1>12, <1>13

(* Taking a segment whole, or splitting it: the list then, segment by segment. *)
LEMMA TakenWhole ==
  ASSUME HeapAssumption, NEW L \in Seq(Seg), NEW i \in 1 .. Len(L), NEW size \in Nat,
         ~(L[i].size > size /\ Splits(L[i], size))
  PROVE  LET R == TakeSegment(L, i, size)
         IN  /\ R \in Seq(Seg) /\ Len(R) = Len(L)
             /\ \A j \in 1 .. Len(L) : /\ R[j].at = L[j].at /\ R[j].size = L[j].size
                                       /\ j # i => R[j] = L[j]
             /\ ~R[i].free
<1> DEFINE R == [L EXCEPT ![i].free = FALSE]
<1>1. TakeSegment(L, i, size) = R
  BY Zenon DEF TakeSegment
<1>2. Len(L) \in Nat /\ DOMAIN L = 1 .. Len(L) /\ L[i] \in Seg /\ \A k \in 1 .. Len(L) : L[k] \in Seg
  BY ListElements
<1>3. R = [j \in 1 .. Len(L) |-> IF j = i THEN [L[i] EXCEPT !.free = FALSE] ELSE L[j]]
  BY <1>2
<1> HIDE DEF R
<1> DEFINE t == [L[i] EXCEPT !.free = FALSE]
<1>4. t \in Seg /\ t.at = L[i].at /\ t.size = L[i].size /\ ~t.free
  BY <1>2 DEF Seg
<1>5. \A j \in 1 .. Len(L) : R[j] = IF j = i THEN t ELSE L[j]
  BY <1>3
<1> HIDE DEF t
<1>6. R \in Seq(Seg) /\ Len(R) = Len(L)
  <2>1. DOMAIN R = 1 .. Len(L) /\ \A j \in 1 .. Len(L) : R[j] \in Seg
    BY <1>2, <1>3, <1>4, <1>5
  <2>2. R \in [1 .. Len(L) -> Seg]
    BY <1>3, <2>1
  <2> QED BY <1>2, <2>2
<1> QED
  BY <1>1, <1>4, <1>5, <1>6

LEMMA TakenSplit ==
  ASSUME HeapAssumption, NEW L \in Seq(Seg), NEW i \in 1 .. Len(L), NEW size \in Nat,
         Header <= size, L[i].size > size, Splits(L[i], size), ~Wraps(L[i], size)
  PROVE  LET R == TakeSegment(L, i, size)
         IN  /\ R \in Seq(Seg) /\ Len(R) = Len(L) + 1
             /\ \A j \in 1 .. i - 1 : R[j] = L[j]
             /\ \A j \in i + 2 .. Len(L) + 1 : R[j] = L[j - 1]
             /\ R[i] = Cut(L[i], size)[1] /\ R[i + 1] = Cut(L[i], size)[2]
<1> DEFINE used == Cut(L[i], size)[1]
           rest == Cut(L[i], size)[2]
           A == SubSeq(L, 1, i - 1)
           C == SubSeq(L, i + 1, Len(L))
<1>1. Len(L) \in Nat /\ L[i] \in Seg /\ i \in Nat /\ 1 <= i /\ i <= Len(L)
  BY ListElements
<1>2. Cut(L[i], size) = <<used, rest>> /\ used \in Seg /\ rest \in Seg
  BY <1>1, CutIs
<1>3. TakeSegment(L, i, size) = A \o Cut(L[i], size) \o C
  BY Zenon DEF TakeSegment
<1> HIDE DEF used, rest
<1>4. A \in Seq(Seg) /\ Len(A) = i - 1 /\ \A j \in 1 .. i - 1 : A[j] = L[j]
  BY <1>1
<1>5. C \in Seq(Seg) /\ Len(C) = Len(L) - i /\ \A j \in 1 .. Len(L) - i : C[j] = L[i + j]
  BY <1>1
<1> HIDE DEF A, C
<1> DEFINE M == A \o <<used, rest>>
<1>6. M \in Seq(Seg) /\ Len(M) = i + 1 /\ \A j \in 1 .. i + 1 :
         M[j] = IF j < i THEN L[j] ELSE IF j = i THEN used ELSE rest
  BY <1>1, <1>2, <1>4
<1> HIDE DEF M
<1> DEFINE R == M \o C
<1>7. R \in Seq(Seg) /\ Len(R) = Len(L) + 1 /\ \A j \in 1 .. Len(L) + 1 :
         R[j] = IF j <= i + 1 THEN M[j] ELSE C[j - (i + 1)]
  <2>1. M \in Seq(Seg) /\ C \in Seq(Seg)
    BY <1>5, <1>6, Zenon
  <2>2. /\ R \in Seq(Seg) /\ Len(R) = Len(M) + Len(C)
        /\ \A j \in 1 .. Len(M) + Len(C) : R[j] = IF j <= Len(M) THEN M[j] ELSE C[j - Len(M)]
    BY <2>1
  <2>3. Len(M) = i + 1 /\ Len(C) = Len(L) - i
    BY <1>5, <1>6, Zenon
  <2> HIDE DEF R
  <2>4. Len(M) + Len(C) = Len(L) + 1
    BY <1>1, <2>3
  <2> QED BY <2>2, <2>3, <2>4
<1>8. TakeSegment(L, i, size) = R
  BY <1>2, <1>3 DEF M
<1> HIDE DEF R
<1>9. \A j \in 1 .. i - 1 : R[j] = L[j]
  <2> TAKE j \in 1 .. i - 1
  <2>1. j \in 1 .. Len(L) + 1 /\ j \in 1 .. i + 1 /\ j <= i + 1 /\ j < i
    BY <1>1
  <2>2. M[j] = L[j]
    BY <1>6, <2>1
  <2>3. R[j] = M[j]
    BY <1>7, <2>1
  <2> QED BY <2>2, <2>3
<1>10. R[i] = used /\ R[i + 1] = rest
  <2>1. /\ i \in 1 .. Len(L) + 1 /\ i + 1 \in 1 .. Len(L) + 1 /\ i \in 1 .. i + 1 /\ i + 1 \in 1 .. i + 1
        /\ i <= i + 1 /\ ~(i < i) /\ ~(i + 1 < i) /\ i + 1 # i
    BY <1>1
  <2>2. M[i] = used /\ M[i + 1] = rest
    BY <1>6, <2>1
  <2>3. R[i] = M[i] /\ R[i + 1] = M[i + 1]
    BY <1>7, <2>1
  <2> QED BY <2>2, <2>3
<1>11. \A j \in i + 2 .. Len(L) + 1 : R[j] = L[j - 1]
  <2> TAKE j \in i + 2 .. Len(L) + 1
  <2>1. R[j] = C[j - (i + 1)] /\ j - (i + 1) \in 1 .. Len(L) - i /\ i + (j - (i + 1)) = j - 1
    BY <1>1, <1>7, SMTT(40)
  <2> QED BY <1>5, <2>1
<1> QED
  BY <1>7, <1>8, <1>9, <1>10, <1>11 DEF used, rest

(* A block in another segment than i lies before it or behind what is i's.     *)
Block == [at : Nat, size : Nat]

LEMMA LimitIs ==
  ASSUME HeapAssumption, NEW L \in Seq(Seg), Ordered(L), NEW i \in 1 .. Len(L)
  PROVE  /\ Start(L[i]) \in Nat /\ End(L[i]) \in Nat /\ Limit(L, i) \in Nat
         /\ L[i].at < Start(L[i]) /\ Start(L[i]) <= End(L[i]) /\ End(L[i]) <= Limit(L, i)
         /\ \A k \in 1 .. Len(L) : i < k => Limit(L, i) <= L[k].at
<1>1. Header \in Nat /\ Header > 0 /\ Len(L) \in Nat
  BY Numbers, ListElements
<1>2. \A k \in 1 .. Len(L) : L[k].at \in Nat /\ L[k].size \in Nat
  BY ListElements
<1>3. Start(L[i]) \in Nat /\ End(L[i]) \in Nat /\ L[i].at < Start(L[i]) /\ Start(L[i]) <= End(L[i])
  BY <1>1, <1>2, SMTT(40) DEF Start, End
<1>4. CASE i = Len(L)
  BY <1>1, <1>3, <1>4 DEF Limit
<1>5. CASE i # Len(L)
  <2>1. Limit(L, i) = L[i + 1].at /\ i \in 1 .. Len(L) - 1 /\ i + 1 \in 1 .. Len(L)
    BY <1>1, <1>5 DEF Limit
  <2>2. End(L[i]) <= L[i + 1].at /\ L[i + 1].at \in Nat
    BY <1>2, <2>1 DEF Ordered
  <2>3. ASSUME NEW k \in 1 .. Len(L), i < k PROVE Limit(L, i) <= L[k].at
    <3>1. CASE k = i + 1
      BY <2>1, <2>2, <3>1
    <3>2. CASE k # i + 1
      <4>1. i + 1 < k
        BY <2>3, <3>2
      <4>2. L[i + 1].at < L[k].at
        BY <2>1, <4>1, LaterBehind
      <4> QED BY <1>2, <2>1, <2>2, <4>2
    <3> QED BY <3>1, <3>2
  <2> QED BY <1>3, <2>1, <2>2, <2>3
<1> QED
  BY <1>4, <1>5

LEMMA HeldApart ==
  ASSUME HeapAssumption, NEW L \in Seq(Seg), Ordered(L), NEW i \in 1 .. Len(L), NEW k \in 1 .. Len(L),
         k # i, NEW c \in Block, Held(L, k, c)
  PROVE  /\ c.at # Start(L[i])
         /\ \/ k < i /\ c.at + c.size <= L[i].at
            \/ i < k /\ Limit(L, i) <= c.at
<1>1. c.at \in Nat /\ c.size \in Nat /\ i \in Nat /\ k \in Nat
  BY ListElements DEF Block
<1>2. Start(L[k]) = c.at /\ c.at + c.size <= Limit(L, k)
  BY DEF Held
<1>3. CASE k < i
  <2>1. Limit(L, k) <= L[i].at /\ Start(L[k]) < Start(L[i]) /\ Limit(L, k) \in Nat
    BY <1>3, LimitIs, LaterBehind
  <2>2. L[i].at \in Nat /\ Start(L[i]) \in Nat
    BY ListElements, LimitIs
  <2> QED BY <1>1, <1>2, <1>3, <2>1, <2>2
<1>4. CASE i < k
  <2>1. Limit(L, i) <= L[k].at /\ Start(L[i]) < Start(L[k]) /\ Limit(L, i) \in Nat /\ L[k].at < Start(L[k])
    BY <1>4, LimitIs, LaterBehind
  <2>2. L[k].at \in Nat /\ Start(L[i]) \in Nat
    BY ListElements, LimitIs
  <2> QED BY <1>1, <1>2, <1>4, <2>1, <2>2
<1> QED
  BY <1>1, <1>3, <1>4

(* What a list holds when one of its segments, i, becomes the new block's and  *)
(* the others only change their index.                                         *)
LEMMA OneMoreHeld ==
  ASSUME HeapAssumption, NEW L \in Seq(Seg), Ordered(L), NEW B \in SUBSET Block, Holds(L, B),
         NEW i \in 1 .. Len(L), L[i].free, NEW b \in Block, b.at = Start(L[i]), b.at + b.size <= Limit(L, i),
         NEW R \in Seq(Seg), NEW to \in [1 .. Len(L) -> Nat], Len(L) <= Len(R), Held(R, i, b),
         \A k \in 1 .. Len(L) : k # i => /\ to[k] \in 1 .. Len(R) /\ R[to[k]] = L[k]
                                         /\ Limit(R, to[k]) = Limit(L, k),
         \A j \in 1 .. Len(R) : ~R[j].free => j = i \/ \E k \in 1 .. Len(L) : k # i /\ j = to[k]
  PROVE  /\ Holds(R, B \cup {b}) /\ b \notin B
         /\ \A c \in B : c.at + c.size <= b.at \/ b.at + b.size <= c.at
<1>1. ASSUME NEW c \in B
      PROVE  /\ \E j \in 1 .. Len(R) : Held(R, j, c)
             /\ c.at # b.at /\ (c.at + c.size <= b.at \/ b.at + b.size <= c.at)
  <2>1. PICK k \in 1 .. Len(L) : Held(L, k, c)
    BY DEF Holds
  <2>2. k # i
    BY <2>1 DEF Held
  <2>3. Held(R, to[k], c)
    BY <2>1, <2>2 DEF Held
  <2>4. /\ c.at # Start(L[i])
        /\ (k < i /\ c.at + c.size <= L[i].at) \/ (i < k /\ Limit(L, i) <= c.at)
    BY <2>1, <2>2, HeldApart
  <2>5. Start(L[i]) \in Nat /\ L[i].at < Start(L[i]) /\ Limit(L, i) \in Nat /\ L[i].at \in Nat
    BY LimitIs, ListElements
  <2>6. c.at \in Nat /\ c.size \in Nat /\ b.at \in Nat /\ b.size \in Nat
    BY DEF Block
  <2>7. c.at # b.at /\ (c.at + c.size <= b.at \/ b.at + b.size <= c.at)
    <3>1. CASE c.at + c.size <= L[i].at
      BY <2>4, <2>5, <2>6, <3>1, SMTT(40)
    <3>2. CASE Limit(L, i) <= c.at
      BY <2>4, <2>5, <2>6, <3>2
    <3> QED BY <2>4, <3>1, <3>2
  <2>8. to[k] \in 1 .. Len(R)
    BY <2>2
  <2>9. \E j \in 1 .. Len(R) : Held(R, j, c)
    BY <2>3, <2>8
  <2> QED BY <2>7, <2>9
<1>2. \A j \in 1 .. Len(R) : ~R[j].free => \E c \in B \cup {b} : c.at = Start(R[j])
  <2> TAKE j \in 1 .. Len(R)
  <2> HAVE ~R[j].free
  <2>1. CASE j = i
    BY <2>1 DEF Held
  <2>2. CASE \E k \in 1 .. Len(L) : k # i /\ j = to[k]
    BY <2>2 DEF Holds
  <2> QED BY <2>1, <2>2
<1>3. \A c \in B \cup {b} : \E j \in 1 .. Len(R) : Held(R, j, c)
  <2>1. i \in 1 .. Len(R)
    BY ListElements
  <2> QED BY <1>1, <2>1
<1>4. \A c, d \in B \cup {b} : c.at = d.at => c = d
  BY <1>1 DEF Holds
<1> QED
  BY <1>1, <1>2, <1>3, <1>4 DEF Holds

(* Which pairs of free segments do not count: the one that ends in segment i.  *)
OnePairBut(L, i) == \A j, k \in Nat : /\ Pair(L, j) /\ j + 1 # i
                                      /\ Pair(L, k) /\ k + 1 # i
                                      => j = k

(* Allocate's choice: what the list and the blocks are when segment i is taken.*)
LEMMA TakeKeeps ==
  ASSUME HeapAssumption, NEW L \in Seq(Seg), NEW B \in SUBSET Block, NEW i \in 1 .. Len(L),
         NEW size \in Nat, NEW request \in Nat, request < size, Header <= size,
         Fits(L[i], size), ~Wraps(L[i], size),
         Ordered(L), Holds(L, B), OnePairBut(L, i), L[Len(L)].size >= PageSize
  PROVE  LET R == TakeSegment(L, i, size)
             b == [at |-> Start(L[i]), size |-> request]
         IN  /\ R \in Seq(Seg) /\ Len(R) >= 1 /\ Ordered(R) /\ OnePair(R) /\ R[Len(R)].size >= PageSize
             /\ Holds(R, B \cup {b}) /\ b \notin B
             /\ \A c \in B : c.at + c.size <= b.at \/ b.at + b.size <= c.at
<1> DEFINE R == TakeSegment(L, i, size)
           b == [at |-> Start(L[i]), size |-> request]
<1>1. /\ Header \in Nat /\ Header > 0 /\ Len(L) \in Nat /\ i \in Nat /\ 1 <= i /\ i <= Len(L)
      /\ PageSize \in Nat /\ PageSize > 0
  BY Numbers, ListElements
<1>2. /\ L[i] \in Seg /\ L[i].free = TRUE /\ L[i].size >= size
      /\ \A k \in 1 .. Len(L) : L[k] \in Seg /\ L[k].at \in Nat /\ L[k].size \in Nat /\ L[k].free \in BOOLEAN
  <2>1. L[i].free /\ L[i].size >= size
    BY DEF Fits
  <2> QED BY <2>1, ListElements
<1>3. /\ Start(L[i]) \in Nat /\ End(L[i]) \in Nat /\ Limit(L, i) \in Nat
      /\ L[i].at < Start(L[i]) /\ Start(L[i]) <= End(L[i]) /\ End(L[i]) <= Limit(L, i)
  BY LimitIs
<1>4. End(L[i]) >= Start(L[i]) + size
  BY <1>1, <1>2, <1>3 DEF End
<1>5. b.at = Start(L[i]) /\ b.size = request /\ b \in Block /\ b.at + b.size <= Limit(L, i)
      /\ b.at + b.size <= Start(L[i]) + size
  BY <1>3, <1>4 DEF Block
<1> HIDE DEF b
<1>6. CASE ~(L[i].size > size /\ Splits(L[i], size))
  <2> DEFINE to == [k \in 1 .. Len(L) |-> k]
  <2>1. /\ R \in Seq(Seg) /\ Len(R) = Len(L) /\ ~R[i].free
        /\ \A j \in 1 .. Len(L) : /\ R[j].at = L[j].at /\ R[j].size = L[j].size
                                  /\ j # i => R[j] = L[j]
    BY <1>6, TakenWhole
  <2> HIDE DEF R
  <2>2. \A j \in 1 .. Len(L) : Start(R[j]) = Start(L[j]) /\ End(R[j]) = End(L[j])
    BY <2>1 DEF Start, End
  <2>3. \A j \in 1 .. Len(L) : Limit(R, j) = Limit(L, j)
    <3> TAKE j \in 1 .. Len(L)
    <3>1. CASE j = Len(L)
      BY <2>1, <2>2, <3>1 DEF Limit
    <3>2. CASE j # Len(L)
      <4>1. j + 1 \in 1 .. Len(L)
        BY <1>1, <3>2
      <4> QED BY <2>1, <3>2, <4>1 DEF Limit
    <3> QED BY <3>1, <3>2
  <2>4. Ordered(R)
    <3> SUFFICES ASSUME NEW j \in 1 .. Len(R) - 1 PROVE End(R[j]) <= R[j + 1].at
      BY DEF Ordered
    <3>1. j \in 1 .. Len(L) /\ j + 1 \in 1 .. Len(L) /\ j \in 1 .. Len(L) - 1
      BY <1>1, <2>1
    <3> QED BY <2>1, <2>2, <3>1 DEF Ordered
  <2>5. OnePair(R)
    <3>1. ASSUME NEW j \in Nat, Pair(R, j) PROVE Pair(L, j) /\ j + 1 # i
      <4>1. j \in 1 .. Len(L) /\ j + 1 \in 1 .. Len(L) /\ j # i /\ j + 1 # i
        BY <1>1, <2>1, <3>1 DEF Pair
      <4>2. R[j] = L[j] /\ R[j + 1] = L[j + 1]
        BY <2>1, <4>1
      <4> QED BY <2>1, <3>1, <4>1, <4>2 DEF Pair
    <3> QED BY <3>1 DEF OnePair, OnePairBut
  <2>6. Held(R, i, b)
    BY <1>5, <2>1, <2>2, <2>3 DEF Held
  <2>7. /\ Holds(R, B \cup {b}) /\ b \notin B
        /\ \A c \in B : c.at + c.size <= b.at \/ b.at + b.size <= c.at
    <3>1. \A k \in 1 .. Len(L) : k # i => to[k] \in 1 .. Len(R) /\ R[to[k]] = L[k] /\ Limit(R, to[k]) = Limit(L, k)
      BY <2>1, <2>3
    <3>2. \A j \in 1 .. Len(R) : ~R[j].free => j = i \/ \E k \in 1 .. Len(L) : k # i /\ j = to[k]
      BY <2>1
    <3>3. Len(L) <= Len(R)
      BY <1>1, <2>1
    <3>4. to \in [1 .. Len(L) -> Nat]
      OBVIOUS
    <3>5. L[i].free /\ R \in Seq(Seg)
      BY <1>2, <2>1
    <3> HIDE DEF to
    <3> QED BY <1>5, <2>6, <3>1, <3>2, <3>3, <3>4, <3>5, OneMoreHeld, ZenonT(60)
  <2>8. Len(R) >= 1 /\ R[Len(R)].size >= PageSize
    BY <1>1, <2>1
  <2> QED BY <2>1, <2>4, <2>5, <2>7, <2>8, Zenon DEF R, b
<1>7. CASE L[i].size > size /\ Splits(L[i], size)
  <2> DEFINE used == Cut(L[i], size)[1]
             rest == Cut(L[i], size)[2]
             to == [k \in 1 .. Len(L) |-> IF k < i THEN k ELSE k + 1]
  <2>1. /\ R \in Seq(Seg) /\ Len(R) = Len(L) + 1 /\ R[i] = used /\ R[i + 1] = rest
        /\ \A j \in 1 .. i - 1 : R[j] = L[j]
        /\ \A j \in i + 2 .. Len(L) + 1 : R[j] = L[j - 1]
    BY <1>7, TakenSplit
  <2>2. /\ ~used.free /\ used.at = L[i].at /\ rest.free
        /\ rest.at = Start(L[i]) + size /\ End(used) <= rest.at
        /\ End(rest) <= End(L[i]) /\ rest.size >= PageSize
    BY <1>2, <1>7, CutIs
  <2> HIDE DEF R, used, rest
  <2>3. \A k \in 1 .. Len(L) : k # i => to[k] \in 1 .. Len(R) /\ R[to[k]] = L[k]
    <3> TAKE k \in 1 .. Len(L)
    <3> HAVE k # i
    <3>1. CASE k < i
      BY <1>1, <2>1, <3>1
    <3>2. CASE k > i
      <4>1. to[k] = k + 1 /\ k + 1 \in i + 2 .. Len(L) + 1 /\ (k + 1) - 1 = k
        BY <1>1, <3>2
      <4>2. R[k + 1] = L[k]
        BY <2>1, <4>1
      <4> QED BY <1>1, <2>1, <4>1, <4>2
    <3> QED BY <1>1, <3>1, <3>2
  <2>4. \A k \in 1 .. Len(L) : k # i => Limit(R, to[k]) = Limit(L, k)
    <3> TAKE k \in 1 .. Len(L)
    <3> HAVE k # i
    <3>1. CASE k = Len(L)
      <4>1. to[k] = Len(R)
        BY <1>1, <2>1, <3>1
      <4>2. R[to[k]] = L[k]
        BY <2>3
      <4> QED BY <3>1, <4>1, <4>2 DEF Limit
    <3>2. CASE k # Len(L)
      <4>1. k + 1 \in 1 .. Len(L) /\ to[k] # Len(R)
        BY <1>1, <2>1, <3>2
      <4>2. R[to[k] + 1].at = L[k + 1].at
        <5>1. CASE k + 1 = i
          <6>1. to[k] = k
            BY <1>1, <5>1
          <6> QED BY <2>1, <2>2, <5>1, <6>1
        <5>2. CASE k + 1 # i
          <6>1. to[k + 1] = to[k] + 1
            BY <1>1, <4>1, <5>2
          <6> HIDE DEF to
          <6> QED BY <2>3, <4>1, <5>2, <6>1
        <5> QED BY <5>1, <5>2
      <4> QED BY <3>2, <4>1, <4>2 DEF Limit
    <3> QED BY <3>1, <3>2
  <2>5. \A j \in 1 .. Len(R) : j = i \/ j = i + 1 \/ \E k \in 1 .. Len(L) : k # i /\ j = to[k]
    <3> TAKE j \in 1 .. Len(R)
    <3>1. CASE j < i
      <4>1. j \in 1 .. Len(L) /\ j # i /\ j = to[j]
        BY <1>1, <2>1, <3>1
      <4> QED BY <4>1
    <3>2. CASE j > i + 1
      <4>1. j - 1 \in 1 .. Len(L) /\ j - 1 # i /\ j = to[j - 1]
        BY <1>1, <2>1, <3>2
      <4> QED BY <4>1
    <3> QED BY <1>1, <2>1, <3>1, <3>2
  <2>6. Ordered(R)
    <3> SUFFICES ASSUME NEW j \in 1 .. Len(R) - 1 PROVE End(R[j]) <= R[j + 1].at
      BY DEF Ordered
    <3>0. j \in Nat /\ 1 <= j /\ j <= Len(L)
      BY <1>1, <2>1
    <3>1. CASE j < i
      <4>1. j \in 1 .. Len(L) - 1 /\ j \in 1 .. i - 1 /\ R[j] = L[j]
        BY <1>1, <2>1, <3>0, <3>1
      <4>2. R[j + 1].at = L[j + 1].at
        <5>1. CASE j + 1 = i
          BY <2>1, <2>2, <5>1
        <5>2. CASE j + 1 # i
          <6>1. j + 1 \in 1 .. i - 1
            BY <1>1, <3>0, <3>1, <5>2
          <6> QED BY <2>1, <6>1
        <5> QED BY <5>1, <5>2
      <4> QED BY <4>1, <4>2 DEF Ordered
    <3>2. CASE j = i
      BY <2>1, <2>2, <3>2
    <3>3. CASE j > i
      <4>1. j + 1 \in i + 2 .. Len(L) + 1 /\ (j + 1) - 1 = j
        BY <1>1, <3>0, <3>3
      <4>2. R[j + 1] = L[j]
        BY <2>1, <4>1
      <4>3. CASE j = i + 1
        <5>1. i \in 1 .. Len(L) - 1
          BY <1>1, <3>0, <4>3
        <5>2. End(L[i]) <= L[i + 1].at
          BY <5>1 DEF Ordered
        <5>3. R[i + 1] \in Seg /\ End(R[i + 1]) \in Nat
          <6>1. R[i + 1].at \in Nat /\ R[i + 1].size \in Nat /\ R[i + 1] \in Seg
            BY <2>1, <1>1, ListElements, SMTT(40)
          <6> DEFINE t == R[i + 1]
          <6>2. t.at \in Nat /\ t.size \in Nat
            BY <6>1
          <6> HIDE DEF t
          <6>3. End(t) \in Nat
            BY <1>1, <6>2 DEF End, Start
          <6> QED BY <6>1, <6>3 DEF t
        <5>4. L[i + 1].at \in Nat
          BY <1>1, <1>2, <3>0, <4>3
        <5>5. End(R[i + 1]) <= End(L[i])
          BY <2>1, <2>2
        <5> QED BY <1>3, <4>2, <4>3, <5>2, <5>3, <5>4, <5>5, SMTT(40)
      <4>4. CASE j # i + 1
        <5>1. j \in i + 2 .. Len(L) + 1 /\ j - 1 \in 1 .. Len(L) - 1 /\ (j - 1) + 1 = j
          BY <1>1, <3>0, <3>3, <4>4
        <5>2. R[j] = L[j - 1]
          BY <2>1, <5>1
        <5>3. End(L[j - 1]) <= L[(j - 1) + 1].at
          BY <5>1 DEF Ordered
        <5> QED BY <4>2, <5>1, <5>2, <5>3
      <4> QED BY <4>3, <4>4
    <3> QED BY <1>1, <3>0, <3>1, <3>2, <3>3
  <2>7. OnePair(R)
    <3> DEFINE from(j) == IF j < i THEN j ELSE j - 1
    <3>1. ASSUME NEW j \in Nat, Pair(R, j) PROVE Pair(L, from(j)) /\ from(j) + 1 # i /\ j # i /\ from(j) \in Nat
      <4>0. j \in 1 .. Len(L) /\ R[j].free /\ R[j + 1].free
        BY <1>1, <2>1, <3>1 DEF Pair
      <4>1. j # i /\ j + 1 # i
        BY <2>1, <2>2, <4>0
      <4>2. CASE j < i
        <5>1. j \in 1 .. i - 1 /\ j + 1 \in 1 .. i - 1 /\ j \in 1 .. Len(L) - 1
          BY <1>1, <4>0, <4>1, <4>2
        <5> QED BY <2>1, <4>0, <4>1, <4>2, <5>1 DEF Pair
      <4>3. CASE j > i
        <5>1. from(j) = j - 1 /\ j - 1 \in 1 .. Len(L) - 1 /\ (j - 1) + 1 = j /\ j # i /\ j - 1 \in Nat
          BY <1>1, <4>0, <4>3
        <5>2. L[j].free
          <6>1. j + 1 \in i + 2 .. Len(L) + 1 /\ (j + 1) - 1 = j
            BY <1>1, <4>0, <4>3
          <6>2. R[j + 1] = L[j]
            BY <2>1, <6>1
          <6> QED BY <4>0, <6>2
        <5>3. L[j - 1].free
          <6>1. CASE j = i + 1
            <7>1. j - 1 = i
              BY <1>1, <6>1
            <7> QED BY <1>2, <7>1
          <6>2. CASE j # i + 1
            <7>1. j \in i + 2 .. Len(L) + 1
              BY <1>1, <4>0, <4>3, <6>2
            <7> QED BY <2>1, <4>0, <7>1
          <6> QED BY <6>1, <6>2
        <5> QED BY <5>1, <5>2, <5>3 DEF Pair
      <4> QED BY <1>1, <4>0, <4>1, <4>2, <4>3
    <3>2. ASSUME NEW j \in Nat, NEW k \in Nat, j # i, k # i, from(j) = from(k) PROVE j = k
      BY <1>1, <3>2
    <3> HIDE DEF from
    <3> QED BY <3>1, <3>2 DEF OnePair, OnePairBut
  <2>8. R[Len(R)].size >= PageSize
    <3>1. CASE i = Len(L)
      BY <2>1, <2>2, <3>1
    <3>2. CASE i # Len(L)
      <4>1. Len(L) + 1 \in i + 2 .. Len(L) + 1 /\ (Len(L) + 1) - 1 = Len(L)
        BY <1>1, <3>2
      <4> QED BY <2>1, <4>1
    <3> QED BY <3>1, <3>2
  <2>9. Held(R, i, b)
    <3>1. i # Len(R)
      BY <1>1, <2>1
    <3>2. Limit(R, i) = rest.at
      BY <2>1, <3>1 DEF Limit
    <3>3. Start(R[i]) = Start(L[i])
      BY <2>1, <2>2 DEF Start
    <3> QED BY <1>5, <2>1, <2>2, <3>2, <3>3 DEF Held
  <2>10. /\ Holds(R, B \cup {b}) /\ b \notin B
         /\ \A c \in B : c.at + c.size <= b.at \/ b.at + b.size <= c.at
    <3>1. \A j \in 1 .. Len(R) : ~R[j].free => j = i \/ \E k \in 1 .. Len(L) : k # i /\ j = to[k]
      BY <2>1, <2>2, <2>5
    <3>2. Len(L) <= Len(R)
      BY <1>1, <2>1
    <3>4. to \in [1 .. Len(L) -> Nat]
      BY <1>1
    <3>5. L[i].free /\ R \in Seq(Seg)
      BY <1>2, <2>1
    <3>6. \A k \in 1 .. Len(L) : k # i => to[k] \in 1 .. Len(R) /\ R[to[k]] = L[k] /\ Limit(R, to[k]) = Limit(L, k)
      BY <2>3, <2>4, Zenon
    <3> HIDE DEF to
    <3> QED BY <1>5, <2>9, <3>1, <3>2, <3>4, <3>5, <3>6, OneMoreHeld, ZenonT(150)
  <2>11. Len(R) >= 1
    BY <1>1, <2>1
  <2> QED BY <2>1, <2>6, <2>7, <2>8, <2>10, <2>11, Zenon DEF R, b
<1> QED
  BY <1>6, <1>7 DEF b

-----------------------------------------------------------------------------
(* Free's pass over the list, which is defined by recursion: that there is     *)
(* such a function at all, for a list of any length.                           *)
Empty == [list |-> <<>>, open |-> FALSE]

Pass(L, f, i) == IF i = 0 THEN Empty ELSE Visit(f[i - 1], L[i])

Passed(L) == CHOOSE f : f = [i \in 0 .. Len(L) |-> Pass(L, f, i)]

LEMMA PassedIs ==
  ASSUME NEW L, Len(L) \in Nat
  PROVE  /\ Sweep(L) = Passed(L)[Len(L)].list
         /\ Passed(L)[0] = Empty
         /\ \A i \in 1 .. Len(L) : Passed(L)[i] = Visit(Passed(L)[i - 1], L[i])
<1> DEFINE P(k) == \E f : f = [i \in 0 .. k |-> Pass(L, f, i)]
           Bad == {k \in Nat : ~P(k)}
<1>1. ASSUME Bad # {} PROVE FALSE
  <2> DEFINE m == Min(Bad)
  <2>1. m \in Bad /\ \A k \in Bad : m <= k
    BY <1>1, MinIsLeast
  <2> HIDE DEF m
  <2>2. m \in Nat /\ ~P(m)
    BY <2>1
  <2>3. CASE m = 0
    <3> DEFINE f == [i \in 0 .. 0 |-> Empty]
    <3>1. f = [i \in 0 .. 0 |-> Pass(L, f, i)]
      BY DEF Pass
    <3> QED BY <2>2, <2>3, <3>1
  <2>4. CASE m # 0
    <3>1. m - 1 \in Nat /\ m - 1 \notin Bad
      BY <2>1, <2>2, <2>4
    <3>2. PICK g : g = [i \in 0 .. m - 1 |-> Pass(L, g, i)]
      BY <3>1
    <3> DEFINE f == [i \in 0 .. m |-> IF i = m THEN Visit(g[m - 1], L[m]) ELSE g[i]]
    <3>3. \A i \in 0 .. m : f[i] = Pass(L, f, i)
      <4> TAKE i \in 0 .. m
      <4>1. CASE i = m
        <5>1. f[m] = Visit(g[m - 1], L[m]) /\ f[m - 1] = g[m - 1]
          BY <2>2, <2>4
        <5> HIDE DEF f
        <5> QED BY <2>4, <4>1, <5>1 DEF Pass
      <4>2. CASE i # m
        <5>1. i \in 0 .. m - 1 /\ f[i] = g[i] /\ (i # 0 => f[i - 1] = g[i - 1])
          BY <2>2, <4>2
        <5>2. g[i] = Pass(L, g, i)
          BY <3>2, <5>1
        <5> HIDE DEF f
        <5> QED BY <5>1, <5>2 DEF Pass
      <4> QED BY <4>1, <4>2
    <3>4. f = [i \in 0 .. m |-> Pass(L, f, i)]
      <4>1. f = [i \in 0 .. m |-> f[i]]
        OBVIOUS
      <4> HIDE DEF f
      <4> QED BY <3>3, <4>1
    <3> QED BY <2>2, <3>4
  <2> QED BY <2>3, <2>4
<1>2. P(Len(L))
  BY <1>1
<1> DEFINE f == Passed(L)
<1>3. f = [i \in 0 .. Len(L) |-> Pass(L, f, i)]
  BY <1>2, Zenon DEF Passed
<1>4. Sweep(L) = Passed(L)[Len(L)].list
  BY Zenon DEF Sweep, Passed, Pass, Empty
<1> HIDE DEF f
<1>5. \A i \in 0 .. Len(L) : f[i] = Pass(L, f, i)
  BY <1>3
<1>6. f[0] = Empty
  BY <1>5 DEF Pass
<1>7. \A i \in 1 .. Len(L) : f[i] = Visit(f[i - 1], L[i])
  BY <1>5 DEF Pass
<1> QED
  BY <1>4, <1>6, <1>7 DEF f

(* What the pass has made of the first i segments of a list in order: w.list,  *)
(* and whether its last segment may still be merged.                           *)
SweptRight(L, i, w) ==
  LET P == w.list
      n == Len(P)
  IN  /\ P \in Seq(Seg) /\ w.open \in BOOLEAN
      /\ i = 0 => n = 0 /\ ~w.open
      /\ i > 0 => /\ n >= 1
                  /\ w.open => P[n] = L[i]
                  /\ ~w.open => i > 1 /\ L[i - 1].free /\ L[i].free /\ P[n] = Merged(L[i - 1], L[i])
      /\ Ordered(P)
      /\ \A k \in 1 .. i : ~L[k].free =>
            \E j \in 1 .. n : /\ P[j] = L[k]
                              /\ j = n => k = i
                              /\ j < n => k < i /\ P[j + 1].at = L[k + 1].at
      /\ \A j \in 1 .. n : ~P[j].free => \E k \in 1 .. i : P[j] = L[k]
      /\ \A j \in Nat : Pair(P, j) =>
            \E k \in 2 .. i - 1 : /\ P[j].at = L[k - 1].at /\ P[j + 1].at = L[k + 1].at
                                  /\ L[k - 1].free /\ L[k].free /\ L[k + 1].free

LEMMA MergedIs ==
  ASSUME HeapAssumption, NEW s \in Seg, NEW t \in Seg, End(s) <= t.at
  PROVE  LET x == Merged(s, t)
         IN  /\ x \in Seg /\ x.at = s.at /\ x.free = s.free /\ x.size >= t.size
             /\ End(x) <= End(t) /\ End(x) \in Nat
<1> DEFINE x == Merged(s, t)
<1>1. /\ Header \in Nat /\ s.at \in Nat /\ s.size \in Nat /\ t.at \in Nat /\ t.size \in Nat
      /\ s.free \in BOOLEAN
  BY Numbers DEF Seg
<1>2. x = [at |-> s.at, size |-> s.size + t.size + Header, free |-> s.free]
  BY DEF Merged, Seg
<1> HIDE DEF x
<1>3. x.at = s.at /\ x.size = s.size + t.size + Header /\ x.free = s.free /\ x \in Seg
  BY <1>1, <1>2 DEF Seg
<1>4. s.at + Header + s.size <= t.at
  BY DEF End, Start
<1>5. End(x) = s.at + Header + (s.size + t.size + Header) /\ End(t) = t.at + Header + t.size
  BY <1>3 DEF End, Start
<1> QED
  BY <1>1, <1>3, <1>4, <1>5 DEF x

LEMMA SweptMerges ==
  ASSUME HeapAssumption, NEW L \in Seq(Seg), Ordered(L), NEW i \in 1 .. Len(L),
         NEW w, SweptRight(L, i - 1, w), w.open, Last(w.list).free, L[i].free
  PROVE  SweptRight(L, i, Visit(w, L[i]))
<1> DEFINE P == w.list
           n == Len(P)
           x == Merged(L[i - 1], L[i])
           Q == Append(Front(P), x)
           v == [list |-> Q, open |-> FALSE]
<1>1. i \in Nat /\ i >= 1 /\ i <= Len(L) /\ Len(L) \in Nat
  BY ListElements
<1>2. i - 1 > 0
  BY <1>1 DEF SweptRight
<1>3. P \in Seq(Seg) /\ n \in Nat /\ n >= 1 /\ P[n] = L[i - 1] /\ Ordered(P)
  BY <1>1, <1>2 DEF SweptRight
<1>4. Last(P) = P[n] /\ L[i - 1].free
  BY <1>3 DEF Last
<1>5. Visit(w, L[i]) = v
  BY <1>3, <1>4 DEF Visit
<1>6. i - 1 \in 1 .. Len(L) - 1 /\ i - 1 \in 1 .. Len(L) /\ (i - 1) + 1 = i
  BY <1>1, <1>2
<1>7. /\ x \in Seg /\ x.at = L[i - 1].at /\ x.free = L[i - 1].free
  <2>1. L[i - 1] \in Seg /\ L[i] \in Seg /\ End(L[i - 1]) <= L[i].at
    BY <1>6, ListElements DEF Ordered
  <2> QED BY <2>1, MergedIs
<1> HIDE DEF x
<1>8. Front(P) = SubSeq(P, 1, n - 1)
  BY DEF Front
<1>9. Q \in Seq(Seg) /\ Len(Q) = n /\ Q[n] = x /\ \A j \in 1 .. n - 1 : Q[j] = P[j]
  <2> DEFINE F == SubSeq(P, 1, n - 1)
  <2>1. F \in Seq(Seg) /\ Len(F) = n - 1 /\ \A j \in 1 .. n - 1 : F[j] = P[j]
    BY <1>3
  <2> HIDE DEF F
  <2> DEFINE A == Append(F, x)
  <2>2. A \in Seq(Seg) /\ Len(A) = (n - 1) + 1 /\ A[(n - 1) + 1] = x /\ \A j \in 1 .. n - 1 : A[j] = F[j]
    BY <1>3, <1>7, <2>1
  <2>3. (n - 1) + 1 = n /\ Q = A
    BY <1>3, <1>8 DEF F
  <2> HIDE DEF A
  <2> QED BY <2>1, <2>2, <2>3
<1> HIDE DEF Q
<1>10. \A j \in 1 .. n : Q[j].at = P[j].at /\ Q[j].free = P[j].free
  <2> TAKE j \in 1 .. n
  <2>1. CASE j = n
    BY <1>3, <1>7, <1>9, <2>1
  <2>2. CASE j # n
    <3>1. j \in 1 .. n - 1
      BY <1>3, <2>2
    <3> QED BY <1>9, <3>1
  <2> QED BY <2>1, <2>2
<1>11. Ordered(Q)
  <2> SUFFICES ASSUME NEW j \in 1 .. Len(Q) - 1 PROVE End(Q[j]) <= Q[j + 1].at
    BY DEF Ordered
  <2>1. j \in 1 .. n - 1 /\ j + 1 \in 1 .. n
    BY <1>3, <1>9
  <2>2. End(P[j]) <= P[j + 1].at
    BY <1>3, <2>1 DEF Ordered
  <2> QED BY <1>9, <1>10, <2>1, <2>2
<1>12. ASSUME NEW k \in 1 .. i, ~L[k].free
       PROVE  \E j \in 1 .. n : /\ Q[j] = L[k]
                                /\ j = n => k = i
                                /\ j < n => k < i /\ Q[j + 1].at = L[k + 1].at
  <2>1. k \in 1 .. i - 1 /\ k # i - 1
    BY <1>1, <1>4, <1>12
  <2>2. PICK j \in 1 .. n : /\ P[j] = L[k]
                            /\ j = n => k = i - 1
                            /\ j < n => k < i - 1 /\ P[j + 1].at = L[k + 1].at
    BY <1>12, <2>1 DEF SweptRight
  <2>3. j # n /\ j \in 1 .. n - 1 /\ j + 1 \in 1 .. n
    BY <1>3, <2>1, <2>2
  <2>4. Q[j] = L[k] /\ Q[j + 1].at = L[k + 1].at
    BY <1>3, <1>9, <1>10, <2>2, <2>3
  <2>5. k < i
    BY <1>1, <2>1
  <2> QED BY <2>3, <2>4, <2>5
<1>13. ASSUME NEW j \in 1 .. n, ~Q[j].free PROVE \E k \in 1 .. i : Q[j] = L[k]
  <2>1. j # n
    BY <1>3, <1>4, <1>10, <1>13
  <2>2. j \in 1 .. n - 1 /\ ~P[j].free
    BY <1>3, <1>10, <1>13, <2>1
  <2>3. PICK k \in 1 .. i - 1 : P[j] = L[k]
    BY <2>2 DEF SweptRight
  <2>4. k \in 1 .. i /\ Q[j] = L[k]
    BY <1>1, <1>9, <2>2, <2>3
  <2> QED BY <2>4
<1>14. ASSUME NEW j \in Nat, Pair(Q, j)
       PROVE  \E k \in 2 .. i - 1 : /\ Q[j].at = L[k - 1].at /\ Q[j + 1].at = L[k + 1].at
                                    /\ L[k - 1].free /\ L[k].free /\ L[k + 1].free
  <2>1. j \in 1 .. n - 1 /\ j \in 1 .. n /\ j + 1 \in 1 .. n /\ Q[j].free /\ Q[j + 1].free
    BY <1>3, <1>9, <1>14 DEF Pair
  <2>2. Pair(P, j)
    BY <1>10, <2>1 DEF Pair
  <2>3. PICK k \in 2 .. (i - 1) - 1 : /\ P[j].at = L[k - 1].at /\ P[j + 1].at = L[k + 1].at
                                      /\ L[k - 1].free /\ L[k].free /\ L[k + 1].free
    BY <2>2 DEF SweptRight
  <2>4. k \in 2 .. i - 1
    BY <1>1
  <2> QED BY <1>10, <2>1, <2>3, <2>4
<1>15. v.list = Q /\ v.open = FALSE
  OBVIOUS
<1>16. SweptRight(L, i, v)
  BY <1>1, <1>2, <1>4, <1>9, <1>11, <1>12, <1>13, <1>14, <1>15 DEF SweptRight, x
<1> QED
  BY <1>5, <1>16

LEMMA SweptAppends ==
  ASSUME HeapAssumption, NEW L \in Seq(Seg), Ordered(L), NEW i \in 1 .. Len(L),
         NEW w, SweptRight(L, i - 1, w), ~(w.open /\ Last(w.list).free /\ L[i].free)
  PROVE  SweptRight(L, i, Visit(w, L[i]))
<1> DEFINE P == w.list
           n == Len(P)
           Q == Append(P, L[i])
           v == [list |-> Q, open |-> TRUE]
<1>1. i \in Nat /\ i >= 1 /\ i <= Len(L) /\ Len(L) \in Nat /\ L[i] \in Seg
  BY ListElements
<1>2. P \in Seq(Seg) /\ n \in Nat /\ Ordered(P) /\ w.open \in BOOLEAN
  BY DEF SweptRight
<1>3. Visit(w, L[i]) = v
  BY Zenon DEF Visit
<1>4. Q \in Seq(Seg) /\ Len(Q) = n + 1 /\ Q[n + 1] = L[i] /\ \A j \in 1 .. n : Q[j] = P[j]
  BY <1>1, <1>2
<1> HIDE DEF Q
<1>5. i = 1 => n = 0
  BY <1>1 DEF SweptRight
<1>6. ASSUME i > 1
      PROVE  /\ n >= 1 /\ End(P[n]) <= L[i].at /\ i - 1 \in 1 .. Len(L)
             /\ P[n].free /\ L[i].free => /\ i > 2 /\ P[n].at = L[i - 2].at
                                          /\ L[i - 2].free /\ L[i - 1].free
  <2>1. /\ i - 1 > 0 /\ i - 1 \in 1 .. Len(L) /\ i - 1 \in 1 .. Len(L) - 1 /\ (i - 1) + 1 = i
        /\ (i - 1) - 1 = i - 2
    BY <1>1, <1>6
  <2>2. /\ n >= 1
        /\ w.open => P[n] = L[i - 1]
        /\ ~w.open => /\ i - 1 > 1 /\ L[(i - 1) - 1].free /\ L[i - 1].free
                      /\ P[n] = Merged(L[(i - 1) - 1], L[i - 1])
    BY <2>1 DEF SweptRight
  <2>3. End(L[i - 1]) <= L[i].at /\ L[i - 1] \in Seg /\ L[i].at \in Nat /\ End(L[i - 1]) \in Nat
    BY <2>1, ListElements, LimitIs DEF Ordered
  <2>4. CASE w.open
    <3>1. ~(P[n].free /\ L[i].free)
      BY <2>4 DEF Last
    <3> QED BY <2>1, <2>2, <2>3, <2>4, <3>1
  <2>5. CASE ~w.open
    <3>1. i > 2 /\ i - 2 \in 1 .. Len(L) - 1 /\ i - 2 \in 1 .. Len(L) /\ (i - 2) + 1 = i - 1
      BY <1>1, <2>1, <2>2, <2>5
    <3>2. End(L[i - 2]) <= L[i - 1].at /\ L[i - 2] \in Seg
      BY <3>1, ListElements DEF Ordered
    <3>3. P[n] = Merged(L[i - 2], L[i - 1]) /\ L[i - 2].free /\ L[i - 1].free
      BY <2>1, <2>2, <2>5
    <3>4. P[n].at = L[i - 2].at /\ End(P[n]) <= End(L[i - 1]) /\ End(P[n]) \in Nat
      BY <2>3, <3>2, <3>3, MergedIs
    <3> QED BY <2>1, <2>2, <2>3, <3>1, <3>3, <3>4, SMTT(40)
  <2> QED BY <1>2, <2>4, <2>5
<1>7. Ordered(Q)
  <2> SUFFICES ASSUME NEW j \in 1 .. Len(Q) - 1 PROVE End(Q[j]) <= Q[j + 1].at
    BY DEF Ordered
  <2>1. j \in 1 .. n
    BY <1>2, <1>4
  <2>2. CASE j = n
    <3>1. i > 1
      BY <1>1, <1>2, <1>5, <2>1
    <3> QED BY <1>4, <1>6, <2>1, <2>2, <3>1
  <2>3. CASE j # n
    <3>1. j \in 1 .. n - 1 /\ j + 1 \in 1 .. n
      BY <1>2, <2>1, <2>3
    <3> QED BY <1>2, <1>4, <2>1, <3>1 DEF Ordered
  <2> QED BY <2>2, <2>3
<1>8. ASSUME NEW k \in 1 .. i, ~L[k].free
      PROVE  \E j \in 1 .. n + 1 : /\ Q[j] = L[k]
                                   /\ j = n + 1 => k = i
                                   /\ j < n + 1 => k < i /\ Q[j + 1].at = L[k + 1].at
  <2>1. CASE k = i
    <3>1. n + 1 \in 1 .. n + 1 /\ ~(n + 1 < n + 1)
      BY <1>2
    <3> QED BY <1>4, <2>1, <3>1
  <2>2. CASE k # i
    <3>1. k \in 1 .. i - 1
      BY <1>1, <2>2
    <3>2. PICK j \in 1 .. n : /\ P[j] = L[k]
                              /\ j = n => k = i - 1
                              /\ j < n => k < i - 1 /\ P[j + 1].at = L[k + 1].at
      BY <1>8, <3>1 DEF SweptRight
    <3>3. j \in 1 .. n + 1 /\ j # n + 1 /\ k < i /\ Q[j] = L[k]
      BY <1>1, <1>2, <1>4, <3>1, <3>2
    <3>4. Q[j + 1].at = L[k + 1].at
      <4>1. CASE j = n
        <5>1. k + 1 = i
          BY <1>1, <3>1, <3>2, <4>1
        <5> QED BY <1>4, <4>1, <5>1
      <4>2. CASE j # n
        <5>1. j + 1 \in 1 .. n /\ j < n
          BY <1>2, <4>2
        <5> QED BY <1>4, <3>2, <5>1
      <4> QED BY <4>1, <4>2
    <3> QED BY <3>3, <3>4
  <2> QED BY <2>1, <2>2
<1>9. ASSUME NEW j \in 1 .. n + 1, ~Q[j].free PROVE \E k \in 1 .. i : Q[j] = L[k]
  <2>1. CASE j = n + 1
    <3>1. i \in 1 .. i
      BY <1>1
    <3> QED BY <1>4, <2>1, <3>1
  <2>2. CASE j # n + 1
    <3>1. j \in 1 .. n
      BY <1>2, <2>2
    <3>2. PICK k \in 1 .. i - 1 : P[j] = L[k]
      BY <1>4, <1>9, <3>1 DEF SweptRight
    <3>3. k \in 1 .. i
      BY <1>1
    <3> QED BY <1>4, <3>1, <3>2, <3>3
  <2> QED BY <2>1, <2>2
<1>10. ASSUME NEW j \in Nat, Pair(Q, j)
       PROVE  \E k \in 2 .. i - 1 : /\ Q[j].at = L[k - 1].at /\ Q[j + 1].at = L[k + 1].at
                                    /\ L[k - 1].free /\ L[k].free /\ L[k + 1].free
  <2>1. j \in 1 .. n /\ Q[j].free /\ Q[j + 1].free
    BY <1>2, <1>4, <1>10 DEF Pair
  <2>2. CASE j = n
    <3>1. i > 1
      BY <1>1, <1>2, <1>5, <2>1
    <3>2. /\ P[n].free /\ L[i].free /\ Q[n] = P[n] /\ Q[j + 1].at = L[i].at
      BY <1>4, <2>1, <2>2
    <3>3. i > 2 /\ P[n].at = L[i - 2].at /\ L[i - 2].free /\ L[i - 1].free
      BY <1>6, <3>1, <3>2
    <3>4. i - 1 \in 2 .. i - 1 /\ (i - 1) - 1 = i - 2 /\ (i - 1) + 1 = i
      BY <1>1, <3>3
    <3> QED BY <2>2, <3>2, <3>3, <3>4
  <2>3. CASE j # n
    <3>1. j \in 1 .. n - 1 /\ j + 1 \in 1 .. n
      BY <1>2, <2>1, <2>3
    <3>2. Q[j] = P[j] /\ Q[j + 1] = P[j + 1]
      BY <1>4, <2>1, <3>1
    <3>3. Pair(P, j)
      BY <2>1, <3>1, <3>2 DEF Pair
    <3>4. PICK k \in 2 .. (i - 1) - 1 : /\ P[j].at = L[k - 1].at /\ P[j + 1].at = L[k + 1].at
                                        /\ L[k - 1].free /\ L[k].free /\ L[k + 1].free
      BY <3>3 DEF SweptRight
    <3>5. k \in 2 .. i - 1
      BY <1>1
    <3> QED BY <3>2, <3>4, <3>5
  <2> QED BY <2>2, <2>3
<1>11. v.list = Q /\ v.open = TRUE
  OBVIOUS
<1> DEFINE q == Len(Q)
<1>12. q = n + 1 /\ q >= 1 /\ i # 0 /\ Q[q] = L[i]
  BY <1>1, <1>2, <1>4
<1> HIDE DEF v
<1>13. /\ \A k \in 1 .. i : ~L[k].free =>
            \E j \in 1 .. q : /\ Q[j] = L[k]
                              /\ j = q => k = i
                              /\ j < q => k < i /\ Q[j + 1].at = L[k + 1].at
       /\ \A j \in 1 .. q : ~Q[j].free => \E k \in 1 .. i : Q[j] = L[k]
  BY <1>8, <1>9, <1>12
<1>14. v.open \in BOOLEAN /\ v.open
  BY <1>11
<1>15. SweptRight(L, i, v)
  BY <1>4, <1>7, <1>10, <1>11, <1>12, <1>13, <1>14, SMTT(40) DEF SweptRight
<1> QED
  BY <1>3, <1>15 DEF v

LEMMA SweepIsRight ==
  ASSUME HeapAssumption, NEW L \in Seq(Seg), Ordered(L)
  PROVE  SweptRight(L, Len(L), Passed(L)[Len(L)]) /\ Sweep(L) = Passed(L)[Len(L)].list
<1> DEFINE f == Passed(L)
           Bad == {k \in Nat : k <= Len(L) /\ ~SweptRight(L, k, f[k])}
<1>1. Len(L) \in Nat
  BY ListElements
<1>2. f[0] = Empty /\ \A i \in 1 .. Len(L) : f[i] = Visit(f[i - 1], L[i])
  BY <1>1, PassedIs
<1> HIDE DEF f
<1>3. ASSUME Bad # {} PROVE FALSE
  <2> DEFINE m == Min(Bad)
  <2>1. m \in Bad /\ \A k \in Bad : m <= k
    BY <1>3, MinIsLeast
  <2> HIDE DEF m
  <2>2. m \in Nat /\ m <= Len(L) /\ ~SweptRight(L, m, f[m])
    BY <2>1
  <2>3. CASE m = 0
    <3>1. f[0].list = <<>> /\ f[0].open = FALSE
      BY <1>2 DEF Empty
    <3>2. <<>> \in Seq(Seg) /\ Len(<<>>) = 0
      OBVIOUS
    <3>3. SweptRight(L, 0, f[0])
      <4>1. Ordered(<<>>) /\ \A j : ~Pair(<<>>, j)
        BY <3>2 DEF Ordered, Pair
      <4> DEFINE w == f[0]
      <4>2. /\ w.list = <<>> /\ w.list \in Seq(Seg) /\ Len(w.list) = 0 /\ w.open = FALSE /\ ~w.open
            /\ Ordered(w.list) /\ \A j : ~Pair(w.list, j)
        BY <3>1, <3>2, <4>1
      <4>3. w.open \in BOOLEAN
        BY <4>2
      <4> HIDE DEF w
      <4>4. ~(0 > 0) /\ 1 .. 0 = {}
        OBVIOUS
      <4>5. SweptRight(L, 0, w)
        BY <4>2, <4>3, <4>4, Zenon DEF SweptRight
      <4> QED BY <4>5 DEF w
    <3> QED BY <2>2, <2>3, <3>3
  <2>4. CASE m # 0
    <3>1. m \in 1 .. Len(L) /\ m - 1 \in Nat /\ m - 1 <= Len(L) /\ m - 1 \notin Bad
      BY <1>1, <2>1, <2>2, <2>4
    <3>2. SweptRight(L, m - 1, f[m - 1])
      BY <3>1
    <3>3. SweptRight(L, m, Visit(f[m - 1], L[m]))
      BY <3>1, <3>2, SweptMerges, SweptAppends
    <3> QED BY <1>2, <2>2, <3>1, <3>3
  <2> QED BY <2>3, <2>4
<1>4. SweptRight(L, Len(L), f[Len(L)])
  BY <1>1, <1>3
<1> QED
  BY <1>1, <1>4, PassedIs DEF f

(* Free: the block's segment is marked, and the pass leaves no more than one   *)
(* place where free segments meet.                                             *)
LEMMA FreeKeeps ==
  ASSUME HeapAssumption, NEW L \in Seq(Seg), NEW B \in SUBSET Block, NEW b \in B,
         Len(L) >= 1, Ordered(L), Holds(L, B), OnePair(L), L[Len(L)].size >= PageSize
  PROVE  LET M == [i \in DOMAIN L |-> IF Start(L[i]) = b.at THEN [L[i] EXCEPT !.free = TRUE] ELSE L[i]]
             R == Sweep(M)
         IN  /\ R \in Seq(Seg) /\ Len(R) >= 1 /\ Ordered(R) /\ OnePair(R) /\ R[Len(R)].size >= PageSize
             /\ Holds(R, B \ {b})
<1> DEFINE M == [i \in DOMAIN L |-> IF Start(L[i]) = b.at THEN [L[i] EXCEPT !.free = TRUE] ELSE L[i]]
           R == Sweep(M)
<1>1. /\ Len(L) \in Nat /\ DOMAIN L = 1 .. Len(L)
      /\ \A k \in 1 .. Len(L) : /\ L[k] \in Seg /\ L[k].at \in Nat /\ L[k].size \in Nat
                                /\ L[k].free \in BOOLEAN
  BY ListElements
<1>2. PICK u \in 1 .. Len(L) : Held(L, u, b)
  BY DEF Holds
<1>3. ~L[u].free /\ Start(L[u]) = b.at
  BY <1>2 DEF Held
<1>4. ASSUME NEW k \in 1 .. Len(L), k # u PROVE Start(L[k]) # b.at
  <2>1. CASE k < u
    <3>1. Start(L[k]) < Start(L[u])
      BY <2>1, LaterBehind
    <3> QED BY <1>3, <3>1, LimitIs
  <2>2. CASE u < k
    <3>1. Start(L[u]) < Start(L[k])
      BY <2>2, LaterBehind
    <3> QED BY <1>3, <3>1, LimitIs
  <2> QED BY <1>1, <1>4, <2>1, <2>2
<1> DEFINE t == [L[u] EXCEPT !.free = TRUE]
<1>5. t \in Seg /\ t.at = L[u].at /\ t.size = L[u].size /\ t.free = TRUE
  <2>1. L[u] \in Seg
    BY <1>1
  <2> QED BY <2>1 DEF Seg
<1>6. M = [i \in 1 .. Len(L) |-> IF i = u THEN t ELSE L[i]]
  BY <1>1, <1>3, <1>4
<1> HIDE DEF M, t
<1>7. /\ M \in Seq(Seg) /\ Len(M) = Len(L) /\ M[u].free = TRUE
      /\ \A k \in 1 .. Len(L) : /\ M[k].at = L[k].at /\ M[k].size = L[k].size
                                /\ k # u => M[k] = L[k]
  <2>1. \A k \in 1 .. Len(L) : M[k] = IF k = u THEN t ELSE L[k]
    BY <1>6
  <2>2. M \in [1 .. Len(L) -> Seg]
    BY <1>1, <1>5, <1>6
  <2>3. M \in Seq(Seg) /\ Len(M) = Len(L)
    BY <1>1, <2>2
  <2> QED BY <1>5, <2>1, <2>3
<1>8. \A k \in 1 .. Len(L) : Start(M[k]) = Start(L[k]) /\ End(M[k]) = End(L[k])
  BY <1>7 DEF Start, End
<1>9. Ordered(M)
  <2> SUFFICES ASSUME NEW j \in 1 .. Len(M) - 1 PROVE End(M[j]) <= M[j + 1].at
    BY DEF Ordered
  <2>1. j \in 1 .. Len(L) - 1 /\ j \in 1 .. Len(L) /\ j + 1 \in 1 .. Len(L)
    BY <1>1, <1>7
  <2> QED BY <1>7, <1>8, <2>1 DEF Ordered
<1> DEFINE n == Len(L)
           w == Passed(M)[n]
           q == Len(R)
<1>10. SweptRight(M, n, w) /\ R = w.list
  BY <1>7, <1>9, SweepIsRight
<1> HIDE DEF w, R
<1>11. /\ R \in Seq(Seg) /\ q \in Nat /\ q >= 1 /\ Ordered(R)
       /\ (R[q] = M[n] \/ (n > 1 /\ R[q] = Merged(M[n - 1], M[n])))
  <2>1. n > 0
    BY <1>1
  <2>2. R \in Seq(Seg) /\ Ordered(R) /\ w.open \in BOOLEAN
    BY <1>10 DEF SweptRight
  <2>3. q >= 1 /\ (w.open => R[q] = M[n]) /\ (~w.open => n > 1 /\ R[q] = Merged(M[n - 1], M[n]))
    BY <1>10, <2>1 DEF SweptRight
  <2>4. q \in Nat
    BY <2>2
  <2> QED BY <2>2, <2>3, <2>4
<1>12. R[q].size >= PageSize /\ End(R[q]) <= End(L[n])
  <2>1. n \in 1 .. n /\ PageSize \in Nat
    BY <1>1, Numbers
  <2>2. CASE R[q] = M[n]
    <3>1. End(L[n]) \in Nat
      BY <2>1, LimitIs
    <3> QED BY <1>7, <1>8, <2>1, <2>2, <3>1
  <2>3. CASE n > 1 /\ R[q] = Merged(M[n - 1], M[n])
    <3>1. n - 1 \in 1 .. Len(M) - 1 /\ n - 1 \in 1 .. Len(M) /\ n \in 1 .. Len(M) /\ (n - 1) + 1 = n
      BY <1>1, <1>7, <2>3
    <3>2. M[n - 1] \in Seg /\ M[n] \in Seg /\ End(M[n - 1]) <= M[n].at
      BY <1>7, <1>9, <3>1, ListElements DEF Ordered
    <3>3. R[q].size >= M[n].size /\ R[q].size \in Nat /\ End(R[q]) <= End(M[n])
      BY <2>3, <3>2, MergedIs DEF Seg
    <3>4. M[n].size = L[n].size /\ L[n].size \in Nat /\ End(M[n]) = End(L[n])
      BY <1>1, <1>7, <1>8, <2>1
    <3> QED BY <2>1, <3>3, <3>4
  <2> QED BY <1>11, <2>2, <2>3
<1>13. ASSUME NEW k \in 1 .. n, ~M[k].free
       PROVE  \E j \in 1 .. q : R[j] = L[k] /\ k # u /\ Limit(R, j) = Limit(L, k)
  <2>1. PICK j \in 1 .. q : /\ R[j] = M[k]
                            /\ j = q => k = n
                            /\ j < q => k < n /\ R[j + 1].at = M[k + 1].at
    BY <1>10, <1>13 DEF SweptRight
  <2>2. k # u /\ M[k] = L[k]
    BY <1>7, <1>13
  <2>3. CASE j = q
    BY <2>1, <2>2, <2>3 DEF Limit
  <2>4. CASE j # q
    <3>1. j < q /\ k < n
      BY <1>11, <2>1, <2>4
    <3>2. k # n /\ k + 1 \in 1 .. n
      <4>1. n \in Nat /\ k \in 1 .. n /\ k < n
        BY <1>1, <3>1
      <4> HIDE DEF n
      <4> QED BY <4>1
    <3>3. R[j + 1].at = L[k + 1].at
      BY <1>7, <2>1, <3>1, <3>2
    <3> QED BY <2>1, <2>2, <2>4, <3>2, <3>3 DEF Limit
  <2> QED BY <2>3, <2>4
<1>14. Holds(R, B \ {b})
  <2>1. ASSUME NEW c \in B \ {b} PROVE \E j \in 1 .. q : Held(R, j, c)
    <3>1. PICK k \in 1 .. n : Held(L, k, c)
      BY <2>1 DEF Holds
    <3>2. k # u
      BY <1>3, <2>1, <3>1 DEF Holds, Held
    <3>3. M[k] = L[k] /\ ~L[k].free
      BY <1>7, <3>1, <3>2 DEF Held
    <3>4. PICK j \in 1 .. q : R[j] = L[k] /\ Limit(R, j) = Limit(L, k)
      BY <1>13, <3>3
    <3>5. Held(R, j, c)
      BY <3>1, <3>4 DEF Held
    <3> QED BY <3>5
  <2>2. ASSUME NEW j \in 1 .. q, ~R[j].free PROVE \E c \in B \ {b} : c.at = Start(R[j])
    <3>1. PICK k \in 1 .. n : R[j] = M[k]
      BY <1>10, <2>2 DEF SweptRight
    <3>2. k # u /\ M[k] = L[k]
      BY <1>7, <2>2, <3>1
    <3>3. PICK c \in B : c.at = Start(L[k])
      BY <2>2, <3>1, <3>2 DEF Holds
    <3>4. c # b
      BY <1>4, <3>2, <3>3
    <3> QED BY <3>1, <3>2, <3>3, <3>4
  <2>3. \A c, d \in B \ {b} : c.at = d.at => c = d
    BY DEF Holds
  <2> QED BY <2>1, <2>2, <2>3 DEF Holds
(* Each meeting of free segments that is left takes three of the marked list.  *)
<1>15. OnePair(R)
  <2> DEFINE Three(j, k) == /\ k \in 2 .. n - 1 /\ R[j].at = L[k - 1].at /\ R[j + 1].at = L[k + 1].at
                            /\ Pair(M, k - 1) /\ Pair(M, k)
  <2>1. ASSUME NEW j \in Nat, Pair(R, j) PROVE \E k \in 2 .. n - 1 : Three(j, k)
    <3>1. PICK k \in 2 .. n - 1 : /\ R[j].at = M[k - 1].at /\ R[j + 1].at = M[k + 1].at
                                  /\ M[k - 1].free /\ M[k].free /\ M[k + 1].free
      BY <1>10, <2>1 DEF SweptRight
    <3>2. /\ k - 1 \in 1 .. n /\ k + 1 \in 1 .. n /\ k - 1 \in 1 .. Len(M) - 1 /\ k \in 1 .. Len(M) - 1
          /\ (k - 1) + 1 = k
      BY <1>1, <1>7
    <3>3. Three(j, k)
      BY <1>7, <3>1, <3>2 DEF Pair
    <3> QED BY <3>3
  <2>2. ASSUME NEW j \in Nat, Pair(M, j), j # u, j + 1 # u PROVE Pair(L, j)
    <3>1. j \in 1 .. n - 1 /\ j \in 1 .. n /\ j + 1 \in 1 .. n
      BY <1>1, <1>7, <2>2 DEF Pair
    <3> QED BY <1>7, <2>2, <3>1 DEF Pair
  <2>3. ASSUME NEW j \in Nat, NEW i \in Nat, Pair(R, j), Pair(R, i), j < i PROVE FALSE
    <3>1. PICK k \in 2 .. n - 1 : Three(j, k)
      BY <2>1, <2>3
    <3>2. PICK l \in 2 .. n - 1 : Three(i, l)
      BY <2>1, <2>3
    <3>3. j \in 1 .. q /\ j + 1 \in 1 .. q /\ i \in 1 .. q
      BY <1>11, <2>3 DEF Pair
    <3>4. R[j + 1].at <= R[i].at
      <4>1. CASE j + 1 = i
        BY <1>11, <3>3, <4>1, ListElements
      <4>2. CASE j + 1 # i
        <5>1. R[j + 1].at < R[i].at
          <6>1. j + 1 < i
            BY <2>3, <4>2
          <6> QED BY <1>11, <3>3, <6>1, LaterBehind
        <5>2. R[j + 1].at \in Nat /\ R[i].at \in Nat
          BY <1>11, <3>3, ListElements
        <5> QED BY <5>1, <5>2
      <4> QED BY <4>1, <4>2
    <3>5. L[k + 1].at <= L[l - 1].at
      BY <3>1, <3>2, <3>4
    <3>6. k \in Nat /\ l \in Nat /\ k + 1 \in 1 .. n /\ l - 1 \in 1 .. n /\ k - 1 \in Nat /\ l - 1 \in Nat
      BY <1>1
    <3>7. k + 1 <= l - 1
      <4>1. ASSUME l - 1 < k + 1 PROVE FALSE
        <5>1. L[l - 1].at < L[k + 1].at
          BY <3>6, <4>1, LaterBehind
        <5>2. L[l - 1].at \in Nat /\ L[k + 1].at \in Nat
          BY <1>1, <3>6
        <5> QED BY <3>5, <5>1, <5>2
      <4> QED BY <3>6, <4>1
    <3>8. Pair(M, k - 1) /\ Pair(M, k) /\ Pair(M, l - 1) /\ Pair(M, l)
      BY <3>1, <3>2
    <3>9. \A x, y \in {k - 1, k, l - 1, l} : x # u /\ x + 1 # u /\ y # u /\ y + 1 # u => x = y
      BY <2>2, <3>6, <3>8 DEF OnePair
    <3> HIDE DEF n
    <3>10. u \in Nat
      BY <1>1
    <3> QED BY <3>6, <3>7, <3>9, <3>10
  <2>4. ASSUME NEW j \in Nat, NEW i \in Nat, Pair(R, j), Pair(R, i) PROVE j = i
    BY <2>3, <2>4
  <2> QED BY <2>4 DEF OnePair
<1> QED
  BY <1>11, <1>12, <1>14, <1>15 DEF R, M

(* The sizes: Rounded grows to a multiple of the quantum, and the segment that *)
(* Reserve asks for holds the size rounded again, exactly or with room for one *)
(* more header.                                                                *)
LEMMA Times ==
  ASSUME NEW q \in Nat, q > 0, NEW k \in Nat
  PROVE  (q * k) % q = 0
<1>1. q * k \in Nat
  OBVIOUS
<1> QED
  BY <1>1, Z3

LEMMA Divided ==
  ASSUME NEW q \in Nat, q > 0, NEW n \in Nat
  PROVE  n = q * (n \div q) + (n % q) /\ n \div q \in Nat /\ n % q \in 0 .. q - 1
OBVIOUS

LEMMA RoundedIs ==
  ASSUME HeapAssumption, NEW r \in Nat
  PROVE  Rounded(r) \in Nat /\ Rounded(r) > r /\ Rounded(r) >= Quantum /\ Rounded(r) % Quantum = 0
<1>1. Quantum \in Nat /\ Quantum > 0
  BY Numbers
<1> DEFINE k == r \div Quantum
<1>2. r = Quantum * k + (r % Quantum) /\ k \in Nat /\ r % Quantum \in 0 .. Quantum - 1
  BY <1>1, Divided
<1>3. (Quantum * (k + 1)) % Quantum = 0
  BY <1>1, <1>2, Times
<1>4. Quantum * (k + 1) = Quantum * k + Quantum /\ Quantum * k \in Nat
  BY <1>1, <1>2
<1>5. Rounded(r) = Quantum * (k + 1)
  BY <1>1, <1>2, <1>4 DEF Rounded
<1> QED
  BY <1>1, <1>2, <1>3, <1>4, <1>5 DEF Rounded

LEMMA NewFits ==
  ASSUME HeapAssumption, NEW size \in Nat, size % Quantum = 0
  PROVE  LET new == size + (PageSize - (size % PageSize))
         IN  /\ new \in Nat /\ new >= PageSize /\ new >= Rounded(size)
             /\ new = Rounded(size) \/ new >= Rounded(size) + Header
<1> DEFINE new  == size + (PageSize - (size % PageSize))
           rest == size % PageSize
           z == size \div Quantum
           y == size \div PageSize
           p == PageSize \div Quantum
           w == z - p * y
<1>1. /\ Quantum \in Nat /\ Quantum > 0 /\ PageSize \in Nat /\ PageSize > 0 /\ PageSize % Quantum = 0
      /\ Header \in Nat /\ Header <= Quantum
  BY Numbers
<1>2. size = Quantum * z /\ z \in Nat
  BY <1>1, Divided
<1>3. PageSize = Quantum * p /\ p \in Nat
  BY <1>1, Divided
<1>4. size = PageSize * y + rest /\ y \in Nat /\ rest \in 0 .. PageSize - 1
  BY <1>1, Divided
<1>5. Rounded(size) = size + Quantum
  BY <1>1 DEF Rounded
<1> HIDE DEF z, y, p
<1>6. p * y \in Nat /\ w \in Int
  BY <1>2, <1>3, <1>4
<1>7. PageSize * y = Quantum * (p * y)
  BY <1>1, <1>3, <1>4
<1>8. Quantum * z - Quantum * (p * y) = Quantum * w
  <2> DEFINE t == p * y
  <2>1. t \in Nat /\ z \in Nat /\ Quantum \in Nat
    BY <1>1, <1>2, <1>6
  <2> HIDE DEF t
  <2>2. Quantum * z - Quantum * t = Quantum * (z - t)
    BY <2>1
  <2> QED BY <2>2 DEF t
<1>9. size - PageSize * y = Quantum * w
  <2>1. size - PageSize * y = Quantum * z - Quantum * (p * y)
    BY <1>2, <1>7
  <2> QED BY <1>8, <2>1
<1>10. rest = Quantum * w
  <2> DEFINE v == PageSize * y
  <2>1. v \in Nat /\ size = v + rest /\ size - v = Quantum * w /\ rest \in Nat
    BY <1>1, <1>4, <1>9
  <2> HIDE DEF v, w, rest
  <2> QED BY <2>1
<1> HIDE DEF w
<1> DEFINE d == p - w
<1>11. d \in Int /\ Quantum * d = PageSize - rest
  <2>1. Quantum * d = Quantum * p - Quantum * w
    BY <1>1, <1>3, <1>6
  <2> QED BY <1>3, <1>6, <1>10, <2>1
<1>12. Quantum * d > 0
  BY <1>1, <1>4, <1>11
<1>13. d >= 1
  BY <1>1, <1>11, <1>12
<1>14. d = 1 \/ Quantum * d >= 2 * Quantum
  BY <1>1, <1>11, <1>13
<1>15. d = 1 => Quantum * d = Quantum
  BY <1>1
<1> HIDE DEF rest
<1>16. new = size + (PageSize - rest)
  BY DEF rest
<1> HIDE DEF new
<1>17. new = size + Quantum \/ new >= size + 2 * Quantum
  BY <1>1, <1>4, <1>11, <1>14, <1>15, <1>16
<1>18. new \in Nat /\ new >= PageSize
  <2> DEFINE v == PageSize * y
  <2>1. v \in Nat /\ size = v + rest
    BY <1>1, <1>4
  <2> HIDE DEF v
  <2> QED BY <1>1, <1>4, <1>16, <2>1
<1> QED
  BY <1>1, <1>5, <1>17, <1>18 DEF new

(* Reserve: the list that ends in the new segment, when no header and no block *)
(* is destroyed, is one in which the block is taken from that segment.         *)
LEMMA LastIndexIs ==
  ASSUME NEW L \in Seq(Seg), NEW at, L = segments, at = last
  PROVE  /\ LastIndex \in 0 .. Len(L)
         /\ LastIndex # 0 => L[LastIndex].at = at
         /\ LastIndex = 0 => \A i \in 1 .. Len(L) : L[i].at # at
         /\ \A i \in 1 .. Len(L) : L[i].at = at => LastIndex <= i /\ LastIndex # 0
<1> DEFINE I == {i \in 1 .. Len(L) : L[i].at = at}
<1>1. LastIndex = IF I # {} THEN Min(I) ELSE 0
  BY Zenon DEF LastIndex, SelectInSeq
<1>2. I \in SUBSET Nat
  OBVIOUS
<1>3. I # {} => Min(I) \in I /\ \A k \in I : Min(I) <= k
  BY <1>2, MinIsLeast
<1>4. Len(L) \in Nat
  OBVIOUS
<1> HIDE DEF I
<1>5. CASE I = {}
  BY <1>1, <1>4, <1>5 DEF I
<1>6. CASE I # {}
  <2> DEFINE f == LastIndex
  <2>1. f \in I /\ \A k \in I : f <= k
    BY <1>1, <1>3, <1>6
  <2> HIDE DEF f
  <2>2. f \in 1 .. Len(L) /\ L[f].at = at /\ \A i \in 1 .. Len(L) : L[i].at = at => f <= i
    BY <2>1 DEF I
  <2> QED BY <1>4, <2>2 DEF f
<1> QED
  BY <1>5, <1>6

LEMMA ExtendedIs ==
  ASSUME HeapAssumption, NEW L \in Seq(Seg), NEW B \in SUBSET Block, NEW l \in 1 .. Len(L),
         NEW new \in Seg, new.at = End(L[l]), new.free, new.size >= PageSize,
         Ordered(L), Holds(L, B), OnePair(L),
         \A i \in l + 1 .. Len(L) : L[i].free,
         \A b \in B : ~(b.at < Start(new) /\ new.at < b.at + b.size)
  PROVE  LET M == Append(SubSeq(L, 1, l), new)
         IN  /\ M \in Seq(Seg) /\ Len(M) = l + 1 /\ M[l + 1] = new
             /\ \A k \in 1 .. l : M[k] = L[k]
             /\ Ordered(M) /\ Holds(M, B) /\ OnePairBut(M, l + 1)
<1> DEFINE A == SubSeq(L, 1, l)
           M == Append(A, new)
<1>1. /\ Len(L) \in Nat /\ DOMAIN L = 1 .. Len(L)
      /\ \A k \in 1 .. Len(L) : /\ L[k] \in Seg /\ L[k].at \in Nat /\ L[k].size \in Nat
                                /\ L[k].free \in BOOLEAN
  BY ListElements
<1>2. A \in Seq(Seg) /\ Len(A) = l /\ \A k \in 1 .. l : A[k] = L[k]
  BY <1>1
<1> HIDE DEF A
<1>3. M \in Seq(Seg) /\ Len(M) = l + 1 /\ M[l + 1] = new /\ \A k \in 1 .. l : M[k] = L[k]
  <2>1. M \in Seq(Seg) /\ Len(M) = l + 1 /\ M[l + 1] = new /\ \A k \in 1 .. l : M[k] = A[k]
    BY <1>2
  <2> QED BY <1>2, <2>1
<1> HIDE DEF M
<1>4. l \in Nat /\ l >= 1 /\ l <= Len(L)
  BY <1>1
<1>5. \A k \in 1 .. Len(L) : /\ Start(L[k]) \in Nat /\ End(L[k]) \in Nat /\ Limit(L, k) \in Nat
                             /\ Start(L[k]) <= End(L[k]) /\ End(L[k]) <= Limit(L, k)
  BY LimitIs
<1>6. Header \in Nat /\ Header > 0 /\ new.at \in Nat
  BY <1>4, <1>5, Numbers
<1>7. Ordered(M)
  <2> SUFFICES ASSUME NEW i \in 1 .. Len(M) - 1 PROVE End(M[i]) <= M[i + 1].at
    BY DEF Ordered
  <2>1. i \in 1 .. l /\ i \in 1 .. Len(L) /\ M[i] = L[i]
    BY <1>3, <1>4
  <2>2. CASE i = l
    BY <1>3, <1>5, <2>1, <2>2
  <2>3. CASE i # l
    <3>1. i \in 1 .. Len(L) - 1 /\ i + 1 \in 1 .. l
      BY <1>4, <2>1, <2>3
    <3>2. M[i + 1] = L[i + 1] /\ End(L[i]) <= L[i + 1].at
      BY <1>3, <3>1 DEF Ordered
    <3> QED BY <2>1, <3>2
  <2> QED BY <2>2, <2>3
<1>8. ASSUME NEW b \in B, NEW k \in 1 .. Len(L), Held(L, k, b)
      PROVE  k \in 1 .. l /\ k \in 1 .. Len(M) /\ Held(M, k, b)
  <2>1. ~L[k].free /\ Start(L[k]) = b.at /\ b.at + b.size <= Limit(L, k)
    BY <1>8 DEF Held
  <2>2. k \in 1 .. l /\ k \in 1 .. Len(M)
    BY <1>1, <1>3, <1>4, <2>1
  <2>3. M[k] = L[k]
    BY <1>3, <2>2
  <2>4. CASE k < l
    <3>1. k + 1 \in 1 .. l /\ k # l + 1 /\ k # Len(L)
      <4> DEFINE n == Len(L)
      <4>1. n \in Nat /\ k \in 1 .. n
        BY <1>1
      <4> HIDE DEF n
      <4>2. k + 1 \in 1 .. l /\ k # l + 1 /\ k # n
        BY <1>4, <2>4, <4>1 DEF n
      <4> QED BY <4>2 DEF n
    <3>2. k # Len(M) /\ M[k + 1] = L[k + 1]
      BY <1>3, <3>1
    <3>3. Limit(M, k) = Limit(L, k)
      BY <3>1, <3>2 DEF Limit
    <3> QED BY <2>1, <2>2, <2>3, <3>3 DEF Held
  <2>5. CASE k = l
    <3>1. b.at \in Nat /\ b.size \in Nat
      BY DEF Block
    <3>2. Start(L[l]) <= new.at /\ new.at < Start(new)
      BY <1>4, <1>5, <1>6 DEF Start
    <3>3. b.at < Start(new)
      <4>1. Start(new) \in Nat
        BY <1>6 DEF Start
      <4> QED BY <1>6, <2>1, <2>5, <3>1, <3>2, <4>1
    <3>4. b.at + b.size <= new.at
      BY <1>6, <3>1, <3>3
    <3>5. Limit(M, k) = new.at
      BY <1>3, <1>4, <2>5 DEF Limit
    <3> QED BY <2>1, <2>2, <2>3, <3>4, <3>5 DEF Held
  <2> QED BY <2>2, <2>4, <2>5
<1>9. Holds(M, B)
  <2>1. ASSUME NEW b \in B PROVE \E k \in 1 .. Len(M) : Held(M, k, b)
    <3>1. PICK k \in 1 .. Len(L) : Held(L, k, b)
      BY DEF Holds
    <3> QED BY <1>8, <3>1
  <2>2. ASSUME NEW k \in 1 .. Len(M), ~M[k].free PROVE \E b \in B : b.at = Start(M[k])
    <3>1. k # l + 1
      BY <1>3, <2>2
    <3>2. k \in 1 .. l /\ k \in 1 .. Len(L)
      BY <1>1, <1>3, <1>4, <3>1
    <3>3. M[k] = L[k]
      BY <1>3, <3>2
    <3> QED BY <2>2, <3>2, <3>3 DEF Holds
  <2>3. \A b, c \in B : b.at = c.at => b = c
    BY DEF Holds
  <2> QED BY <2>1, <2>2, <2>3 DEF Holds
<1>10. OnePairBut(M, l + 1)
  <2>1. ASSUME NEW j \in Nat, Pair(M, j), j + 1 # l + 1 PROVE Pair(L, j)
    <3>1. j \in 1 .. l /\ j # l
      BY <1>3, <1>4, <2>1 DEF Pair
    <3>2. j + 1 \in 1 .. l /\ j \in 1 .. Len(L) - 1
      BY <1>1, <1>4, <3>1
    <3> QED BY <1>3, <2>1, <3>1, <3>2 DEF Pair
  <2> QED BY <2>1 DEF OnePairBut, OnePair
<1> QED
  BY <1>3, <1>7, <1>9, <1>10 DEF M, A

ListRight(L, B) == /\ L \in Seq(Seg) /\ Len(L) >= 1
                   /\ Ordered(L) /\ OnePair(L) /\ Holds(L, B)
                   /\ L[Len(L)].size >= PageSize

LEMMA ExtensionIs ==
  ASSUME HeapAssumption, segments \in Seq(Seg), LastIndex # 0, NEW size \in Nat, size % Quantum = 0
  PROVE  /\ LastIndex \in 1 .. Len(segments) /\ segments[LastIndex].at = last
         /\ Extension(size) \in Seg /\ Extension(size).at = End(segments[LastIndex])
         /\ Extension(size).free /\ Extension(size).size >= PageSize
         /\ Fits(Extension(size), Rounded(size)) /\ ~Wraps(Extension(size), Rounded(size))
<1> DEFINE s == segments[LastIndex]
           bytes == size + (PageSize - (size % PageSize))
<1>1. LastIndex \in 1 .. Len(segments) /\ s.at = last
  <2>1. LastIndex \in 0 .. Len(segments) /\ s.at = last
    BY LastIndexIs
  <2> QED BY <2>1
<1>2. s \in Seg /\ s.at \in Nat /\ s.size \in Nat
  BY <1>1, ListElements
<1> HIDE DEF s
<1>3. End(s) \in Nat
  BY <1>2, Numbers, SMTT(40) DEF End, Start
<1>4. /\ bytes \in Nat /\ bytes >= PageSize /\ bytes >= Rounded(size)
      /\ bytes = Rounded(size) \/ bytes >= Rounded(size) + Header
  BY NewFits
<1>5. Extension(size) = [at |-> End(s), size |-> bytes, free |-> TRUE]
  BY DEF Extension, Segment, s
<1> HIDE DEF bytes
<1>6. Extension(size) \in Seg /\ Extension(size).at = End(s) /\ Extension(size).free = TRUE
      /\ Extension(size).size = bytes
  BY <1>3, <1>4, <1>5 DEF Seg
<1>7. Rounded(size) \in Nat
  BY RoundedIs
<1>8. Fits(Extension(size), Rounded(size))
  BY <1>4, <1>6 DEF Fits
<1>9. ~Wraps(Extension(size), Rounded(size))
  <2>1. ~(Rounded(size) < bytes /\ bytes < Rounded(size) + Header)
    BY <1>4, <1>7, Numbers
  <2> QED BY <1>6, <2>1 DEF Wraps
<1> QED
  BY <1>1, <1>4, <1>6, <1>8, <1>9 DEF s

LEMMA ReservedIs ==
  ASSUME HeapAssumption, NEW B \in SUBSET Block, B = blocks, ListRight(segments, B),
         NEW request \in Nat, FirstFit(segments, Rounded(request)) = 0, LastIndex # 0,
         ~Clobbers(Extension(Rounded(request)))
  PROVE  LET size == Rounded(request)
             new  == Extension(size)
             M    == Append(SubSeq(segments, 1, LastIndex), new)
             i    == FirstFit(M, Rounded(size))
             R    == TakeSegment(M, i, Rounded(size))
             b    == [at |-> Start(M[i]), size |-> request]
         IN  /\ ListRight(R, B \cup {b}) /\ b \notin B
             /\ \A c \in B : c.at + c.size <= b.at \/ b.at + b.size <= c.at
<1> DEFINE size == Rounded(request)
           new  == Extension(size)
           L    == segments
           l    == LastIndex
           M    == Append(SubSeq(L, 1, l), new)
           i    == FirstFit(M, Rounded(size))
           R    == TakeSegment(M, i, Rounded(size))
           b    == [at |-> Start(M[i]), size |-> request]
<1>1. L \in Seq(Seg) /\ Len(L) >= 1 /\ Ordered(L) /\ OnePair(L) /\ Holds(L, B) /\ L[Len(L)].size >= PageSize
  BY DEF ListRight
<1>2. size \in Nat /\ size > request /\ size >= Quantum /\ size % Quantum = 0
  BY RoundedIs
<1>3. Rounded(size) \in Nat /\ Rounded(size) > size
  BY <1>2, RoundedIs
<1>4. FirstFit(L, size) = 0
  OBVIOUS
<1> HIDE DEF size
<1>5. /\ l \in 1 .. Len(L) /\ new \in Seg /\ new.at = End(L[l]) /\ new.free /\ new.size >= PageSize
      /\ Fits(new, Rounded(size)) /\ ~Wraps(new, Rounded(size))
  BY <1>1, <1>2, ExtensionIs
<1>6. /\ \A k \in l + 1 .. Len(L) : L[k].free
      /\ \A c \in B : ~(c.at < Start(new) /\ new.at < c.at + c.size)
  BY DEF Clobbers, size
<1> HIDE DEF new, l
<1>7. /\ M \in Seq(Seg) /\ Len(M) = l + 1 /\ M[l + 1] = new
      /\ \A k \in 1 .. l : M[k] = L[k]
      /\ Ordered(M) /\ Holds(M, B) /\ OnePairBut(M, l + 1)
  BY <1>1, <1>5, <1>6, ExtendedIs
<1> HIDE DEF M
<1>8. \A k \in 1 .. l : ~Fits(M[k], Rounded(size))
  <2> SUFFICES ASSUME NEW k \in 1 .. l PROVE ~Fits(M[k], Rounded(size))
    OBVIOUS
  <2>1. k \in 1 .. Len(L) /\ M[k] = L[k]
    BY <1>1, <1>5, <1>7
  <2>2. ~Fits(L[k], size)
    BY <1>1, <1>2, <1>4, <2>1, FirstIs
  <2>3. L[k].size \in Nat
    BY <1>1, <2>1, ListElements
  <2> QED BY <1>2, <1>3, <2>1, <2>2, <2>3 DEF Fits
<1>9. i = l + 1
  <2>1. /\ i \in 0 .. Len(M) /\ (i # 0 => Fits(M[i], Rounded(size)))
        /\ \A k \in 1 .. Len(M) : Fits(M[k], Rounded(size)) => i <= k
        /\ i = 0 => \A k \in 1 .. Len(M) : ~Fits(M[k], Rounded(size))
    BY <1>3, <1>7, FirstIs
  <2>2. l + 1 \in 1 .. Len(M) /\ Fits(M[l + 1], Rounded(size)) /\ l \in Nat
    BY <1>1, <1>5, <1>7
  <2> QED BY <1>7, <1>8, <2>1, <2>2
<1> HIDE DEF i
<1>10. i \in 1 .. Len(M) /\ M[i] = new /\ Len(M) = i
  BY <1>1, <1>5, <1>7, <1>9
<1>11. Header <= Rounded(size) /\ request < Rounded(size)
  BY <1>2, <1>3, Numbers
<1>12. OnePairBut(M, i) /\ M[Len(M)].size >= PageSize
  BY <1>5, <1>7, <1>9, <1>10
<1>13. /\ R \in Seq(Seg) /\ Len(R) >= 1 /\ Ordered(R) /\ OnePair(R) /\ R[Len(R)].size >= PageSize
       /\ Holds(R, B \cup {b}) /\ b \notin B
       /\ \A c \in B : c.at + c.size <= b.at \/ b.at + b.size <= c.at
  <2>1. Fits(M[i], Rounded(size)) /\ ~Wraps(M[i], Rounded(size))
    BY <1>5, <1>10
  <2> QED BY <1>3, <1>7, <1>10, <1>11, <1>12, <2>1, TakeKeeps
<1> QED
  BY <1>13, Zenon DEF ListRight, size, new, l, M, i

HeapInv == /\ segments \in Seq(Seg) /\ last \in Nat
           /\ blocks \in SUBSET [at : Nat, size : Requests] /\ lost \subseteq blocks
           /\ allocations \in 0 .. MaxAllocations
           /\ stop \in {"", "wrapped", "endless", "clobbered"}
           /\ Intact => ListRight(segments, blocks)

LEMMA BlocksAre ==
  ASSUME HeapAssumption, HeapInv
  PROVE  blocks \in SUBSET Block /\ Requests \subseteq Nat
BY DEF HeapAssumption, HeapInv, Block

LEMMA GivenIs ==
  ASSUME HeapAssumption, HeapInv, NEW at \in Nat, NEW request \in Requests
  PROVE  blocks \cup {[at |-> at, size |-> request]} \in SUBSET [at : Nat, size : Requests]
<1>1. blocks \in SUBSET [at : Nat, size : Requests]
  BY DEF HeapInv
<1>2. [at |-> at, size |-> request] \in [at : Nat, size : Requests]
  OBVIOUS
<1> QED
  BY <1>1, <1>2

(* One step of each operation.                                                 *)
LEMMA AllocateKeeps ==
  ASSUME HeapAssumption, HeapInv, Intact, NEW request \in Requests, Allocate(request)
  PROVE  /\ segments' \in Seq(Seg) /\ UNCHANGED <<last, lost>>
         /\ blocks' \in SUBSET [at : Nat, size : Requests] /\ blocks \subseteq blocks'
         /\ stop' \in {"", "wrapped"}
         /\ stop' = "" => /\ ListRight(segments', blocks')
                          /\ \E b \in blocks' \ blocks :
                               /\ blocks' = blocks \cup {b}
                               /\ \A c \in blocks : b.at + b.size <= c.at \/ c.at + c.size <= b.at
         /\ stop' # "" => UNCHANGED blocks
<1> DEFINE size == Rounded(request)
           i    == FirstFit(segments, size)
           R    == TakeSegment(segments, i, size)
           b    == [at |-> Start(segments[i]), size |-> request]
<1>1. /\ segments \in Seq(Seg) /\ Len(segments) >= 1 /\ Ordered(segments) /\ OnePair(segments)
      /\ Holds(segments, blocks) /\ segments[Len(segments)].size >= PageSize
  BY DEF HeapInv, ListRight
<1>2. request \in Nat /\ blocks \in SUBSET Block
  BY BlocksAre
<1>3. size \in Nat /\ size > request /\ size >= Header
  <2>1. size \in Nat /\ size > request /\ size >= Quantum
    BY <1>2, RoundedIs
  <2> QED BY <2>1, Numbers
<1>4. /\ i # 0 /\ UNCHANGED <<last, lost>>
      /\ IF Wraps(segments[i], size)
         THEN stop' = "wrapped" /\ UNCHANGED <<segments, blocks>>
         ELSE /\ segments' = R
              /\ blocks' = blocks \cup {b}
              /\ UNCHANGED stop
  BY Zenon DEF Allocate, GiveBlock
<1> HIDE DEF size
<1>5. i \in 1 .. Len(segments) /\ Fits(segments[i], size)
  <2>1. i \in 0 .. Len(segments) /\ Fits(segments[i], size)
    BY <1>1, <1>3, <1>4, FirstIs
  <2> QED BY <1>4, <2>1
<1> HIDE DEF i
<1>6. CASE Wraps(segments[i], size)
  BY <1>1, <1>4, <1>6, BlocksAre DEF HeapInv
<1>7. CASE ~Wraps(segments[i], size)
  <2>1. segments' = R /\ blocks' = blocks \cup {b} /\ stop' = ""
    BY <1>4, <1>7 DEF Intact
  <2>2. OnePairBut(segments, i)
    BY <1>1 DEF OnePair, OnePairBut
  <2>3. /\ R \in Seq(Seg) /\ Len(R) >= 1 /\ Ordered(R) /\ OnePair(R) /\ R[Len(R)].size >= PageSize
        /\ Holds(R, blocks \cup {b}) /\ b \notin blocks
        /\ \A c \in blocks : c.at + c.size <= b.at \/ b.at + b.size <= c.at
    BY <1>1, <1>2, <1>3, <1>5, <1>7, <2>2, TakeKeeps
  <2>4. Start(segments[i]) \in Nat
    BY <1>1, <1>5, LimitIs
  <2>5. blocks \cup {b} \in SUBSET [at : Nat, size : Requests]
    BY <2>4, GivenIs
  <2> HIDE DEF R, b
  <2>6. ListRight(segments', blocks')
    BY <2>1, <2>3, Zenon DEF ListRight
  <2>7. b \in blocks' \ blocks /\ blocks \subseteq blocks'
    BY <2>1, <2>3
  <2>8. \E d \in blocks' \ blocks :
          /\ blocks' = blocks \cup {d}
          /\ \A c \in blocks : d.at + d.size <= c.at \/ c.at + c.size <= d.at
    BY <2>1, <2>3, <2>7, Zenon
  <2> QED BY <1>4, <2>1, <2>3, <2>5, <2>6, <2>7, <2>8
<1> QED
  BY <1>6, <1>7

LEMMA ReserveKeeps ==
  ASSUME HeapAssumption, HeapInv, Intact, NEW request \in Requests, Reserve(request)
  PROVE  /\ segments' \in Seq(Seg) /\ last' \in Nat /\ lost' \subseteq blocks'
         /\ blocks' \in SUBSET [at : Nat, size : Requests]
         /\ stop' \in {"", "endless", "clobbered"}
         /\ stop' = "" => /\ ListRight(segments', blocks')
                          /\ \E b \in blocks' \ blocks :
                               /\ blocks' = blocks \cup {b}
                               /\ \A c \in blocks : b.at + b.size <= c.at \/ c.at + c.size <= b.at
         /\ stop' # "" => UNCHANGED blocks
<1> DEFINE size == Rounded(request)
           new  == Extension(size)
           M    == Append(SubSeq(segments, 1, LastIndex), new)
           i    == FirstFit(M, Rounded(size))
           R    == TakeSegment(M, i, Rounded(size))
           b    == [at |-> Start(M[i]), size |-> request]
           gone == {c \in blocks : Touches(c.at, c.size, Fresh(new))}
<1>1. segments \in Seq(Seg) /\ ListRight(segments, blocks) /\ last \in Nat /\ lost \subseteq blocks
      /\ blocks \in SUBSET [at : Nat, size : Requests]
  BY DEF HeapInv
<1>2. request \in Nat /\ blocks \in SUBSET Block
  BY BlocksAre
<1>3. FirstFit(segments, Rounded(request)) = 0
  BY Zenon DEF Reserve
<1>4. \/ LastIndex = 0 /\ stop' = "endless" /\ UNCHANGED <<segments, last, blocks, lost>>
      \/ /\ LastIndex # 0 /\ last' = new.at /\ lost' = lost \cup gone
         /\ \/ Clobbers(new) /\ stop' = "clobbered" /\ segments' = M /\ UNCHANGED blocks
            \/ ~Clobbers(new) /\ segments' = R /\ blocks' = blocks \cup {b} /\ UNCHANGED stop
  BY Zenon DEF Reserve, GiveBlock
<1>5. CASE LastIndex = 0
  BY <1>1, <1>4, <1>5
<1>6. CASE LastIndex # 0
  <2>1. size \in Nat /\ size % Quantum = 0
    BY <1>2, RoundedIs
  <2>2. LastIndex \in 1 .. Len(segments) /\ new \in Seg
    BY <1>1, <1>6, <2>1, ExtensionIs
  <2>3. M \in Seq(Seg) /\ last' \in Nat
    <3>1. new.at \in Nat
      BY <2>2 DEF Seg
    <3> HIDE DEF new
    <3>2. SubSeq(segments, 1, LastIndex) \in Seq(Seg)
      BY <1>1, <2>2
    <3> QED BY <1>4, <1>6, <2>2, <3>1, <3>2
  <2>4. lost' = lost \cup gone /\ gone \subseteq blocks
    BY <1>4, <1>6
  <2> HIDE DEF gone
  <2>5. CASE Clobbers(new)
    <3>1. stop' = "clobbered" /\ segments' = M /\ blocks' = blocks
      BY <1>4, <1>6, <2>5, Zenon
    <3> HIDE DEF M
    <3> QED BY <1>1, <2>3, <2>4, <3>1
  <2>6. CASE ~Clobbers(new)
    <3>1. segments' = R /\ blocks' = blocks \cup {b} /\ stop' = ""
      BY <1>4, <1>6, <2>6, Zenon DEF Intact
    <3>2. /\ ListRight(R, blocks \cup {b}) /\ b \notin blocks
          /\ \A c \in blocks : c.at + c.size <= b.at \/ b.at + b.size <= c.at
      BY <1>1, <1>2, <1>3, <1>6, <2>6, ReservedIs
    <3>3. R \in Seq(Seg)
      BY <3>2, Zenon DEF ListRight
    <3>4. Start(M[i]) \in Nat
      <4>1. b.at = Start(M[i]) /\ b \in blocks'
        BY <3>1
      <4>2. PICK k \in 1 .. Len(R) : Held(R, k, b)
        BY <3>2 DEF ListRight, Holds
      <4> HIDE DEF b, R
      <4>3. R[k] \in Seg /\ Start(R[k]) = b.at
        BY <3>3, <4>2, ListElements DEF Held
      <4>4. Start(R[k]) \in Nat
        BY <4>3, Numbers DEF Seg, Start
      <4> QED BY <4>1, <4>3, <4>4
    <3>5. blocks \cup {b} \in SUBSET [at : Nat, size : Requests]
      BY <3>4, GivenIs
    <3> HIDE DEF R, b
    <3>6. b \in blocks' \ blocks
      BY <3>1, <3>2
    <3>7. \E d \in blocks' \ blocks :
            /\ blocks' = blocks \cup {d}
            /\ \A c \in blocks : d.at + d.size <= c.at \/ c.at + c.size <= d.at
      BY <3>1, <3>2, <3>6, Zenon
    <3>8. ListRight(segments', blocks')
      BY <3>1, <3>2, Zenon
    <3> QED BY <1>1, <2>3, <2>4, <3>1, <3>3, <3>5, <3>7, <3>8
  <2> QED BY <2>5, <2>6
<1> QED
  BY <1>5, <1>6

LEMMA ReleaseKeeps ==
  ASSUME HeapAssumption, HeapInv, Intact, NEW b \in blocks, FreeSegment(b)
  PROVE  /\ segments' \in Seq(Seg) /\ blocks' = blocks \ {b} /\ lost' \subseteq blocks' /\ lost' \subseteq lost
         /\ UNCHANGED <<last, allocations, stop>> /\ ListRight(segments', blocks')
<1> DEFINE M == [i \in DOMAIN segments |-> IF Start(segments[i]) = b.at
                                           THEN [segments[i] EXCEPT !.free = TRUE] ELSE segments[i]]
           R == Sweep(M)
<1>1. /\ segments \in Seq(Seg) /\ Len(segments) >= 1 /\ Ordered(segments) /\ OnePair(segments)
      /\ Holds(segments, blocks) /\ segments[Len(segments)].size >= PageSize
  BY DEF HeapInv, ListRight
<1>2. blocks \in SUBSET Block
  BY BlocksAre
<1>3. /\ R \in Seq(Seg) /\ Len(R) >= 1 /\ Ordered(R) /\ OnePair(R) /\ R[Len(R)].size >= PageSize
      /\ Holds(R, blocks \ {b})
  BY <1>1, <1>2, FreeKeeps
<1>4. /\ segments' = R /\ blocks' = blocks \ {b} /\ lost' = lost \ {b}
      /\ UNCHANGED <<last, allocations, stop>>
  BY Zenon DEF FreeSegment
<1>5. lost \subseteq blocks
  BY DEF HeapInv
<1> HIDE DEF R
<1>6. ListRight(segments', blocks')
  BY <1>3, <1>4, Zenon DEF ListRight
<1> QED
  BY <1>3, <1>4, <1>5, <1>6

LEMMA HeapStarts ==
  ASSUME HeapAssumption, HeapInit
  PROVE  HeapInv
<1> DEFINE s == Segment(0, StartSize, TRUE)
           L == <<s>>
<1>1. /\ segments = L /\ last = 0 /\ blocks = {} /\ lost = {} /\ allocations = 0 /\ stop = ""
  BY DEF HeapInit
<1>2. s \in Seg /\ s.size >= PageSize /\ s.size = StartSize
  BY Numbers DEF Seg, Segment
<1>3. s.free = TRUE
  BY DEF Segment
<1> HIDE DEF s
<1>4. L \in Seq(Seg) /\ Len(L) = 1 /\ L[1] = s
  BY <1>2
<1> HIDE DEF L
<1>5. Ordered(L)
  BY <1>4 DEF Ordered
<1>6. OnePair(L)
  BY <1>4 DEF OnePair, Pair
<1>7. Holds(L, {})
  BY <1>3, <1>4 DEF Holds
<1>8. ListRight(L, {})
  BY <1>2, <1>4, <1>5, <1>6, <1>7 DEF ListRight
<1>9. MaxAllocations \in Nat
  BY DEF HeapAssumption
<1>10. ListRight(segments, blocks)
  BY <1>1, <1>8
<1>11. segments \in Seq(Seg)
  BY <1>1, <1>4
<1>12. last \in Nat /\ allocations \in 0 .. MaxAllocations
  <2>1. 0 \in Nat /\ 0 \in 0 .. MaxAllocations
    BY <1>9
  <2> QED BY <1>1, <2>1, Zenon
<1>13. /\ stop \in {"", "wrapped", "endless", "clobbered"}
       /\ blocks \in SUBSET [at : Nat, size : Requests] /\ lost \subseteq blocks
  BY <1>1, Zenon
<1> QED
  BY <1>10, <1>11, <1>12, <1>13 DEF HeapInv

LEMMA HeapMoves ==
  ASSUME HeapAssumption, HeapInv, HeapNext
  PROVE  HeapInv'
<1>1. Intact /\ stop = ""
  BY DEF HeapNext, Intact
<1>2. /\ blocks \in SUBSET [at : Nat, size : Requests] /\ lost \subseteq blocks /\ last \in Nat
      /\ allocations \in 0 .. MaxAllocations /\ MaxAllocations \in Nat
  BY DEF HeapInv, HeapAssumption
<1>3. ASSUME NEW request \in Requests, Allocate(request) \/ Reserve(request),
             allocations < MaxAllocations, allocations' = allocations + 1
      PROVE  HeapInv'
  <2>1. allocations' \in 0 .. MaxAllocations
    BY <1>2, <1>3
  <2>2. CASE Allocate(request)
    <3>1. /\ segments' \in Seq(Seg) /\ last' = last /\ lost' = lost
          /\ blocks' \in SUBSET [at : Nat, size : Requests] /\ blocks \subseteq blocks'
          /\ stop' \in {"", "wrapped"} /\ (stop' = "" => ListRight(segments', blocks'))
      BY <1>1, <2>2, AllocateKeeps
    <3> QED BY <1>2, <2>1, <3>1 DEF HeapInv, Intact
  <2>3. CASE Reserve(request)
    <3>1. /\ segments' \in Seq(Seg) /\ last' \in Nat /\ lost' \subseteq blocks'
          /\ blocks' \in SUBSET [at : Nat, size : Requests]
          /\ stop' \in {"", "endless", "clobbered"} /\ (stop' = "" => ListRight(segments', blocks'))
      BY <1>1, <2>3, ReserveKeeps
    <3> QED BY <1>2, <2>1, <3>1 DEF HeapInv, Intact
  <2> QED BY <1>3, <2>2, <2>3
<1>4. ASSUME NEW b \in blocks, FreeSegment(b) PROVE HeapInv'
  <2>1. /\ segments' \in Seq(Seg) /\ blocks' = blocks \ {b} /\ lost' \subseteq blocks'
        /\ last' = last /\ allocations' = allocations /\ stop' = stop /\ ListRight(segments', blocks')
    BY <1>1, <1>4, ReleaseKeeps
  <2>2. stop' \in {"", "wrapped", "endless", "clobbered"}
    BY <1>1, <2>1
  <2> QED BY <1>2, <2>1, <2>2 DEF HeapInv, Intact
<1> QED
  BY <1>3, <1>4 DEF HeapNext

(* The segments in use are as many as the blocks: each is the segment of one.  *)
LEMMA AsMany ==
  ASSUME HeapAssumption, NEW L \in Seq(Seg), NEW B, Ordered(L), Holds(L, B)
  PROVE  Cardinality(B) = Cardinality({i \in DOMAIN L : ~L[i].free})
<1> DEFINE I == {i \in DOMAIN L : ~L[i].free}
           f == [i \in I |-> CHOOSE b \in B : b.at = Start(L[i])]
<1>1. DOMAIN L = 1 .. Len(L) /\ Len(L) \in Nat
  BY ListElements
<1>2. IsFiniteSet(I)
  <2>1. IsFiniteSet(1 .. Len(L))
    BY <1>1, FS_Interval
  <2> QED BY <1>1, <2>1, FS_Subset
<1>3. \A i \in I : f[i] \in B /\ f[i].at = Start(L[i])
  BY <1>1 DEF Holds
<1>4. \A i, k \in I : f[i] = f[k] => i = k
  <2> SUFFICES ASSUME NEW i \in I, NEW k \in I, f[i] = f[k], i # k PROVE FALSE
    OBVIOUS
  <2>1. i \in 1 .. Len(L) /\ k \in 1 .. Len(L) /\ Start(L[i]) = Start(L[k])
    BY <1>1, <1>3
  <2>2. Start(L[i]) \in Nat
    BY <2>1, LimitIs
  <2>3. CASE i < k
    <3>1. Start(L[i]) < Start(L[k])
      BY <2>1, <2>3, LaterBehind
    <3> QED BY <2>1, <2>2, <3>1
  <2>4. CASE k < i
    <3>1. Start(L[k]) < Start(L[i])
      BY <2>1, <2>4, LaterBehind
    <3> QED BY <2>1, <2>2, <3>1
  <2> QED BY <1>1, <2>1, <2>3, <2>4
<1>5. \A b \in B : \E i \in I : f[i] = b
  <2> SUFFICES ASSUME NEW b \in B PROVE \E i \in I : f[i] = b
    OBVIOUS
  <2>1. PICK i \in 1 .. Len(L) : Held(L, i, b)
    BY DEF Holds
  <2>2. i \in I /\ Start(L[i]) = b.at
    BY <1>1, <2>1 DEF Held
  <2>3. f[i] \in B /\ f[i].at = b.at
    BY <1>3, <2>2
  <2>4. f[i] = b
    BY <2>3 DEF Holds
  <2> QED BY <2>2, <2>4
<1>6. f \in [I -> B]
  BY <1>3
<1> HIDE DEF f, I
<1>7. ExistsBijection(I, B)
  <2>1. f \in Bijection(I, B)
    BY <1>4, <1>5, <1>6 DEF Bijection, Injection, Surjection, IsInjective
  <2> QED BY <2>1 DEF ExistsBijection
<1> QED
  BY <1>2, <1>7, FS_Bijection DEF I

LEMMA HeapShape ==
  ASSUME HeapAssumption, HeapInv
  PROVE  HeapSafe
<1>1. /\ segments \in Seq(Seg) /\ last \in Nat /\ lost \subseteq blocks
      /\ blocks \in SUBSET [at : Nat, size : Requests]
      /\ allocations \in 0 .. MaxAllocations
      /\ stop \in {"", "wrapped", "endless", "clobbered"}
      /\ Intact => ListRight(segments, blocks)
  BY DEF HeapInv
<1>2. /\ DOMAIN segments = 1 .. Len(segments) /\ Len(segments) \in Nat
      /\ \A i \in 1 .. Len(segments) : segments[i] \in Seg
  BY <1>1, ListElements
<1>3. HeapTypeOK
  BY <1>1, <1>2 DEF HeapTypeOK, Seg
<1>4. Tiled
  BY <1>1 DEF Tiled, ListRight, Ordered
<1>5. BlocksInSegments
  <2> SUFFICES ASSUME Intact
               PROVE  /\ Cardinality(blocks) = Cardinality({i \in DOMAIN segments : ~segments[i].free})
                      /\ \A b \in blocks : \E i \in DOMAIN segments :
                           /\ ~segments[i].free
                           /\ Start(segments[i]) = b.at
                           /\ b.at + b.size <= IF i = Len(segments) THEN End(segments[i])
                                                                    ELSE segments[i + 1].at
    BY DEF BlocksInSegments
  <2>1. Ordered(segments) /\ Holds(segments, blocks)
    BY <1>1 DEF ListRight
  <2>2. Cardinality(blocks) = Cardinality({i \in DOMAIN segments : ~segments[i].free})
    BY <1>1, <2>1, AsMany
  <2>3. ASSUME NEW b \in blocks
        PROVE  \E i \in DOMAIN segments :
                 /\ ~segments[i].free
                 /\ Start(segments[i]) = b.at
                 /\ b.at + b.size <= IF i = Len(segments) THEN End(segments[i])
                                                          ELSE segments[i + 1].at
    <3>1. PICK i \in 1 .. Len(segments) : Held(segments, i, b)
      BY <2>1 DEF Holds
    <3>2. i \in DOMAIN segments
      BY <1>2
    <3> QED BY <3>1, <3>2, Zenon DEF Held, Limit
  <2> QED BY <2>2, <2>3
<1>6. AtMostTwoFree
  <2> SUFFICES ASSUME Intact, NEW i \in 1 .. Len(segments) - 2,
                      segments[i].free, segments[i + 1].free, segments[i + 2].free
               PROVE  FALSE
    BY DEF AtMostTwoFree
  <2>1. /\ i \in Nat /\ i + 1 \in Nat /\ i \in 1 .. Len(segments) - 1 /\ i + 1 \in 1 .. Len(segments) - 1
        /\ (i + 1) + 1 = i + 2 /\ i # i + 1
    BY <1>2
  <2>2. Pair(segments, i) /\ Pair(segments, i + 1)
    BY <2>1 DEF Pair
  <2> QED BY <1>1, <2>1, <2>2 DEF ListRight, OnePair
<1> QED
  BY <1>3, <1>4, <1>5, <1>6 DEF HeapSafe

LEMMA HeapSteps == HeapAssumption => (HeapSpec => []HeapInv)
<1>1. HeapAssumption /\ HeapInit => HeapInv
  BY HeapStarts
<1>2. HeapAssumption /\ HeapInv /\ [HeapNext]_heapVars => HeapInv'
  <2> SUFFICES ASSUME HeapAssumption, HeapInv, [HeapNext]_heapVars PROVE HeapInv'
    OBVIOUS
  <2>1. CASE HeapNext
    BY <2>1, HeapMoves
  <2>2. CASE UNCHANGED heapVars
    BY <2>2 DEF HeapInv, heapVars, Intact
  <2> QED BY <2>1, <2>2
<1>3. SUFFICES ASSUME HeapAssumption PROVE HeapSpec => []HeapInv
  OBVIOUS
<1> QED
  BY <1>1, <1>2, <1>3, PTL DEF HeapSpec

(* Over any sequence of calls of Allocate and Free the segments lie one after  *)
(* the other, every segment in use holds one block that ends before the next   *)
(* header, and no three free segments follow each other: HeapSafe of Heap,     *)
(* until one of the ends that the code does not guard against is reached.      *)
THEOREM HeapIsSafe == HeapAssumption => (HeapSpec => []HeapSafe)
<1>1. HeapAssumption /\ HeapInv => HeapSafe
  BY HeapShape
<1>2. SUFFICES ASSUME HeapAssumption PROVE HeapSpec => []HeapSafe
  OBVIOUS
<1> QED
  BY <1>1, <1>2, HeapSteps, PTL

(* The heap implements Blocks: Allocate and Reserve hand out one block more,   *)
(* apart from all that are out, and Free takes one back.                       *)
THEOREM HeapKeepsBlocks == HeapAssumption => (HeapSpec => Callers!Spec)
<1>1. HeapInit => Callers!Init
  BY DEF HeapInit, Callers!Init
<1>2. HeapAssumption /\ HeapInv /\ [HeapNext]_heapVars => [Callers!Next]_blocks
  <2> SUFFICES ASSUME HeapAssumption, HeapInv, HeapNext, blocks' # blocks PROVE Callers!Next
    BY DEF heapVars
  <2>1. Intact
    BY DEF HeapNext, Intact
  <2>2. ASSUME NEW request \in Requests, Allocate(request) \/ Reserve(request) PROVE Callers!Malloc
    <3>1. \E b \in blocks' \ blocks :
            /\ blocks' = blocks \cup {b}
            /\ \A c \in blocks : b.at + b.size <= c.at \/ c.at + c.size <= b.at
      <4>1. CASE Allocate(request)
        BY <2>1, <4>1, AllocateKeeps
      <4>2. CASE Reserve(request)
        BY <2>1, <4>2, ReserveKeeps
      <4> QED BY <2>2, <4>1, <4>2
    <3> QED BY <3>1, Zenon DEF Callers!Malloc, Callers!Apart
  <2>3. ASSUME NEW b \in blocks, FreeSegment(b) PROVE Callers!Release
    BY <2>1, <2>3, ReleaseKeeps DEF Callers!Release
  <2> QED BY <2>2, <2>3 DEF HeapNext, Callers!Next
<1>3. SUFFICES ASSUME HeapAssumption PROVE HeapSpec => Callers!Spec
  OBVIOUS
<1> QED
  BY <1>1, <1>2, <1>3, HeapSteps, PTL DEF HeapSpec, Callers!Spec

(* Reserve at the end of the list: the pages it maps begin less than one page  *)
(* before the end of the last segment, which is a page or larger.              *)
LEMMA FreshBegins ==
  ASSUME HeapAssumption, NEW first \in Nat, NEW bytes \in Nat, NEW p \in Pages(first, bytes)
  PROVE  p \in Nat /\ p * PageSize > first - PageSize
<1> DEFINE q == first \div PageSize
<1>1. PageSize \in Nat /\ PageSize > 0 /\ Header \in Nat
  BY Numbers
<1>2. first = PageSize * q + (first % PageSize) /\ q \in Nat /\ first % PageSize \in 0 .. PageSize - 1
  BY <1>1, Divided
<1>3. (bytes + Header) \div PageSize \in Nat
  BY <1>1, Divided
<1>4. p \in Nat /\ p >= q
  <2>1. p \in q .. q + (bytes + Header) \div PageSize
    BY DEF Pages
  <2> HIDE DEF q
  <2> QED BY <1>2, <1>3, <2>1
<1> HIDE DEF q
<1>5. PageSize * p >= PageSize * q
  <2>1. p - q \in Nat
    BY <1>2, <1>4
  <2>2. PageSize * (p - q) >= 0
    BY <1>1, <2>1
  <2>3. PageSize * (p - q) = PageSize * p - PageSize * q
    BY <1>1, <1>2, <1>4
  <2>4. PageSize * p \in Nat /\ PageSize * q \in Nat
    BY <1>1, <1>2, <1>4
  <2> QED BY <2>2, <2>3, <2>4
<1>6. PageSize * q > first - PageSize
  <2> DEFINE v == PageSize * q
             r == first % PageSize
  <2>1. v \in Nat /\ first = v + r /\ r \in 0 .. PageSize - 1
    BY <1>1, <1>2
  <2> HIDE DEF v, r
  <2>2. v > first - PageSize
    BY <1>1, <2>1
  <2> QED BY <2>2 DEF v
<1>7. p * PageSize = PageSize * p /\ PageSize * p \in Nat /\ PageSize * q \in Nat
  BY <1>1, <1>2, <1>4
<1> QED
  BY <1>1, <1>4, <1>5, <1>6, <1>7

LEMMA ReservesAtEnd ==
  ASSUME HeapAssumption, HeapInv, Intact, AtEnd, NEW request \in Requests, Reserve(request)
  PROVE  stop' = "" /\ \A b \in lost' \ lost : b.at = Start(Last(segments))
<1> DEFINE size == Rounded(request)
           new  == Extension(size)
           n    == Len(segments)
           gone == {c \in blocks : Touches(c.at, c.size, Fresh(new))}
<1>1. /\ segments \in Seq(Seg) /\ Len(segments) >= 1 /\ Ordered(segments)
      /\ Holds(segments, blocks) /\ segments[Len(segments)].size >= PageSize
  BY DEF HeapInv, ListRight
<1>2. request \in Nat /\ blocks \in SUBSET Block
  BY BlocksAre
<1>3. size \in Nat /\ size % Quantum = 0
  BY <1>2, RoundedIs
<1>4. /\ n \in Nat /\ n \in 1 .. n
      /\ \A k \in 1 .. n : segments[k] \in Seg /\ segments[k].at \in Nat /\ segments[k].size \in Nat
  BY <1>1, ListElements
<1>5. Last(segments) = segments[n] /\ last = segments[n].at
  BY DEF Last, AtEnd
<1>6. LastIndex = n
  <2>1. LastIndex \in 0 .. n /\ LastIndex <= n /\ LastIndex # 0 /\ segments[LastIndex].at = segments[n].at
    BY <1>1, <1>4, <1>5, LastIndexIs
  <2>2. ASSUME LastIndex # n PROVE FALSE
    <3>1. LastIndex \in 1 .. n /\ LastIndex < n
      BY <1>4, <2>1, <2>2
    <3>2. segments[LastIndex].at < segments[n].at
      BY <1>1, <1>4, <3>1, LaterBehind
    <3> QED BY <1>4, <2>1, <3>1, <3>2
  <2> QED BY <2>2
<1>7. /\ LastIndex # 0 /\ lost' = lost \cup gone
      /\ Clobbers(new) \/ stop' = stop
  <2>1. LastIndex # 0
    BY <1>4, <1>6
  <2> QED BY <2>1, Zenon DEF Reserve
<1> HIDE DEF size
<1>8. new \in Seg /\ new.at = End(segments[n])
  BY <1>1, <1>3, <1>4, <1>6, ExtensionIs
<1>9. /\ new.at \in Nat /\ new.size \in Nat /\ Header \in Nat /\ Header > 0
      /\ PageSize \in Nat /\ PageSize > 0
  BY <1>8, Numbers DEF Seg
<1> HIDE DEF new
<1>10. \A p \in Fresh(new) : p \in Nat /\ p * PageSize > new.at - PageSize
  BY <1>9, FreshBegins DEF Fresh
<1>11. new.at - PageSize >= segments[n].at + Header
  BY <1>1, <1>4, <1>8, <1>9 DEF End, Start
<1>12. ASSUME NEW first \in Nat, NEW bytes \in Nat, first + bytes <= segments[n].at + Header
       PROVE  ~Touches(first, bytes, Fresh(new))
  <2> SUFFICES ASSUME NEW p \in Fresh(new), p * PageSize < first + bytes PROVE FALSE
    BY DEF Touches
  <2>1. p * PageSize \in Nat /\ p * PageSize > new.at - PageSize
    BY <1>9, <1>10
  <2> QED BY <1>4, <1>9, <1>11, <1>12, <2>1
<1>13. ASSUME NEW k \in 1 .. n PROVE ~Touches(segments[k].at, Header, Fresh(new))
  <2>1. segments[k].at <= segments[n].at
    <3>1. CASE k < n
      <4>1. segments[k].at < segments[n].at
        BY <1>1, <1>4, <3>1, LaterBehind
      <4> QED BY <1>4, <4>1
    <3>2. CASE k = n
      BY <1>4, <3>2
    <3> QED BY <1>4, <3>1, <3>2
  <2>2. /\ segments[k].at \in Nat /\ Header \in Nat
        /\ segments[k].at + Header <= segments[n].at + Header
    BY <1>4, <1>9, <2>1
  <2> QED BY <1>12, <2>2
<1>14. ASSUME NEW b \in blocks
       PROVE  /\ b.at \in Nat /\ b.size \in Nat /\ b.at + b.size <= new.at
              /\ b.at = Start(segments[n]) \/ b.at + b.size <= segments[n].at
  <2>1. b.at \in Nat /\ b.size \in Nat
    BY <1>2 DEF Block
  <2>2. PICK k \in 1 .. n : Held(segments, k, b)
    BY <1>1 DEF Holds
  <2>3. b.at = Start(segments[k]) /\ b.at + b.size <= Limit(segments, k) /\ Limit(segments, k) \in Nat
    BY <1>1, <2>2, LimitIs DEF Held
  <2>4. CASE k = n
    BY <1>8, <2>1, <2>3, <2>4 DEF Limit
  <2>5. CASE k # n
    <3>1. k < n
      BY <1>4, <2>5
    <3>2. Limit(segments, k) <= segments[n].at
      BY <1>1, <1>4, <3>1, LimitIs
    <3> QED BY <1>4, <1>9, <1>11, <2>1, <2>3, <3>2, SMTT(40)
  <2> QED BY <2>4, <2>5
<1>15. ~Clobbers(new)
  <2>1. ~ \E i \in LastIndex + 1 .. Len(segments) : ~segments[i].free
    BY <1>4, <1>6
  <2>2. ~ \E i \in 1 .. LastIndex : Touches(segments[i].at, Header, Fresh(new))
    BY <1>6, <1>13
  <2>3. ~ \E b \in blocks : b.at < Start(new) /\ new.at < b.at + b.size
    BY <1>9, <1>14
  <2> QED BY <2>1, <2>2, <2>3, Zenon DEF Clobbers
<1>16. ASSUME NEW b \in lost' \ lost PROVE b.at = Start(Last(segments))
  <2>1. b \in blocks /\ Touches(b.at, b.size, Fresh(new))
    BY <1>7, <1>16
  <2>2. ~(b.at + b.size <= segments[n].at)
    BY <1>4, <1>9, <1>12, <1>14, <2>1
  <2> QED BY <1>5, <1>14, <2>1, <2>2
<1> QED
  BY <1>7, <1>15, <1>16 DEF Intact

(* As long as LastSegment is the last segment of the list, Reserve destroys    *)
(* neither a header nor a block but the end of the last one: ReserveAtEnd of   *)
(* Heap.                                                                       *)
THEOREM HeapReservesAtEnd == HeapAssumption => (HeapSpec => ReserveAtEnd)
<1> DEFINE A == AtEnd => /\ stop' \in {"", "wrapped"}
                         /\ \A b \in lost' \ lost : b.at = Start(Last(segments))
<1>1. HeapAssumption /\ HeapInv /\ [HeapNext]_heapVars => [A]_heapVars
  <2> SUFFICES ASSUME HeapAssumption, HeapInv, HeapNext, AtEnd
               PROVE  /\ stop' \in {"", "wrapped"}
                      /\ \A b \in lost' \ lost : b.at = Start(Last(segments))
    BY Zenon DEF heapVars
  <2>1. Intact /\ stop = ""
    BY DEF HeapNext, Intact
  <2>2. ASSUME NEW request \in Requests, Allocate(request)
        PROVE  stop' \in {"", "wrapped"} /\ lost' = lost
    BY <2>1, <2>2, AllocateKeeps
  <2>3. ASSUME NEW request \in Requests, Reserve(request)
        PROVE  stop' = "" /\ \A b \in lost' \ lost : b.at = Start(Last(segments))
    BY <2>1, <2>3, ReservesAtEnd
  <2>4. ASSUME NEW b \in blocks, FreeSegment(b) PROVE stop' = "" /\ lost' \subseteq lost
    BY <2>1, <2>4, ReleaseKeeps
  <2> QED BY <2>2, <2>3, <2>4 DEF HeapNext
<1>2. SUFFICES ASSUME HeapAssumption PROVE HeapSpec => ReserveAtEnd
  OBVIOUS
<1> QED
  BY <1>1, <1>2, HeapSteps, PTL DEF HeapSpec, ReserveAtEnd

(* Both together: to its callers the heap is Blocks, and Reserve spoils no     *)
(* block while LastSegment is the last of the list (ImplementsBlocks of Heap). *)
THEOREM HeapImplementsBlocks == HeapAssumption => (HeapSpec => ImplementsBlocks)
  BY HeapKeepsBlocks, HeapReservesAtEnd DEF ImplementsBlocks

-----------------------------------------------------------------------------
(* The heap with interrupts. *)
InterNumbers ==
    /\ HeaderSize \in Nat /\ HeaderSize > 0 /\ Granule \in Nat /\ Granule > 0 /\ HeaderSize <= Granule
    /\ PageUnit \in Nat /\ PageUnit > 0 /\ PageUnit % Granule = 0
    /\ LeastRest \in Nat /\ LeastRest > 0
    /\ Top \in Nat /\ MaxSteps \in Nat
    /\ \A s \in Sizes : s \in Nat /\ s > 0
    /\ \A start \in StartSizes : start \in Nat /\ HeaderSize + start <= Top

LEMMA InterConstants == InterAssumption => InterNumbers
  BY DEF InterAssumption, InterNumbers

(* A size that is rounded up is a multiple of the granule, and the segment *)
(* that Reserve makes for one holds it rounded once more.                  *)
LEMMA RoundUpIs ==
  ASSUME InterNumbers, NEW s \in Nat
  PROVE  RoundUp(s) \in Nat /\ RoundUp(s) > s /\ RoundUp(s) >= Granule /\ RoundUp(s) % Granule = 0
<1>1. Granule \in Nat /\ Granule > 0
  BY DEF InterNumbers
<1> DEFINE k == s \div Granule
<1>2. s = Granule * k + (s % Granule) /\ k \in Nat /\ s % Granule \in 0 .. Granule - 1
  BY <1>1, Divided
<1>3. (Granule * (k + 1)) % Granule = 0
  BY <1>1, <1>2, Times
<1>4. Granule * (k + 1) = Granule * k + Granule /\ Granule * k \in Nat
  BY <1>1, <1>2
<1>5. RoundUp(s) = Granule * (k + 1)
  BY <1>1, <1>2, <1>4 DEF RoundUp
<1> QED
  BY <1>1, <1>2, <1>3, <1>4, <1>5 DEF RoundUp

LEMMA InPagesHolds ==
  ASSUME InterNumbers, NEW r \in Nat, r % Granule = 0
  PROVE  InPages(r) \in Nat /\ InPages(r) >= RoundUp(r)
<1>1. /\ Granule \in Nat /\ Granule > 0
      /\ PageUnit \in Nat /\ PageUnit > 0 /\ PageUnit % Granule = 0
  BY DEF InterNumbers
<1> DEFINE z == r \div Granule
           y == r \div PageUnit
           p == PageUnit \div Granule
           rest == r % PageUnit
           w == z - p * y
<1>2. r = Granule * z /\ z \in Nat
  BY <1>1, Divided
<1>3. PageUnit = Granule * p /\ p \in Nat
  BY <1>1, Divided
<1>4. r = PageUnit * y + rest /\ y \in Nat /\ rest \in 0 .. PageUnit - 1
  BY <1>1, Divided
<1> HIDE DEF z, y, p, rest
<1>5. p * y \in Nat /\ w \in Int
  BY <1>2, <1>3, <1>4
<1>6. Granule * (p * y) = PageUnit * y
  BY <1>1, <1>3, <1>4, <1>5
<1>7. rest = Granule * w
  <2>1. Granule * w = Granule * z - Granule * (p * y)
    BY <1>1, <1>2, <1>5
  <2>2. PageUnit * y \in Nat
    BY <1>1, <1>4
  <2> HIDE DEF w
  <2> QED BY <2>1, <2>2, <1>1, <1>2, <1>4, <1>6
<1> HIDE DEF w
<1>8. w < p
  <2>1. ASSUME w >= p PROVE FALSE
    <3>1. Granule * w >= Granule * p
      <4>1. w - p \in Nat
        BY <2>1, <1>3, <1>5
      <4>2. Granule * (w - p) \in Nat /\ Granule * w = Granule * (w - p) + Granule * p
        BY <4>1, <1>1, <1>3, <1>5
      <4>3. Granule * p \in Nat
        BY <1>1, <1>3
      <4> QED BY <4>2, <4>3
    <3>2. rest >= PageUnit
      <4>1. rest = Granule * w /\ PageUnit = Granule * p
        BY <1>3, <1>7
      <4> QED BY <3>1, <4>1, Zenon
    <3> QED BY <3>2, <1>1, <1>4
  <2> QED BY <2>1, <1>3, <1>5
<1>9. Granule * p - Granule * w >= Granule
  <2>1. p - w - 1 \in Nat
    BY <1>3, <1>5, <1>8
  <2>2. Granule * (p - w - 1) \in Nat /\ Granule * p - Granule * w = Granule * (p - w - 1) + Granule
    BY <2>1, <1>1, <1>3, <1>5
  <2> QED BY <2>2, <1>1
<1>10. PageUnit - rest >= Granule
  BY <1>3, <1>7, <1>9
<1>11. InPages(r) = r + (PageUnit - rest) /\ RoundUp(r) = r + Granule
  BY <1>1 DEF InPages, RoundUp, rest
<1> QED
  BY <1>1, <1>4, <1>10, <1>11

-----------------------------------------------------------------------------

HeaderType == [size : Nat, next : Address \cup {Null}, free : BOOLEAN]
Memories == [Address -> HeaderType]

(* C are the headers of a list through m, in the order of addresses.       *)
IsList(m, C) ==
    /\ C \subseteq Address /\ 0 \in C
    /\ \A a \in C : \/ m[a].next = Null /\ \A c \in C : c <= a
                    \/ m[a].next \in C /\ m[a].next > a /\ \A c \in C : c <= a \/ c >= m[a].next

(* What the recursion of Chain says of a function; and what is reached by the *)
(* links from an address, which shows that there is such a function.       *)
Linking(m, f, a) == {a} \cup IF m[a].next > a THEN f[m[a].next] ELSE {}

Closed(m, S) == \A x \in S : m[x].next > x => m[x].next \in S

Reached(m, a) == {c \in Address : \A S \in SUBSET Address : a \in S /\ Closed(m, S) => c \in S}

LEMMA HeadersAre ==
  ASSUME NEW m \in Memories, NEW a \in Address
  PROVE  /\ m[a].size \in Nat /\ m[a].free \in BOOLEAN
         /\ m[a].next \in Address \cup {Null} /\ m[a].next \in Int /\ a \in Int /\ a >= 0
         /\ m[a].next > a => m[a].next \in Address
         /\ m[a] = [size |-> m[a].size, next |-> m[a].next, free |-> m[a].free]
<1>1. m[a] \in HeaderType
  BY DEF Memories
<1>2. a \in Int /\ a >= 0
  BY DEF Address
<1>3. Address \subseteq Int /\ Null = -1 /\ \A n \in Address \cup {Null} : n > a => n \in Address
  BY <1>2 DEF Address, Null
<1> DEFINE h == m[a]
<1> HIDE DEF h
<1>4. h \in [size : Nat, next : Address \cup {Null}, free : BOOLEAN]
  BY <1>1 DEF HeaderType, h
<1>5. h.size \in Nat /\ h.free \in BOOLEAN /\ h.next \in Address \cup {Null}
  BY <1>4
<1>6. h = [size |-> h.size, next |-> h.next, free |-> h.free]
  BY <1>4
<1>7. h.next \in Int /\ (h.next > a => h.next \in Address)
  <2>1. h.next \in Int
    <3>1. \A n \in Address \cup {Null} : n \in Int
      BY <1>3
    <3> QED BY <1>5, <3>1, Zenon
  <2> QED BY <2>1, <1>3, <1>5
<1> QED
  BY <1>2, <1>5, <1>6, <1>7 DEF h

LEMMA ReachedIs ==
  ASSUME NEW m \in Memories, NEW a \in Address
  PROVE  Reached(m, a) = {a} \cup IF m[a].next > a THEN Reached(m, m[a].next) ELSE {}
<1>1. a \in Reached(m, a)
  BY DEF Reached
<1>2. CASE m[a].next > a
  <2> DEFINE b == m[a].next
             R == {a} \cup Reached(m, b)
  <2>1. b \in Address
    BY <1>2, HeadersAre
  <2> HIDE DEF b
  <2>2. ASSUME NEW c \in Reached(m, b) PROVE c \in Reached(m, a)
    <3>1. c \in Address
      BY DEF Reached
    <3>2. ASSUME NEW S \in SUBSET Address, a \in S, Closed(m, S) PROVE c \in S
      <4>1. b \in S
        BY <1>2, <3>2 DEF Closed, b
      <4> QED BY <4>1, <3>2 DEF Reached
    <3> QED BY <3>1, <3>2 DEF Reached
  <2>3. Reached(m, b) \subseteq Address /\ b \in Reached(m, b)
    BY <2>1 DEF Reached
  <2>4. Closed(m, R)
    <3> SUFFICES ASSUME NEW x \in R, m[x].next > x PROVE m[x].next \in R
      BY DEF Closed
    <3>1. CASE x = a
      BY <3>1, <2>3 DEF b
    <3>2. CASE x \in Reached(m, b)
      <4>1. x \in Address
        BY <3>2, <2>3
      <4>2. m[x].next \in Address
        BY <4>1, HeadersAre
      <4>3. ASSUME NEW S \in SUBSET Address, b \in S, Closed(m, S) PROVE m[x].next \in S
        <5>1. x \in S
          BY <3>2, <4>3 DEF Reached
        <5> QED BY <5>1, <4>3 DEF Closed
      <4> QED BY <4>2, <4>3 DEF Reached
    <3> QED BY <3>1, <3>2
  <2>5. Reached(m, a) \subseteq R
    BY <2>3, <2>4 DEF Reached
  <2> QED BY <1>1, <1>2, <2>2, <2>5 DEF b
<1>3. CASE ~(m[a].next > a)
  <2>1. Closed(m, {a})
    BY <1>3 DEF Closed
  <2>2. Reached(m, a) \subseteq {a}
    BY <2>1 DEF Reached
  <2> QED BY <1>1, <1>3, <2>2
<1> QED
  BY <1>2, <1>3

(* The headers that Chain finds are those of the list.                     *)
LEMMA ChainIs ==
  ASSUME InterNumbers, NEW m \in Memories, NEW C, IsList(m, C)
  PROVE  Chain(m) = C
<1> DEFINE f0 == [a \in Address |-> Reached(m, a)]
           f == CHOOSE g : g = [a \in Address |-> Linking(m, g, a)]
<1>1. f0 = [a \in Address |-> Linking(m, f0, a)]
  <2> SUFFICES ASSUME NEW a \in Address PROVE Reached(m, a) = Linking(m, f0, a)
    OBVIOUS
  <2>1. Reached(m, a) = {a} \cup IF m[a].next > a THEN Reached(m, m[a].next) ELSE {}
    BY ReachedIs
  <2>2. m[a].next > a => m[a].next \in Address
    BY HeadersAre
  <2>3. m[a].next > a => f0[m[a].next] = Reached(m, m[a].next)
    BY <2>2
  <2> HIDE DEF f0
  <2> QED BY <2>1, <2>3 DEF Linking
<1> HIDE DEF f0
<1>2. f = [a \in Address |-> Linking(m, f, a)]
  BY <1>1, Zenon
<1>3. Chain(m) = f[0]
  BY Zenon DEF Chain, Linking
<1> HIDE DEF f
<1> DEFINE From(a) == {c \in C : c >= a}
           Bad == {n \in Nat : \E a \in C : n = Top - a /\ f[a] # From(a)}
<1>4. C \subseteq Address /\ 0 \in C /\ \A a \in C : a \in Nat /\ a <= Top /\ Top - a \in Nat
  BY DEF IsList, Address, InterNumbers
<1>5. ASSUME Bad # {} PROVE FALSE
  <2>1. PICK n \in Bad : \A k \in Bad : n <= k
    BY <1>5, MinIsLeast
  <2>2. PICK a \in C : n = Top - a /\ f[a] # From(a)
    BY <2>1
  <2>3. f[a] = Linking(m, f, a)
    BY <1>2, <1>4
  <2>4. m[a].next \in Int /\ a \in Int
    BY <1>4, HeadersAre
  <2>5. CASE m[a].next = Null /\ \A c \in C : c <= a
    <3>1. f[a] = {a}
      BY <2>3, <2>5, <1>4 DEF Linking, Null
    <3>2. From(a) = {a}
      BY <2>5, <1>4
    <3> QED BY <3>1, <3>2, <2>2
  <2>6. CASE m[a].next \in C /\ m[a].next > a /\ \A c \in C : c <= a \/ c >= m[a].next
    <3> DEFINE b == m[a].next
    <3>1. b \in C /\ b > a /\ Top - b \in Nat /\ Top - b < n
      BY <2>2, <2>6, <1>4 DEF InterNumbers
    <3>2. Top - b \notin Bad
      BY <2>1, <3>1
    <3>3. f[b] = From(b)
      BY <3>1, <3>2
    <3>4. f[a] = {a} \cup f[b]
      BY <2>3, <2>6 DEF Linking
    <3>5. From(a) = {a} \cup From(b)
      BY <2>6, <1>4
    <3> QED BY <3>3, <3>4, <3>5, <2>2
  <2> QED BY <2>5, <2>6 DEF IsList
<1>6. f[0] = From(0)
  BY <1>4, <1>5
<1>7. From(0) = C
  BY <1>4
<1> QED
  BY <1>3, <1>6, <1>7

(* The recursion of Free's pass: the free headers whose next is free, and  *)
(* that are not themselves merged into the one before.                     *)
Able(m, a) == m[a].free /\ m[a].next # Null /\ m[m[a].next].free

Joins(m, C, f, a) ==
    /\ m[a].free /\ m[a].next # Null /\ m[m[a].next].free
    /\ \A p \in C : p < a /\ m[p].next = a => ~f[p]

JoinsUpTo(m, C, S, n) ==
    \A a \in Address : a <= n =>
        (a \in S <=> Able(m, a) /\ \A p \in C : p < a /\ m[p].next = a => p \notin S)

LEMMA JoinsExist ==
  ASSUME InterNumbers, NEW m, NEW C \in SUBSET Address, NEW n \in Nat
  PROVE  \E S \in SUBSET Address : JoinsUpTo(m, C, S, n)
<1> DEFINE Bad == {k \in Nat : ~ \E S \in SUBSET Address : JoinsUpTo(m, C, S, k)}
<1>1. \A a \in Address : a \in Nat
  BY DEF Address
<1>2. ASSUME Bad # {} PROVE FALSE
  <2>1. PICK k \in Bad : \A j \in Bad : k <= j
    BY <1>2, MinIsLeast
  <2>2. k \in Nat
    OBVIOUS
  <2>3. \E S \in SUBSET Address : \A a \in Address : a < k =>
           (a \in S <=> Able(m, a) /\ \A p \in C : p < a /\ m[p].next = a => p \notin S)
    <3>1. CASE k = 0
      BY <3>1, <1>1
    <3>2. CASE k # 0
      <4>1. k - 1 \in Nat /\ k - 1 \notin Bad
        BY <2>1, <2>2, <3>2
      <4>2. PICK S \in SUBSET Address : JoinsUpTo(m, C, S, k - 1)
        BY <4>1
      <4>3. \A a \in Address : a < k => a <= k - 1
        BY <1>1, <2>2
      <4> QED BY <4>2, <4>3 DEF JoinsUpTo
    <3> QED BY <3>1, <3>2
  <2>4. PICK S0 \in SUBSET Address : \A a \in Address : a < k =>
           (a \in S0 <=> Able(m, a) /\ \A p \in C : p < a /\ m[p].next = a => p \notin S0)
    BY <2>3
  <2> DEFINE AbleNow(a) == Able(m, a) /\ \A p \in C : p < a /\ m[p].next = a => p \notin S0
             S == {a \in Address : (a < k /\ a \in S0) \/ (a = k /\ AbleNow(a))}
  <2>5. \A p \in C : p < k => (p \in S <=> p \in S0)
    BY <1>1, <2>2
  <2>6. ASSUME NEW a \in Address, a <= k
        PROVE  a \in S <=> Able(m, a) /\ \A p \in C : p < a /\ m[p].next = a => p \notin S
    <3>1. \A p \in C : p < a => (p \in S <=> p \in S0)
      BY <1>1, <2>2, <2>5, <2>6
    <3>2. (\A p \in C : p < a /\ m[p].next = a => p \notin S) <=> (\A p \in C : p < a /\ m[p].next = a => p \notin S0)
      BY <3>1
    <3>3. CASE a < k
      <4>1. a \in S <=> a \in S0
        BY <3>3, <1>1, <2>2
      <4> HIDE DEF S, AbleNow
      <4> QED BY <2>4, <3>2, <3>3, <4>1
    <3>4. CASE a = k
      <4>1. a \in S <=> AbleNow(a)
        BY <3>4, <1>1, <2>2
      <4> HIDE DEF S
      <4> QED BY <3>2, <4>1
    <3> QED BY <3>3, <3>4, <2>6, <1>1, <2>2
  <2>7. S \in SUBSET Address
    OBVIOUS
  <2> HIDE DEF S
  <2>8. JoinsUpTo(m, C, S, k)
    BY <2>6 DEF JoinsUpTo
  <2> QED BY <2>1, <2>7, <2>8
<1> QED
  BY <1>2

LEMMA JoiningIs ==
  ASSUME InterNumbers, NEW m \in Memories, NEW C, IsList(m, C), NEW a \in Joining(m)
  PROVE  /\ a \in C /\ m[a].free /\ m[a].next \in C /\ m[a].next > a
         /\ m[m[a].next].free /\ m[a].next \notin Joining(m)
<1> DEFINE f == CHOOSE g : g = [x \in Address |-> Joins(m, Chain(m), g, x)]
<1>1. Chain(m) = C /\ C \in SUBSET Address
  BY ChainIs DEF IsList
<1>2. Top \in Nat /\ \A x \in Address : x <= Top /\ x \in Nat
  BY DEF InterNumbers, Address
<1>3. PICK S \in SUBSET Address : JoinsUpTo(m, C, S, Top)
  BY <1>1, <1>2, JoinsExist
<1> DEFINE f0 == [x \in Address |-> x \in S]
<1>4. f0 = [x \in Address |-> Joins(m, C, f0, x)]
  <2> SUFFICES ASSUME NEW x \in Address PROVE (x \in S) = Joins(m, C, f0, x)
    OBVIOUS
  <2>1. x \in S <=> Able(m, x) /\ \A p \in C : p < x /\ m[p].next = x => p \notin S
    BY <1>2, <1>3 DEF JoinsUpTo
  <2>2. \A p \in C : f0[p] <=> p \in S
    BY <1>1
  <2> HIDE DEF f0
  <2>3. Joins(m, C, f0, x) <=> Able(m, x) /\ \A p \in C : p < x /\ m[p].next = x => p \notin S
    BY <2>2, Zenon DEF Joins, Able
  <2>4. Joins(m, C, f0, x) \in BOOLEAN
    BY Zenon DEF Joins
  <2> DEFINE J == Joins(m, C, f0, x)
  <2>5. (x \in S) <=> J
    BY <2>1, <2>3, Zenon
  <2>6. J \in BOOLEAN
    BY <2>4
  <2> HIDE DEF J
  <2>7. (x \in S) = J
    BY <2>5, <2>6
  <2> QED BY <2>7 DEF J
<1> HIDE DEF f0
<1>5. f0 = [x \in Address |-> Joins(m, Chain(m), f0, x)]
  BY <1>1, <1>4
<1>12. f = [x \in Address |-> Joins(m, Chain(m), f, x)]
  BY <1>5, Zenon
<1>13. Joining(m) = {x \in Chain(m) : f[x]}
  BY Zenon DEF Joining, Joins
<1>6. Joining(m) = {x \in C : f[x]}
  BY <1>1, <1>13
<1> HIDE DEF f
<1>7. \A x \in C : f[x] = Joins(m, C, f, x)
  BY <1>1, <1>12
<1>8. a \in C /\ f[a] /\ Joins(m, C, f, a)
  BY <1>6, <1>7
<1>9. m[a].free /\ m[a].next # Null /\ m[m[a].next].free
  BY <1>8 DEF Joins
<1>10. m[a].next \in C /\ m[a].next > a
  BY <1>8, <1>9 DEF IsList
<1>11. ASSUME m[a].next \in Joining(m) PROVE FALSE
  <2>1. Joins(m, C, f, m[a].next)
    BY <1>6, <1>7, <1>11
  <2>2. a < m[a].next
    BY <1>1, <1>2, <1>8, <1>10
  <2> QED BY <1>8, <2>1, <2>2 DEF Joins
<1> QED
  BY <1>8, <1>9, <1>10, <1>11

-----------------------------------------------------------------------------
(* No segment runs into the next, and the blocks lie in used segments, each *)
(* before the next header or the end of the last segment.                  *)
Laid(m, C) == \A a \in C : /\ Ends(m, a) <= Top
                           /\ m[a].next # Null => Ends(m, a) <= m[a].next

LimitIn(m, a) == IF m[a].next = Null THEN Ends(m, a) ELSE m[a].next

KeptIn(m, C, B) ==
    /\ \A b \in B : /\ b.at \in Nat /\ b.size \in Nat
                    /\ b.at - HeaderSize \in C /\ ~m[b.at - HeaderSize].free
                    /\ b.at + b.size <= LimitIn(m, b.at - HeaderSize)
    /\ \A b, c \in B : b.at = c.at => b = c

Sound(m, C) == m \in Memories /\ IsList(m, C) /\ Laid(m, C)

LEMMA InOrder ==
  ASSUME InterNumbers, NEW m, NEW C, Sound(m, C), NEW a \in C
  PROVE  /\ a \in Address /\ a \in Nat /\ m[a].size \in Nat /\ m[a].next \in Int
         /\ Ends(m, a) \in Nat /\ Ends(m, a) <= Top /\ Behind(a) <= Ends(m, a) /\ Behind(a) > a
         /\ m[a].next # Null => m[a].next \in C /\ m[a].next > a /\ Ends(m, a) <= m[a].next
         /\ \A c \in C : a < c => m[a].next # Null /\ m[a].next <= c /\ Ends(m, a) <= c
<1>1. m \in Memories /\ C \subseteq Address /\ \A c \in C : c \in Nat
  BY DEF Sound, IsList, Address
<1>2. a \in Address /\ a \in Nat
  BY <1>1
<1>3. m[a].size \in Nat /\ m[a].next \in Int
  BY <1>1, <1>2, HeadersAre
<1>4. \/ m[a].next = Null /\ \A c \in C : c <= a
      \/ m[a].next \in C /\ m[a].next > a /\ \A c \in C : c <= a \/ c >= m[a].next
  BY DEF Sound, IsList
<1>5. Ends(m, a) <= Top /\ (m[a].next # Null => Ends(m, a) <= m[a].next)
  BY DEF Sound, Laid
<1>6. Ends(m, a) = a + HeaderSize + m[a].size /\ Behind(a) = a + HeaderSize /\ HeaderSize \in Nat /\ HeaderSize > 0
  BY DEF Ends, Behind, InterNumbers
<1>7. Ends(m, a) \in Nat
  BY <1>2, <1>3, <1>6
<1>8. ASSUME NEW c \in C, a < c PROVE m[a].next # Null /\ m[a].next <= c /\ Ends(m, a) <= c
  <2>1. ~ (c <= a)
    BY <1>1, <1>2, <1>8
  <2>2. m[a].next \in C /\ m[a].next > a /\ c >= m[a].next
    BY <1>4, <1>8, <2>1
  <2>3. m[a].next # Null
    BY <1>1, <2>2 DEF Null
  <2> QED BY <1>1, <1>3, <1>5, <1>7, <2>2, <2>3
<1> QED
  BY <1>2, <1>3, <1>4, <1>5, <1>6, <1>7, <1>8

(* What does not touch the sizes and links of the list's headers keeps it.  *)
LEMMA SameShape ==
  ASSUME InterNumbers, NEW m, NEW C, Sound(m, C), NEW m2 \in Memories,
         \A a \in C : m2[a].next = m[a].next /\ m2[a].size = m[a].size
  PROVE  Sound(m2, C) /\ \A a \in C : LimitIn(m2, a) = LimitIn(m, a)
<1>1. \A a \in C : Ends(m2, a) = Ends(m, a)
  BY DEF Ends
<1>2. IsList(m2, C)
  BY DEF Sound, IsList
<1>3. Laid(m2, C)
  BY <1>1 DEF Sound, Laid
<1> QED
  BY <1>1, <1>2, <1>3 DEF Sound, LimitIn

LEMMA HeadingIs ==
  ASSUME NEW s \in Nat, NEW n \in Address \cup {Null}, NEW f \in BOOLEAN
  PROVE  /\ Heading(s, n, f) \in HeaderType
         /\ Heading(s, n, f).size = s /\ Heading(s, n, f).next = n /\ Heading(s, n, f).free = f
BY DEF Heading, HeaderType

LEMMA MarkedIs ==
  ASSUME NEW m \in Memories, NEW a \in Address, NEW f \in BOOLEAN
  PROVE  /\ Marked(m, a, f) \in Memories
         /\ Marked(m, a, f)[a] = Heading(m[a].size, m[a].next, f)
         /\ \A x \in Address : x # a => Marked(m, a, f)[x] = m[x]
<1>1. m[a] = [size |-> m[a].size, next |-> m[a].next, free |-> m[a].free]
  BY HeadersAre
<1>2. m[a].size \in Nat /\ m[a].next \in Address \cup {Null}
  BY HeadersAre
<1> DEFINE h == Heading(m[a].size, m[a].next, f)
<1>3. h \in HeaderType
  BY <1>2, HeadingIs
<1>4. m \in [Address -> HeaderType]
  BY DEF Memories
<1>5. [m[a] EXCEPT !.free = f] = h
  BY <1>1 DEF Heading
<1>6. Marked(m, a, f) = [m EXCEPT ![a] = [m[a] EXCEPT !.free = f]]
  BY DEF Marked
<1>7. Marked(m, a, f) = [m EXCEPT ![a] = h]
  BY <1>5, <1>6
<1> HIDE DEF h
<1>8. /\ [m EXCEPT ![a] = h] \in [Address -> HeaderType]
      /\ [m EXCEPT ![a] = h][a] = h
      /\ \A x \in Address : x # a => [m EXCEPT ![a] = h][x] = m[x]
  BY <1>3, <1>4
<1> QED
  BY <1>7, <1>8 DEF Memories, h

LEMMA ShortenedIs ==
  ASSUME NEW m \in Memories, NEW a \in Address, NEW s \in Int, Behind(a) + s \in Address, s - HeaderSize \in Nat
  PROVE  /\ Shortened(m, a, s) \in Memories
         /\ Shortened(m, a, s)[a] = Heading(s - HeaderSize, Behind(a) + s, m[a].free)
         /\ \A x \in Address : x # a => Shortened(m, a, s)[x] = m[x]
<1> DEFINE n == Behind(a) + s
           z == s - HeaderSize
           h == Heading(z, n, m[a].free)
<1>1. m[a] = [size |-> m[a].size, next |-> m[a].next, free |-> m[a].free]
  BY HeadersAre
<1>2. m[a].free \in BOOLEAN
  BY HeadersAre
<1>3. n \in Address /\ z \in Nat
  OBVIOUS
<1>4. Shortened(m, a, s) = [m EXCEPT ![a].next = n, ![a].size = z]
  BY DEF Shortened
<1> HIDE DEF n, z
<1>5. h \in HeaderType
  BY <1>2, <1>3, HeadingIs
<1>6. m \in [Address -> HeaderType]
  BY DEF Memories
<1>7. [[m[a] EXCEPT !.next = n] EXCEPT !.size = z] = h
  <2> DEFINE r == [size |-> m[a].size, next |-> n, free |-> m[a].free]
  <2>1. [m[a] EXCEPT !.next = n] = r
    BY <1>1
  <2>2. [r EXCEPT !.size = z] = [size |-> z, next |-> n, free |-> m[a].free]
    OBVIOUS
  <2> HIDE DEF r
  <2> QED BY <2>1, <2>2 DEF Heading
<1>8. [m EXCEPT ![a].next = n, ![a].size = z] = [m EXCEPT ![a] = [[m[a] EXCEPT !.next = n] EXCEPT !.size = z]]
  BY <1>6
<1>9. Shortened(m, a, s) = [m EXCEPT ![a] = h]
  BY <1>4, <1>7, <1>8
<1> HIDE DEF h
<1>10. /\ [m EXCEPT ![a] = h] \in [Address -> HeaderType]
       /\ [m EXCEPT ![a] = h][a] = h
       /\ \A x \in Address : x # a => [m EXCEPT ![a] = h][x] = m[x]
  BY <1>5, <1>6
<1> QED
  BY <1>9, <1>10 DEF Memories, h, n, z

LEMMA WrittenIs ==
  ASSUME InterNumbers, NEW m \in Memories, NEW a \in Address, NEW s \in Int, Behind(a) + s \in Address,
         RestOf(m, a, s) \in Nat
  PROVE  /\ Written(m, a, s) \in Memories
         /\ Written(m, a, s)[Behind(a) + s] = Heading(RestOf(m, a, s), m[a].next, TRUE)
         /\ \A x \in Address : x # Behind(a) + s => Written(m, a, s)[x] = m[x]
<1> DEFINE n == Behind(a) + s
           h == Heading(RestOf(m, a, s), m[a].next, TRUE)
<1>1. m[a].next \in Address \cup {Null}
  BY HeadersAre
<1>2. h \in HeaderType
  BY <1>1, HeadingIs
<1>3. m \in [Address -> HeaderType] /\ n \in Address
  BY DEF Memories
<1>4. Written(m, a, s) = [m EXCEPT ![n] = h]
  BY DEF Written
<1> HIDE DEF h, n
<1>5. /\ [m EXCEPT ![n] = h] \in [Address -> HeaderType]
      /\ [m EXCEPT ![n] = h][n] = h
      /\ \A x \in Address : x # n => [m EXCEPT ![n] = h][x] = m[x]
  BY <1>2, <1>3
<1> QED
  BY <1>4, <1>5 DEF Memories, h, n

LEMMA LengthenedIs ==
  ASSUME NEW m \in Memories, NEW n \in Address, NEW s \in Nat, tail \in Address, n # tail
  PROVE  /\ Lengthened(m, n, s) \in Memories
         /\ Lengthened(m, n, s)[n] = Heading(s, Null, TRUE)
         /\ Lengthened(m, n, s)[tail] = Heading(m[tail].size, n, m[tail].free)
         /\ \A x \in Address : x # n /\ x # tail => Lengthened(m, n, s)[x] = m[x]
<1> DEFINE h == Heading(s, Null, TRUE)
           k == Heading(m[tail].size, n, m[tail].free)
           m1 == [m EXCEPT ![n] = h]
<1>1. /\ m[tail] = [size |-> m[tail].size, next |-> m[tail].next, free |-> m[tail].free]
      /\ m[tail].size \in Nat /\ m[tail].free \in BOOLEAN
  BY HeadersAre
<1>2. h \in HeaderType /\ k \in HeaderType
  BY <1>1, HeadingIs
<1>3. m \in [Address -> HeaderType]
  BY DEF Memories
<1>4. [m[tail] EXCEPT !.next = n] = k
  BY <1>1 DEF Heading
<1>5. Lengthened(m, n, s) = [m1 EXCEPT ![tail].next = n]
  BY DEF Lengthened, Heading
<1> HIDE DEF h, k
<1>6. m1 \in [Address -> HeaderType] /\ m1[tail] = m[tail] /\ m1[n] = h /\ \A x \in Address : x # n => m1[x] = m[x]
  BY <1>2, <1>3
<1> HIDE DEF m1
<1>7. [m1 EXCEPT ![tail].next = n] = [m1 EXCEPT ![tail] = [m1[tail] EXCEPT !.next = n]]
  OBVIOUS
<1>8. Lengthened(m, n, s) = [m1 EXCEPT ![tail] = k]
  BY <1>4, <1>5, <1>6, <1>7
<1>9. /\ [m1 EXCEPT ![tail] = k] \in [Address -> HeaderType]
      /\ [m1 EXCEPT ![tail] = k][tail] = k
      /\ \A x \in Address : x # tail => [m1 EXCEPT ![tail] = k][x] = m1[x]
  BY <1>2, <1>6
<1> QED
  BY <1>6, <1>8, <1>9 DEF Memories, h, k

(* The first of two free segments with the second in it.                   *)
Together(m, a) == Heading(m[a].size + m[m[a].next].size + HeaderSize, m[m[a].next].next, m[a].free)

LEMMA TogetherIs ==
  ASSUME InterNumbers, NEW m \in Memories, NEW a \in Address, m[a].next \in Address
  PROVE  /\ Together(m, a) \in HeaderType
         /\ Together(m, a).size = m[a].size + m[m[a].next].size + HeaderSize
         /\ Together(m, a).next = m[m[a].next].next /\ Together(m, a).free = m[a].free
         /\ Together(m, a) = [m[a] EXCEPT !.size = @ + m[m[a].next].size + HeaderSize,
                                          !.next = m[m[a].next].next]
<1> DEFINE z == m[a].size + m[m[a].next].size + HeaderSize
           n == m[m[a].next].next
<1>1. /\ m[a] = [size |-> m[a].size, next |-> m[a].next, free |-> m[a].free]
      /\ m[a].size \in Nat /\ m[a].free \in BOOLEAN
  BY HeadersAre
<1>2. m[m[a].next].size \in Nat /\ m[m[a].next].next \in Address \cup {Null}
  BY HeadersAre
<1>3. z \in Nat /\ n \in Address \cup {Null}
  BY <1>1, <1>2 DEF InterNumbers
<1>4. Together(m, a) = Heading(z, n, m[a].free)
  BY DEF Together
<1>5. [m[a] EXCEPT !.size = @ + m[m[a].next].size + HeaderSize, !.next = m[m[a].next].next]
        = [size |-> z, next |-> n, free |-> m[a].free]
  <2> HIDE DEF n
  <2> DEFINE r == [size |-> z, next |-> m[a].next, free |-> m[a].free]
  <2>1. [m[a] EXCEPT !.size = @ + m[m[a].next].size + HeaderSize] = r
    BY <1>1
  <2>2. [r EXCEPT !.next = n] = [size |-> z, next |-> n, free |-> m[a].free]
    OBVIOUS
  <2> HIDE DEF r, z
  <2> QED BY <2>1, <2>2 DEF n
<1> HIDE DEF z, n
<1> QED
  BY <1>1, <1>3, <1>4, <1>5, HeadingIs DEF Heading, z, n

LEMMA SweptIs ==
  ASSUME InterNumbers, NEW m \in Memories, NEW C, IsList(m, C)
  PROVE  /\ Swept(m) \in Memories
         /\ \A x \in Address : Swept(m)[x] = IF x \in Joining(m) THEN Together(m, x) ELSE m[x]
<1>1. C \subseteq Address
  BY DEF IsList
<1>2. \A x \in Joining(m) : x \in Address /\ m[x].next \in Address
  BY <1>1, JoiningIs
<1>3. Swept(m) = [x \in Address |-> IF x \in Joining(m)
            THEN [m[x] EXCEPT !.size = @ + m[m[x].next].size + HeaderSize, !.next = m[m[x].next].next]
            ELSE m[x]]
  BY DEF Swept
<1>4. \A x \in Address : Swept(m)[x] = IF x \in Joining(m) THEN Together(m, x) ELSE m[x]
  <2> TAKE x \in Address
  <2>1. x \in Joining(m) => Together(m, x) = [m[x] EXCEPT !.size = @ + m[m[x].next].size + HeaderSize,
                                                     !.next = m[m[x].next].next]
    BY <1>2, TogetherIs
  <2> QED BY <1>3, <2>1
<1>5. \A x \in Address : Swept(m)[x] \in HeaderType
  <2> TAKE x \in Address
  <2>1. x \in Joining(m) => Together(m, x) \in HeaderType
    BY <1>2, TogetherIs
  <2>2. m[x] \in HeaderType
    BY DEF Memories
  <2> QED BY <1>4, <2>1, <2>2
<1>6. Swept(m) = [x \in Address |-> Swept(m)[x]]
  BY <1>3
<1>7. Swept(m) \in [Address -> HeaderType]
  BY <1>5, <1>6
<1> QED
  BY <1>4, <1>7 DEF Memories

-----------------------------------------------------------------------------
(* Where the second half of a split begins: inside the segment.            *)
LEMMA SplitPlace ==
  ASSUME InterNumbers, NEW m, NEW C, Sound(m, C), NEW a \in C, NEW s \in Nat, SplitsAt(m, a, s)
  PROVE  /\ Behind(a) + s \in Address /\ Behind(a) + s \notin C /\ Behind(a) + s > a
         /\ Behind(a) + s >= Behind(a) /\ Behind(a) + s < Ends(m, a)
         /\ RestOf(m, a, s) \in Nat
         /\ Behind(a) + s + HeaderSize + RestOf(m, a, s) = Ends(m, a)
<1>1. /\ a \in Nat /\ m[a].size \in Nat /\ Ends(m, a) <= Top
      /\ \A c \in C : a < c => Ends(m, a) <= c
  BY InOrder
<1>2. HeaderSize \in Nat /\ HeaderSize > 0 /\ LeastRest \in Nat /\ LeastRest > 0 /\ Top \in Nat
  BY DEF InterNumbers
<1>3. RestOf(m, a, s) = m[a].size - s - HeaderSize /\ RestOf(m, a, s) >= LeastRest
  BY DEF SplitsAt, RestOf
<1>4. Ends(m, a) = a + HeaderSize + m[a].size /\ Behind(a) = a + HeaderSize
  BY DEF Ends, Behind
<1>5. /\ Behind(a) + s \in Nat /\ Behind(a) + s > a /\ Behind(a) + s < Ends(m, a)
      /\ RestOf(m, a, s) \in Nat
      /\ Behind(a) + s + HeaderSize + RestOf(m, a, s) = Ends(m, a)
  BY <1>1, <1>2, <1>3, <1>4
<1>6. Behind(a) + s \in Address
  BY <1>1, <1>2, <1>4, <1>5 DEF Address
<1>7. Behind(a) + s \notin C
  BY <1>1, <1>2, <1>4, <1>5
<1> QED
  BY <1>1, <1>2, <1>4, <1>5, <1>6, <1>7

(* What a step leaves as it was: the headers elsewhere than in D, and the  *)
(* headers in D with the limits of what lies behind them.                  *)
Elsewhere(m, m2, D) == \A x \in Address : x \notin D => m2[x] = m[x]
Stay(m, m2, D) == \A c \in D : m2[c] = m[c] /\ LimitIn(m2, c) = LimitIn(m, c)

(* The header of the second half of a, and the first half that ends before n. *)
RestThere(m, m2, n, a, s) == m2[n] = Heading(RestOf(m, a, s), m[a].next, TRUE)
FirstHalf(m, m2, n, a) == m2[a].free = m[a].free /\ LimitIn(m2, a) = n

LEMMA WrittenKeeps ==
  ASSUME InterNumbers, NEW m, NEW C, Sound(m, C), NEW a \in C, NEW s \in Nat, SplitsAt(m, a, s),
         NEW m2, m2 = Written(m, a, s), NEW n, n = Behind(a) + s
  PROVE  Sound(m2, C) /\ Stay(m, m2, C) /\ Elsewhere(m, m2, {n}) /\ RestThere(m, m2, n, a, s)
<1>1. n \in Address /\ n \notin C /\ RestOf(m, a, s) \in Nat
  BY SplitPlace
<1>2. m \in Memories /\ C \subseteq Address /\ a \in Address /\ s \in Int
  BY DEF Sound, IsList
<1>3. /\ m2 \in Memories
      /\ m2[n] = Heading(RestOf(m, a, s), m[a].next, TRUE)
      /\ \A x \in Address : x # n => m2[x] = m[x]
  BY <1>1, <1>2, WrittenIs
<1>4. \A c \in C : m2[c] = m[c]
  BY <1>1, <1>2, <1>3
<1>5. Sound(m2, C) /\ \A c \in C : LimitIn(m2, c) = LimitIn(m, c)
  BY <1>3, <1>4, SameShape
<1> QED
  BY <1>3, <1>4, <1>5 DEF Elsewhere, Stay, RestThere

LEMMA ShortenedKeeps ==
  ASSUME InterNumbers, NEW m, NEW C, Sound(m, C), NEW a \in C, NEW s \in Nat, HeaderSize <= s,
         SplitsAt(m, a, s),
         NEW m2, m2 = Shortened(m, a, s), NEW n, n = Behind(a) + s,
         RestThere(m, m, n, a, s)
  PROVE  /\ Sound(m2, C \cup {n}) /\ Stay(m, m2, C \ {a}) /\ Elsewhere(m, m2, {a})
         /\ FirstHalf(m, m2, n, a)
<1> DEFINE C2 == C \cup {n}
           r  == RestOf(m, a, s)
<1>1. n \in Address /\ n \notin C /\ n > a /\ n < Ends(m, a) /\ r \in Nat /\ n + HeaderSize + r = Ends(m, a)
  BY SplitPlace
<1>2. m \in Memories /\ C \subseteq Address /\ a \in Address /\ s - HeaderSize \in Nat
  BY DEF Sound, IsList, InterNumbers
<1>3. m[a].next \in Address \cup {Null} /\ m[a].free \in BOOLEAN
  BY <1>2, HeadersAre
<1>4. /\ m2 \in Memories
      /\ m2[a] = Heading(s - HeaderSize, n, m[a].free)
      /\ \A x \in Address : x # a => m2[x] = m[x]
  BY <1>1, <1>2, ShortenedIs
<1>5. m[n] = Heading(r, m[a].next, TRUE)
  BY DEF RestThere
<1>6. \A c \in C2 : c \in Nat /\ c \in Address
  BY <1>1, <1>2 DEF Address
<1>22. n \in Nat /\ \A d \in C : d \in Nat
  BY <1>6
<1>7. /\ a \in Nat /\ HeaderSize \in Nat /\ HeaderSize > 0 /\ Top \in Nat
      /\ Behind(a) = a + HeaderSize
  BY <1>2, <1>6 DEF InterNumbers, Behind
<1>8. n = a + HeaderSize + s
  BY <1>7
<1> HIDE DEF r
<1>9. m2[a].next = n /\ m2[a].size = s - HeaderSize /\ m2[a].free = m[a].free
  BY <1>1, <1>2, <1>3, <1>4, HeadingIs
<1>10. m2[n] = m[n] /\ m2[n].next = m[a].next /\ m2[n].size = r
  <2>1. Heading(r, m[a].next, TRUE).next = m[a].next /\ Heading(r, m[a].next, TRUE).size = r
    BY <1>1, <1>3, HeadingIs
  <2>2. m2[n] = m[n]
    BY <1>1, <1>4, <1>22, <1>7
  <2> QED BY <2>1, <2>2, <1>5
<1>11. \A c \in C : c # a => m2[c] = m[c]
  BY <1>2, <1>4
<1>12. m[a].next # Null => m[a].next \in C /\ m[a].next > a /\ Ends(m, a) <= m[a].next
  BY InOrder
<1>13. \A c \in C : a < c => m[a].next # Null /\ m[a].next <= c /\ Ends(m, a) <= c
  BY InOrder
<1>14. Ends(m, a) \in Nat /\ Ends(m, a) <= Top /\ m[a].next \in Int
  BY InOrder
<1>15. IsList(m2, C2)
  <2>1. C2 \subseteq Address /\ 0 \in C2
    BY <1>1, <1>2 DEF Sound, IsList
  <2>2. ASSUME NEW c \in C2
        PROVE  \/ m2[c].next = Null /\ \A d \in C2 : d <= c
               \/ m2[c].next \in C2 /\ m2[c].next > c /\ \A d \in C2 : d <= c \/ d >= m2[c].next
    <3>1. CASE c = a
      <4>1. \A d \in C : d <= a \/ d >= n
        BY <1>1, <1>22, <1>7, <1>13, <1>14
      <4> QED BY <3>1, <4>1, <1>1, <1>6, <1>9
    <3>2. CASE c = n
      <4>1. CASE m[a].next = Null
        <5>1. \A d \in C : d <= a
          <6> TAKE d \in C
          <6>1. d \in Nat /\ a \in Nat
            BY <1>22, <1>7
          <6>2. ~ (a < d)
            BY <1>13, <4>1
          <6> QED BY <6>1, <6>2
        <5>3. n \in Nat /\ a \in Nat /\ n > a /\ \A d \in C : d \in Nat
          BY <1>1, <1>22, <1>7
        <5>2. \A d \in C : d <= n
          BY <5>1, <5>3
        <5>4. \A d \in C2 : d <= n
          BY <5>2, <5>3
        <5>5. m2[n].next = Null
          BY <4>1, <1>10
        <5> QED BY <3>2, <5>4, <5>5
      <4>2. CASE m[a].next # Null
        <5>1. \A d \in C : d <= a \/ d >= m[a].next
          <6> TAKE d \in C
          <6>1. d \in Nat /\ a \in Nat /\ m[a].next \in Int
            BY <1>22, <1>7, <1>14
          <6>2. a < d => m[a].next <= d
            BY <1>13
          <6> QED BY <6>1, <6>2
        <5>2. \A d \in C : d <= n \/ d >= m[a].next
          BY <5>1, <1>1, <1>22, <1>7
        <5>3. m[a].next \in C /\ m[a].next > n
          BY <4>2, <1>1, <1>6, <1>12, <1>14
        <5>4. \A d \in C2 : d <= n \/ d >= m[a].next
          BY <5>2, <1>22
        <5>5. m2[n].next = m[a].next
          BY <1>10
        <5>6. m2[c].next \in C2 /\ m2[c].next > c
          BY <3>2, <5>3, <5>5
        <5> QED BY <3>2, <5>4, <5>5, <5>6
      <4> QED BY <4>1, <4>2
    <3>3. CASE c \in C /\ c # a
      <4>1. m2[c].next = m[c].next
        BY <3>3, <1>11
      <4>2. \/ m[c].next = Null /\ \A d \in C : d <= c
            \/ m[c].next \in C /\ m[c].next > c /\ \A d \in C : d <= c \/ d >= m[c].next
        BY <3>3 DEF Sound, IsList
      <4>3. \A d \in C : c < d => m[c].next # Null /\ m[c].next <= d
        BY <3>3, InOrder
      <4>4. CASE a < c
        <5>1. n < c
          BY <3>3, <4>4, <1>1, <1>6, <1>13, <1>14
        <5>2. n <= c
          BY <5>1, <1>6, <3>3
        <5> QED BY <4>1, <4>2, <5>2
      <4>5. CASE c < a
        <5>1. m[c].next # Null /\ m[c].next <= a
          BY <4>3, <4>5
        <5>2. m[c].next \in C /\ m[c].next > c /\ \A d \in C : d <= c \/ d >= m[c].next
          BY <4>2, <5>1
        <5>3. n >= m[c].next
          <6>1. m[c].next \in Nat /\ m[c].next <= a /\ a < n
            BY <5>1, <5>2, <1>1, <1>22
          <6> QED BY <6>1, <1>22, <1>7
        <5> QED BY <4>1, <5>2, <5>3
      <4>6. c \in Nat /\ a \in Nat /\ c # a
        BY <3>3, <1>22, <1>7
      <4>7. c < a \/ a < c
        BY <4>6
      <4> QED BY <4>4, <4>5, <4>7
    <3> QED BY <3>1, <3>2, <3>3
  <2> HIDE DEF C2
  <2> QED BY <2>1, <2>2 DEF IsList
<1>16. Ends(m2, n) = Ends(m, a) /\ Ends(m2, a) <= n /\ Ends(m2, a) <= Top
  <2>1. Ends(m2, n) = n + HeaderSize + r
    BY <1>10 DEF Ends
  <2>2. Ends(m2, a) = a + HeaderSize + (s - HeaderSize)
    BY <1>9 DEF Ends
  <2> QED BY <2>1, <2>2, <1>1, <1>6, <1>7, <1>8, <1>14
<1>17. \A c \in C : c # a => Ends(m2, c) = Ends(m, c) /\ m2[c].next = m[c].next
  BY <1>11 DEF Ends
<1>18. Laid(m2, C2)
  <2> SUFFICES ASSUME NEW c \in C2
               PROVE  Ends(m2, c) <= Top /\ (m2[c].next # Null => Ends(m2, c) <= m2[c].next)
    BY DEF Laid
  <2>1. CASE c = a
    BY <2>1, <1>9, <1>16
  <2>2. CASE c = n
    BY <2>2, <1>10, <1>12, <1>14, <1>16
  <2>3. CASE c \in C /\ c # a
    BY <2>3, <1>17 DEF Sound, Laid
  <2> QED BY <2>1, <2>2, <2>3
<1>19. LimitIn(m2, a) = n
  BY <1>1, <1>6, <1>9 DEF LimitIn, Null
<1>20. \A c \in C : c # a => LimitIn(m2, c) = LimitIn(m, c)
  BY <1>17 DEF LimitIn
<1>21. Sound(m2, C2)
  BY <1>4, <1>15, <1>18 DEF Sound
<1> QED
  BY <1>4, <1>9, <1>11, <1>19, <1>20, <1>21 DEF Elsewhere, Stay, FirstHalf

(* The last segment goes on to n, and the segments of the list have room and use as before. *)
Longer(m2, n) == m2[tail].next = n
Alike(m, m2, D) == \A c \in D : m2[c].free = m[c].free /\ LimitIn(m2, c) = LimitIn(m, c)

LEMMA LengthenedKeeps ==
  ASSUME InterNumbers, NEW m, NEW C, Sound(m, C), tail \in C, m[tail].next = Null,
         NEW s \in Nat,
         NEW n, n = Ends(m, tail), n + HeaderSize + s <= Top, NEW m2, m2 = Lengthened(m, n, s)
  PROVE  /\ Sound(m2, C \cup {n}) /\ n \in Address /\ n \notin C
         /\ Longer(m2, n) /\ Alike(m, m2, C) /\ Elsewhere(m, m2, {n, tail})
<1> DEFINE C2 == C \cup {n}
<1>1. /\ n \in Nat /\ tail \in Address /\ tail \in Nat /\ Behind(tail) <= n /\ Behind(tail) > tail
      /\ Behind(tail) \in Nat
      /\ \A c \in C : tail < c => m[tail].next # Null
  BY InOrder DEF Behind, InterNumbers
<1>2. m \in Memories /\ C \subseteq Address /\ \A c \in C : c \in Nat
  BY DEF Sound, IsList, Address
<1>3. HeaderSize \in Nat /\ HeaderSize > 0 /\ Top \in Nat
  BY DEF InterNumbers
<1>4. \A c \in C : c <= tail
  BY <1>1, <1>2
<1>5. n > tail /\ n <= Top /\ n + HeaderSize + s <= Top
  BY <1>1, <1>3
<1>6. n \in Address /\ n \notin C /\ n # tail
  BY <1>1, <1>2, <1>4, <1>5 DEF Address
<1>7. /\ m2 \in Memories
      /\ m2[n] = Heading(s, Null, TRUE)
      /\ m2[tail] = Heading(m[tail].size, n, m[tail].free)
      /\ \A x \in Address : x # n /\ x # tail => m2[x] = m[x]
  BY <1>1, <1>2, <1>6, LengthenedIs, ZenonT(60)
<1>8. m[tail].size \in Nat /\ m[tail].free \in BOOLEAN
  BY <1>1, <1>2, HeadersAre
<1>9. m2[n].next = Null /\ m2[n].size = s
  <2>1. Null \in Address \cup {Null} /\ TRUE \in BOOLEAN
    OBVIOUS
  <2>2. Heading(s, Null, TRUE).next = Null /\ Heading(s, Null, TRUE).size = s
    BY <2>1, HeadingIs, ZenonT(60)
  <2> QED BY <1>7, <2>2
<1>10. m2[tail].next = n /\ m2[tail].size = m[tail].size /\ m2[tail].free = m[tail].free
  BY <1>6, <1>7, <1>8, HeadingIs
<1>11. \A c \in C : c # tail => m2[c] = m[c]
  BY <1>2, <1>6, <1>7
<1>12. \A c \in C : c # tail => c < tail /\ m[c].next # Null /\ m[c].next \in C /\ m[c].next > c /\ \A d \in C : d <= c \/ d >= m[c].next
  <2> TAKE c \in C
  <2> HAVE c # tail
  <2>1. c < tail
    BY <1>1, <1>2, <1>4
  <2>2. m[c].next # Null
    BY <2>1, InOrder
  <2> QED BY <2>1, <2>2 DEF Sound, IsList
<1>13. IsList(m2, C2)
  <2>1. C2 \subseteq Address /\ 0 \in C2
    BY <1>2, <1>6 DEF Sound, IsList
  <2>2. ASSUME NEW c \in C2
        PROVE  \/ m2[c].next = Null /\ \A d \in C2 : d <= c
               \/ m2[c].next \in C2 /\ m2[c].next > c /\ \A d \in C2 : d <= c \/ d >= m2[c].next
    <3>1. CASE c = n
      <4>1. \A d \in C : d <= n
        BY <1>1, <1>2, <1>4, <1>5
      <4> QED BY <3>1, <4>1, <1>1, <1>9
    <3>2. CASE c = tail
      BY <3>2, <1>1, <1>4, <1>5, <1>10
    <3>3. CASE c \in C /\ c # tail
      <4>1. m2[c].next = m[c].next
        BY <3>3, <1>11
      <4>2. m[c].next \in C /\ m[c].next > c /\ \A d \in C : d <= c \/ d >= m[c].next
        BY <3>3, <1>12
      <4>3. n >= m[c].next
        <5>1. m[c].next \in Nat /\ m[c].next <= tail /\ tail < n
          BY <4>2, <1>2, <1>4, <1>5
        <5> QED BY <5>1, <1>1
      <4> QED BY <4>1, <4>2, <4>3
    <3> QED BY <3>1, <3>2, <3>3
  <2> HIDE DEF C2
  <2> QED BY <2>1, <2>2 DEF IsList
<1>14. Ends(m2, n) = n + HeaderSize + s /\ Ends(m2, tail) = n
  BY <1>9, <1>10 DEF Ends
<1>15. \A c \in C : c # tail => Ends(m2, c) = Ends(m, c) /\ m2[c].next = m[c].next
  BY <1>11 DEF Ends
<1>16. Laid(m2, C2)
  <2> SUFFICES ASSUME NEW c \in C2
               PROVE  Ends(m2, c) <= Top /\ (m2[c].next # Null => Ends(m2, c) <= m2[c].next)
    BY DEF Laid
  <2>1. CASE c = n
    BY <2>1, <1>5, <1>9, <1>14
  <2>2. CASE c = tail
    BY <2>2, <1>1, <1>5, <1>10, <1>14
  <2>3. CASE c \in C /\ c # tail
    BY <2>3, <1>15 DEF Sound, Laid
  <2> QED BY <2>1, <2>2, <2>3
<1>17. \A c \in C : LimitIn(m2, c) = LimitIn(m, c)
  <2> TAKE c \in C
  <2>1. CASE c = tail
    <3>1. LimitIn(m2, c) = n
      BY <2>1, <1>10, <1>14 DEF LimitIn
    <3>2. LimitIn(m, c) = n
      BY <2>1 DEF LimitIn
    <3> QED BY <3>1, <3>2
  <2>2. CASE c # tail
    BY <2>2, <1>15 DEF LimitIn
  <2> QED BY <2>1, <2>2
<1>18. \A c \in C : m2[c].free = m[c].free
  BY <1>10, <1>11
<1>19. Sound(m2, C2)
  BY <1>7, <1>13, <1>16 DEF Sound
<1> QED
  BY <1>6, <1>7, <1>10, <1>17, <1>18, <1>19 DEF Elsewhere, Longer, Alike

(* Free headers that are joined with the next, none of them twice; what is *)
(* left of the list, all but the headers that were merged; and what is used. *)
Pairs(m, C, J) == \A a \in J : /\ a \in C /\ m[a].free /\ m[a].next \in C /\ m[a].next > a
                               /\ m[m[a].next].free /\ m[a].next \notin J

Joined(m, m2, J) ==
    /\ m2 \in Memories
    /\ \A x \in Address : m2[x] = IF x \in J THEN Together(m, x) ELSE m[x]

Left(m, C, J) == C \ {m[a].next : a \in J}

UsedStay(m, m2, C, C2) ==
    \A c \in C : ~m[c].free => c \in C2 /\ m2[c] = m[c] /\ LimitIn(m2, c) = LimitIn(m, c)

LEMMA JoinedKeep ==
  ASSUME InterNumbers, NEW m, NEW C, Sound(m, C), NEW J, Pairs(m, C, J), NEW m2, Joined(m, m2, J)
  PROVE  /\ Sound(m2, Left(m, C, J)) /\ UsedStay(m, m2, C, Left(m, C, J)) /\ Elsewhere(m, m2, C)
<1> DEFINE C2 == Left(m, C, J)
<1>1. m \in Memories /\ IsList(m, C) /\ C \subseteq Address /\ 0 \in C /\ \A c \in C : c \in Nat
  <2>1. m \in Memories /\ IsList(m, C)
    BY DEF Sound
  <2>2. C \subseteq Address /\ 0 \in C
    BY <2>1 DEF IsList
  <2> QED BY <2>1, <2>2 DEF Address
<1>2. \A a \in J : /\ a \in C /\ m[a].free /\ m[a].next \in C /\ m[a].next > a
                   /\ m[m[a].next].free /\ m[a].next \notin J
  BY DEF Pairs
<1>3. m2 \in Memories /\ \A x \in Address : m2[x] = IF x \in J THEN Together(m, x) ELSE m[x]
  BY DEF Joined
<1>4. HeaderSize \in Nat /\ HeaderSize > 0 /\ Top \in Nat
  BY DEF InterNumbers
<1>5. \A x \in J : /\ m2[x].size = m[x].size + m[m[x].next].size + HeaderSize
                   /\ m2[x].next = m[m[x].next].next
  <2> TAKE x \in J
  <2>1. x \in Address /\ m[x].next \in Address
    BY <1>1, <1>2
  <2>2. m2[x] = Together(m, x)
    BY <1>3, <2>1, SMTT(40)
  <2>3. Together(m, x).size = m[x].size + m[m[x].next].size + HeaderSize /\ Together(m, x).next = m[m[x].next].next
    BY <1>1, <2>1, TogetherIs
  <2> QED BY <2>2, <2>3
<1>6. \A x \in C : x \notin J => m2[x] = m[x]
  BY <1>1, <1>3
<1>7. C2 \subseteq C /\ \A c \in C : c \in C2 <=> \A a \in J : m[a].next # c
  BY DEF Left
<1> HIDE DEF C2
<1>8. J \subseteq C2
  BY <1>2, <1>7
<1>9. \A c \in C, a \in C : m[a].next = c /\ c # Null => \A d \in C : m[d].next = c => d = a
  <2> SUFFICES ASSUME NEW c \in C, NEW a \in C, NEW d \in C, m[a].next = c, m[d].next = c PROVE d = a
    OBVIOUS
  <2>1. c # Null /\ c \in Nat /\ a \in Nat /\ d \in Nat
    BY <1>1 DEF Null
  <2>2. m[a].next > a /\ m[d].next > d
    BY <2>1, InOrder
  <2>3. a < d => m[a].next <= d
    BY InOrder
  <2>4. d < a => m[d].next <= a
    BY InOrder
  <2> QED BY <2>1, <2>2, <2>3, <2>4
<1>10. ASSUME NEW c \in C2
       PROVE  \/ m2[c].next = Null /\ \A d \in C2 : d <= c
              \/ m2[c].next \in C2 /\ m2[c].next > c /\ \A d \in C2 : d <= c \/ d >= m2[c].next
  <2>1. c \in C /\ c \in Nat
    BY <1>1, <1>7
  <2>2. \/ m[c].next = Null /\ \A d \in C : d <= c
        \/ m[c].next \in C /\ m[c].next > c /\ \A d \in C : d <= c \/ d >= m[c].next
    BY <2>1, <1>1 DEF IsList
  <2>3. CASE c \notin J
    <3>1. m2[c].next = m[c].next
      BY <2>1, <2>3, <1>6
    <3>2. CASE m[c].next = Null /\ \A d \in C : d <= c
      BY <3>1, <3>2, <1>7
    <3>3. CASE m[c].next \in C /\ m[c].next > c /\ \A d \in C : d <= c \/ d >= m[c].next
      <4>1. m[c].next \in C2
        <5>1. ASSUME NEW a \in J, m[a].next = m[c].next PROVE FALSE
          <6>1. a \in C /\ m[a].next \in C /\ m[a].next # Null
            BY <1>1, <1>2 DEF Null
          <6>2. a = c
            BY <5>1, <6>1, <1>9, <2>1
          <6> QED BY <6>2, <2>3
        <5> QED BY <5>1, <3>3, <1>7
      <4> QED BY <3>1, <3>3, <4>1, <1>7
    <3> QED BY <2>2, <3>2, <3>3
  <2>4. CASE c \in J
    <3> DEFINE b == m[c].next
    <3>1. b \in C /\ b > c /\ b \notin J /\ b \in Nat
      BY <2>4, <1>1, <1>2
    <3>2. m2[c].next = m[b].next
      BY <2>4, <1>5
    <3>3. b \notin C2
      BY <2>4, <3>1, <1>7
    <3>4. \A d \in C : d <= c \/ d >= b
      BY <2>1, <2>2, <3>1 DEF Null
    <3>5. \A d \in C2 : d <= c \/ d > b
      BY <3>1, <3>3, <3>4, <1>1, <1>7
    <3> HIDE DEF b
    <3>6. \/ m[b].next = Null /\ \A d \in C : d <= b
          \/ m[b].next \in C /\ m[b].next > b /\ \A d \in C : d <= b \/ d >= m[b].next
      BY <3>1, <1>1 DEF IsList
    <3>7. CASE m[b].next = Null /\ \A d \in C : d <= b
      <4>1. \A d \in C2 : d <= c
        <5> TAKE d \in C2
        <5>1. d \in Nat /\ d <= b /\ (d <= c \/ d > b)
          BY <3>5, <3>7, <1>1, <1>7
        <5> QED BY <5>1, <3>1
      <4> QED BY <4>1, <3>2, <3>7
    <3>8. CASE m[b].next \in C /\ m[b].next > b /\ \A d \in C : d <= b \/ d >= m[b].next
      <4>1. m[b].next \in C2
        <5>1. ASSUME NEW a \in J, m[a].next = m[b].next PROVE FALSE
          <6>1. a \in C /\ m[a].next \in C /\ m[a].next # Null
            BY <1>1, <1>2 DEF Null
          <6>2. a = b
            BY <5>1, <6>1, <1>9, <3>1
          <6> QED BY <6>2, <3>1
        <5> QED BY <5>1, <3>8, <1>7
      <4>2. m[b].next > c
        <5>1. m[b].next \in Nat
          BY <3>8, <1>1
        <5> QED BY <5>1, <3>1, <3>8, <2>1
      <4>3. \A d \in C2 : d <= c \/ d >= m[b].next
        BY <3>1, <3>5, <3>8, <1>1, <1>7
      <4> QED BY <4>1, <4>2, <4>3, <3>2
    <3> QED BY <3>6, <3>7, <3>8
  <2> QED BY <2>3, <2>4
<1>11. 0 \in C2
  <2>1. \A a \in J : m[a].next # 0
    BY <1>1, <1>2
  <2> QED BY <2>1, <1>1, <1>7
<1>12. IsList(m2, C2)
  BY <1>1, <1>7, <1>10, <1>11 DEF IsList
<1>13. \A c \in C : c \notin J => Ends(m2, c) = Ends(m, c) /\ m2[c].next = m[c].next
  BY <1>6 DEF Ends
<1>14. ASSUME NEW c \in C2
       PROVE  Ends(m2, c) <= Top /\ (m2[c].next # Null => Ends(m2, c) <= m2[c].next)
  <2>1. CASE c \notin J
    BY <2>1, <1>7, <1>13 DEF Sound, Laid
  <2>2. CASE c \in J
    <3> DEFINE b == m[c].next
    <3>1. c \in C /\ b \in C /\ b > c /\ b \in Nat /\ b # Null /\ c \in Nat
      BY <2>2, <1>1, <1>2 DEF Null
    <3>2. Ends(m, c) <= b /\ Ends(m, c) \in Nat /\ m[c].size \in Nat
      BY <3>1, InOrder
    <3>3. Ends(m, b) <= Top /\ (m[b].next # Null => Ends(m, b) <= m[b].next) /\ m[b].size \in Nat
          /\ Ends(m, b) \in Nat /\ m[b].next \in Int
      BY <3>1, InOrder
    <3>4. m2[c].next = m[b].next /\ m2[c].size = m[c].size + m[b].size + HeaderSize
      BY <2>2, <1>5
    <3> HIDE DEF b
    <3>5. Ends(m2, c) = Ends(m, c) + m[b].size + HeaderSize
      BY <3>1, <3>2, <3>3, <3>4, <1>4 DEF Ends
    <3>6. Ends(m, b) = b + HeaderSize + m[b].size
      BY DEF Ends
    <3>7. Ends(m2, c) <= Ends(m, b) /\ Ends(m2, c) \in Nat
      BY <3>1, <3>2, <3>3, <3>5, <3>6, <1>4
    <3> QED BY <3>3, <3>4, <3>7, <1>4
  <2> QED BY <2>1, <2>2
<1>15. Sound(m2, C2)
  BY <1>3, <1>12, <1>14 DEF Sound, Laid
<1>16. \A c \in C : ~m[c].free => c \in C2 /\ m2[c] = m[c] /\ LimitIn(m2, c) = LimitIn(m, c)
  <2> TAKE c \in C
  <2> HAVE ~m[c].free
  <2>1. c \notin J /\ \A a \in J : m[a].next # c
    BY <1>2
  <2> QED BY <2>1, <1>6, <1>7, <1>13 DEF LimitIn
<1>17. \A x \in Address : x \notin C => m2[x] = m[x]
  BY <1>2, <1>3
<1> QED
  BY <1>15, <1>16, <1>17 DEF C2, UsedStay, Elsewhere

LEMMA SweptKeeps ==
  ASSUME InterNumbers, NEW m, NEW C, Sound(m, C)
  PROVE  \E C2 : Sound(Swept(m), C2) /\ UsedStay(m, Swept(m), C, C2) /\ Elsewhere(m, Swept(m), C)
<1>1. m \in Memories /\ IsList(m, C)
  BY DEF Sound
<1>2. Pairs(m, C, Joining(m))
  BY <1>1, JoiningIs DEF Pairs
<1>3. Joined(m, Swept(m), Joining(m))
  BY <1>1, SweptIs DEF Joined
<1> QED
  BY <1>2, <1>3, JoinedKeep

(* One merge of Free's pass.                                               *)
LEMMA MergeKeeps ==
  ASSUME InterNumbers, NEW m, NEW C, Sound(m, C), NEW a \in C, m[a].next # Null,
         m[a].free, m[m[a].next].free,
         NEW m2, m2 = [m EXCEPT ![a].size = @ + m[m[a].next].size + HeaderSize,
                                ![a].next = m[m[a].next].next]
  PROVE  /\ Sound(m2, C \ {m[a].next}) /\ UsedStay(m, m2, C, C \ {m[a].next})
<1>1. m \in Memories /\ C \subseteq Address
  BY DEF Sound, IsList
<1>2. m[a].next \in C /\ m[a].next > a /\ a \in Nat
  BY InOrder
<1>3. Pairs(m, C, {a})
  BY <1>2 DEF Pairs
<1>4. Left(m, C, {a}) = C \ {m[a].next}
  BY DEF Left
<1>5. Joined(m, m2, {a})
  <2> DEFINE h == Together(m, a)
             k == [m[a] EXCEPT !.size = @ + m[m[a].next].size + HeaderSize, !.next = m[m[a].next].next]
  <2>1. h \in HeaderType /\ h = k
    BY <1>1, <1>2, TogetherIs
  <2>2. m2 = [m EXCEPT ![a] = k]
    BY <1>1 DEF Memories
  <2>3. m \in [Address -> HeaderType] /\ a \in Address
    BY <1>1 DEF Memories
  <2>4. m2 = [m EXCEPT ![a] = h]
    BY <2>1, <2>2
  <2>5. h = Together(m, a)
    OBVIOUS
  <2> HIDE DEF h
  <2>6. m2 \in [Address -> HeaderType] /\ \A x \in Address : m2[x] = IF x = a THEN h ELSE m[x]
    BY <2>1, <2>3, <2>4
  <2>7. \A x \in Address : m2[x] = IF x \in {a} THEN Together(m, x) ELSE m[x]
    BY <2>5, <2>6
  <2> QED BY <2>6, <2>7, SMTT(40) DEF Joined, Memories
<1> QED
  BY <1>3, <1>4, <1>5, JoinedKeep

-----------------------------------------------------------------------------
(* The blocks, when their segments and limits stay.                        *)
LEMMA StillKept ==
  ASSUME NEW m, NEW C, NEW B, KeptIn(m, C, B), NEW m2, NEW C2, NEW D \in SUBSET B,
         \A b \in D : /\ b.at - HeaderSize \in C2 /\ ~m2[b.at - HeaderSize].free
                      /\ LimitIn(m2, b.at - HeaderSize) = LimitIn(m, b.at - HeaderSize)
  PROVE  KeptIn(m2, C2, D)
<1>1. \A b \in D : b.at \in Nat /\ b.size \in Nat /\ b.at + b.size <= LimitIn(m, b.at - HeaderSize)
  BY DEF KeptIn
<1>2. \A b, c \in D : b.at = c.at => b = c
  BY DEF KeptIn
<1> QED
  BY <1>1, <1>2 DEF KeptIn

LEMMA OthersKept ==
  ASSUME NEW m, NEW C, NEW B, KeptIn(m, C, B), NEW a \in C, m[a].free,
         NEW m2, Stay(m, m2, C \ {a}), NEW C2, C \subseteq C2
  PROVE  KeptIn(m2, C2, B)
<1>1. \A b \in B : /\ b.at - HeaderSize \in C \ {a} /\ ~m[b.at - HeaderSize].free
  BY DEF KeptIn
<1>2. \A b \in B : /\ b.at - HeaderSize \in C2 /\ ~m2[b.at - HeaderSize].free
                   /\ LimitIn(m2, b.at - HeaderSize) = LimitIn(m, b.at - HeaderSize)
  BY <1>1 DEF Stay
<1> QED
  BY <1>2, StillKept

LEMMA UsedKept ==
  ASSUME NEW m, NEW C, NEW B, KeptIn(m, C, B), NEW m2, NEW C2, UsedStay(m, m2, C, C2)
  PROVE  KeptIn(m2, C2, B)
<1>1. \A b \in B : /\ b.at - HeaderSize \in C2 /\ ~m2[b.at - HeaderSize].free
                   /\ LimitIn(m2, b.at - HeaderSize) = LimitIn(m, b.at - HeaderSize)
  BY DEF KeptIn, UsedStay
<1> QED
  BY <1>1, StillKept

NewBlock(a, q) == [at |-> Behind(a), size |-> q]

LEMMA MarkKeeps ==
  ASSUME InterNumbers, NEW m, NEW C, NEW B, Sound(m, C), KeptIn(m, C, B), NEW a \in C, m[a].free,
         NEW q \in Nat, Behind(a) + q <= LimitIn(m, a),
         NEW m2, m2 = Marked(m, a, FALSE)
  PROVE  /\ Sound(m2, C) /\ KeptIn(m2, C, B \cup {NewBlock(a, q)})
         /\ Elsewhere(m, m2, {a}) /\ ~m2[a].free
<1> DEFINE new == NewBlock(a, q)
<1>1. m \in Memories /\ C \subseteq Address /\ a \in Address /\ a \in Nat
  <2>1. m \in Memories /\ C \subseteq Address
    BY DEF Sound, IsList
  <2> QED BY <2>1 DEF Address
<1>2. m[a].size \in Nat /\ m[a].next \in Address \cup {Null}
  BY <1>1, HeadersAre
<1>3. /\ m2 \in Memories
      /\ m2[a] = Heading(m[a].size, m[a].next, FALSE)
      /\ \A x \in Address : x # a => m2[x] = m[x]
  BY <1>1, MarkedIs
<1>4. m2[a].size = m[a].size /\ m2[a].next = m[a].next /\ m2[a].free = FALSE
  <2> DEFINE h == Heading(m[a].size, m[a].next, FALSE)
  <2>1. h.size = m[a].size /\ h.next = m[a].next /\ h.free = FALSE
    BY DEF Heading
  <2> QED BY <1>3, <2>1
<1>5. \A c \in C : m2[c].next = m[c].next /\ m2[c].size = m[c].size
  BY <1>1, <1>3, <1>4
<1>6. Sound(m2, C) /\ \A c \in C : LimitIn(m2, c) = LimitIn(m, c)
  BY <1>3, <1>5, SameShape
<1>7. \A b \in B : b.at - HeaderSize \in C /\ b.at - HeaderSize # a /\ ~m[b.at - HeaderSize].free /\ b.at \in Nat
  BY DEF KeptIn
<1>8. \A b \in B : ~m2[b.at - HeaderSize].free
  BY <1>1, <1>3, <1>7
<1>9. KeptIn(m2, C, B)
  BY <1>6, <1>7, <1>8, StillKept
<1>10. /\ new.at \in Nat /\ new.size \in Nat /\ new.at - HeaderSize = a
       /\ new.at + new.size = Behind(a) + q
  BY <1>1 DEF NewBlock, Behind, InterNumbers
<1> HIDE DEF new
<1>11. \A b \in B : b.at # new.at
  BY <1>7, <1>10
<1>12. new.at + new.size <= LimitIn(m2, new.at - HeaderSize)
  BY <1>6, <1>10
<1>13. KeptIn(m2, C, B \cup {new})
  <2>1. ASSUME NEW b \in B \cup {new}
        PROVE  /\ b.at \in Nat /\ b.size \in Nat
               /\ b.at - HeaderSize \in C /\ ~m2[b.at - HeaderSize].free
               /\ b.at + b.size <= LimitIn(m2, b.at - HeaderSize)
    <3>1. CASE b \in B
      BY <3>1, <1>9 DEF KeptIn
    <3>2. CASE b = new
      BY <3>2, <1>4, <1>10, <1>12
    <3> QED BY <3>1, <3>2
  <2>2. ASSUME NEW b \in B \cup {new}, NEW c \in B \cup {new}, b.at = c.at PROVE b = c
    <3>1. \A x, y \in B : x.at = y.at => x = y
      BY <1>9 DEF KeptIn
    <3> QED BY <2>2, <3>1, <1>11
  <2> QED BY <2>1, <2>2 DEF KeptIn
<1> QED
  BY <1>3, <1>4, <1>6, <1>13 DEF new, Elsewhere

LEMMA TookKeeps ==
  ASSUME InterNumbers, NEW m, NEW C, NEW B, Sound(m, C), KeptIn(m, C, B), NEW a \in C, m[a].free,
         NEW s \in Nat, HeaderSize <= s, m[a].size >= s, NEW q \in Nat, q <= s,
         NEW m4, m4 = Took(m, a, s)
  PROVE  \E C2 : /\ Sound(m4, C2) /\ KeptIn(m4, C2, B \cup {NewBlock(a, q)})
                 /\ C \subseteq C2 /\ ~m4[a].free /\ Elsewhere(m, m4, a .. Ends(m, a) - 1)
<1>1. /\ m \in Memories /\ C \subseteq Address /\ a \in Address /\ a \in Nat /\ m[a].size \in Nat
      /\ \A x \in Address : x \in Nat
  <2>1. m \in Memories /\ C \subseteq Address
    BY DEF Sound, IsList
  <2>2. \A x \in Address : x \in Nat
    BY DEF Address
  <2>3. m[a].size \in Nat
    BY InOrder
  <2> QED BY <2>1, <2>2, <2>3
<1>2. HeaderSize \in Nat /\ HeaderSize > 0
  BY DEF InterNumbers
<1>3. Ends(m, a) = a + HeaderSize + m[a].size /\ Behind(a) = a + HeaderSize /\ Ends(m, a) \in Nat
  BY <1>1, <1>2 DEF Ends, Behind
<1>4. a < Ends(m, a) /\ Behind(a) + q <= Ends(m, a) /\ Behind(a) + q <= Behind(a) + s
  BY <1>1, <1>2, <1>3
<1>5. CASE SplitsAt(m, a, s)
  <2> DEFINE n == Behind(a) + s
             m1 == Written(m, a, s)
             m2 == Shortened(m1, a, s)
             C2 == C \cup {n}
             m3 == Marked(m2, a, FALSE)
  <2>1. n \in Address /\ n \notin C /\ n > a /\ n < Ends(m, a)
    BY <1>5, SplitPlace
  <2>2. Sound(m1, C) /\ Stay(m, m1, C) /\ Elsewhere(m, m1, {n}) /\ RestThere(m, m1, n, a, s)
    <3> HIDE DEF m2, m3, C2
    <3>1. m1 = Written(m, a, s) /\ n = Behind(a) + s
      OBVIOUS
    <3> HIDE DEF m1, n
    <3> QED BY <1>5, <3>1, WrittenKeeps, Zenon
  <2> HIDE DEF m1, n
  <2>3. SplitsAt(m1, a, s) /\ RestOf(m1, a, s) = RestOf(m, a, s) /\ m1[a] = m[a]
    BY <1>5, <2>2 DEF SplitsAt, RestOf, Stay
  <2>4. RestThere(m1, m1, n, a, s)
    BY <2>2, <2>3 DEF RestThere
  <2>5. /\ Sound(m2, C \cup {n}) /\ Stay(m1, m2, C \ {a}) /\ Elsewhere(m1, m2, {a})
        /\ FirstHalf(m1, m2, n, a)
    <3>1. m2 = Shortened(m1, a, s) /\ n = Behind(a) + s
      BY DEF n
    <3> HIDE DEF m2, m3
    <3> QED BY <2>2, <2>3, <2>4, <3>1, ShortenedKeeps, Zenon
  <2> HIDE DEF m2, C2
  <2>6. Stay(m, m2, C \ {a})
    BY <2>2, <2>5 DEF Stay
  <2>8. KeptIn(m2, C2, B) /\ Sound(m2, C2)
    BY <2>5, <2>6, OthersKept DEF C2
  <2>9. a \in C2 /\ m2[a].free /\ Behind(a) + q <= LimitIn(m2, a)
    BY <1>4, <2>3, <2>5 DEF n, C2, FirstHalf
  <2>10. /\ Sound(m3, C2) /\ KeptIn(m3, C2, B \cup {NewBlock(a, q)})
         /\ Elsewhere(m2, m3, {a}) /\ ~m3[a].free
    BY <2>8, <2>9, MarkKeeps, Zenon
  <2>11. m4 = m3
    BY <1>5 DEF Took, m1, m2
  <2> HIDE DEF m3
  <2>12. \A x \in Address : x # a /\ x # n => m3[x] = m[x]
    BY <2>2, <2>5, <2>10 DEF Elsewhere
  <2>13. C \subseteq C2
    BY DEF C2
  <2>14. Elsewhere(m, m3, a .. Ends(m, a) - 1)
    <3>1. n \in Nat /\ n > a /\ n < Ends(m, a) /\ Ends(m, a) \in Nat /\ a \in Nat /\ a < Ends(m, a)
      BY <1>1, <1>3, <1>4, <2>1
    <3>2. a \in a .. Ends(m, a) - 1 /\ n \in a .. Ends(m, a) - 1
      BY <3>1
    <3> QED BY <2>12, <3>2 DEF Elsewhere
  <2> QED BY <2>10, <2>11, <2>13, <2>14
<1>6. CASE ~SplitsAt(m, a, s)
  <2> DEFINE m3 == Marked(m, a, FALSE)
  <2>1. m4 = m3
    BY <1>6 DEF Took
  <2>2. Behind(a) + q <= LimitIn(m, a)
    <3>1. Ends(m, a) <= LimitIn(m, a) /\ LimitIn(m, a) \in Int
      BY InOrder, <1>3 DEF LimitIn
    <3> QED BY <3>1, <1>1, <1>2, <1>3, <1>4
  <2>3. /\ Sound(m3, C) /\ KeptIn(m3, C, B \cup {NewBlock(a, q)})
        /\ Elsewhere(m, m3, {a}) /\ ~m3[a].free
    BY <2>2, MarkKeeps, Zenon
  <2> HIDE DEF m3
  <2>4. Elsewhere(m, m3, a .. Ends(m, a) - 1)
    BY <1>1, <1>3, <1>4, <2>3 DEF Elsewhere
  <2> QED BY <2>1, <2>3, <2>4
<1> QED
  BY <1>5, <1>6

(* A block that is freed: its segment is free, the others are as they were. *)
LEMMA FreedKept ==
  ASSUME InterNumbers, NEW m, NEW C, NEW B, Sound(m, C), KeptIn(m, C, B), NEW b \in B,
         NEW m2, m2 = Marked(m, b.at - HeaderSize, TRUE)
  PROVE  Sound(m2, C) /\ KeptIn(m2, C, B \ {b}) /\ Elsewhere(m, m2, C)
<1> DEFINE a == b.at - HeaderSize
<1>1. m \in Memories /\ C \subseteq Address /\ a \in C
  BY DEF Sound, IsList, KeptIn
<1>2. a \in Address
  BY <1>1
<1>3. m[a].size \in Nat /\ m[a].next \in Address \cup {Null}
  BY <1>1, <1>2, HeadersAre
<1>4. m2 = Marked(m, a, TRUE)
  OBVIOUS
<1> HIDE DEF a
<1>5. /\ m2 \in Memories
      /\ m2[a] = Heading(m[a].size, m[a].next, TRUE)
      /\ \A x \in Address : x # a => m2[x] = m[x]
  <2>1. /\ Marked(m, a, TRUE) \in Memories
        /\ Marked(m, a, TRUE)[a] = Heading(m[a].size, m[a].next, TRUE)
        /\ \A x \in Address : x # a => Marked(m, a, TRUE)[x] = m[x]
    BY <1>1, <1>2, MarkedIs
  <2> QED BY <2>1, <1>4
<1>6. m2[a].size = m[a].size /\ m2[a].next = m[a].next
  <2> DEFINE h == Heading(m[a].size, m[a].next, TRUE)
  <2>1. h.size = m[a].size /\ h.next = m[a].next
    BY DEF Heading
  <2> QED BY <1>5, <2>1
<1>7. \A c \in C : m2[c].next = m[c].next /\ m2[c].size = m[c].size
  BY <1>1, <1>5, <1>6
<1>8. Sound(m2, C) /\ \A c \in C : LimitIn(m2, c) = LimitIn(m, c)
  BY <1>5, <1>7, SameShape
<1>9. \A d \in B \ {b} : d.at - HeaderSize \in C /\ ~m[d.at - HeaderSize].free /\ d.at - HeaderSize # a
  <2> TAKE d \in B \ {b}
  <2>1. d.at \in Nat /\ b.at \in Nat /\ d.at # b.at
    BY DEF KeptIn
  <2>2. d.at - HeaderSize # b.at - HeaderSize
    BY <2>1 DEF InterNumbers
  <2> QED BY <2>2 DEF KeptIn, a
<1>10. \A d \in B \ {b} : ~m2[d.at - HeaderSize].free
  BY <1>1, <1>5, <1>9
<1>11. KeptIn(m2, C, B \ {b})
  BY <1>8, <1>9, <1>10, StillKept
<1>12. Elsewhere(m, m2, C)
  BY <1>1, <1>5 DEF Elsewhere
<1> QED
  BY <1>8, <1>11, <1>12

-----------------------------------------------------------------------------
(* What an interrupt's call leaves: a list, the blocks, and the bytes of the *)
(* free segments whose headers it did not change.                          *)
BodiesStay(m, m2, C) ==
    \A c \in C : m[c].free /\ m2[c] = m[c] =>
        \A x \in Address : Behind(c) <= x /\ x < Ends(m, c) => m2[x] = m[x]

BlockTypes(B) == \A b \in B : b \in [at : Nat, size : Sizes]

LEMMA NewBlockIs ==
  ASSUME InterNumbers, NEW a \in Address, NEW s \in Sizes
  PROVE  NewBlock(a, s) \in [at : Nat, size : Sizes]
<1>1. Behind(a) \in Nat
  BY DEF Behind, Address, InterNumbers
<1> QED
  BY <1>1 DEF NewBlock

LEMMA FirstFittingIs ==
  ASSUME NEW m, NEW C, Sound(m, C), Chain(m) = C, NEW s \in Nat, FirstFitting(m, s) # Null
  PROVE  /\ FirstFitting(m, s) \in C /\ m[FirstFitting(m, s)].free
         /\ m[FirstFitting(m, s)].size >= s
<1>1. Fitting(m, s) # {} /\ FirstFitting(m, s) = Min(Fitting(m, s))
  BY DEF FirstFitting
<1>2. Fitting(m, s) \in SUBSET Nat
  <2>1. C \subseteq Address
    BY DEF Sound, IsList
  <2>2. Fitting(m, s) \subseteq C
    BY DEF Fitting
  <2>3. \A x \in Address : x \in Nat
    BY DEF Address
  <2> QED BY <2>1, <2>2, <2>3
<1>3. Min(Fitting(m, s)) \in Fitting(m, s)
  BY <1>1, <1>2, MinIsLeast
<1> QED
  BY <1>1, <1>3 DEF Fitting

LEMMA InterruptTakesKeeps ==
  ASSUME InterNumbers, NEW m, NEW C, Sound(m, C), KeptIn(m, C, given), BlockTypes(given),
         NEW s \in Sizes, NEW size \in Nat, s <= size, HeaderSize <= size, InterruptTakes(m, s, size)
  PROVE  \E C2 : \E a \in C : /\ Sound(memory', C2) /\ KeptIn(memory', C2, given')
                               /\ BlockTypes(given') /\ m[a].free /\ ~memory'[a].free
                               /\ Elsewhere(m, memory', a .. Ends(m, a) - 1)
<1> DEFINE a == FirstFitting(m, size)
<1>1. a # Null /\ memory' = Took(m, a, size) /\ given' = given \cup {NewBlock(a, s)}
  BY DEF InterruptTakes, GiveOut, NewBlock
<1>2. Chain(m) = C
  BY ChainIs DEF Sound
<1>3. a \in C /\ m[a].free /\ m[a].size >= size
  BY <1>1, <1>2, FirstFittingIs
<1>6. s \in Nat /\ a \in Address
  BY <1>3 DEF InterNumbers, Sound, IsList
<1> HIDE DEF a
<1>7. BlockTypes(given')
  <2>1. NewBlock(a, s) \in [at : Nat, size : Sizes]
    BY <1>6, NewBlockIs
  <2> QED BY <1>1, <2>1 DEF BlockTypes
<1>4. PICK C2 : /\ Sound(memory', C2) /\ KeptIn(memory', C2, given \cup {NewBlock(a, s)})
                /\ C \subseteq C2 /\ ~memory'[a].free /\ Elsewhere(m, memory', a .. Ends(m, a) - 1)
  BY <1>1, <1>3, <1>6, TookKeeps, Zenon
<1>5. KeptIn(memory', C2, given')
  BY <1>1, <1>4
<1> QED
  BY <1>3, <1>4, <1>5, <1>7, Zenon

LEMMA TakenBodies ==
  ASSUME InterNumbers, NEW m, NEW C, Sound(m, C), NEW a \in C, NEW m2, m[a].free, ~m2[a].free,
         Elsewhere(m, m2, a .. Ends(m, a) - 1)
  PROVE  BodiesStay(m, m2, C)
<1> SUFFICES ASSUME NEW c \in C, m[c].free, m2[c] = m[c],
                    NEW x \in Address, Behind(c) <= x, x < Ends(m, c)
             PROVE  m2[x] = m[x]
  BY DEF BodiesStay
<1>1. c # a
  OBVIOUS
<1>2. /\ c \in Nat /\ a \in Nat /\ x \in Nat /\ Ends(m, c) \in Nat /\ Ends(m, a) \in Nat
      /\ Behind(c) > c /\ Behind(c) \in Int
  BY InOrder DEF Address, Behind, InterNumbers
<1>3. (c < a => Ends(m, c) <= a) /\ (a < c => Ends(m, a) <= c)
  BY InOrder
<1>4. x \notin a .. Ends(m, a) - 1
  BY <1>1, <1>2, <1>3
<1> QED
  BY <1>4 DEF Elsewhere

LEMMA InterruptReservesKeeps ==
  ASSUME InterNumbers, NEW C, Sound(memory, C), KeptIn(memory, C, given), BlockTypes(given),
         tail \in Address, NEW s \in Sizes, InterruptReserves(s, RoundUp(s))
  PROVE  \E C2 : /\ Sound(memory', C2) /\ KeptIn(memory', C2, given')
                 /\ BodiesStay(memory, memory', C) /\ tail' \in Address /\ BlockTypes(given')
<1> DEFINE r == RoundUp(s)
           q == RoundUp(r)
           z == InPages(r)
           n == Ends(memory, tail)
           m1 == Lengthened(memory, n, z)
           C1 == C \cup {n}
<1>1. r \in Nat /\ r > s /\ r >= Granule /\ r % Granule = 0
  <2>1. s \in Nat
    BY DEF InterNumbers
  <2> QED BY <2>1, RoundUpIs
<1> HIDE DEF r
<1>2. q \in Nat /\ q > r /\ z \in Nat /\ z >= q
  BY <1>1, RoundUpIs, InPagesHolds
<1>3. HeaderSize \in Nat /\ HeaderSize > 0 /\ HeaderSize <= Granule /\ Granule \in Nat /\ Top \in Nat
  BY DEF InterNumbers
<1>4. s <= q /\ HeaderSize <= q
  <2>1. s \in Nat
    BY DEF InterNumbers
  <2> QED BY <2>1, <1>1, <1>2, <1>3
<1> HIDE DEF q, z
<1>5. /\ TailIsLast /\ tail' = n /\ tail' + HeaderSize + z <= Top
      /\ InterruptTakes(Lengthened(memory, tail', z), s, q)
  BY DEF InterruptReserves, r, q, z
<1>6. tail \in C /\ memory[tail].next = Null
  <2>1. Chain(memory) = C
    BY ChainIs DEF Sound
  <2> QED BY <2>1, <1>5 DEF TailIsLast
<1>7. n + HeaderSize + z <= Top /\ InterruptTakes(m1, s, q)
  BY <1>5
<1>8. m1 = Lengthened(memory, n, z) /\ n = Ends(memory, tail)
  OBVIOUS
<1> HIDE DEF m1, n
<1>9. /\ Sound(m1, C \cup {n}) /\ n \in Address /\ n \notin C
      /\ Longer(m1, n) /\ Alike(memory, m1, C) /\ Elsewhere(memory, m1, {n, tail})
  BY <1>2, <1>6, <1>7, <1>8, LengthenedKeeps, Zenon
<1>10. Sound(m1, C1)
  BY <1>9
<1>11. KeptIn(m1, C1, given)
  <2>1. \A b \in given : /\ b.at - HeaderSize \in C1 /\ ~m1[b.at - HeaderSize].free
                         /\ LimitIn(m1, b.at - HeaderSize) = LimitIn(memory, b.at - HeaderSize)
    BY <1>9 DEF KeptIn, Alike
  <2> HIDE DEF C1
  <2> QED BY <2>1, StillKept
<1>20. n \in C1 /\ C \subseteq C1
  OBVIOUS
<1> HIDE DEF C1
<1>12. PICK C2 : \E a \in C1 : /\ Sound(memory', C2) /\ KeptIn(memory', C2, given')
                               /\ BlockTypes(given') /\ m1[a].free /\ ~memory'[a].free
                               /\ Elsewhere(m1, memory', a .. Ends(m1, a) - 1)
  BY <1>2, <1>4, <1>7, <1>10, <1>11, InterruptTakesKeeps, Zenon
<1>13. PICK a \in C1 : /\ Sound(memory', C2) /\ KeptIn(memory', C2, given')
                       /\ BlockTypes(given') /\ m1[a].free /\ ~memory'[a].free
                       /\ Elsewhere(m1, memory', a .. Ends(m1, a) - 1)
  BY <1>12
<1>14. BodiesStay(m1, memory', C1)
  BY <1>10, <1>13, TakenBodies, Zenon
<1>15. BodiesStay(memory, memory', C)
  <2> SUFFICES ASSUME NEW c \in C, memory[c].free, memory'[c] = memory[c],
                      NEW x \in Address, Behind(c) <= x, x < Ends(memory, c)
               PROVE  memory'[x] = memory[x]
    BY DEF BodiesStay
  <2>1. c # tail
    <3>1. ASSUME c = tail PROVE FALSE
      <4>1. a # tail
        BY <3>1, <1>13
      <4>2. tail \in Nat /\ a \in Nat /\ Ends(m1, a) \in Nat /\ (tail < a \/ a < tail \/ a = tail) /\ tail \in C1
        <5>1. tail \in C1
          BY <1>6, <1>20
        <5>2. tail \in Nat /\ a \in Nat /\ Ends(m1, a) \in Nat
          BY <5>1, <1>10, <1>13, InOrder
        <5> QED BY <5>1, <5>2
      <4>3. a < tail => Ends(m1, a) <= tail
        BY <4>2, <1>10, <1>13, InOrder
      <4>4. tail \notin a .. Ends(m1, a) - 1
        BY <4>1, <4>2, <4>3
      <4>5. memory'[tail] = m1[tail]
        BY <4>4, <1>13 DEF Elsewhere
      <4>6. memory'[tail].next = Null
        BY <3>1, <1>6
      <4>7. n # Null
        BY <1>9 DEF Address, Null
      <4> QED BY <4>5, <4>6, <4>7, <1>9 DEF Longer
    <3> QED BY <3>1
  <2>2. c # n /\ c \in Address /\ c \in C1
    BY <1>9, <1>20 DEF Sound, IsList
  <2>3. m1[c] = memory[c]
    BY <2>1, <2>2, <1>9 DEF Elsewhere
  <2>4. Ends(m1, c) = Ends(memory, c)
    BY <2>3 DEF Ends
  <2>5. memory'[x] = m1[x]
    BY <2>2, <2>3, <2>4, <1>14 DEF BodiesStay
  <2>6. x # n /\ x # tail
    <3>1. c \in Nat /\ tail \in Nat /\ n \in Nat /\ Ends(memory, c) \in Nat /\ x \in Nat /\ Behind(c) > c
          /\ Behind(c) \in Int /\ Behind(tail) \in Int /\ Behind(tail) > tail /\ n >= Behind(tail)
      BY <1>6, <1>8, InOrder DEF Address, Behind, InterNumbers
    <3>2. c < tail => Ends(memory, c) <= tail
      BY <1>6, InOrder
    <3>3. ~ (tail < c)
      BY <1>6, InOrder
    <3> QED BY <2>1, <3>1, <3>2, <3>3
  <2> QED BY <2>5, <2>6, <1>9 DEF Elsewhere
<1>16. tail' \in Address
  BY <1>5, <1>9 DEF n
<1> QED
  BY <1>13, <1>15, <1>16

LEMMA InterruptFreesKeeps ==
  ASSUME InterNumbers, NEW C, Sound(memory, C), KeptIn(memory, C, given), BlockTypes(given), NEW b \in given,
         InterruptFrees(b)
  PROVE  \E C2 : /\ Sound(memory', C2) /\ KeptIn(memory', C2, given')
                 /\ BodiesStay(memory, memory', C) /\ BlockTypes(given')
<1> DEFINE m1 == Marked(memory, b.at - HeaderSize, TRUE)
<1>1. m1 = Marked(memory, b.at - HeaderSize, TRUE)
  OBVIOUS
<1>2. memory' = Swept(m1) /\ given' = given \ {b}
  BY DEF InterruptFrees
<1> HIDE DEF m1
<1>3. Sound(m1, C) /\ KeptIn(m1, C, given \ {b}) /\ Elsewhere(memory, m1, C)
  BY <1>1, FreedKept, Zenon
<1>4. PICK C2 : Sound(Swept(m1), C2) /\ UsedStay(m1, Swept(m1), C, C2) /\ Elsewhere(m1, Swept(m1), C)
  BY <1>3, SweptKeeps, Zenon
<1>5. KeptIn(Swept(m1), C2, given \ {b})
  BY <1>3, <1>4, UsedKept, Zenon
<1>6. \A x \in Address : x \notin C => memory'[x] = memory[x]
  BY <1>2, <1>3, <1>4 DEF Elsewhere
<1>7. BodiesStay(memory, memory', C)
  <2> SUFFICES ASSUME NEW c \in C, NEW x \in Address, Behind(c) <= x, x < Ends(memory, c)
               PROVE  x \notin C
    BY <1>6 DEF BodiesStay
  <2>1. ASSUME x \in C PROVE FALSE
    <3>1. c \in Nat /\ x \in Nat /\ Behind(c) > c /\ Behind(c) \in Int /\ Ends(memory, c) \in Nat
      BY <2>1, InOrder DEF Behind, InterNumbers
    <3>2. c < x => Ends(memory, c) <= x
      BY <2>1, InOrder
    <3> QED BY <3>1, <3>2
  <2> QED BY <2>1
<1>8. BlockTypes(given')
  BY <1>2 DEF BlockTypes
<1> QED
  BY <1>2, <1>4, <1>5, <1>7, <1>8

(* An interrupt's call.                                                    *)
LEMMA InterruptKeeps ==
  ASSUME InterNumbers, NEW C, Sound(memory, C), KeptIn(memory, C, given), BlockTypes(given),
         tail \in Address, Interrupt
  PROVE  \E C2 : /\ Sound(memory', C2) /\ KeptIn(memory', C2, given')
                 /\ BodiesStay(memory, memory', C) /\ tail' \in Address /\ BlockTypes(given')
<1>1. ASSUME NEW s \in Sizes, InterruptTakes(memory, s, RoundUp(s)), UNCHANGED tail
      PROVE  \E C2 : /\ Sound(memory', C2) /\ KeptIn(memory', C2, given')
                     /\ BodiesStay(memory, memory', C) /\ tail' \in Address /\ BlockTypes(given')
  <2> DEFINE r == RoundUp(s)
  <2>1. s \in Nat
    BY DEF InterNumbers
  <2>2. r \in Nat /\ r > s /\ r >= Granule
    BY <2>1, RoundUpIs
  <2>3. s <= r /\ HeaderSize <= r
    BY <2>1, <2>2 DEF InterNumbers
  <2>4. InterruptTakes(memory, s, r)
    BY <1>1
  <2> HIDE DEF r
  <2>5. PICK C2 : \E a \in C : /\ Sound(memory', C2) /\ KeptIn(memory', C2, given')
                               /\ BlockTypes(given') /\ memory[a].free /\ ~memory'[a].free
                               /\ Elsewhere(memory, memory', a .. Ends(memory, a) - 1)
    BY <2>1, <2>2, <2>3, <2>4, InterruptTakesKeeps, Zenon
  <2>6. PICK a \in C : /\ Sound(memory', C2) /\ KeptIn(memory', C2, given')
                       /\ BlockTypes(given') /\ memory[a].free /\ ~memory'[a].free
                       /\ Elsewhere(memory, memory', a .. Ends(memory, a) - 1)
    BY <2>5
  <2>7. BodiesStay(memory, memory', C)
    BY <2>6, TakenBodies, Zenon
  <2> QED BY <1>1, <2>6, <2>7
<1>2. ASSUME NEW s \in Sizes, InterruptReserves(s, RoundUp(s))
      PROVE  \E C2 : /\ Sound(memory', C2) /\ KeptIn(memory', C2, given')
                     /\ BodiesStay(memory, memory', C) /\ tail' \in Address /\ BlockTypes(given')
  BY <1>2, InterruptReservesKeeps, Zenon
<1>3. ASSUME NEW b \in given, InterruptFrees(b)
      PROVE  \E C2 : /\ Sound(memory', C2) /\ KeptIn(memory', C2, given')
                     /\ BodiesStay(memory, memory', C) /\ tail' \in Address /\ BlockTypes(given')
  <2>1. tail' = tail
    BY <1>3 DEF InterruptFrees
  <2> QED BY <1>3, <2>1, InterruptFreesKeeps
<1>4. \/ \E s \in Sizes : InterruptTakes(memory, s, RoundUp(s)) /\ UNCHANGED tail
      \/ \E s \in Sizes : InterruptReserves(s, RoundUp(s))
      \/ \E b \in given : InterruptFrees(b)
  BY DEF Interrupt, InterruptAllocates
<1> QED
  BY <1>1, <1>2, <1>3, <1>4

-----------------------------------------------------------------------------
(* The inductive invariant: the list and the blocks, whatever happened, and *)
(* what the main code's call has found out, as long as nothing disturbed it. *)
HeadersGood ==
    /\ Sound(memory, Chain(memory)) /\ KeptIn(memory, Chain(memory), given)
    /\ tail \in Address
    /\ BlockTypes(given)

CallTypes ==
    /\ doing \in {"idle", "test", "fits", "next", "split", "link", "mark", "reserve", "append",
                  "sweep", "merge"}
    /\ wanted \in Sizes \cup {0} /\ rounded \in Nat
    /\ current \in Address /\ added \in Address
    /\ steps \in 0 .. MaxSteps /\ disturbed \in BOOLEAN

RestIsWritten(m) == RestThere(m, m, Behind(current) + rounded, current, rounded)

CallHolds ==
    /\ doing \notin {"idle", "sweep", "merge"} => wanted \in Sizes /\ wanted < rounded /\ Granule <= rounded
    /\ doing \notin {"idle", "reserve", "append"} => current \in Chain(memory)
    /\ doing \in {"fits", "split", "link", "mark", "merge"} => memory[current].free
    /\ doing = "split" => memory[current].size > rounded
    /\ doing = "link" => SplitsAt(memory, current, rounded) /\ RestIsWritten(memory)
    /\ doing = "mark" => Behind(current) + wanted <= LimitIn(memory, current)
    /\ doing = "append" => /\ TailIsLast /\ added = Ends(memory, tail)
                           /\ added + HeaderSize + InPages(rounded) <= Top
    /\ doing = "merge" => memory[current].next # Null /\ memory[memory[current].next].free

InterInv == HeadersGood /\ CallTypes /\ (~disturbed => CallHolds)

LEMMA HeadersGoodAgain ==
  ASSUME InterNumbers, NEW C, Sound(memory', C), KeptIn(memory', C, given'), tail' \in Address,
         BlockTypes(given')
  PROVE  HeadersGood' /\ Chain(memory') = C
<1>1. Chain(memory') = C
  BY ChainIs DEF Sound
<1> QED
  BY <1>1 DEF HeadersGood

LEMMA HeadersGoodStay ==
  ASSUME InterNumbers, HeadersGood, UNCHANGED headers
  PROVE  HeadersGood' /\ Chain(memory') = Chain(memory)
<1>1. memory' = memory /\ tail' = tail /\ given' = given
  BY DEF headers
<1> QED
  BY <1>1 DEF HeadersGood

LEMMA InPagesIs ==
  ASSUME InterNumbers, NEW r \in Nat
  PROVE  InPages(r) \in Nat
<1>1. PageUnit \in Nat /\ PageUnit > 0
  BY DEF InterNumbers
<1>2. r % PageUnit \in 0 .. PageUnit - 1
  BY <1>1, Divided
<1> QED
  BY <1>1, <1>2 DEF InPages

LEMMA InterStarts == InterNumbers /\ InterInit => InterInv
<1> SUFFICES ASSUME InterNumbers, InterInit PROVE InterInv
  OBVIOUS
<1>1. PICK start \in StartSizes :
         memory = [a \in Address |-> IF a = 0 THEN Heading(start, Null, TRUE) ELSE Heading(0, Null, FALSE)]
  BY DEF InterInit
<1>2. start \in Nat /\ HeaderSize + start <= Top /\ HeaderSize \in Nat /\ HeaderSize > 0 /\ Top \in Nat
  BY DEF InterNumbers
<1>3. 0 \in Address /\ Null \in Address \cup {Null}
  BY <1>2 DEF Address
<1>4. Heading(start, Null, TRUE) \in HeaderType /\ Heading(0, Null, FALSE) \in HeaderType
  BY <1>2, <1>3, HeadingIs
<1>5. memory \in [Address -> HeaderType]
  BY <1>1, <1>4
<1>6. memory[0] = Heading(start, Null, TRUE)
  BY <1>1, <1>3
<1>7. memory[0].next = Null /\ memory[0].size = start
  BY <1>6 DEF Heading
<1>8. IsList(memory, {0})
  BY <1>3, <1>7 DEF IsList
<1>9. Laid(memory, {0})
  BY <1>2, <1>7 DEF Laid, Ends
<1>10. Sound(memory, {0})
  BY <1>5, <1>8, <1>9 DEF Sound, Memories
<1>11. Chain(memory) = {0}
  BY <1>10, ChainIs DEF Sound
<1>12. given = {} /\ tail = 0
  BY DEF InterInit
<1>13. KeptIn(memory, {0}, given)
  BY <1>12 DEF KeptIn
<1>14. HeadersGood
  BY <1>3, <1>10, <1>11, <1>12, <1>13 DEF HeadersGood, BlockTypes
<1>15. CallTypes
  <2>1. /\ doing = "idle" /\ wanted = 0 /\ rounded = 0 /\ current = 0 /\ added = 0 /\ steps = 0
        /\ disturbed = FALSE
    BY DEF InterInit
  <2>2. 0 \in 0 .. MaxSteps
    BY DEF InterNumbers
  <2> QED BY <1>3, <2>1, <2>2 DEF CallTypes
<1>16. CallHolds
  BY DEF InterInit, CallHolds
<1> QED
  BY <1>14, <1>15, <1>16 DEF InterInv

-----------------------------------------------------------------------------
(* The main code's steps that write no header.                             *)
LEMMA MainAllocateKeeps == InterNumbers /\ InterInv /\ ~disturbed /\ MainAllocate => InterInv'
<1> SUFFICES ASSUME InterNumbers, InterInv, ~disturbed, MainAllocate PROVE InterInv'
  OBVIOUS
<1>1. HeadersGood' /\ Chain(memory') = Chain(memory) /\ 0 \in Chain(memory)
  <2>1. HeadersGood' /\ Chain(memory') = Chain(memory)
    BY HeadersGoodStay DEF InterInv, MainAllocate
  <2> QED BY <2>1 DEF InterInv, HeadersGood, Sound, IsList
<1>2. doing' = "test" /\ wanted' \in Sizes /\ rounded' = RoundUp(wanted') /\ current' = 0
  BY DEF MainAllocate, Goto
<1>3. wanted' \in Nat
  BY <1>2 DEF InterNumbers
<1>4. rounded' \in Nat /\ rounded' > wanted' /\ rounded' >= Granule
  BY <1>2, <1>3, RoundUpIs
<1>5. 0 \in Address
  BY <1>1 DEF InterInv, HeadersGood, Sound, IsList
<1>6. steps' \in 0 .. MaxSteps /\ added' \in Address /\ disturbed' \in BOOLEAN
  BY DEF InterInv, CallTypes, MainAllocate, InterNumbers
<1>7. CallTypes'
  BY <1>2, <1>4, <1>5, <1>6 DEF CallTypes
<1>8. CallHolds'
  BY <1>1, <1>2, <1>3, <1>4 DEF CallHolds, InterNumbers
<1> QED
  BY <1>1, <1>7, <1>8 DEF InterInv

LEMMA LookKeeps ==
  InterNumbers /\ InterInv /\ ~disturbed /\ (Test \/ CheckFits \/ Step \/ MainSweep) => InterInv'
<1> SUFFICES ASSUME InterNumbers, InterInv, ~disturbed, Test \/ CheckFits \/ Step \/ MainSweep PROVE InterInv'
  OBVIOUS
<1>1. /\ UNCHANGED headers /\ UNCHANGED <<wanted, rounded, added, steps, disturbed>>
  BY DEF Test, CheckFits, Step, MainSweep
<1>2. HeadersGood' /\ Chain(memory') = Chain(memory) /\ memory' = memory
  <2>1. HeadersGood' /\ Chain(memory') = Chain(memory)
    BY <1>1, HeadersGoodStay DEF InterInv
  <2> QED BY <1>1, <2>1 DEF headers
<1>3. CallTypes /\ CallHolds /\ Sound(memory, Chain(memory))
  BY DEF InterInv, HeadersGood
<1>4. \A c \in Chain(memory) : /\ c \in Nat /\ c \in Address /\ memory[c].size \in Nat
                               /\ Ends(memory, c) \in Nat /\ memory[c].next \in Int
                               /\ memory[c].next # Null => memory[c].next \in Chain(memory) /\ Ends(memory, c) <= memory[c].next
  BY <1>3, InOrder
<1>5. CASE Test
  <2>1. doing = "test" /\ doing' \in {"fits", "next"} /\ (doing' = "fits" => memory[current].free) /\ current' = current
    BY <1>5 DEF Test
  <2>2. CallTypes'
    BY <1>1, <1>3, <2>1 DEF CallTypes
  <2>3. CallHolds'
    BY <1>1, <1>2, <1>3, <2>1 DEF CallHolds
  <2> QED BY <1>2, <2>2, <2>3 DEF InterInv
<1>6. CASE CheckFits
  <2>1. /\ doing = "fits" /\ doing' \in {"mark", "split", "next"} /\ current' = current
        /\ doing' = "split" => memory[current].size > rounded
        /\ doing' = "mark" => memory[current].size = rounded
    BY <1>6 DEF CheckFits
  <2>2. CallTypes'
    BY <1>1, <1>3, <2>1 DEF CallTypes
  <2>3. current \in Chain(memory) /\ memory[current].free /\ wanted \in Sizes /\ wanted < rounded /\ Granule <= rounded
    BY <1>3, <2>1 DEF CallHolds
  <2>4. doing' = "mark" => Behind(current) + wanted <= LimitIn(memory, current)
    <3> HAVE doing' = "mark"
    <3>1. Ends(memory, current) = Behind(current) + rounded
      BY <2>1 DEF Ends, Behind
    <3>2. LimitIn(memory, current) >= Ends(memory, current)
      BY <1>4, <2>3 DEF LimitIn
    <3>3. wanted \in Nat /\ rounded \in Nat /\ Behind(current) \in Nat /\ LimitIn(memory, current) \in Int
      BY <1>3, <1>4, <2>3 DEF CallTypes, InterNumbers, Behind, LimitIn
    <3> QED BY <2>3, <3>1, <3>2, <3>3
  <2>5. CallHolds'
    BY <1>1, <1>2, <2>1, <2>3, <2>4 DEF CallHolds
  <2> QED BY <1>2, <2>2, <2>5 DEF InterInv
<1>7. CASE Step
  <2>1. doing = "next" /\ \/ doing' = "reserve" /\ current' = current
                          \/ doing' = "test" /\ current' = memory[current].next /\ memory[current].next # Null
    BY <1>7 DEF Step
  <2>2. current \in Chain(memory) /\ wanted \in Sizes /\ wanted < rounded /\ Granule <= rounded
    BY <1>3, <2>1 DEF CallHolds
  <2>3. doing' = "test" => current' \in Chain(memory)
    BY <1>4, <2>1, <2>2
  <2>4. current' \in Address
    BY <1>3, <1>4, <2>1, <2>3 DEF CallTypes
  <2>5. CallTypes'
    BY <1>1, <1>3, <2>1, <2>4 DEF CallTypes
  <2>6. CallHolds'
    BY <1>1, <1>2, <2>1, <2>2, <2>3 DEF CallHolds
  <2> QED BY <1>2, <2>5, <2>6 DEF InterInv
<1>8. CASE MainSweep
  <2>1. /\ doing = "sweep"
        /\ \/ doing' = "idle" /\ current' = current
           \/ /\ doing' = "merge" /\ current' = current
              /\ memory[current].next # Null /\ memory[current].free /\ memory[memory[current].next].free
           \/ doing' = "sweep" /\ current' = memory[current].next /\ memory[current].next # Null
    BY <1>8 DEF MainSweep
  <2>2. current \in Chain(memory)
    BY <1>3, <2>1 DEF CallHolds
  <2>3. current' \in Chain(memory) /\ current' \in Address
    BY <1>4, <2>1, <2>2
  <2>5. CallTypes'
    BY <1>1, <1>3, <2>1, <2>3 DEF CallTypes
  <2>6. CallHolds'
    BY <1>1, <1>2, <2>1, <2>3 DEF CallHolds
  <2> QED BY <1>2, <2>5, <2>6 DEF InterInv
<1> QED
  BY <1>5, <1>6, <1>7, <1>8

LEMMA ReserveReadKeeps == InterNumbers /\ InterInv /\ ~disturbed /\ ReserveRead => InterInv'
<1> SUFFICES ASSUME InterNumbers, InterInv, ~disturbed, ReserveRead PROVE InterInv'
  OBVIOUS
<1>1. UNCHANGED headers /\ UNCHANGED <<wanted, rounded, current, steps, disturbed>>
  BY DEF ReserveRead
<1>2. HeadersGood' /\ Chain(memory') = Chain(memory) /\ memory' = memory /\ tail' = tail
  <2>1. HeadersGood' /\ Chain(memory') = Chain(memory)
    BY <1>1, HeadersGoodStay DEF InterInv
  <2> QED BY <1>1, <2>1 DEF headers
<1>3. CallTypes /\ CallHolds /\ Sound(memory, Chain(memory))
  BY DEF InterInv, HeadersGood
<1>4. /\ doing = "reserve" /\ doing' = "append" /\ TailIsLast /\ added' = Ends(memory, tail)
      /\ added' + HeaderSize + InPages(rounded) <= Top
  BY DEF ReserveRead, Goto
<1>5. Ends(memory, tail) \in Nat /\ Ends(memory, tail) <= Top
  BY <1>3, <1>4, InOrder DEF TailIsLast
<1>6. added' \in Address
  BY <1>4, <1>5 DEF Address, InterNumbers
<1>7. CallTypes'
  BY <1>1, <1>3, <1>4, <1>6 DEF CallTypes
<1>8. TailIsLast'
  BY <1>2, <1>4 DEF TailIsLast
<1>9. CallHolds'
  BY <1>1, <1>2, <1>3, <1>4, <1>8 DEF CallHolds
<1> QED
  BY <1>2, <1>7, <1>9 DEF InterInv

-----------------------------------------------------------------------------
(* The main code's steps that write headers.                               *)
LEMMA SplitWriteKeeps == InterNumbers /\ InterInv /\ ~disturbed /\ SplitWrite => InterInv'
<1> SUFFICES ASSUME InterNumbers, InterInv, ~disturbed, SplitWrite PROVE InterInv'
  OBVIOUS
<1> DEFINE C == Chain(memory)
           n == Behind(current) + rounded
<1>1. CallTypes /\ CallHolds /\ HeadersGood /\ Sound(memory, C) /\ KeptIn(memory, C, given)
  BY DEF InterInv, HeadersGood
<1>2. /\ doing = "split" /\ Unwrapped(memory, current, rounded)
      /\ UNCHANGED <<tail, given, wanted, rounded, current, added, steps, disturbed>>
  BY DEF SplitWrite
<1>3. /\ current \in C /\ memory[current].free /\ memory[current].size > rounded
      /\ wanted \in Sizes /\ wanted < rounded /\ Granule <= rounded /\ rounded \in Nat
  BY <1>1, <1>2 DEF CallHolds, CallTypes
<1>4. CASE SplitsAt(memory, current, rounded)
  <2>1. memory' = Written(memory, current, rounded) /\ doing' = "link"
    BY <1>4 DEF SplitWrite
  <2>2. n = Behind(current) + rounded
    OBVIOUS
  <2> HIDE DEF C, n
  <2>3. /\ Sound(memory', C) /\ Stay(memory, memory', C)
        /\ RestThere(memory, memory', n, current, rounded)
    BY <1>1, <1>3, <1>4, <2>1, <2>2, WrittenKeeps, Zenon
  <2>4. KeptIn(memory', C, given)
    <3>1. Stay(memory, memory', C \ {current})
      BY <2>3 DEF Stay
    <3> QED BY <1>1, <1>3, <3>1, OthersKept
  <2>5. HeadersGood' /\ Chain(memory') = C
    <3>1. given' = given /\ tail' \in Address /\ BlockTypes(given')
      BY <1>1, <1>2 DEF HeadersGood
    <3> QED BY <2>3, <2>4, <3>1, HeadersGoodAgain
  <2>6. memory'[current] = memory[current]
    BY <1>3, <2>3 DEF Stay
  <2>7. SplitsAt(memory', current, rounded) /\ RestIsWritten(memory')
    BY <1>4, <2>2, <2>3, <2>6 DEF SplitsAt, RestOf, RestIsWritten, RestThere
  <2>8. CallTypes'
    BY <1>1, <1>2, <2>1 DEF CallTypes
  <2>9. CallHolds'
    <3>1. RestIsWritten(memory)'
      BY <2>7, <1>2 DEF RestIsWritten
    <3>2. SplitsAt(memory, current, rounded)'
      BY <2>7, <1>2
    <3> QED BY <1>2, <1>3, <2>1, <2>5, <2>6, <3>1, <3>2 DEF CallHolds
  <2> QED BY <2>5, <2>8, <2>9 DEF InterInv
<1>5. CASE ~SplitsAt(memory, current, rounded)
  <2>1. memory' = memory /\ doing' = "mark"
    BY <1>5 DEF SplitWrite
  <2>2. HeadersGood' /\ Chain(memory') = C
    BY <1>1, <1>2, <2>1, HeadersGoodStay DEF headers
  <2>3. Behind(current) + wanted <= LimitIn(memory, current)
    <3>1. /\ current \in Nat /\ memory[current].size \in Nat /\ Ends(memory, current) \in Nat
          /\ memory[current].next \in Int
          /\ memory[current].next # Null => Ends(memory, current) <= memory[current].next
      BY <1>1, <1>3, InOrder
    <3>2. Ends(memory, current) = Behind(current) + memory[current].size
      BY DEF Ends, Behind
    <3>3. LimitIn(memory, current) >= Ends(memory, current) /\ LimitIn(memory, current) \in Int
      BY <3>1 DEF LimitIn
    <3>4. wanted \in Nat /\ Behind(current) \in Nat
      BY <1>3, <3>1 DEF InterNumbers, Behind
    <3> QED BY <1>3, <3>1, <3>2, <3>3, <3>4
  <2>4. CallTypes'
    BY <1>1, <1>2, <2>1 DEF CallTypes
  <2>5. CallHolds'
    BY <1>2, <1>3, <2>1, <2>2, <2>3 DEF CallHolds
  <2> QED BY <2>2, <2>4, <2>5 DEF InterInv
<1> QED
  BY <1>4, <1>5

LEMMA SplitLinkKeeps == InterNumbers /\ InterInv /\ ~disturbed /\ SplitLink => InterInv'
<1> SUFFICES ASSUME InterNumbers, InterInv, ~disturbed, SplitLink PROVE InterInv'
  OBVIOUS
<1> DEFINE C == Chain(memory)
           n == Behind(current) + rounded
<1>1. CallTypes /\ CallHolds /\ HeadersGood /\ Sound(memory, C) /\ KeptIn(memory, C, given)
  BY DEF InterInv, HeadersGood
<1>2. /\ doing = "link" /\ doing' = "mark" /\ memory' = Shortened(memory, current, rounded)
      /\ UNCHANGED <<tail, given, wanted, rounded, current, added, steps, disturbed>>
  BY DEF SplitLink, Goto
<1>3. /\ current \in C /\ memory[current].free /\ SplitsAt(memory, current, rounded)
      /\ wanted \in Sizes /\ wanted < rounded /\ Granule <= rounded /\ rounded \in Nat
      /\ RestIsWritten(memory)
  BY <1>1, <1>2 DEF CallHolds, CallTypes
<1>4. RestThere(memory, memory, n, current, rounded) /\ n = Behind(current) + rounded
  BY <1>3 DEF RestIsWritten
<1>5. HeaderSize <= rounded /\ wanted \in Nat
  BY <1>3 DEF InterNumbers
<1> HIDE DEF C, n
<1>6. /\ Sound(memory', C \cup {n}) /\ Stay(memory, memory', C \ {current})
      /\ FirstHalf(memory, memory', n, current)
  BY <1>1, <1>2, <1>3, <1>4, <1>5, ShortenedKeeps, Zenon
<1>7. KeptIn(memory', C \cup {n}, given)
  BY <1>1, <1>3, <1>6, OthersKept
<1>8. HeadersGood' /\ Chain(memory') = C \cup {n}
  <2>1. given' = given /\ tail' \in Address /\ BlockTypes(given')
    BY <1>1, <1>2 DEF HeadersGood
  <2> QED BY <1>6, <1>7, <2>1, HeadersGoodAgain
<1>9. CallTypes'
  BY <1>1, <1>2 DEF CallTypes
<1>10. Behind(current) + wanted <= LimitIn(memory', current)
  <2>1. current \in Nat
    BY <1>1, <1>3, InOrder
  <2>2. Behind(current) \in Nat
    BY <2>1 DEF Behind, InterNumbers
  <2> QED BY <1>3, <1>4, <1>5, <1>6, <2>2 DEF FirstHalf
<1>11. memory'[current].free /\ current \in Chain(memory')
  BY <1>3, <1>6, <1>8 DEF FirstHalf
<1>12. CallHolds'
  BY <1>2, <1>3, <1>10, <1>11 DEF CallHolds
<1> QED
  BY <1>8, <1>9, <1>12 DEF InterInv

LEMMA MarkStepKeeps == InterNumbers /\ InterInv /\ ~disturbed /\ Mark => InterInv'
<1> SUFFICES ASSUME InterNumbers, InterInv, ~disturbed, Mark PROVE InterInv'
  OBVIOUS
<1> DEFINE C == Chain(memory)
<1>1. CallTypes /\ CallHolds /\ HeadersGood /\ Sound(memory, C) /\ KeptIn(memory, C, given)
  BY DEF InterInv, HeadersGood
<1>2. /\ doing = "mark" /\ doing' = "idle" /\ memory' = Marked(memory, current, FALSE)
      /\ given' = given \cup {NewBlock(current, wanted)}
      /\ UNCHANGED <<tail, wanted, rounded, current, added, steps, disturbed>>
  BY DEF Mark, Goto, GiveOut, NewBlock
<1>3. /\ current \in C /\ memory[current].free /\ wanted \in Sizes
      /\ Behind(current) + wanted <= LimitIn(memory, current)
  BY <1>1, <1>2 DEF CallHolds
<1>4. wanted \in Nat /\ current \in Address
  BY <1>1, <1>3 DEF InterNumbers, CallTypes
<1> HIDE DEF C
<1>5. Sound(memory', C) /\ KeptIn(memory', C, given \cup {NewBlock(current, wanted)})
  BY <1>1, <1>2, <1>3, <1>4, MarkKeeps, Zenon
<1>6. HeadersGood'
  <2>1. NewBlock(current, wanted) \in [at : Nat, size : Sizes]
    BY <1>3, <1>4, NewBlockIs
  <2>2. BlockTypes(given')
    BY <1>1, <1>2, <2>1 DEF HeadersGood, BlockTypes
  <2>3. tail' \in Address
    BY <1>1, <1>2 DEF HeadersGood
  <2>4. KeptIn(memory', C, given')
    BY <1>2, <1>5
  <2> QED BY <1>5, <2>2, <2>3, <2>4, HeadersGoodAgain
<1>7. CallTypes'
  BY <1>1, <1>2 DEF CallTypes
<1>8. CallHolds'
  BY <1>2 DEF CallHolds
<1> QED
  BY <1>6, <1>7, <1>8 DEF InterInv

LEMMA ReserveAppendKeeps == InterNumbers /\ InterInv /\ ~disturbed /\ ReserveAppend => InterInv'
<1> SUFFICES ASSUME InterNumbers, InterInv, ~disturbed, ReserveAppend PROVE InterInv'
  OBVIOUS
<1> DEFINE C == Chain(memory)
           z == InPages(rounded)
<1>1. CallTypes /\ CallHolds /\ HeadersGood /\ Sound(memory, C) /\ KeptIn(memory, C, given)
  BY DEF InterInv, HeadersGood
<1>2. /\ doing = "append" /\ doing' = "test" /\ memory' = Lengthened(memory, added, z)
      /\ tail' = added /\ rounded' = RoundUp(rounded) /\ current' = 0
      /\ UNCHANGED <<given, wanted, added, steps, disturbed>>
  BY DEF ReserveAppend, Goto
<1>3. /\ tail \in C /\ memory[tail].next = Null /\ added = Ends(memory, tail)
      /\ added + HeaderSize + z <= Top
      /\ wanted \in Sizes /\ wanted < rounded /\ Granule <= rounded /\ rounded \in Nat
  BY <1>1, <1>2 DEF CallHolds, CallTypes, TailIsLast
<1>4. z \in Nat
  BY <1>3, InPagesIs
<1> HIDE DEF C, z
<1>5. Sound(memory', C \cup {added}) /\ added \in Address /\ Alike(memory, memory', C)
  BY <1>1, <1>2, <1>3, <1>4, LengthenedKeeps, Zenon
<1>6. KeptIn(memory', C \cup {added}, given)
  <2>1. \A b \in given : /\ b.at - HeaderSize \in C \cup {added} /\ ~memory'[b.at - HeaderSize].free
                         /\ LimitIn(memory', b.at - HeaderSize) = LimitIn(memory, b.at - HeaderSize)
    BY <1>1, <1>5 DEF KeptIn, Alike
  <2> QED BY <1>1, <2>1, StillKept
<1>7. HeadersGood' /\ Chain(memory') = C \cup {added}
  <2>1. given' = given /\ tail' \in Address /\ BlockTypes(given')
    BY <1>1, <1>2, <1>5 DEF HeadersGood
  <2> QED BY <1>5, <1>6, <2>1, HeadersGoodAgain
<1>8. rounded' \in Nat /\ rounded' > rounded /\ rounded' >= Granule
  BY <1>2, <1>3, RoundUpIs
<1>9. 0 \in C /\ 0 \in Address
  BY <1>1 DEF Sound, IsList
<1>10. CallTypes'
  BY <1>1, <1>2, <1>8, <1>9 DEF CallTypes
<1>11. wanted' < rounded' /\ wanted' \in Sizes
  <2>1. wanted \in Nat
    BY <1>3 DEF InterNumbers
  <2> QED BY <1>2, <1>3, <1>8, <2>1
<1>12. CallHolds'
  BY <1>2, <1>7, <1>8, <1>9, <1>11 DEF CallHolds
<1> QED
  BY <1>7, <1>10, <1>12 DEF InterInv

LEMMA MainFreeKeeps == InterNumbers /\ InterInv /\ ~disturbed /\ MainFree => InterInv'
<1> SUFFICES ASSUME InterNumbers, InterInv, ~disturbed, MainFree PROVE InterInv'
  OBVIOUS
<1> DEFINE C == Chain(memory)
<1>1. CallTypes /\ CallHolds /\ HeadersGood /\ Sound(memory, C) /\ KeptIn(memory, C, given)
  BY DEF InterInv, HeadersGood
<1>2. /\ doing' = "sweep" /\ current' = 0 /\ steps < MaxSteps /\ steps' = steps + 1
      /\ UNCHANGED <<tail, wanted, rounded, added, disturbed>>
  BY DEF MainFree, Goto
<1>3. PICK b \in given : memory' = Marked(memory, b.at - HeaderSize, TRUE) /\ given' = given \ {b}
  BY DEF MainFree
<1> HIDE DEF C
<1>4. Sound(memory', C) /\ KeptIn(memory', C, given \ {b})
  BY <1>1, <1>3, FreedKept, Zenon
<1>5. HeadersGood' /\ Chain(memory') = C
  <2>1. tail' \in Address /\ BlockTypes(given')
    BY <1>1, <1>2, <1>3 DEF HeadersGood, BlockTypes
  <2>2. KeptIn(memory', C, given')
    BY <1>3, <1>4
  <2> QED BY <1>4, <2>1, <2>2, HeadersGoodAgain
<1>6. 0 \in C /\ 0 \in Address
  BY <1>1 DEF Sound, IsList
<1>7. steps' \in 0 .. MaxSteps
  BY <1>1, <1>2 DEF CallTypes, InterNumbers
<1>8. CallTypes'
  BY <1>1, <1>2, <1>6, <1>7 DEF CallTypes
<1>9. CallHolds'
  BY <1>2, <1>5, <1>6 DEF CallHolds
<1> QED
  BY <1>5, <1>8, <1>9 DEF InterInv

LEMMA MergeStepKeeps == InterNumbers /\ InterInv /\ ~disturbed /\ Merge => InterInv'
<1> SUFFICES ASSUME InterNumbers, InterInv, ~disturbed, Merge PROVE InterInv'
  OBVIOUS
<1> DEFINE C == Chain(memory)
           b == memory[current].next
           after == memory[b].next
<1>1. CallTypes /\ CallHolds /\ HeadersGood /\ Sound(memory, C) /\ KeptIn(memory, C, given)
  BY DEF InterInv, HeadersGood
<1>2. /\ doing = "merge"
      /\ memory' = [memory EXCEPT ![current].size = @ + memory[memory[current].next].size + HeaderSize,
                                  ![current].next = memory[memory[current].next].next]
      /\ current' = IF after = Null THEN 0 ELSE after
      /\ doing' \in {"idle", "sweep"}
      /\ UNCHANGED <<tail, given, wanted, rounded, added, steps, disturbed>>
  BY DEF Merge
<1>3. current \in C /\ memory[current].free /\ memory[current].next # Null /\ memory[memory[current].next].free
  BY <1>1, <1>2 DEF CallHolds
<1>4. b \in C /\ b > current /\ current \in Nat /\ 0 \in C /\ b \in Nat /\ b \in Address
  <2>1. b \in C /\ b > current /\ current \in Nat
    BY <1>1, <1>3, InOrder
  <2>2. 0 \in C
    BY <1>1 DEF Sound, IsList
  <2> HIDE DEF C, b
  <2>3. b \in Nat /\ b \in Address
    BY <1>1, <2>1, InOrder
  <2> QED BY <2>1, <2>2, <2>3
<1>5. after # Null => after \in C /\ after > b
  BY <1>1, <1>4, InOrder
<1>6. current' \in C \ {b} /\ current' \in Address
  <2>1. 0 # b
    BY <1>4
  <2>2. after # Null => after # b
    BY <1>4, <1>5
  <2>3. current' \in C \ {b}
    BY <1>2, <1>4, <1>5, <2>1, <2>2
  <2>4. C \subseteq Address
    BY <1>1 DEF Sound, IsList
  <2> QED BY <2>3, <2>4
<1>7. Sound(memory', C \ {b}) /\ UsedStay(memory, memory', C, C \ {b})
  <2> HIDE DEF C
  <2> QED BY <1>1, <1>2, <1>3, MergeKeeps, Zenon
<1>8. KeptIn(memory', C \ {b}, given)
  <2> HIDE DEF C, b
  <2> QED BY <1>1, <1>7, UsedKept, Zenon
<1>9. HeadersGood' /\ Chain(memory') = C \ {b}
  <2> DEFINE D == C \ {b}
  <2>1. given' = given /\ tail' \in Address /\ BlockTypes(given')
    BY <1>1, <1>2 DEF HeadersGood
  <2>2. Sound(memory', D) /\ KeptIn(memory', D, given')
    BY <1>7, <1>8, <2>1
  <2> HIDE DEF D
  <2>3. HeadersGood' /\ Chain(memory') = D
    BY <2>1, <2>2, HeadersGoodAgain
  <2> QED BY <2>3 DEF D
<1>10. CallTypes'
  <2> HIDE DEF C, b, after
  <2> QED BY <1>1, <1>2, <1>6, SMTT(40) DEF CallTypes
<1>11. CallHolds'
  <2> HIDE DEF C, b, after
  <2> QED BY <1>2, <1>6, <1>9 DEF CallHolds
<1> QED
  BY <1>9, <1>10, <1>11 DEF InterInv

-----------------------------------------------------------------------------
(* An interrupt between two steps of the main code: what the main code has *)
(* found out still holds, unless the interrupt disturbed it.               *)
LEMMA InterruptStepKeeps == InterNumbers /\ InterInv /\ ~disturbed /\ Interrupt => InterInv'
<1> SUFFICES ASSUME InterNumbers, InterInv, ~disturbed, Interrupt PROVE InterInv'
  OBVIOUS
<1> DEFINE C == Chain(memory)
<1>1. /\ CallTypes /\ CallHolds /\ Sound(memory, C) /\ KeptIn(memory, C, given) /\ tail \in Address
      /\ BlockTypes(given)
  BY DEF InterInv, HeadersGood
<1>2. /\ doing' = doing /\ wanted' = wanted /\ rounded' = rounded /\ current' = current /\ added' = added
      /\ steps < MaxSteps /\ steps' = steps + 1
  BY DEF Interrupt, local
<1>3. disturbed' = (disturbed \/ (\E h \in Relied : memory'[h] # memory[h])
                              \/ ~(Relied \cup Visited \subseteq Chain(memory'))
                              \/ (doing = "append" /\ tail' # tail))
  BY DEF Interrupt
<1>4. PICK C2 : /\ Sound(memory', C2) /\ KeptIn(memory', C2, given')
                /\ BodiesStay(memory, memory', C) /\ tail' \in Address /\ BlockTypes(given')
  <2> HIDE DEF C
  <2> QED BY <1>1, InterruptKeeps, Zenon
<1>5. HeadersGood' /\ Chain(memory') = C2
  BY <1>4, HeadersGoodAgain
<1>6. CallTypes'
  <2>1. steps' \in 0 .. MaxSteps
    BY <1>1, <1>2 DEF CallTypes, InterNumbers
  <2>2. disturbed' \in BOOLEAN
    BY <1>3
  <2> QED BY <1>1, <1>2, <2>1, <2>2 DEF CallTypes
<1>7. ASSUME ~disturbed' PROVE CallHolds'
  <2>1. /\ \A h \in Relied : memory'[h] = memory[h] /\ h \in Chain(memory')
        /\ Visited \subseteq Chain(memory')
        /\ doing = "append" => tail' = tail
    BY <1>3, <1>7
  <2>2. doing \in {"fits", "split", "link", "mark", "sweep", "merge"} =>
           current \in Chain(memory') /\ memory'[current] = memory[current]
    <3>1. doing \in {"fits", "split", "link", "mark", "sweep", "merge"} => current \in Relied
      BY DEF Relied
    <3> QED BY <2>1, <3>1
  <2>3. doing \in {"test", "next"} => current \in Chain(memory')
    <3>1. doing \in {"test", "next"} => current \in Visited
      BY DEF Visited
    <3> QED BY <2>1, <3>1
  <2>4. doing \notin {"idle", "reserve", "append"} => current \in Chain(memory')
    BY <2>2, <2>3, <1>1 DEF CallTypes
  <2>5. doing = "link" => SplitsAt(memory', current, rounded) /\ RestIsWritten(memory')
    <3> SUFFICES ASSUME doing = "link" PROVE SplitsAt(memory', current, rounded) /\ RestIsWritten(memory')
      OBVIOUS
    <3> DEFINE n == Behind(current) + rounded
    <3>1. memory'[current] = memory[current]
      BY <2>2
    <3>2. /\ current \in C /\ memory[current].free /\ SplitsAt(memory, current, rounded)
          /\ RestIsWritten(memory) /\ rounded \in Nat
      BY <1>1 DEF CallHolds, CallTypes
    <3>3. n \in Address /\ n >= Behind(current) /\ n < Ends(memory, current)
      BY <1>1, <3>2, SplitPlace
    <3>4. memory'[n] = memory[n]
      <4> HIDE DEF C, n
      <4>1. Behind(current) <= n
        <5>1. n \in Int /\ Behind(current) \in Int
          BY <1>1, <3>2, <3>3, InOrder DEF Address, Behind, InterNumbers
        <5> QED BY <3>3, <5>1
      <4> QED BY <1>4, <3>1, <3>2, <3>3, <4>1 DEF BodiesStay
    <3> QED BY <3>1, <3>2, <3>4 DEF SplitsAt, RestOf, RestIsWritten, RestThere
  <2>6. doing = "append" => TailIsLast' /\ added = Ends(memory', tail')
    <3> SUFFICES ASSUME doing = "append" PROVE TailIsLast' /\ added = Ends(memory', tail')
      OBVIOUS
    <3>1. tail' = tail /\ memory'[tail] = memory[tail] /\ tail \in Chain(memory')
      BY <2>1 DEF Relied
    <3>2. memory[tail].next = Null /\ added = Ends(memory, tail)
      BY <1>1 DEF CallHolds, TailIsLast
    <3> QED BY <3>1, <3>2 DEF TailIsLast, Ends
  <2>7. doing = "merge" => memory'[current].next # Null /\ memory'[memory'[current].next].free
    <3> SUFFICES ASSUME doing = "merge"
                 PROVE memory'[current].next # Null /\ memory'[memory'[current].next].free
      OBVIOUS
    <3>1. memory'[current] = memory[current]
      BY <2>2
    <3>2. memory'[memory[current].next] = memory[memory[current].next]
      BY <2>1 DEF Relied
    <3>3. memory[current].next # Null /\ memory[memory[current].next].free
      BY <1>1 DEF CallHolds
    <3> QED BY <3>1, <3>2, <3>3
  <2>8. doing = "mark" => Behind(current) + wanted <= LimitIn(memory', current)
    <3> HAVE doing = "mark"
    <3>1. memory'[current] = memory[current]
      BY <2>2
    <3>2. LimitIn(memory', current) = LimitIn(memory, current)
      BY <3>1 DEF LimitIn, Ends
    <3> QED BY <1>1, <3>2 DEF CallHolds
  <2>9. doing \in {"fits", "split", "link", "mark", "merge"} => memory'[current].free
    BY <2>2, <1>1 DEF CallHolds
  <2>10. doing = "split" => memory'[current].size > rounded
    BY <2>2, <1>1 DEF CallHolds
  <2>11. doing \notin {"idle", "sweep", "merge"} => wanted \in Sizes /\ wanted < rounded /\ Granule <= rounded
    BY <1>1 DEF CallHolds
  <2>12. doing = "append" => added + HeaderSize + InPages(rounded) <= Top
    BY <1>1 DEF CallHolds
  <2>13. SplitsAt(memory, current, rounded)' = SplitsAt(memory', current, rounded)
         /\ RestIsWritten(memory)' = RestIsWritten(memory')
    BY <1>2 DEF RestIsWritten
  <2> QED BY <1>2, <2>4, <2>5, <2>6, <2>7, <2>8, <2>9, <2>10, <2>11, <2>12, <2>13 DEF CallHolds
<1> QED
  BY <1>5, <1>6, <1>7 DEF InterInv

LEMMA InterKeeps == InterNumbers /\ InterInv /\ [InterNext]_interVars => InterInv'
<1> SUFFICES ASSUME InterNumbers, InterInv, [InterNext]_interVars PROVE InterInv'
  OBVIOUS
<1>1. CASE UNCHANGED interVars
  <2>1. /\ memory' = memory /\ tail' = tail /\ given' = given /\ doing' = doing /\ wanted' = wanted
        /\ rounded' = rounded /\ current' = current /\ added' = added /\ steps' = steps
        /\ disturbed' = disturbed
    BY <1>1 DEF interVars, headers, local
  <2>2. HeadersGood'
    BY <2>1 DEF InterInv, HeadersGood
  <2>3. CallTypes'
    BY <2>1 DEF InterInv, CallTypes
  <2>4. CallHolds' <=> CallHolds
    BY <2>1 DEF CallHolds, TailIsLast, RestIsWritten
  <2> QED BY <2>1, <2>2, <2>3, <2>4 DEF InterInv
<1>2. CASE InterNext
  <2>1. ~disturbed /\ (Main \/ Interrupt)
    BY <1>2 DEF InterNext
  <2>2. \/ MainAllocate \/ (Test \/ CheckFits \/ Step \/ MainSweep) \/ SplitWrite \/ SplitLink \/ Mark
        \/ ReserveRead \/ ReserveAppend \/ MainFree \/ Merge \/ Interrupt
    BY <2>1 DEF Main
  <2> QED BY <2>1, <2>2, MainAllocateKeeps, LookKeeps, SplitWriteKeeps, SplitLinkKeeps, MarkStepKeeps,
             ReserveReadKeeps, ReserveAppendKeeps, MainFreeKeeps, MergeStepKeeps, InterruptStepKeeps
<1> QED
  BY <1>1, <1>2

(* The blocks and the headers have no byte in common.                      *)
LEMMA BlocksApart ==
  ASSUME InterNumbers, NEW m, NEW C, NEW B, Sound(m, C), KeptIn(m, C, B)
  PROVE  /\ \A b, c \in B : b # c => Bytes(b) \cap Bytes(c) = {}
         /\ \A b \in B : \A a \in C : Bytes(b) \cap (a .. a + HeaderSize - 1) = {}
<1> DEFINE S(b) == b.at - HeaderSize
<1>1. HeaderSize \in Nat /\ HeaderSize > 0
  BY DEF InterNumbers
<1>2. \A b \in B : /\ b.at \in Nat /\ b.size \in Nat /\ S(b) \in C /\ b.at + b.size <= LimitIn(m, S(b))
  BY DEF KeptIn
<1>3. \A a \in C : /\ a \in Nat /\ Ends(m, a) \in Nat /\ m[a].next \in Int
                   /\ a + HeaderSize <= Ends(m, a)
                   /\ \A c \in C : a < c => m[a].next # Null /\ m[a].next <= c /\ Ends(m, a) <= c
  <2> TAKE a \in C
  <2>1. a \in Nat /\ Ends(m, a) \in Nat /\ m[a].next \in Int
        /\ \A c \in C : a < c => m[a].next # Null /\ m[a].next <= c /\ Ends(m, a) <= c
    BY InOrder
  <2>2. Behind(a) <= Ends(m, a)
    BY InOrder
  <2> QED BY <2>1, <2>2 DEF Behind
<1>4. ASSUME NEW b \in B, NEW c \in C, S(b) < c PROVE b.at + b.size <= c
  <2>1. LimitIn(m, S(b)) = m[S(b)].next /\ m[S(b)].next <= c /\ m[S(b)].next \in Int /\ c \in Nat
    BY <1>2, <1>3, <1>4 DEF LimitIn
  <2>2. b.at + b.size \in Nat /\ b.at + b.size <= LimitIn(m, S(b))
    BY <1>2
  <2> QED BY <2>1, <2>2
<1>5. ASSUME NEW b \in B, NEW a \in C PROVE Bytes(b) \cap (a .. a + HeaderSize - 1) = {}
  <2> SUFFICES ASSUME NEW x \in Bytes(b), x \in a .. a + HeaderSize - 1 PROVE FALSE
    OBVIOUS
  <2>1. b.at \in Nat /\ b.size \in Nat /\ S(b) \in C /\ S(b) \in Nat /\ a \in Nat
    BY <1>2, <1>3
  <2>2. x \in b.at .. b.at + b.size - 1
    BY DEF Bytes
  <2>3. CASE a < S(b)
    <3>1. a + HeaderSize <= Ends(m, a) /\ Ends(m, a) <= S(b) /\ Ends(m, a) \in Nat
      BY <1>3, <2>1, <2>3
    <3> QED BY <3>1, <2>1, <2>2, <1>1
  <2>4. CASE a = S(b)
    BY <2>1, <2>2, <2>4, <1>1
  <2>5. CASE S(b) < a
    <3>1. b.at + b.size <= a
      BY <2>5, <1>4
    <3> QED BY <3>1, <2>1, <2>2
  <2> QED BY <2>1, <2>3, <2>4, <2>5
<1>6. ASSUME NEW b \in B, NEW c \in B, S(b) < S(c) PROVE Bytes(b) \cap Bytes(c) = {}
  <2> SUFFICES ASSUME NEW x \in Bytes(b), x \in Bytes(c) PROVE FALSE
    OBVIOUS
  <2>1. b.at \in Nat /\ b.size \in Nat /\ c.at \in Nat /\ c.size \in Nat /\ S(c) \in C
    BY <1>2
  <2>2. b.at + b.size <= S(c)
    BY <1>4, <1>6, <2>1
  <2>3. x \in b.at .. b.at + b.size - 1 /\ x \in c.at .. c.at + c.size - 1
    BY DEF Bytes
  <2> QED BY <2>1, <2>2, <2>3, <1>1
<1>7. ASSUME NEW b \in B, NEW c \in B, b # c PROVE Bytes(b) \cap Bytes(c) = {}
  <2>1. b.at # c.at /\ b.at \in Nat /\ c.at \in Nat
    BY <1>7, <1>2 DEF KeptIn
  <2>2. S(b) < S(c) \/ S(c) < S(b)
    BY <2>1, <1>1
  <2> HIDE DEF S
  <2> QED BY <1>6, <2>2
<1> QED
  BY <1>5, <1>7

LEMMA InterSafe == InterNumbers /\ InterInv => BlocksSafe
<1> SUFFICES ASSUME InterNumbers, InterInv PROVE BlocksSafe
  OBVIOUS
<1> DEFINE C == Chain(memory)
<1>1. CallTypes /\ Sound(memory, C) /\ KeptIn(memory, C, given) /\ tail \in Address /\ BlockTypes(given)
  BY DEF InterInv, HeadersGood
<1>2. InterTypeOK
  <2>1. memory \in [Address -> [size : Nat, next : Address \cup {Null}, free : BOOLEAN]]
    BY <1>1 DEF Sound, Memories, HeaderType
  <2> QED BY <1>1, <2>1 DEF InterTypeOK, CallTypes, BlockTypes
<1>3. Ascending
  BY <1>1 DEF Sound, Laid, Ascending
<1>4. Apart
  <2> HIDE DEF C
  <2>1. /\ \A b, c \in given : b # c => Bytes(b) \cap Bytes(c) = {}
        /\ \A b \in given : \A a \in C : Bytes(b) \cap (a .. a + HeaderSize - 1) = {}
    BY <1>1, BlocksApart
  <2> QED BY <2>1 DEF Apart, C
<1>5. Listed
  BY <1>1 DEF KeptIn, Listed
<1> QED
  BY <1>2, <1>3, <1>4, <1>5 DEF BlocksSafe

THEOREM HeapBlocksSafe == InterAssumption => (InterSpec => []BlocksSafe)
<1> SUFFICES ASSUME InterAssumption PROVE InterSpec => []BlocksSafe
  OBVIOUS
<1>1. InterNumbers
  BY InterConstants
<1>2. InterInit => InterInv
  BY <1>1, InterStarts
<1>3. InterInv /\ [InterNext]_interVars => InterInv'
  BY <1>1, InterKeeps
<1>4. InterInv => BlocksSafe
  BY <1>1, InterSafe
<1> QED
  BY <1>2, <1>3, <1>4, PTL DEF InterSpec

-----------------------------------------------------------------------------
(* The block is as long as the last Reserve made it, and holds the elements *)
(* of the sequence as long as all have fitted.                             *)
ListInv == /\ ListTypeOK
           /\ Size <= ReservedSize
           /\ room = IF ReservedSize = 0 THEN 0 ELSE InQuanta(ReservedSize)
           /\ ~spilt => kept = Elements

LEMMA RoundedIsMore ==
  ASSUME ListAssumption, NEW n \in Nat
  PROVE  /\ InQuanta(n) \in Nat /\ InQuanta(n) > n /\ InQuanta(n) >= BlockQuantum
         /\ n < BlockQuantum => InQuanta(n) = BlockQuantum
<1>1. BlockQuantum \in Nat \ {0}
  BY DEF ListAssumption
<1>2. n % BlockQuantum \in 0 .. BlockQuantum - 1 /\ n = BlockQuantum * (n \div BlockQuantum) + (n % BlockQuantum)
       /\ n \div BlockQuantum \in Nat
  BY <1>1
<1>3. BlockQuantum * (n \div BlockQuantum) >= 0
  BY <1>1, <1>2
<1>4. ASSUME n < BlockQuantum
      PROVE  n % BlockQuantum = n
  <2>1. CASE n \div BlockQuantum = 0
    BY <2>1, <1>1, <1>2
  <2>2. CASE n \div BlockQuantum >= 1
    <3>1. BlockQuantum * (n \div BlockQuantum) >= BlockQuantum * 1
      BY <2>2, <1>1, <1>2
    <3>. QED  BY <3>1, <1>1, <1>2, <1>4
  <2>. QED  BY <2>1, <2>2, <1>2
<1>. QED  BY <1>1, <1>2, <1>3, <1>4 DEF InQuanta

LEMMA ListInvInit ==
  ASSUME ListAssumption, ListInit
  PROVE  ListInv
<1>1. Elements = <<>>
  BY DEF ListInit, Elements
<1>2. Data \in [Place -> Element \cup {Junk}]
  BY DEF ListInit
<1>3. ListTypeOK
  <2>1. MaxLength \in Nat
    BY DEF ListAssumption
  <2>2. Size \in 0 .. MaxLength /\ ReservedSize \in 0 .. 2 * MaxLength /\ room \in Nat
    BY <2>1 DEF ListInit
  <2>. QED  BY <1>2, <2>2 DEF ListInit, ListTypeOK
<1>. QED  BY <1>1, <1>3 DEF ListAssumption, ListInit, ListInv

LEMMA ReserveKeepsRoom ==
  ASSUME ListAssumption, ListInv, NEW n \in 1 .. MaxLength, ReserveRoom(n)
  PROVE  /\ ReservedSize' \in n .. 2 * MaxLength
         /\ room' = InQuanta(ReservedSize') /\ room' \in Nat
<1>1. ReservedSize' \in n .. 2 * MaxLength /\ ReservedSize' # 0
  BY DEF ListAssumption, ListInv, ListTypeOK, ReserveRoom, Reserves
<1>2. room' = InQuanta(ReservedSize')
  BY <1>1 DEF ListAssumption, ListInv, ListTypeOK, ReserveRoom, Reserves
<1>3. room' \in Nat
  BY <1>1, <1>2, RoundedIsMore DEF ListAssumption
<1>. QED  BY <1>1, <1>2, <1>3

(* Push adds its element at the end when the block has room for it.        *)
LEMMA PushAppends ==
  ASSUME ListAssumption, ListInv, NEW e \in Element, Push(e)
  PROVE  /\ Data' \in [Place -> Element \cup {Junk}]
         /\ (Size + 1) * Width <= room' => Elements' = Append(Elements, e)
<1>1. /\ Size \in 0 .. MaxLength - 1 /\ Size' = Size + 1 /\ Size + 1 \in Place
      /\ MaxLength \in Nat /\ 1 .. Size + 1 \subseteq Place
  BY DEF ListAssumption, ListInv, ListTypeOK, Push, Place
<1>2. PICK stored \in IF Inside(Size + 1) THEN {e} ELSE {e, Junk} :
         Data' = [(IF Reserves(Size + 1) THEN Moved(Size + 1) ELSE Data) EXCEPT ![Size + 1] = stored]
  BY DEF Push
<1>. DEFINE before == IF Reserves(Size + 1) THEN Moved(Size + 1) ELSE Data
<1>3. before \in [Place -> Element \cup {Junk}] /\ \A k \in 1 .. Size : before[k] = Data[k]
  BY <1>1 DEF ListInv, ListTypeOK, Moved, Place
<1>4. stored \in Element \cup {Junk}
  BY <1>2
<1>. HIDE DEF before
<1>5. Data' = [before EXCEPT ![Size + 1] = stored]
  BY <1>2 DEF before
<1>6. Data' \in [Place -> Element \cup {Junk}] /\ Data'[Size + 1] = stored
      /\ \A k \in 1 .. Size : Data'[k] = Data[k]
  BY <1>1, <1>3, <1>4, <1>5
<1>7. ASSUME (Size + 1) * Width <= room'
      PROVE  Elements' = Append(Elements, e)
  <2>1. stored = e
    BY <1>2, <1>7 DEF Inside
  <2>2. Elements \in Seq(Element \cup {Junk}) /\ Len(Elements) = Size
    BY <1>1 DEF Elements, ListInv, ListTypeOK, Place
  <2>3. Elements' = [k \in 1 .. Size + 1 |-> Data'[k]]
    BY <1>1 DEF Elements
  <2>4. Elements' = [k \in 1 .. Size + 1 |-> IF k = Size + 1 THEN e ELSE Data[k]]
    BY <1>1, <1>6, <2>1, <2>3
  <2>5. Elements = [k \in 1 .. Size |-> Data[k]]
    BY DEF Elements
  <2>. QED  BY <1>1, <2>2, <2>4, <2>5
<1>. QED  BY <1>6, <1>7

(* Erase takes its element out and moves those behind it up.               *)
LEMMA EraseRemoves ==
  ASSUME ListAssumption, ListInv, NEW k \in Place, Erase(k)
  PROVE  /\ Data' \in [Place -> Element \cup {Junk}]
         /\ k \in DOMAIN Elements
         /\ Elements' = SubSeq(Elements, 1, k - 1) \o SubSeq(Elements, k + 1, Len(Elements))
<1>1. /\ Size \in 1 .. MaxLength /\ k \in 1 .. Size /\ Size' = Size - 1
      /\ MaxLength \in Nat /\ 1 .. Size \subseteq Place
  BY DEF ListAssumption, ListInv, ListTypeOK, Erase, Place
<1>2. Data' \in [Place -> Element \cup {Junk}]
  BY <1>1 DEF Erase, Erased, ListInv, ListTypeOK, Place
<1>3. \A j \in 1 .. Size - 1 : Data'[j] = IF k <= j THEN Data[j + 1] ELSE Data[j]
  BY <1>1 DEF Erase, Erased, Place, ListInv, ListTypeOK
<1>4. /\ Elements \in Seq(Element \cup {Junk}) /\ Len(Elements) = Size
      /\ \A j \in 1 .. Size : Elements[j] = Data[j]
  BY <1>1 DEF Elements, ListInv, ListTypeOK, Place
<1>. DEFINE left  == SubSeq(Elements, 1, k - 1)
            right == SubSeq(Elements, k + 1, Len(Elements))
<1>5. left \in Seq(Element \cup {Junk}) /\ Len(left) = k - 1
      /\ \A j \in 1 .. k - 1 : left[j] = Elements[j]
  BY <1>1, <1>4
<1>6. right \in Seq(Element \cup {Junk}) /\ Len(right) = Size - k
      /\ \A j \in 1 .. Size - k : right[j] = Elements[k + j]
  BY <1>1, <1>4
<1>. HIDE DEF left, right
<1>7. left \o right \in Seq(Element \cup {Junk}) /\ Len(left \o right) = Size - 1
  BY <1>1, <1>5, <1>6
<1>8. ASSUME NEW j \in 1 .. Size - 1
      PROVE  (left \o right)[j] = Data'[j]
  <2>1. CASE j < k
    <3>1. (left \o right)[j] = left[j] /\ j \in 1 .. k - 1
      BY <2>1, <1>1, <1>5, <1>6
    <3>. QED  BY <3>1, <2>1, <1>1, <1>3, <1>4, <1>5
  <2>2. CASE j >= k
    <3>1. (left \o right)[j] = right[j - (k - 1)] /\ j - (k - 1) \in 1 .. Size - k
      BY <2>2, <1>1, <1>5, <1>6
    <3>. QED  BY <3>1, <2>2, <1>1, <1>3, <1>4, <1>6
  <2>3. j < k \/ j >= k
    BY <1>1
  <2>. QED  BY <2>1, <2>2, <2>3
<1>9. Elements' = [j \in 1 .. Size - 1 |-> Data'[j]]
  BY <1>1 DEF Elements
<1>10. Elements' = left \o right
  <2>. DEFINE both == left \o right
  <2>1. both \in [1 .. Size - 1 -> Element \cup {Junk}]
    <3>. SUFFICES ASSUME NEW s \in Seq(Element \cup {Junk}), Len(s) = Size - 1
                  PROVE  s \in [1 .. Size - 1 -> Element \cup {Junk}]
      BY <1>7
    <3>. QED  BY <1>1
  <2>2. \A j \in 1 .. Size - 1 : both[j] = Data'[j]
    BY <1>8
  <2>. HIDE DEF both
  <2>3. Elements' = both
    BY <2>1, <2>2, <1>9
  <2>. QED  BY <2>3 DEF both
<1>. QED  BY <1>1, <1>2, <1>4, <1>10 DEF left, right, Elements

LEMMA ListInvNext ==
  ASSUME ListAssumption, ListInv, [ListNext]_listVars
  PROVE  ListInv'
<1>1. CASE \E e \in Element : Push(e) /\ ListNext
  <2>1. PICK e \in Element : Push(e)
    BY <1>1
  <2>2. Size + 1 \in 1 .. MaxLength /\ Size' = Size + 1 /\ ReserveRoom(Size + 1)
    BY <2>1 DEF Push, ListAssumption, ListInv, ListTypeOK
  <2>3. /\ ReservedSize' \in Size' .. 2 * MaxLength
        /\ room' = InQuanta(ReservedSize') /\ room' \in Nat
    BY <2>2, ReserveKeepsRoom
  <2>4. Data' \in [Place -> Element \cup {Junk}]
    BY <2>1, PushAppends
  <2>5. spilt' \in BOOLEAN /\ (~spilt' => kept' = Elements')
    BY <1>1 DEF ListNext, ListInv, ListTypeOK
  <2>6. InQuanta(ReservedSize') = InQuanta(ReservedSize)'
    BY DEF InQuanta
  <2>. QED  BY <2>2, <2>3, <2>4, <2>5, <2>6 DEF ListInv, ListTypeOK, ListAssumption
<1>2. CASE \E k \in Place : Erase(k) /\ ListNext
  <2>1. PICK k \in Place : Erase(k)
    BY <1>2
  <2>2. Data' \in [Place -> Element \cup {Junk}]
    BY <2>1, EraseRemoves
  <2>3. spilt' \in BOOLEAN /\ (~spilt' => kept' = Elements')
    BY <1>2 DEF ListNext, ListInv, ListTypeOK
  <2>4. Size' \in 0 .. MaxLength /\ Size' <= ReservedSize
    BY <2>1 DEF Erase, Place, ListAssumption, ListInv, ListTypeOK
  <2>. QED  BY <2>1, <2>2, <2>3, <2>4 DEF Erase, ListInv, ListTypeOK, InQuanta
<1>3. CASE Clear /\ ListNext
  <2>1. spilt' \in BOOLEAN /\ (~spilt' => kept' = Elements')
    BY <1>3 DEF ListNext, ListInv, ListTypeOK
  <2>. QED  BY <1>3, <2>1 DEF Clear, ListInv, ListTypeOK, ListAssumption
<1>4. CASE UNCHANGED listVars
  BY <1>4 DEF listVars, ListInv, ListTypeOK, Elements, InQuanta
<1>. QED  BY <1>1, <1>2, <1>3, <1>4 DEF ListNext

LEMMA ListInvAlways == ListAssumption => (ListSpec => []ListInv)
<1>. SUFFICES ASSUME ListAssumption PROVE ListSpec => []ListInv
  OBVIOUS
<1>1. ListInit => ListInv
  BY ListInvInit
<1>2. ListInv /\ [ListNext]_listVars => ListInv'
  BY ListInvNext
<1>. QED  BY <1>1, <1>2, PTL DEF ListSpec

LEMMA SequenceStep ==
  ASSUME ListAssumption, ListInv, [ListNext]_listVars
  PROVE  [Sequence!Next]_kept
<1>1. CASE spilt' \/ UNCHANGED listVars
  BY <1>1 DEF ListNext, listVars
<1>2. CASE ~spilt' /\ ListNext
  <2>1. ~spilt /\ kept = Elements /\ kept' = Elements' /\ ~(Size' * Width > room')
    BY <1>2 DEF ListNext, ListInv
  <2>2. ASSUME NEW e \in Element, Push(e)
        PROVE  Sequence!Push(e)
    <3>1. (Size + 1) * Width <= room'
      <4>1. Size + 1 \in 1 .. MaxLength /\ Size' = Size + 1 /\ ReserveRoom(Size + 1)
        BY <2>2 DEF Push, ListAssumption, ListInv, ListTypeOK
      <4>2. room' \in Nat
        BY <4>1, ReserveKeepsRoom
      <4>3. Size' * Width \in Nat
        BY <4>1 DEF ListAssumption
      <4>. QED  BY <2>1, <4>1, <4>2, <4>3
    <3>. QED  BY <2>1, <2>2, <3>1, PushAppends DEF Sequence!Push
  <2>3. ASSUME NEW k \in Place, Erase(k)
        PROVE  k \in DOMAIN kept /\ Sequence!Erase(k)
    BY <2>1, <2>3, EraseRemoves DEF Sequence!Erase, Sequence!RemoveAt
  <2>4. ASSUME Clear
        PROVE  Sequence!Clear
    BY <2>1, <2>4 DEF Clear, Elements, Sequence!Clear
  <2>. QED  BY <1>2, <2>2, <2>3, <2>4 DEF ListNext, Sequence!Next
<1>. QED  BY <1>1, <1>2

(* Push, Erase and Clear make the sequence that Items promises, however    *)
(* long the list grows, as long as its elements have fitted the block.     *)
THEOREM ListIsSequence == ListAssumption => (ListSpec => Sequence!Spec)
<1>. SUFFICES ASSUME ListAssumption PROVE ListSpec => Sequence!Spec
  OBVIOUS
<1>1. ListInit => Sequence!Init
  BY DEF ListInit, Sequence!Init
<1>2. ListInv /\ [ListNext]_listVars => [Sequence!Next]_kept
  BY SequenceStep
<1>. QED  BY <1>1, <1>2, ListInvAlways, PTL DEF ListSpec, Sequence!Spec

(* A list of fewer elements than half a quantum has bytes never gets a     *)
(* block of more than one quantum, and overruns it exactly when it grows   *)
(* beyond the pointers that one holds.                                     *)
THEOREM ListStaysInBlock == ListAssumption /\ RoomAssumption => (ListSpec => []ListFits)
<1>. SUFFICES ASSUME ListAssumption, RoomAssumption PROVE ListSpec => []ListFits
  OBVIOUS
<1>1. ASSUME ListInv
      PROVE  ListFits
  <2>1. Size \in Nat /\ Width \in Nat \ {0} /\ BlockQuantum \in Nat \ {0} /\ ReservedSize \in Nat
    BY <1>1 DEF ListInv, ListTypeOK, ListAssumption
  <2>2. Size > 0 => room = BlockQuantum
    <3>1. ReservedSize < BlockQuantum
      BY <1>1 DEF ListInv, ListTypeOK, ListAssumption, RoomAssumption
    <3>2. InQuanta(ReservedSize) = BlockQuantum
      BY <2>1, <3>1, RoundedIsMore
    <3>. QED  BY <1>1, <2>1, <3>2 DEF ListInv
  <2>3. Size = 0 => room >= 0 /\ Size * Width = 0 /\ BlockQuantum \div Width >= 0
    BY <1>1, <2>1 DEF ListInv, ListTypeOK
  <2>4. Size * Width <= BlockQuantum <=> Size <= BlockQuantum \div Width
    <3>. DEFINE q == BlockQuantum \div Width
                r == BlockQuantum % Width
    <3>1. q \in Nat /\ r \in 0 .. Width - 1 /\ BlockQuantum = Width * q + r
      BY <2>1
    <3>. HIDE DEF q, r
    <3>2. ASSUME Size <= q PROVE Size * Width <= BlockQuantum
      <4>1. Width * Size <= Width * q
        BY <2>1, <3>1, <3>2
      <4>. QED  BY <2>1, <3>1, <4>1
    <3>3. ASSUME ~(Size <= q) PROVE ~(Size * Width <= BlockQuantum)
      <4>1. Size >= q + 1
        BY <2>1, <3>1, <3>3
      <4>2. Width * Size >= Width * (q + 1)
        BY <2>1, <3>1, <4>1
      <4>3. Width * (q + 1) = Width * q + Width
        BY <2>1, <3>1
      <4>. QED  BY <2>1, <3>1, <4>2, <4>3
    <3>. QED  BY <3>2, <3>3 DEF q
  <2>. QED  BY <1>1, <2>1, <2>2, <2>3, <2>4 DEF ListFits, FitsOneQuantum, ListInv
<1>2. ListInv => ListFits
  BY <1>1
<1>. QED  BY <1>2, ListInvAlways, PTL

(* So the list of processes is a sequence, and it leaves its block when it *)
(* has more elements than one quantum holds, and not before.               *)
THEOREM ListImplementsItems == ListAssumption /\ RoomAssumption => (ListSpec => ImplementsItems)
<1>. SUFFICES ASSUME ListAssumption, RoomAssumption PROVE ListSpec => ImplementsItems
  OBVIOUS
<1>1. ListSpec => Sequence!Spec
  BY ListIsSequence
<1>2. ListSpec => []ListFits
  BY ListStaysInBlock
<1>. QED  BY <1>1, <1>2, PTL DEF ImplementsItems
=============================================================================
