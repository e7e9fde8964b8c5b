---------------------------- MODULE PageAllocator ----------------------------
(***************************************************************************)
(* The physical page allocator: a bit per page and FirstFreePage, a hint   *)
(* from which RequestPage searches.  The kernel requests pages from its    *)
(* main code and, when a handler's allocation grows the heap, from inside  *)
(* interrupts.  A page is its index, its address divided by 4096.          *)
(*                                                                         *)
(* Main code goes from one access of the shared variables to the next; an  *)
(* interrupt is one action.  The search of RequestPage is one step: pages  *)
(* that it has passed stay locked, since no interrupt frees a page.        *)
(***************************************************************************)
EXTENDS Integers, Sequences, FiniteSets, FiniteSetsExt

CONSTANTS MemoryMap,    \* the descriptors, [start, pages, conventional]
          PageAmount,   \* the sum of their pages
          Kernel,       \* pages from _KernelStart to _KernelEnd
          Screen        \* pages of the frame buffer

Descriptors == DOMAIN MemoryMap
PagesOf(i)  == MemoryMap[i].start .. MemoryMap[i].start + MemoryMap[i].pages - 1

ASSUME PageAmountAssumption == PageAmount \in Nat

ASSUME MapAssumption ==
    /\ MemoryMap \in Seq([start : Nat, pages : Nat \ {0}, conventional : BOOLEAN])
    /\ PageAmount = MapThenSumSet(LAMBDA i : MemoryMap[i].pages, Descriptors)
    /\ \E i \in Descriptors : MemoryMap[i].conventional
    /\ Kernel \subseteq Nat
    /\ Screen \subseteq Nat

Page == 0 .. PageAmount - 1
None == -1                  \* nullptr

VARIABLES locked,   \* the pages whose bit in PageStatusMap is set
          hint,     \* FirstFreePage
          main,     \* where main code is, the page it works on
          held,     \* history: pages handed out and not freed
          twice,    \* history: pages handed out while held
          raced     \* history: an interrupt requested a page while main code
                    \* had found one that it had not locked

vars == <<locked, hint, main, held, twice, raced>>

-----------------------------------------------------------------------------
(* LockPage and LockPages: an index beyond PageAmount is refused, but not  *)
(* PageAmount itself, the bit after the last.                              *)
LockPages(s, pages) == s \cup (pages \cap 0 .. PageAmount)

(* PageStatusMap is put at the start of the first largest descriptor of    *)
(* conventional memory.                                                    *)
Conventional == {i \in Descriptors : MemoryMap[i].conventional}
LargestFree  == Min({i \in Conventional :
                       \A j \in Conventional : MemoryMap[j].pages <= MemoryMap[i].pages})
MapPages     == LET first == MemoryMap[LargestFree].start
                IN first .. first + (PageAmount \div 4096) \div 8

NotConventional == UNION {PagesOf(i) : i \in Descriptors \ Conventional}

(* The pages that the firmware, the kernel, the frame buffer and the map   *)
(* itself occupy, as far as the map has a bit for them.                    *)
Reserved == Page \cap (MapPages \cup NotConventional \cup Kernel \cup Screen)

(* Bits that Init does not clear: it clears whole bytes.                   *)
Uncleared == 8 * (PageAmount \div 8) .. PageAmount - 1

LockedAtBoot(garbage) ==
    LockPages(LockPages(LockPages(LockPages(
        garbage, MapPages), NotConventional), Kernel), Screen)

Init == /\ \E garbage \in SUBSET Uncleared : locked = LockedAtBoot(garbage)
        /\ hint = 0
        /\ main = [pc |-> "idle", page |-> None]
        /\ held = {} /\ twice = {} /\ raced = FALSE

-----------------------------------------------------------------------------
(* The pages that a search from FirstFreePage finds free.                  *)
FreeFrom(h) == {p \in Page : h <= p /\ p \notin locked}
Found       == IF FreeFrom(hint) = {} THEN None ELSE Min(FreeFrom(hint))

NextHint(p) == p + 1

HandOut(p) == /\ held' = held \cup {p}
              /\ twice' = IF p \in held THEN twice \cup {p} ELSE twice

(* RequestPage in main code: search, move the hint, lock.  When no page is *)
(* found it returns nullptr and changes nothing.                           *)
Search == /\ main.pc = "idle"
          /\ Found # None
          /\ main' = [pc |-> "take", page |-> Found]
          /\ UNCHANGED <<locked, hint, held, twice, raced>>

Take == /\ main.pc = "take"
        /\ hint' = NextHint(main.page)
        /\ main' = [main EXCEPT !.pc = "lock"]
        /\ UNCHANGED <<locked, held, twice, raced>>

(* Slip: the page is handed out with its bit clear.                        *)
LockForgotten == /\ main.pc = "lock"
                 /\ main' = [pc |-> "idle", page |-> None]
                 /\ HandOut(main.page)
                 /\ UNCHANGED <<locked, hint, raced>>

Lock == /\ main.pc = "lock"
        /\ locked' = LockPages(locked, {main.page})
        /\ main' = [pc |-> "idle", page |-> None]
        /\ HandOut(main.page)
        /\ UNCHANGED <<hint, raced>>

(* FreePage by the holder, which no code does yet: the bit, then the hint. *)
Free == /\ main.pc = "idle"
        /\ \E p \in held :
             /\ locked' = locked \ {p}
             /\ held' = held \ {p}
             /\ main' = [pc |-> "hint", page |-> p]
        /\ UNCHANGED <<hint, twice, raced>>

Lowered(h, p) == IF h > p THEN p ELSE h

LowerHint == /\ main.pc = "hint"
             /\ hint' = Lowered(hint, main.page)
             /\ main' = [pc |-> "idle", page |-> None]
             /\ UNCHANGED <<locked, held, twice, raced>>

(* RequestPage inside an interrupt.                                        *)
InterruptRequest ==
    /\ Found # None
    /\ hint' = NextHint(Found)
    /\ locked' = LockPages(locked, {Found})
    /\ HandOut(Found)
    /\ raced' = (raced \/ main.pc = "take")
    /\ UNCHANGED main

Next == Search \/ Take \/ Lock \/ Free \/ LowerHint \/ InterruptRequest

Spec == Init /\ [][Next]_vars
-----------------------------------------------------------------------------
(* Every variable has a value of its type, and main code is at work on a   *)
(* page of memory exactly when it is not idle.                             *)
TypeOK == /\ locked \subseteq 0 .. PageAmount
          /\ hint \in 0 .. PageAmount
          /\ main \in [pc : {"idle", "take", "lock", "hint"},
                       page : Page \cup {None}]
          /\ main.pc # "idle" => main.page \in Page
          /\ held \subseteq Page
          /\ twice \subseteq Page
          /\ raced \in BOOLEAN

(* No free page lies below FirstFreePage, where no search would find it    *)
(* again; the page that main code is about to lock, or for which it is     *)
(* about to lower the hint, is the only exception.                         *)
HintSound == \A p \in Page :
    p < hint => \/ p \in locked
                \/ main.pc \in {"lock", "hint"} /\ p = main.page

(* A page is handed out to one holder, unless an interrupt requested one   *)
(* between the test of a page and the move of the hint in main code.       *)
NoPageTwice == ~raced => twice = {}

(* What the firmware, the kernel, the frame buffer and the status map      *)
(* occupy is never handed out.                                             *)
ReservedKept == held \cap Reserved = {}

(* What requests and frees keep, with an interrupt between any two of the  *)
(* statements of main code.                                                *)
PagesSafe == TypeOK /\ HintSound /\ NoPageTwice /\ ReservedKept
=============================================================================
