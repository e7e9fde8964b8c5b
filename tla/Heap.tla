-------------------------------- MODULE Heap --------------------------------
(***************************************************************************)
(* The kernel heap: a linked list of segments, each a header and the bytes *)
(* after it, that Allocate searches first-fit and splits, Free merges and  *)
(* Reserve extends after LastSegment, mapping new pages there.  Addresses  *)
(* are offsets from HEAP_START.                                            *)
(*                                                                         *)
(* The list is a sequence in the order of the Next pointers.  A header     *)
(* that the list has lost stays in memory; LastSegment may name one.       *)
(* Calls are whole: allocations inside interrupts are not interleaved.     *)
(***************************************************************************)
EXTENDS Integers, Sequences, FiniteSets, SequencesExt

CONSTANTS Header,       \* sizeof(Segment), 24
          Quantum,      \* 64, the granularity of sizes
          PageSize,     \* 4096
          MinSplit,     \* 4096, the least rest for which Split splits
          StartSize,    \* HEAP_STARTSIZE
          Word,         \* the first number that a uint64_t does not hold
          Requests,     \* the sizes that callers ask for
          MaxBlocks,    \* bound: live blocks
          MaxAllocations  \* bound: calls of Allocate

HeapAssumption ==
    /\ {Header, Quantum, PageSize, MinSplit, StartSize, Word} \subseteq Nat \ {0}
    /\ Requests \subseteq Nat \ {0}
    /\ {MaxBlocks, MaxAllocations} \subseteq Nat
    /\ StartSize % PageSize = 0 /\ PageSize % Quantum = 0
    /\ Header <= Quantum /\ PageSize <= MinSplit

VARIABLES segments,     \* the list from FirstSegment on, [at, size, free]
          last,         \* LastSegment
          blocks,       \* history: what callers hold, [at, size]
          lost,         \* history: live blocks whose bytes were mapped anew
          allocations,  \* history: calls of Allocate so far
          stop          \* "", or how the list was destroyed

heapVars == <<segments, last, blocks, lost, allocations, stop>>

Segment(at, size, free) == [at |-> at, size |-> size, free |-> free]

(* Segment::GetStart and GetEnd.                                           *)
Start(s) == s.at + Header

End(s)   == Start(s) + s.size

HeapInit == /\ segments = <<Segment(0, StartSize, TRUE)>>
            /\ last = 0
            /\ blocks = {} /\ lost = {}
            /\ allocations = 0
            /\ stop = ""

-----------------------------------------------------------------------------
(* Slip: a size is rounded down.                                           *)
RoundedDown(size) == size - (size % Quantum)

(* The next multiple of the quantum: sizes that are one already grow too.  *)
Rounded(size) == size + (Quantum - (size % Quantum))

(* What Split leaves over, as an unsigned number.                          *)
Rest(s, size)   == (s.size - size - Header) % Word
Splits(s, size) == s.size >= 64 /\ Rest(s, size) >= MinSplit

(* Split of a segment that is too small for another header: the rest wraps *)
(* around and becomes the size of a segment larger than memory.            *)
Wraps(s, size) == /\ size < s.size /\ s.size < size + Header
                  /\ Splits(s, size)

(* Slip: the rest is not shortened by its own header.                      *)
CutTooLong(s, size) ==
    <<Segment(s.at, size - Header, FALSE),
      Segment(Start(s) + size, s.size - size, TRUE)>>

(* The two segments that Split makes of one; the first loses the header's  *)
(* bytes a second time.                                                    *)
Cut(s, size) == <<Segment(s.at, size - Header, FALSE),
                  Segment(Start(s) + size, Rest(s, size), TRUE)>>

(* Allocate takes the first segment that is large enough.                  *)
Fits(s, size) == s.free /\ s.size >= size

TakeSegment(list, i, size) ==
    LET s == list[i]
    IN IF s.size > size /\ Splits(s, size)
       THEN SubSeq(list, 1, i - 1) \o Cut(s, size) \o SubSeq(list, i + 1, Len(list))
       ELSE [list EXCEPT ![i].free = FALSE]

FirstFit(list, size) == SelectInSeq(list, LAMBDA s : Fits(s, size))

GiveBlock(at, request) == blocks' = blocks \cup {[at |-> at, size |-> request]}
-----------------------------------------------------------------------------
(* Allocate when a segment fits.                                           *)
Allocate(request) ==
    LET size == Rounded(request)
        i    == FirstFit(segments, size)
    IN /\ i # 0
       /\ IF Wraps(segments[i], size)
          THEN stop' = "wrapped" /\ UNCHANGED <<segments, blocks>>
          ELSE /\ segments' = TakeSegment(segments, i, size)
               /\ GiveBlock(Start(segments[i]), request)
               /\ UNCHANGED stop
       /\ UNCHANGED <<last, lost>>

(* The pages that Reserve maps, the one that the heap ends in among them.  *)
Pages(first, size) == LET p == first \div PageSize
                      IN p .. p + (size + Header) \div PageSize

Touches(first, size, pages) ==
    \E p \in pages : first < (p + 1) * PageSize /\ p * PageSize < first + size

(* Reserve puts a segment after LastSegment and makes it the next of that  *)
(* one.  When LastSegment is not the last of the list this drops segments, *)
(* puts the new header into a block or maps anew the page of a header.     *)
LastIndex == SelectInSeq(segments, LAMBDA s : s.at = last)

Extension(size) ==
    Segment(End(segments[LastIndex]), size + (PageSize - (size % PageSize)), TRUE)

Fresh(new) == Pages(new.at, new.size)

Clobbers(new) ==
    \/ \E i \in LastIndex + 1 .. Len(segments) : ~segments[i].free
    \/ \E i \in 1 .. LastIndex : Touches(segments[i].at, Header, Fresh(new))
    \/ \E b \in blocks : b.at < Start(new) /\ new.at < b.at + b.size

(* Allocate when none fits: it reserves and starts over with the rounded   *)
(* size.  When the list has lost LastSegment it does so for ever.          *)
Reserve(request) ==
    LET size == Rounded(request)
        new  == Extension(size)
        list == Append(SubSeq(segments, 1, LastIndex), new)
        i    == FirstFit(list, Rounded(size))
    IN /\ FirstFit(segments, size) = 0
       /\ \/ /\ LastIndex = 0
             /\ stop' = "endless"
             /\ UNCHANGED <<segments, last, blocks, lost>>
          \/ /\ LastIndex # 0
             /\ last' = new.at
             /\ lost' = lost \cup {b \in blocks : Touches(b.at, b.size, Fresh(new))}
             /\ \/ /\ Clobbers(new)
                   /\ stop' = "clobbered"
                   /\ segments' = list
                   /\ UNCHANGED blocks
                \/ /\ ~Clobbers(new)
                   /\ segments' = TakeSegment(list, i, Rounded(size))
                   /\ GiveBlock(Start(list[i]), request)
                   /\ UNCHANGED stop

(* Free marks the segment and goes through the list once; a segment that   *)
(* has been merged with its next is not merged with the one after.         *)
Merged(s, t) == [s EXCEPT !.size = @ + t.size + Header]

Visit(swept, s) ==
    IF swept.open /\ Last(swept.list).free /\ s.free
    THEN [list |-> Append(Front(swept.list), Merged(Last(swept.list), s)), open |-> FALSE]
    ELSE [list |-> Append(swept.list, s), open |-> TRUE]

Sweep(list) ==
    LET swept[i \in 0 .. Len(list)] ==
            IF i = 0 THEN [list |-> <<>>, open |-> FALSE] ELSE Visit(swept[i - 1], list[i])
    IN  swept[Len(list)].list

FreeSegment(b) ==
    /\ segments' = Sweep([i \in DOMAIN segments |->
                            IF Start(segments[i]) = b.at
                            THEN [segments[i] EXCEPT !.free = TRUE]
                            ELSE segments[i]])
    /\ blocks' = blocks \ {b}
    /\ lost' = lost \ {b}
    /\ UNCHANGED <<last, allocations, stop>>

HeapNext == /\ stop = ""
            /\ \/ /\ Cardinality(blocks) < MaxBlocks
                  /\ allocations < MaxAllocations
                  /\ allocations' = allocations + 1
                  /\ \E request \in Requests : Allocate(request) \/ Reserve(request)
               \/ \E b \in blocks : FreeSegment(b)

HeapSpec == HeapInit /\ [][HeapNext]_heapVars
-----------------------------------------------------------------------------
(* Every variable has a value of its type.                                 *)
HeapTypeOK == /\ \A i \in DOMAIN segments :
                     segments[i] \in [at : Nat, size : Nat, free : BOOLEAN]
              /\ last \in Nat
              /\ \A b \in blocks : b \in [at : Nat, size : Requests]
              /\ lost \subseteq blocks
              /\ allocations \in 0 .. MaxAllocations
              /\ stop \in {"", "wrapped", "endless", "clobbered"}

Intact == stop = ""

(* The segments of the list lie one after the other in memory.             *)
Tiled == Intact => \A i \in 1 .. Len(segments) - 1 :
                      End(segments[i]) <= segments[i + 1].at

(* Each segment in use is the one of a live block, which ends before the   *)
(* next header or the heap's end: no block is leaked or runs into another. *)
BlocksInSegments ==
    Intact =>
    /\ Cardinality(blocks) = Cardinality({i \in DOMAIN segments : ~segments[i].free})
    /\ \A b \in blocks : \E i \in DOMAIN segments :
         /\ ~segments[i].free
         /\ Start(segments[i]) = b.at
         /\ b.at + b.size <= IF i = Len(segments) THEN End(segments[i])
                                                  ELSE segments[i + 1].at

(* Free merges only pairs in one pass, and still no more than two free     *)
(* segments ever lie next to each other.                                   *)
AtMostTwoFree == Intact => \A i \in 1 .. Len(segments) - 2 :
    ~(segments[i].free /\ segments[i + 1].free /\ segments[i + 2].free)

(* As long as LastSegment is the last of the list, Reserve destroys no     *)
(* header and maps anew at most the end of that segment's own block.       *)
AtEnd == last = Last(segments).at

ReserveAtEnd ==
    [][ AtEnd => /\ stop' \in {"", "wrapped"}
                 /\ \A b \in lost' \ lost : b.at = Start(Last(segments)) ]_heapVars

(* The manual: heapvis "Shows a visualization of all the segments in the   *)
(* heap" (System.cpp:341): each block's segment is on the list it walks.   *)
AllShown == \A b \in blocks : \E i \in DOMAIN segments : Start(segments[i]) = b.at

(* The heap keeps the promise of Blocks, and as long as LastSegment is the *)
(* last of the list Reserve spoils none of the blocks that are out.        *)
Callers == INSTANCE Blocks
ImplementsBlocks == ReserveAtEnd /\ Callers!Spec

(* What Allocate and Free keep over any sequence of calls, up to the one in *)
(* which the code destroys a header or never returns.                      *)
HeapSafe == HeapTypeOK /\ Tiled /\ BlocksInSegments /\ AtMostTwoFree
=============================================================================
