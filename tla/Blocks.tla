------------------------------- MODULE Blocks -------------------------------
(***************************************************************************)
(* What a heap promises its callers: the blocks that it has handed out and *)
(* not taken back do not overlap.  Where a block lies is the heap's choice.*)
(***************************************************************************)
EXTENDS Integers, FiniteSets

VARIABLE blocks     \* the live blocks, [at, size]

Apart(b, c) == b.at + b.size <= c.at \/ c.at + c.size <= b.at

Init == blocks = {}

(* Malloc: one block more, apart from those before it.                     *)
Malloc == \E b \in blocks' \ blocks :
            /\ blocks' = blocks \cup {b}
            /\ \A c \in blocks : Apart(b, c)

(* Free: one block less.                                                   *)
Release == \E b \in blocks : blocks' = blocks \ {b}

Next == Malloc \/ Release

Spec == Init /\ [][Next]_blocks
=============================================================================
