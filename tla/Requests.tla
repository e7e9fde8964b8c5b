------------------------------ MODULE Requests ------------------------------
(***************************************************************************)
(* What Process::PushRequest and Process::PopRequest promise and what      *)
(* ProcessHandler takes them for: a bounded stack whose two operations are *)
(* single steps, a push on a full or minimized process being refused.  The *)
(* promise ends with the first race (raced): an interrupt that pushes      *)
(* while main code is between two accesses of the same stack.              *)
(***************************************************************************)
EXTENDS Integers, Sequences

CONSTANTS Capacity,  \* slots of Process::Requests
          Item       \* what is pushed

VARIABLES stack,     \* the requests pushed and not yet popped
          raced

Init == stack = <<>> /\ raced = FALSE

Push == /\ Len(stack) < Capacity
        /\ \E r \in Item : stack' = Append(stack, r)
        /\ raced' = raced

Pop == /\ stack # <<>>
       /\ stack' = SubSeq(stack, 1, Len(stack) - 1)
       /\ raced' = raced

Race == raced' = TRUE

Next == Race \/ (~raced /\ (Push \/ Pop))

Spec == Init /\ [][Next]_<<stack, raced>>
=============================================================================
