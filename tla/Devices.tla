------------------------------- MODULE Devices -------------------------------
(***************************************************************************)
(* What the users of PCI::Enumerate rely on: after a reset it gives the    *)
(* functions of the machine one by one in their order, each of them once,  *)
(* and says that there are no more when it has given them all.  A user may *)
(* leave off at any function.                                              *)
(***************************************************************************)
CONSTANTS Function,            \* what a function may be
          Before(_, _)         \* their order

VARIABLES visible,   \* the functions of this machine
          given,     \* those given since the reset
          asking     \* a user is going through them

Init == visible \subseteq Function /\ given = {} /\ asking = FALSE

Reset == ~asking /\ asking' = TRUE /\ given' = {} /\ UNCHANGED visible

Give == /\ asking
        /\ \E f \in visible \ given :
              /\ \A g \in visible \ given : g # f => Before(f, g)
              /\ given' = given \cup {f}
        /\ asking' \in BOOLEAN
        /\ UNCHANGED visible

NoMore == asking /\ given = visible /\ asking' = FALSE /\ UNCHANGED <<visible, given>>

Next == Reset \/ Give \/ NoMore

Spec == Init /\ [][Next]_<<visible, given, asking>>
=============================================================================
