-------------------------------- MODULE Items --------------------------------
(***************************************************************************)
(* What STL::List promises: a sequence.                                    *)
(***************************************************************************)
EXTENDS Naturals, Sequences, SequencesExt

CONSTANT Element

VARIABLE items

Init == items = <<>>

Push(e)  == items' = Append(items, e)
Erase(k) == items' = RemoveAt(items, k)
Clear    == items' = <<>>

Next == \/ \E e \in Element : Push(e)
        \/ \E k \in DOMAIN items : Erase(k)
        \/ Clear

Spec == Init /\ [][Next]_items
=============================================================================
