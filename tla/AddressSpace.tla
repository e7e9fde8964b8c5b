---------------------------- MODULE AddressSpace ----------------------------
(***************************************************************************)
(* What the page tables are for: a map from virtual to physical pages in   *)
(* which a page is what MapAddress last made it.                           *)
(***************************************************************************)
CONSTANTS Virtual, Page, Absent

VARIABLE map

Init == map = [v \in Virtual |-> Absent]

MapAddress == \E v \in Virtual : map'[v] \in Page /\ map' = [map EXCEPT ![v] = map'[v]]

Spec == Init /\ [][MapAddress]_map
=============================================================================
