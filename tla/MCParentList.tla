----------------------------- MODULE MCParentList -----------------------------
(* ParentListProps with two lists and four nodes with two keys, so that nodes *)
(* that compare equal are there to be told apart.                             *)
EXTENDS ParentListProps

CONSTANTS n1, n2, n3, n4

TwoKeys == [n \in Nodes |-> IF n \in {n1, n3} THEN 1 ELSE 2]
=============================================================================
