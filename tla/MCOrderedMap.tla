----------------------------- MODULE MCOrderedMap -----------------------------
(* OrderedMapProps with two maps and four items, and fewer keys than items.  *)
(* Items and keys are interchangeable: what the code chooses by, it has found *)
(* by an equality that only one item satisfies.                               *)
EXTENDS OrderedMapProps, TLC

CONSTANTS x1, x2, x3, x4, k1, k2, k3

SomeItems == {x1, x2, x3, x4}
SomeKeys == {k1, k2, k3}
Interchangeable == Permutations(SomeItems) \cup Permutations(SomeKeys)
=============================================================================
