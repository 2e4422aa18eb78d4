------------------------------ MODULE OrderedMap ------------------------------
(***************************************************************************)
(* container/ordered_map.hpp: a map that is kept three times over.  vect is *)
(* the vector of its items in the order of the user, tree the intrusive set *)
(* that finds them by key, and index is written in the item: where in the   *)
(* vector it is, NoIndex for an item that is in no map.                     *)
(*                                                                         *)
(* The key of an item can be changed in place; the tree has it where it was *)
(* (filed) until key_change() is called.  Until then the tree may not be    *)
(* searched, since what a search finds depends on the shape of the tree.    *)
(*                                                                         *)
(* Positions count from 0, as in the code.  A check that fails changes      *)
(* nothing, so only calls that pass their checks are steps.                 *)
(***************************************************************************)
EXTENDS Naturals, Sequences

CONSTANTS Maps, Items, Keys, Null,
          NoIndex    \* OrderedMapItem::NO_INDEX, greater than every size

ASSUME MapAssumption == NoIndex \notin Nat /\ Null \notin Keys

VARIABLES vect, tree,  \* of each map
          key,         \* what Traits{}(item) is now
          filed,       \* the key by which the item was put into its tree, or Null
          index,       \* vector_index of each item
          returned     \* the result of the last operation, or Null

vars == <<vect, tree, key, filed, index, returned>>

Init == /\ vect = [m \in Maps |-> <<>>]
        /\ tree = [m \in Maps |-> {}]
        /\ key \in [Items -> Keys]
        /\ filed = [x \in Items |-> Null]
        /\ index = [x \in Items |-> NoIndex]
        /\ returned = Null
-----------------------------------------------------------------------------
\* A search of the tree is only defined while it is in order.
InOrder(S) == \A x \in S : filed[x] = key[x]
FoundIn(S, k) == {x \in S : filed[x] = k}

Before(s, p, x) == SubSeq(s, 1, p) \o <<x>> \o SubSeq(s, p + 1, Len(s))
Without(s, b, e) == SubSeq(s, 1, b) \o SubSeq(s, e + 1, Len(s))

\* The items from position b on are told where they are.
FixupIndex(idx, s, b) ==
  [x \in Items |-> IF \E i \in (b + 1)..Len(s) : s[i] = x
                   THEN (CHOOSE i \in (b + 1)..Len(s) : s[i] = x) - 1 ELSE idx[x]]

RemoveItems(idx, S) == [x \in Items |-> IF x \in S THEN NoIndex ELSE idx[x]]
Unfile(S) == filed' = [x \in Items |-> IF x \in S THEN Null ELSE filed[x]]

\* What is at positions b to e - 1.
Slice(s, b, e) == {s[i] : i \in (b + 1)..e}

Found(m, x, k, idx, done) == [map |-> m, key |-> k, at |-> idx[x], done |-> done]
-----------------------------------------------------------------------------
\* insert_check() finds an item: it is returned, and t is given up.
InsertFound(m, x) ==
  /\ index[x] = NoIndex /\ InOrder(tree[m])
  /\ \E y \in FoundIn(tree[m], key[x]) : returned' = Found(m, y, key[x], index, FALSE)
  /\ UNCHANGED <<vect, tree, key, filed, index>>

\* A mutant of InsertNew: insert_commit() before the vector has made room.
InsertNewCommitFirst(m, p, x) ==
  /\ index[x] = NoIndex /\ InOrder(tree[m]) /\ FoundIn(tree[m], key[x]) = {}
  /\ tree' = [tree EXCEPT ![m] = @ \cup {x}]
  /\ filed' = [filed EXCEPT ![x] = key[x]]
  /\ \/ /\ vect' = [vect EXCEPT ![m] = Before(@, p, x)]
        /\ index' = FixupIndex(index, vect'[m], p)
        /\ returned' = Found(m, x, key[x], index', TRUE)
     \/ UNCHANGED <<vect, index>> /\ returned' = Null
  /\ UNCHANGED key

\* InsertGen() of an item with a new key: insert, emplace, push_back and
\* emplace_back.  vect.insert() may throw, and has then changed nothing.
InsertNew(m, p, x) ==
  /\ index[x] = NoIndex /\ InOrder(tree[m]) /\ FoundIn(tree[m], key[x]) = {}
  /\ \/ /\ vect' = [vect EXCEPT ![m] = Before(@, p, x)]
        /\ index' = FixupIndex(index, vect'[m], p)
        /\ tree' = [tree EXCEPT ![m] = @ \cup {x}]
        /\ filed' = [filed EXCEPT ![x] = key[x]]
        /\ returned' = Found(m, x, key[x], index', TRUE)
     \/ UNCHANGED <<vect, tree, filed, index>> /\ returned' = Null
  /\ UNCHANGED key

\* erase(), of one item or of a range.
Erase(m, b, e) ==
  /\ b <= e
  /\ LET gone == Slice(vect[m], b, e) IN
     /\ vect' = [vect EXCEPT ![m] = Without(@, b, e)]
     /\ tree' = [tree EXCEPT ![m] = @ \ gone]
     /\ index' = FixupIndex(RemoveItems(index, gone), vect'[m], b)
     /\ Unfile(gone)
  /\ returned' = Null
  /\ UNCHANGED key

\* pop_back() takes the item out of the tree by its key.
PopBack(m) ==
  /\ vect[m] # <<>> /\ InOrder(tree[m])
  /\ LET last == vect[m][Len(vect[m])]
         gone == FoundIn(tree[m], key[last])
     IN  /\ index' = RemoveItems(index, {last})
         /\ tree' = [tree EXCEPT ![m] = @ \ gone]
         /\ Unfile(gone)
  /\ vect' = [vect EXCEPT ![m] = Without(@, Len(@) - 1, Len(@))]
  /\ returned' = Null
  /\ UNCHANGED key

\* clear() and the destructor.
Clear(m) ==
  /\ index' = RemoveItems(index, Slice(vect[m], 0, Len(vect[m])))
  /\ vect' = [vect EXCEPT ![m] = <<>>]
  /\ tree' = [tree EXCEPT ![m] = {}]
  /\ Unfile(tree[m])
  /\ returned' = Null
  /\ UNCHANGED key

\* The user changes a key in place; the map is not told.
SetKey(x, k) ==
  /\ k # key[x]
  /\ key' = [key EXCEPT ![x] = k]
  /\ returned' = Null
  /\ UNCHANGED <<vect, tree, filed, index>>

\* A mutant of KeyChange: the place of the item that has the key is looked up
\* before the other one is erased.
KeyChangeStale(m, p) ==
  LET x == vect[m][p + 1]
      taken == FoundIn(tree[m] \ {x}, key[x])
  IN  /\ InOrder(tree[m] \ {x})
      /\ \/ /\ taken = {}
            /\ filed' = [filed EXCEPT ![x] = key[x]]
            /\ returned' = Found(m, x, key[x], index, TRUE)
            /\ UNCHANGED <<vect, tree, index>>
         \/ /\ tree' = [tree EXCEPT ![m] = @ \ {x}]
            /\ Unfile({x})
            /\ vect' = [vect EXCEPT ![m] = Without(@, p, p + 1)]
            /\ index' = FixupIndex(RemoveItems(index, {x}), vect'[m], p)
            /\ \E y \in taken : returned' = Found(m, y, key[x], index, FALSE)
      /\ UNCHANGED key

\* key_change(): out of the tree, and into it again by the new key.  If that is
\* taken, out of the vector too, and the item that has it is returned.
KeyChange(m, p) ==
  LET x == vect[m][p + 1]
      taken == FoundIn(tree[m] \ {x}, key[x])
  IN  /\ InOrder(tree[m] \ {x})
      /\ \/ /\ taken = {}
            /\ filed' = [filed EXCEPT ![x] = key[x]]
            /\ returned' = Found(m, x, key[x], index, TRUE)
            /\ UNCHANGED <<vect, tree, index>>
         \/ /\ tree' = [tree EXCEPT ![m] = @ \ {x}]
            /\ Unfile({x})
            /\ vect' = [vect EXCEPT ![m] = Without(@, p, p + 1)]
            /\ index' = FixupIndex(RemoveItems(index, {x}), vect'[m], p)
            /\ \E y \in taken : returned' = Found(m, y, key[x], index', FALSE)
      /\ UNCHANGED key

\* swap(), and the move constructor, for which m is a new map.
Swap(m, o) ==
  /\ vect' = [vect EXCEPT ![m] = vect[o], ![o] = vect[m]]
  /\ tree' = [tree EXCEPT ![m] = tree[o], ![o] = tree[m]]
  /\ returned' = Null
  /\ UNCHANGED <<key, filed, index>>
-----------------------------------------------------------------------------
(* What reads.  A position that is the size of the vector is end().        *)

\* find(key), count(key).
Find(m, k) ==
  LET S == FoundIn(tree[m], k)
  IN  IF S = {} THEN Len(vect[m]) ELSE index[CHOOSE x \in S : TRUE]

\* VectorIndex(t) < size(): NoIndex is greater than every size.
WithinSize(m, x) == index[x] # NoIndex /\ index[x] < Len(vect[m])

\* A mutant of CheckedIteratorTo: that some item is there is enough.
CheckedIteratorToAny(m, x) == IF WithinSize(m, x) THEN index[x] ELSE Len(vect[m])

\* checked_iterator_to(T&).
CheckedIteratorTo(m, x) ==
  IF WithinSize(m, x) /\ vect[m][index[x] + 1] = x THEN index[x] ELSE Len(vect[m])
-----------------------------------------------------------------------------
Operation(m) ==
  \/ \E x \in Items : InsertFound(m, x) \/ \E p \in 0..Len(vect[m]) : InsertNew(m, p, x)
  \/ \E b, e \in 0..Len(vect[m]) : Erase(m, b, e)
  \/ PopBack(m) \/ Clear(m)
  \/ \E i \in DOMAIN vect[m] : KeyChange(m, i - 1)
  \/ \E o \in Maps : Swap(m, o)

Next == \/ \E m \in Maps : Operation(m)
        \/ \E x \in Items, k \in Keys : SetKey(x, k)

Spec == Init /\ [][Next]_vars
=============================================================================
