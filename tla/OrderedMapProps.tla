---------------------------- MODULE OrderedMapProps ----------------------------
(* What OrderedMap keeps true, and the keyed sequences it implements. *)
EXTENDS OrderedMap

Results == [map: Maps, key: Keys, at: Nat, done: BOOLEAN]

\* The types of the representations; TypeCorrect proves it, and no run repeats it.
TypeOK == /\ vect \in [Maps -> Seq(Items)]
          /\ tree \in [Maps -> SUBSET Items]
          /\ key \in [Items -> Keys]
          /\ filed \in [Items -> Keys \cup {Null}]
          /\ index \in [Items -> Nat \cup {NoIndex}]
          /\ returned \in Results \cup {Null}

Positions(m) == 1..Len(vect[m])
ItemsOf(m) == {vect[m][i] : i \in Positions(m)}

\* Every item of every vector knows where it is (erase, index_of, iterator_to and
\* what find returns all go by it), and one that is in no vector says so: insert
\* takes this as the proof that it can be added.
IndicesAgree ==
  /\ \A m \in Maps : \A i \in Positions(m) : index[vect[m][i]] = i - 1
  /\ \A x \in Items : index[x] # NoIndex => \E m \in Maps : x \in ItemsOf(m)

\* Vector and tree have the same items, also after an insertion that failed for
\* want of memory, and no item is in two maps.
TreeMatchesVector ==
  /\ \A m \in Maps : tree[m] = ItemsOf(m)
  /\ \A m, o \in Maps : m # o => tree[m] \cap tree[o] = {}

\* No two items of a map are filed under one key, however keys are changed in
\* place and changed back before key_change() is called; and an item is filed
\* exactly while it is in a tree.
KeysDistinct ==
  /\ \A m \in Maps : \A x, y \in tree[m] : filed[x] = filed[y] => x = y
  /\ \A x \in Items : filed[x] # Null <=> \E m \in Maps : x \in tree[m]

\* The three representations of a map agree, whatever fails half way.
RepresentationsAgree == IndicesAgree /\ TreeMatchesVector /\ KeysDistinct

\* In a map that is in order find() and count() see what going through the vector
\* would, and checked_iterator_to(T&) gives the place of an item of this map
\* and end() for any other, in order or not.
LookupsExact ==
  \A m \in Maps :
    /\ InOrder(tree[m]) =>
         \A k \in Keys :
           LET S == {i \in Positions(m) : key[vect[m][i]] = k}
           IN  IF S = {} THEN Find(m, k) = Len(vect[m]) ELSE S = {Find(m, k) + 1}
    /\ \A x \in Items :
         IF x \in ItemsOf(m) THEN vect[m][CheckedIteratorTo(m, x) + 1] = x
         ELSE CheckedIteratorTo(m, x) = Len(vect[m])
-----------------------------------------------------------------------------
\* The items of the maps whose key is not the one they are filed under.
Stale == {x \in Items : filed[x] \notin {Null, key[x]}}

AsSequences == INSTANCE KeyedSequences WITH content <- vect, stale <- Stale

\* Vector, tree and indices together implement a sequence with distinct keys: a
\* map changes as one, and the iterators that insert and key_change return point
\* at an item with the key they were asked for.
ImplementsKeyedSequences == AsSequences!Spec
=============================================================================
