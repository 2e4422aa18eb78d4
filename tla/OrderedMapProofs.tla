--------------------------- MODULE OrderedMapProofs ---------------------------
(* Theorems about OrderedMap, for all sets of maps, items and keys. *)
EXTENDS OrderedMapProps, SequenceTheorems, TLAPS

IInv == TypeOK /\ IndicesAgree /\ TreeMatchesVector /\ KeysDistinct

-----------------------------------------------------------------------------
(* The helpers on sequences and indices.                                   *)

\* Before puts one element in, and moves what is behind it by one.
LEMMA BeforeFacts ==
  ASSUME NEW S, NEW s \in Seq(S), NEW p \in 0..Len(s), NEW x \in S
  PROVE  /\ Before(s, p, x) \in Seq(S)
         /\ Len(Before(s, p, x)) = Len(s) + 1
         /\ \A i \in 1..(Len(s) + 1) :
              Before(s, p, x)[i] = IF i <= p THEN s[i] ELSE IF i = p + 1 THEN x ELSE s[i - 1]
<1> DEFINE l == SubSeq(s, 1, p)
           r == SubSeq(s, p + 1, Len(s))
<1>0. Len(s) \in Nat /\ p \in Nat
  OBVIOUS
<1>1. l \in Seq(S) /\ Len(l) = p /\ \A i \in 1..p : l[i] = s[i]
  OBVIOUS
<1>2. r \in Seq(S) /\ Len(r) = Len(s) - p /\ \A i \in 1..(Len(s) - p) : r[i] = s[i + p]
  OBVIOUS
<1>3. <<x>> \in Seq(S) /\ Len(<<x>>) = 1 /\ <<x>>[1] = x
  OBVIOUS
<1> HIDE DEF l, r
<1> DEFINE lx == l \o <<x>>
<1>4. lx \in Seq(S) /\ Len(lx) = p + 1
      /\ (\A i \in 1..p : lx[i] = s[i]) /\ lx[p + 1] = x
  BY <1>1, <1>3
<1> HIDE DEF lx
<1>5. lx \o r \in Seq(S) /\ Len(lx \o r) = Len(s) + 1
  <2>1. lx \o r \in Seq(S) /\ Len(lx \o r) = Len(lx) + Len(r)
    BY <1>2, <1>4, ConcatProperties
  <2>2. Len(lx) + Len(r) = Len(s) + 1
    BY <1>2, <1>4
  <2> QED BY <2>1, <2>2
<1>6. \A i \in 1..(p + 1) : (lx \o r)[i] = lx[i]
  BY <1>2, <1>4
<1>7. ASSUME NEW i \in (p + 2)..(Len(s) + 1) PROVE (lx \o r)[i] = s[i - 1]
  <2>1. (lx \o r)[i] = r[i - (p + 1)]
    BY <1>2, <1>4
  <2>2. r[i - (p + 1)] = s[i - 1]
    BY <1>2
  <2> QED BY <2>1, <2>2
<1> DEFINE w == lx \o r
<1>8. Before(s, p, x) = w
  BY DEF Before, lx, l, r
<1>10. /\ w \in Seq(S) /\ Len(w) = Len(s) + 1
       /\ \A i \in 1..p : w[i] = s[i]
       /\ w[p + 1] = x
       /\ \A i \in (p + 2)..(Len(s) + 1) : w[i] = s[i - 1]
  BY <1>0, <1>4, <1>5, <1>6, <1>7
<1> HIDE DEF w
<1>9. ASSUME NEW i \in 1..(Len(s) + 1)
      PROVE w[i] = IF i <= p THEN s[i] ELSE IF i = p + 1 THEN x ELSE s[i - 1]
  BY <1>0, <1>10
<1> QED BY <1>8, <1>9, <1>10

\* The same for all sequences of items.
LEMMA BeforeItems ==
  \A t \in Seq(Items), x \in Items : \A q \in 0..Len(t) :
     /\ Before(t, q, x) \in Seq(Items) /\ Len(Before(t, q, x)) = Len(t) + 1
     /\ \A i \in 1..(Len(t) + 1) :
          Before(t, q, x)[i] = IF i <= q THEN t[i] ELSE IF i = q + 1 THEN x ELSE t[i - 1]
BY BeforeFacts

\* Without takes the elements b + 1 to e out.
LEMMA WithoutFacts ==
  ASSUME NEW S, NEW s \in Seq(S), NEW b \in 0..Len(s), NEW e \in b..Len(s)
  PROVE  /\ Without(s, b, e) \in Seq(S)
         /\ Len(Without(s, b, e)) = Len(s) - (e - b)
         /\ \A i \in 1..(Len(s) - (e - b)) :
              Without(s, b, e)[i] = IF i <= b THEN s[i] ELSE s[i + (e - b)]
<1> DEFINE l == SubSeq(s, 1, b)
           r == SubSeq(s, e + 1, Len(s))
<1>0. Len(s) \in Nat /\ b \in Nat /\ e \in Nat
  OBVIOUS
<1>1. l \in Seq(S) /\ Len(l) = b /\ \A i \in 1..b : l[i] = s[i]
  OBVIOUS
<1>2. r \in Seq(S) /\ Len(r) = Len(s) - e /\ \A i \in 1..(Len(s) - e) : r[i] = s[i + e]
  OBVIOUS
<1> HIDE DEF l, r
<1>3. l \o r \in Seq(S) /\ Len(l \o r) = Len(s) - (e - b)
  <2>1. l \o r \in Seq(S) /\ Len(l \o r) = Len(l) + Len(r)
    BY <1>1, <1>2, ConcatProperties
  <2>2. Len(l) + Len(r) = Len(s) - (e - b)
    BY <1>1, <1>2
  <2> QED BY <2>1, <2>2
<1>4. \A i \in 1..b : (l \o r)[i] = s[i]
  BY <1>1, <1>2
<1>5. ASSUME NEW i \in (b + 1)..(Len(s) - (e - b)) PROVE (l \o r)[i] = s[i + (e - b)]
  <2>1. (l \o r)[i] = r[i - b]
    BY <1>1, <1>2
  <2>2. i - b \in 1..(Len(s) - e) /\ (i - b) + e = i + (e - b)
    OBVIOUS
  <2> QED BY <1>2, <2>1, <2>2
<1> DEFINE w == l \o r
<1>6. Without(s, b, e) = w
  BY DEF Without, l, r
<1>8. /\ w \in Seq(S) /\ Len(w) = Len(s) - (e - b)
      /\ \A i \in 1..b : w[i] = s[i]
      /\ \A i \in (b + 1)..(Len(s) - (e - b)) : w[i] = s[i + (e - b)]
  <2>1. w \in Seq(S) /\ Len(w) = Len(s) - (e - b)
    BY <1>3
  <2>2. \A i \in 1..b : w[i] = s[i]
    BY <1>4
  <2>3. \A i \in (b + 1)..(Len(s) - (e - b)) : w[i] = s[i + (e - b)]
    BY <1>5
  <2> QED BY <2>1, <2>2, <2>3
<1> HIDE DEF w
<1>7. ASSUME NEW i \in 1..(Len(s) - (e - b))
      PROVE w[i] = IF i <= b THEN s[i] ELSE s[i + (e - b)]
  <2>1. i \in Nat
    BY <1>0
  <2>2. CASE i <= b
    BY <1>0, <1>8, <2>1, <2>2
  <2>3. CASE ~(i <= b)
    <3>1. i \in (b + 1)..(Len(s) - (e - b))
      BY <1>0, <2>1, <2>3
    <3> QED BY <1>8, <2>3, <3>1
  <2> QED BY <2>2, <2>3
<1> QED BY <1>6, <1>7, <1>8

\* FixupIndex makes the items from position b on know their places, and leaves
\* the others alone.
LEMMA FixupFacts ==
  ASSUME NEW s \in Seq(Items), NEW b \in 0..Len(s),
         NEW idx \in [Items -> Nat \cup {NoIndex}],
         \A i, j \in (b + 1)..Len(s) : s[i] = s[j] => i = j
  PROVE  /\ FixupIndex(idx, s, b) \in [Items -> Nat \cup {NoIndex}]
         /\ \A i \in (b + 1)..Len(s) : FixupIndex(idx, s, b)[s[i]] = i - 1
         /\ \A x \in Items : (\A i \in (b + 1)..Len(s) : s[i] # x)
                               => FixupIndex(idx, s, b)[x] = idx[x]
<1> DEFINE Place(x) == CHOOSE i \in (b + 1)..Len(s) : s[i] = x
<1>1. ASSUME NEW x \in Items, \E i \in (b + 1)..Len(s) : s[i] = x
      PROVE Place(x) \in (b + 1)..Len(s) /\ s[Place(x)] = x
  BY <1>1
<1>2. ASSUME NEW i \in (b + 1)..Len(s) PROVE s[i] \in Items /\ Place(s[i]) = i
  <2>1. s[i] \in Items
    OBVIOUS
  <2>2. Place(s[i]) \in (b + 1)..Len(s) /\ s[Place(s[i])] = s[i]
    BY <1>1, <2>1
  <2> QED BY <2>1, <2>2
<1>3. FixupIndex(idx, s, b) =
        [x \in Items |-> IF \E i \in (b + 1)..Len(s) : s[i] = x
                         THEN Place(x) - 1 ELSE idx[x]]
  BY DEF FixupIndex
<1> HIDE DEF Place
<1>4. \A x \in Items : (\E i \in (b + 1)..Len(s) : s[i] = x) => Place(x) - 1 \in Nat
  BY <1>1
<1> QED BY <1>2, <1>3, <1>4
-----------------------------------------------------------------------------
(* The inductive invariant.                                                *)

\* What the invariant says of one map: its items are in the vector once each,
\* where their index says.
LEMMA OneMap ==
  ASSUME IInv, NEW m \in Maps
  PROVE  /\ vect[m] \in Seq(Items) /\ Len(vect[m]) \in Nat
         /\ tree[m] \subseteq Items
         /\ \A i \in 1..Len(vect[m]) : /\ vect[m][i] \in tree[m]
                                       /\ index[vect[m][i]] = i - 1
         /\ \A x \in tree[m] : /\ index[x] \in Nat /\ index[x] + 1 \in 1..Len(vect[m])
                               /\ vect[m][index[x] + 1] = x
         /\ \A i, j \in 1..Len(vect[m]) : vect[m][i] = vect[m][j] => i = j
<1>1. vect[m] \in Seq(Items) /\ tree[m] \subseteq Items
  BY DEF IInv, TypeOK
<1>2. \A i \in 1..Len(vect[m]) : vect[m][i] \in tree[m] /\ index[vect[m][i]] = i - 1
  BY DEF IInv, IndicesAgree, TreeMatchesVector, Positions, ItemsOf
<1>3. ASSUME NEW x \in tree[m]
      PROVE /\ index[x] \in Nat /\ index[x] + 1 \in 1..Len(vect[m])
            /\ vect[m][index[x] + 1] = x
  <2>1. PICK i \in 1..Len(vect[m]) : vect[m][i] = x
    BY DEF IInv, TreeMatchesVector, Positions, ItemsOf
  <2>2. index[x] = i - 1
    BY <1>2, <2>1
  <2> QED BY <2>1, <2>2, <1>1
<1>4. ASSUME NEW i \in 1..Len(vect[m]), NEW j \in 1..Len(vect[m]), vect[m][i] = vect[m][j]
      PROVE i = j
  <2>1. i - 1 = j - 1
    BY <1>2, <1>4
  <2> QED BY <2>1
<1>5. Len(vect[m]) \in Nat
  BY <1>1
<1> QED BY <1>1, <1>2, <1>3, <1>4, <1>5

\* An item without an index is in no map, and no item is in two.
LEMMA Apart ==
  ASSUME IInv, NEW x \in Items
  PROVE  /\ index[x] = NoIndex <=> \A m \in Maps : x \notin tree[m]
         /\ \A m, o \in Maps : x \in tree[m] /\ x \in tree[o] => m = o
<1>1. ASSUME index[x] # NoIndex PROVE \E m \in Maps : x \in tree[m]
  BY <1>1 DEF IInv, IndicesAgree, TreeMatchesVector
<1>2. ASSUME NEW m \in Maps, x \in tree[m] PROVE index[x] # NoIndex
  BY <1>2, OneMap, MapAssumption
<1>3. \A m, o \in Maps : x \in tree[m] /\ x \in tree[o] => m = o
  BY DEF IInv, TreeMatchesVector
<1> QED BY <1>1, <1>2, <1>3

\* A step that gives map m the sequence w, puts exactly these items in the tree
\* and tells each of them its place, and tells those that go that they are in no
\* map, keeps the three in agreement.
LEMMA Rebuild ==
  ASSUME IInv, NEW m \in Maps, NEW w \in Seq(Items),
         vect' = [vect EXCEPT ![m] = w],
         tree' = [tree EXCEPT ![m] = {w[i] : i \in 1..Len(w)}],
         \A i \in 1..Len(w) : index'[w[i]] = i - 1,
         \A x \in tree[m] : (\A i \in 1..Len(w) : w[i] # x) => index'[x] = NoIndex,
         \A x \in Items \ tree[m] :
           (\A i \in 1..Len(w) : w[i] # x) => index'[x] = index[x],
         \A i \in 1..Len(w) : w[i] \in tree[m] \/ index[w[i]] = NoIndex
  PROVE  IndicesAgree' /\ TreeMatchesVector'
<1>1. /\ vect'[m] = w /\ tree'[m] = {w[i] : i \in 1..Len(w)}
      /\ \A o \in Maps \ {m} : vect'[o] = vect[o] /\ tree'[o] = tree[o]
  BY DEF IInv, TypeOK
<1>2. ASSUME NEW o \in Maps \ {m}, NEW x \in tree[o]
      PROVE  x \in Items \ tree[m] /\ (\A i \in 1..Len(w) : w[i] # x) /\ index'[x] = index[x]
  <2>1. x \in Items /\ x \notin tree[m] /\ index[x] # NoIndex
    BY <1>2, Apart, OneMap
  <2>2. \A i \in 1..Len(w) : w[i] # x
    BY <2>1
  <2> QED BY <2>1, <2>2
<1>3. \A o \in Maps : tree'[o] = ItemsOf(o)'
  <2>1. tree'[m] = ItemsOf(m)'
    BY <1>1 DEF ItemsOf, Positions
  <2>2. ASSUME NEW o \in Maps \ {m} PROVE tree'[o] = ItemsOf(o)'
    <3>1. ItemsOf(o)' = ItemsOf(o)
      BY <1>1 DEF ItemsOf, Positions
    <3> QED BY <1>1, <3>1 DEF IInv, TreeMatchesVector
  <2> QED BY <2>1, <2>2
<1>4. ASSUME NEW o \in Maps, NEW q \in Maps, o # q PROVE tree'[o] \cap tree'[q] = {}
  <2>1. CASE o = m
    BY <1>1, <1>2, <1>4, <2>1
  <2>2. CASE q = m
    BY <1>1, <1>2, <1>4, <2>2
  <2>3. CASE o # m /\ q # m
    BY <1>1, <1>4, <2>3 DEF IInv, TreeMatchesVector
  <2> QED BY <2>1, <2>2, <2>3
<1>5. ASSUME NEW o \in Maps, NEW i \in 1..Len(vect'[o]) PROVE index'[vect'[o][i]] = i - 1
  <2>1. CASE o = m
    BY <1>1, <2>1
  <2>2. CASE o # m
    <3>1. vect'[o] = vect[o] /\ i \in 1..Len(vect[o])
      BY <1>1, <2>2
    <3>2. vect[o][i] \in tree[o] /\ index[vect[o][i]] = i - 1
      BY <3>1, OneMap
    <3> QED BY <1>2, <2>2, <3>1, <3>2
  <2> QED BY <2>1, <2>2
<1>6. ASSUME NEW x \in Items, index'[x] # NoIndex PROVE \E o \in Maps : x \in tree'[o]
  <2>1. CASE \E i \in 1..Len(w) : w[i] = x
    BY <1>1, <2>1
  <2>2. CASE \A i \in 1..Len(w) : w[i] # x
    <3>1. x \notin tree[m] /\ index[x] # NoIndex
      BY <1>6, <2>2
    <3>2. PICK o \in Maps : x \in tree[o]
      BY <3>1, Apart
    <3> QED BY <1>1, <3>1, <3>2
  <2> QED BY <2>1, <2>2
<1> QED BY <1>3, <1>4, <1>5, <1>6 DEF IndicesAgree, TreeMatchesVector, Positions

\* The items of gone have left map m, whose vector is now w, and idx tells those
\* in w where they are.
WellErased(m, gone, w, idx) ==
  /\ w \in Seq(Items) /\ idx \in [Items -> Nat \cup {NoIndex}]
  /\ gone \subseteq tree[m]
  /\ {w[i] : i \in 1..Len(w)} = tree[m] \ gone
  /\ \A i \in 1..Len(w) : idx[w[i]] = i - 1
  /\ \A x \in gone : idx[x] = NoIndex
  /\ \A x \in Items \ tree[m] : idx[x] = index[x]

\* When the items b + 1 to e leave the vector of m and the others are told their
\* new places, the indices are right for what is left.
LEMMA ErasedIndices ==
  ASSUME IInv, NEW m \in Maps, NEW b \in 0..Len(vect[m]), NEW e \in b..Len(vect[m])
  PROVE  LET gone == Slice(vect[m], b, e)
             w == Without(vect[m], b, e)
             idx == FixupIndex(RemoveItems(index, gone), w, b)
         IN  WellErased(m, gone, w, idx)
<1> DEFINE s == vect[m]
           d == e - b
           gone == Slice(s, b, e)
           w == Without(s, b, e)
           cleared == RemoveItems(index, gone)
           idx == FixupIndex(cleared, w, b)
<1>0. /\ s \in Seq(Items) /\ Len(s) \in Nat /\ b \in Nat /\ e \in Nat /\ d \in Nat
      /\ tree[m] \subseteq Items
  BY OneMap
<1>1. /\ \A i \in 1..Len(s) : s[i] \in tree[m] /\ index[s[i]] = i - 1
      /\ \A x \in tree[m] : index[x] \in Nat /\ index[x] + 1 \in 1..Len(s) /\ s[index[x] + 1] = x
      /\ \A i, j \in 1..Len(s) : s[i] = s[j] => i = j
  BY OneMap
<1>2. gone = {s[i] : i \in (b + 1)..e}
  BY DEF Slice, gone
<1>3. /\ w \in Seq(Items) /\ Len(w) = Len(s) - d
      /\ \A i \in 1..(Len(s) - d) : w[i] = IF i <= b THEN s[i] ELSE s[i + d]
  BY <1>0, WithoutFacts
<1> HIDE DEF s, d, w, gone, idx
<1>4. Len(w) \in Nat /\ b <= Len(w) /\ e = b + d /\ e <= Len(s)
  BY <1>0, <1>3 DEF s, d
<1>5. ASSUME NEW i \in 1..Len(w)
      PROVE  \E k \in 1..Len(s) : /\ w[i] = s[k] /\ k = IF i <= b THEN i ELSE i + d
                                  /\ k \notin (b + 1)..e
  <2>1. CASE i <= b
    <3>1. w[i] = s[i]
      BY <1>3, <2>1
    <3>2. i \in 1..Len(s) /\ i \notin (b + 1)..e
      BY <1>0, <1>3, <1>4, <2>1
    <3> QED BY <2>1, <3>1, <3>2
  <2>2. CASE ~(i <= b)
    <3>1. w[i] = s[i + d]
      BY <1>3, <2>2
    <3>2. i + d \in 1..Len(s) /\ i + d \notin (b + 1)..e
      BY <1>0, <1>3, <1>4, <2>2
    <3> QED BY <2>2, <3>1, <3>2
  <2> QED BY <2>1, <2>2
<1>6. ASSUME NEW i \in 1..Len(w) PROVE w[i] \in tree[m] \ gone
  <2>1. PICK k \in 1..Len(s) : w[i] = s[k] /\ k \notin (b + 1)..e
    BY <1>5
  <2>2. ASSUME NEW j \in (b + 1)..e PROVE s[j] # s[k]
    BY <1>0, <1>1, <2>1 DEF s
  <2> QED BY <1>1, <1>2, <2>1, <2>2
<1>7. ASSUME NEW x \in tree[m] \ gone PROVE \E i \in 1..Len(w) : w[i] = x
  <2>1. PICK k \in 1..Len(s) : s[k] = x
    BY <1>1
  <2>2. k \notin (b + 1)..e
    BY <1>2, <2>1
  <2>3. CASE k <= b
    BY <1>0, <1>3, <1>4, <2>1, <2>3
  <2>4. CASE ~(k <= b)
    <3>1. k - d \in 1..Len(w) /\ ~(k - d <= b)
      BY <1>0, <1>3, <1>4, <2>2, <2>4
    <3>2. w[k - d] = s[(k - d) + d]
      BY <1>3, <3>1
    <3> QED BY <1>0, <2>1, <3>1, <3>2
  <2> QED BY <2>3, <2>4
<1>8. ASSUME NEW i \in 1..Len(w), NEW j \in 1..Len(w), w[i] = w[j] PROVE i = j
  <2>1. PICK k \in 1..Len(s) : w[i] = s[k] /\ k = IF i <= b THEN i ELSE i + d
    BY <1>5
  <2>2. PICK l \in 1..Len(s) : w[j] = s[l] /\ l = IF j <= b THEN j ELSE j + d
    BY <1>5
  <2>3. k = l
    <3>1. s[k] = s[l]
      BY <1>8, <2>1, <2>2
    <3>2. \A x, y \in 1..Len(s) : s[x] = s[y] => x = y
      BY <1>1
    <3> QED BY <3>1, <3>2
  <2> QED BY <1>0, <1>4, <2>1, <2>2, <2>3
<1>9. /\ cleared \in [Items -> Nat \cup {NoIndex}]
      /\ \A x \in gone : cleared[x] = NoIndex
      /\ \A x \in Items \ gone : cleared[x] = index[x]
  <2>1. gone \subseteq Items
    <3>1. \A i \in (b + 1)..e : i \in 1..Len(s)
      BY <1>0, <1>4
    <3> QED BY <1>0, <1>1, <1>2, <3>1
  <2> QED BY <2>1 DEF RemoveItems, IInv, TypeOK
<1> HIDE DEF cleared
<1>10. /\ idx \in [Items -> Nat \cup {NoIndex}]
       /\ \A i \in (b + 1)..Len(w) : idx[w[i]] = i - 1
       /\ \A x \in Items : (\A i \in (b + 1)..Len(w) : w[i] # x) => idx[x] = cleared[x]
  <2>1. b \in 0..Len(w)
    BY <1>0, <1>4
  <2>2. \A i, j \in (b + 1)..Len(w) : w[i] = w[j] => i = j
    BY <1>0, <1>4, <1>8
  <2>3. idx = FixupIndex(cleared, w, b)
    BY DEF idx
  <2>4. w \in Seq(Items) /\ cleared \in [Items -> Nat \cup {NoIndex}]
    BY <1>3, <1>9
  <2>5. /\ FixupIndex(cleared, w, b) \in [Items -> Nat \cup {NoIndex}]
        /\ \A i \in (b + 1)..Len(w) : FixupIndex(cleared, w, b)[w[i]] = i - 1
        /\ \A x \in Items : (\A i \in (b + 1)..Len(w) : w[i] # x)
                              => FixupIndex(cleared, w, b)[x] = cleared[x]
    BY <2>1, <2>2, <2>4, FixupFacts
  <2> QED BY <2>3, <2>5
<1>11. ASSUME NEW i \in 1..Len(w) PROVE idx[w[i]] = i - 1
  <2>1. CASE i \in (b + 1)..Len(w)
    BY <1>10, <2>1
  <2>2. CASE i \in 1..b
    <3>1. ASSUME NEW j \in (b + 1)..Len(w) PROVE w[j] # w[i]
      <4>1. j \in 1..Len(w) /\ j # i
        BY <1>0, <1>4, <2>2
      <4> QED BY <1>8, <4>1
    <3>2. w[i] \in Items \ gone /\ w[i] = s[i] /\ i \in 1..Len(s)
      BY <1>0, <1>3, <1>4, <1>6, <2>2
    <3>3. idx[w[i]] = cleared[w[i]]
      BY <1>10, <3>1, <3>2
    <3>4. cleared[w[i]] = index[w[i]] /\ index[s[i]] = i - 1
      BY <1>1, <1>9, <3>2
    <3> QED BY <3>2, <3>3, <3>4
  <2>3. i \in 1..b \/ i \in (b + 1)..Len(w)
    BY <1>0, <1>4
  <2> QED BY <2>1, <2>2, <2>3
<1>12. gone \subseteq tree[m]
  <2>1. \A i \in (b + 1)..e : i \in 1..Len(s)
    BY <1>0, <1>4
  <2> QED BY <1>1, <1>2, <2>1
<1>13. ASSUME NEW x \in Items, x \in gone \/ x \notin tree[m] PROVE idx[x] = cleared[x]
  <2>1. \A i \in (b + 1)..Len(w) : w[i] # x
    BY <1>0, <1>4, <1>6, <1>13
  <2> QED BY <1>10, <2>1
<1>14. {w[i] : i \in 1..Len(w)} = tree[m] \ gone
  BY <1>6, <1>7
<1> QED BY <1>0, <1>3, <1>9, <1>10, <1>11, <1>12, <1>13, <1>14
        DEF WellErased, idx, cleared, w, gone, s

\* The same for an item x that has come in at position p.
WellInserted(m, p, x, w, idx) ==
  /\ w \in Seq(Items) /\ idx \in [Items -> Nat \cup {NoIndex}]
  /\ {w[i] : i \in 1..Len(w)} = tree[m] \cup {x}
  /\ \A i \in 1..Len(w) : idx[w[i]] = i - 1
  /\ idx[x] = p
  /\ \A y \in Items \ (tree[m] \cup {x}) : idx[y] = index[y]

LEMMA InsertedIndices ==
  ASSUME IInv, NEW m \in Maps, NEW p \in 0..Len(vect[m]),
         NEW x \in Items, index[x] = NoIndex
  PROVE  LET w == Before(vect[m], p, x)
             idx == FixupIndex(index, w, p)
         IN  WellInserted(m, p, x, w, idx)
<1> DEFINE s == vect[m]
           w == Before(s, p, x)
           idx == FixupIndex(index, w, p)
<1>0. /\ s \in Seq(Items) /\ Len(s) \in Nat /\ p \in Nat /\ p <= Len(s)
      /\ tree[m] \subseteq Items
  BY OneMap
<1>1. /\ \A i \in 1..Len(s) : s[i] \in tree[m] /\ index[s[i]] = i - 1
      /\ \A y \in tree[m] : index[y] \in Nat /\ index[y] + 1 \in 1..Len(s) /\ s[index[y] + 1] = y
      /\ \A i, j \in 1..Len(s) : s[i] = s[j] => i = j
      /\ x \notin tree[m]
  BY OneMap, Apart
<1>2. /\ w \in Seq(Items) /\ Len(w) = Len(s) + 1
      /\ \A i \in 1..(Len(s) + 1) :
           w[i] = IF i <= p THEN s[i] ELSE IF i = p + 1 THEN x ELSE s[i - 1]
  <2>1. /\ Before(s, p, x) \in Seq(Items) /\ Len(Before(s, p, x)) = Len(s) + 1
        /\ \A i \in 1..(Len(s) + 1) :
             Before(s, p, x)[i] = IF i <= p THEN s[i] ELSE IF i = p + 1 THEN x ELSE s[i - 1]
    <3>1. s \in Seq(Items) /\ p \in 0..Len(s) /\ x \in Items
      BY <1>0
    <3> HIDE DEF s, w, idx
    <3> QED BY <3>1, BeforeItems
  <2> QED BY <2>1
<1> HIDE DEF s, w, idx
<1>3. Len(w) \in Nat /\ p + 1 \in 1..Len(w) /\ w[p + 1] = x
  BY <1>0, <1>2
<1>4. ASSUME NEW i \in 1..Len(w), i # p + 1
      PROVE  \E k \in 1..Len(s) : w[i] = s[k] /\ k = IF i <= p THEN i ELSE i - 1
  <2>1. CASE i <= p
    <3>1. w[i] = s[i] /\ i \in 1..Len(s)
      BY <1>0, <1>2, <2>1
    <3> QED BY <2>1, <3>1
  <2>2. CASE ~(i <= p)
    <3>1. w[i] = s[i - 1]
      BY <1>2, <1>4, <2>2
    <3>2. i - 1 \in 1..Len(s)
      BY <1>0, <1>2, <1>4, <2>2
    <3> QED BY <2>2, <3>1, <3>2
  <2> QED BY <2>1, <2>2
<1>5. ASSUME NEW i \in 1..Len(w), i # p + 1 PROVE w[i] \in tree[m] /\ w[i] # x
  BY <1>1, <1>4, <1>5
<1>6. ASSUME NEW y \in tree[m] PROVE \E i \in 1..Len(w) : w[i] = y
  <2>1. PICK k \in 1..Len(s) : s[k] = y
    BY <1>1
  <2>2. CASE k <= p
    <3>1. k \in 1..Len(w) /\ w[k] = s[k]
      BY <1>0, <1>2, <2>2
    <3> QED BY <2>1, <3>1
  <2>3. CASE ~(k <= p)
    <3>1. k + 1 \in 1..Len(w) /\ ~(k + 1 <= p) /\ k + 1 # p + 1 /\ (k + 1) - 1 = k
      BY <1>0, <1>2, <2>3
    <3>2. w[k + 1] = s[(k + 1) - 1]
      BY <1>2, <3>1
    <3> QED BY <2>1, <3>1, <3>2
  <2> QED BY <2>2, <2>3
<1>7. ASSUME NEW i \in 1..Len(w), NEW j \in 1..Len(w), w[i] = w[j] PROVE i = j
  <2>1. CASE i = p + 1 \/ j = p + 1
    BY <1>3, <1>5, <1>7, <2>1
  <2>2. CASE i # p + 1 /\ j # p + 1
    <3>1. PICK k \in 1..Len(s) : w[i] = s[k] /\ k = IF i <= p THEN i ELSE i - 1
      BY <1>4, <2>2
    <3>2. PICK l \in 1..Len(s) : w[j] = s[l] /\ l = IF j <= p THEN j ELSE j - 1
      BY <1>4, <2>2
    <3>3. s[k] = s[l]
      BY <1>7, <3>1, <3>2
    <3>4. k = l
      BY <1>1, <3>3
    <3> QED BY <1>0, <1>3, <2>2, <3>1, <3>2, <3>4
  <2> QED BY <2>1, <2>2
<1>8. /\ idx \in [Items -> Nat \cup {NoIndex}]
      /\ \A i \in (p + 1)..Len(w) : idx[w[i]] = i - 1
      /\ \A y \in Items : (\A i \in (p + 1)..Len(w) : w[i] # y) => idx[y] = index[y]
  <2>1. p \in 0..Len(w) /\ \A i, j \in (p + 1)..Len(w) : w[i] = w[j] => i = j
    BY <1>0, <1>3, <1>7
  <2>2. w \in Seq(Items) /\ index \in [Items -> Nat \cup {NoIndex}]
    BY <1>2 DEF IInv, TypeOK
  <2>3. /\ FixupIndex(index, w, p) \in [Items -> Nat \cup {NoIndex}]
        /\ \A i \in (p + 1)..Len(w) : FixupIndex(index, w, p)[w[i]] = i - 1
        /\ \A y \in Items : (\A i \in (p + 1)..Len(w) : w[i] # y)
                              => FixupIndex(index, w, p)[y] = index[y]
    BY <2>1, <2>2, FixupFacts
  <2> QED BY <2>3 DEF idx
<1>9. ASSUME NEW i \in 1..Len(w) PROVE idx[w[i]] = i - 1
  <2>1. CASE i \in (p + 1)..Len(w)
    BY <1>8, <2>1
  <2>2. CASE i \in 1..p
    <3>1. ASSUME NEW j \in (p + 1)..Len(w) PROVE w[j] # w[i]
      <4>1. j \in 1..Len(w) /\ j # i
        BY <1>0, <1>3, <2>2
      <4> QED BY <1>7, <4>1
    <3>2. w[i] \in Items /\ w[i] = s[i] /\ i \in 1..Len(s)
      BY <1>0, <1>2, <1>3, <2>2
    <3>3. idx[w[i]] = index[w[i]]
      BY <1>8, <3>1, <3>2
    <3> QED BY <1>1, <3>2, <3>3
  <2> QED BY <1>0, <1>3, <2>1, <2>2
<1>10. {w[i] : i \in 1..Len(w)} = tree[m] \cup {x}
  BY <1>3, <1>5, <1>6
<1>11. idx[x] = p
  BY <1>0, <1>3, <1>9
<1>12. ASSUME NEW y \in Items \ (tree[m] \cup {x}) PROVE idx[y] = index[y]
  <2>1. \A i \in (p + 1)..Len(w) : w[i] # y
    BY <1>0, <1>3, <1>5
  <2> QED BY <1>8, <2>1
<1> QED BY <1>2, <1>8, <1>9, <1>10, <1>11, <1>12 
        DEF WellInserted, idx, w, s
-----------------------------------------------------------------------------
(* One lemma for each action.                                              *)

LEMMA InitEstablishes == Init => IInv
<1> SUFFICES ASSUME Init PROVE IInv
  OBVIOUS
<1>1. TypeOK
  BY DEF Init, TypeOK
<1>2. ASSUME NEW m \in Maps PROVE Positions(m) = {} /\ ItemsOf(m) = {}
  <2>1. Len(vect[m]) = 0
    BY DEF Init
  <2>2. Positions(m) = {}
    BY <2>1 DEF Positions
  <2> QED BY <2>2 DEF ItemsOf
<1>3. IndicesAgree
  BY <1>2 DEF Init, IndicesAgree
<1>4. TreeMatchesVector
  BY <1>2 DEF Init, TreeMatchesVector
<1>5. KeysDistinct
  BY DEF Init, KeysDistinct
<1> QED BY <1>1, <1>3, <1>4, <1>5 DEF IInv

LEMMA InsertFoundPreserves ==
  ASSUME IInv, NEW m \in Maps, NEW x \in Items, InsertFound(m, x)
  PROVE  IInv'
<1>1. UNCHANGED <<vect, tree, key, filed, index>>
  BY DEF InsertFound
<1>2. TypeOK'
  <2>1. PICK y \in FoundIn(tree[m], key[x]) : returned' = Found(m, y, key[x], index, FALSE)
    BY DEF InsertFound
  <2>2. index[y] \in Nat /\ key[x] \in Keys
    BY OneMap DEF FoundIn, IInv, TypeOK
  <2>3. returned' \in Results
    BY <2>1, <2>2 DEF Found, Results
  <2> QED BY <1>1, <2>3 DEF IInv, TypeOK
<1>3. IndicesAgree' /\ TreeMatchesVector' /\ KeysDistinct'
  BY <1>1 DEF IInv, IndicesAgree, TreeMatchesVector, KeysDistinct, Positions, ItemsOf
<1> QED BY <1>2, <1>3 DEF IInv

LEMMA InsertNewPreserves ==
  ASSUME IInv, NEW m \in Maps, NEW p \in 0..Len(vect[m]), NEW x \in Items,
         InsertNew(m, p, x)
  PROVE  IInv'
<1>1. CASE UNCHANGED <<vect, tree, filed, index>> /\ returned' = Null
  <2>1. UNCHANGED key
    BY DEF InsertNew
  <2>2. TypeOK'
    BY <1>1, <2>1 DEF IInv, TypeOK
  <2>3. IndicesAgree' /\ TreeMatchesVector'
    BY <1>1 DEF IInv, IndicesAgree, TreeMatchesVector, Positions, ItemsOf
  <2>4. KeysDistinct'
    BY <1>1 DEF IInv, KeysDistinct
  <2> QED BY <2>2, <2>3, <2>4 DEF IInv
<1>2. CASE /\ vect' = [vect EXCEPT ![m] = Before(@, p, x)]
           /\ index' = FixupIndex(index, vect'[m], p)
           /\ tree' = [tree EXCEPT ![m] = @ \cup {x}]
           /\ filed' = [filed EXCEPT ![x] = key[x]]
           /\ returned' = Found(m, x, key[x], index', TRUE)
  <2> DEFINE w == Before(vect[m], p, x)
  <2>0. /\ index[x] = NoIndex /\ InOrder(tree[m]) /\ FoundIn(tree[m], key[x]) = {}
        /\ key' = key
    BY DEF InsertNew
  <2>1. /\ vect' = [vect EXCEPT ![m] = w] /\ vect'[m] = w /\ index' = FixupIndex(index, w, p)
        /\ TypeOK
    BY <1>2 DEF IInv, TypeOK
  <2>2. /\ w \in Seq(Items) /\ index' \in [Items -> Nat \cup {NoIndex}]
        /\ {w[i] : i \in 1..Len(w)} = tree[m] \cup {x}
        /\ \A i \in 1..Len(w) : index'[w[i]] = i - 1
        /\ index'[x] = p
        /\ \A y \in Items \ (tree[m] \cup {x}) : index'[y] = index[y]
    <3>1. WellInserted(m, p, x, w, FixupIndex(index, w, p))
      BY <2>0, InsertedIndices
    <3> HIDE DEF w
    <3>2. WellInserted(m, p, x, w, index')
      BY <2>1, <3>1
    <3> QED BY <3>2 DEF WellInserted
  <2> HIDE DEF w
  <2>3. IndicesAgree' /\ TreeMatchesVector'
    <3>1. tree' = [tree EXCEPT ![m] = {w[i] : i \in 1..Len(w)}]
      BY <1>2, <2>2
    <3>2. \A i \in 1..Len(w) : w[i] \in tree[m] \/ index[w[i]] = NoIndex
      BY <2>0, <2>2
    <3>3. \A y \in tree[m] : ~(\A i \in 1..Len(w) : w[i] # y)
      BY <2>2
    <3>4. \A y \in Items \ tree[m] : (\A i \in 1..Len(w) : w[i] # y) => index'[y] = index[y]
      BY <2>2
    <3> QED BY <2>1, <2>2, <3>1, <3>2, <3>3, <3>4, Rebuild
  <2>4. TypeOK'
    <3>1. returned' \in Results
      BY <1>2, <2>1, <2>2 DEF Found, Results, TypeOK
    <3>2. /\ vect' \in [Maps -> Seq(Items)] /\ tree' \in [Maps -> SUBSET Items]
          /\ filed' \in [Items -> Keys \cup {Null}]
      BY <1>2, <2>1, <2>2 DEF TypeOK
    <3> QED BY <2>0, <2>1, <2>2, <3>1, <3>2 DEF TypeOK
  <2>5. \A o \in Maps : x \notin tree[o]
    BY <2>0, Apart
  <2>6. KeysDistinct'
    <3>1. /\ \A y \in Items \ {x} : filed'[y] = filed[y]
          /\ filed'[x] = key[x] /\ key[x] # Null
          /\ tree'[m] = tree[m] \cup {x} /\ \A o \in Maps \ {m} : tree'[o] = tree[o]
          /\ \A o \in Maps : tree[o] \subseteq Items \ {x}
      BY <1>2, <2>1, <2>5, MapAssumption DEF TypeOK
    <3>2. \A y \in tree[m] : filed[y] # key[x]
      BY <2>0 DEF FoundIn
    <3>3. ASSUME NEW o \in Maps, NEW y \in tree'[o], NEW z \in tree'[o], filed'[y] = filed'[z]
          PROVE  y = z
      <4>1. CASE o = m
        BY <3>1, <3>2, <3>3, <4>1 DEF IInv, KeysDistinct
      <4>2. CASE o # m
        BY <3>1, <3>3, <4>2 DEF IInv, KeysDistinct
      <4> QED BY <4>1, <4>2
    <3>4. ASSUME NEW y \in Items
          PROVE  filed'[y] # Null <=> \E o \in Maps : y \in tree'[o]
      <4>1. CASE y = x
        BY <3>1, <4>1
      <4>2. CASE y # x
        BY <3>1, <4>2 DEF IInv, KeysDistinct
      <4> QED BY <4>1, <4>2
    <3> QED BY <3>3, <3>4 DEF KeysDistinct
  <2> QED BY <2>3, <2>4, <2>6 DEF IInv
<1> QED BY <1>1, <1>2 DEF InsertNew

\* When some items of a map are taken out of its tree, and nothing else is filed
\* anew, keys stay distinct.
LEMMA UnfiledKeepsDistinct ==
  ASSUME IInv, NEW m \in Maps, NEW gone, gone \subseteq tree[m],
         tree' = [tree EXCEPT ![m] = @ \ gone], Unfile(gone)
  PROVE  KeysDistinct' /\ filed' \in [Items -> Keys \cup {Null}]
<1>1. /\ \A x \in gone : filed'[x] = Null
      /\ \A x \in Items \ gone : filed'[x] = filed[x]
      /\ tree'[m] = tree[m] \ gone /\ \A o \in Maps \ {m} : tree'[o] = tree[o]
      /\ \A o \in Maps : tree[o] \subseteq Items
      /\ gone \subseteq Items
  BY DEF Unfile, IInv, TypeOK
<1>2. \A o \in Maps \ {m} : tree[o] \cap gone = {}
  BY <1>1 DEF IInv, TreeMatchesVector
<1>3. ASSUME NEW o \in Maps, NEW x \in tree'[o], NEW y \in tree'[o], filed'[x] = filed'[y]
      PROVE  x = y
  <2>1. x \in tree[o] \ gone /\ y \in tree[o] \ gone
    BY <1>1, <1>2
  <2>2. filed[x] = filed[y]
    BY <1>1, <1>3, <2>1
  <2> QED BY <2>1, <2>2 DEF IInv, KeysDistinct
<1>4. ASSUME NEW x \in Items PROVE filed'[x] # Null <=> \E o \in Maps : x \in tree'[o]
  <2>1. CASE x \in gone
    BY <1>1, <1>2, <2>1
  <2>2. CASE x \notin gone
    <3>1. filed'[x] = filed[x] /\ \A o \in Maps : x \in tree'[o] <=> x \in tree[o]
      BY <1>1, <2>2
    <3> QED BY <3>1 DEF IInv, KeysDistinct
  <2> QED BY <2>1, <2>2
<1>5. filed' \in [Items -> Keys \cup {Null}]
  BY DEF Unfile, IInv, TypeOK
<1> QED BY <1>3, <1>4, <1>5 DEF KeysDistinct

\* When an operation erases a part of the vector, tells the others their places,
\* and takes the same items out of the tree, the invariant is kept.
LEMMA ErasingPreserves ==
  ASSUME IInv, NEW m \in Maps, NEW gone, NEW w, WellErased(m, gone, w, index'),
         vect' = [vect EXCEPT ![m] = w],
         tree' = [tree EXCEPT ![m] = @ \ gone], Unfile(gone),
         key' = key, returned' \in Results \cup {Null}
  PROVE  IInv'
<1>1. /\ w \in Seq(Items) /\ index' \in [Items -> Nat \cup {NoIndex}]
      /\ gone \subseteq tree[m]
      /\ {w[i] : i \in 1..Len(w)} = tree[m] \ gone
      /\ \A i \in 1..Len(w) : index'[w[i]] = i - 1
      /\ \A x \in gone : index'[x] = NoIndex
      /\ \A x \in Items \ tree[m] : index'[x] = index[x]
  BY DEF WellErased
<1>2. IndicesAgree' /\ TreeMatchesVector'
  <2>1. tree' = [tree EXCEPT ![m] = {w[i] : i \in 1..Len(w)}]
    BY <1>1
  <2>2. \A i \in 1..Len(w) : w[i] \in tree[m]
    BY <1>1
  <2>3. \A x \in tree[m] : (\A i \in 1..Len(w) : w[i] # x) => index'[x] = NoIndex
    BY <1>1
  <2> QED BY <1>1, <2>1, <2>2, <2>3, Rebuild
<1>3. KeysDistinct' /\ filed' \in [Items -> Keys \cup {Null}]
  BY <1>1, UnfiledKeepsDistinct
<1>4. vect' \in [Maps -> Seq(Items)] /\ tree' \in [Maps -> SUBSET Items]
  BY <1>1 DEF IInv, TypeOK
<1>5. TypeOK'
  BY <1>1, <1>3, <1>4 DEF IInv, TypeOK
<1> QED BY <1>2, <1>3, <1>5 DEF IInv

LEMMA ErasePreserves ==
  ASSUME IInv, NEW m \in Maps, NEW b \in 0..Len(vect[m]), NEW e \in 0..Len(vect[m]),
         Erase(m, b, e)
  PROVE  IInv'
<1> DEFINE gone == Slice(vect[m], b, e)
           w == Without(vect[m], b, e)
<1>1. e \in b..Len(vect[m])
  BY OneMap DEF Erase
<1>2. WellErased(m, gone, w, FixupIndex(RemoveItems(index, gone), w, b))
  BY <1>1, ErasedIndices
<1>3. /\ vect' = [vect EXCEPT ![m] = w] /\ vect'[m] = w
      /\ tree' = [tree EXCEPT ![m] = @ \ gone]
      /\ index' = FixupIndex(RemoveItems(index, gone), vect'[m], b)
      /\ Unfile(gone) /\ returned' = Null /\ key' = key
  BY DEF Erase, IInv, TypeOK
<1> HIDE DEF gone, w
<1>4. WellErased(m, gone, w, index')
  BY <1>2, <1>3
<1> QED BY <1>3, <1>4, ErasingPreserves

LEMMA PopBackPreserves ==
  ASSUME IInv, NEW m \in Maps, PopBack(m)
  PROVE  IInv'
<1> DEFINE n == Len(vect[m])
           last == vect[m][n]
           w == Without(vect[m], n - 1, n)
<1>1. n \in Nat /\ n # 0 /\ last \in tree[m] /\ last \in Items
  <2>1. n \in Nat /\ vect[m] \in Seq(Items) /\ vect[m] # <<>>
    BY OneMap DEF PopBack
  <2>2. n # 0
    BY <2>1
  <2> QED BY <2>1, <2>2, OneMap
<1>2. FoundIn(tree[m], key[last]) = {last}
  <2>1. \A x \in tree[m] : filed[x] = key[last] => x = last
    BY <1>1 DEF PopBack, InOrder, IInv, KeysDistinct
  <2>2. filed[last] = key[last]
    BY <1>1 DEF PopBack, InOrder
  <2> QED BY <1>1, <2>1, <2>2 DEF FoundIn
<1>3. /\ index' = RemoveItems(index, {last})
      /\ tree' = [tree EXCEPT ![m] = @ \ {last}] /\ Unfile({last})
      /\ vect' = [vect EXCEPT ![m] = w] /\ returned' = Null /\ key' = key
  BY <1>2 DEF PopBack
<1>4. /\ n - 1 \in 0..n /\ n \in (n - 1)..n
      /\ Slice(vect[m], n - 1, n) = {last}
  BY <1>1 DEF Slice
<1>5. WellErased(m, {last}, w, FixupIndex(RemoveItems(index, {last}), w, n - 1))
  BY <1>4, ErasedIndices
<1>6. w \in Seq(Items) /\ Len(w) = n - 1
  <2>1. vect[m] \in Seq(Items)
    BY OneMap
  <2>2. Len(w) = n - (n - (n - 1)) /\ w \in Seq(Items)
    BY <1>4, <2>1, WithoutFacts, ZenonT(40)
  <2> QED BY <1>1, <2>2
<1>7. FixupIndex(RemoveItems(index, {last}), w, n - 1) = RemoveItems(index, {last})
  <2>1. ~ \E i \in ((n - 1) + 1)..Len(w) : TRUE
    BY <1>1, <1>6
  <2> QED BY <2>1 DEF FixupIndex, RemoveItems
<1> HIDE DEF w, n, last
<1>8. WellErased(m, {last}, w, index')
  BY <1>3, <1>5, <1>7
<1> QED BY <1>3, <1>8, ErasingPreserves

LEMMA ClearPreserves ==
  ASSUME IInv, NEW m \in Maps, Clear(m)
  PROVE  IInv'
<1>1. Slice(vect[m], 0, Len(vect[m])) = tree[m]
  <2>1. \A i \in (0 + 1)..Len(vect[m]) : i \in 1..Len(vect[m])
    BY OneMap
  <2>2. 1..Len(vect[m]) = (0 + 1)..Len(vect[m])
    BY OneMap
  <2> QED BY <2>1, <2>2 DEF Slice, IInv, TreeMatchesVector, ItemsOf, Positions
<1>2. /\ index' = RemoveItems(index, tree[m])
      /\ vect' = [vect EXCEPT ![m] = <<>>]
      /\ tree' = [tree EXCEPT ![m] = @ \ tree[m]]
      /\ Unfile(tree[m]) /\ returned' = Null /\ key' = key
  BY <1>1 DEF Clear, IInv, TypeOK
<1>3. WellErased(m, tree[m], <<>>, index')
  <2>1. <<>> \in Seq(Items) /\ 1..Len(<<>>) = {}
    OBVIOUS
  <2>2. tree[m] \subseteq Items
    BY OneMap
  <2>3. /\ index' \in [Items -> Nat \cup {NoIndex}]
        /\ \A x \in tree[m] : index'[x] = NoIndex
        /\ \A x \in Items \ tree[m] : index'[x] = index[x]
    BY <1>2, <2>2 DEF RemoveItems, IInv, TypeOK
  <2> QED BY <2>1, <2>3 DEF WellErased
<1> QED BY <1>2, <1>3, ErasingPreserves

LEMMA SetKeyPreserves ==
  ASSUME IInv, NEW x \in Items, NEW k \in Keys, SetKey(x, k)
  PROVE  IInv'
<1>1. TypeOK'
  BY DEF SetKey, IInv, TypeOK
<1>2. IndicesAgree' /\ TreeMatchesVector'
  BY DEF SetKey, IInv, IndicesAgree, TreeMatchesVector, ItemsOf, Positions
<1>3. KeysDistinct'
  BY DEF SetKey, IInv, KeysDistinct
<1> QED BY <1>1, <1>2, <1>3 DEF IInv

\* What key_change() works on.
LEMMA KeyChangeItem ==
  ASSUME IInv, NEW m \in Maps, NEW i \in DOMAIN vect[m]
  PROVE  /\ i \in 1..Len(vect[m]) /\ (i - 1) + 1 = i
         /\ i - 1 \in 0..Len(vect[m]) /\ i \in (i - 1)..Len(vect[m])
         /\ vect[m][i] \in tree[m] /\ vect[m][i] \in Items
         /\ Slice(vect[m], i - 1, i) = {vect[m][i]}
<1>1. vect[m] \in Seq(Items) /\ Len(vect[m]) \in Nat /\ i \in 1..Len(vect[m])
  BY OneMap
<1>2. vect[m][i] \in tree[m] /\ vect[m][i] \in Items
  BY <1>1, OneMap
<1>3. (i - 1) + 1 = i /\ i - 1 \in 0..Len(vect[m]) /\ i \in (i - 1)..Len(vect[m])
  BY <1>1
<1>4. Slice(vect[m], i - 1, i) = {vect[m][i]}
  <2>1. ((i - 1) + 1)..i = {i}
    BY <1>1
  <2> QED BY <2>1 DEF Slice
<1> QED BY <1>1, <1>2, <1>3, <1>4

LEMMA KeyChangePreserves ==
  ASSUME IInv, NEW m \in Maps, NEW i \in DOMAIN vect[m], KeyChange(m, i - 1)
  PROVE  IInv'
<1> DEFINE x == vect[m][i]
           taken == FoundIn(tree[m] \ {x}, key[x])
           w == Without(vect[m], i - 1, i)
<1>1. /\ i \in 1..Len(vect[m]) /\ (i - 1) + 1 = i
      /\ i - 1 \in 0..Len(vect[m]) /\ i \in (i - 1)..Len(vect[m])
      /\ x \in tree[m] /\ x \in Items /\ Slice(vect[m], i - 1, i) = {x}
  BY KeyChangeItem
<1>2. x = vect[m][(i - 1) + 1]
  BY <1>1
<1>3. key' = key
  BY DEF KeyChange
<1>4. CASE /\ taken = {}
           /\ filed' = [filed EXCEPT ![x] = key[x]]
           /\ returned' = Found(m, x, key[x], index, TRUE)
           /\ UNCHANGED <<vect, tree, index>>
  <2>1. IndicesAgree' /\ TreeMatchesVector'
    BY <1>4 DEF IInv, IndicesAgree, TreeMatchesVector, ItemsOf, Positions
  <2>2. TypeOK'
    <3>1. index[x] \in Nat /\ key[x] \in Keys
      BY <1>1, OneMap DEF IInv, TypeOK
    <3>2. returned' \in Results
      BY <1>4, <3>1 DEF Found, Results
    <3> QED BY <1>3, <1>4, <3>1, <3>2 DEF IInv, TypeOK
  <2>3. KeysDistinct'
    <3> HIDE DEF x, taken
    <3>1. /\ filed'[x] = key[x] /\ key[x] # Null
          /\ \A y \in Items \ {x} : filed'[y] = filed[y]
          /\ \A o \in Maps : tree'[o] = tree[o] /\ tree[o] \subseteq Items
      BY <1>1, <1>4, MapAssumption DEF IInv, TypeOK
    <3>2. \A y \in tree[m] \ {x} : filed[y] # key[x]
      BY <1>4 DEF taken, FoundIn
    <3>3. \A o \in Maps : x \in tree[o] => o = m
      BY <1>1, Apart
    <3>4. ASSUME NEW o \in Maps, NEW y \in tree'[o], NEW z \in tree'[o], filed'[y] = filed'[z]
          PROVE  y = z
      <4>1. CASE y # x /\ z # x
        BY <3>1, <3>4, <4>1 DEF IInv, KeysDistinct
      <4>2. CASE y = x
        BY <3>1, <3>2, <3>3, <3>4, <4>2
      <4>3. CASE z = x
        BY <3>1, <3>2, <3>3, <3>4, <4>3
      <4> QED BY <4>1, <4>2, <4>3
    <3>5. ASSUME NEW y \in Items
          PROVE  filed'[y] # Null <=> \E o \in Maps : y \in tree'[o]
      <4>1. CASE y = x
        BY <1>1, <3>1, <4>1
      <4>2. CASE y # x
        BY <3>1, <4>2 DEF IInv, KeysDistinct
      <4> QED BY <4>1, <4>2
    <3> QED BY <3>4, <3>5 DEF KeysDistinct
  <2> QED BY <2>1, <2>2, <2>3 DEF IInv
<1>5. CASE /\ tree' = [tree EXCEPT ![m] = @ \ {x}]
           /\ Unfile({x})
           /\ vect' = [vect EXCEPT ![m] = w]
           /\ index' = FixupIndex(RemoveItems(index, {x}), vect'[m], i - 1)
           /\ \E y \in taken : returned' = Found(m, y, key[x], index', FALSE)
  <2>1. WellErased(m, {x}, w, FixupIndex(RemoveItems(index, {x}), w, i - 1))
    BY <1>1, ErasedIndices
  <2>2. vect'[m] = w
    BY <1>5 DEF IInv, TypeOK
  <2> HIDE DEF w, x
  <2>3. WellErased(m, {x}, w, index')
    BY <1>5, <2>1, <2>2
  <2>4. returned' \in Results
    <3>1. PICK y \in taken : returned' = Found(m, y, key[x], index', FALSE)
      BY <1>5
    <3>2. y \in tree[m] \ {x}
      BY DEF FoundIn
    <3>3. PICK j \in 1..Len(w) : w[j] = y
      BY <2>3, <3>2 DEF WellErased
    <3>4. index'[y] \in Nat
      BY <2>3, <3>3 DEF WellErased
    <3>5. key[x] \in Keys
      BY <1>1 DEF IInv, TypeOK
    <3> QED BY <3>1, <3>4, <3>5 DEF Found, Results
  <2> QED BY <1>3, <1>5, <2>3, <2>4, ErasingPreserves
<1>6. \/ /\ taken = {}
         /\ filed' = [filed EXCEPT ![x] = key[x]]
         /\ returned' = Found(m, x, key[x], index, TRUE)
         /\ UNCHANGED <<vect, tree, index>>
      \/ /\ tree' = [tree EXCEPT ![m] = @ \ {x}]
         /\ Unfile({x})
         /\ vect' = [vect EXCEPT ![m] = w]
         /\ index' = FixupIndex(RemoveItems(index, {x}), vect'[m], i - 1)
         /\ \E y \in taken : returned' = Found(m, y, key[x], index', FALSE)
  BY <1>1, <1>2 DEF KeyChange
<1> QED BY <1>4, <1>5, <1>6

LEMMA SwapPreserves ==
  ASSUME IInv, NEW m \in Maps, NEW o \in Maps, Swap(m, o)
  PROVE  IInv'
<1> DEFINE Other(q) == IF q = m THEN o ELSE IF q = o THEN m ELSE q
<1>1. /\ \A q \in Maps : /\ Other(q) \in Maps /\ Other(Other(q)) = q
                         /\ vect'[q] = vect[Other(q)] /\ tree'[q] = tree[Other(q)]
      /\ UNCHANGED <<key, filed, index>> /\ returned' = Null
  BY DEF Swap, IInv, TypeOK
<1>2. TypeOK'
  <2>1. vect' \in [Maps -> Seq(Items)] /\ tree' \in [Maps -> SUBSET Items]
    BY DEF Swap, IInv, TypeOK
  <2> QED BY <1>1, <2>1 DEF IInv, TypeOK
<1> HIDE DEF Other
<1>3. \A q \in Maps : Positions(q)' = Positions(Other(q)) /\ ItemsOf(q)' = ItemsOf(Other(q))
  BY <1>1 DEF Positions, ItemsOf
<1>4. IndicesAgree'
  <2>1. \A q \in Maps : \A i \in Positions(q)' : index'[vect'[q][i]] = i - 1
    BY <1>1, <1>3 DEF IInv, IndicesAgree
  <2>2. ASSUME NEW x \in Items, index'[x] # NoIndex PROVE \E q \in Maps : x \in ItemsOf(q)'
    <3>1. PICK q \in Maps : x \in ItemsOf(q)
      BY <1>1, <2>2 DEF IInv, IndicesAgree
    <3>2. ItemsOf(Other(q))' = ItemsOf(q) /\ Other(q) \in Maps
      BY <1>1, <1>3
    <3> QED BY <3>1, <3>2
  <2> QED BY <2>1, <2>2 DEF IndicesAgree
<1>5. TreeMatchesVector'
  <2>1. \A q \in Maps : tree'[q] = ItemsOf(q)'
    BY <1>1, <1>3 DEF IInv, TreeMatchesVector
  <2>2. \A q, r \in Maps : q # r => tree'[q] \cap tree'[r] = {}
    BY <1>1 DEF IInv, TreeMatchesVector
  <2> QED BY <2>1, <2>2 DEF TreeMatchesVector
<1>6. KeysDistinct'
  <2>1. \A q \in Maps : \A x, y \in tree'[q] : filed'[x] = filed'[y] => x = y
    BY <1>1 DEF IInv, KeysDistinct
  <2>2. ASSUME NEW x \in Items
        PROVE  (\E q \in Maps : x \in tree'[q]) <=> (\E q \in Maps : x \in tree[q])
    BY <1>1
  <2> QED BY <1>1, <2>1, <2>2 DEF IInv, KeysDistinct
<1> QED BY <1>2, <1>4, <1>5, <1>6 DEF IInv

LEMMA NextPreserves ==
  ASSUME IInv, [Next]_vars
  PROVE  IInv'
<1>1. ASSUME NEW m \in Maps, NEW x \in Items, InsertFound(m, x) PROVE IInv'
  BY <1>1, InsertFoundPreserves
<1>2. ASSUME NEW m \in Maps, NEW x \in Items, NEW p \in 0..Len(vect[m]), InsertNew(m, p, x)
      PROVE  IInv'
  BY <1>2, InsertNewPreserves
<1>3. ASSUME NEW m \in Maps, NEW b \in 0..Len(vect[m]), NEW e \in 0..Len(vect[m]), Erase(m, b, e)
      PROVE  IInv'
  BY <1>3, ErasePreserves
<1>4. ASSUME NEW m \in Maps, PopBack(m) PROVE IInv'
  BY <1>4, PopBackPreserves
<1>5. ASSUME NEW m \in Maps, Clear(m) PROVE IInv'
  BY <1>5, ClearPreserves
<1>6. ASSUME NEW m \in Maps, NEW i \in DOMAIN vect[m], KeyChange(m, i - 1) PROVE IInv'
  BY <1>6, KeyChangePreserves
<1>7. ASSUME NEW m \in Maps, NEW o \in Maps, Swap(m, o) PROVE IInv'
  BY <1>7, SwapPreserves
<1>8. ASSUME NEW x \in Items, NEW k \in Keys, SetKey(x, k) PROVE IInv'
  BY <1>8, SetKeyPreserves
<1>9. ASSUME UNCHANGED vars PROVE IInv'
  BY <1>9 DEF vars, IInv, TypeOK, IndicesAgree, TreeMatchesVector, KeysDistinct,
              ItemsOf, Positions
<1> QED BY <1>1, <1>2, <1>3, <1>4, <1>5, <1>6, <1>7, <1>8, <1>9 DEF Next, Operation
-----------------------------------------------------------------------------
LEMMA Invariance == Spec => []IInv
<1>1. Init => IInv
  BY InitEstablishes
<1>2. IInv /\ [Next]_vars => IInv'
  BY NextPreserves
<1> QED BY <1>1, <1>2, PTL DEF Spec

\* The variables of the map keep their types: what is returned is a position.
THEOREM TypeCorrect == Spec => []TypeOK
<1>1. IInv => TypeOK
  BY DEF IInv
<1> QED BY <1>1, Invariance, PTL

\* The index in each item, the vector and the tree always agree, and the keys that
\* items are filed under stay distinct.
THEOREM RepresentationsAlwaysAgree == Spec => []RepresentationsAgree
<1>1. IInv => RepresentationsAgree
  BY DEF IInv, RepresentationsAgree
<1> QED BY <1>1, Invariance, PTL
-----------------------------------------------------------------------------
(* What the agreement is good for: lookups are exact, and the map is a      *)
(* sequence with distinct keys.                                            *)

\* The tree and the indices give the same answers as a search of the vector.
THEOREM LookupsAlwaysExact == Spec => []LookupsExact
<1>1. ASSUME IInv PROVE LookupsExact
  <2>1. ASSUME NEW m \in Maps, InOrder(tree[m]), NEW k \in Keys
        PROVE  LET S == {i \in Positions(m) : key[vect[m][i]] = k}
               IN  IF S = {} THEN Find(m, k) = Len(vect[m]) ELSE S = {Find(m, k) + 1}
    <3> DEFINE S == {i \in Positions(m) : key[vect[m][i]] = k}
               F == FoundIn(tree[m], k)
    <3>1. \A x \in tree[m] : x \in F <=> key[x] = k
      BY <2>1 DEF InOrder, FoundIn
    <3>2. \A i \in Positions(m) : i \in S <=> vect[m][i] \in F
      BY <1>1, <3>1, OneMap DEF Positions
    <3>3. CASE F = {}
      <4>1. S = {}
        BY <3>2, <3>3
      <4> QED BY <3>3, <4>1 DEF Find
    <3>4. CASE F # {}
      <4> DEFINE y == CHOOSE x \in F : TRUE
      <4>1. y \in F /\ y \in tree[m]
        BY <3>4 DEF FoundIn
      <4>2. F = {y}
        BY <4>1, <1>1 DEF FoundIn, IInv, KeysDistinct
      <4>3. Find(m, k) = index[y]
        BY <3>4 DEF Find
      <4> HIDE DEF y, F
      <4>4. index[y] + 1 \in Positions(m) /\ vect[m][index[y] + 1] = y
        BY <1>1, <4>1, OneMap DEF Positions
      <4>5. ASSUME NEW i \in S PROVE i = index[y] + 1
        <5>1. i \in Positions(m) /\ vect[m][i] = y
          BY <3>2, <4>2
        <5> HIDE DEF S
        <5> QED BY <1>1, <4>4, <5>1, OneMap DEF Positions
      <4>6. index[y] + 1 \in S
        BY <3>2, <4>1, <4>4
      <4> QED BY <4>3, <4>5, <4>6
    <3> QED BY <3>3, <3>4
  <2>2. ASSUME NEW m \in Maps, NEW x \in Items
        PROVE  IF x \in ItemsOf(m) THEN vect[m][CheckedIteratorTo(m, x) + 1] = x
               ELSE CheckedIteratorTo(m, x) = Len(vect[m])
    <3>1. CASE x \in tree[m]
      <4>1. index[x] \in Nat /\ index[x] + 1 \in 1..Len(vect[m]) /\ vect[m][index[x] + 1] = x
        BY <1>1, <3>1, OneMap
      <4>2. WithinSize(m, x)
        BY <1>1, <4>1, OneMap, MapAssumption DEF WithinSize
      <4>3. CheckedIteratorTo(m, x) = index[x]
        BY <4>1, <4>2 DEF CheckedIteratorTo
      <4>4. x \in ItemsOf(m)
        BY <1>1, <3>1 DEF IInv, TreeMatchesVector
      <4> QED BY <4>1, <4>3, <4>4
    <3>2. CASE x \notin tree[m]
      <4>1. x \notin ItemsOf(m)
        BY <1>1, <3>2 DEF IInv, TreeMatchesVector
      <4>2. ~(WithinSize(m, x) /\ vect[m][index[x] + 1] = x)
        <5> SUFFICES ASSUME WithinSize(m, x), vect[m][index[x] + 1] = x PROVE FALSE
          OBVIOUS
        <5>1. index[x] \in Nat /\ index[x] < Len(vect[m]) /\ Len(vect[m]) \in Nat
          BY <1>1, OneMap DEF WithinSize, IInv, TypeOK
        <5>2. index[x] + 1 \in Positions(m)
          BY <5>1 DEF Positions
        <5> QED BY <4>1, <5>2 DEF ItemsOf
      <4> QED BY <4>1, <4>2 DEF CheckedIteratorTo
    <3> QED BY <3>1, <3>2
  <2> QED BY <2>1, <2>2 DEF LookupsExact
<1> QED BY <1>1, Invariance, PTL

\* The abstract words for what the trees have.
LEMMA SeenAsSequences ==
  ASSUME IInv
  PROVE  /\ \A m \in Maps : AsSequences!Members(vect[m]) = tree[m]
         /\ \A x : x \in AsSequences!Linked <=> \E m \in Maps : x \in tree[m]
         /\ \A m \in Maps : DOMAIN vect[m] = 1..Len(vect[m])
<1>1. ASSUME NEW m \in Maps PROVE DOMAIN vect[m] = 1..Len(vect[m])
  <2>1. vect[m] \in Seq(Items)
    BY OneMap
  <2> QED BY <2>1
<1>2. \A m \in Maps : AsSequences!Members(vect[m]) = tree[m]
  BY <1>1 DEF AsSequences!Members, IInv, TreeMatchesVector, ItemsOf, Positions
<1> QED BY <1>1, <1>2 DEF AsSequences!Linked

\* In order means nothing stale.
LEMMA NothingStale ==
  ASSUME IInv, NEW S \in SUBSET Items, NEW m \in Maps, S \subseteq tree[m], InOrder(S)
  PROVE  Stale \cap S = {}
BY DEF Stale, InOrder

\* A result that Found() gives points at an item with its key.
LEMMA FoundPointsAt ==
  ASSUME NEW m, NEW s \in Seq(Items), NEW idx, NEW y, NEW done,
         idx[y] \in Nat, idx[y] + 1 \in 1..Len(s), s[idx[y] + 1] = y
  PROVE  AsSequences!PointsAt(Found(m, y, key[y], idx, done), m, s, key[y], done)
<1>1. idx[y] + 1 \in DOMAIN s /\ (idx[y] + 1) - 1 = idx[y]
  OBVIOUS
<1>2. Found(m, y, key[y], idx, done)
        = [map |-> m, key |-> key[y], at |-> (idx[y] + 1) - 1, done |-> done]
  BY <1>1 DEF Found
<1>3. key[s[idx[y] + 1]] = key[y]
  OBVIOUS
<1> QED BY <1>1, <1>2, <1>3 DEF AsSequences!PointsAt

LEMMA InsertFoundRefines ==
  ASSUME IInv, NEW m \in Maps, NEW x \in Items, InsertFound(m, x)
  PROVE  AsSequences!Next
<1>1. PICK y \in FoundIn(tree[m], key[x]) : returned' = Found(m, y, key[x], index, FALSE)
  BY DEF InsertFound
<1>2. /\ index[x] = NoIndex /\ InOrder(tree[m]) /\ UNCHANGED <<vect, key, filed>>
      /\ tree[m] \subseteq Items
  BY OneMap DEF InsertFound
<1>3. y \in tree[m] /\ key[y] = key[x]
  BY <1>2 DEF FoundIn, InOrder
<1>4. x \notin AsSequences!Linked
  BY <1>2, Apart, SeenAsSequences
<1>5. Stale \cap AsSequences!Members(vect[m]) = {}
  BY <1>2, NothingStale, SeenAsSequences
<1>6. AsSequences!Holds(vect[m], key[x])
  BY <1>3, SeenAsSequences DEF AsSequences!Holds
<1>7. AsSequences!PointsAt(returned', m, vect[m], key[x], FALSE)
  <2>1. index[y] \in Nat /\ index[y] + 1 \in 1..Len(vect[m]) /\ vect[m][index[y] + 1] = y
    BY <1>3, OneMap
  <2>2. vect[m] \in Seq(Items)
    BY OneMap
  <2>3. AsSequences!PointsAt(Found(m, y, key[y], index, FALSE), m, vect[m], key[y], FALSE)
    BY <2>1, <2>2, FoundPointsAt
  <2> QED BY <1>1, <1>3, <2>3
<1>8. Stale' = Stale
  BY <1>2 DEF Stale
<1>9. AsSequences!Insert(m, 0, x)
  BY <1>2, <1>4, <1>5, <1>6, <1>7, <1>8 DEF AsSequences!Insert
<1>10. 0 \in 0..Len(vect[m])
  BY OneMap
<1> QED BY <1>9, <1>10 DEF AsSequences!Next

LEMMA InsertNewRefines ==
  ASSUME IInv, NEW m \in Maps, NEW p \in 0..Len(vect[m]), NEW x \in Items,
         InsertNew(m, p, x)
  PROVE  AsSequences!Next
<1>1. /\ index[x] = NoIndex /\ InOrder(tree[m]) /\ FoundIn(tree[m], key[x]) = {}
      /\ key' = key /\ tree[m] \subseteq Items
  BY OneMap DEF InsertNew
<1>2. x \notin AsSequences!Linked /\ \A o \in Maps : x \notin tree[o]
  BY <1>1, Apart, SeenAsSequences
<1>3. Stale \cap AsSequences!Members(vect[m]) = {}
  BY <1>1, NothingStale, SeenAsSequences
<1>4. ~AsSequences!Holds(vect[m], key[x])
  BY <1>1, SeenAsSequences DEF AsSequences!Holds, FoundIn, InOrder
<1>5. CASE UNCHANGED <<vect, tree, filed, index>> /\ returned' = Null
  <2>1. Stale' = Stale
    BY <1>1, <1>5 DEF Stale
  <2>2. AsSequences!Insert(m, p, x)
    BY <1>1, <1>2, <1>3, <1>4, <1>5, <2>1 DEF AsSequences!Insert
  <2> QED BY <2>2 DEF AsSequences!Next
<1>6. CASE /\ vect' = [vect EXCEPT ![m] = Before(@, p, x)]
           /\ index' = FixupIndex(index, vect'[m], p)
           /\ tree' = [tree EXCEPT ![m] = @ \cup {x}]
           /\ filed' = [filed EXCEPT ![x] = key[x]]
           /\ returned' = Found(m, x, key[x], index', TRUE)
  <2> DEFINE w == Before(vect[m], p, x)
  <2>1. vect' = [vect EXCEPT ![m] = w] /\ vect'[m] = w
    BY <1>6 DEF IInv, TypeOK
  <2>2. Stale' = Stale
    <3>1. filed[x] = Null /\ filed'[x] = key[x]
          /\ \A y \in Items \ {x} : filed'[y] = filed[y]
      BY <1>2, <1>6 DEF IInv, TypeOK, KeysDistinct
    <3> QED BY <1>1, <3>1 DEF Stale
  <2>3. WellInserted(m, p, x, w, FixupIndex(index, w, p))
    BY <1>1, InsertedIndices
  <2>4. AsSequences!Before(vect[m], p, x) = w
    BY DEF AsSequences!Before, Before
  <2> HIDE DEF w
  <2>5. WellInserted(m, p, x, w, index')
    BY <1>6, <2>1, <2>3
  <2>6. /\ w \in Seq(Items) /\ index'[x] \in Nat
        /\ index'[x] + 1 \in 1..Len(w) /\ w[index'[x] + 1] = x
    <3>0. {w[j] : j \in 1..Len(w)} = tree[m] \cup {x}
      BY <2>5, Zenon DEF WellInserted
    <3> x \in {w[j] : j \in 1..Len(w)}
      BY <3>0, Zenon
    <3>1. PICK i \in 1..Len(w) : w[i] = x
      OBVIOUS
    <3>2. index'[x] = i - 1 /\ w \in Seq(Items)
      BY <2>5, <3>1 DEF WellInserted
    <3> QED BY <3>1, <3>2
  <2>7. AsSequences!PointsAt(Found(m, x, key[x], index', TRUE), m, w, key[x], TRUE)
    BY <2>6, FoundPointsAt
  <2>8. AsSequences!Insert(m, p, x)
    BY <1>1, <1>2, <1>3, <1>4, <1>6, <2>1, <2>2, <2>4, <2>7 DEF AsSequences!Insert
  <2> QED BY <2>8 DEF AsSequences!Next
<1> QED BY <1>5, <1>6 DEF InsertNew

\* Erasing the items b + 1 to e is what Remove does.
LEMMA RemoveRefines ==
  ASSUME IInv, NEW m \in Maps, NEW b \in 0..Len(vect[m]), NEW e \in b..Len(vect[m]),
         vect' = [vect EXCEPT ![m] = Without(@, b, e)],
         Unfile(Slice(vect[m], b, e)), key' = key, returned' = Null
  PROVE  AsSequences!Next
<1> DEFINE gone == Slice(vect[m], b, e)
<1>1. Len(vect[m]) \in Nat /\ b \in Nat /\ e \in Nat /\ b <= e /\ e <= Len(vect[m])
      /\ e \in 0..Len(vect[m])
  BY OneMap
<1>2. Stale' = Stale \ gone
  BY DEF Stale, Unfile
<1>3. gone = {vect[m][i] : i \in (b + 1)..e}
  BY DEF Slice
<1>4. AsSequences!Without(vect[m], b, e) = Without(vect[m], b, e)
  BY DEF AsSequences!Without, Without
<1> HIDE DEF gone
<1>5. AsSequences!Remove(m, b, e)
  BY <1>1, <1>2, <1>3, <1>4 DEF AsSequences!Remove
<1> QED BY <1>1, <1>5 DEF AsSequences!Next

LEMMA EraseRefines ==
  ASSUME IInv, NEW m \in Maps, NEW b \in 0..Len(vect[m]), NEW e \in 0..Len(vect[m]),
         Erase(m, b, e)
  PROVE  AsSequences!Next
<1>1. e \in b..Len(vect[m])
  BY OneMap DEF Erase
<1>2. /\ vect' = [vect EXCEPT ![m] = Without(@, b, e)]
      /\ Unfile(Slice(vect[m], b, e)) /\ key' = key /\ returned' = Null
  BY DEF Erase
<1> QED BY <1>1, <1>2, RemoveRefines

LEMMA PopBackRefines ==
  ASSUME IInv, NEW m \in Maps, PopBack(m)
  PROVE  AsSequences!Next
<1> DEFINE n == Len(vect[m])
           last == vect[m][n]
<1>1. n \in Nat /\ n # 0 /\ last \in tree[m]
  <2>1. n \in Nat /\ vect[m] \in Seq(Items) /\ vect[m] # <<>>
    BY OneMap DEF PopBack
  <2>2. n # 0
    BY <2>1
  <2> QED BY <2>1, <2>2, OneMap
<1>2. FoundIn(tree[m], key[last]) = {last}
  BY <1>1 DEF PopBack, InOrder, FoundIn, IInv, KeysDistinct
<1>3. n - 1 \in 0..n /\ n \in (n - 1)..n /\ Slice(vect[m], n - 1, n) = {last}
  BY <1>1 DEF Slice
<1>4. /\ vect' = [vect EXCEPT ![m] = Without(@, n - 1, n)]
      /\ Unfile(Slice(vect[m], n - 1, n)) /\ key' = key /\ returned' = Null
  BY <1>2, <1>3 DEF PopBack
<1> QED BY <1>3, <1>4, RemoveRefines

LEMMA ClearRefines ==
  ASSUME IInv, NEW m \in Maps, Clear(m)
  PROVE  AsSequences!Next
<1> DEFINE n == Len(vect[m])
<1>1. n \in Nat /\ 0 \in 0..n /\ n \in 0..n /\ vect[m] \in Seq(Items)
  BY OneMap
<1>2. Slice(vect[m], 0, n) = tree[m]
  <2>1. (0 + 1)..n = 1..n
    OBVIOUS
  <2> QED BY <2>1 DEF Slice, IInv, TreeMatchesVector, ItemsOf, Positions
<1>3. Without(vect[m], 0, n) = <<>>
  <2>1. Without(vect[m], 0, n) \in Seq(Items) /\ Len(Without(vect[m], 0, n)) = n - (n - 0)
    BY <1>1, WithoutFacts
  <2> QED BY <1>1, <2>1
<1>4. /\ vect' = [vect EXCEPT ![m] = Without(@, 0, n)]
      /\ Unfile(Slice(vect[m], 0, n)) /\ key' = key /\ returned' = Null
  BY <1>2, <1>3 DEF Clear
<1> QED BY <1>1, <1>4, RemoveRefines

LEMMA SetKeyRefines ==
  ASSUME IInv, NEW x \in Items, NEW k \in Keys, SetKey(x, k)
  PROVE  AsSequences!Next
<1>1. key' = [key EXCEPT ![x] = k] /\ UNCHANGED <<vect, filed>> /\ returned' = Null
      /\ k # Null
  BY MapAssumption DEF SetKey
<1>2. \A y \in Items \ {x} : y \in Stale' <=> y \in Stale
  BY <1>1 DEF Stale, IInv, TypeOK
<1>3. x \in Stale' => x \in AsSequences!Linked
  <2>1. x \in Stale' => filed[x] # Null
    BY <1>1 DEF Stale
  <2> QED BY <2>1, SeenAsSequences DEF IInv, KeysDistinct
<1>4. Stale \subseteq Items /\ Stale' \subseteq Items
  BY DEF Stale
<1>5. Stale' \in {Stale \ {x}, Stale \cup ({x} \cap AsSequences!Linked)}
  <2>1. CASE x \in Stale'
    <3>1. Stale' = Stale \cup ({x} \cap AsSequences!Linked)
      BY <1>2, <1>3, <1>4, <2>1
    <3> QED BY <3>1
  <2>2. CASE x \notin Stale'
    <3>1. Stale' = Stale \ {x}
      BY <1>2, <1>4, <2>2
    <3> QED BY <3>1
  <2> QED BY <2>1, <2>2
<1>6. AsSequences!ChangeKey(x, k)
  BY <1>1, <1>5 DEF AsSequences!ChangeKey
<1> QED BY <1>6 DEF AsSequences!Next

LEMMA KeyChangeRefines ==
  ASSUME IInv, NEW m \in Maps, NEW i \in DOMAIN vect[m], KeyChange(m, i - 1)
  PROVE  AsSequences!Next
<1> DEFINE x == vect[m][i]
           others == tree[m] \ {x}
           taken == FoundIn(others, key[x])
           w == Without(vect[m], i - 1, i)
           taken2 == \E y \in AsSequences!Members(vect[m]) \ {x} : key[y] = key[x]
<1>1. /\ i \in 1..Len(vect[m]) /\ (i - 1) + 1 = i
      /\ i - 1 \in 0..Len(vect[m]) /\ i \in (i - 1)..Len(vect[m])
      /\ x \in tree[m] /\ x \in Items /\ Slice(vect[m], i - 1, i) = {x}
  BY KeyChangeItem
<1>2. x = vect[m][(i - 1) + 1]
  BY <1>1
<1>3. key' = key /\ InOrder(others)
  BY <1>2 DEF KeyChange
<1>4. /\ tree[m] \subseteq Items /\ AsSequences!Members(vect[m]) = tree[m]
      /\ vect[m] \in Seq(Items)
  BY OneMap, SeenAsSequences
<1>5. Stale \cap AsSequences!Members(vect[m]) \subseteq {x}
  BY <1>3, <1>4 DEF Stale, InOrder
<1>6. taken2 <=> taken # {}
  BY <1>3, <1>4 DEF FoundIn, InOrder
<1>7. CASE /\ taken = {}
           /\ filed' = [filed EXCEPT ![x] = key[x]]
           /\ returned' = Found(m, x, key[x], index, TRUE)
           /\ UNCHANGED <<vect, tree, index>>
  <2>1. Stale' = Stale \ {x}
    <3>1. filed'[x] = key[x] /\ \A y \in Items \ {x} : filed'[y] = filed[y]
      BY <1>1, <1>7 DEF IInv, TypeOK
    <3> QED BY <1>3, <3>1 DEF Stale
  <2>2. AsSequences!PointsAt(Found(m, x, key[x], index, TRUE), m, vect[m], key[x], TRUE)
    <3>1. index[x] \in Nat /\ index[x] + 1 \in 1..Len(vect[m]) /\ vect[m][index[x] + 1] = x
      BY <1>1, OneMap
    <3> HIDE DEF x
    <3> QED BY <1>4, <3>1, FoundPointsAt
  <2>3. ~taken2
    BY <1>6, <1>7
  <2>4. AsSequences!FileAnew(m, i)
    BY <1>3, <1>5, <1>7, <2>1, <2>2, <2>3 DEF AsSequences!FileAnew
  <2> QED BY <2>4 DEF AsSequences!Next
<1>8. CASE /\ tree' = [tree EXCEPT ![m] = @ \ {x}]
           /\ Unfile({x})
           /\ vect' = [vect EXCEPT ![m] = w]
           /\ index' = FixupIndex(RemoveItems(index, {x}), vect'[m], i - 1)
           /\ \E y \in taken : returned' = Found(m, y, key[x], index', FALSE)
  <2>1. WellErased(m, {x}, w, FixupIndex(RemoveItems(index, {x}), w, i - 1))
    BY <1>1, ErasedIndices
  <2>2. vect'[m] = w
    BY <1>8 DEF IInv, TypeOK
  <2>3. AsSequences!Without(vect[m], i - 1, i) = w
    BY DEF AsSequences!Without, Without
  <2>4. WellErased(m, {x}, w, index')
    <3> HIDE DEF w, x
    <3> QED BY <1>8, <2>1, <2>2
  <2>5. PICK y \in taken : returned' = Found(m, y, key[x], index', FALSE)
    BY <1>8
  <2>6. y \in tree[m] \ {x} /\ key[y] = key[x]
    BY <1>3 DEF FoundIn, InOrder
  <2>7. /\ w \in Seq(Items) /\ index'[y] \in Nat
        /\ index'[y] + 1 \in 1..Len(w) /\ w[index'[y] + 1] = y
    <3> HIDE DEF w, x
    <3>1. PICK j \in 1..Len(w) : w[j] = y
      BY <2>4, <2>6 DEF WellErased
    <3>2. index'[y] = j - 1 /\ w \in Seq(Items)
      BY <2>4, <3>1 DEF WellErased
    <3> QED BY <3>1, <3>2
  <2>8. AsSequences!PointsAt(returned', m, w, key[x], FALSE)
    <3> HIDE DEF w, x
    <3>1. AsSequences!PointsAt(Found(m, y, key[y], index', FALSE), m, w, key[y], FALSE)
      BY <2>7, FoundPointsAt
    <3> QED BY <2>5, <2>6, <3>1
  <2>9. Stale' = Stale \ {x}
    BY <1>3, <1>8 DEF Stale, Unfile
  <2>10. taken2
    BY <1>6, <2>5
  <2>11. AsSequences!FileAnew(m, i)
    BY <1>3, <1>5, <1>8, <2>2, <2>3, <2>8, <2>9, <2>10 DEF AsSequences!FileAnew
  <2> QED BY <2>11 DEF AsSequences!Next
<1>9. \/ /\ taken = {}
         /\ filed' = [filed EXCEPT ![x] = key[x]]
         /\ returned' = Found(m, x, key[x], index, TRUE)
         /\ UNCHANGED <<vect, tree, index>>
      \/ /\ tree' = [tree EXCEPT ![m] = @ \ {x}]
         /\ Unfile({x})
         /\ vect' = [vect EXCEPT ![m] = w]
         /\ index' = FixupIndex(RemoveItems(index, {x}), vect'[m], i - 1)
         /\ \E y \in taken : returned' = Found(m, y, key[x], index', FALSE)
  BY <1>1, <1>2 DEF KeyChange
<1> QED BY <1>7, <1>8, <1>9

LEMMA SwapRefines ==
  ASSUME NEW m \in Maps, NEW o \in Maps, Swap(m, o)
  PROVE  AsSequences!Next
<1>1. Stale' = Stale
  BY DEF Swap, Stale
<1>2. AsSequences!Swap(m, o)
  BY <1>1 DEF Swap, AsSequences!Swap
<1> QED BY <1>2 DEF AsSequences!Next

LEMMA StepsRefine ==
  ASSUME IInv, [Next]_vars
  PROVE  [AsSequences!Next]_(AsSequences!vars)
<1>1. ASSUME NEW m \in Maps, NEW x \in Items, InsertFound(m, x) PROVE AsSequences!Next
  BY <1>1, InsertFoundRefines
<1>2. ASSUME NEW m \in Maps, NEW x \in Items, NEW p \in 0..Len(vect[m]), InsertNew(m, p, x)
      PROVE  AsSequences!Next
  BY <1>2, InsertNewRefines
<1>3. ASSUME NEW m \in Maps, NEW b \in 0..Len(vect[m]), NEW e \in 0..Len(vect[m]), Erase(m, b, e)
      PROVE  AsSequences!Next
  BY <1>3, EraseRefines
<1>4. ASSUME NEW m \in Maps, PopBack(m) PROVE AsSequences!Next
  BY <1>4, PopBackRefines
<1>5. ASSUME NEW m \in Maps, Clear(m) PROVE AsSequences!Next
  BY <1>5, ClearRefines
<1>6. ASSUME NEW m \in Maps, NEW i \in DOMAIN vect[m], KeyChange(m, i - 1)
      PROVE  AsSequences!Next
  BY <1>6, KeyChangeRefines
<1>7. ASSUME NEW m \in Maps, NEW o \in Maps, Swap(m, o) PROVE AsSequences!Next
  BY <1>7, SwapRefines
<1>8. ASSUME NEW x \in Items, NEW k \in Keys, SetKey(x, k) PROVE AsSequences!Next
  BY <1>8, SetKeyRefines
<1>9. ASSUME UNCHANGED vars PROVE UNCHANGED AsSequences!vars
  BY <1>9 DEF vars, Stale, AsSequences!vars
<1> QED BY <1>1, <1>2, <1>3, <1>4, <1>5, <1>6, <1>7, <1>8, <1>9 DEF Next, Operation

\* Vector, tree and indices together implement a sequence with distinct keys, and
\* insert and key_change return where the item with the key is.
THEOREM MapsAreKeyedSequences == Spec => ImplementsKeyedSequences
<1>1. Init => AsSequences!Init
  BY DEF Init, Stale, AsSequences!Init
<1>2. IInv /\ [Next]_vars => [AsSequences!Next]_(AsSequences!vars)
  BY StepsRefine
<1> QED BY <1>1, <1>2, Invariance, PTL DEF Spec, ImplementsKeyedSequences, AsSequences!Spec
=============================================================================
