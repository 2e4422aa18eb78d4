-------------------------- MODULE SimpleVectorProofs --------------------------
(***************************************************************************)
(* Proofs about SimpleVector: memory is clean, and the elements are those   *)
(* of a std::vector, whatever throws.                                       *)
(***************************************************************************)
EXTENDS SimpleVectorProps, FiniteSetTheorems, SequenceTheorems, WellFoundedInduction, TLAPS

Heaps == [Blocks -> [room : Nat, cells : [Cells -> Objects \cup {Raw, Broken}]]]
Records == [begin : Blocks \cup {Null}, size : Nat, capacity : Nat]
Limit == Rounded(MaxSize) + Align + 1

Shape(r) == /\ r \in Records /\ r.size <= r.capacity /\ r.capacity <= Limit
            /\ r.capacity % Align = 0
            /\ r.begin = Null <=> r.capacity = 0

\* A block that nobody has, and one that has the objects of f and nothing else.
Free(h, b) == h[b].room = 0 /\ \A k \in Cells : h[b].cells[k] = Raw
Full(h, r, f) ==
  /\ f \in [0..(r.size - 1) -> Objects]
  /\ r.begin # Null =>
       /\ h[r.begin].room = r.capacity
       /\ \A k \in Cells : h[r.begin].cells[k] = IF k < r.size THEN f[k] ELSE Raw

\* What an operation on one vector keeps: the blocks O of the others are as they were,
\* in h0, and beside these and its own there is none.
Alone(O, h0, h, r) ==
  /\ h \in Heaps /\ O \subseteq Blocks /\ r.begin \notin O
  /\ \A b \in O : h[b] = h0[b]
  /\ \A b \in Blocks \ O : b # r.begin => Free(h, b)

Holds(O, h0, h, r, f) == Shape(r) /\ Alone(O, h0, h, r) /\ Full(h, r, f)

\* There is a block for the vector, and another one when it moves.
Others(O, h0) ==
  /\ h0 \in Heaps /\ \A b \in O : h0[b].room # 0
  /\ \E b, c \in Blocks \ O : b # c
-----------------------------------------------------------------------------
(* Numbers.                                                                *)

LEMMA RoundedIs ==
  ASSUME NEW n \in Nat
  PROVE  /\ Rounded(n) \in Nat /\ n <= Rounded(n) /\ Rounded(n) % Align = 0
         /\ Rounded(n) < n + Align
<1>1. Align \in Nat \ {0}
  BY SimpleVectorAssumption
<1>2. DEFINE a == n + Align - 1
             q == a \div Align
<1>3. a \in Nat /\ q \in Nat /\ q * Align <= a /\ a < q * Align + Align
  BY <1>1
<1>4. (q * Align) % Align = 0
  BY <1>1
<1>5. Rounded(n) = q * Align
  BY DEF Rounded
<1> QED BY <1>1, <1>3, <1>4, <1>5

LEMMA RoundedFits ==
  ASSUME NEW n \in Nat, n <= MaxSize + 1
  PROVE  Limit \in Nat /\ Rounded(n) <= Limit
<1>1. Align \in Nat \ {0} /\ MaxSize \in Nat
  BY SimpleVectorAssumption
<1>2. /\ Rounded(n) \in Nat /\ Rounded(MaxSize) \in Nat
      /\ Rounded(n) < n + Align /\ MaxSize <= Rounded(MaxSize)
  BY <1>1, RoundedIs
<1> QED BY <1>1, <1>2 DEF Limit

LEMMA CellsAre == Cells = 0..(Limit - 1) /\ Limit \in Nat
<1>1. Align \in Nat \ {0} /\ MaxSize \in Nat
  BY SimpleVectorAssumption
<1>2. Rounded(MaxSize) \in Nat
  BY <1>1, RoundedIs
<1> QED BY <1>1, <1>2 DEF Cells, Limit

\* Growth makes room for one more, and for no more than there are cells.
LEMMA GrowthEnough ==
  ASSUME NEW s, s.vec.size \in Nat, s.vec.size < MaxSize
  PROVE  /\ GetGrowSize(s) \in Nat /\ GetGrowSize(s) > s.vec.size
         /\ GetGrowSize(s) <= MaxSize + 1
<1>1. MaxSize \in Nat
  BY SimpleVectorAssumption
<1>2. CASE s.vec.size >= MaxSize \div 3
  BY <1>1, <1>2 DEF GetGrowSize
<1>3. CASE ~(s.vec.size >= MaxSize \div 3)
  BY <1>1, <1>3 DEF GetGrowSize, Larger
<1> QED BY <1>2, <1>3

-----------------------------------------------------------------------------
(* Memory.                                                                 *)

\* What becomes of the cells that an operation of AllocTraits is called for.
ConstructedAs(h, h2, b, g) ==
  /\ h2 \in Heaps
  /\ \A c \in Blocks : c # b => h2[c] = h[c]
  /\ b \in Blocks =>
       /\ h2[b].room = h[b].room
       /\ \A k \in Cells : h2[b].cells[k] = IF k \notin DOMAIN g THEN h[b].cells[k]
                                             ELSE IF k < h[b].room /\ h[b].cells[k] = Raw THEN g[k]
                                             ELSE Broken

AssignedAs(h, h2, b, g) ==
  /\ h2 \in Heaps
  /\ \A c \in Blocks : c # b => h2[c] = h[c]
  /\ b \in Blocks =>
       /\ h2[b].room = h[b].room
       /\ \A k \in Cells : h2[b].cells[k] = IF k \notin DOMAIN g THEN h[b].cells[k]
                                             ELSE IF h[b].cells[k] \in Objects THEN g[k]
                                             ELSE Broken

DestroyedAs(h, h2, b, K) ==
  /\ h2 \in Heaps
  /\ \A c \in Blocks : c # b => h2[c] = h[c]
  /\ b \in Blocks =>
       /\ h2[b].room = h[b].room
       /\ \A k \in Cells : h2[b].cells[k] = IF k \notin K THEN h[b].cells[k]
                                             ELSE IF h[b].cells[k] \in Objects THEN Raw ELSE Broken

SetCells(h, b, cells) == [h EXCEPT ![b].cells = cells]

LEMMA CellsSet ==
  ASSUME NEW h \in Heaps, NEW b \in Blocks, NEW cells \in [Cells -> Objects \cup {Raw, Broken}]
  PROVE  LET h2 == SetCells(h, b, cells)
         IN  /\ h2 \in Heaps
             /\ \A c \in Blocks : c # b => h2[c] = h[c]
             /\ h2[b].room = h[b].room /\ h2[b].cells = cells
<1> DEFINE Block == [room : Nat, cells : [Cells -> Objects \cup {Raw, Broken}]]
           new == [h[b] EXCEPT !.cells = cells]
           h2 == SetCells(h, b, cells)
<1>1. h \in [Blocks -> Block] /\ h[b] \in Block
  BY DEF Heaps
<1>2. new \in Block /\ new.room = h[b].room /\ new.cells = cells
  BY <1>1
<1>3. h2 = [h EXCEPT ![b] = new]
  BY DEF SetCells
<1> HIDE DEF Block, new, h2
<1>4. h2 \in [Blocks -> Block] /\ h2[b] = new /\ \A c \in Blocks : c # b => h2[c] = h[c]
  BY <1>1, <1>2, <1>3
<1> QED BY <1>2, <1>4 DEF Heaps, Block, h2

LEMMA ConstructedIs ==
  ASSUME NEW h \in Heaps, NEW b, NEW g, \A k \in DOMAIN g : g[k] \in Objects,
         DOMAIN g # {} => b \in Blocks
  PROVE  ConstructedAs(h, Constructed(h, b, g), b, g)
<1>1. CASE DOMAIN g = {}
  BY <1>1 DEF Constructed, ConstructedAs
<1>2. CASE DOMAIN g # {}
  <2>1. DEFINE cells == [k \in Cells |-> IF k \notin DOMAIN g THEN h[b].cells[k]
                                         ELSE IF k < h[b].room /\ h[b].cells[k] = Raw THEN g[k]
                                         ELSE Broken]
  <2>2. cells \in [Cells -> Objects \cup {Raw, Broken}]
    BY <1>2 DEF Heaps
  <2>3. Constructed(h, b, g) = SetCells(h, b, cells)
    BY <1>2 DEF Constructed, SetCells
  <2> HIDE DEF cells
  <2>4. /\ Constructed(h, b, g) \in Heaps
        /\ \A c \in Blocks : c # b => Constructed(h, b, g)[c] = h[c]
        /\ Constructed(h, b, g)[b].room = h[b].room /\ Constructed(h, b, g)[b].cells = cells
    BY <1>2, <2>2, <2>3, CellsSet
  <2> QED BY <2>4 DEF cells, ConstructedAs
<1> QED BY <1>1, <1>2

LEMMA AssignedIs ==
  ASSUME NEW h \in Heaps, NEW b, NEW g, \A k \in DOMAIN g : g[k] \in Objects,
         DOMAIN g # {} => b \in Blocks
  PROVE  AssignedAs(h, Assigned(h, b, g), b, g)
<1>1. CASE DOMAIN g = {}
  BY <1>1 DEF Assigned, AssignedAs
<1>2. CASE DOMAIN g # {}
  <2>1. DEFINE cells == [k \in Cells |-> IF k \notin DOMAIN g THEN h[b].cells[k]
                                         ELSE IF h[b].cells[k] \in Objects THEN g[k]
                                         ELSE Broken]
  <2>2. cells \in [Cells -> Objects \cup {Raw, Broken}]
    BY <1>2 DEF Heaps
  <2>3. Assigned(h, b, g) = SetCells(h, b, cells)
    BY <1>2 DEF Assigned, SetCells
  <2> HIDE DEF cells
  <2>4. /\ Assigned(h, b, g) \in Heaps
        /\ \A c \in Blocks : c # b => Assigned(h, b, g)[c] = h[c]
        /\ Assigned(h, b, g)[b].room = h[b].room /\ Assigned(h, b, g)[b].cells = cells
    BY <1>2, <2>2, <2>3, CellsSet
  <2> QED BY <2>4 DEF cells, AssignedAs
<1> QED BY <1>1, <1>2

LEMMA DestroyedIs ==
  ASSUME NEW h \in Heaps, NEW b, NEW K, K # {} => b \in Blocks
  PROVE  DestroyedAs(h, Destroyed(h, b, K), b, K)
<1>1. CASE K = {}
  BY <1>1 DEF Destroyed, DestroyedAs
<1>2. CASE K # {}
  <2>1. DEFINE cells == [k \in Cells |-> IF k \notin K THEN h[b].cells[k]
                                         ELSE IF h[b].cells[k] \in Objects THEN Raw ELSE Broken]
  <2>2. cells \in [Cells -> Objects \cup {Raw, Broken}]
    BY <1>2 DEF Heaps
  <2>3. Destroyed(h, b, K) = SetCells(h, b, cells)
    BY <1>2 DEF Destroyed, SetCells
  <2> HIDE DEF cells
  <2>4. /\ Destroyed(h, b, K) \in Heaps
        /\ \A c \in Blocks : c # b => Destroyed(h, b, K)[c] = h[c]
        /\ Destroyed(h, b, K)[b].room = h[b].room /\ Destroyed(h, b, K)[b].cells = cells
    BY <1>2, <2>2, <2>3, CellsSet
  <2> QED BY <2>4 DEF cells, DestroyedAs
<1> QED BY <1>1, <1>2

LEMMA DeallocatedIs ==
  ASSUME NEW h \in Heaps, NEW b \in Blocks
  PROVE  LET h2 == Deallocated(h, b)
         IN  /\ h2 \in Heaps
             /\ \A c \in Blocks : c # b => h2[c] = h[c]
             /\ h2[b].room = 0
             /\ \A k \in Cells : h2[b].cells[k] = IF h[b].cells[k] = Raw THEN Raw ELSE Broken
<1>1. DEFINE cells == [k \in Cells |-> IF h[b].cells[k] = Raw THEN Raw ELSE Broken]
<1>2. cells \in [Cells -> Objects \cup {Raw, Broken}]
  OBVIOUS
<1>3. Deallocated(h, b) = [h EXCEPT ![b] = [room |-> 0, cells |-> cells]]
  BY DEF Deallocated
<1> HIDE DEF cells
<1>4. Deallocated(h, b) \in Heaps
  BY <1>2, <1>3 DEF Heaps
<1>5. /\ \A c \in Blocks : c # b => Deallocated(h, b)[c] = h[c]
      /\ Deallocated(h, b)[b].room = 0 /\ Deallocated(h, b)[b].cells = cells
  BY <1>3 DEF Heaps
<1> QED BY <1>4, <1>5 DEF cells

LEMMA AllocatedIs ==
  ASSUME NEW h \in Heaps, NEW b \in Blocks, NEW n \in Nat
  PROVE  LET h2 == Allocated(h, b, n)
         IN  /\ h2 \in Heaps
             /\ \A c \in Blocks : c # b => h2[c] = h[c]
             /\ h2[b].room = n /\ h2[b].cells = h[b].cells
BY DEF Allocated, Heaps

-----------------------------------------------------------------------------
(* Objects that come and go in the block of a vector.                      *)

States == [heap : Heaps, vec : Records]
WithSize(r, m) == [r EXCEPT !.size = m]

\* What becomes of the objects of f, of which there are n: those of g are added, assigned,
\* or only the first m are left.
Extended(f, n, g, m) == [k \in 0..(m - 1) |-> IF k < n THEN f[k] ELSE g[k]]
Patched(f, n, g) == [k \in 0..(n - 1) |-> IF k \in DOMAIN g THEN g[k] ELSE f[k]]
Prefix(f, m) == [k \in 0..(m - 1) |-> f[k]]
Longer(f, n, x) == [k \in 0..n |-> IF k < n THEN f[k] ELSE x]

LEMMA SizeIs ==
  ASSUME NEW O, NEW h0, NEW h, NEW r, NEW f, Holds(O, h0, h, r, f)
  PROVE  /\ h \in Heaps /\ r \in Records /\ r.size \in Nat /\ r.capacity \in Nat
         /\ r.size <= r.capacity /\ r.capacity <= Limit
         /\ f \in [0..(r.size - 1) -> Objects] /\ DOMAIN f = 0..(r.size - 1)
         /\ 0..(r.size - 1) \subseteq Cells /\ 0..(r.capacity - 1) \subseteq Cells
         /\ r.begin # Null => r.begin \in Blocks
         /\ r.begin = Null => r = Empty
<1>1. r \in Records /\ r.size \in Nat /\ r.capacity \in Nat /\ h \in Heaps
      /\ r.size <= r.capacity /\ r.capacity <= Limit /\ (r.begin = Null <=> r.capacity = 0)
      /\ f \in [0..(r.size - 1) -> Objects]
  BY DEF Holds, Shape, Records, Full, Alone
<1>2. r.begin # Null => r.begin \in Blocks
  BY <1>1 DEF Records
<1>3. ASSUME r.begin = Null PROVE r = Empty
  BY <1>1, <1>3 DEF Records, Empty
<1> QED BY <1>1, <1>2, <1>3, CellsAre

\* Construction at the end.
LEMMA Appended ==
  ASSUME NEW O, NEW h0, NEW h, NEW r, NEW f, Holds(O, h0, h, r, f),
         NEW m \in Nat, r.size <= m, m <= r.capacity,
         NEW g, DOMAIN g = r.size..(m - 1), \A k \in DOMAIN g : g[k] \in Objects
  PROVE  Holds(O, h0, Constructed(h, r.begin, g), WithSize(r, m), Extended(f, r.size, g, m))
<1> DEFINE h2 == Constructed(h, r.begin, g)
           r2 == [r EXCEPT !.size = m]
           f2 == [k \in 0..(m - 1) |-> IF k < r.size THEN f[k] ELSE g[k]]
<1>1. /\ h \in Heaps /\ r \in Records /\ r.size \in Nat /\ r.capacity \in Nat
      /\ f \in [0..(r.size - 1) -> Objects]
      /\ 0..(r.size - 1) \subseteq Cells /\ 0..(r.capacity - 1) \subseteq Cells
      /\ r.begin # Null => r.begin \in Blocks
      /\ r.begin = Null => r = Empty
  BY SizeIs
<1>2. DOMAIN g # {} => r.begin \in Blocks
  BY <1>1 DEF Empty
<1>3. /\ h2 \in Heaps
      /\ \A c \in Blocks : c # r.begin => h2[c] = h[c]
      /\ r.begin \in Blocks =>
           /\ h2[r.begin].room = h[r.begin].room
           /\ \A k \in Cells :
                h2[r.begin].cells[k] =
                  IF k \notin DOMAIN g THEN h[r.begin].cells[k]
                  ELSE IF k < h[r.begin].room /\ h[r.begin].cells[k] = Raw THEN g[k]
                  ELSE Broken
  <2>1. h \in Heaps
    BY <1>1
  <2>2. ConstructedAs(h, h2, r.begin, g)
    BY <1>2, <2>1, ConstructedIs
  <2> QED BY <2>2 DEF ConstructedAs
<1> HIDE DEF h2
<1>4. r2 \in Records /\ r2.size = m /\ r2.begin = r.begin /\ r2.capacity = r.capacity
  BY <1>1 DEF Records
<1>5. Shape(r2)
  BY <1>4 DEF Shape, Holds
<1>6. Alone(O, h0, h2, r2)
  BY <1>3, <1>4 DEF Alone, Holds, Free
<1>7. f2 \in [0..(m - 1) -> Objects]
  BY <1>1
<1>8. ASSUME r.begin # Null
      PROVE  /\ h2[r.begin].room = r.capacity
             /\ \A k \in Cells : h2[r.begin].cells[k] = IF k < m THEN f2[k] ELSE Raw
  <2>1. /\ h[r.begin].room = r.capacity
        /\ \A k \in Cells : h[r.begin].cells[k] = IF k < r.size THEN f[k] ELSE Raw
    BY <1>8 DEF Holds, Full
  <2>2. SUFFICES ASSUME NEW k \in Cells
                 PROVE  h2[r.begin].cells[k] = IF k < m THEN f2[k] ELSE Raw
    BY <1>1, <1>3, <1>8, <2>1
  <2>3. k \in Nat
    BY CellsAre
  <2> QED BY <1>1, <1>3, <1>8, <2>1, <2>3
<1>9. Full(h2, r2, f2)
  BY <1>4, <1>7, <1>8 DEF Full
<1> QED BY <1>5, <1>6, <1>9 DEF Holds, h2, WithSize, Extended

\* Assignment.
LEMMA Overwrote ==
  ASSUME NEW O, NEW h0, NEW h, NEW r, NEW f, Holds(O, h0, h, r, f),
         NEW g, DOMAIN g \subseteq 0..(r.size - 1), \A k \in DOMAIN g : g[k] \in Objects
  PROVE  Holds(O, h0, Assigned(h, r.begin, g), r, Patched(f, r.size, g))
<1> DEFINE h2 == Assigned(h, r.begin, g)
           f2 == [k \in 0..(r.size - 1) |-> IF k \in DOMAIN g THEN g[k] ELSE f[k]]
<1>1. /\ h \in Heaps /\ r \in Records /\ r.size \in Nat /\ r.capacity \in Nat
      /\ f \in [0..(r.size - 1) -> Objects]
      /\ r.begin # Null => r.begin \in Blocks
      /\ r.begin = Null => r = Empty
  BY SizeIs
<1>2. DOMAIN g # {} => r.begin \in Blocks
  BY <1>1 DEF Empty
<1>3. /\ h2 \in Heaps
      /\ \A c \in Blocks : c # r.begin => h2[c] = h[c]
      /\ r.begin \in Blocks =>
           /\ h2[r.begin].room = h[r.begin].room
           /\ \A k \in Cells :
                h2[r.begin].cells[k] =
                  IF k \notin DOMAIN g THEN h[r.begin].cells[k]
                  ELSE IF h[r.begin].cells[k] \in Objects THEN g[k]
                  ELSE Broken
  <2>1. AssignedAs(h, h2, r.begin, g)
    BY <1>1, <1>2, AssignedIs
  <2> QED BY <2>1 DEF AssignedAs
<1> HIDE DEF h2
<1>6. Alone(O, h0, h2, r)
  BY <1>3 DEF Alone, Holds, Free
<1>7. f2 \in [0..(r.size - 1) -> Objects]
  BY <1>1
<1>8. ASSUME r.begin # Null
      PROVE  /\ h2[r.begin].room = r.capacity
             /\ \A k \in Cells : h2[r.begin].cells[k] = IF k < r.size THEN f2[k] ELSE Raw
  <2>1. /\ h[r.begin].room = r.capacity
        /\ \A k \in Cells : h[r.begin].cells[k] = IF k < r.size THEN f[k] ELSE Raw
    BY <1>8 DEF Holds, Full
  <2>2. SUFFICES ASSUME NEW k \in Cells
                 PROVE  h2[r.begin].cells[k] = IF k < r.size THEN f2[k] ELSE Raw
    BY <1>1, <1>3, <1>8, <2>1
  <2>3. k \in Nat
    BY CellsAre
  <2> QED BY <1>1, <1>3, <1>8, <2>1, <2>3
<1>9. Full(h2, r, f2)
  BY <1>7, <1>8 DEF Full
<1> QED BY <1>6, <1>9 DEF Holds, h2, Patched

\* Destruction of the last ones.
LEMMA Dropped ==
  ASSUME NEW O, NEW h0, NEW h, NEW r, NEW f, Holds(O, h0, h, r, f),
         NEW m \in Nat, m <= r.size
  PROVE  Holds(O, h0, Destroyed(h, r.begin, m..(r.size - 1)), WithSize(r, m), Prefix(f, m))
<1> DEFINE K == m..(r.size - 1)
           h2 == Destroyed(h, r.begin, K)
           r2 == [r EXCEPT !.size = m]
           f2 == [k \in 0..(m - 1) |-> f[k]]
<1>1. /\ h \in Heaps /\ r \in Records /\ r.size \in Nat /\ r.capacity \in Nat
      /\ r.size <= r.capacity
      /\ f \in [0..(r.size - 1) -> Objects]
      /\ r.begin # Null => r.begin \in Blocks
      /\ r.begin = Null => r = Empty
  BY SizeIs
<1>2. K # {} => r.begin \in Blocks
  BY <1>1 DEF Empty
<1> HIDE DEF K
<1>3. /\ h2 \in Heaps
      /\ \A c \in Blocks : c # r.begin => h2[c] = h[c]
      /\ r.begin \in Blocks =>
           /\ h2[r.begin].room = h[r.begin].room
           /\ \A k \in Cells :
                h2[r.begin].cells[k] =
                  IF k \notin K THEN h[r.begin].cells[k]
                  ELSE IF h[r.begin].cells[k] \in Objects THEN Raw
                  ELSE Broken
  <2>1. DestroyedAs(h, h2, r.begin, K)
    BY <1>1, <1>2, DestroyedIs
  <2> QED BY <2>1 DEF DestroyedAs
<1> HIDE DEF h2
<1> USE DEF K
<1>4. r2 \in Records /\ r2.size = m /\ r2.begin = r.begin /\ r2.capacity = r.capacity
  BY <1>1 DEF Records
<1>5. Shape(r2)
  BY <1>1, <1>4 DEF Shape, Holds
<1>6. Alone(O, h0, h2, r2)
  BY <1>3, <1>4 DEF Alone, Holds, Free
<1>7. f2 \in [0..(m - 1) -> Objects]
  BY <1>1
<1>8. ASSUME r.begin # Null
      PROVE  /\ h2[r.begin].room = r.capacity
             /\ \A k \in Cells : h2[r.begin].cells[k] = IF k < m THEN f2[k] ELSE Raw
  <2>1. /\ h[r.begin].room = r.capacity
        /\ \A k \in Cells : h[r.begin].cells[k] = IF k < r.size THEN f[k] ELSE Raw
    BY <1>8 DEF Holds, Full
  <2>2. SUFFICES ASSUME NEW k \in Cells
                 PROVE  h2[r.begin].cells[k] = IF k < m THEN f2[k] ELSE Raw
    BY <1>1, <1>3, <1>8, <2>1
  <2>3. k \in Nat
    BY CellsAre
  <2>4. CASE k < m
    BY <1>1, <1>3, <1>8, <2>1, <2>3, <2>4
  <2>5. CASE m <= k /\ k < r.size
    <3>1. k \in K /\ f[k] \in Objects /\ h[r.begin].cells[k] = f[k]
      BY <1>1, <2>1, <2>3, <2>5
    <3> QED BY <1>1, <1>3, <1>8, <2>3, <2>5, <3>1
  <2>6. CASE r.size <= k
    <3>1. k \notin K /\ h[r.begin].cells[k] = Raw /\ ~(k < m)
      BY <1>1, <2>1, <2>3, <2>6
    <3> QED BY <1>1, <1>3, <1>8, <3>1
  <2> QED BY <1>1, <2>3, <2>4, <2>5, <2>6
<1>9. Full(h2, r2, f2)
  BY <1>4, <1>7, <1>8 DEF Full
<1> QED BY <1>5, <1>6, <1>9 DEF Holds, h2, K, WithSize, Prefix

-----------------------------------------------------------------------------
(* Blocks that come and go.                                                *)

LEMMA FreeBlockIs ==
  ASSUME NEW O, NEW h0, Others(O, h0), NEW h, NEW r, NEW f, Holds(O, h0, h, r, f)
  PROVE  /\ FreeBlock(h) \in Blocks \ O /\ FreeBlock(h) # r.begin /\ FreeBlock(h) # Null
         /\ Free(h, FreeBlock(h))
<1>1. Alone(O, h0, h, r) /\ Full(h, r, f) /\ Shape(r)
  BY DEF Holds
<1>2. PICK b \in Blocks \ O : b # r.begin
  BY DEF Others
<1>3. h[b].room = 0
  BY <1>1, <1>2 DEF Alone, Free
<1>4. FreeBlock(h) \in Blocks /\ h[FreeBlock(h)].room = 0
  BY <1>2, <1>3 DEF FreeBlock
<1>5. FreeBlock(h) # Null
  BY <1>4, SimpleVectorAssumption
<1>6. \A c \in O : h[c].room # 0
  BY <1>1 DEF Alone, Others
<1>7. FreeBlock(h) # r.begin
  BY <1>1, <1>4, <1>5 DEF Full, Shape
<1> QED BY <1>1, <1>4, <1>5, <1>6, <1>7 DEF Alone

\* In the block b, of the size n, are the first m objects of g; the others are as in h.
Built(h, h2, b, n, g, m) ==
  /\ h2 \in Heaps
  /\ \A c \in Blocks : c # b => h2[c] = h[c]
  /\ h2[b].room = n
  /\ \A k \in Cells : h2[b].cells[k] = IF k < m THEN g[k] ELSE Raw

\* resize_capacity() up to the point where the objects are in the new block.
LEMMA NewBlockIs ==
  ASSUME NEW O, NEW h0, Others(O, h0), NEW s \in States, NEW f, Holds(O, h0, s.heap, s.vec, f),
         NEW n \in Nat, n <= MaxSize + 1,
         NEW m \in Nat, m <= Rounded(n), NEW g, DOMAIN g = 0..(m - 1),
         \A k \in DOMAIN g : g[k] \in Objects
  PROVE  Built(s.heap, NewBlock(s, n, g), FreeBlock(s.heap), Rounded(n), g, m)
<1> DEFINE b == FreeBlock(s.heap)
           h1 == Allocated(s.heap, b, Rounded(n))
           h == Constructed(h1, b, g)
<1>1. b \in Blocks /\ Free(s.heap, b) /\ s.heap \in Heaps
  BY FreeBlockIs DEF States
<1>2. Rounded(n) \in Nat
  BY RoundedIs
<1> HIDE DEF b
<1>3. /\ h1 \in Heaps
      /\ \A c \in Blocks : c # b => h1[c] = s.heap[c]
      /\ h1[b].room = Rounded(n) /\ h1[b].cells = s.heap[b].cells
  BY <1>1, <1>2, AllocatedIs
<1> HIDE DEF h1
<1>4. /\ h \in Heaps
      /\ \A c \in Blocks : c # b => h[c] = h1[c]
      /\ h[b].room = h1[b].room
      /\ \A k \in Cells :
           h[b].cells[k] = IF k \notin DOMAIN g THEN h1[b].cells[k]
                           ELSE IF k < h1[b].room /\ h1[b].cells[k] = Raw THEN g[k]
                           ELSE Broken
  <2>1. ConstructedAs(h1, h, b, g)
    BY <1>1, <1>3, ConstructedIs
  <2> QED BY <1>1, <2>1 DEF ConstructedAs
<1> HIDE DEF h
<1>5. ASSUME NEW k \in Cells PROVE h[b].cells[k] = IF k < m THEN g[k] ELSE Raw
  <2>1. h1[b].cells[k] = Raw
    BY <1>1, <1>3 DEF Free
  <2>2. k \in Nat
    BY CellsAre
  <2> QED BY <1>2, <1>3, <1>4, <2>1, <2>2
<1>6. NewBlock(s, n, g) = h
  BY DEF NewBlock, h, h1, b
<1>7. Built(s.heap, h, b, Rounded(n), g, m)
  BY <1>3, <1>4, <1>5 DEF Built
<1> QED BY <1>6, <1>7 DEF b

LEMMA ResetLeaves ==
  ASSUME NEW O, NEW h0, NEW s \in States, NEW f, Holds(O, h0, s.heap, s.vec, f),
         NEW g \in [0..(0 - 1) -> Objects]
  PROVE  /\ Reset(s) \in States /\ Reset(s).vec = Empty
         /\ Holds(O, h0, Reset(s).heap, Empty, g)
<1> DEFINE b == s.vec.begin
           n == s.vec.size
<1>1. /\ s.heap \in Heaps /\ s.vec \in Records /\ n \in Nat
      /\ b # Null => b \in Blocks
      /\ b = Null => s.vec = Empty
  BY SizeIs
<1>2. Empty \in Records /\ Shape(Empty) /\ Empty.size = 0 /\ Empty.begin = Null
  <2>1. 0 % Align = 0
    BY SimpleVectorAssumption
  <2> QED BY <2>1, CellsAre DEF Empty, Records, Shape
<1>3. CASE b = Null
  <2>1. Reset(s) = s
    BY <1>3 DEF Reset
  <2> QED BY <1>1, <1>2, <1>3, <2>1 DEF Holds, Full
<1>4. CASE b # Null
  <2>0. PICK m \in Nat : m = 0 /\ m <= n
    BY <1>1
  <2> DEFINE h1 == Destroyed(s.heap, b, m..(n - 1))
             h2 == Deallocated(h1, b)
             r1 == WithSize(s.vec, m)
             f1 == Prefix(f, m)
  <2>1. Holds(O, h0, h1, r1, f1)
    <3>1. m \in Nat /\ m <= s.vec.size
      BY <2>0
    <3> QED BY <3>1, Dropped
  <2>2. r1.begin = b /\ r1.size = 0
    BY <1>1, <2>0 DEF Records, WithSize
  <2> HIDE DEF h1, r1, f1
  <2>3. /\ h1 \in Heaps /\ O \subseteq Blocks /\ b \notin O
        /\ \A c \in O : h1[c] = h0[c]
        /\ \A c \in Blocks \ O : c # b => Free(h1, c)
    BY <2>1, <2>2 DEF Holds, Alone
  <2>4. \A k \in Cells : h1[b].cells[k] = Raw
    <3>1. \A k \in Cells : ~ (k < 0)
      BY CellsAre
    <3> QED BY <1>4, <2>1, <2>2, <3>1 DEF Holds, Full
  <2>5. /\ h2 \in Heaps
        /\ \A c \in Blocks : c # b => h2[c] = h1[c]
        /\ h2[b].room = 0
        /\ \A k \in Cells : h2[b].cells[k] = IF h1[b].cells[k] = Raw THEN Raw ELSE Broken
    BY <1>1, <1>4, <2>3, DeallocatedIs
  <2> HIDE DEF h2
  <2>6. Free(h2, b)
    BY <2>4, <2>5 DEF Free
  <2>7. \A c \in Blocks \ O : Free(h2, c)
    BY <2>3, <2>5, <2>6 DEF Free
  <2>8. Null \notin O
    BY <2>3, SimpleVectorAssumption
  <2>9. Alone(O, h0, h2, Empty)
    BY <1>2, <2>3, <2>5, <2>7, <2>8 DEF Alone
  <2>10. Full(h2, Empty, g)
    BY <1>2 DEF Full
  <2>11. Reset(s) = [heap |-> h2, vec |-> Empty]
    BY <1>4, <2>0 DEF Reset, h1, h2
  <2> QED BY <1>2, <2>5, <2>9, <2>10, <2>11 DEF Holds, States
<1> QED BY <1>3, <1>4


\* resize_capacity().
LEMMA RelocatedHolds ==
  ASSUME NEW O, NEW h0, Others(O, h0), NEW s \in States, NEW f, Holds(O, h0, s.heap, s.vec, f),
         NEW n \in Nat, n <= MaxSize + 1, n # 0,
         NEW m \in Nat, m <= Rounded(n), NEW g \in [0..(m - 1) -> Objects]
  PROVE  /\ Relocated(s, n, g, m) \in States
         /\ Relocated(s, n, g, m).vec.size = m
         /\ Relocated(s, n, g, m).vec.capacity = Rounded(n)
         /\ Holds(O, h0, Relocated(s, n, g, m).heap, Relocated(s, n, g, m).vec, g)
<1> DEFINE b == FreeBlock(s.heap)
           h == NewBlock(s, n, g)
           s1 == [s EXCEPT !.heap = h]
           P == O \cup {b}
           r == [begin |-> b, size |-> m, capacity |-> Rounded(n)]
           f0 == [k \in 0..(0 - 1) |-> Moved]
           h2 == Reset(s1).heap
<1>1. b \in Blocks \ O /\ b # s.vec.begin /\ b # Null /\ Free(s.heap, b)
  BY FreeBlockIs
<1>2. /\ h \in Heaps
      /\ \A c \in Blocks : c # b => h[c] = s.heap[c]
      /\ h[b].room = Rounded(n)
      /\ \A k \in Cells : h[b].cells[k] = IF k < m THEN g[k] ELSE Raw
  <2>1. Built(s.heap, h, b, Rounded(n), g, m)
    BY NewBlockIs
  <2> QED BY <2>1 DEF Built
<1>3. Shape(s.vec) /\ Alone(O, h0, s.heap, s.vec) /\ Full(s.heap, s.vec, f)
  BY DEF Holds
<1>4. s1 \in States /\ s1.heap = h /\ s1.vec = s.vec
  BY <1>2 DEF States
<1>5. /\ s.vec \in Records
      /\ s.vec.begin # Null => s.vec.begin \in Blocks
  BY SizeIs
<1>6. h2 = Relocated(s, n, g, m).heap /\ r = Relocated(s, n, g, m).vec
      /\ Relocated(s, n, g, m) \in [heap : {h2}, vec : {r}]
  BY DEF Relocated
<1> HIDE DEF b, h, s1, h2
<1>7. Holds(P, h, h, s.vec, f)
  <2>1. Alone(P, h, h, s.vec)
    BY <1>1, <1>2, <1>3 DEF Alone, Free
  <2>2. Full(h, s.vec, f)
    BY <1>1, <1>2, <1>3, <1>5 DEF Full
  <2> QED BY <1>3, <2>1, <2>2 DEF Holds
<1>8. f0 \in [0..(0 - 1) -> Objects]
  BY DEF Objects
<1>9. Holds(P, h, h2, Empty, f0)
  BY <1>4, <1>7, <1>8, ResetLeaves DEF h2
<1>10. /\ h2 \in Heaps
       /\ \A c \in P : h2[c] = h[c]
       /\ \A c \in Blocks \ P : Free(h2, c)
  <2>1. Null \notin Blocks /\ Empty.begin = Null
    BY SimpleVectorAssumption DEF Empty
  <2> QED BY <1>9, <2>1 DEF Holds, Alone
<1>11. Shape(r)
  <2>1. /\ Rounded(n) \in Nat /\ Rounded(n) % Align = 0 /\ Rounded(n) <= Limit /\ n <= Rounded(n)
    BY RoundedIs, RoundedFits
  <2> QED BY <1>1, <2>1 DEF Shape, Records
<1>12. Alone(O, h0, h2, r)
  <2>1. O \subseteq Blocks /\ \A c \in O : s.heap[c] = h0[c]
    BY <1>3 DEF Alone
  <2>2. \A c \in O : h2[c] = h0[c]
    BY <1>1, <1>2, <1>10, <2>1
  <2> QED BY <1>1, <1>10, <2>1, <2>2 DEF Alone
<1>13. Full(h2, r, g)
  BY <1>2, <1>10 DEF Full
<1>14. Relocated(s, n, g, m) \in States
  BY <1>6, <1>10, <1>11 DEF States, Shape
<1> QED BY <1>6, <1>11, <1>12, <1>13, <1>14 DEF Holds

\* What is left in the old block if j objects could be moved or copied.
Left(f, n, j) == [k \in 0..(n - 1) |-> IF moves /\ k < j THEN Moved ELSE f[k]]

\* The same if a construction throws: nothing has changed, but what moved.
LEMMA RelocationFailedHolds ==
  ASSUME NEW O, NEW h0, Others(O, h0), NEW s \in States, NEW f, Holds(O, h0, s.heap, s.vec, f),
         NEW n \in Nat, n <= MaxSize + 1,
         NEW g, NEW m \in Nat, DOMAIN g = 0..(m - 1), \A k \in DOMAIN g : g[k] \in Objects,
         NEW j \in Nat, j <= m, j <= Rounded(n), moves => j <= s.vec.size
  PROVE  /\ RelocationFailed(s, n, g, j) \in States
         /\ RelocationFailed(s, n, g, j).vec = s.vec
         /\ Holds(O, h0, RelocationFailed(s, n, g, j).heap, s.vec,
                  Left(f, s.vec.size, j))
<1> DEFINE b == FreeBlock(s.heap)
           gj == First(g, j)
           h1 == NewBlock(s, n, gj)
           K == 0..(j - 1)
           h2 == Destroyed(h1, b, K)
           h3 == Deallocated(h2, b)
<1>1. b \in Blocks \ O /\ b # s.vec.begin /\ b # Null /\ Free(s.heap, b)
  BY FreeBlockIs
<1>2. Shape(s.vec) /\ Alone(O, h0, s.heap, s.vec) /\ Full(s.heap, s.vec, f) /\ s.heap \in Heaps
      /\ s.vec \in Records /\ s.vec.size \in Nat /\ f \in [0..(s.vec.size - 1) -> Objects]
  BY SizeIs DEF Holds
<1>3. DOMAIN gj = 0..(j - 1) /\ \A k \in DOMAIN gj : gj[k] \in Objects
  BY DEF First
<1> HIDE DEF b, gj
<1> HIDE DEF h1, K
<1>4. /\ h1 \in Heaps
      /\ \A c \in Blocks : c # b => h1[c] = s.heap[c]
      /\ h1[b].room = Rounded(n)
      /\ \A k \in Cells : h1[b].cells[k] = IF k < j THEN gj[k] ELSE Raw
  <2>1. NewBlock(s, n, gj) = h1 /\ FreeBlock(s.heap) = b
    BY DEF h1, b
  <2>2. Built(s.heap, NewBlock(s, n, gj), FreeBlock(s.heap), Rounded(n), gj, j)
    BY <1>3, NewBlockIs
  <2> QED BY <2>1, <2>2 DEF Built
<1>5. /\ h2 \in Heaps
      /\ \A c \in Blocks : c # b => h2[c] = h1[c]
      /\ \A k \in Cells :
           h2[b].cells[k] = IF k \notin K THEN h1[b].cells[k]
                            ELSE IF h1[b].cells[k] \in Objects THEN Raw ELSE Broken
  <2>1. DestroyedAs(h1, h2, b, K)
    BY <1>1, <1>4, DestroyedIs
  <2> QED BY <1>1, <2>1 DEF DestroyedAs
<1> HIDE DEF h2
<1>6. \A k \in Cells : h2[b].cells[k] = Raw
  <2>1. \A k \in Cells : k \in Nat
    BY CellsAre
  <2>2. \A k \in Cells : k \in K <=> k < j
    BY <2>1 DEF K
  <2> QED BY <1>3, <1>4, <1>5, <2>1, <2>2
<1>7. /\ h3 \in Heaps
      /\ \A c \in Blocks : c # b => h3[c] = h2[c]
      /\ h3[b].room = 0
      /\ \A k \in Cells : h3[b].cells[k] = IF h2[b].cells[k] = Raw THEN Raw ELSE Broken
  BY <1>1, <1>5, DeallocatedIs
<1> HIDE DEF h3
<1>8. Free(h3, b) /\ \A c \in Blocks : c # b => h3[c] = s.heap[c]
  BY <1>4, <1>5, <1>6, <1>7 DEF Free
<1>9. Holds(O, h0, h3, s.vec, f)
  <2>1. Alone(O, h0, h3, s.vec)
    BY <1>1, <1>2, <1>7, <1>8 DEF Alone, Free
  <2>2. s.vec.begin # Null => s.vec.begin \in Blocks
    BY SizeIs
  <2>3. Full(h3, s.vec, f)
    BY <1>1, <1>2, <1>8, <2>2 DEF Full
  <2> QED BY <1>2, <2>1, <2>3 DEF Holds
<1>10. RelocationFailed(s, n, g, j) =
         [s EXCEPT !.heap = IF ~moves THEN h3
                            ELSE Assigned(h3, s.vec.begin, [k \in 0..(j - 1) |-> Moved])]
  BY DEF RelocationFailed, h3, h2, K, h1, gj, b
<1>11. CASE ~moves
  <2>1. f = Left(f, s.vec.size, j)
    BY <1>2, <1>11 DEF Left
  <2> QED BY <1>7, <1>9, <1>10, <1>11, <2>1 DEF States
<1>12. CASE moves
  <2> DEFINE q == [k \in 0..(j - 1) |-> Moved]
             fq == Patched(f, s.vec.size, q)
             ff == Left(f, s.vec.size, j)
  <2>1. DOMAIN q \subseteq 0..(s.vec.size - 1) /\ \A k \in DOMAIN q : q[k] \in Objects
    BY <1>2, <1>12 DEF Objects
  <2>2. fq = ff
    BY <1>2, <1>12 DEF Patched, Left
  <2> HIDE DEF q
  <2>3. Holds(O, h0, Assigned(h3, s.vec.begin, q), s.vec, fq)
    BY <1>9, <2>1, Overwrote
  <2>4. Holds(O, h0, Assigned(h3, s.vec.begin, q), s.vec, ff)
    BY <2>2, <2>3
  <2>5. Assigned(h3, s.vec.begin, q) \in Heaps
    BY <2>3, SizeIs
  <2>6. RelocationFailed(s, n, g, j) = [s EXCEPT !.heap = Assigned(h3, s.vec.begin, q)]
    BY <1>10, <1>12 DEF q
  <2> QED BY <2>4, <2>5, <2>6 DEF States
<1> QED BY <1>11, <1>12

-----------------------------------------------------------------------------
(* Private members.  s is a vector with the heap it is in.                 *)

Keeps(O, h0, s, f) == s \in States /\ Holds(O, h0, s.heap, s.vec, f)

LEMMA KeepsFacts ==
  ASSUME NEW O, NEW h0, NEW s, NEW f, Keeps(O, h0, s, f)
  PROVE  /\ s \in States /\ s.heap \in Heaps /\ s.vec \in Records
         /\ s.vec.size \in Nat /\ s.vec.capacity \in Nat /\ s.vec.size <= s.vec.capacity
         /\ f \in [0..(s.vec.size - 1) -> Objects]
         /\ s.vec.begin # Null => s.vec.begin \in Blocks
         /\ s.vec.begin = Null => s.vec = Empty
<1>1. s \in States /\ Holds(O, h0, s.heap, s.vec, f)
  BY DEF Keeps
<1> QED BY <1>1, SizeIs

LEMMA ContentsAre ==
  ASSUME NEW O, NEW h0, NEW s, NEW f, Keeps(O, h0, s, f)
  PROVE  Contents(s) = f /\ \A k \in 0..(s.vec.size - 1) : Object(s, k) = f[k]
<1>1. /\ s.vec.size \in Nat /\ f \in [0..(s.vec.size - 1) -> Objects]
      /\ s.vec.begin = Null => s.vec = Empty
  BY KeepsFacts
<1>2. 0..(s.vec.size - 1) \subseteq Cells
  BY SizeIs DEF Keeps
<1>3. ASSUME NEW k \in 0..(s.vec.size - 1) PROVE Object(s, k) = f[k]
  <2>1. s.vec.begin # Null
    BY <1>1, <1>3 DEF Empty
  <2> QED BY <1>1, <1>2, <1>3, <2>1 DEF Keeps, Holds, Full, Object
<1> QED BY <1>1, <1>3 DEF Contents

LEMMA RelocatedKeeps ==
  ASSUME NEW O, NEW h0, Others(O, h0), NEW s, NEW f, Keeps(O, h0, s, f),
         NEW n \in Nat, n <= MaxSize + 1, n # 0,
         NEW m \in Nat, m <= Rounded(n), NEW g \in [0..(m - 1) -> Objects]
  PROVE  Keeps(O, h0, Relocated(s, n, g, m), g) /\ Relocated(s, n, g, m).vec.size = m
<1>1. s \in States /\ Holds(O, h0, s.heap, s.vec, f)
  BY DEF Keeps
<1>2. /\ Relocated(s, n, g, m) \in States
      /\ Relocated(s, n, g, m).vec.size = m
      /\ Holds(O, h0, Relocated(s, n, g, m).heap, Relocated(s, n, g, m).vec, g)
  BY <1>1, RelocatedHolds
<1> QED BY <1>2 DEF Keeps

LEMMA RelocationFailedKeeps ==
  ASSUME NEW O, NEW h0, Others(O, h0), NEW s, NEW f, Keeps(O, h0, s, f),
         NEW n \in Nat, n <= MaxSize + 1,
         NEW m \in Nat, NEW g \in [0..(m - 1) -> Objects],
         NEW j \in Nat, j <= m, j <= Rounded(n), moves => j <= s.vec.size
  PROVE  /\ Keeps(O, h0, RelocationFailed(s, n, g, j), Left(f, s.vec.size, j))
         /\ RelocationFailed(s, n, g, j).vec = s.vec
<1>1. s \in States /\ Holds(O, h0, s.heap, s.vec, f)
  BY DEF Keeps
<1>2. DOMAIN g = 0..(m - 1) /\ \A k \in DOMAIN g : g[k] \in Objects
  OBVIOUS
<1>3. /\ RelocationFailed(s, n, g, j) \in States
      /\ RelocationFailed(s, n, g, j).vec = s.vec
      /\ Holds(O, h0, RelocationFailed(s, n, g, j).heap, s.vec, Left(f, s.vec.size, j))
  BY <1>1, <1>2, RelocationFailedHolds
<1> QED BY <1>3 DEF Keeps

LEMMA ResizedHolds ==
  ASSUME NEW O, NEW h0, Others(O, h0), NEW s, NEW f, Keeps(O, h0, s, f),
         NEW n \in Nat, n # 0, n <= MaxSize + 1, s.vec.size <= n
  PROVE  /\ Keeps(O, h0, Resized(s, n), f)
         /\ Resized(s, n).vec.size = s.vec.size
         /\ n <= Resized(s, n).vec.capacity
<1>1. s \in States /\ s.vec.size \in Nat /\ f \in [0..(s.vec.size - 1) -> Objects]
  BY KeepsFacts
<1>2. Contents(s) = f
  BY ContentsAre
<1>3. Rounded(n) \in Nat /\ n <= Rounded(n)
  BY RoundedIs
<1>4. CASE Rounded(n) = s.vec.capacity
  BY <1>3, <1>4 DEF Resized
<1>5. CASE Rounded(n) # s.vec.capacity
  <2>1. s.vec.size <= Rounded(n)
    BY <1>1, <1>3
  <2>2. Holds(O, h0, s.heap, s.vec, f)
    BY DEF Keeps
  <2>3. /\ Relocated(s, n, f, s.vec.size) \in States
        /\ Relocated(s, n, f, s.vec.size).vec.size = s.vec.size
        /\ Relocated(s, n, f, s.vec.size).vec.capacity = Rounded(n)
        /\ Holds(O, h0, Relocated(s, n, f, s.vec.size).heap, Relocated(s, n, f, s.vec.size).vec, f)
    BY <1>1, <2>1, <2>2, RelocatedHolds
  <2>4. Resized(s, n) = Relocated(s, n, f, s.vec.size)
    BY <1>2, <1>5 DEF Resized
  <2> QED BY <1>3, <2>3, <2>4 DEF Keeps
<1> QED BY <1>4, <1>5

LEMMA WithRoomHolds ==
  ASSUME NEW O, NEW h0, Others(O, h0), NEW s, NEW f, Keeps(O, h0, s, f), s.vec.size < MaxSize
  PROVE  /\ Keeps(O, h0, WithRoom(s), f)
         /\ WithRoom(s).vec.size = s.vec.size
         /\ s.vec.size < WithRoom(s).vec.capacity
<1>1. s.vec.size \in Nat /\ s.vec.capacity \in Nat /\ s.vec.size <= s.vec.capacity
  BY KeepsFacts
<1>2. CASE s.vec.size = s.vec.capacity
  <2> DEFINE n == GetGrowSize(s)
  <2>1. n \in Nat /\ n > s.vec.size /\ n <= MaxSize + 1
    BY <1>1, GrowthEnough
  <2>2. WithRoom(s) = Resized(s, n)
    BY <1>2 DEF WithRoom
  <2> HIDE DEF n
  <2>3. n # 0 /\ s.vec.size <= n
    BY <1>1, <2>1
  <2>4. /\ Keeps(O, h0, Resized(s, n), f)
        /\ Resized(s, n).vec.size = s.vec.size
        /\ n <= Resized(s, n).vec.capacity
    BY <2>1, <2>3, ResizedHolds
  <2>5. Resized(s, n).vec.capacity \in Nat
    BY <2>4, KeepsFacts
  <2> QED BY <1>1, <2>1, <2>2, <2>4, <2>5
<1>3. CASE s.vec.size # s.vec.capacity
  BY <1>1, <1>3 DEF WithRoom
<1> QED BY <1>2, <1>3

LEMMA AppendedKeeps ==
  ASSUME NEW O, NEW h0, NEW s, NEW f, Keeps(O, h0, s, f),
         NEW m \in Nat, s.vec.size <= m, m <= s.vec.capacity,
         NEW g, DOMAIN g = s.vec.size..(m - 1), \A k \in DOMAIN g : g[k] \in Objects
  PROVE  Keeps(O, h0, [heap |-> Constructed(s.heap, s.vec.begin, g),
                       vec |-> WithSize(s.vec, m)], Extended(f, s.vec.size, g, m))
<1>1. Holds(O, h0, s.heap, s.vec, f)
  BY DEF Keeps
<1>2. Holds(O, h0, Constructed(s.heap, s.vec.begin, g), WithSize(s.vec, m),
            Extended(f, s.vec.size, g, m))
  BY <1>1, Appended
<1>3. Constructed(s.heap, s.vec.begin, g) \in Heaps /\ WithSize(s.vec, m) \in Records
  BY <1>2 DEF Holds, Alone, Shape
<1> QED BY <1>2, <1>3 DEF Keeps, States

LEMMA PushedHolds ==
  ASSUME NEW O, NEW h0, Others(O, h0), NEW s, NEW f, Keeps(O, h0, s, f), s.vec.size < MaxSize,
         NEW x \in Objects
  PROVE  /\ Keeps(O, h0, Pushed(s, x), Longer(f, s.vec.size, x))
         /\ Pushed(s, x).vec.size = s.vec.size + 1
<1> DEFINE r == WithRoom(s)
           n == s.vec.size
           g == [k \in {r.vec.size} |-> x]
           m == n + 1
           f2 == Extended(f, r.vec.size, g, m)
           f3 == Longer(f, n, x)
<1>1. Keeps(O, h0, r, f) /\ r.vec.size = n /\ n < r.vec.capacity
  BY WithRoomHolds
<1>2. n \in Nat /\ r.vec \in Records /\ r.vec.capacity \in Nat
  BY <1>1, KeepsFacts
<1>3. Pushed(s, x) = [heap |-> Constructed(r.heap, r.vec.begin, g),
                      vec |-> WithSize(r.vec, m)]
  BY <1>1, <1>2 DEF Pushed, Records, WithSize
<1>4. DOMAIN g = r.vec.size..(m - 1) /\ \A k \in DOMAIN g : g[k] \in Objects
  BY <1>1, <1>2
<1>5. m \in Nat /\ r.vec.size <= m /\ m <= r.vec.capacity
  BY <1>1, <1>2
<1>6. f2 = f3
  BY <1>1, <1>2 DEF Extended, Longer
<1> HIDE DEF r, g, m
<1>7. Keeps(O, h0, [heap |-> Constructed(r.heap, r.vec.begin, g),
                    vec |-> WithSize(r.vec, m)], f2)
  BY <1>1, <1>4, <1>5, AppendedKeeps
<1>8. WithSize(r.vec, m).size = m
  BY <1>2 DEF Records, WithSize
<1> HIDE DEF f2, f3
<1>9. Keeps(O, h0, Pushed(s, x), f3) /\ Pushed(s, x).vec.size = m
  BY <1>3, <1>6, <1>7, <1>8
<1> QED BY <1>9 DEF f3, m

LEMMA ClearedHolds ==
  ASSUME NEW O, NEW h0, NEW s, NEW f, Keeps(O, h0, s, f), NEW n \in Nat, n <= s.vec.size
  PROVE  /\ Keeps(O, h0, ClearToEnd(s, n), Prefix(f, n))
         /\ ClearToEnd(s, n).vec.size = n
<1>1. s.vec.size \in Nat /\ s.vec \in Records /\ Holds(O, h0, s.heap, s.vec, f)
  BY KeepsFacts DEF Keeps
<1>2. Smaller(n, s.vec.size) = n
  BY <1>1 DEF Smaller
<1>3. ClearToEnd(s, n) = [heap |-> Destroyed(s.heap, s.vec.begin, n..(s.vec.size - 1)),
                          vec |-> WithSize(s.vec, n)]
  BY <1>1, <1>2 DEF ClearToEnd, Records, WithSize
<1>4. Holds(O, h0, Destroyed(s.heap, s.vec.begin, n..(s.vec.size - 1)), WithSize(s.vec, n),
            Prefix(f, n))
  BY <1>1, Dropped
<1>5. /\ Destroyed(s.heap, s.vec.begin, n..(s.vec.size - 1)) \in Heaps
      /\ WithSize(s.vec, n) \in Records
  BY <1>4 DEF Holds, Alone, Shape
<1>6. WithSize(s.vec, n).size = n
  BY <1>1 DEF Records, WithSize
<1> QED BY <1>3, <1>4, <1>5, <1>6 DEF Keeps, States

-----------------------------------------------------------------------------
(* The invariant.                                                          *)

\* Each vector has the block it says, nobody else has it, and what nobody has is free.
Layout ==
  /\ \A v \in Vectors : Shape(vec[v]) /\ Full(heap, vec[v], Contents(At(v)))
  /\ \A v, w \in Vectors : v # w /\ vec[v].begin = vec[w].begin => vec[v].begin = Null
  /\ \A b \in Blocks : (\A v \in Vectors : vec[v].begin # b) => Free(heap, b)

IInv == TypeOK /\ Layout /\ ElementsKept

OthersOf(v) == {vec[w].begin : w \in Vectors \ {v}} \ {Null}

LEMMA Typed ==
  ASSUME TypeOK
  PROVE  /\ heap \in Heaps /\ vec \in [Vectors -> Records] /\ elements \in [Vectors -> Seq(Objects)]
         /\ \A v \in Vectors : /\ vec[v].size \in Nat /\ vec[v].size <= MaxLength
                               /\ vec[v].begin # Null => vec[v].begin \in Blocks
                               /\ At(v) \in States /\ At(v).heap = heap /\ At(v).vec = vec[v]
<1>1. heap \in Heaps /\ elements \in [Vectors -> Seq(Objects)]
  BY DEF TypeOK, Heaps
<1>2. vec \in [Vectors -> [begin : Blocks \cup {Null}, size : 0..MaxLength, capacity : Nat]]
  BY DEF TypeOK
<1>3. vec \in [Vectors -> Records]
  BY <1>2, SimpleVectorAssumption DEF Records
<1>4. ASSUME NEW v \in Vectors
      PROVE  /\ vec[v].size \in Nat /\ vec[v].size <= MaxLength
             /\ vec[v].begin # Null => vec[v].begin \in Blocks
             /\ At(v) \in States /\ At(v).heap = heap /\ At(v).vec = vec[v]
  BY <1>1, <1>2, <1>3, SimpleVectorAssumption DEF At, States
<1> QED BY <1>1, <1>3, <1>4

\* There are more blocks than vectors.
LEMMA OthersAre ==
  ASSUME TypeOK, Layout, NEW v \in Vectors
  PROVE  Others(OthersOf(v), heap)
<1> DEFINE W == {w \in Vectors \ {v} : vec[w].begin # Null}
           O == OthersOf(v)
           f == [w \in W |-> vec[w].begin]
<1>1. /\ IsFiniteSet(Vectors) /\ IsFiniteSet(Blocks)
      /\ Cardinality(Vectors) < Cardinality(Blocks)
  BY SimpleVectorAssumption
<1>2. O \subseteq Blocks /\ O = {vec[w].begin : w \in W}
  BY Typed DEF OthersOf
<1>3. f \in Surjection(W, O)
  BY <1>2 DEF Surjection
<1>4. IsFiniteSet(Vectors \ {v}) /\ Cardinality(Vectors \ {v}) = Cardinality(Vectors) - 1
  BY <1>1, FS_RemoveElement
<1>5. IsFiniteSet(W) /\ Cardinality(W) <= Cardinality(Vectors \ {v})
  <2>1. W \in SUBSET (Vectors \ {v})
    OBVIOUS
  <2> QED BY <1>4, <2>1, FS_Subset
<1>6. IsFiniteSet(O) /\ Cardinality(O) <= Cardinality(W)
  BY <1>3, <1>5, FS_Surjection
<1>7. /\ Cardinality(O) \in Nat /\ Cardinality(W) \in Nat /\ Cardinality(Vectors) \in Nat
      /\ Cardinality(Blocks) \in Nat
  BY <1>1, <1>5, <1>6, FS_CardinalityType
<1> HIDE DEF O, W, f
<1>8. PICK b \in Blocks : b \notin O
  <2>1. CASE Blocks \subseteq O
    <3>1. Cardinality(Blocks) <= Cardinality(O)
      BY <1>6, <2>1, FS_Subset
    <3> QED BY <1>1, <1>4, <1>5, <1>6, <1>7, <3>1
  <2> QED BY <2>1
<1>9. PICK c \in Blocks : c \notin O \cup {b}
  <2>1. CASE Blocks \subseteq O \cup {b}
    <3>1. IsFiniteSet(O \cup {b}) /\ Cardinality(O \cup {b}) = Cardinality(O) + 1
      BY <1>6, <1>8, FS_AddElement
    <3>2. Cardinality(Blocks) <= Cardinality(O \cup {b})
      BY <2>1, <3>1, FS_Subset
    <3> QED BY <1>1, <1>4, <1>5, <1>6, <1>7, <3>1, <3>2
  <2> QED BY <2>1
<1>10. ASSUME NEW o \in O PROVE heap[o].room # 0
  <2>1. PICK w \in Vectors : vec[w].begin = o /\ o # Null
    BY <1>2 DEF W
  <2>2. Shape(vec[w]) /\ Full(heap, vec[w], Contents(At(w)))
    BY DEF Layout
  <2> QED BY <2>1, <2>2 DEF Shape, Full
<1>11. heap \in Heaps
  BY Typed
<1> QED BY <1>8, <1>9, <1>10, <1>11 DEF Others, O

LEMMA AtKeeps ==
  ASSUME TypeOK, Layout, NEW v \in Vectors
  PROVE  Keeps(OthersOf(v), heap, At(v), Contents(At(v)))
<1>1. /\ heap \in Heaps /\ At(v) \in States /\ At(v).heap = heap /\ At(v).vec = vec[v]
  BY Typed
<1>2. Shape(vec[v]) /\ Full(heap, vec[v], Contents(At(v)))
  BY DEF Layout
<1>3. OthersOf(v) \subseteq Blocks /\ vec[v].begin \notin OthersOf(v)
  BY Typed DEF Layout, OthersOf
<1>4. ASSUME NEW b \in Blocks \ OthersOf(v), b # vec[v].begin PROVE Free(heap, b)
  <2>1. b # Null
    BY SimpleVectorAssumption
  <2>2. \A w \in Vectors : vec[w].begin # b
    BY <1>4, <2>1 DEF OthersOf
  <2> QED BY <2>2 DEF Layout
<1> QED BY <1>1, <1>2, <1>3, <1>4 DEF Keeps, Holds, Alone

\* What the history says of a step.
Departs == departed' \in Departures
Matches(f, n, q) == departed' = Null => q = AsSeq(f, n)

\* A step that changes one vector keeps the invariant, if it has done right by that one.
LEMMA DoneKeeps ==
  ASSUME IInv, NEW v \in Vectors, NEW s, NEW f, Keeps(OthersOf(v), heap, s, f),
         s.vec.size <= MaxLength, NEW q \in Seq(Objects), Done(v, s, q),
         departed = Null, Departs, Matches(f, s.vec.size, q)
  PROVE  IInv'
<1> DEFINE O == OthersOf(v)
<1>1. /\ heap \in Heaps /\ vec \in [Vectors -> Records] /\ elements \in [Vectors -> Seq(Objects)]
      /\ TypeOK /\ Layout
  BY Typed DEF IInv
<1>2. /\ heap' = s.heap /\ vec' = [vec EXCEPT ![v] = s.vec]
      /\ elements' = [elements EXCEPT ![v] = q] /\ moves' = moves
  BY DEF Done
<1>3. /\ s.heap \in Heaps /\ s.vec \in Records /\ s.vec.size \in Nat /\ s.vec.capacity \in Nat
      /\ s.vec.size <= s.vec.capacity
      /\ s.vec.begin # Null => s.vec.begin \in Blocks
      /\ Shape(s.vec) /\ Alone(O, heap, s.heap, s.vec) /\ Full(s.heap, s.vec, f)
  BY KeepsFacts DEF Keeps, Holds
<1>4. /\ vec'[v] = s.vec
      /\ \A w \in Vectors \ {v} : vec'[w] = vec[w]
      /\ elements'[v] = q
      /\ \A w \in Vectors \ {v} : elements'[w] = elements[w]
      /\ vec' \in [Vectors -> Records] /\ elements' \in [Vectors -> Seq(Objects)]
  BY <1>1, <1>2, <1>3
<1>5. \A w \in Vectors \ {v} : vec[w].begin # Null =>
        vec[w].begin \in O /\ vec[w].begin \in Blocks /\ heap'[vec[w].begin] = heap[vec[w].begin]
                           /\ vec[w].begin # s.vec.begin
  <2>1. \A w \in Vectors \ {v} : vec[w].begin # Null => vec[w].begin \in O
    BY DEF OthersOf
  <2> QED BY <1>2, <1>3, <2>1 DEF Alone
<1>6. ASSUME NEW w \in Vectors \ {v} PROVE Contents(At(w))' = Contents(At(w))
  <2>1. Contents(At(w)) = [k \in 0..(vec[w].size - 1) |-> heap[vec[w].begin].cells[k]]
    BY DEF Contents, At, Object
  <2>2. Contents(At(w))' = [k \in 0..(vec'[w].size - 1) |-> heap'[vec'[w].begin].cells[k]]
    BY DEF Contents, At, Object
  <2>3. CASE vec[w].begin # Null
    BY <1>4, <1>5, <2>1, <2>2, <2>3
  <2>4. CASE vec[w].begin = Null
    <3>1. Shape(vec[w])
      BY <1>1 DEF Layout
    <3>2. 0..(vec[w].size - 1) = {}
      <4>1. vec[w] \in Records /\ vec[w].size <= vec[w].capacity /\ vec[w].capacity = 0
        BY <2>4, <3>1 DEF Shape
      <4>2. vec[w].size \in Nat /\ vec[w].capacity \in Nat
        BY <4>1 DEF Records
      <4>3. vec[w].size = 0
        BY <4>1, <4>2
      <4> QED BY <4>3
    <3>3. \A h : [k \in 0..(vec[w].size - 1) |-> h[vec[w].begin].cells[k]] = [k \in {} |-> k]
      BY <3>2
    <3> QED BY <1>4, <2>1, <2>2, <3>3
  <2> QED BY <2>3, <2>4
<1>7. Contents(At(v))' = f
  <2>1. Contents(At(v))' = [k \in 0..(s.vec.size - 1) |-> s.heap[s.vec.begin].cells[k]]
    BY <1>2, <1>4 DEF Contents, At, Object
  <2>2. Contents(s) = [k \in 0..(s.vec.size - 1) |-> s.heap[s.vec.begin].cells[k]]
    BY DEF Contents, Object
  <2> QED BY <2>1, <2>2, ContentsAre
<1>8. TypeOK'
  <2>1. vec' \in [Vectors -> [begin : Blocks \cup {Null}, size : 0..MaxLength, capacity : Nat]]
    <3>1. s.vec \in [begin : Blocks \cup {Null}, size : 0..MaxLength, capacity : Nat]
      <4>1. s.vec.size \in 0..MaxLength
        BY <1>3, SimpleVectorAssumption
      <4> QED BY <1>3, <4>1 DEF Records
    <3>2. vec \in [Vectors -> [begin : Blocks \cup {Null}, size : 0..MaxLength, capacity : Nat]]
      BY <1>1 DEF TypeOK
    <3> QED BY <1>2, <3>1, <3>2
  <2>2. \A w \in Vectors : Shape(vec'[w])
    BY <1>1, <1>3, <1>4 DEF Layout
  <2>7. \A w \in Vectors : /\ vec'[w].size <= vec'[w].capacity /\ vec'[w].capacity % Align = 0
                           /\ vec'[w].begin = Null => vec'[w].capacity = 0
    BY <2>2 DEF Shape
  <2>3. heap' \in [Blocks -> [room : Nat, cells : [Cells -> Objects \cup {Raw, Broken}]]]
    BY <1>2, <1>3 DEF Heaps
  <2>4. moves' \in BOOLEAN
    BY <1>1, <1>2 DEF TypeOK
  <2>5. elements' \in [Vectors -> Seq(Objects)]
    BY <1>4
  <2> QED BY <2>1, <2>3, <2>4, <2>5, <2>7 DEF TypeOK, Departs
<1>9. Layout'
  <2>1. ASSUME NEW w \in Vectors PROVE (Shape(vec[w]) /\ Full(heap, vec[w], Contents(At(w))))'
    <3>1. CASE w = v
      BY <1>2, <1>3, <1>4, <1>7, <3>1 DEF Full
    <3>2. CASE w # v
      <4>1. Shape(vec[w]) /\ Full(heap, vec[w], Contents(At(w)))
        BY <1>1 DEF Layout
      <4>2. vec'[w] = vec[w] /\ Contents(At(w))' = Contents(At(w))
        BY <1>4, <1>6, <3>2
      <4>3. vec[w].begin # Null => heap'[vec[w].begin] = heap[vec[w].begin]
        BY <1>5, <3>2
      <4>4. Full(heap', vec[w], Contents(At(w)))
        BY <4>1, <4>3 DEF Full
      <4>5. Shape(vec'[w]) /\ Full(heap', vec'[w], Contents(At(w))')
        BY <4>1, <4>2, <4>4
      <4> QED BY <4>5
    <3> QED BY <3>1, <3>2
  <2>2. ASSUME NEW u \in Vectors, NEW w \in Vectors, u # w, vec'[u].begin = vec'[w].begin
        PROVE  vec'[u].begin = Null
    <3>1. CASE u # v /\ w # v
      BY <1>1, <1>4, <2>2, <3>1 DEF Layout
    <3>2. CASE u = v
      BY <1>4, <1>5, <2>2, <3>2
    <3>3. CASE w = v
      BY <1>4, <1>5, <2>2, <3>3
    <3> QED BY <3>1, <3>2, <3>3
  <2>3. ASSUME NEW b \in Blocks, \A w \in Vectors : vec'[w].begin # b PROVE Free(heap', b)
    <3>1. b # s.vec.begin /\ b \notin O
      BY <1>4, <2>3 DEF OthersOf
    <3> QED BY <1>2, <1>3, <3>1 DEF Alone
  <2>4. \A b \in Blocks : (\A w \in Vectors : vec'[w].begin # b) => Free(heap, b)'
    BY <2>3 DEF Free
  <2> QED BY <2>1, <2>2, <2>4 DEF Layout
<1>10. ElementsKept'
  <2> SUFFICES ASSUME departed' = Null, NEW w \in Vectors PROVE (Content(At(w)) = elements[w])'
    BY DEF ElementsKept
  <2>1. Content(At(w))' = AsSeq(Contents(At(w))', vec'[w].size)
    BY DEF Content, At
  <2>2. CASE w = v
    BY <1>4, <1>7, <2>1, <2>2 DEF Matches
  <2>3. CASE w # v
    <3>1. Content(At(w)) = AsSeq(Contents(At(w)), vec[w].size) /\ Content(At(w)) = elements[w]
      BY DEF Content, At, IInv, ElementsKept
    <3> QED BY <1>4, <1>6, <2>1, <2>3, <3>1
  <2> QED BY <2>2, <2>3
<1> QED BY <1>8, <1>9, <1>10 DEF IInv

-----------------------------------------------------------------------------
(* What the invariant says.                                                *)

LEMMA InitEstablishes == Init => IInv
<1>1. SUFFICES ASSUME Init PROVE IInv
  OBVIOUS
<1>2. /\ vec = [v \in Vectors |-> Empty]
      /\ heap = [b \in Blocks |-> [room |-> 0, cells |-> [k \in Cells |-> Raw]]]
      /\ elements = [v \in Vectors |-> <<>>]
  BY <1>1 DEF Init
<1>3. TypeOK
  <2>1. 0 \in 0..MaxLength /\ 0 % Align = 0
    BY SimpleVectorAssumption
  <2>2. Empty \in [begin : Blocks \cup {Null}, size : 0..MaxLength, capacity : Nat]
    BY <2>1 DEF Empty
  <2>3. moves \in BOOLEAN
    BY <1>1 DEF Init
  <2>4. departed \in Departures
    BY <1>1 DEF Init, Departures
  <2>5. \A v \in Vectors : /\ vec[v].size <= vec[v].capacity /\ vec[v].capacity % Align = 0
                           /\ vec[v].begin = Null => vec[v].capacity = 0
    BY <1>2, <2>1 DEF Empty
  <2> QED BY <1>2, <2>2, <2>3, <2>4, <2>5 DEF TypeOK
<1>4. \A v \in Vectors : vec[v].begin = Null /\ vec[v].size = 0 /\ vec[v].capacity = 0
  BY <1>2 DEF Empty
<1>5. Layout
  <2>1. \A b \in Blocks : Free(heap, b)
    BY <1>2 DEF Free
  <2>2. ASSUME NEW v \in Vectors PROVE Shape(vec[v]) /\ Full(heap, vec[v], Contents(At(v)))
    <3>1. Shape(vec[v])
      <4>1. vec[v] \in Records
        BY <1>3, Typed
      <4>2. vec[v].capacity % Align = 0 /\ Limit \in Nat
        BY <1>3, CellsAre DEF TypeOK
      <4> QED BY <1>4, <4>1, <4>2 DEF Shape
    <3>2. Contents(At(v)) \in [0..(vec[v].size - 1) -> Objects]
      <4>1. 0..(vec[v].size - 1) = {}
        BY <1>4
      <4> QED BY <4>1 DEF Contents, At
    <3> QED BY <1>4, <3>1, <3>2 DEF Full
  <2> QED BY <1>4, <2>1, <2>2 DEF Layout
<1>6. ElementsKept
  <2>1. \A v \in Vectors : Content(At(v)) = <<>>
    <3> SUFFICES ASSUME NEW v \in Vectors PROVE Content(At(v)) = <<>>
      OBVIOUS
    <3>1. Content(At(v)) = [k \in 1..0 |-> Contents(At(v))[k - 1]]
      BY <1>4 DEF Content, AsSeq, At
    <3> QED BY <3>1
  <2> QED BY <1>2, <2>1 DEF ElementsKept
<1> QED BY <1>3, <1>5, <1>6 DEF IInv

LEMMA MemoryIsClean == IInv => MemoryClean
<1>1. SUFFICES ASSUME IInv PROVE MemoryClean
  OBVIOUS
<1>2. TypeOK /\ Layout
  BY <1>1 DEF IInv
<1>3. ASSUME NEW v \in Vectors, vec[v].begin # Null
      PROVE  LET b == heap[vec[v].begin] IN
               /\ b.room = vec[v].capacity
               /\ \A k \in Cells : IF k < vec[v].size THEN b.cells[k] \in Objects
                                   ELSE b.cells[k] = Raw
  <2>1. Full(heap, vec[v], Contents(At(v))) /\ vec[v].size \in Nat
    BY <1>2, Typed DEF Layout
  <2>2. \A k \in Cells : k \in Nat
    BY CellsAre
  <2>3. \A k \in Cells : k < vec[v].size => Contents(At(v))[k] \in Objects
    BY <2>1, <2>2 DEF Full
  <2> QED BY <1>3, <2>1, <2>3 DEF Full
<1>4. ASSUME NEW b \in Blocks
      PROVE  LET owners == {v \in Vectors : vec[v].begin = b}
             IN  /\ Cardinality(owners) = IF heap[b].room > 0 THEN 1 ELSE 0
                 /\ owners = {} => \A k \in Cells : heap[b].cells[k] = Raw
  <2> DEFINE owners == {v \in Vectors : vec[v].begin = b}
  <2>1. b # Null /\ heap[b].room \in Nat
    BY <1>2, SimpleVectorAssumption, Typed DEF Heaps
  <2>2. CASE owners = {}
    <3>1. Free(heap, b)
      BY <1>2, <2>2 DEF Layout
    <3> QED BY <2>2, <3>1, FS_EmptySet DEF Free
  <2>3. CASE owners # {}
    <3>1. PICK v \in Vectors : vec[v].begin = b
      BY <2>3
    <3>2. owners = {v}
      BY <1>2, <2>1, <3>1 DEF Layout
    <3>3. heap[b].room = vec[v].capacity /\ vec[v].capacity # 0
      BY <1>2, <2>1, <3>1 DEF Layout, Shape, Full
    <3>4. Cardinality(owners) = 1
      BY <3>2, FS_Singleton
    <3>5. heap[b].room > 0
      BY <2>1, <3>3
    <3> QED BY <2>3, <3>4, <3>5
  <2> QED BY <2>2, <2>3
<1> QED BY <1>2, <1>3, <1>4 DEF MemoryClean

\* A vector has no more elements than all of them together.
LEMMA NoMoreThanTotal ==
  ASSUME TypeOK, NEW v \in Vectors
  PROVE  Total \in Nat /\ vec[v].size <= Total
<1> DEFINE P == UNION {{w} \X (1..vec[w].size) : w \in Vectors}
           Q == {v} \X (1..vec[v].size)
           f == [k \in 1..vec[v].size |-> <<v, k>>]
<1>1. MaxLength \in Nat /\ IsFiniteSet(Vectors)
  BY SimpleVectorAssumption
<1>2. \A w \in Vectors : vec[w].size \in Nat /\ vec[w].size <= MaxLength
  BY Typed
<1>3. IsFiniteSet(1..MaxLength) /\ IsFiniteSet(1..vec[v].size)
      /\ Cardinality(1..vec[v].size) = vec[v].size
  BY <1>1, <1>2, FS_Interval
<1>4. IsFiniteSet(Vectors \X (1..MaxLength))
  BY <1>1, <1>3, FS_Product
<1>5. IsFiniteSet(P)
  <2>1. \A w \in Vectors : 1..vec[w].size \subseteq 1..MaxLength
    BY <1>1, <1>2
  <2>2. P \in SUBSET (Vectors \X (1..MaxLength))
    BY <2>1
  <2> QED BY <1>4, <2>2, FS_Subset
<1>6. Q \subseteq P
  OBVIOUS
<1>7. IsFiniteSet(Q) /\ Cardinality(Q) <= Cardinality(P)
  <2>1. Q \in SUBSET P
    BY <1>6
  <2> QED BY <1>5, <2>1, FS_Subset
<1>8. Cardinality(Q) = vec[v].size
  <2>1. f \in Bijection(1..vec[v].size, Q)
    <3>1. f \in [1..vec[v].size -> Q]
      OBVIOUS
    <3>2. \A a, b \in 1..vec[v].size : f[a] = f[b] => a = b
      OBVIOUS
    <3>3. \A t \in Q : \E k \in 1..vec[v].size : f[k] = t
      OBVIOUS
    <3> HIDE DEF f, Q
    <3>4. f \in Injection(1..vec[v].size, Q)
      BY <3>1, <3>2 DEF Injection, IsInjective
    <3>5. f \in Surjection(1..vec[v].size, Q)
      BY <3>1, <3>3 DEF Surjection
    <3> QED BY <3>4, <3>5 DEF Bijection
  <2>2. ExistsBijection(1..vec[v].size, Q)
    BY <2>1 DEF ExistsBijection
  <2> QED BY <1>3, <2>2, FS_Bijection
<1>9. Cardinality(P) \in Nat
  BY <1>5, FS_CardinalityType
<1> QED BY <1>7, <1>8, <1>9 DEF Total

-----------------------------------------------------------------------------
(* Sequences.                                                              *)

LEMMA AsSeqIs ==
  ASSUME NEW n \in Nat, NEW f \in [0..(n - 1) -> Objects]
  PROVE  /\ AsSeq(f, n) \in Seq(Objects) /\ Len(AsSeq(f, n)) = n
         /\ \A k \in 1..n : AsSeq(f, n)[k] = f[k - 1]
<1>1. \A k \in 1..n : k - 1 \in 0..(n - 1)
  OBVIOUS
<1>2. AsSeq(f, n) = [k \in 1..n |-> f[k - 1]]
  BY DEF AsSeq
<1> QED BY <1>1, <1>2

LEMMA SameSeq ==
  ASSUME NEW n \in Nat, NEW f \in [0..(n - 1) -> Objects], NEW q \in Seq(Objects), Len(q) = n,
         \A k \in 1..n : q[k] = f[k - 1]
  PROVE  q = AsSeq(f, n)
<1>1. q = [k \in 1..n |-> q[k]]
  OBVIOUS
<1>2. [k \in 1..n |-> q[k]] = [k \in 1..n |-> f[k - 1]]
  OBVIOUS
<1> QED BY <1>1, <1>2 DEF AsSeq

\* What an operation on v finds.
LEMMA Before ==
  ASSUME IInv, departed = Null, NEW v \in Vectors
  PROVE  /\ Others(OthersOf(v), heap)
         /\ Keeps(OthersOf(v), heap, At(v), Contents(At(v)))
         /\ At(v).heap = heap /\ At(v).vec = vec[v] /\ vec[v] \in Records
         /\ vec[v].size \in Nat /\ vec[v].size <= MaxLength
         /\ vec[v].capacity \in Nat /\ vec[v].size <= vec[v].capacity
         /\ Contents(At(v)) \in [0..(vec[v].size - 1) -> Objects]
         /\ elements[v] = AsSeq(Contents(At(v)), vec[v].size)
         /\ elements[v] \in Seq(Objects) /\ Len(elements[v]) = vec[v].size
         /\ \A k \in 1..vec[v].size : elements[v][k] = Contents(At(v))[k - 1]
<1>1. TypeOK /\ Layout /\ ElementsKept
  BY DEF IInv
<1>2. Others(OthersOf(v), heap) /\ Keeps(OthersOf(v), heap, At(v), Contents(At(v)))
  BY <1>1, OthersAre, AtKeeps
<1>3. /\ At(v).heap = heap /\ At(v).vec = vec[v] /\ vec[v] \in Records
      /\ vec[v].size \in Nat /\ vec[v].size <= MaxLength
  BY <1>1, Typed
<1>4. /\ vec[v].capacity \in Nat /\ vec[v].size <= vec[v].capacity
      /\ Contents(At(v)) \in [0..(vec[v].size - 1) -> Objects]
  BY <1>2, <1>3, KeepsFacts
<1>5. elements[v] = AsSeq(Contents(At(v)), vec[v].size)
  BY <1>1, <1>3 DEF ElementsKept, Content
<1> QED BY <1>2, <1>3, <1>4, <1>5, AsSeqIs

LEMMA CalmIs ==
  ASSUME IInv, NEW v \in Vectors, NEW n \in Nat, Calm(n)
  PROVE  departed = Null /\ vec[v].size + n <= MaxLength /\ vec[v].size < MaxSize
<1>1. Total \in Nat /\ vec[v].size <= Total /\ vec[v].size \in Nat
  BY NoMoreThanTotal, Typed DEF IInv
<1>2. MaxLength \in Nat /\ MaxSize \in Nat /\ MaxLength < MaxSize
  BY SimpleVectorAssumption
<1> QED BY <1>1, <1>2 DEF Calm
-----------------------------------------------------------------------------
(* Elements at the end.                                                    *)

\* The end of a step that leaves the elements as they were.
LEMMA SameElements ==
  ASSUME IInv, NEW v \in Vectors, departed = Null, NEW s, s.vec.size = vec[v].size,
         Keeps(OthersOf(v), heap, s, Contents(At(v))), Done(v, s, elements[v]), departed' = Null
  PROVE  IInv'
<1>1. elements[v] \in Seq(Objects) /\ s.vec.size <= MaxLength
      /\ elements[v] = AsSeq(Contents(At(v)), vec[v].size)
  BY Before
<1>2. Departs /\ Matches(Contents(At(v)), s.vec.size, elements[v])
  BY <1>1 DEF Departs, Departures, Matches
<1> QED BY <1>1, <1>2, DoneKeeps

\* The end of a step that throws and promises nothing of the content.
LEMMA AnyElements ==
  ASSUME IInv, NEW v \in Vectors, departed = Null, NEW s, NEW f, s.vec.size <= MaxLength,
         Keeps(OthersOf(v), heap, s, f), DoneBasic(v, s)
  PROVE  IInv'
<1>1. Contents(s) = f /\ s.vec.size \in Nat /\ f \in [0..(s.vec.size - 1) -> Objects]
  BY ContentsAre, KeepsFacts
<1>2. Content(s) = AsSeq(f, s.vec.size) /\ Content(s) \in Seq(Objects)
  BY <1>1, AsSeqIs DEF Content
<1>3. Done(v, s, Content(s)) /\ departed' = Null
  BY DEF DoneBasic
<1>4. Departs /\ Matches(f, s.vec.size, Content(s))
  BY <1>2, <1>3 DEF Departs, Departures, Matches
<1> QED BY <1>2, <1>3, <1>4, DoneKeeps

\* A position of a sequence with one element more, other than the last.
LEMMA BeforeLast ==
  ASSUME NEW n \in Nat, NEW k \in 1..(n + 1), k # n + 1
  PROVE  k \in 1..n /\ k - 1 \in 0..n /\ k - 1 < n
OBVIOUS

\* The end of a step that has added x at the end, where a std::vector would add y.
LEMMA PushedDone ==
  ASSUME IInv, NEW v \in Vectors, departed = Null, vec[v].size < MaxSize,
         vec[v].size + 1 <= MaxLength, NEW x \in Objects, NEW y \in Objects,
         Done(v, Pushed(At(v), x), Append(elements[v], y)), Departs, departed' = Null => x = y
  PROVE  IInv'
<1> DEFINE s == At(v)
           f == Contents(s)
           n == vec[v].size
           q == Append(elements[v], y)
           g == Longer(f, n, x)
<1>1. /\ Others(OthersOf(v), heap) /\ Keeps(OthersOf(v), heap, s, f) /\ s.vec = vec[v]
      /\ n \in Nat /\ f \in [0..(n - 1) -> Objects]
      /\ elements[v] \in Seq(Objects) /\ Len(elements[v]) = n
      /\ \A k \in 1..n : elements[v][k] = f[k - 1]
  BY Before
<1> HIDE DEF f, s
<1>2. Keeps(OthersOf(v), heap, Pushed(s, x), g) /\ Pushed(s, x).vec.size = n + 1
  BY <1>1, PushedHolds
<1>3. q \in Seq(Objects) /\ Len(q) = n + 1
  BY <1>1
<1>4. g \in [0..((n + 1) - 1) -> Objects] /\ n + 1 \in Nat
  BY <1>1 DEF Longer
<1>5. ASSUME x = y, NEW k \in 1..(n + 1) PROVE q[k] = g[k - 1]
  <2>1. CASE k = n + 1
    <3>1. q[n + 1] = y
      BY <1>1
    <3>2. n \in 0..n /\ ~(n < n) /\ (n + 1) - 1 = n
      BY <1>1
    <3>3. g[(n + 1) - 1] = x
      BY <3>2 DEF Longer
    <3> QED BY <1>5, <2>1, <3>1, <3>3
  <2>2. CASE k # n + 1
    <3>1. k \in 1..n /\ k - 1 \in 0..n /\ k - 1 < n
      <4>1. n \in Nat
        BY <1>1
      <4> QED BY <2>2, <4>1, BeforeLast
    <3>2. q[k] = elements[v][k] /\ g[k - 1] = f[k - 1]
      BY <1>1, <3>1 DEF Longer
    <3> QED BY <1>1, <3>1, <3>2
  <2> QED BY <2>1, <2>2
<1> HIDE DEF g, q
<1>6. x = y => q = AsSeq(g, n + 1)
  BY <1>3, <1>4, <1>5, SameSeq
<1>7. Matches(g, Pushed(s, x).vec.size, q)
  BY <1>2, <1>6 DEF Matches
<1>8. Pushed(s, x).vec.size <= MaxLength /\ Done(v, Pushed(s, x), q)
  BY <1>2 DEF s, q
<1> QED BY <1>2, <1>3, <1>7, <1>8, DoneKeeps

LEMMA EmplaceBackKeeps ==
  ASSUME IInv, NEW v \in Vectors, NEW x \in Objects, EmplaceBack(v, x)
  PROVE  IInv'
<1>1. departed = Null /\ vec[v].size + 1 <= MaxLength /\ vec[v].size < MaxSize /\ departed' = Null
  <2>1. Calm(1) /\ departed' = Null
    BY DEF EmplaceBack
  <2> QED BY <2>1, CalmIs
<1>2. Departs
  BY <1>1 DEF Departs, Departures
<1>3. CASE Done(v, Pushed(At(v), x), Append(elements[v], x))
  BY <1>1, <1>2, <1>3, PushedDone
<1>4. CASE Done(v, WithRoom(At(v)), elements[v])
  <2>1. /\ Others(OthersOf(v), heap) /\ Keeps(OthersOf(v), heap, At(v), Contents(At(v)))
        /\ At(v).vec = vec[v]
    BY <1>1, Before
  <2>2. /\ Keeps(OthersOf(v), heap, WithRoom(At(v)), Contents(At(v)))
        /\ WithRoom(At(v)).vec.size = vec[v].size
    BY <1>1, <2>1, WithRoomHolds
  <2> QED BY <1>1, <1>4, <2>2, SameElements
<1> QED BY <1>3, <1>4 DEF EmplaceBack

\* Only a vector that must grow reads its argument too late, and the history says so.
LEMMA PushBackOwnKeeps ==
  ASSUME IInv, NEW v \in Vectors, NEW i \in Nat, PushBackOwn(v, i)
  PROVE  IInv'
<1> DEFINE s == At(v)
           e == elements[v][i + 1]
<1>1. departed = Null /\ vec[v].size + 1 <= MaxLength /\ vec[v].size < MaxSize /\ i < vec[v].size
  <2>1. Calm(1) /\ i < vec[v].size
    BY DEF PushBackOwn
  <2> QED BY <2>1, CalmIs
<1>2. e \in Objects /\ Object(s, i) = e
  <2>1. /\ Keeps(OthersOf(v), heap, s, Contents(s)) /\ s.vec = vec[v] /\ vec[v].size \in Nat
        /\ elements[v] \in Seq(Objects) /\ Len(elements[v]) = vec[v].size
        /\ \A k \in 1..vec[v].size : elements[v][k] = Contents(s)[k - 1]
    BY <1>1, Before
  <2> HIDE DEF s
  <2>2. i \in 0..(vec[v].size - 1) /\ i + 1 \in 1..vec[v].size /\ (i + 1) - 1 = i
    BY <1>1, <2>1
  <2>3. Object(s, i) = Contents(s)[i]
    BY <2>1, <2>2, ContentsAre
  <2> QED BY <2>1, <2>2, <2>3
<1>3. CASE vec[v].size < vec[v].capacity
  <2>1. Done(v, Pushed(s, e), Append(elements[v], e)) /\ departed' = Null
    BY <1>2, <1>3 DEF PushBackOwn
  <2>2. Departs
    BY <2>1 DEF Departs, Departures
  <2> QED BY <1>1, <1>2, <2>1, <2>2, PushedDone
<1>4. CASE ~(vec[v].size < vec[v].capacity)
  <2>1. PICK x \in Objects : Done(v, Pushed(s, x), Append(elements[v], e))
    BY <1>4 DEF PushBackOwn
  <2>2. departed' = "own element"
    BY <1>4 DEF PushBackOwn
  <2>3. Departs /\ departed' # Null
    BY <2>2, NullAssumption DEF Departs, Departures
  <2> QED BY <1>1, <1>2, <2>1, <2>3, PushedDone
<1> QED BY <1>3, <1>4


\* The end of a step that does what a std::vector does.
LEMMA DoneExactly ==
  ASSUME IInv, NEW v \in Vectors, departed = Null, departed' = Null, NEW s, NEW f,
         Keeps(OthersOf(v), heap, s, f), NEW n \in Nat, s.vec.size = n, n <= MaxLength,
         NEW q \in Seq(Objects), Len(q) = n, \A k \in 1..n : q[k] = f[k - 1], Done(v, s, q)
  PROVE  IInv'
<1>1. f \in [0..(n - 1) -> Objects]
  BY KeepsFacts
<1>2. q = AsSeq(f, n)
  BY <1>1, SameSeq
<1>3. Departs /\ Matches(f, s.vec.size, q)
  BY <1>2 DEF Departs, Departures, Matches
<1> QED BY <1>3, DoneKeeps

\* clear_to_end() of n elements that stay.
LEMMA ClearedDone ==
  ASSUME IInv, NEW v \in Vectors, departed = Null, departed' = Null,
         NEW n \in Nat, n <= vec[v].size,
         NEW q \in Seq(Objects), Len(q) = n, \A k \in 1..n : q[k] = elements[v][k],
         Done(v, ClearToEnd(At(v), n), q)
  PROVE  IInv'
<1> DEFINE f == Contents(At(v))
           s == ClearToEnd(At(v), n)
<1>1. /\ Keeps(OthersOf(v), heap, At(v), f) /\ At(v).vec = vec[v]
      /\ vec[v].size \in Nat /\ vec[v].size <= MaxLength
      /\ \A k \in 1..vec[v].size : elements[v][k] = f[k - 1]
  BY Before
<1> HIDE DEF f
<1>2. Keeps(OthersOf(v), heap, s, Prefix(f, n)) /\ s.vec.size = n
  BY <1>1, ClearedHolds
<1>3. \A k \in 1..n : q[k] = Prefix(f, n)[k - 1]
  BY <1>1 DEF Prefix
<1>4. n <= MaxLength
  BY <1>1, SimpleVectorAssumption
<1> HIDE DEF s
<1>5. Done(v, s, q)
  BY DEF s
<1> QED BY <1>2, <1>3, <1>4, <1>5, DoneExactly

LEMMA PopBackKeeps ==
  ASSUME IInv, NEW v \in Vectors, PopBack(v)
  PROVE  IInv'
<1> DEFINE n == vec[v].size - 1
           q == Front(elements[v])
<1>1. departed = Null /\ departed' = Null /\ vec[v].size > 0 /\ Done(v, ClearToEnd(At(v), n), q)
  <2>1. Calm(0)
    BY DEF PopBack
  <2> QED BY <2>1 DEF PopBack, Calm
<1>2. vec[v].size \in Nat /\ elements[v] \in Seq(Objects) /\ Len(elements[v]) = vec[v].size
  BY <1>1, Before
<1>3. n \in Nat /\ n <= vec[v].size
  BY <1>1, <1>2
<1>4. q \in Seq(Objects) /\ Len(q) = n /\ \A k \in 1..n : q[k] = elements[v][k]
  BY <1>2, <1>3 DEF Front
<1> HIDE DEF n, q
<1> QED BY <1>1, <1>3, <1>4, ClearedDone

LEMMA ClearKeeps ==
  ASSUME IInv, NEW v \in Vectors, Clear(v)
  PROVE  IInv'
<1>1. departed = Null /\ departed' = Null /\ Done(v, ClearToEnd(At(v), 0), <<>>)
  BY DEF Clear, Calm
<1>2. vec[v].size \in Nat
  BY <1>1, Before
<1>3. PICK n \in Nat : n = 0
  OBVIOUS
<1>4. /\ n <= vec[v].size /\ <<>> \in Seq(Objects) /\ Len(<<>>) = n
      /\ \A k \in 1..n : <<>>[k] = elements[v][k]
  BY <1>2, <1>3
<1> QED BY <1>1, <1>3, <1>4, ClearedDone

LEMMA ResetKeeps ==
  ASSUME NEW O, NEW h0, NEW s, NEW f, Keeps(O, h0, s, f), NEW g \in [0..(0 - 1) -> Objects]
  PROVE  Keeps(O, h0, Reset(s), g) /\ Reset(s).vec = Empty /\ Reset(s).vec.size = 0
<1>1. s \in States /\ Holds(O, h0, s.heap, s.vec, f)
  BY DEF Keeps
<1>2. /\ Reset(s) \in States /\ Reset(s).vec = Empty
      /\ Holds(O, h0, Reset(s).heap, Empty, g)
  BY <1>1, ResetLeaves
<1> QED BY <1>2 DEF Keeps, Empty

\* Nothing, as the content of a vector.
Nothing == [k \in 0..(0 - 1) |-> Moved]

LEMMA NothingIs == Nothing \in [0..(0 - 1) -> Objects]
BY DEF Nothing, Objects

LEMMA ResetDone ==
  ASSUME IInv, NEW v \in Vectors, departed = Null, departed' = Null, Done(v, Reset(At(v)), <<>>)
  PROVE  IInv'
<1> DEFINE s == Reset(At(v))
<1>1. Keeps(OthersOf(v), heap, At(v), Contents(At(v)))
  BY Before
<1>2. Keeps(OthersOf(v), heap, s, Nothing) /\ s.vec.size = 0
  BY <1>1, NothingIs, ResetKeeps
<1>3. 0 \in Nat /\ 0 <= MaxLength
  BY SimpleVectorAssumption
<1>4. <<>> \in Seq(Objects) /\ Len(<<>>) = 0 /\ \A k \in 1..0 : <<>>[k] = Nothing[k - 1]
  OBVIOUS
<1> HIDE DEF s
<1>5. Done(v, s, <<>>)
  BY DEF s
<1> QED BY <1>2, <1>3, <1>4, <1>5, DoneExactly

LEMMA ResetAllKeeps ==
  ASSUME IInv, NEW v \in Vectors, ResetAll(v)
  PROVE  IInv'
BY ResetDone DEF ResetAll, Calm
-----------------------------------------------------------------------------
(* Capacity.                                                               *)

LEMMA ResizedDone ==
  ASSUME IInv, NEW v \in Vectors, departed = Null, departed' = Null,
         NEW n \in Nat, n # 0, n <= MaxSize + 1, vec[v].size <= n,
         Done(v, Resized(At(v), n), elements[v])
  PROVE  IInv'
<1>1. /\ Others(OthersOf(v), heap) /\ Keeps(OthersOf(v), heap, At(v), Contents(At(v)))
      /\ At(v).vec = vec[v]
  BY Before
<1>2. /\ Keeps(OthersOf(v), heap, Resized(At(v), n), Contents(At(v)))
      /\ Resized(At(v), n).vec.size = vec[v].size
  BY <1>1, ResizedHolds
<1> QED BY <1>2, SameElements

\* A throw while copies are made changes nothing.
LEMMA GrowthThrowsKeeps ==
  ASSUME IInv, NEW v \in Vectors, departed = Null,
         NEW n \in Nat, n <= MaxSize + 1, vec[v].size <= n, GrowthThrows(v, n)
  PROVE  IInv'
<1> DEFINE s == At(v)
           f == Contents(s)
<1>1. /\ Others(OthersOf(v), heap) /\ Keeps(OthersOf(v), heap, s, f) /\ s.vec = vec[v]
      /\ vec[v].size \in Nat /\ f \in [0..(vec[v].size - 1) -> Objects]
  BY Before
<1>2. ~moves /\ departed' = Null
  BY DEF GrowthThrows
<1>3. PICK j \in 0..(vec[v].size - 1) : Done(v, RelocationFailed(s, n, f, j), elements[v])
  BY DEF GrowthThrows
<1> HIDE DEF s, f
<1>4. Left(f, vec[v].size, j) = f
  BY <1>1, <1>2 DEF Left
<1>5. Rounded(n) \in Nat /\ n <= Rounded(n)
  BY RoundedIs
<1>6. j \in Nat /\ j <= vec[v].size /\ j <= Rounded(n)
  BY <1>1, <1>5
<1>7. DOMAIN f = 0..(vec[v].size - 1) /\ \A k \in DOMAIN f : f[k] \in Objects
  BY <1>1
<1>8. s \in States /\ Holds(OthersOf(v), heap, s.heap, s.vec, f)
  BY <1>1 DEF Keeps
<1>9. /\ RelocationFailed(s, n, f, j) \in States
      /\ RelocationFailed(s, n, f, j).vec = s.vec
      /\ Holds(OthersOf(v), heap, RelocationFailed(s, n, f, j).heap, s.vec, Left(f, s.vec.size, j))
  BY <1>1, <1>2, <1>6, <1>7, <1>8, RelocationFailedHolds
<1>10. /\ Keeps(OthersOf(v), heap, RelocationFailed(s, n, f, j), f)
       /\ RelocationFailed(s, n, f, j).vec.size = vec[v].size
  BY <1>1, <1>4, <1>9 DEF Keeps
<1> QED BY <1>2, <1>3, <1>10, SameElements DEF s, f

LEMMA ReserveKeeps ==
  ASSUME IInv, NEW v \in Vectors, NEW n \in Nat, Reserve(v, n)
  PROVE  IInv'
<1>1. Calm(0) /\ n <= MaxSize /\ ~Fits(At(v), n)
  BY DEF Reserve
<1>2. departed = Null
  BY <1>1 DEF Calm
<1>3. /\ At(v).vec = vec[v] /\ vec[v].size \in Nat /\ vec[v].capacity \in Nat
      /\ vec[v].size <= vec[v].capacity
  BY <1>2, Before
<1>4. n # 0 /\ n <= MaxSize + 1 /\ vec[v].size <= n
  BY <1>1, <1>3, SimpleVectorAssumption DEF Fits
<1> QED BY <1>2, <1>4, ResizedDone, GrowthThrowsKeeps DEF Reserve

LEMMA ShrinkToFitKeeps ==
  ASSUME IInv, NEW v \in Vectors, ShrinkToFit(v)
  PROVE  IInv'
<1>1. departed = Null
  BY DEF ShrinkToFit, Calm
<1>2. /\ vec[v].size \in Nat /\ vec[v].size <= MaxLength
      /\ elements[v] \in Seq(Objects) /\ Len(elements[v]) = vec[v].size
  BY <1>1, Before
<1>3. vec[v].size <= MaxSize + 1
  BY <1>2, SimpleVectorAssumption
<1>4. CASE vec[v].size > 0 /\ GrowthThrows(v, vec[v].size)
  BY <1>1, <1>2, <1>3, <1>4, GrowthThrowsKeeps
<1>5. CASE /\ Done(v, IF vec[v].size = 0 THEN Reset(At(v)) ELSE Resized(At(v), vec[v].size),
                   elements[v])
           /\ departed' = Null
  <2>1. CASE vec[v].size = 0
    <3>1. elements[v] = <<>>
      BY <1>2, <2>1
    <3> QED BY <1>1, <1>5, <2>1, <3>1, ResetDone
  <2>2. CASE vec[v].size # 0
    BY <1>1, <1>2, <1>3, <1>5, <2>2, ResizedDone
  <2> QED BY <2>1, <2>2
<1> QED BY <1>4, <1>5 DEF ShrinkToFit

-----------------------------------------------------------------------------
(* Elements in the middle.                                                 *)

Patch(s, g) == [s EXCEPT !.heap = Assigned(s.heap, s.vec.begin, g)]

LEMMA PatchKeeps ==
  ASSUME NEW O, NEW h0, NEW s, NEW f, Keeps(O, h0, s, f),
         NEW g, DOMAIN g \subseteq 0..(s.vec.size - 1), \A k \in DOMAIN g : g[k] \in Objects
  PROVE  Keeps(O, h0, Patch(s, g), Patched(f, s.vec.size, g)) /\ Patch(s, g).vec = s.vec
<1>1. s \in States /\ Holds(O, h0, s.heap, s.vec, f)
  BY DEF Keeps
<1>2. Holds(O, h0, Assigned(s.heap, s.vec.begin, g), s.vec, Patched(f, s.vec.size, g))
  BY <1>1, Overwrote
<1>3. Assigned(s.heap, s.vec.begin, g) \in Heaps
  BY <1>2 DEF Holds, Alone
<1>4. /\ Patch(s, g) \in States /\ Patch(s, g).vec = s.vec
      /\ Patch(s, g).heap = Assigned(s.heap, s.vec.begin, g)
  BY <1>1, <1>3 DEF Patch, States
<1> QED BY <1>2, <1>4 DEF Keeps

\* g is f without the n objects from the one at cell from on, as far as cell m.
Joined(f, g, from, n, m) == \A k \in 0..(m - 1) : g[k] = IF k < from THEN f[k] ELSE f[k + n]

\* What erase() moves down, and leaves behind.
LEMMA MovedDownIs ==
  ASSUME NEW O, NEW h0, NEW s, NEW f, Keeps(O, h0, s, f), NEW from \in Nat, NEW n \in Nat,
         NEW m \in Nat, m + n = s.vec.size, from <= m, NEW to \in Nat, from <= to
  PROVE  \E g : /\ Keeps(O, h0, MovedDown(s, from, n, to), g)
                /\ MovedDown(s, from, n, to).vec = s.vec
                /\ Joined(f, g, from, n, Smaller(to, m))
<1> DEFINE size == s.vec.size
           low == Smaller(to, m)
           p == [k \in from..(size - 1) |-> IF k < low THEN f[k + n]
                                            ELSE IF moves /\ k >= from + n THEN Moved ELSE f[k]]
           g == Patched(f, size, p)
<1>1. size \in Nat /\ f \in [0..(size - 1) -> Objects] /\ Contents(s) = f /\ size - n = m
  BY KeepsFacts, ContentsAre
<1>2. low \in Nat /\ low <= m /\ from <= low
  BY <1>1 DEF Smaller
<1>3. DOMAIN p \subseteq 0..(size - 1)
  BY <1>1
<1>4. ASSUME NEW k \in DOMAIN p PROVE p[k] \in Objects
  <2>1. k \in Nat /\ k \in 0..(size - 1) /\ (k < low => k + n \in 0..(size - 1))
    BY <1>1, <1>2
  <2> QED BY <1>1, <2>1 DEF Objects
<1>5. MovedDown(s, from, n, to) = Patch(s, p)
  BY <1>1 DEF MovedDown, Patch
<1>6. ASSUME NEW k \in 0..(low - 1) PROVE g[k] = IF k < from THEN f[k] ELSE f[k + n]
  BY <1>1, <1>2 DEF Patched
<1>7. Joined(f, g, from, n, low)
  BY <1>6 DEF Joined
<1> HIDE DEF p, g, low
<1>8. Keeps(O, h0, Patch(s, p), g) /\ Patch(s, p).vec = s.vec
  BY <1>3, <1>4, PatchKeeps DEF g
<1> QED BY <1>5, <1>7, <1>8 DEF low

\* The same of sequences.
Without(e, pos, n) == SubSeq(e, 1, pos) \o SubSeq(e, pos + n + 1, Len(e))

JoinedSeq(e, q, pos, n, m) ==
  /\ q \in Seq(Objects) /\ Len(q) = m
  /\ \A k \in 1..m : q[k] = IF k <= pos THEN e[k] ELSE e[k + n]

LEMMA WithoutIs ==
  ASSUME NEW e \in Seq(Objects), NEW pos \in Nat, NEW n \in Nat, NEW m \in Nat,
         Len(e) = m + n, pos <= m
  PROVE  JoinedSeq(e, Without(e, pos, n), pos, n, m)
<1> DEFINE a == SubSeq(e, 1, pos)
           b == SubSeq(e, pos + n + 1, Len(e))
<1>0. PICK t \in Nat : pos + t = m
  <2>1. m - pos \in Nat /\ pos + (m - pos) = m
    OBVIOUS
  <2> QED BY <2>1
<1>1. a \in Seq(Objects) /\ Len(a) = pos /\ \A k \in 1..pos : a[k] = e[k]
  OBVIOUS
<1>2. b \in Seq(Objects) /\ Len(b) = t /\ \A k \in 1..t : b[k] = e[k + (pos + n)]
  <2>1. b \in Seq(Objects)
    OBVIOUS
  <2>2. Len(b) = t
    BY <1>0
  <2>3. ASSUME NEW k \in 1..t PROVE b[k] = e[k + (pos + n)]
    BY <1>0
  <2> QED BY <2>1, <2>2, <2>3
<1>3. Without(e, pos, n) = a \o b
  BY DEF Without
<1> HIDE DEF a, b
<1>4. /\ a \o b \in Seq(Objects) /\ Len(a \o b) = Len(a) + Len(b)
      /\ \A k \in 1..(Len(a) + Len(b)) : (a \o b)[k] = IF k <= Len(a) THEN a[k] ELSE b[k - Len(a)]
  BY <1>1, <1>2, ConcatProperties
<1>5. ASSUME NEW k \in 1..m PROVE (a \o b)[k] = IF k <= pos THEN e[k] ELSE e[k + n]
  <2>1. (a \o b)[k] = IF k <= pos THEN a[k] ELSE b[k - pos]
    BY <1>0, <1>1, <1>2, <1>4
  <2>2. k <= pos => k \in 1..pos
    OBVIOUS
  <2>3. ~(k <= pos) => k - pos \in 1..t /\ (k - pos) + (pos + n) = k + n
    BY <1>0
  <2> QED BY <1>1, <1>2, <2>1, <2>2, <2>3
<1>6. Len(a) + Len(b) = m
  BY <1>0, <1>1, <1>2
<1> QED BY <1>3, <1>4, <1>5, <1>6 DEF JoinedSeq

LEMMA EraseKeeps ==
  ASSUME IInv, NEW v \in Vectors, NEW pos \in Nat, NEW n \in Nat, Erase(v, pos, n)
  PROVE  IInv'
<1> DEFINE s == At(v)
           f == Contents(s)
           size == vec[v].size
           e == elements[v]
<1>1. departed = Null /\ n > 0 /\ pos + n <= size
  <2>1. Calm(0) /\ n > 0 /\ pos + n <= s.vec.size
    BY DEF Erase
  <2> QED BY <2>1 DEF Calm, At
<1>2. /\ Keeps(OthersOf(v), heap, s, f) /\ s.vec = vec[v] /\ size \in Nat /\ size <= MaxLength
      /\ f \in [0..(size - 1) -> Objects]
      /\ e \in Seq(Objects) /\ Len(e) = size /\ \A k \in 1..size : e[k] = f[k - 1]
  BY <1>1, Before
<1>3. PICK m \in Nat : m + n = size
  <2>1. size - n \in Nat /\ (size - n) + n = size
    BY <1>1, <1>2
  <2> QED BY <2>1
<1>4. pos <= m /\ m <= size /\ size - n = m /\ m <= MaxLength
  BY <1>1, <1>2, <1>3, SimpleVectorAssumption
<1> HIDE DEF f, s
<1>5. CASE /\ Done(v, Erased(s, pos, n), SubSeq(e, 1, pos) \o SubSeq(e, pos + n + 1, size))
           /\ departed' = Null
  <2> DEFINE q == Without(e, pos, n)
             r == MovedDown(s, pos, n, size)
  <2>0. size \in Nat /\ pos <= size /\ m + n = s.vec.size
    BY <1>2, <1>3, <1>4
  <2>1. PICK g : /\ Keeps(OthersOf(v), heap, r, g) /\ r.vec = s.vec
                 /\ Joined(f, g, pos, n, Smaller(size, m))
    BY <1>2, <1>4, <2>0, MovedDownIs
  <2>2. Smaller(size, m) = m /\ r.vec.size = size
    BY <1>2, <1>4, <2>1 DEF Smaller
  <2>3. q \in Seq(Objects) /\ Len(q) = m
        /\ \A k \in 1..m : q[k] = IF k <= pos THEN e[k] ELSE e[k + n]
    <3>1. e \in Seq(Objects) /\ Len(e) = m + n /\ pos <= m
      BY <1>2, <1>3, <1>4
    <3> HIDE DEF e
    <3>2. JoinedSeq(e, Without(e, pos, n), pos, n, m)
      BY <3>1, WithoutIs
    <3> QED BY <3>2 DEF JoinedSeq
  <2> HIDE DEF r, q
  <2>4. Keeps(OthersOf(v), heap, ClearToEnd(r, m), Prefix(g, m)) /\ ClearToEnd(r, m).vec.size = m
    BY <1>4, <2>1, <2>2, ClearedHolds
  <2>5. ASSUME NEW k \in 1..m PROVE q[k] = Prefix(g, m)[k - 1]
    <3>1. k - 1 \in 0..(m - 1) /\ k \in 1..size /\ k + n \in 1..size
          /\ (k - 1) + n = (k + n) - 1 /\ (k - 1 < pos <=> k <= pos)
      <4>1. size \in Nat
        BY <1>2
      <4> HIDE DEF size
      <4> QED BY <1>3, <4>1
    <3>2. Prefix(g, m)[k - 1] = IF k <= pos THEN f[k - 1] ELSE f[(k + n) - 1]
      BY <2>1, <2>2, <3>1 DEF Prefix, Joined
    <3> QED BY <1>2, <2>3, <3>1, <3>2
  <2>6. Done(v, ClearToEnd(r, m), q)
    BY <1>2, <1>4, <1>5 DEF Erased, q, r, Without
  <2> QED BY <1>1, <1>4, <1>5, <2>3, <2>4, <2>5, <2>6, DoneExactly
<1>6. CASE \E to \in (pos + 1)..(size - n - 1) : DoneBasic(v, MovedDown(s, pos, n, to))
  <2>1. PICK to \in (pos + 1)..(size - n - 1) : DoneBasic(v, MovedDown(s, pos, n, to))
    BY <1>6
  <2>2. to \in Nat /\ pos <= to /\ m + n = s.vec.size
    BY <1>2, <1>3, <2>1
  <2>3. PICK g : /\ Keeps(OthersOf(v), heap, MovedDown(s, pos, n, to), g)
                 /\ MovedDown(s, pos, n, to).vec = s.vec
                 /\ Joined(f, g, pos, n, Smaller(to, m))
    BY <1>2, <1>4, <2>2, MovedDownIs
  <2>4. MovedDown(s, pos, n, to).vec.size <= MaxLength
    BY <1>2, <2>3
  <2> QED BY <1>1, <2>1, <2>3, <2>4, AnyElements DEF s
<1>7. s.vec.size = size
  BY <1>2
<1> QED BY <1>5, <1>6, <1>7 DEF Erase, s

LEMMA EraseNothingKeeps ==
  ASSUME IInv, NEW v \in Vectors, NEW pos \in Nat, EraseNothing(v, pos)
  PROVE  IInv'
<1> DEFINE s == At(v)
           g == [k \in pos..(vec[v].size - 1) |-> Moved]
<1>1. departed = Null
  BY DEF EraseNothing, Calm
<1>2. /\ Keeps(OthersOf(v), heap, s, Contents(s)) /\ s.vec = vec[v] /\ vec[v].size \in Nat
      /\ vec[v].size <= MaxLength /\ elements[v] \in Seq(Objects)
  BY <1>1, Before
<1>3. CASE Done(v, s, elements[v]) /\ departed' = Null
  BY <1>1, <1>2, <1>3, SameElements
<1>4. CASE /\ Done(v, [s EXCEPT !.heap = Assigned(@, s.vec.begin,
                                             [k \in pos..(s.vec.size - 1) |-> Moved])], elements[v])
           /\ departed' = "empty range"
  <2>1. Done(v, Patch(s, g), elements[v])
    BY <1>2, <1>4 DEF Patch
  <2>2. DOMAIN g \subseteq 0..(vec[v].size - 1) /\ \A k \in DOMAIN g : g[k] \in Objects
    BY <1>2 DEF Objects
  <2> HIDE DEF g, s
  <2>3. Keeps(OthersOf(v), heap, Patch(s, g), Patched(Contents(s), s.vec.size, g))
        /\ Patch(s, g).vec = s.vec
    BY <1>2, <2>2, PatchKeeps
  <2>4. Departs /\ Matches(Patched(Contents(s), s.vec.size, g), Patch(s, g).vec.size, elements[v])
    BY <1>4, NullAssumption DEF Departs, Departures, Matches
  <2>5. Patch(s, g).vec.size <= MaxLength
    BY <1>2, <2>3
  <2> QED BY <1>1, <1>2, <2>1, <2>3, <2>4, <2>5, DoneKeeps
<1> QED BY <1>3, <1>4 DEF EraseNothing

LEMMA UnorderedEraseKeeps ==
  ASSUME IInv, NEW v \in Vectors, NEW pos \in Nat, UnorderedErase(v, pos)
  PROVE  IInv'
<1> DEFINE s == At(v)
           f == Contents(s)
           n == vec[v].size
           m == n - 1
           e == elements[v]
           h == IF pos = n - 1 THEN s.heap
                ELSE Assigned(s.heap, s.vec.begin, [k \in {pos} |-> Object(s, n - 1)])
           r == [s EXCEPT !.heap = h]
           q == Front([e EXCEPT ![pos + 1] = e[n]])
<1>1. departed = Null /\ departed' = Null /\ pos < n /\ Done(v, ClearToEnd(r, m), q)
  <2>1. s.vec = vec[v]
    BY DEF At
  <2> QED BY <2>1 DEF UnorderedErase, Calm
<1>2. /\ Keeps(OthersOf(v), heap, s, f) /\ s.vec = vec[v] /\ n \in Nat /\ n <= MaxLength
      /\ f \in [0..(n - 1) -> Objects]
      /\ e \in Seq(Objects) /\ Len(e) = n /\ \A k \in 1..n : e[k] = f[k - 1]
  BY <1>1, Before
<1> HIDE DEF f
<1>3. m \in Nat /\ m \in 0..(n - 1) /\ m <= n /\ m <= MaxLength
  BY <1>1, <1>2, SimpleVectorAssumption
<1>4. Object(s, m) = f[m] /\ e[n] = f[m] /\ f[m] \in Objects
  <2>1. n \in 1..n
    BY <1>1, <1>2
  <2> QED BY <1>2, <1>3, <2>1, ContentsAre
<1>5. PICK g : /\ Keeps(OthersOf(v), heap, r, g) /\ r.vec = s.vec
               /\ \A k \in 0..(m - 1) : g[k] = IF k = pos THEN f[m] ELSE f[k]
  <2>1. CASE pos = n - 1
    <3>1. s \in States /\ r = s
      BY <1>2, <2>1, KeepsFacts DEF States
    <3> QED BY <1>2, <1>3, <2>1, <3>1
  <2>2. CASE pos # n - 1
    <3> DEFINE p == [k \in {pos} |-> f[m]]
    <3>1. r = Patch(s, p)
      BY <1>4, <2>2 DEF Patch
    <3>2. DOMAIN p \subseteq 0..(n - 1) /\ \A k \in DOMAIN p : p[k] \in Objects
      BY <1>1, <1>2, <1>4
    <3>3. \A k \in 0..(m - 1) : Patched(f, n, p)[k] = IF k = pos THEN f[m] ELSE f[k]
      BY <1>3 DEF Patched
    <3> HIDE DEF p, s, r
    <3>4. Keeps(OthersOf(v), heap, Patch(s, p), Patched(f, n, p)) /\ Patch(s, p).vec = s.vec
      <4>1. s.vec.size = n
        BY <1>2
      <4>2. DOMAIN p \subseteq 0..(s.vec.size - 1)
        BY <3>2, <4>1
      <4>3. Keeps(OthersOf(v), heap, s, f) /\ \A k \in DOMAIN p : p[k] \in Objects
        BY <1>2, <3>2
      <4>4. /\ Keeps(OthersOf(v), heap, Patch(s, p), Patched(f, s.vec.size, p))
            /\ Patch(s, p).vec = s.vec
        BY <4>2, <4>3, PatchKeeps
      <4> QED BY <4>1, <4>4
    <3> QED BY <3>1, <3>3, <3>4
  <2> QED BY <2>1, <2>2
<1> HIDE DEF r, s
<1>6. Keeps(OthersOf(v), heap, ClearToEnd(r, m), Prefix(g, m)) /\ ClearToEnd(r, m).vec.size = m
  BY <1>2, <1>3, <1>5, ClearedHolds
<1>7. q \in Seq(Objects) /\ Len(q) = m /\ \A k \in 1..m : q[k] = IF k = pos + 1 THEN e[n] ELSE e[k]
  <2> DEFINE e2 == [e EXCEPT ![pos + 1] = e[n]]
  <2>1. e[n] \in Objects
    BY <1>4
  <2>2. e2 \in Seq(Objects) /\ Len(e2) = n
    <3>1. e \in Seq(Objects) /\ Len(e) = n /\ pos + 1 \in 1..Len(e)
      BY <1>1, <1>2
    <3> QED BY <2>1, <3>1, ExceptSeq
  <2>3. \A k \in 1..n : e2[k] = IF k = pos + 1 THEN e[n] ELSE e[k]
    BY <1>2
  <2> HIDE DEF e2, e
  <2>4. Front(e2) \in Seq(Objects) /\ Len(Front(e2)) = m /\ \A k \in 1..m : Front(e2)[k] = e2[k]
    BY <1>3, <2>2 DEF Front
  <2>5. \A k \in 1..m : k \in 1..n
    BY <1>2
  <2> QED BY <2>3, <2>4, <2>5 DEF e2, e
<1>8. ASSUME NEW k \in 1..m PROVE q[k] = Prefix(g, m)[k - 1]
  <2>1. k - 1 \in 0..(m - 1) /\ k \in 1..n /\ (k - 1 = pos <=> k = pos + 1)
    BY <1>2, <1>3
  <2> QED BY <1>2, <1>4, <1>5, <1>7, <2>1 DEF Prefix
<1> HIDE DEF q, m
<1> QED BY <1>1, <1>3, <1>6, <1>7, <1>8, DoneExactly

\* emplace() makes room: g is f with x at the cell pos; with a gap there, Shifted.
OpenedTo(f, g, n, pos, x) ==
  \A k \in 0..n : g[k] = IF k < pos THEN f[k] ELSE IF k = pos THEN x ELSE f[k - 1]
Gapped(f, g, n, pos) ==
  \A k \in 0..n : k # pos => g[k] = IF k < pos THEN f[k] ELSE f[k - 1]

LEMMA OpenedIs ==
  ASSUME NEW n \in Nat, NEW f \in [0..(n - 1) -> Objects], NEW pos \in Nat, pos < n,
         NEW x \in Objects
  PROVE  /\ Opened(f, pos, x) \in [0..n -> Objects]
         /\ OpenedTo(f, Opened(f, pos, x), n, pos, x)
<1>1. Cardinality(DOMAIN f) = n
  <2>1. 0 \in Int /\ n - 1 \in Int
    OBVIOUS
  <2>2. Cardinality(0..(n - 1)) = IF 0 > n - 1 THEN 0 ELSE (n - 1) - 0 + 1
    BY <2>1, FS_Interval
  <2>3. Cardinality(0..(n - 1)) = n
    BY <2>2
  <2> QED BY <2>3
<1>2. Opened(f, pos, x) = [k \in 0..n |-> IF k < pos THEN f[k] ELSE IF k = pos THEN x
                                          ELSE f[k - 1]]
  BY <1>1 DEF Opened
<1>3. ASSUME NEW k \in 0..n
      PROVE  (IF k < pos THEN f[k] ELSE IF k = pos THEN x ELSE f[k - 1]) \in Objects
  <2>1. CASE k < pos
    <3>1. k \in 0..(n - 1)
      BY <2>1
    <3> QED BY <2>1, <3>1
  <2>2. CASE k = pos
    BY <2>2
  <2>3. CASE ~(k < pos) /\ k # pos
    <3>1. k - 1 \in 0..(n - 1)
      BY <2>3
    <3> QED BY <2>3, <3>1
  <2> QED BY <2>1, <2>2, <2>3
<1> QED BY <1>2, <1>3 DEF OpenedTo

\* The same of a sequence, whose positions are one more.
OpenedSeq(e, q, n, pos, x) ==
  /\ q \in Seq(Objects) /\ Len(q) = n + 1
  /\ \A k \in 1..(n + 1) : q[k] = IF k <= pos THEN e[k] ELSE IF k = pos + 1 THEN x ELSE e[k - 1]

LEMMA InsertAtIs ==
  ASSUME NEW e \in Seq(Objects), NEW n \in Nat, Len(e) = n, NEW pos \in Nat, pos < n,
         NEW x \in Objects
  PROVE  OpenedSeq(e, InsertAt(e, pos + 1, x), n, pos, x)
<1> DEFINE a == SubSeq(e, 1, pos)
           b == SubSeq(e, pos + 1, n)
           c == <<x>>
<1>0. PICK t \in Nat : pos + t = n
  <2>1. n - pos \in Nat /\ pos + (n - pos) = n
    OBVIOUS
  <2> QED BY <2>1
<1>1. a \in Seq(Objects) /\ Len(a) = pos /\ \A k \in 1..pos : a[k] = e[k]
  OBVIOUS
<1>2. b \in Seq(Objects) /\ Len(b) = t /\ \A k \in 1..t : b[k] = e[k + pos]
  <2>1. b \in Seq(Objects)
    OBVIOUS
  <2>2. Len(b) = t
    BY <1>0
  <2>3. ASSUME NEW k \in 1..t PROVE b[k] = e[k + pos]
    BY <1>0
  <2> QED BY <2>1, <2>2, <2>3
<1>3. c \in Seq(Objects) /\ Len(c) = 1 /\ c[1] = x
  OBVIOUS
<1>4. InsertAt(e, pos + 1, x) = (a \o c) \o b
  <2>1. (pos + 1) - 1 = pos
    OBVIOUS
  <2> QED BY <2>1 DEF InsertAt
<1> HIDE DEF a, b, c
<1> DEFINE d == a \o c
<1>5. /\ d \in Seq(Objects) /\ Len(d) = Len(a) + Len(c)
      /\ \A k \in 1..(Len(a) + Len(c)) : d[k] = IF k <= Len(a) THEN a[k] ELSE c[k - Len(a)]
  BY <1>1, <1>3, ConcatProperties
<1> HIDE DEF d
<1>6. /\ d \o b \in Seq(Objects) /\ Len(d \o b) = Len(d) + Len(b)
      /\ \A k \in 1..(Len(d) + Len(b)) : (d \o b)[k] = IF k <= Len(d) THEN d[k] ELSE b[k - Len(d)]
  <2>1. b \in Seq(Objects) /\ d \in Seq(Objects)
    BY <1>2, <1>5
  <2> QED BY <2>1, ConcatProperties
<1>7. Len(d) = pos + 1 /\ Len(d) + Len(b) = n + 1
  BY <1>0, <1>1, <1>2, <1>3, <1>5
<1>8. ASSUME NEW k \in 1..(n + 1)
      PROVE  (d \o b)[k] = IF k <= pos THEN e[k] ELSE IF k = pos + 1 THEN x ELSE e[k - 1]
  <2>1. (d \o b)[k] = IF k <= pos + 1 THEN d[k] ELSE b[k - (pos + 1)]
    BY <1>6, <1>7
  <2>2. CASE k <= pos
    <3>1. k \in 1..pos /\ k \in 1..(Len(a) + Len(c)) /\ k <= Len(a)
      BY <1>1, <1>3, <2>2
    <3> QED BY <1>1, <1>5, <2>1, <2>2, <3>1
  <2>3. CASE k = pos + 1
    <3>1. k \in 1..(Len(a) + Len(c)) /\ ~(k <= Len(a)) /\ k - Len(a) = 1
      BY <1>1, <1>3, <2>3
    <3>2. d[k] = x
      BY <1>3, <1>5, <3>1
    <3> QED BY <2>1, <2>3, <3>2
  <2>4. CASE ~(k <= pos + 1)
    <3>1. k - (pos + 1) \in 1..t /\ (k - (pos + 1)) + pos = k - 1
      BY <1>0, <2>4
    <3> QED BY <1>2, <2>1, <2>4, <3>1
  <2>5. k <= pos \/ k = pos + 1 \/ ~(k <= pos + 1)
    OBVIOUS
  <2> QED BY <2>2, <2>3, <2>4, <2>5
<1>9. d \o b \in Seq(Objects) /\ Len(d \o b) = n + 1
  BY <1>6, <1>7
<1>10. InsertAt(e, pos + 1, x) = d \o b
  BY <1>4 DEF d
<1>11. OpenedSeq(e, d \o b, n, pos, x)
  BY <1>8, <1>9 DEF OpenedSeq
<1> QED BY <1>10, <1>11

LEMMA ShiftedHolds ==
  ASSUME NEW O, NEW h0, NEW s, NEW f, Keeps(O, h0, s, f), NEW n \in Nat, s.vec.size = n,
         n < s.vec.capacity, NEW pos \in Nat, pos < n
  PROVE  \E g : /\ Keeps(O, h0, Shifted(s, pos + 1), g)
                /\ Shifted(s, pos + 1).vec = WithSize(s.vec, n + 1)
                /\ Gapped(f, g, n, pos)
<1> DEFINE low == pos + 1
           m == n + 1
           left == IF moves THEN Moved ELSE f[low - 1]
           c == [k \in {n} |-> f[n - 1]]
           s1 == [heap |-> Constructed(s.heap, s.vec.begin, c), vec |-> WithSize(s.vec, m)]
           p == [k \in (low - 1)..(n - 1) |-> IF k >= low THEN f[k - 1] ELSE left]
           f1 == Extended(f, n, c, m)
           g == Patched(f1, m, p)
<1>1. /\ f \in [0..(n - 1) -> Objects] /\ Contents(s) = f /\ s.vec.capacity \in Nat
      /\ s.vec \in Records
  BY KeepsFacts, ContentsAre
<1>2. low - 1 = pos /\ m \in Nat /\ n <= m /\ m <= s.vec.capacity /\ m - 1 = n
  BY <1>1
<1>3. DOMAIN c = n..(m - 1) /\ \A k \in DOMAIN c : c[k] \in Objects
  BY <1>1, <1>2
<1>4. s1.vec = WithSize(s.vec, m) /\ s1.vec.size = m /\ s1.vec.begin = s.vec.begin
      /\ s1.heap = Constructed(s.heap, s.vec.begin, c)
  BY <1>1 DEF WithSize, Records
<1>5. DOMAIN p \subseteq 0..(m - 1)
  BY <1>2
<1>6. ASSUME NEW k \in DOMAIN p PROVE p[k] \in Objects
  <2>1. k \in pos..(n - 1)
    BY <1>2, <1>6
  <2>2. pos \in 0..(n - 1) /\ (k >= low => k - 1 \in 0..(n - 1))
    BY <2>1
  <2> QED BY <1>1, <1>2, <2>1, <2>2 DEF Objects
<1>7. Shifted(s, low) = Patch(s1, p)
  <2>1. Shifted(s, low) = [heap |-> Assigned(Constructed(s.heap, s.vec.begin, c), s.vec.begin, p),
                           vec |-> WithSize(s.vec, m)]
    BY <1>1 DEF Shifted, WithSize
  <2>2. Patch(s1, p) = [heap |-> Assigned(s1.heap, s1.vec.begin, p), vec |-> s1.vec]
    BY DEF Patch
  <2> QED BY <1>4, <2>1, <2>2
<1>8. ASSUME NEW k \in 0..n, k # pos PROVE g[k] = IF k < pos THEN f[k] ELSE f[k - 1]
  <2>1. g[k] = IF k \in pos..(n - 1) THEN p[k] ELSE f1[k]
    BY <1>2 DEF Patched
  <2>2. f1[k] = IF k < n THEN f[k] ELSE c[k]
    BY <1>2 DEF Extended
  <2>3. CASE k < pos
    BY <2>1, <2>2, <2>3
  <2>4. CASE k > pos /\ k < n
    <3>1. p[k] = f[k - 1]
      BY <1>2, <2>4
    <3> QED BY <2>1, <2>4, <3>1
  <2>5. CASE k = n
    <3>1. c[k] = f[n - 1]
      BY <2>5
    <3> QED BY <2>1, <2>2, <2>5, <3>1
  <2> QED BY <1>8, <2>3, <2>4, <2>5
<1>9. Gapped(f, g, n, pos)
  BY <1>8 DEF Gapped
<1> HIDE DEF p, c, g, f1
<1>10. Keeps(O, h0, s1, f1)
  <2>1. DOMAIN c = s.vec.size..(m - 1) /\ s.vec.size <= m
    BY <1>2, <1>3
  <2>2. Keeps(O, h0, s1, Extended(f, s.vec.size, c, m))
    BY <1>2, <1>3, <2>1, AppendedKeeps
  <2> QED BY <2>2 DEF f1
<1> HIDE DEF s1
<1>11. Keeps(O, h0, Patch(s1, p), g) /\ Patch(s1, p).vec = s1.vec
  <2>1. DOMAIN p \subseteq 0..(s1.vec.size - 1)
    BY <1>4, <1>5
  <2>2. Keeps(O, h0, Patch(s1, p), Patched(f1, s1.vec.size, p)) /\ Patch(s1, p).vec = s1.vec
    BY <1>6, <1>10, <2>1, PatchKeeps
  <2> QED BY <1>4, <2>2 DEF g
<1> QED BY <1>4, <1>7, <1>9, <1>11


\* The end of a step that has put x in the middle.
LEMMA OpenedDone ==
  ASSUME IInv, NEW v \in Vectors, departed = Null, departed' = Null,
         NEW n \in Nat, n = vec[v].size, n + 1 <= MaxLength, NEW pos \in Nat, pos < n,
         NEW x \in Objects, NEW s, NEW g, Keeps(OthersOf(v), heap, s, g), s.vec.size = n + 1,
         OpenedTo(Contents(At(v)), g, n, pos, x), Done(v, s, InsertAt(elements[v], pos + 1, x))
  PROVE  IInv'
<1> DEFINE f == Contents(At(v))
           e == elements[v]
           q == InsertAt(e, pos + 1, x)
<1>1. e \in Seq(Objects) /\ Len(e) = n /\ \A k \in 1..n : e[k] = f[k - 1]
  BY Before
<1> HIDE DEF f, e
<1>2. /\ q \in Seq(Objects) /\ Len(q) = n + 1
      /\ \A k \in 1..(n + 1) : q[k] = IF k <= pos THEN e[k] ELSE IF k = pos + 1 THEN x ELSE e[k - 1]
  <2>1. e \in Seq(Objects) /\ Len(e) = n
    BY <1>1
  <2>2. OpenedSeq(e, q, n, pos, x)
    BY <2>1, InsertAtIs
  <2> QED BY <2>2 DEF OpenedSeq
<1>3. ASSUME NEW k \in 1..(n + 1) PROVE q[k] = g[k - 1]
  <2>1. k - 1 \in 0..n /\ (k - 1 < pos <=> k <= pos) /\ (k - 1 = pos <=> k = pos + 1)
    OBVIOUS
  <2>2. g[k - 1] = IF k <= pos THEN f[k - 1] ELSE IF k = pos + 1 THEN x ELSE f[(k - 1) - 1]
    BY <2>1 DEF OpenedTo, f
  <2>3. q[k] = IF k <= pos THEN e[k] ELSE IF k = pos + 1 THEN x ELSE e[k - 1]
    BY <1>2
  <2>4. (k <= pos => k \in 1..n) /\ (~(k <= pos) /\ k # pos + 1 => k - 1 \in 1..n)
    OBVIOUS
  <2> QED BY <1>1, <2>2, <2>3, <2>4
<1>4. Done(v, s, q)
  BY DEF e, q
<1>5. PICK m \in Nat : m = n + 1
  OBVIOUS
<1> HIDE DEF q
<1>6. s.vec.size = m /\ m <= MaxLength /\ Len(q) = m /\ \A k \in 1..m : q[k] = g[k - 1]
  BY <1>2, <1>3, <1>5
<1> QED BY <1>2, <1>4, <1>6, DoneExactly

LEMMA EmplaceKeeps ==
  ASSUME IInv, NEW v \in Vectors, NEW pos \in Nat, NEW x \in Objects, Emplace(v, pos, x)
  PROVE  IInv'
<1> DEFINE s == At(v)
           f == Contents(s)
           h == Opened(f, pos, x)
           n == vec[v].size
           m == n + 1
           grow == GetGrowSize(s)
<1>1. departed = Null /\ m <= MaxLength /\ n < MaxSize /\ pos < n
  <2>1. Calm(1) /\ pos < s.vec.size /\ s.vec = vec[v]
    BY DEF Emplace, At
  <2> QED BY <2>1, CalmIs
<1>2. /\ Others(OthersOf(v), heap) /\ Keeps(OthersOf(v), heap, s, f) /\ s.vec = vec[v] /\ n \in Nat
      /\ n <= vec[v].capacity /\ vec[v].capacity \in Nat /\ vec[v] \in Records
      /\ f \in [0..(n - 1) -> Objects]
  BY <1>1, Before
<1>4. h \in [0..n -> Objects] /\ OpenedTo(f, h, n, pos, x)
  BY <1>1, <1>2, OpenedIs
<1>5. /\ grow \in Nat /\ grow <= MaxSize + 1 /\ grow # 0
      /\ Rounded(grow) \in Nat /\ m <= Rounded(grow) /\ m \in Nat /\ m - 1 = n
  <2>1. grow \in Nat /\ grow <= MaxSize + 1 /\ grow > n
    BY <1>1, <1>2, GrowthEnough
  <2> HIDE DEF grow
  <2>2. Rounded(grow) \in Nat /\ grow <= Rounded(grow)
    BY <2>1, RoundedIs
  <2> QED BY <1>2, <2>1, <2>2
<1> HIDE DEF f, h, grow
<1>6. CASE /\ Done(v, Relocated(s, grow, h, s.vec.size + 1), InsertAt(elements[v], pos + 1, x))
           /\ departed' = Null
  <2> DEFINE r == Relocated(s, grow, h, m)
  <2>1. h \in [0..(m - 1) -> Objects]
    BY <1>4, <1>5
  <2>2. Keeps(OthersOf(v), heap, r, h) /\ r.vec.size = m
    <3> HIDE DEF m
    <3> QED BY <1>2, <1>5, <2>1, RelocatedKeeps
  <2>3. Done(v, r, InsertAt(elements[v], pos + 1, x))
    BY <1>2, <1>6
  <2>4. OpenedTo(Contents(At(v)), h, n, pos, x)
    BY <1>4 DEF f
  <2> HIDE DEF r
  <2> QED BY <1>1, <1>2, <1>6, <2>2, <2>3, <2>4, OpenedDone
<1>7. CASE \E j \in IF moves THEN {pos} ELSE 0..s.vec.size :
             DoneBasic(v, RelocationFailed(s, grow, h, j))
  <2>1. PICK j \in IF moves THEN {pos} ELSE 0..n : DoneBasic(v, RelocationFailed(s, grow, h, j))
    BY <1>2, <1>7
  <2> DEFINE r == RelocationFailed(s, grow, h, j)
  <2>2. j \in Nat /\ j <= m /\ j <= Rounded(grow) /\ (moves => j <= s.vec.size)
    BY <1>1, <1>2, <1>5
  <2>3. h \in [0..(m - 1) -> Objects]
    BY <1>4, <1>5
  <2>4. Keeps(OthersOf(v), heap, r, Left(f, s.vec.size, j)) /\ r.vec = s.vec
    <3> HIDE DEF m
    <3> QED BY <1>2, <1>5, <2>2, <2>3, RelocationFailedKeeps
  <2> HIDE DEF r
  <2>5. Keeps(OthersOf(v), heap, r, Left(f, s.vec.size, j)) /\ r.vec.size <= MaxLength
    <3>1. n <= MaxLength
      BY <1>1, <1>2, SimpleVectorAssumption
    <3> QED BY <1>2, <2>4, <3>1
  <2>6. DoneBasic(v, r)
    BY <2>1 DEF r
  <2> QED BY <1>1, <2>5, <2>6, AnyElements
<1>8. CASE /\ n < vec[v].capacity
           /\ Done(v, Placed(s, pos, x), InsertAt(elements[v], pos + 1, x)) /\ departed' = Null
  <2> DEFINE r == Shifted(s, pos + 1)
             p == [k \in {pos} |-> x]
  <2>1. PICK g : /\ Keeps(OthersOf(v), heap, r, g) /\ r.vec = WithSize(s.vec, m)
                 /\ Gapped(f, g, n, pos)
    BY <1>1, <1>2, <1>8, ShiftedHolds
  <2>2. r.vec.size = m
    BY <1>2, <2>1 DEF WithSize, Records
  <2>3. Placed(s, pos, x) = Patch(r, p)
    BY DEF Placed, Patch
  <2>4. OpenedTo(Contents(At(v)), Patched(g, m, p), n, pos, x)
    BY <1>2, <1>5, <2>1 DEF Gapped, OpenedTo, Patched, f
  <2>5. DOMAIN p \subseteq 0..(r.vec.size - 1) /\ \A k \in DOMAIN p : p[k] \in Objects
    BY <1>1, <1>2, <2>2
  <2> HIDE DEF r, p
  <2>6. Keeps(OthersOf(v), heap, Patch(r, p), Patched(g, m, p)) /\ Patch(r, p).vec.size = m
    BY <2>1, <2>2, <2>5, PatchKeeps
  <2>7. Done(v, Patch(r, p), InsertAt(elements[v], pos + 1, x))
    BY <1>8, <2>3
  <2> QED BY <1>1, <1>2, <1>8, <2>4, <2>6, <2>7, OpenedDone
<1>9. CASE /\ n < vec[v].capacity
           /\ \E low \in IF moves THEN {pos + 1} ELSE (pos + 1)..s.vec.size :
                DoneBasic(v, Shifted(s, low))
  <2>1. PICK low \in IF moves THEN {pos + 1} ELSE (pos + 1)..n : DoneBasic(v, Shifted(s, low))
    BY <1>2, <1>9
  <2>2. PICK t \in Nat : t + 1 = low /\ t < n
    <3>1. low - 1 \in Nat /\ (low - 1) + 1 = low /\ low - 1 < n
      BY <1>1, <1>2
    <3> QED BY <3>1
  <2>3. PICK g : /\ Keeps(OthersOf(v), heap, Shifted(s, t + 1), g)
                 /\ Shifted(s, t + 1).vec = WithSize(s.vec, m)
                 /\ Gapped(f, g, n, t)
    BY <1>2, <1>9, <2>2, ShiftedHolds
  <2>4. Shifted(s, low).vec.size <= MaxLength
    BY <1>1, <1>2, <2>2, <2>3 DEF WithSize, Records
  <2> QED BY <1>1, <2>1, <2>2, <2>3, <2>4, AnyElements
<1>10. s.vec.size = n /\ s.vec.capacity = vec[v].capacity
  BY <1>2
<1> QED BY <1>6, <1>7, <1>8, <1>9, <1>10 DEF Emplace, f, h, grow


-----------------------------------------------------------------------------
(* Assignment.                                                             *)

\* The first t objects of q, and of g, are the same.
Taken(q, g, t) == \A k \in 1..t : q[k] = g[k - 1]

LEMMA OverwrittenHolds ==
  ASSUME NEW O, NEW h0, NEW s, NEW f0, Keeps(O, h0, s, f0), NEW q \in Seq(Objects),
         NEW t \in Nat, t <= Len(q), t <= s.vec.capacity
  PROVE  \E g : /\ Keeps(O, h0, Overwritten(s, q, t), g)
                /\ Overwritten(s, q, t).vec.size <= Larger(t, s.vec.size)
                /\ t = Len(q) => Overwritten(s, q, t).vec.size = t /\ Taken(q, g, t)
<1> DEFINE size == s.vec.size
           m == Larger(t, size)
           f == First(FromSeq(q), t)
           p == First(f, size)
           l == Later(f, size)
           s1 == Patch(s, p)
           f1 == Patched(f0, size, p)
           r == [heap |-> Constructed(s1.heap, s1.vec.begin, l), vec |-> WithSize(s1.vec, m)]
           g == Extended(f1, size, l, m)
<1>1. /\ s \in States /\ s.vec \in Records /\ size \in Nat /\ s.vec.capacity \in Nat
      /\ size <= s.vec.capacity /\ f0 \in [0..(size - 1) -> Objects]
  BY KeepsFacts
<1>2. m \in Nat /\ size <= m /\ t <= m /\ m <= s.vec.capacity
  BY <1>1 DEF Larger
<1>3. DOMAIN f = 0..(t - 1) /\ \A k \in 0..(t - 1) : f[k] = q[k + 1] /\ f[k] \in Objects
  <2>1. \A k \in 0..(t - 1) : k \in 0..(Len(q) - 1) /\ k + 1 \in 1..Len(q)
    OBVIOUS
  <2>2. (0..(Len(q) - 1)) \cap (0..(t - 1)) = 0..(t - 1)
    BY <2>1
  <2> QED BY <2>1, <2>2 DEF First, FromSeq
<1> HIDE DEF f
<1>4. /\ DOMAIN p \subseteq 0..(size - 1) /\ \A k \in DOMAIN p : p[k] \in Objects
      /\ \A k \in 0..(t - 1) : k < size => k \in DOMAIN p /\ p[k] = f[k]
  BY <1>1, <1>3 DEF First
<1>5. /\ DOMAIN l = size..(m - 1) /\ \A k \in DOMAIN l : l[k] = f[k] /\ l[k] \in Objects
  <2>1. DOMAIN l = (0..(t - 1)) \ (0..(size - 1))
    BY <1>3 DEF Later
  <2>2. (0..(t - 1)) \ (0..(size - 1)) = size..(m - 1)
    BY <1>1 DEF Larger
  <2>3. \A k \in DOMAIN l : l[k] = f[k] /\ k \in 0..(t - 1)
    BY <2>1 DEF Later
  <2> QED BY <1>3, <2>1, <2>2, <2>3
<1>6. \A k \in 0..(t - 1) : g[k] = q[k + 1]
  <2> SUFFICES ASSUME NEW k \in 0..(t - 1) PROVE g[k] = q[k + 1]
    OBVIOUS
  <2>1. g[k] = IF k < size THEN f1[k] ELSE l[k]
    BY <1>2 DEF Extended
  <2>2. CASE k < size
    <3>1. f1[k] = p[k]
      BY <1>1, <1>4, <2>2 DEF Patched
    <3> QED BY <1>3, <1>4, <2>1, <2>2, <3>1
  <2>3. CASE ~(k < size)
    <3>1. k \in size..(m - 1)
      BY <1>1, <1>2, <2>3
    <3> QED BY <1>3, <1>5, <2>1, <2>3, <3>1
  <2> QED BY <2>2, <2>3
<1>7. Overwritten(s, q, t) = IF t = Len(q) THEN ClearToEnd(r, t) ELSE r
  <2>1. s1.vec = s.vec /\ s1.heap = Assigned(s.heap, s.vec.begin, p)
    BY <1>1 DEF Patch, States
  <2> QED BY <2>1 DEF Overwritten, WithSize, f
<1> HIDE DEF p, l, f1, g, m
<1>8. Keeps(O, h0, s1, f1) /\ s1.vec = s.vec
  BY <1>1, <1>4, PatchKeeps DEF f1
<1> HIDE DEF s1
<1>9. Keeps(O, h0, r, g)
  <2>1. DOMAIN l = s1.vec.size..(m - 1) /\ s1.vec.size <= m /\ m <= s1.vec.capacity
    BY <1>2, <1>5, <1>8
  <2>2. Keeps(O, h0, r, Extended(f1, s1.vec.size, l, m))
    BY <1>2, <1>5, <1>8, <2>1, AppendedKeeps
  <2> QED BY <1>8, <2>2 DEF g
<1>10. r.vec.size = m
  BY <1>1, <1>8 DEF WithSize, Records
<1> HIDE DEF r
<1>11. CASE t # Len(q)
  BY <1>1, <1>2, <1>7, <1>9, <1>10, <1>11 DEF m
<1>12. CASE t = Len(q)
  <2>1. Keeps(O, h0, ClearToEnd(r, t), Prefix(g, t)) /\ ClearToEnd(r, t).vec.size = t
    BY <1>2, <1>9, <1>10, ClearedHolds
  <2>2. Taken(q, Prefix(g, t), t)
    <3> SUFFICES ASSUME NEW k \in 1..t PROVE q[k] = Prefix(g, t)[k - 1]
      BY DEF Taken
    <3>1. k - 1 \in 0..(t - 1) /\ (k - 1) + 1 = k
      OBVIOUS
    <3> QED BY <1>6, <3>1 DEF Prefix
  <2>3. t <= Larger(t, size)
    BY <1>2 DEF m
  <2> QED BY <1>7, <1>12, <2>1, <2>2, <2>3
<1> QED BY <1>11, <1>12

\* How many may come with an assignment.
LEMMA AssignedFits ==
  ASSUME IInv, NEW v \in Vectors, NEW n \in Nat, Total - vec[v].size + n <= MaxLength
  PROVE  n <= MaxLength /\ n <= MaxSize + 1 /\ n < MaxSize
<1>1. Total \in Nat /\ vec[v].size <= Total /\ vec[v].size \in Nat
  BY NoMoreThanTotal, Typed DEF IInv
<1>2. MaxLength \in Nat /\ MaxSize \in Nat /\ MaxLength < MaxSize
  BY SimpleVectorAssumption
<1> QED BY <1>1, <1>2

LEMMA AssignKeeps ==
  ASSUME IInv, NEW v \in Vectors, NEW q \in Seq(Objects), Assign(v, q)
  PROVE  IInv'
<1> DEFINE s == At(v)
           n == Len(q)
           r == IF Fits(s, n) THEN s ELSE Resized(Reset(s), n)
<1>1. departed = Null /\ n \in Nat /\ n <= MaxLength /\ n <= MaxSize + 1
  <2>1. n \in Nat /\ departed = Null /\ Total - vec[v].size + n <= MaxLength
    BY DEF Assign, At
  <2> HIDE DEF n
  <2> QED BY <2>1, AssignedFits
<1>2. /\ Others(OthersOf(v), heap) /\ Keeps(OthersOf(v), heap, s, Contents(s)) /\ s.vec = vec[v]
      /\ vec[v].size \in Nat /\ vec[v].size <= MaxLength /\ vec[v].capacity \in Nat
  BY <1>1, Before
<1>3. Keeps(OthersOf(v), heap, Reset(s), Nothing) /\ Reset(s).vec.size = 0
  BY <1>2, NothingIs, ResetKeeps
<1>4. PICK f : Keeps(OthersOf(v), heap, r, f) /\ r.vec.size <= MaxLength /\ n <= r.vec.capacity
  <2>1. CASE Fits(s, n)
    BY <1>2, <2>1 DEF Fits
  <2>2. CASE ~Fits(s, n)
    <3>1. n # 0
      BY <1>1, <1>2, <2>2 DEF Fits
    <3>2. Reset(s).vec.size <= n
      BY <1>1, <1>3
    <3> HIDE DEF n, s
    <3>3. /\ Keeps(OthersOf(v), heap, Resized(Reset(s), n), Nothing)
          /\ Resized(Reset(s), n).vec.size = 0 /\ n <= Resized(Reset(s), n).vec.capacity
      BY <1>1, <1>2, <1>3, <3>1, <3>2, ResizedHolds
    <3>4. 0 <= MaxLength
      BY SimpleVectorAssumption
    <3> QED BY <2>2, <3>3, <3>4 DEF s, n
  <2> QED BY <2>1, <2>2
<1>5. r.vec.size \in Nat /\ MaxLength \in Nat
  BY <1>4, KeepsFacts, SimpleVectorAssumption
<1> HIDE DEF r
<1>6. CASE Done(v, Overwritten(r, q, n), q) /\ departed' = Null
  <2>1. n \in Nat /\ n <= Len(q) /\ n <= r.vec.capacity
    BY <1>1, <1>4
  <2>2. PICK g : /\ Keeps(OthersOf(v), heap, Overwritten(r, q, n), g)
                 /\ Overwritten(r, q, n).vec.size <= Larger(n, r.vec.size)
                 /\ n = Len(q) => Overwritten(r, q, n).vec.size = n /\ Taken(q, g, n)
    BY <1>4, <2>1, OverwrittenHolds
  <2> QED BY <1>1, <1>6, <2>2, DoneExactly DEF Taken
<1>7. CASE \E t \in 0..(n - 1) : DoneBasic(v, Overwritten(r, q, t))
  <2>1. PICK t \in 0..(n - 1) : DoneBasic(v, Overwritten(r, q, t))
    BY <1>7
  <2>2. t \in Nat /\ t <= Len(q) /\ t <= r.vec.capacity /\ t <= MaxLength
    <3>1. r.vec.capacity \in Nat
      BY <1>4, KeepsFacts
    <3> QED BY <1>1, <1>4, <1>5, <3>1
  <2>3. PICK g : /\ Keeps(OthersOf(v), heap, Overwritten(r, q, t), g)
                 /\ Overwritten(r, q, t).vec.size <= Larger(t, r.vec.size)
                 /\ t = Len(q) => Overwritten(r, q, t).vec.size = t /\ Taken(q, g, t)
    BY <1>4, <2>2, OverwrittenHolds
  <2>4. Overwritten(r, q, t).vec.size \in Nat
    BY <2>3, KeepsFacts
  <2>5. Overwritten(r, q, t).vec.size <= MaxLength
    BY <1>4, <1>5, <2>2, <2>3, <2>4 DEF Larger
  <2> QED BY <1>1, <2>1, <2>3, <2>5, AnyElements
<1>8. CASE DoneBasic(v, Reset(s))
  <2>1. Reset(s).vec.size <= MaxLength
    BY <1>3, <1>5
  <2> QED BY <1>1, <1>3, <1>8, <2>1, AnyElements
<1> QED BY <1>6, <1>7, <1>8 DEF Assign, r


LEMMA Induction ==
  ASSUME NEW S, 0 \in S, \A n \in Nat : n \in S => n + 1 \in S
  PROVE  \A n \in Nat : n \in S
<1> SUFFICES ASSUME NEW n \in Nat, n \notin S PROVE FALSE
  OBVIOUS
<1> DEFINE Bad == {m \in Nat : m \notin S}
<1>1. PICK m \in Bad : \A y \in Bad : ~(<<y, m>> \in OpToRel(<, Nat))
  <2>1. Bad \subseteq Nat /\ Bad # {}
    OBVIOUS
  <2> QED BY <2>1, NatLessThanWellFounded, WFMin, Zenon
<1>2. m \in Nat /\ m \notin S /\ m # 0
  OBVIOUS
<1>3. m - 1 \in Nat /\ m - 1 < m /\ m = (m - 1) + 1
  BY <1>2
<1>4. m - 1 \in S
  BY <1>1, <1>3 DEF OpToRel
<1> QED BY <1>2, <1>3, <1>4

\* assign() of input iterators, one element after another.
Filled(s, t) == Patch(s, [k \in 0..(t - 1) |-> Object(s, 0)])
InputTo(u, s, q, over) ==
  \A t \in 0..Len(q) : u[t] = IF t > over THEN Pushed(u[t - 1], q[t]) ELSE Filled(s, t)

LEMMA InputExists ==
  ASSUME NEW s, NEW q \in Seq(Objects), NEW over \in Nat
  PROVE  LET upto[t \in 0..Len(q)] ==
               IF t > over THEN Pushed(upto[t - 1], q[t])
               ELSE [s EXCEPT !.heap = Assigned(@, s.vec.begin, [k \in 0..(t - 1) |-> Object(s, 0)])]
         IN  InputTo(upto, s, q, over)
<1> DEFINE F(t, x) == IF t > over THEN Pushed(x, q[t]) ELSE Filled(s, t)
           Good(w, m) == w = [t \in 0..m |-> F(t, w[t - 1])]
           upto == CHOOSE w : Good(w, Len(q))
           S == {m \in Nat : \E w : Good(w, m)}
<1>1. \A x, y : F(0, x) = F(0, y)
  OBVIOUS
<1> HIDE DEF F
<1>2. 0 \in S
  <2> DEFINE w == [t \in 0..0 |-> F(0, 0)]
  <2>1. w = [t \in 0..0 |-> F(t, w[t - 1])]
    <3>1. \A t \in 0..0 : F(t, w[t - 1]) = F(0, 0)
      BY <1>1
    <3> QED BY <3>1
  <2>2. Good(w, 0)
    BY <2>1
  <2> HIDE DEF w
  <2> QED BY <2>2
<1>3. ASSUME NEW m \in Nat, m \in S PROVE m + 1 \in S
  <2>1. PICK w : Good(w, m)
    BY <1>3
  <2> DEFINE x == [t \in 0..(m + 1) |-> IF t = m + 1 THEN F(m + 1, w[m]) ELSE w[t]]
  <2>2. \A t \in 0..m : w[t] = F(t, w[t - 1])
    BY <2>1
  <2>3. ASSUME NEW t \in 0..(m + 1) PROVE x[t] = F(t, x[t - 1])
    <3>1. CASE t = 0
      <4>1. 0 \in 0..m /\ 0 \in 0..(m + 1) /\ 0 # m + 1
        OBVIOUS
      <4>2. x[0] = w[0] /\ w[0] = F(0, w[0 - 1])
        BY <2>2, <4>1
      <4> QED BY <1>1, <3>1, <4>2
    <3>2. CASE t \in 1..m
      <4>1. t \in 0..m /\ t # m + 1 /\ t - 1 \in 0..(m + 1) /\ t - 1 # m + 1
        BY <3>2
      <4>2. x[t] = w[t] /\ x[t - 1] = w[t - 1]
        BY <4>1
      <4> QED BY <2>2, <4>1, <4>2
    <3>3. CASE t = m + 1
      <4>1. t - 1 = m /\ m \in 0..(m + 1) /\ m # m + 1
        BY <3>3
      <4>2. x[t - 1] = w[m] /\ x[t] = F(m + 1, w[m])
        BY <3>3, <4>1
      <4> QED BY <3>3, <4>2
    <3> QED BY <3>1, <3>2, <3>3
  <2>4. x = [t \in 0..(m + 1) |-> x[t]]
    OBVIOUS
  <2> HIDE DEF x
  <2> DEFINE y == [t \in 0..(m + 1) |-> F(t, x[t - 1])]
  <2>5. [t \in 0..(m + 1) |-> x[t]] = y
    BY <2>3
  <2> HIDE DEF y
  <2>6. x = y
    BY <2>4, <2>5
  <2>7. Good(x, m + 1)
    BY <2>6 DEF y
  <2> HIDE DEF Good
  <2> QED BY <2>7
<1>4. \A m \in Nat : m \in S
  <2> HIDE DEF S
  <2> QED BY <1>2, <1>3, Induction
<1>5. \E w : Good(w, Len(q))
  <2>1. Len(q) \in Nat
    OBVIOUS
  <2> QED BY <1>4, <2>1
<1>6. Good(upto, Len(q))
  <2> HIDE DEF Good
  <2> QED BY <1>5, Zenon
<1>7. \A t \in 0..Len(q) : upto[t] = F(t, upto[t - 1])
  <2> HIDE DEF upto
  <2> QED BY <1>6
<1>8. InputTo(upto, s, q, over)
  <2> HIDE DEF upto
  <2> QED BY <1>7 DEF F, InputTo
<1> QED BY <1>8 DEF F, Filled, Patch


\* What there is when t elements have come.
Input(O, h0, r, n, q, t, over) ==
  \E f : Keeps(O, h0, r, f) /\ r.vec.size = n /\ (over = 0 => Taken(q, f, t))

LEMMA InputHolds ==
  ASSUME NEW O, NEW h0, Others(O, h0), NEW s, NEW f, Keeps(O, h0, s, f), NEW q \in Seq(Objects),
         Len(q) < MaxSize, NEW over \in Nat, over = Smaller(Len(q), s.vec.size),
         NEW u, InputTo(u, s, q, over)
  PROVE  \A t \in 0..Len(q) : Input(O, h0, u[t], Larger(t, s.vec.size), q, t, over)
<1> DEFINE n == Len(q)
           size == s.vec.size
           S == {t \in Nat : t \in 0..n => Input(O, h0, u[t], Larger(t, size), q, t, over)}
<1>1. size \in Nat /\ f \in [0..(size - 1) -> Objects]
      /\ \A k \in 0..(size - 1) : Object(s, k) = f[k]
  BY KeepsFacts, ContentsAre
<1>2. over <= n /\ over <= size /\ (over = n \/ over = size) /\ n \in Nat
  BY <1>1 DEF Smaller
<1>3. ASSUME NEW t \in 0..n, t <= over
      PROVE  Input(O, h0, u[t], Larger(t, size), q, t, over)
  <2> DEFINE g == [k \in 0..(t - 1) |-> Object(s, 0)]
             r == Filled(s, t)
             p == Patched(f, size, g)
  <2>1. u[t] = r
    BY <1>2, <1>3 DEF InputTo
  <2>2. ASSUME NEW k \in DOMAIN g PROVE g[k] \in Objects
    <3>1. 0 \in 0..(size - 1)
      BY <1>1, <1>2, <1>3
    <3> QED BY <1>1, <3>1
  <2>3. DOMAIN g \subseteq 0..(size - 1)
    BY <1>1, <1>2, <1>3
  <2>4. r = Patch(s, g)
    BY DEF Filled
  <2> HIDE DEF g, r, p
  <2>5. Keeps(O, h0, r, p) /\ r.vec = s.vec
    BY <2>2, <2>3, <2>4, PatchKeeps DEF p
  <2>6. Larger(t, size) = size
    BY <1>1, <1>2, <1>3 DEF Larger
  <2>7. over = 0 => Taken(q, p, t)
    BY <1>3 DEF Taken
  <2> QED BY <2>1, <2>5, <2>6, <2>7 DEF Input
<1>4. 0 \in S
  <2>1. 0 \in 0..n /\ 0 <= over
    BY <1>2
  <2> QED BY <1>3, <2>1
<1>5. ASSUME NEW m \in Nat, m \in S PROVE m + 1 \in S
  <2> DEFINE t == m + 1
  <2>1. SUFFICES ASSUME t \in 0..n PROVE Input(O, h0, u[t], Larger(t, size), q, t, over)
    OBVIOUS
  <2>2. CASE t <= over
    BY <1>3, <2>1, <2>2
  <2>3. CASE ~(t <= over)
    <3>1. m \in 0..n /\ t - 1 = m /\ t > over /\ size <= m
      BY <1>1, <1>2, <2>1, <2>3
    <3>2. u[t] = Pushed(u[m], q[t])
      BY <2>1, <3>1 DEF InputTo
    <3>3. Larger(m, size) = m /\ Larger(t, size) = t
      BY <1>1, <3>1 DEF Larger
    <3>4. PICK g : Keeps(O, h0, u[m], g) /\ u[m].vec.size = m /\ (over = 0 => Taken(q, g, m))
      BY <1>5, <3>1, <3>3 DEF Input
    <3>5. q[t] \in Objects /\ u[m].vec.size < MaxSize
      <4>1. MaxSize \in Nat
        BY SimpleVectorAssumption
      <4> QED BY <2>1, <3>4, <4>1
    <3> DEFINE p == Longer(g, m, q[t])
    <3>6. Keeps(O, h0, u[t], p) /\ u[t].vec.size = t
      <4>1. /\ Keeps(O, h0, Pushed(u[m], q[t]), Longer(g, u[m].vec.size, q[t]))
            /\ Pushed(u[m], q[t]).vec.size = u[m].vec.size + 1
        BY <3>4, <3>5, PushedHolds
      <4> QED BY <3>2, <3>4, <4>1
    <3>7. ASSUME over = 0, NEW k \in 1..t PROVE q[k] = p[k - 1]
      <4>1. CASE k = t
        BY <4>1 DEF Longer
      <4>2. CASE k # t
        <5>1. k \in 1..m /\ k - 1 \in 0..m /\ k - 1 < m
          BY <4>2
        <5>2. q[k] = g[k - 1]
          BY <3>4, <3>7, <5>1 DEF Taken
        <5> QED BY <5>1, <5>2 DEF Longer
      <4> QED BY <4>1, <4>2
    <3>8. over = 0 => Taken(q, p, t)
      BY <3>7 DEF Taken
    <3> HIDE DEF p
    <3> QED BY <3>3, <3>6, <3>8 DEF Input
  <2> QED BY <2>2, <2>3
<1>6. \A t \in Nat : t \in S
  <2> HIDE DEF S
  <2> QED BY <1>4, <1>5, Induction
<1> QED BY <1>2, <1>6

LEMMA AssignInputKeeps ==
  ASSUME IInv, NEW v \in Vectors, NEW q \in Seq(Objects), AssignInput(v, q)
  PROVE  IInv'
<1> DEFINE s == At(v)
           n == Len(q)
           over == Smaller(n, s.vec.size)
           upto == CHOOSE upto : upto = [t \in 0..n |->
                     IF t > over THEN Pushed(upto[t - 1], q[t])
                     ELSE [s EXCEPT !.heap = Assigned(@, s.vec.begin,
                                                      [k \in 0..(t - 1) |-> Object(s, 0)])]]
<1>1. departed = Null /\ n \in Nat /\ n <= MaxLength /\ n < MaxSize
  <2>1. n \in Nat /\ departed = Null /\ Total - vec[v].size + n <= MaxLength
    <3>1. departed = Null /\ Total - s.vec.size + n <= MaxLength
      BY Zenon DEF AssignInput
    <3>2. s.vec = vec[v]
      BY DEF At
    <3> QED BY <3>1, <3>2
  <2> HIDE DEF n
  <2> QED BY <2>1, AssignedFits
<1>2. /\ Others(OthersOf(v), heap) /\ Keeps(OthersOf(v), heap, s, Contents(s)) /\ s.vec = vec[v]
      /\ vec[v].size \in Nat /\ vec[v].size <= MaxLength
  BY <1>1, Before
<1>3. over \in Nat
  BY <1>1, <1>2 DEF Smaller
<1>4. InputTo(upto, s, q, over)
  <2> HIDE DEF s, over
  <2> QED BY <1>3, InputExists
<1>5. \/ /\ Done(v, ClearToEnd(upto[n], n), q)
         /\ departed' = IF over = 0 THEN Null ELSE "input range"
      \/ \E t \in 0..(n - 1) : DoneBasic(v, upto[t])
  BY DEF AssignInput
<1> HIDE DEF upto
<1>6. \A t \in 0..n : Input(OthersOf(v), heap, upto[t], Larger(t, s.vec.size), q, t, over)
  <2>1. over = Smaller(Len(q), s.vec.size) /\ Len(q) < MaxSize
    BY <1>1
  <2> HIDE DEF s, over
  <2> QED BY <1>2, <1>3, <1>4, <2>1, InputHolds
<1>7. \A t \in 0..n : Larger(t, s.vec.size) \in Nat /\ t <= Larger(t, s.vec.size)
                      /\ Larger(t, s.vec.size) <= MaxLength
  BY <1>1, <1>2, SimpleVectorAssumption DEF Larger
<1>8. CASE \E t \in 0..(n - 1) : DoneBasic(v, upto[t])
  <2>1. PICK t \in 0..(n - 1) : DoneBasic(v, upto[t])
    BY <1>8
  <2>2. t \in 0..n
    BY <1>1
  <2>3. PICK f : Keeps(OthersOf(v), heap, upto[t], f) /\ upto[t].vec.size = Larger(t, s.vec.size)
                 /\ (over = 0 => Taken(q, f, t))
    BY <1>6, <2>2 DEF Input
  <2>4. upto[t].vec.size <= MaxLength
    BY <1>7, <2>2, <2>3
  <2> QED BY <1>1, <2>1, <2>3, <2>4, AnyElements
<1>9. CASE /\ Done(v, ClearToEnd(upto[n], n), q)
           /\ departed' = IF over = 0 THEN Null ELSE "input range"
  <2> DEFINE r == ClearToEnd(upto[n], n)
  <2>1. n \in 0..n
    BY <1>1
  <2>2. PICK f : Keeps(OthersOf(v), heap, upto[n], f) /\ upto[n].vec.size = Larger(n, s.vec.size)
                 /\ (over = 0 => Taken(q, f, n))
    BY <1>6, <2>1 DEF Input
  <2>3. n <= upto[n].vec.size
    BY <1>7, <2>1, <2>2
  <2>4. Keeps(OthersOf(v), heap, r, Prefix(f, n)) /\ r.vec.size = n
    BY <1>1, <2>2, <2>3, ClearedHolds
  <2>5. Prefix(f, n) \in [0..(n - 1) -> Objects]
    BY <2>4, KeepsFacts
  <2>6. over = 0 => q = AsSeq(Prefix(f, n), n)
    <3> SUFFICES ASSUME over = 0 PROVE q = AsSeq(Prefix(f, n), n)
      OBVIOUS
    <3>1. ASSUME NEW k \in 1..n PROVE q[k] = Prefix(f, n)[k - 1]
      <4>1. q[k] = f[k - 1] /\ k - 1 \in 0..(n - 1)
        BY <1>1, <2>2 DEF Taken
      <4> QED BY <4>1 DEF Prefix
    <3> QED BY <1>1, <2>5, <3>1, SameSeq
  <2> HIDE DEF r, over
  <2>7. Matches(Prefix(f, n), r.vec.size, q)
    <3>1. departed' = Null => over = 0
      BY <1>9, NullAssumption
    <3> QED BY <2>4, <2>6, <3>1 DEF Matches
  <2>8. Departs
    BY <1>9 DEF Departs, Departures
  <2>9. Done(v, r, q) /\ r.vec.size <= MaxLength
    BY <1>1, <1>9, <2>4 DEF r
  <2> QED BY <1>1, <2>4, <2>7, <2>8, <2>9, DoneKeeps
<1> QED BY <1>5, <1>8, <1>9


-----------------------------------------------------------------------------
(* Other sizes, and two vectors.                                           *)

ResizeGrow(s, n) == IF n > MaxSize \div 3 THEN MaxSize ELSE Larger(n, (s.vec.size * 3) \div 2)

LEMMA ResizeGrowEnough ==
  ASSUME NEW s, s.vec.size \in Nat, NEW n \in Nat, s.vec.size < n, n <= MaxSize
  PROVE  /\ ResizeGrow(s, n) \in Nat /\ n <= ResizeGrow(s, n)
         /\ ResizeGrow(s, n) <= MaxSize + 1
<1>1. MaxSize \in Nat
  BY SimpleVectorAssumption
<1>2. CASE n > MaxSize \div 3
  BY <1>1, <1>2 DEF ResizeGrow
<1>3. CASE ~(n > MaxSize \div 3)
  BY <1>1, <1>3 DEF ResizeGrow, Larger
<1> QED BY <1>2, <1>3

\* The room that resize_common() makes.
Widened(s, n) == IF Fits(s, n) THEN s ELSE Resized(s, ResizeGrow(s, n))

LEMMA WidenedKeeps ==
  ASSUME NEW O, NEW h0, Others(O, h0), NEW s, NEW f, Keeps(O, h0, s, f), NEW n \in Nat, n <= MaxSize
  PROVE  /\ Keeps(O, h0, Widened(s, n), f)
         /\ Widened(s, n).vec.size = s.vec.size /\ n <= Widened(s, n).vec.capacity
         /\ n <= s.vec.size => Widened(s, n) = s
<1>1. s.vec.size \in Nat /\ s.vec.capacity \in Nat /\ s.vec.size <= s.vec.capacity
  BY KeepsFacts
<1>2. CASE Fits(s, n)
  BY <1>2 DEF Widened, Fits
<1>3. CASE ~Fits(s, n)
  <2> DEFINE grow == ResizeGrow(s, n)
  <2>1. s.vec.size < n
    BY <1>1, <1>3 DEF Fits
  <2>2. grow \in Nat /\ n <= grow /\ grow <= MaxSize + 1
    BY <1>1, <2>1, ResizeGrowEnough
  <2>3. Widened(s, n) = Resized(s, grow)
    BY <1>3 DEF Widened
  <2> HIDE DEF grow
  <2>4. grow # 0 /\ s.vec.size <= grow
    BY <1>1, <2>1, <2>2
  <2>5. /\ Keeps(O, h0, Resized(s, grow), f)
        /\ Resized(s, grow).vec.size = s.vec.size
        /\ grow <= Resized(s, grow).vec.capacity
    BY <2>2, <2>4, ResizedHolds
  <2>6. Resized(s, grow).vec.capacity \in Nat
    BY <2>5, KeepsFacts
  <2> QED BY <1>1, <2>1, <2>2, <2>3, <2>5, <2>6
<1> QED BY <1>2, <1>3

\* x, once for each of the cells to t.
Copies(x, size, t) == [k \in size..(t - 1) |-> x]
Grown(r, g, t) == [heap |-> Constructed(r.heap, r.vec.begin, g), vec |-> WithSize(r.vec, t)]

LEMMA GrownKeeps ==
  ASSUME NEW O, NEW h0, NEW r, NEW f, Keeps(O, h0, r, f), NEW size \in Nat, r.vec.size = size,
         NEW t \in Nat, size <= t, t <= r.vec.capacity, NEW x \in Objects
  PROVE  /\ Keeps(O, h0, Grown(r, Copies(x, size, t), t), Extended(f, size, Copies(x, size, t), t))
         /\ Grown(r, Copies(x, size, t), t).vec.size = t
<1> DEFINE g == Copies(x, size, t)
<1>1. DOMAIN g = size..(t - 1) /\ \A k \in DOMAIN g : g[k] \in Objects
  BY DEF Copies
<1> HIDE DEF g
<1>2. DOMAIN g = r.vec.size..(t - 1) /\ r.vec.size <= t
  BY <1>1
<1>3. Keeps(O, h0, [heap |-> Constructed(r.heap, r.vec.begin, g), vec |-> WithSize(r.vec, t)],
            Extended(f, r.vec.size, g, t))
  BY <1>1, <1>2, AppendedKeeps
<1>4. Grown(r, g, t).vec.size = t
  BY KeepsFacts DEF Grown, WithSize, Records
<1> QED BY <1>3, <1>4 DEF Grown, g

WithCopies(e, size, n, x) == e \o [k \in 1..(n - size) |-> x]
LongerSeq(e, q, size, n, x) ==
  q \in Seq(Objects) /\ Len(q) = n /\ \A k \in 1..n : q[k] = IF k <= size THEN e[k] ELSE x

LEMMA CopiesAdded ==
  ASSUME NEW e \in Seq(Objects), NEW size \in Nat, Len(e) = size, NEW n \in Nat, size < n,
         NEW x \in Objects
  PROVE  LongerSeq(e, WithCopies(e, size, n, x), size, n, x)
<1> DEFINE b == [k \in 1..(n - size) |-> x]
<1>1. PICK m \in Nat : m = n - size /\ size + m = n
  <2>1. n - size \in Nat /\ size + (n - size) = n
    OBVIOUS
  <2> QED BY <2>1
<1>2. b = [k \in 1..m |-> x]
  BY <1>1
<1>3. b \in Seq(Objects) /\ Len(b) = m /\ \A k \in 1..m : b[k] = x
  BY <1>2
<1> HIDE DEF b
<1>4. /\ e \o b \in Seq(Objects) /\ Len(e \o b) = Len(e) + Len(b)
      /\ \A k \in 1..(Len(e) + Len(b)) : (e \o b)[k] = IF k <= Len(e) THEN e[k] ELSE b[k - Len(e)]
  BY <1>3, ConcatProperties
<1>5. Len(e) + Len(b) = n
  BY <1>1, <1>3
<1>6. ASSUME NEW k \in 1..n PROVE (e \o b)[k] = IF k <= size THEN e[k] ELSE x
  <2>1. (e \o b)[k] = IF k <= size THEN e[k] ELSE b[k - size]
    BY <1>4, <1>5
  <2>2. ~(k <= size) => k - size \in 1..m
    BY <1>1
  <2> QED BY <1>3, <2>1, <2>2
<1>7. LongerSeq(e, e \o b, size, n, x)
  BY <1>4, <1>5, <1>6 DEF LongerSeq
<1> QED BY <1>7 DEF b, WithCopies


\* A construction throws: what has been constructed is destroyed.
LEMMA Withdrawn ==
  ASSUME NEW O, NEW h0, NEW r, NEW f, Keeps(O, h0, r, f), NEW size \in Nat, r.vec.size = size,
         NEW t \in Nat, size <= t, t <= r.vec.capacity, NEW x \in Objects,
         NEW r2, r2 = [r EXCEPT !.heap = Destroyed(Constructed(r.heap, r.vec.begin,
                                                               Copies(x, size, t)),
                                                   r.vec.begin, size..(t - 1))]
  PROVE  Keeps(O, h0, r2, f) /\ r2.vec.size = size
<1> DEFINE g == Copies(x, size, t)
           s == Grown(r, g, t)
           f1 == Extended(f, size, g, t)
<1>1. Keeps(O, h0, s, f1) /\ s.vec.size = t
  BY GrownKeeps
<1>2. r \in States /\ r.vec \in Records /\ f \in [0..(size - 1) -> Objects]
  BY KeepsFacts
<1>3. Prefix(f1, size) = f
  BY <1>2 DEF Prefix, Extended
<1>4. ClearToEnd(s, size) = r2
  <2>1. s.heap = Constructed(r.heap, r.vec.begin, g) /\ s.vec = WithSize(r.vec, t)
    BY DEF Grown
  <2>2. WithSize(r.vec, t).begin = r.vec.begin /\ WithSize(r.vec, t).size = t
    BY <1>2 DEF WithSize, Records
  <2>3. Smaller(size, t) = size
    BY DEF Smaller
  <2>4. [WithSize(r.vec, t) EXCEPT !.size = size] = r.vec
    BY <1>2 DEF WithSize, Records
  <2> HIDE DEF s, g
  <2>5. ClearToEnd(s, size) = [heap |-> Destroyed(s.heap, r.vec.begin, size..(t - 1)), vec |-> r.vec]
    BY <2>1, <2>2, <2>3, <2>4 DEF ClearToEnd
  <2>6. r2 = [heap |-> Destroyed(s.heap, r.vec.begin, size..(t - 1)), vec |-> r.vec]
    BY <1>2, <2>1 DEF States, g
  <2> QED BY <2>5, <2>6
<1> HIDE DEF s, f1
<1>5. Keeps(O, h0, ClearToEnd(s, size), Prefix(f1, size)) /\ ClearToEnd(s, size).vec.size = size
  BY <1>1, ClearedHolds
<1> QED BY <1>3, <1>4, <1>5

LEMMA ResizeCommonKeeps ==
  ASSUME IInv, NEW v \in Vectors, NEW n \in Nat, NEW x \in Objects, ResizeCommon(v, n, x)
  PROVE  IInv'
<1> DEFINE s == At(v)
           f == Contents(s)
           size == vec[v].size
           e == elements[v]
           r == Widened(s, n)
<1>1. departed = Null /\ departed' = Null /\ n <= MaxLength /\ n <= MaxSize
  <2>1. departed = Null /\ departed' = Null /\ Total - vec[v].size + n <= MaxLength
    BY DEF ResizeCommon, At
  <2>2. n <= MaxLength /\ n < MaxSize
    BY <2>1, AssignedFits
  <2> QED BY <2>1, <2>2, SimpleVectorAssumption
<1>2. /\ Others(OthersOf(v), heap) /\ Keeps(OthersOf(v), heap, s, f) /\ s.vec = vec[v]
      /\ size \in Nat /\ size <= MaxLength /\ vec[v].capacity \in Nat /\ size <= vec[v].capacity
      /\ f \in [0..(size - 1) -> Objects]
      /\ e \in Seq(Objects) /\ Len(e) = size /\ \A k \in 1..size : e[k] = f[k - 1]
  BY <1>1, Before
<1> HIDE DEF f
<1>3. /\ Keeps(OthersOf(v), heap, r, f) /\ r.vec.size = size /\ n <= r.vec.capacity
      /\ n <= size => r = s
  BY <1>1, <1>2, WidenedKeeps
<1>4. \/ /\ n > size
         /\ Done(v, [heap |-> Constructed(r.heap, r.vec.begin, Copies(x, size, n)),
                     vec |-> [r.vec EXCEPT !.size = n]],
                 e \o [k \in 1..(n - size) |-> x])
      \/ n <= size /\ Done(v, ClearToEnd(r, n), SubSeq(e, 1, n))
      \/ \E t \in size..(n - 1) :
           Done(v, [r EXCEPT !.heap = Destroyed(Constructed(@, r.vec.begin, Copies(x, size, t)),
                                                r.vec.begin, size..(t - 1))], e)
  BY <1>2 DEF ResizeCommon, Widened, ResizeGrow, Copies
<1> HIDE DEF r, s
<1>5. CASE /\ n > size
           /\ Done(v, [heap |-> Constructed(r.heap, r.vec.begin, Copies(x, size, n)),
                       vec |-> [r.vec EXCEPT !.size = n]],
                   e \o [k \in 1..(n - size) |-> x])
  <2> DEFINE q == WithCopies(e, size, n, x)
             g == Copies(x, size, n)
             s2 == Grown(r, g, n)
             f2 == Extended(f, size, g, n)
  <2>1. q \in Seq(Objects) /\ Len(q) = n /\ \A k \in 1..n : q[k] = IF k <= size THEN e[k] ELSE x
    <3>1. LongerSeq(e, q, size, n, x)
      BY <1>2, <1>5, CopiesAdded
    <3> QED BY <3>1 DEF LongerSeq
  <2>2. Done(v, s2, q)
    BY <1>5 DEF Grown, WithSize, WithCopies
  <2>3. Keeps(OthersOf(v), heap, s2, f2) /\ s2.vec.size = n
    BY <1>2, <1>3, <1>5, GrownKeeps
  <2> HIDE DEF q, s2
  <2>4. ASSUME NEW k \in 1..n PROVE q[k] = f2[k - 1]
    <3>1. k - 1 \in 0..(n - 1) /\ (k - 1 < size <=> k <= size) /\ (k <= size => k \in 1..size)
          /\ (~(k <= size) => k - 1 \in size..(n - 1))
      BY <1>2
    <3>2. f2[k - 1] = IF k <= size THEN f[k - 1] ELSE x
      BY <3>1 DEF Extended, Copies
    <3> QED BY <1>2, <2>1, <3>1, <3>2
  <2> HIDE DEF f2
  <2> QED BY <1>1, <2>1, <2>2, <2>3, <2>4, DoneExactly
<1>6. CASE n <= size /\ Done(v, ClearToEnd(r, n), SubSeq(e, 1, n))
  <2>1. Done(v, ClearToEnd(At(v), n), SubSeq(e, 1, n))
    BY <1>3, <1>6 DEF s
  <2>2. SubSeq(e, 1, n) \in Seq(Objects) /\ Len(SubSeq(e, 1, n)) = n
        /\ \A k \in 1..n : SubSeq(e, 1, n)[k] = e[k]
    BY <1>2, <1>6
  <2> QED BY <1>1, <1>6, <2>1, <2>2, ClearedDone
<1>7. CASE \E t \in size..(n - 1) :
             Done(v, [r EXCEPT !.heap = Destroyed(Constructed(@, r.vec.begin, Copies(x, size, t)),
                                                  r.vec.begin, size..(t - 1))], e)
  <2>1. PICK t \in size..(n - 1) :
               Done(v, [r EXCEPT !.heap = Destroyed(Constructed(@, r.vec.begin, Copies(x, size, t)),
                                                    r.vec.begin, size..(t - 1))], e)
    BY <1>7
  <2> DEFINE r2 == [r EXCEPT !.heap = Destroyed(Constructed(r.heap, r.vec.begin,
                                                            Copies(x, size, t)),
                                                r.vec.begin, size..(t - 1))]
  <2>2. t \in Nat /\ size <= t /\ t <= r.vec.capacity
    <3>1. r.vec.capacity \in Nat
      BY <1>3, KeepsFacts
    <3> QED BY <1>2, <1>3, <3>1
  <2>3. PICK r3 : r3 = r2
    OBVIOUS
  <2>4. Keeps(OthersOf(v), heap, r3, f) /\ r3.vec.size = size
    BY <1>2, <1>3, <2>2, <2>3, Withdrawn
  <2>5. Done(v, r3, e)
    BY <2>1, <2>3
  <2> QED BY <1>1, <1>2, <2>4, <2>5, SameElements DEF f, s
<1> QED BY <1>4, <1>5, <1>6, <1>7


\* The end of a step that gives v what w has, and w what an operation on v makes of it.
LEMMA ExchangedKeeps ==
  ASSUME IInv, NEW v \in Vectors, NEW w \in Vectors, v # w, departed = Null, departed' = Null,
         NEW s, NEW f, Keeps(OthersOf(v), heap, s, f), s.vec.size <= MaxLength,
         NEW q \in Seq(Objects), q = AsSeq(f, s.vec.size),
         heap' = s.heap, moves' = moves,
         vec' = [vec EXCEPT ![v] = vec[w], ![w] = s.vec],
         elements' = [elements EXCEPT ![v] = elements[w], ![w] = q]
  PROVE  IInv'
<1> DEFINE O == OthersOf(v)
           From(u) == IF u = v THEN w ELSE u
<1>1. /\ heap \in Heaps /\ vec \in [Vectors -> Records] /\ elements \in [Vectors -> Seq(Objects)]
      /\ TypeOK /\ Layout
  BY Typed DEF IInv
<1>2. /\ s.heap \in Heaps /\ s.vec \in Records /\ s.vec.size \in Nat /\ s.vec.capacity \in Nat
      /\ s.vec.size <= s.vec.capacity
      /\ s.vec.begin # Null => s.vec.begin \in Blocks
      /\ Shape(s.vec) /\ Alone(O, heap, s.heap, s.vec) /\ Full(s.heap, s.vec, f)
  BY KeepsFacts DEF Keeps, Holds
<1>3. /\ vec'[w] = s.vec /\ elements'[w] = q
      /\ vec' \in [Vectors -> Records] /\ elements' \in [Vectors -> Seq(Objects)]
  BY <1>1, <1>2
<1>4. \A u \in Vectors \ {w} : /\ From(u) \in Vectors \ {v}
                               /\ vec'[u] = vec[From(u)] /\ elements'[u] = elements[From(u)]
  BY <1>1, <1>2
<1>5. \A t, u \in Vectors \ {w} : From(t) = From(u) => t = u
  OBVIOUS
<1>6. \A a \in Vectors \ {v} : \E u \in Vectors \ {w} : a = From(u)
  OBVIOUS
<1> HIDE DEF From
<1>7. \A a \in Vectors \ {v} : vec[a].begin # Null =>
        vec[a].begin \in O /\ heap'[vec[a].begin] = heap[vec[a].begin]
                           /\ vec[a].begin # s.vec.begin
  <2>1. \A a \in Vectors \ {v} : vec[a].begin # Null => vec[a].begin \in O
    BY DEF OthersOf
  <2> QED BY <1>2, <2>1 DEF Alone
<1>8. ASSUME NEW u \in Vectors \ {w} PROVE Contents(At(u))' = Contents(At(From(u)))
  <2> DEFINE a == From(u)
  <2>0. a \in Vectors \ {v} /\ vec'[u] = vec[a]
    BY <1>4
  <2>1. Contents(At(a)) = [k \in 0..(vec[a].size - 1) |-> heap[vec[a].begin].cells[k]]
    BY DEF Contents, At, Object
  <2>2. Contents(At(u))' = [k \in 0..(vec'[u].size - 1) |-> heap'[vec'[u].begin].cells[k]]
    BY DEF Contents, At, Object
  <2> HIDE DEF a
  <2>3. CASE vec[a].begin # Null
    BY <1>7, <2>0, <2>1, <2>2, <2>3 DEF a
  <2>4. CASE vec[a].begin = Null
    <3>1. Shape(vec[a])
      BY <1>1, <2>0 DEF Layout
    <3>2. 0..(vec[a].size - 1) = {}
      <4>1. vec[a] \in Records /\ vec[a].size <= vec[a].capacity /\ vec[a].capacity = 0
        BY <2>4, <3>1 DEF Shape
      <4>2. vec[a].size \in Nat /\ vec[a].capacity \in Nat
        BY <4>1 DEF Records
      <4>3. vec[a].size = 0
        BY <4>1, <4>2
      <4> QED BY <4>3
    <3>3. \A h : [k \in 0..(vec[a].size - 1) |-> h[vec[a].begin].cells[k]] = [k \in {} |-> k]
      BY <3>2
    <3> QED BY <2>0, <2>1, <2>2, <3>3 DEF a
  <2> QED BY <2>3, <2>4
<1>9. Contents(At(w))' = f
  <2>1. Contents(At(w))' = [k \in 0..(s.vec.size - 1) |-> s.heap[s.vec.begin].cells[k]]
    BY <1>3 DEF Contents, At, Object
  <2>2. Contents(s) = [k \in 0..(s.vec.size - 1) |-> s.heap[s.vec.begin].cells[k]]
    BY DEF Contents, Object
  <2> QED BY <2>1, <2>2, ContentsAre
<1>10. TypeOK'
  <2>1. vec' \in [Vectors -> [begin : Blocks \cup {Null}, size : 0..MaxLength, capacity : Nat]]
    <3>1. s.vec \in [begin : Blocks \cup {Null}, size : 0..MaxLength, capacity : Nat]
      <4>1. s.vec.size \in 0..MaxLength
        BY <1>2, SimpleVectorAssumption
      <4> QED BY <1>2, <4>1 DEF Records
    <3>2. vec \in [Vectors -> [begin : Blocks \cup {Null}, size : 0..MaxLength, capacity : Nat]]
      BY <1>1 DEF TypeOK
    <3> QED BY <3>1, <3>2
  <2>2. \A u \in Vectors : Shape(vec'[u])
    BY <1>1, <1>2, <1>3, <1>4 DEF Layout
  <2>3. \A u \in Vectors : /\ vec'[u].size <= vec'[u].capacity /\ vec'[u].capacity % Align = 0
                           /\ vec'[u].begin = Null => vec'[u].capacity = 0
    BY <2>2 DEF Shape
  <2>4. heap' \in [Blocks -> [room : Nat, cells : [Cells -> Objects \cup {Raw, Broken}]]]
    BY <1>2 DEF Heaps
  <2>5. moves' \in BOOLEAN
    BY <1>1 DEF TypeOK
  <2>6. departed' \in Departures
    BY DEF Departures
  <2> QED BY <1>3, <2>1, <2>3, <2>4, <2>5, <2>6 DEF TypeOK
<1>11. Layout'
  <2>1. ASSUME NEW u \in Vectors PROVE (Shape(vec[u]) /\ Full(heap, vec[u], Contents(At(u))))'
    <3>1. CASE u = w
      BY <1>2, <1>3, <1>9, <3>1 DEF Full
    <3>2. CASE u # w
      <4> DEFINE a == From(u)
      <4>0. a \in Vectors \ {v} /\ vec'[u] = vec[a] /\ Contents(At(u))' = Contents(At(a))
        BY <1>4, <1>8, <3>2
      <4> HIDE DEF a
      <4>1. Shape(vec[a]) /\ Full(heap, vec[a], Contents(At(a)))
        BY <1>1, <4>0 DEF Layout
      <4>2. vec[a].begin # Null => heap'[vec[a].begin] = heap[vec[a].begin]
        BY <1>7, <4>0
      <4>3. Full(heap', vec[a], Contents(At(a)))
        BY <4>1, <4>2 DEF Full
      <4>4. Shape(vec'[u]) /\ Full(heap', vec'[u], Contents(At(u))')
        BY <4>0, <4>1, <4>3
      <4> QED BY <4>4
    <3> QED BY <3>1, <3>2
  <2>2. ASSUME NEW t \in Vectors, NEW u \in Vectors, t # u, vec'[t].begin = vec'[u].begin
        PROVE  vec'[t].begin = Null
    <3>1. CASE t # w /\ u # w
      <4>1. From(t) # From(u) /\ From(t) \in Vectors /\ From(u) \in Vectors
        BY <1>4, <1>5, <2>2, <3>1
      <4>2. vec'[t] = vec[From(t)] /\ vec'[u] = vec[From(u)]
        BY <1>4, <3>1
      <4> QED BY <1>1, <2>2, <4>1, <4>2 DEF Layout
    <3>2. CASE t = w
      <4>1. vec'[u] = vec[From(u)] /\ From(u) \in Vectors \ {v}
        BY <1>4, <2>2, <3>2
      <4> QED BY <1>3, <1>7, <2>2, <3>2, <4>1
    <3>3. CASE u = w
      <4>1. vec'[t] = vec[From(t)] /\ From(t) \in Vectors \ {v}
        BY <1>4, <2>2, <3>3
      <4> QED BY <1>3, <1>7, <2>2, <3>3, <4>1
    <3> QED BY <3>1, <3>2, <3>3
  <2>3. ASSUME NEW b \in Blocks, \A u \in Vectors : vec'[u].begin # b PROVE Free(heap', b)
    <3>1. ASSUME NEW a \in Vectors \ {v} PROVE vec[a].begin # b
      <4>1. PICK u \in Vectors \ {w} : a = From(u)
        BY <1>6
      <4>2. vec'[u] = vec[a]
        BY <1>4, <4>1
      <4> QED BY <2>3, <4>2
    <3>2. b # s.vec.begin /\ b \notin O
      BY <1>3, <2>3, <3>1 DEF OthersOf
    <3> QED BY <1>2, <3>2 DEF Alone
  <2>4. \A b \in Blocks : (\A u \in Vectors : vec'[u].begin # b) => Free(heap, b)'
    BY <2>3 DEF Free
  <2> QED BY <2>1, <2>2, <2>4 DEF Layout
<1>12. ElementsKept'
  <2> SUFFICES ASSUME NEW u \in Vectors PROVE (Content(At(u)) = elements[u])'
    BY DEF ElementsKept
  <2>1. Content(At(u))' = AsSeq(Contents(At(u))', vec'[u].size)
    BY DEF Content, At
  <2>2. CASE u = w
    BY <1>3, <1>9, <2>1, <2>2
  <2>3. CASE u # w
    <3>1. From(u) \in Vectors
      BY <1>4, <2>3
    <3>2. Content(At(From(u))) = AsSeq(Contents(At(From(u))), vec[From(u)].size)
          /\ Content(At(From(u))) = elements[From(u)]
      BY <3>1 DEF Content, At, IInv, ElementsKept
    <3> QED BY <1>4, <1>8, <2>1, <2>3, <3>2
  <2> QED BY <2>2, <2>3
<1> QED BY <1>10, <1>11, <1>12 DEF IInv

LEMMA SwapKeeps ==
  ASSUME IInv, NEW v \in Vectors, NEW w \in Vectors \ {v}, Swap(v, w)
  PROVE  IInv'
<1>1. departed = Null /\ departed' = Null
  BY DEF Swap, Calm
<1>2. /\ heap' = heap /\ moves' = moves
      /\ vec' = [vec EXCEPT ![v] = vec[w], ![w] = vec[v]]
      /\ elements' = [elements EXCEPT ![v] = elements[w], ![w] = elements[v]]
  BY DEF Swap
<1>3. /\ Keeps(OthersOf(v), heap, At(v), Contents(At(v))) /\ At(v).heap = heap /\ At(v).vec = vec[v]
      /\ vec[v].size <= MaxLength /\ elements[v] \in Seq(Objects)
      /\ elements[v] = AsSeq(Contents(At(v)), vec[v].size)
  BY <1>1, Before
<1> QED BY <1>1, <1>2, <1>3, ExchangedKeeps

LEMMA MoveAssignKeeps ==
  ASSUME IInv, NEW v \in Vectors, NEW w \in Vectors \ {v}, MoveAssign(v, w)
  PROVE  IInv'
<1> DEFINE s == Reset(At(v))
<1>1. departed = Null /\ departed' = Null
  BY DEF MoveAssign, Calm
<1>2. Keeps(OthersOf(v), heap, At(v), Contents(At(v)))
  BY <1>1, Before
<1>3. Keeps(OthersOf(v), heap, s, Nothing) /\ s.vec = Empty /\ s.vec.size = 0
  BY <1>2, NothingIs, ResetKeeps
<1>4. /\ heap' = s.heap /\ moves' = moves
      /\ vec' = [vec EXCEPT ![v] = vec[w], ![w] = s.vec]
      /\ elements' = [elements EXCEPT ![v] = elements[w], ![w] = <<>>]
  BY <1>3 DEF MoveAssign
<1> HIDE DEF s
<1>5. <<>> \in Seq(Objects) /\ <<>> = AsSeq(Nothing, s.vec.size)
  <2>1. AsSeq(Nothing, 0) = <<>>
    <3>1. AsSeq(Nothing, 0) = [k \in 1..0 |-> Nothing[k - 1]]
      BY DEF AsSeq
    <3> QED BY <3>1
  <2> QED BY <1>3, <2>1
<1>6. s.vec.size <= MaxLength
  BY <1>3, SimpleVectorAssumption
<1> QED BY <1>1, <1>3, <1>4, <1>5, <1>6, ExchangedKeeps


-----------------------------------------------------------------------------
(* Theorems.                                                               *)

LEMMA RangesAre == Ranges \subseteq Seq(Objects)
<1> SUFFICES ASSUME NEW n \in Nat, NEW q \in [1..n -> Values] PROVE q \in Seq(Objects)
  BY SimpleVectorAssumption DEF Ranges
<1>1. q \in [1..n -> Objects]
  BY DEF Objects
<1> QED BY <1>1

LEMMA StutterKeeps ==
  ASSUME IInv, UNCHANGED vars
  PROVE  IInv'
<1>1. vec' = vec /\ heap' = heap /\ moves' = moves /\ elements' = elements /\ departed' = departed
  BY DEF vars
<1>2. TypeOK' /\ Layout' /\ ElementsKept'
  BY <1>1 DEF IInv, TypeOK, Layout, ElementsKept, Free, Contents, Content, At, Object
<1> QED BY <1>2 DEF IInv

LEMMA NextKeeps ==
  ASSUME IInv, Next
  PROVE  IInv'
<1>1. Values \subseteq Objects
  BY DEF Objects
<1>2. 0..(MaxLength - 1) \subseteq Nat /\ 1..MaxLength \subseteq Nat /\ 0..MaxLength \subseteq Nat
  BY SimpleVectorAssumption
<1>3. PICK v \in Vectors :
        \/ PopBack(v) \/ ShrinkToFit(v) \/ ResetAll(v) \/ Clear(v)
        \/ \E x \in Values : EmplaceBack(v, x)
        \/ \E pos \in 0..(MaxLength - 1) :
             \/ PushBackOwn(v, pos) \/ EraseNothing(v, pos) \/ UnorderedErase(v, pos)
             \/ \E x \in Values : Emplace(v, pos, x)
             \/ \E n \in 1..MaxLength : Erase(v, pos, n)
        \/ \E q \in Ranges : Assign(v, q) \/ AssignInput(v, q)
        \/ \E n \in 0..MaxLength : \/ Reserve(v, n)
                                   \/ \E x \in Objects : ResizeCommon(v, n, x)
        \/ \E w \in Vectors \ {v} : Swap(v, w) \/ MoveAssign(v, w) \/ Assign(v, Content(At(w)))
  BY DEF Next
<1>4. CASE PopBack(v) \/ ShrinkToFit(v) \/ ResetAll(v) \/ Clear(v)
  BY <1>4, PopBackKeeps, ShrinkToFitKeeps, ResetAllKeeps, ClearKeeps
<1>5. CASE \E x \in Values : EmplaceBack(v, x)
  BY <1>1, <1>5, EmplaceBackKeeps
<1>6. CASE \E pos \in 0..(MaxLength - 1) :
             \/ PushBackOwn(v, pos) \/ EraseNothing(v, pos) \/ UnorderedErase(v, pos)
             \/ \E x \in Values : Emplace(v, pos, x)
             \/ \E n \in 1..MaxLength : Erase(v, pos, n)
  BY <1>1, <1>2, <1>6, PushBackOwnKeeps, EraseNothingKeeps, UnorderedEraseKeeps, EmplaceKeeps,
     EraseKeeps
<1>7. CASE \E q \in Ranges : Assign(v, q) \/ AssignInput(v, q)
  BY <1>7, RangesAre, AssignKeeps, AssignInputKeeps
<1>8. CASE \E n \in 0..MaxLength : \/ Reserve(v, n)
                                   \/ \E x \in Objects : ResizeCommon(v, n, x)
  BY <1>2, <1>8, ReserveKeeps, ResizeCommonKeeps
<1>9. CASE \E w \in Vectors \ {v} : Swap(v, w) \/ MoveAssign(v, w) \/ Assign(v, Content(At(w)))
  <2>1. PICK w \in Vectors \ {v} : Swap(v, w) \/ MoveAssign(v, w) \/ Assign(v, Content(At(w)))
    BY <1>9
  <2>2. CASE Swap(v, w) \/ MoveAssign(v, w)
    BY <2>2, SwapKeeps, MoveAssignKeeps
  <2>3. CASE Assign(v, Content(At(w)))
    <3>1. departed = Null
      BY <2>3 DEF Assign
    <3>2. elements[w] \in Seq(Objects) /\ elements[w] = AsSeq(Contents(At(w)), vec[w].size)
          /\ At(w).vec = vec[w]
      BY <3>1, Before
    <3>3. Content(At(w)) \in Seq(Objects)
      BY <3>2 DEF Content
    <3> QED BY <2>3, <3>3, AssignKeeps
  <2> QED BY <2>1, <2>2, <2>3
<1> QED BY <1>3, <1>4, <1>5, <1>6, <1>7, <1>8, <1>9

\* Each vector has the block it says, which nobody else has, with its elements in it and
\* nothing behind them, and all other blocks are free, after every operation of
\* simple_vector.hpp, whatever throws in it.
THEOREM Invariant == Spec => []IInv
<1>1. IInv /\ [Next]_vars => IInv'
  BY NextKeeps, StutterKeeps
<1> QED BY InitEstablishes, <1>1, PTL DEF Spec

\* AllocTraits::Construct(), Destroy() and Deallocate() are never called out of turn, and no
\* object and no block is lost: resize_capacity(), emplace(), assign() and resize_common()
\* clean up when an element throws.
THEOREM MemoryAlwaysClean == Spec => []MemoryClean
<1>1. IInv => MemoryClean
  BY MemoryIsClean
<1> QED BY Invariant, <1>1, PTL

\* The operations do to the elements what std::vector's do, reallocation and the operations
\* that throw included, but for those that depart from it openly: see departed.
THEOREM ElementsAlwaysKept == Spec => []ElementsKept
<1>1. IInv => ElementsKept
  BY DEF IInv
<1> QED BY Invariant, <1>1, PTL
=============================================================================
