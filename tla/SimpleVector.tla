----------------------------- MODULE SimpleVector -----------------------------
(***************************************************************************)
(* container/simple_vector.hpp: SimpleVector, with the memory under it.      *)
(*                                                                         *)
(* A block of memory has cells, each Raw or with an object in it.  Objects   *)
(* are constructed in raw cells of the room that was allocated, assigned to  *)
(* and destroyed where there is one, and memory is given back when there is   *)
(* none left in it; a cell that is treated otherwise is Broken for ever.     *)
(*                                                                         *)
(* An operation is one step; constructors and assignments of the elements    *)
(* may throw at every point in it.  `elements' is what a std::vector would    *)
(* hold.  Where the operation that throws promises nothing about it, it is    *)
(* what there is.  A throw that leaves everything as it was is no step.      *)
(***************************************************************************)
EXTENDS Naturals, Sequences, SequencesExt

CONSTANTS Vectors, Blocks, Values,
          Raw, Broken,
          Moved,      \* an object that was moved from, or was not initialised
          Null,
          Align,      \* ALIGN
          MaxSize,    \* max_size()
          MaxLength   \* bound: elements in all vectors, less than MaxSize

Objects == Values \cup {Moved}

ASSUME SimpleVectorAssumption ==
  /\ Align \in Nat \ {0} /\ MaxSize \in Nat /\ MaxLength \in Nat
  /\ MaxLength < MaxSize \* or growth would find no room, see get_grow_size()
  /\ IsFiniteSet(Vectors) /\ IsFiniteSet(Blocks)
  /\ Cardinality(Vectors) < Cardinality(Blocks) \* there is memory for a new block
  /\ Null \notin Blocks /\ Raw # Broken /\ Objects \cap {Raw, Broken} = {}

\* What may be in departed.
ASSUME NullAssumption == Null \notin {"own element", "empty range", "input range"}

VARIABLES vec,       \* [begin, size, capacity] of each vector
          heap,      \* [room, cells] of each block
          moves,     \* whether T has a move constructor, which does not throw
          elements,  \* history: what a std::vector would hold
          departed   \* history: how the last operation differed from std::vector, or Null

vars == <<vec, heap, moves, elements, departed>>

\* get_grow_size() and the rounding in resize_capacity() give no more than this.
Rounded(n) == ((n + Align - 1) \div Align) * Align
Cells == 0..(Rounded(MaxSize) + Align)
Larger(a, b) == IF a > b THEN a ELSE b
Smaller(a, b) == IF a < b THEN a ELSE b

Empty == [begin |-> Null, size |-> 0, capacity |-> 0]

Init == /\ vec = [v \in Vectors |-> Empty]
        /\ heap = [b \in Blocks |-> [room |-> 0, cells |-> [k \in Cells |-> Raw]]]
        /\ moves \in BOOLEAN
        /\ elements = [v \in Vectors |-> <<>>]
        /\ departed = Null
-----------------------------------------------------------------------------
(* AllocTraits.  A function f from cells to objects says what goes where.   *)

Allocated(h, b, n) == [h EXCEPT ![b].room = n]
Deallocated(h, b) ==
  [h EXCEPT ![b] = [room |-> 0, cells |-> [k \in Cells |-> IF h[b].cells[k] = Raw THEN Raw
                                                          ELSE Broken]]]
Constructed(h, b, f) ==
  IF DOMAIN f = {} THEN h
  ELSE [h EXCEPT ![b].cells = [k \in Cells |-> IF k \notin DOMAIN f THEN h[b].cells[k]
                                          ELSE IF k < h[b].room /\ h[b].cells[k] = Raw THEN f[k]
                                          ELSE Broken]]
Assigned(h, b, f) ==
  IF DOMAIN f = {} THEN h
  ELSE [h EXCEPT ![b].cells = [k \in Cells |-> IF k \notin DOMAIN f THEN h[b].cells[k]
                                          ELSE IF h[b].cells[k] \in Objects THEN f[k]
                                          ELSE Broken]]
Destroyed(h, b, K) ==
  IF K = {} THEN h
  ELSE [h EXCEPT ![b].cells = [k \in Cells |-> IF k \notin K THEN h[b].cells[k]
                                          ELSE IF h[b].cells[k] \in Objects THEN Raw
                                          ELSE Broken]]

\* A vector with the heap it is in; its objects, and the same as a sequence.
At(v) == [heap |-> heap, vec |-> vec[v]]
Object(s, k) == s.heap[s.vec.begin].cells[k]
Contents(s) == [k \in 0..(s.vec.size - 1) |-> Object(s, k)]
AsSeq(f, n) == [k \in 1..n |-> f[k - 1]]
Content(s) == AsSeq(Contents(s), s.vec.size)
FromSeq(q) == [k \in 0..(Len(q) - 1) |-> q[k + 1]]
First(f, n) == [k \in (DOMAIN f) \cap 0..(n - 1) |-> f[k]]
Later(f, n) == [k \in (DOMAIN f) \ 0..(n - 1) |-> f[k]]

\* The last step of an operation on v: what there is now, and what there should be.
Done(v, s, q) == /\ heap' = s.heap
                 /\ vec' = [vec EXCEPT ![v] = s.vec]
                 /\ elements' = [elements EXCEPT ![v] = q]
                 /\ UNCHANGED moves

\* The same for an operation that threw, and promises no particular content.
DoneBasic(v, s) == Done(v, s, Content(s)) /\ departed' = Null
-----------------------------------------------------------------------------
(* Private members.                                                        *)

GetGrowSize(s) == IF s.vec.size >= MaxSize \div 3 THEN MaxSize
                  ELSE Larger(4, (s.vec.size * 3) \div 2)

\* reset().
Reset(s) ==
  IF s.vec.begin = Null THEN s
  ELSE [heap |-> Deallocated(Destroyed(s.heap, s.vec.begin, 0..(s.vec.size - 1)), s.vec.begin),
        vec |-> Empty]

ClearToEnd(s, n) ==
  [heap |-> Destroyed(s.heap, s.vec.begin, n..(s.vec.size - 1)),
   vec |-> [s.vec EXCEPT !.size = Smaller(n, @)]]

FreeBlock(h) == CHOOSE b \in Blocks : h[b].room = 0

\* resize_capacity(): the objects of f are constructed in a new block.
NewBlock(s, n, f) == Constructed(Allocated(s.heap, FreeBlock(s.heap), Rounded(n)),
                                 FreeBlock(s.heap), f)
Relocated(s, n, f, size) ==
  [heap |-> Reset([s EXCEPT !.heap = NewBlock(s, n, f)]).heap,
   vec |-> [begin |-> FreeBlock(s.heap), size |-> size, capacity |-> Rounded(n)]]

\* A mutant of RelocationFailed: what was constructed is not destroyed.
RelocationFailedLeaky(s, n, f, j) ==
  [s EXCEPT !.heap = Deallocated(NewBlock(s, n, First(f, j)), FreeBlock(s.heap))]

\* The same if the construction of f[j] throws.  What was moved into the new block
\* is destroyed in it.
RelocationFailed(s, n, f, j) ==
  LET h == Deallocated(Destroyed(NewBlock(s, n, First(f, j)), FreeBlock(s.heap), 0..(j - 1)),
                       FreeBlock(s.heap))
  IN  [s EXCEPT !.heap = IF ~moves THEN h
                         ELSE Assigned(h, s.vec.begin, [k \in 0..(j - 1) |-> Moved])]

Resized(s, n) == IF Rounded(n) = s.vec.capacity THEN s
                 ELSE Relocated(s, n, Contents(s), s.vec.size)

Fits(s, n) == n <= s.vec.capacity

\* A throw while copies are made: resize_capacity() of all elements.  (A move does
\* not throw.)
GrowthThrows(v, n) ==
  /\ ~moves /\ Rounded(n) # vec[v].capacity
  /\ \E j \in 0..(vec[v].size - 1) :
       Done(v, RelocationFailed(At(v), n, Contents(At(v)), j), elements[v])
  /\ departed' = Null

WithRoom(s) == IF s.vec.size = s.vec.capacity THEN Resized(s, GetGrowSize(s)) ELSE s
Pushed(s, x) ==
  LET r == WithRoom(s)
  IN  [heap |-> Constructed(r.heap, r.vec.begin, [k \in {r.vec.size} |-> x]),
       vec |-> [r.vec EXCEPT !.size = @ + 1]]

\* Whether n more elements may come, and what an earlier operation left is understood.
Total == Cardinality(UNION {{v} \X (1..vec[v].size) : v \in Vectors})
Calm(n) == departed = Null /\ Total + n <= MaxLength
-----------------------------------------------------------------------------
(* Elements at the end.                                                    *)

\* push_back(x), emplace_back(x); the construction at the end may throw when room
\* has been made already.
EmplaceBack(v, x) ==
  /\ Calm(1)
  /\ \/ Done(v, Pushed(At(v), x), Append(elements[v], x))
     \/ Done(v, WithRoom(At(v)), elements[v])
  /\ departed' = Null

\* push_back(v[i]): the argument is read when the old block may be gone.
PushBackOwn(v, i) ==
  /\ Calm(1) /\ i < vec[v].size
  /\ IF vec[v].size < vec[v].capacity
     THEN /\ Done(v, Pushed(At(v), Object(At(v), i)), Append(elements[v], elements[v][i + 1]))
          /\ departed' = Null
     ELSE /\ \E x \in Objects :
               Done(v, Pushed(At(v), x), Append(elements[v], elements[v][i + 1]))
          /\ departed' = "own element"

PopBack(v) == /\ Calm(0) /\ vec[v].size > 0
              /\ Done(v, ClearToEnd(At(v), vec[v].size - 1), Front(elements[v]))
              /\ departed' = Null
-----------------------------------------------------------------------------
(* Elements in the middle.                                                 *)

\* The element at pos and those after it are one further on; x is at pos.
Opened(f, pos, x) ==
  [k \in 0..(Cardinality(DOMAIN f)) |-> IF k < pos THEN f[k] ELSE IF k = pos THEN x ELSE f[k - 1]]

\* emplace() in a block with room: emplace_back() of the last element, then
\* move_backward() of others, down to the one that goes to cell low.
Shifted(s, low) ==
  LET n == s.vec.size
      f == Contents(s)
      left == IF moves THEN Moved ELSE f[low - 1]
      h == Constructed(s.heap, s.vec.begin, [k \in {n} |-> f[n - 1]])
  IN  [heap |-> Assigned(h, s.vec.begin,
                  [k \in (low - 1)..(n - 1) |-> IF k >= low THEN f[k - 1] ELSE left]),
       vec |-> [s.vec EXCEPT !.size = n + 1]]

\* A mutant of Placed: x is assigned before the others have moved.
PlacedFirst(s, pos, x) ==
  Shifted([s EXCEPT !.heap = Assigned(@, s.vec.begin, [k \in {pos} |-> x])], pos + 1)

Placed(s, pos, x) ==
  LET r == Shifted(s, pos + 1)
  IN  [r EXCEPT !.heap = Assigned(@, r.vec.begin, [k \in {pos} |-> x])]

\* insert(pos, x), emplace(pos, x), not at the end.
Emplace(v, pos, x) ==
  LET s == At(v)
      f == Opened(Contents(s), pos, x)
      grow == GetGrowSize(s)
  IN  /\ Calm(1) /\ pos < s.vec.size
      /\ \/ /\ s.vec.size = s.vec.capacity
            /\ \/ Done(v, Relocated(s, grow, f, s.vec.size + 1), InsertAt(elements[v], pos + 1, x))
                  /\ departed' = Null
               \/ \E j \in IF moves THEN {pos} ELSE 0..s.vec.size :
                    DoneBasic(v, RelocationFailed(s, grow, f, j))
         \/ /\ s.vec.size < s.vec.capacity
            /\ \/ Done(v, Placed(s, pos, x), InsertAt(elements[v], pos + 1, x)) /\ departed' = Null
               \/ \E low \in IF moves THEN {pos + 1} ELSE (pos + 1)..s.vec.size :
                    DoneBasic(v, Shifted(s, low))

\* std::move(from + n, end, from), up to but not including the object for cell to, and
\* then, if it gets that far, what is left over at the end is destroyed.
MovedDown(s, from, n, to) ==
  LET f == Contents(s)
      rest == s.vec.size - n
  IN  [s EXCEPT !.heap = Assigned(@, s.vec.begin,
         [k \in from..(s.vec.size - 1) |->
            IF k < Smaller(to, rest) THEN f[k + n]
            ELSE IF moves /\ k >= from + n THEN Moved ELSE f[k]])]

Erased(s, from, n) == ClearToEnd(MovedDown(s, from, n, s.vec.size), s.vec.size - n)

\* erase(pos), and erase(first, last) of n elements.
Erase(v, pos, n) ==
  LET s == At(v)
  IN  /\ Calm(0) /\ n > 0 /\ pos + n <= s.vec.size
      /\ \/ /\ Done(v, Erased(s, pos, n),
                    SubSeq(elements[v], 1, pos) \o SubSeq(elements[v], pos + n + 1, s.vec.size))
            /\ departed' = Null
         \/ ~moves /\ \E to \in (pos + 1)..(s.vec.size - n - 1) :
              DoneBasic(v, MovedDown(s, pos, n, to))

\* erase(pos, pos): all that follow are assigned to themselves, which may leave them
\* as moved from.
EraseNothing(v, pos) ==
  LET s == At(v)
  IN  /\ Calm(0) /\ pos < s.vec.size
      /\ \/ moves /\ Done(v, [s EXCEPT !.heap =
                  Assigned(@, s.vec.begin, [k \in pos..(s.vec.size - 1) |-> Moved])], elements[v])
            /\ departed' = "empty range"
         \/ Done(v, s, elements[v]) /\ departed' = Null

\* The last element takes the place of the one erased.
UnorderedErase(v, pos) ==
  LET s == At(v)
      n == s.vec.size
      h == IF pos = n - 1 THEN s.heap
           ELSE Assigned(s.heap, s.vec.begin, [k \in {pos} |-> Object(s, n - 1)])
  IN  /\ Calm(0) /\ pos < n
      /\ Done(v, ClearToEnd([s EXCEPT !.heap = h], n - 1),
              Front([elements[v] EXCEPT ![pos + 1] = elements[v][n]]))
      /\ departed' = Null
-----------------------------------------------------------------------------
(* Assignment.                                                             *)

\* The first t objects of q are assigned or constructed, and, if these are all, the
\* rest is destroyed.
Overwritten(s, q, t) ==
  LET f == First(FromSeq(q), t)
      h == Assigned(s.heap, s.vec.begin, First(f, s.vec.size))
      r == [heap |-> Constructed(h, s.vec.begin, Later(f, s.vec.size)),
            vec |-> [s.vec EXCEPT !.size = Larger(t, @)]]
  IN  IF t = Len(q) THEN ClearToEnd(r, t) ELSE r

\* assign(n, value), assign() of forward iterators or a list, copy constructor and
\* assignment.  Without enough capacity the old elements are gone before the new block
\* is there.
Assign(v, q) ==
  LET s == At(v)
      fits == Fits(s, Len(q))
      r == IF fits THEN s ELSE Resized(Reset(s), Len(q))
  IN  /\ departed = Null /\ Total - s.vec.size + Len(q) <= MaxLength
      /\ \/ Done(v, Overwritten(r, q, Len(q)), q) /\ departed' = Null
         \/ \E t \in 0..(Len(q) - 1) : DoneBasic(v, Overwritten(r, q, t))
         \/ ~fits /\ DoneBasic(v, Reset(s))

\* assign() of input iterators: as long as there are elements, they get the value of
\* the first one.
AssignInput(v, q) ==
  LET s == At(v)
      over == Smaller(Len(q), s.vec.size)
      upto[t \in 0..Len(q)] ==
        IF t > over THEN Pushed(upto[t - 1], q[t])
        ELSE [s EXCEPT !.heap = Assigned(@, s.vec.begin, [k \in 0..(t - 1) |-> Object(s, 0)])]
  IN  /\ departed = Null /\ Total - s.vec.size + Len(q) <= MaxLength
      /\ \/ /\ Done(v, ClearToEnd(upto[Len(q)], Len(q)), q)
            /\ departed' = IF over = 0 THEN Null ELSE "input range"
         \/ \E t \in 0..(Len(q) - 1) : DoneBasic(v, upto[t])
-----------------------------------------------------------------------------
(* Capacity, and two vectors.                                              *)

Reserve(v, n) == /\ Calm(0) /\ n <= MaxSize /\ ~Fits(At(v), n)
                 /\ \/ Done(v, Resized(At(v), n), elements[v]) /\ departed' = Null
                    \/ GrowthThrows(v, n)

ShrinkToFit(v) ==
  /\ Calm(0)
  /\ \/ /\ Done(v, IF vec[v].size = 0 THEN Reset(At(v)) ELSE Resized(At(v), vec[v].size),
                elements[v])
        /\ departed' = Null
     \/ vec[v].size > 0 /\ GrowthThrows(v, vec[v].size)

\* The destructor, and reset(); clear().
ResetAll(v) == Calm(0) /\ Done(v, Reset(At(v)), <<>>) /\ departed' = Null
Clear(v) == Calm(0) /\ Done(v, ClearToEnd(At(v), 0), <<>>) /\ departed' = Null

\* resize_common(): resize(n, x), and, with Moved, uninitialized_resize(n).  It throws
\* for n > MaxSize, and if a construction does.
ResizeCommon(v, n, x) ==
  LET s == At(v)
      grow == IF n > MaxSize \div 3 THEN MaxSize ELSE Larger(n, (s.vec.size * 3) \div 2)
      r == IF Fits(s, n) THEN s ELSE Resized(s, grow)
      new(t) == [k \in s.vec.size..(t - 1) |-> x]
  IN  /\ departed = Null /\ Total - s.vec.size + n <= MaxLength
      /\ \/ /\ n > s.vec.size
            /\ Done(v, [heap |-> Constructed(r.heap, r.vec.begin, new(n)),
                        vec |-> [r.vec EXCEPT !.size = n]],
                    elements[v] \o [k \in 1..(n - s.vec.size) |-> x])
         \/ n <= s.vec.size /\ Done(v, ClearToEnd(r, n), SubSeq(elements[v], 1, n))
         \/ x # Moved /\ \E t \in s.vec.size..(n - 1) :
              Done(v, [r EXCEPT !.heap = Destroyed(Constructed(@, r.vec.begin, new(t)),
                                                   r.vec.begin, s.vec.size..(t - 1))], elements[v])
      /\ departed' = Null

\* swap(), and the move constructor, which is a swap with an empty vector.
Swap(v, w) ==
  /\ Calm(0)
  /\ vec' = [vec EXCEPT ![v] = vec[w], ![w] = vec[v]]
  /\ elements' = [elements EXCEPT ![v] = elements[w], ![w] = elements[v]]
  /\ UNCHANGED <<heap, moves, departed>>

MoveAssign(v, w) ==
  /\ Calm(0)
  /\ heap' = Reset(At(v)).heap
  /\ vec' = [vec EXCEPT ![v] = vec[w], ![w] = Empty]
  /\ elements' = [elements EXCEPT ![v] = elements[w], ![w] = <<>>]
  /\ UNCHANGED <<moves, departed>>
-----------------------------------------------------------------------------
Ranges == UNION {[1..n -> Values] : n \in 0..MaxLength}

Next ==
  \E v \in Vectors :
    \/ PopBack(v) \/ ShrinkToFit(v) \/ ResetAll(v) \/ Clear(v)
    \/ \E x \in Values : EmplaceBack(v, x)
    \/ \E pos \in 0..(MaxLength - 1) :
         \/ PushBackOwn(v, pos) \/ EraseNothing(v, pos) \/ UnorderedErase(v, pos)
         \/ \E x \in Values : Emplace(v, pos, x)
         \/ \E n \in 1..MaxLength : Erase(v, pos, n)
    \/ \E q \in Ranges : Assign(v, q) \/ AssignInput(v, q)
    \/ \E n \in 0..MaxLength : \/ Reserve(v, n)
                               \/ \E x \in Objects : ResizeCommon(v, n, x)
    \/ \E w \in Vectors \ {v} : Swap(v, w) \/ MoveAssign(v, w) \/ Assign(v, Content(At(w)))

Spec == Init /\ [][Next]_vars
=============================================================================
