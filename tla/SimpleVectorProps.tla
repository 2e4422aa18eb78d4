--------------------------- MODULE SimpleVectorProps ---------------------------
(* What SimpleVector promises, whatever throws. *)
EXTENDS SimpleVector

Departures == {Null, "own element", "empty range", "input range"}

TypeOK ==
  /\ vec \in [Vectors -> [begin : Blocks \cup {Null}, size : 0..MaxLength, capacity : Nat]]
  /\ heap \in [Blocks -> [room : Nat, cells : [Cells -> Objects \cup {Raw, Broken}]]]
  /\ \A v \in Vectors : /\ vec[v].size <= vec[v].capacity /\ vec[v].capacity % Align = 0
                        /\ vec[v].begin = Null => vec[v].capacity = 0
  /\ moves \in BOOLEAN
  /\ elements \in [Vectors -> Seq(Objects)]
  /\ departed \in Departures

\* No object is constructed over another or outside the memory allocated, none is
\* assigned to or destroyed that is not there, none is left when its memory is given
\* back; each block in use belongs to one vector, and the objects in it are exactly
\* the elements of this vector.  So after an exception too.
MemoryClean ==
  /\ TypeOK
  /\ \A v \in Vectors :
       vec[v].begin # Null => LET b == heap[vec[v].begin] IN
         /\ b.room = vec[v].capacity
         /\ \A k \in Cells : IF k < vec[v].size THEN b.cells[k] \in Objects ELSE b.cells[k] = Raw
  /\ \A b \in Blocks :
       LET owners == {v \in Vectors : vec[v].begin = b}
       IN  /\ Cardinality(owners) = IF heap[b].room > 0 THEN 1 ELSE 0
           /\ owners = {} => \A k \in Cells : heap[b].cells[k] = Raw

\* A vector has the elements that a std::vector would have after the same operations:
\* moving to another block, and exceptions from the operations that have the strong
\* guarantee, change none, unless an operation has just departed from std::vector.
ElementsKept ==
  departed = Null => \A v \in Vectors : Content(At(v)) = elements[v]
=============================================================================
