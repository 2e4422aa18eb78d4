----------------------------- MODULE ListsOfNodes -----------------------------
(***************************************************************************)
(* What a set of lists promises, without pointers: every list is a         *)
(* sequence, a node is in one list at most and in it once, and every       *)
(* operation changes the sequences it names and no other.  ParentList      *)
(* implements this with rings of pointers.                                 *)
(***************************************************************************)
EXTENDS Naturals, Sequences, FiniteSets

CONSTANTS Lists, Nodes

VARIABLE content  \* content[l]: the nodes in list l, first to last

Members(s) == {s[i] : i \in DOMAIN s}
Listed == UNION {Members(content[l]) : l \in Lists}

\* All orders of a set of nodes, and of its parts that are not empty.
Orders(S) == {s \in [1..Cardinality(S) -> S] : Members(s) = S}
Arrangements(S) == UNION {Orders(T) : T \in (SUBSET S) \ {{}}}

Part(s, i, j) == SubSeq(s, i, j)
Spliced(s, i, t) == Part(s, 1, i) \o t \o Part(s, i + 1, Len(s))
Without(s, i, j) == Part(s, 1, i) \o Part(s, j + 1, Len(s))

Init == content = [l \in Lists |-> <<>>]

\* New nodes, which are in no list, go after the first i.
Insert(l, i, s) == content' = [content EXCEPT ![l] = Spliced(@, i, s)]

\* The nodes after the first i up to the j-th leave.
Erase(l, i, j) == content' = [content EXCEPT ![l] = Without(@, i, j)]

Assign(l, s) == content' = [content EXCEPT ![l] = s]

\* Nodes i + 1 to j of another list go after the first k.
Splice(l, k, x, i, j) ==
  content' = [content EXCEPT ![l] = Spliced(@, k, Part(content[x], i + 1, j)),
                             ![x] = Without(@, i, j)]

MoveAssign(l, x) == content' = [content EXCEPT ![l] = content[x], ![x] = <<>>]

Swap(l, x) == content' = [content EXCEPT ![l] = content[x], ![x] = content[l]]

\* Sorting, rotating, reversing and moving within a list keep its nodes.
Reorder(l) == /\ content'[l] \in Orders(Members(content[l]))
              /\ content' = [content EXCEPT ![l] = content'[l]]

Parts(l) == {p \in (0..Len(content[l])) \X (0..Len(content[l])) : p[1] < p[2]}

Next == \E l \in Lists :
          \/ \E s \in Arrangements(Nodes \ Listed) :
               Assign(l, s) \/ \E i \in 0..Len(content[l]) : Insert(l, i, s)
          \/ \E p \in Parts(l) : Erase(l, p[1], p[2])
          \/ Reorder(l)
          \/ \E x \in Lists \ {l} :
               \/ MoveAssign(l, x) \/ Swap(l, x)
               \/ \E p \in Parts(x), k \in 0..Len(content[l]) : Splice(l, k, x, p[1], p[2])

Spec == Init /\ [][Next]_content
=============================================================================
