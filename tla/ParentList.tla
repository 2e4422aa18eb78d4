------------------------------ MODULE ParentList ------------------------------
(***************************************************************************)
(* container/parent_list.hpp: intrusive doubly linked lists whose nodes    *)
(* know the list they are in.  A list is a ring of cells through its root; *)
(* a node's parent is that root, a root's parent is the root itself, and a *)
(* node whose parent is null is in no list.                                *)
(*                                                                         *)
(* Operations that call no predicate are one step.  sort(), merge(),       *)
(* remove_if() and unique() are a loop each, one step per turn, since a    *)
(* predicate may throw at every call and leave the loop where it is.       *)
(*                                                                         *)
(* The next and prev that a node keeps when it leaves its list are read by *)
(* nothing; the model sets them to Null, so that a read would be noticed.  *)
(***************************************************************************)
EXTENDS Naturals, Sequences, FiniteSets

CONSTANTS Lists, Nodes, Null,
          Key,         \* Key[n]: what operator< and == of the nodes compare
          Unhookable   \* bound: the nodes that may leave by ParentListHook::unlink,
                       \* once each

Cells == Lists \cup Nodes

\* The local variables of the loops, and of sort().
WalkCursors == [p: Cells \cup {Null}, q: Cells \cup {Null}]
SortCursors == [p: Nodes \cup {Null}, q: Nodes \cup {Null}, psize: Nat, qsize: Nat,
                k: Nat, merges: Nat]
Loops == [op: {"sort", "merge", "remove_if", "unique"}, list: Lists, other: Lists,
          lawful: BOOLEAN, at: WalkCursors \cup SortCursors, before: [Lists -> Seq(Nodes)]]

ASSUME ListAssumption ==
  /\ IsFiniteSet(Lists) /\ IsFiniteSet(Nodes) /\ Lists \cap Nodes = {}
  /\ Null \notin Cells \cup Loops
  /\ Key \in [Nodes -> Nat] /\ Unhookable \subseteq Nodes

VARIABLES next, prev,  \* the pointers of every root and every node
          parent,      \* its list, or Null
          traits,      \* calls of LifetimeTraits::add for a node less those of remove
          unhooked,    \* history: how often a node left by its own unlink()
          loop         \* Null, or the loop with a predicate that is running

vars == <<next, prev, parent, traits, unhooked, loop>>
books == <<traits, unhooked>>

Init == /\ next = [c \in Cells |-> IF c \in Lists THEN c ELSE Null]
        /\ prev = [c \in Cells |-> IF c \in Lists THEN c ELSE Null]
        /\ parent = [c \in Cells |-> IF c \in Lists THEN c ELSE Null]
        /\ traits = [n \in Nodes |-> 0]
        /\ unhooked = [n \in Nodes |-> 0]
        /\ loop = Null
-----------------------------------------------------------------------------
\* The cells from b on, and not including e, in order.  (A ring that does not
\* come to e is walked round until every cell must have been met.)
Path(f, b, e) ==
  LET Visit(s, c) == IF c \in {e, Null} THEN s ELSE Append(s, c)
      onward == [s \in Seq(Cells) |-> IF s = <<>> THEN s ELSE Visit(s, f[s[Len(s)]])]
      walk[i \in 0..Cardinality(Nodes)] ==
        IF i = 0 THEN Visit(<<>>, b) ELSE onward[walk[i - 1]]
  IN  walk[Cardinality(Nodes)]

Members(s) == {s[i] : i \in DOMAIN s}
Between(b, e) == Members(Path(next, b, e))

\* What iterating over list l yields.
Content(l) == Path(next, next[l], l)
-----------------------------------------------------------------------------
(* boost::intrusive::circular_list_algorithms, on a pair of pointer maps.  *)

Links == [next |-> next, prev |-> prev]
Become(k) == next' = k.next /\ prev' = k.prev

\* a.next = b, b.prev = a.
Join(k, a, b) == [next |-> [k.next EXCEPT ![a] = b], prev |-> [k.prev EXCEPT ![b] = a]]

\* The same for each neighbouring pair of a path.
Thread(k, s) ==
  LET At(c, S) == CHOOSE i \in S : s[i] = c
  IN  [next |-> [c \in Cells |-> LET S == {i \in 1..(Len(s) - 1) : s[i] = c}
                                 IN  IF S = {} THEN k.next[c] ELSE s[At(c, S) + 1]],
       prev |-> [c \in Cells |-> LET S == {i \in 2..Len(s) : s[i] = c}
                                 IN  IF S = {} THEN k.prev[c] ELSE s[At(c, S) - 1]]]

Forget(k, S) == [next |-> [c \in Cells |-> IF c \in S THEN Null ELSE k.next[c]],
                 prev |-> [c \in Cells |-> IF c \in S THEN Null ELSE k.prev[c]]]

LinkBefore(k, p, n) == Join(Join(k, k.prev[p], n), n, p)

\* Take [b, e) out, and put it before p.
Cut(k, b, e) == Join(k, k.prev[b], e)
Transfer(k, p, b, e) ==
  Join(Join(Join(k, k.prev[e], p), k.prev[b], e), k.prev[p], b)

\* Two nodes trade places in their rings; an empty ring stays with the place.
SwapNodes(k, a, b) ==
  LET Trade(c) == IF c = a THEN b ELSE IF c = b THEN a ELSE c
  IN  [next |-> [c \in Cells |-> Trade(k.next[Trade(c)])],
       prev |-> [c \in Cells |-> Trade(k.prev[Trade(c)])]]

Reversed(k, S) == [next |-> [c \in Cells |-> IF c \in S THEN k.prev[c] ELSE k.next[c]],
                   prev |-> [c \in Cells |-> IF c \in S THEN k.next[c] ELSE k.prev[c]]]
-----------------------------------------------------------------------------
\* NodeAdded and NodeRemoved for each node of a set: parent and LifetimeTraits.
Given(S, l) == [c \in Cells |-> IF c \in S THEN l ELSE parent[c]]
Counted(in, out) == [n \in Nodes |-> traits[n] + (IF n \in in THEN 1 ELSE 0)
                                               - (IF n \in out THEN 1 ELSE 0)]

\* CheckNodePtrEnd: the cell is in list l, or its root.
In(c, l) == c # Null /\ parent[c] = l
Unlinked(s) == /\ \A i \in DOMAIN s : parent[s[i]] = Null
               /\ \A i, j \in DOMAIN s : s[i] = s[j] => i = j

\* insert, of one node or of a range; push_back (p is the root) and push_front
\* (p is what follows it); the constructor from a range.
Insert(l, p, s) ==
  /\ loop = Null /\ In(p, l) /\ Unlinked(s)
  /\ Become(Thread(Links, <<prev[p]>> \o s \o <<p>>))
  /\ parent' = Given(Members(s), l)
  /\ traits' = Counted(Members(s), {})
  /\ UNCHANGED <<unhooked, loop>>

\* erase, of one node or of a range; pop_front and pop_back.
Erase(l, b, e) ==
  /\ loop = Null /\ In(b, l) /\ b # l /\ In(e, l) /\ l \notin Between(b, e)
  /\ Become(Forget(Cut(Links, b, e), Between(b, e)))
  /\ parent' = Given(Between(b, e), Null)
  /\ traits' = Counted({}, Between(b, e))
  /\ UNCHANGED <<unhooked, loop>>

\* ParentListHook::unlink, which knows no list and no LifetimeTraits.
Unhook(n) ==
  /\ loop = Null /\ parent[n] # Null
  /\ n \in Unhookable /\ unhooked[n] = 0
  /\ Become(Forget(Join(Links, prev[n], next[n]), {n}))
  /\ parent' = Given({n}, Null)
  /\ unhooked' = [unhooked EXCEPT ![n] = @ + 1]
  /\ UNCHANGED <<traits, loop>>

\* clear() and the destructor: init_header.
Clear(l) ==
  /\ loop = Null
  /\ Become(Forget(Join(Links, l, l), Between(next[l], l)))
  /\ parent' = Given(Between(next[l], l), Null)
  /\ traits' = Counted({}, Between(next[l], l))
  /\ UNCHANGED <<unhooked, loop>>

\* assign: the new nodes at the end, then everything up to the old last node
\* goes.  An empty range for an empty list is refused by the check of erase().
Assign(l, s) ==
  /\ loop = Null /\ Unlinked(s) /\ (s # <<>> \/ next[l] # l)
  /\ LET old == Between(next[l], l) IN
     /\ Become(Forget(Thread(Links, <<l>> \o s \o <<l>>), old))
     /\ parent' = [c \in Cells |-> IF c \in old THEN Null ELSE Given(Members(s), l)[c]]
     /\ traits' = Counted(Members(s), old)
  /\ UNCHANGED <<unhooked, loop>>

\* operator=(ParentList&&): clear(), then swap(); assigned to itself a list is
\* empty.  The move constructor does the same from Init() on.
MoveAssign(l, x) ==
  /\ loop = Null
  /\ LET old == Between(next[l], l)
         new == IF l = x THEN {} ELSE Between(next[x], x)
     IN  /\ Become(SwapNodes(Forget(Join(Links, l, l), old), l, x))
         /\ parent' = [c \in Cells |-> IF c \in old THEN Null ELSE Given(new, l)[c]]
         /\ traits' = Counted({}, old)
  /\ UNCHANGED <<unhooked, loop>>

Swap(l, x) ==
  /\ loop = Null
  /\ Become(SwapNodes(Links, l, x))
  /\ parent' = [c \in Cells |-> IF c \in Between(next[l], l) THEN x
                                ELSE Given(Between(next[x], x), l)[c]]
  /\ UNCHANGED <<books, loop>>

\* splice of one node, a range or a whole list.  Within one list p may be no
\* part of the range, nor its end.
Splice(l, p, x, b, e) ==
  /\ loop = Null /\ In(p, l) /\ In(b, x) /\ In(e, x)
  /\ b # e /\ x \notin Between(b, e) /\ p \notin Between(b, e) \cup {e}
  /\ Become(Transfer(Links, p, b, e))
  /\ parent' = Given(Between(b, e), l)
  /\ UNCHANGED <<books, loop>>

\* shift_forward(n) and shift_backwards(n): the root leaves its ring and comes
\* back n nodes further on.
ShiftForward(l, n) ==
  /\ loop = Null /\ next[l] # prev[l]
  /\ LET k == Cut(Links, l, next[l])
         first == Path(k.next, next[l], Null)[n + 1]
     IN  Become(LinkBefore(k, first, l))
  /\ UNCHANGED <<parent, books, loop>>

ShiftBackwards(l, n) ==
  /\ loop = Null /\ next[l] # prev[l]
  /\ LET k == Cut(Links, l, next[l])
         last == Path(k.prev, prev[l], Null)[n + 1]
     IN  Become(LinkBefore(k, k.next[last], l))
  /\ UNCHANGED <<parent, books, loop>>

Reverse(l) ==
  /\ loop = Null
  /\ Become(Reversed(Links, Between(next[l], l) \cup {l}))
  /\ UNCHANGED <<parent, books, loop>>
-----------------------------------------------------------------------------
(* The loops.  lawful tells whether the predicate is the operator of the   *)
(* keys or one that answers as it likes, as one from Lua may; before is a  *)
(* history variable; at holds the loop's own variables.                    *)

Begin(op, l, x, lawful, at) ==
  /\ loop = Null
  /\ loop' = [op |-> op, list |-> l, other |-> x, lawful |-> lawful, at |-> at,
              before |-> [m \in Lists |-> Content(m)]]

Running(op) == loop # Null /\ loop.op = op

\* What a comparison of a and b may answer.
Less(a, b, answer) == loop.lawful => answer = (Key[a] < Key[b])
Equal(a, b, answer) == loop.lawful => answer = (Key[a] = Key[b])

\* A mutant of Run: the left run takes one node too many.
RunLong(f, p, k, merges) ==
  LET rest == Path(f, p, Null)
      long == k < Len(rest)
  IN  [p |-> p, q |-> IF long THEN rest[k + 1] ELSE Null,
       psize |-> IF long THEN k + 1 ELSE Len(rest), qsize |-> k,
       k |-> k, merges |-> merges]

\* sort(): one pass over the list, cut into runs of k nodes that are merged in
\* pairs.  p is the rest of the left run, q the rest of the right one, which
\* goes on into what has not been looked at yet.
Run(f, p, k, merges) ==
  LET rest == Path(f, p, Null)
      long == k < Len(rest)
  IN  [p |-> p, q |-> IF long THEN rest[k + 1] ELSE Null,
       psize |-> IF long THEN k ELSE Len(rest), qsize |-> k,
       k |-> k, merges |-> merges]

\* What is left of the left run.
LeftRun == SubSeq(Path(next, loop.at.p, Null), 1, loop.at.psize)

\* The prologue of a pass: the ring is broken, the root starts an empty one.
Broken(l) == [next |-> [next EXCEPT ![prev[l]] = Null, ![l] = l],
              prev |-> [prev EXCEPT ![l] = l]]
FirstRun(l, k) == Run(Broken(l).next, next[l], k, 1)

\* An empty list comes back at once.
Sort(l, lawful) ==
  /\ next[l] # l
  /\ Begin("sort", l, l, lawful, FirstRun(l, 1))
  /\ Become(Broken(l))
  /\ UNCHANGED <<parent, books>>

RunsLeft(at) == at.psize > 0 \/ (at.qsize > 0 /\ at.q # Null)
Compares(at) == at.psize > 0 /\ at.qsize > 0 /\ at.q # Null

TakeQ(at) == [at EXCEPT !.q = next[at.q], !.qsize = @ - 1]
TakeP(at) == [at EXCEPT !.p = next[at.p], !.psize = @ - 1]

\* A mutant of SortTake: the comparison the other way round, not stable.
SortTakeUnstable ==
  /\ Running("sort") /\ RunsLeft(loop.at)
  /\ \E right \in BOOLEAN :
       /\ loop.at.psize = 0 => right
       /\ loop.at.psize > 0 /\ ~Compares(loop.at) => ~right
       /\ Compares(loop.at) => Less(loop.at.p, loop.at.q, ~right)
       /\ Become(LinkBefore(Links, loop.list, IF right THEN loop.at.q ELSE loop.at.p))
       /\ loop' = [loop EXCEPT !.at = IF right THEN TakeQ(@) ELSE TakeP(@)]
  /\ UNCHANGED <<parent, books>>

\* The next node goes to the end of the list: the right one if it is less.
SortTake ==
  /\ Running("sort") /\ RunsLeft(loop.at)
  /\ \E right \in BOOLEAN :
       /\ loop.at.psize = 0 => right
       /\ loop.at.psize > 0 /\ ~Compares(loop.at) => ~right
       /\ Compares(loop.at) => Less(loop.at.q, loop.at.p, right)
       /\ Become(LinkBefore(Links, loop.list, IF right THEN loop.at.q ELSE loop.at.p))
       /\ loop' = [loop EXCEPT !.at = IF right THEN TakeQ(@) ELSE TakeP(@)]
  /\ UNCHANGED <<parent, books>>

\* A mutant of SortThrow: the rest of the right run is cut off.
SortThrowLosing ==
  /\ Running("sort") /\ Compares(loop.at)
  /\ LET l == loop.list
     IN  Become(Thread(Links, <<prev[l]>> \o LeftRun \o <<l>>))
  /\ loop' = Null
  /\ UNCHANGED <<parent, books>>

\* The comparison throws: what is left of the two runs, and all that has not
\* been looked at, is put back on.
SortThrow ==
  /\ Running("sort") /\ Compares(loop.at)
  /\ LET l == loop.list
     IN  Become(Thread(Links, <<prev[l]>> \o LeftRun \o Path(next, loop.at.q, Null) \o <<l>>))
  /\ loop' = Null
  /\ UNCHANGED <<parent, books>>

\* p = q: the next two runs of this pass.
SortNextRuns ==
  /\ Running("sort") /\ ~RunsLeft(loop.at) /\ loop.at.q # Null
  /\ loop' = [loop EXCEPT !.at = Run(next, @.q, @.k, @.merges + 1)]
  /\ UNCHANGED <<next, prev, parent, books>>

\* A mutant of SortNextPass: it sorts on until there was nothing to merge.
SortNextPassAlways ==
  /\ Running("sort") /\ ~RunsLeft(loop.at) /\ loop.at.q = Null
  /\ loop.at.merges > 0
  /\ loop' = [loop EXCEPT !.at = FirstRun(loop.list, 2)]
  /\ Become(Broken(loop.list))
  /\ UNCHANGED <<parent, books>>

\* The pass is over, and more than one pair was merged in it.
SortNextPass ==
  /\ Running("sort") /\ ~RunsLeft(loop.at) /\ loop.at.q = Null
  /\ loop.at.merges > 1
  /\ loop' = [loop EXCEPT !.at = FirstRun(loop.list, 2 * @.k)]
  /\ Become(Broken(loop.list))
  /\ UNCHANGED <<parent, books>>

SortReturn ==
  /\ Running("sort") /\ ~RunsLeft(loop.at) /\ loop.at.q = Null
  /\ loop.at.merges <= 1
  /\ loop' = Null
  /\ UNCHANGED <<next, prev, parent, books>>
-----------------------------------------------------------------------------
\* merge(): q walks over the other list, p over this one.
Merge(l, x, lawful) ==
  /\ l # x
  /\ Begin("merge", l, x, lawful, [p |-> next[l], q |-> next[x]])
  /\ UNCHANGED <<next, prev, parent, books>>

\* At the end of this list, or before a greater node: splice(tit, o, oit++).
MergeTake ==
  /\ Running("merge") /\ loop.at.q # loop.other
  /\ loop.at.p # loop.list => Less(loop.at.q, loop.at.p, TRUE)
  /\ Become(Transfer(Links, loop.at.p, loop.at.q, next[loop.at.q]))
  /\ parent' = Given({loop.at.q}, loop.list)
  /\ loop' = [loop EXCEPT !.at.q = next[@]]
  /\ UNCHANGED books

MergeSkip ==
  /\ Running("merge") /\ loop.at.q # loop.other
  /\ loop.at.p # loop.list /\ Less(loop.at.q, loop.at.p, FALSE)
  /\ loop' = [loop EXCEPT !.at.p = next[@]]
  /\ UNCHANGED <<next, prev, parent, books>>

MergeReturn ==
  /\ Running("merge") /\ loop.at.q = loop.other
  /\ loop' = Null
  /\ UNCHANGED <<next, prev, parent, books>>

MergeThrow ==
  /\ Running("merge") /\ loop.at.q # loop.other /\ loop.at.p # loop.list
  /\ loop' = Null
  /\ UNCHANGED <<next, prev, parent, books>>
-----------------------------------------------------------------------------
\* remove_if() (any predicate) and unique(): one cursor, and the node behind it.
RemoveIf(l) ==
  /\ Begin("remove_if", l, l, FALSE, [p |-> l, q |-> next[l]])
  /\ UNCHANGED <<next, prev, parent, books>>

Unique(l, lawful) ==
  /\ Begin("unique", l, l, lawful, [p |-> next[l], q |-> next[next[l]]])
  /\ UNCHANGED <<next, prev, parent, books>>

Filtering == Running("remove_if") \/ Running("unique")

\* A mutant of FilterErase: LifetimeTraits::remove is not called.
FilterEraseSilently ==
  /\ Filtering /\ loop.at.q # loop.list
  /\ Running("unique") => Equal(loop.at.p, loop.at.q, TRUE)
  /\ Become(Forget(Cut(Links, loop.at.q, next[loop.at.q]), {loop.at.q}))
  /\ parent' = Given({loop.at.q}, Null)
  /\ loop' = [loop EXCEPT !.at.q = next[@]]
  /\ UNCHANGED <<traits, unhooked>>

\* it = erase(it), or next = erase(next).
FilterErase ==
  /\ Filtering /\ loop.at.q # loop.list
  /\ Running("unique") => Equal(loop.at.p, loop.at.q, TRUE)
  /\ Become(Forget(Cut(Links, loop.at.q, next[loop.at.q]), {loop.at.q}))
  /\ parent' = Given({loop.at.q}, Null)
  /\ traits' = Counted({}, {loop.at.q})
  /\ loop' = [loop EXCEPT !.at.q = next[@]]
  /\ UNCHANGED unhooked

FilterKeep ==
  /\ Filtering /\ loop.at.q # loop.list
  /\ Running("unique") => Equal(loop.at.p, loop.at.q, FALSE)
  /\ loop' = [loop EXCEPT !.at = [p |-> @.q, q |-> next[@.q]]]
  /\ UNCHANGED <<next, prev, parent, books>>

FilterReturn ==
  /\ Filtering /\ loop.at.q = loop.list
  /\ loop' = Null
  /\ UNCHANGED <<next, prev, parent, books>>

FilterThrow ==
  /\ Filtering /\ loop.at.q # loop.list
  /\ loop' = Null
  /\ UNCHANGED <<next, prev, parent, books>>
-----------------------------------------------------------------------------
Turn == \/ SortTake \/ SortThrow \/ SortNextRuns \/ SortNextPass \/ SortReturn
        \/ MergeTake \/ MergeSkip \/ MergeReturn \/ MergeThrow
        \/ FilterErase \/ FilterKeep \/ FilterReturn \/ FilterThrow

Arrangements(S) ==
  UNION {{s \in [1..n -> S] : Cardinality(Members(s)) = n} : n \in 1..Cardinality(S)}

Operation(l) ==
  \/ \E s \in Arrangements({n \in Nodes : parent[n] = Null}) :
       Assign(l, s) \/ \E p \in Cells : Insert(l, p, s)
  \/ Assign(l, <<>>)
  \/ \E b, e \in Cells : Erase(l, b, e)
  \/ Clear(l) \/ Reverse(l)
  \/ \E x \in Lists : MoveAssign(l, x) \/ Swap(l, x)
  \/ \E p, b, e \in Cells, x \in Lists : Splice(l, p, x, b, e)
  \/ \E n \in 1..Cardinality(Nodes) : ShiftForward(l, n) \/ ShiftBackwards(l, n)
  \/ \E lawful \in BOOLEAN :
       Sort(l, lawful) \/ Unique(l, lawful) \/ \E x \in Lists : Merge(l, x, lawful)
  \/ RemoveIf(l)

Next == (\E l \in Lists : Operation(l)) \/ (\E n \in Nodes : Unhook(n)) \/ Turn

Spec == Init /\ [][Next]_vars

\* A loop that runs goes on; predicates return or throw.
FairSpec == Spec /\ WF_vars(Turn)
=============================================================================
