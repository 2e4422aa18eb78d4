---------------------------- MODULE ParentListProps ----------------------------
(* What ParentList keeps true, and the lists it implements. *)
EXTENDS ParentList

TypeOK == /\ next \in [Cells -> Cells \cup {Null}]
          /\ prev \in [Cells -> Cells \cup {Null}]
          /\ parent \in [Cells -> Lists \cup {Null}]
          /\ traits \in [Nodes -> Nat] /\ unhooked \in [Nodes -> Nat]
          /\ loop = Null \/ loop \in Loops

NodesOf(l) == {n \in Nodes : parent[n] = l}
Sorting(l) == Running("sort") /\ loop.list = l

\* Forwards and backwards, a list that is not being sorted is one ring through its
\* root, and the nodes on it are those whose parent it is (the checks of erase,
\* insert and splice, and container_from_iterator, go by the parent alone).
WellLinked ==
  \A l \in Lists :
    /\ parent[l] = l
    /\ ~Sorting(l) =>
         /\ \A c \in NodesOf(l) \cup {l} :
              /\ next[c] \in NodesOf(l) \cup {l} /\ prev[next[c]] = c
              /\ prev[c] \in NodesOf(l) \cup {l} /\ next[prev[c]] = c
         /\ Members(Content(l)) = NodesOf(l)

\* While a list is sorted every node of it is in one of three chains, in exactly
\* one place: what has been put back behind the root, what is left of the left
\* run, and the right run with all that follows it.
SortLosesNothing ==
  \A l \in Lists : Sorting(l) =>
    LET all == Content(l) \o LeftRun \o Path(next, loop.at.q, Null)
    IN  Len(all) = Cardinality(NodesOf(l)) /\ Members(all) = NodesOf(l)

\* Every list is whole, also in the middle of a loop whose predicate is running.
ListsWhole == TypeOK /\ WellLinked /\ SortLosesNothing

\* LifetimeTraits::add and remove are called once for every arrival and every
\* departure, whichever operation it is; only ParentListHook::unlink leaves an
\* add without its remove.
LifetimeBalanced ==
  \A n \in Nodes : traits[n] = unhooked[n] + IF parent[n] = Null THEN 0 ELSE 1

\* A predicate may throw, but a loop comes to its end, even if the answers make
\* no order: sort() stops after a logarithmic number of passes.
LoopsEnd == loop # Null ~> loop = Null
-----------------------------------------------------------------------------
Index(s, n) == CHOOSE i \in DOMAIN s : s[i] = n
InOrder(s) == \A i \in 1..(Len(s) - 1) : Key[s[i]] <= Key[s[i + 1]]

\* t is s in the order of the keys, equals in the order they had.
StablySorted(s, t) ==
  /\ Members(t) = Members(s) /\ Len(t) = Len(s)
  /\ \A i, j \in DOMAIN t : i < j =>
       \/ Key[t[i]] < Key[t[j]]
       \/ Key[t[i]] = Key[t[j]] /\ Index(s, t[i]) < Index(s, t[j])

\* sort() that returns has sorted, and is stable.
SortStable ==
  \A l \in Lists : SortReturn /\ loop.list = l /\ loop.lawful =>
    StablySorted(loop.before[l], Content(l)')

\* Merging: a stable merge of two sorted lists is left in the one, nothing in the other.
MergeStable ==
  \A l, x \in Lists : MergeReturn /\ loop.list = l /\ loop.other = x /\ loop.lawful =>
    LET s == loop.before[l]
        t == loop.before[x]
    IN  /\ Content(x)' = <<>>
        /\ InOrder(s) /\ InOrder(t) => StablySorted(s \o t, Content(l)')

\* Where the groups of equal neighbours of s begin.
Firsts(s) == {i \in DOMAIN s : i = 1 \/ Key[s[i - 1]] # Key[s[i]]}

\* t is the nodes that are there, in the order they have in s.
OnlyFirsts(s, t) ==
  /\ Members(t) = {s[i] : i \in Firsts(s)}
  /\ \A i, j \in DOMAIN t : i < j => Index(s, t[i]) < Index(s, t[j])

\* unique(): the first node of each group of equal neighbours is left.
FirstsKept ==
  \A l \in Lists :
    Running("unique") /\ FilterReturn /\ loop.list = l /\ loop.lawful =>
      OnlyFirsts(loop.before[l], Content(l)')

\* sort() sorts and is stable.  merge() and unique() take nodes out of the list that
\* they walk over: merge() of two sorted lists leaves one sorted list, equal nodes of
\* the list merged into first, and the other list empty; unique() keeps the first
\* node of each group of equal neighbours, in order.
OrderStable == [][SortStable /\ MergeStable /\ FirstsKept]_vars
-----------------------------------------------------------------------------
\* A list that is being sorted is still seen as it was; everything else is seen
\* as it is.
ContentSeen(l) == IF Sorting(l) THEN loop.before[l] ELSE Content(l)

AsSequences == INSTANCE ListsOfNodes WITH content <- [l \in Lists |-> ContentSeen(l)]

\* The pointers implement lists that are sequences: whatever is called, the lists
\* change as sequences do, no list changes that is not named, and a predicate that
\* throws or lies leaves every node in its list or in the one it was going to.
ImplementsSequences == AsSequences!Spec
=============================================================================
