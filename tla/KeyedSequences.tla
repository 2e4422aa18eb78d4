---------------------------- MODULE KeyedSequences ----------------------------
(***************************************************************************)
(* What an ordered map is to its user: a sequence of items with pairwise    *)
(* different keys, searched from one end to the other.  An item is in one   *)
(* sequence at most.  While the key of an item is stale, changed behind the *)
(* back of the map, nothing is looked up by key but to file this item anew. *)
(***************************************************************************)
EXTENDS Naturals, Sequences

CONSTANTS Maps, Items, Keys, Null

VARIABLES content,   \* the sequence of each map
          key,       \* the key of each item
          stale,     \* the items whose key has changed since they were filed
          returned   \* what the last operation returned, or Null

vars == <<content, key, stale, returned>>

Members(s) == {s[i] : i \in DOMAIN s}
Linked == UNION {Members(content[m]) : m \in Maps}

Init == /\ content = [m \in Maps |-> <<>>]
        /\ key \in [Items -> Keys]
        /\ stale = {}
        /\ returned = Null

\* r says where in s, counted from 0, an item with key k is.
PointsAt(r, m, s, k, done) ==
  \E i \in DOMAIN s : /\ key[s[i]] = k
                      /\ r = [map |-> m, key |-> k, at |-> i - 1, done |-> done]

Holds(s, k) == \E y \in Members(s) : key[y] = k
Before(s, p, x) == SubSeq(s, 1, p) \o <<x>> \o SubSeq(s, p + 1, Len(s))
Without(s, b, e) == SubSeq(s, 1, b) \o SubSeq(s, e + 1, Len(s))

\* The key is there already, and nothing changes; or it is not, and the item
\* comes to the place asked for, unless there is no memory.
Insert(m, p, x) ==
  /\ x \notin Linked /\ stale \cap Members(content[m]) = {}
  /\ \/ /\ Holds(content[m], key[x])
        /\ PointsAt(returned', m, content[m], key[x], FALSE)
        /\ UNCHANGED content
     \/ /\ ~Holds(content[m], key[x])
        /\ \/ /\ content' = [content EXCEPT ![m] = Before(@, p, x)]
              /\ PointsAt(returned', m, content'[m], key[x], TRUE)
           \/ UNCHANGED content /\ returned' = Null
  /\ UNCHANGED <<key, stale>>

Remove(m, b, e) ==
  /\ b <= e /\ e <= Len(content[m])
  /\ content' = [content EXCEPT ![m] = Without(@, b, e)]
  /\ stale' = stale \ {content[m][i] : i \in (b + 1)..e}
  /\ returned' = Null
  /\ UNCHANGED key

ChangeKey(x, k) ==
  /\ key' = [key EXCEPT ![x] = k]
  /\ stale' \in {stale \ {x}, stale \cup ({x} \cap Linked)}
  /\ returned' = Null
  /\ UNCHANGED content

\* The item stays where it is, or goes if its new key is taken.
FileAnew(m, i) ==
  LET x == content[m][i]
      taken == \E y \in Members(content[m]) \ {x} : key[y] = key[x]
  IN  /\ stale \cap Members(content[m]) \subseteq {x}
      /\ content' = IF taken THEN [content EXCEPT ![m] = Without(@, i - 1, i)] ELSE content
      /\ PointsAt(returned', m, content'[m], key[x], ~taken)
      /\ stale' = stale \ {x}
      /\ UNCHANGED key

Swap(m, o) ==
  /\ content' = [content EXCEPT ![m] = content[o], ![o] = content[m]]
  /\ returned' = Null
  /\ UNCHANGED <<key, stale>>

Next ==
  \/ \E m \in Maps, x \in Items : \E p \in 0..Len(content[m]) : Insert(m, p, x)
  \/ \E m \in Maps : \E b, e \in 0..Len(content[m]) : Remove(m, b, e)
  \/ \E x \in Items, k \in Keys : ChangeKey(x, k)
  \/ \E m \in Maps : \E i \in DOMAIN content[m] : FileAnew(m, i)
  \/ \E m, o \in Maps : Swap(m, o)

Spec == Init /\ [][Next]_vars
=============================================================================
