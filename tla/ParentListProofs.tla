---------------------------- MODULE ParentListProofs ----------------------------
(***************************************************************************)
(* ListsWhole, LifetimeBalanced and OrderStable of ParentListProps, and    *)
(* that ParentList implements ListsOfNodes, for any lists, nodes and keys. *)
(*                                                                         *)
(* A ring is a set of cells on which every pointer has its inverse and     *)
(* which has no part that is closed under prev: no sequence and no         *)
(* induction is needed to say what an operation makes of it.  The sequence *)
(* that a program sees is Path(): that it comes round a ring, and that it  *)
(* follows a chain to its end, is proved once, by induction on the number  *)
(* of cells it has met.                                                    *)
(***************************************************************************)
EXTENDS ParentListProps, FiniteSetTheorems, SequenceTheorems, TLAPS

N == Cardinality(Nodes)

LEMMA Induction ==
  ASSUME NEW S, 0 \in S, \A n \in Nat : n \in S => n + 1 \in S
  PROVE  \A n \in Nat : n \in S
<1> SUFFICES ASSUME NEW n \in Nat, n \notin S PROVE FALSE
  OBVIOUS
<1> DEFINE Bad == {m \in Nat : m \notin S}
<1>1. PICK m \in Bad : \A y \in Bad : ~(<<y, m>> \in OpToRel(<, Nat))
  <2>1. Bad \subseteq Nat /\ Bad # {}
    OBVIOUS
  <2> QED
    BY <2>1, NatLessThanWellFounded, WFMin, Zenon
<1> m \in Nat /\ m \notin S
  OBVIOUS
<1> m # 0
  OBVIOUS
<1>2. m - 1 \in Nat /\ m - 1 < m /\ m = (m - 1) + 1
  OBVIOUS
<1>3. m - 1 \in S
  BY <1>1, <1>2 DEF OpToRel
<1> QED
  BY <1>1, <1>2, <1>3

\* A function that is defined by recursion over the numbers up to n exists.
Iterates(w, T, x, g, n) == w \in [0..n -> T] /\ w[0] = x /\ \A i \in 1..n : w[i] = g[w[i - 1]]

LEMMA WalkExists ==
  ASSUME NEW T, NEW x \in T, NEW g \in [T -> T], NEW n \in Nat
  PROVE  \E w : Iterates(w, T, x, g, n)
<1> DEFINE Good(m) == \E w \in [0..m -> T] : \A i \in 0..m : w[i] = IF i = 0 THEN x ELSE g[w[i - 1]]
           S == {m \in Nat : Good(m)}
<1>1. 0 \in S
  <2> DEFINE w == [i \in 0..0 |-> x]
  <2>1. w \in [0..0 -> T] /\ \A i \in 0..0 : w[i] = IF i = 0 THEN x ELSE g[w[i - 1]]
    OBVIOUS
  <2> QED
    BY <2>1
<1>2. ASSUME NEW m \in Nat, m \in S PROVE m + 1 \in S
  <2>1. PICK w \in [0..m -> T] : \A i \in 0..m : w[i] = IF i = 0 THEN x ELSE g[w[i - 1]]
    BY <1>2
  <2> DEFINE v == [i \in 0..(m + 1) |-> IF i = m + 1 THEN g[w[m]] ELSE w[i]]
  <2>2. w[m] \in T
    BY <2>1
  <2>3. v \in [0..(m + 1) -> T]
    BY <2>1, <2>2
  <2>4. ASSUME NEW i \in 0..(m + 1) PROVE v[i] = IF i = 0 THEN x ELSE g[v[i - 1]]
    BY <2>1, <2>2
  <2>5. Good(m + 1)
    BY <2>3, <2>4
  <2> QED
    BY <2>5
<1>3. \A m \in Nat : m \in S
  <2> HIDE DEF S
  <2> QED
    BY <1>1, <1>2, Induction
<1> QED
  <2>1. PICK w \in [0..n -> T] : \A i \in 0..n : w[i] = IF i = 0 THEN x ELSE g[w[i - 1]]
    BY <1>3
  <2>2. Iterates(w, T, x, g, n)
    BY <2>1 DEF Iterates
  <2> QED
    BY <2>2

Steps(f, b, e, s) ==
  /\ s \in Seq(Cells)
  /\ s = <<>> <=> b \in {e, Null}
  /\ s # <<>> => s[1] = b
  /\ \A i \in 1..Len(s) : s[i] \notin {e, Null}
  /\ \A i \in 1..(Len(s) - 1) : s[i + 1] = f[s[i]]

Ended(f, e, s) == s # <<>> => f[s[Len(s)]] \in {e, Null}

LEMMA NIsNat == N \in Nat
BY ListAssumption, FS_CardinalityType DEF N

\* Path(), unrolled.
LEMMA PathUnrolled ==
  ASSUME NEW f \in [Cells -> Cells \cup {Null}], NEW b \in Cells \cup {Null}, NEW e
  PROVE  \E w \in [0..N -> Seq(Cells)] :
           /\ Path(f, b, e) = w[N]
           /\ w[0] = IF b \in {e, Null} THEN <<>> ELSE <<b>>
           /\ \A i \in 1..N :
                w[i] = IF w[i - 1] = <<>> \/ f[w[i - 1][Len(w[i - 1])]] \in {e, Null} THEN w[i - 1]
                       ELSE Append(w[i - 1], f[w[i - 1][Len(w[i - 1])]])
<1>0. N \in Nat
  BY NIsNat
<1> DEFINE Visit(s, c) == IF c \in {e, Null} THEN s ELSE Append(s, c)
           onward == [s \in Seq(Cells) |-> IF s = <<>> THEN s ELSE Visit(s, f[s[Len(s)]])]
           walk == CHOOSE w : w = [i \in 0..N |-> IF i = 0 THEN Visit(<<>>, b) ELSE onward[w[i - 1]]]
<1>1. Path(f, b, e) = walk[N]
  BY DEF Path, N
<1>2. Visit(<<>>, b) \in Seq(Cells)
  OBVIOUS
<1>3. onward \in [Seq(Cells) -> Seq(Cells)]
  <2>1. ASSUME NEW s \in Seq(Cells), s # <<>> PROVE f[s[Len(s)]] \in Cells \cup {Null}
    <3>1. s[Len(s)] \in Cells
      BY <2>1
    <3> QED
      BY <3>1
  <2>2. ASSUME NEW s \in Seq(Cells), s # <<>> PROVE Visit(s, f[s[Len(s)]]) \in Seq(Cells)
    BY <2>1, <2>2
  <2> QED
    BY <2>2
<1>4. PICK w \in [0..N -> Seq(Cells)] :
             \A i \in 0..N : w[i] = IF i = 0 THEN Visit(<<>>, b) ELSE onward[w[i - 1]]
  <2> DEFINE x == Visit(<<>>, b)
  <2>1. x \in Seq(Cells)
    BY <1>2
  <2> HIDE DEF Visit, onward, x
  <2>2. \E w \in [0..N -> Seq(Cells)] : w[0] = x /\ \A i \in 1..N : w[i] = onward[w[i - 1]]
    <3> DEFINE T == Seq(Cells)
    <3>1. x \in T /\ onward \in [T -> T] /\ N \in Nat
      BY <1>0, <1>3, <2>1
    <3> HIDE DEF T
    <3>2. \E w : Iterates(w, T, x, onward, N)
      BY <3>1, WalkExists, Zenon
    <3>3. PICK w : Iterates(w, T, x, onward, N)
      BY <3>2
    <3> QED
      BY <3>3 DEF T, Iterates
  <2>3. PICK w \in [0..N -> Seq(Cells)] : w[0] = x /\ \A i \in 1..N : w[i] = onward[w[i - 1]]
    BY <2>2
  <2>4. ASSUME NEW i \in 0..N PROVE w[i] = IF i = 0 THEN x ELSE onward[w[i - 1]]
    BY <1>0, <2>3
  <2> QED
    BY <2>4 DEF x
<1>5. w = [i \in 0..N |-> IF i = 0 THEN Visit(<<>>, b) ELSE onward[w[i - 1]]]
  <2> HIDE DEF Visit, onward
  <2> QED
    BY <1>4
<1>6. walk = [i \in 0..N |-> IF i = 0 THEN Visit(<<>>, b) ELSE onward[walk[i - 1]]]
  <2> HIDE DEF Visit, onward
  <2> QED
    BY <1>5, Zenon
<1>7. \A i \in 0..N : walk[i] = IF i = 0 THEN Visit(<<>>, b) ELSE onward[walk[i - 1]]
  <2> HIDE DEF Visit, onward, walk
  <2> QED
    BY <1>6
<1>8. \A i \in 0..N : walk[i] \in Seq(Cells)
  <2> DEFINE S == {i \in Nat : i \in 0..N => walk[i] \in Seq(Cells)}
  <2> HIDE DEF Visit, onward, walk
  <2>1. 0 \in S
    BY <1>0, <1>2, <1>7
  <2>2. ASSUME NEW i \in Nat, i \in S PROVE i + 1 \in S
    <3> SUFFICES ASSUME i + 1 \in 0..N PROVE walk[i + 1] \in Seq(Cells)
      OBVIOUS
    <3>1. i \in 0..N /\ i + 1 # 0 /\ (i + 1) - 1 = i
      BY <1>0
    <3>2. walk[i] \in Seq(Cells) /\ walk[i + 1] = onward[walk[i]]
      BY <1>7, <2>2, <3>1
    <3> QED
      BY <1>3, <3>2
  <2>3. \A i \in Nat : i \in S
    <3> HIDE DEF S
    <3> QED
      BY <2>1, <2>2, Induction
  <2> QED
    BY <2>3
<1>9. walk \in [0..N -> Seq(Cells)]
  <2> HIDE DEF Visit, onward, walk
  <2> QED
    BY <1>6, <1>8
<1>10. ASSUME NEW i \in 1..N
       PROVE  walk[i] = IF walk[i - 1] = <<>> \/ f[walk[i - 1][Len(walk[i - 1])]] \in {e, Null} THEN walk[i - 1]
                        ELSE Append(walk[i - 1], f[walk[i - 1][Len(walk[i - 1])]])
  <2>1. walk[i] = onward[walk[i - 1]] /\ walk[i - 1] \in Seq(Cells)
    <3> HIDE DEF Visit, onward, walk
    <3> QED
      BY <1>0, <1>7, <1>8, <1>10
  <2> HIDE DEF walk
  <2> QED
    BY <2>1
<1>11. walk[0] = IF b \in {e, Null} THEN <<>> ELSE <<b>>
  <2>1. walk[0] = Visit(<<>>, b)
    <3> HIDE DEF Visit, onward, walk
    <3> QED
      BY <1>0, <1>7
  <2> HIDE DEF walk
  <2> QED
    BY <2>1
<1> HIDE DEF walk
<1> QED
  BY <1>1, <1>9, <1>10, <1>11

\* What Path() is.
LEMMA PathWalks ==
  ASSUME NEW f \in [Cells -> Cells \cup {Null}], NEW b \in Cells \cup {Null}, NEW e
  PROVE  /\ Steps(f, b, e, Path(f, b, e))
         /\ Len(Path(f, b, e)) <= N + 1
         /\ Len(Path(f, b, e)) = N + 1 \/ Ended(f, e, Path(f, b, e))
<1>0. N \in Nat
  BY NIsNat
<1>1. PICK w \in [0..N -> Seq(Cells)] :
           /\ Path(f, b, e) = w[N]
           /\ w[0] = IF b \in {e, Null} THEN <<>> ELSE <<b>>
           /\ \A i \in 1..N :
                w[i] = IF w[i - 1] = <<>> \/ f[w[i - 1][Len(w[i - 1])]] \in {e, Null} THEN w[i - 1]
                       ELSE Append(w[i - 1], f[w[i - 1][Len(w[i - 1])]])
  BY PathUnrolled
<1> DEFINE Good(i) == /\ Steps(f, b, e, w[i])
                      /\ Len(w[i]) <= i + 1
                      /\ Len(w[i]) = i + 1 \/ Ended(f, e, w[i])
           S == {i \in Nat : i \in 0..N => Good(i)}
<1>2. Good(0)
  <2>1. CASE b \in {e, Null}
    BY <1>1, <2>1 DEF Steps, Ended
  <2>2. CASE b \notin {e, Null}
    <3>1. w[0] = <<b>> /\ b \in Cells
      BY <1>1, <2>2
    <3> QED
      BY <2>2, <3>1 DEF Steps, Ended
  <2> QED
    BY <2>1, <2>2
<1>3. ASSUME NEW i \in Nat, i + 1 \in 0..N, Good(i) PROVE Good(i + 1)
  <2>0. i \in 0..N /\ i + 1 \in 1..N /\ (i + 1) - 1 = i
    BY <1>0, <1>3
  <2> DEFINE s == w[i]
             c == f[s[Len(s)]]
  <2>1. s \in Seq(Cells) /\ w[i + 1] = IF s = <<>> \/ c \in {e, Null} THEN s ELSE Append(s, c)
    BY <1>1, <2>0
  <2>2. Steps(f, b, e, s) /\ Len(s) <= i + 1 /\ (Len(s) = i + 1 \/ Ended(f, e, s))
    BY <1>3
  <2> HIDE DEF s
  <2>3. CASE s = <<>> \/ c \in {e, Null}
    <3>1. w[i + 1] = s /\ Ended(f, e, s)
      BY <2>1, <2>3 DEF Ended
    <3>2. Len(s) <= (i + 1) + 1
      BY <2>1, <2>2
    <3> QED
      BY <2>2, <3>1, <3>2
  <2>4. CASE s # <<>> /\ c \notin {e, Null}
    <3>1. w[i + 1] = Append(s, c)
      BY <2>1, <2>4
    <3>2. s[Len(s)] \in Cells /\ Len(s) \in Nat \ {0}
      BY <2>1, <2>4
    <3>3. c \in Cells
      BY <2>4, <3>2
    <3>4. Len(s) = i + 1
      BY <2>2, <2>4 DEF Ended
    <3> HIDE DEF c
    <3>5. Append(s, c) \in Seq(Cells) /\ Len(Append(s, c)) = Len(s) + 1 /\ Append(s, c) # <<>>
      BY <2>1, <3>3
    <3>6. /\ \A j \in 1..Len(s) : Append(s, c)[j] = s[j]
          /\ Append(s, c)[Len(s) + 1] = c
      BY <2>1, <3>3
    <3>7. Append(s, c)[1] = b /\ b \notin {e, Null}
      BY <2>2, <2>4, <3>2, <3>6 DEF Steps
    <3>8. \A j \in 1..Len(Append(s, c)) : Append(s, c)[j] \notin {e, Null}
      BY <2>2, <2>4, <3>2, <3>5, <3>6 DEF Steps
    <3>9. ASSUME NEW j \in 1..(Len(Append(s, c)) - 1) PROVE Append(s, c)[j + 1] = f[Append(s, c)[j]]
      <4>1. CASE j = Len(s)
        BY <3>2, <3>6, <4>1 DEF c
      <4>2. CASE j # Len(s)
        <5>1. j \in 1..(Len(s) - 1) /\ j \in 1..Len(s) /\ j + 1 \in 1..Len(s)
          BY <3>2, <3>5, <3>9, <4>2
        <5> QED
          BY <2>2, <3>6, <5>1 DEF Steps
      <4> QED
        BY <4>1, <4>2
    <3>10. Steps(f, b, e, Append(s, c))
      BY <3>5, <3>7, <3>8, <3>9 DEF Steps
    <3> QED
      BY <3>1, <3>2, <3>4, <3>5, <3>10
  <2> QED
    BY <2>3, <2>4
<1>4. \A i \in Nat : i \in S
  <2>1. 0 \in S
    BY <1>2
  <2>2. ASSUME NEW i \in Nat, i \in S PROVE i + 1 \in S
    <3>1. CASE i + 1 \in 0..N
      <4>1. Good(i)
        BY <1>0, <2>2, <3>1
      <4> QED
        BY <1>3, <3>1, <4>1
    <3>2. CASE i + 1 \notin 0..N
      BY <3>2
    <3> QED
      BY <3>1, <3>2
  <2> HIDE DEF S
  <2> QED
    BY <2>1, <2>2, Induction
<1>5. Good(N)
  BY <1>0, <1>4
<1> QED
  BY <1>1, <1>5

\* Of two walks from b one is the beginning of the other.
LEMMA StepsAgree ==
  ASSUME NEW f, NEW b, NEW e, NEW s, NEW t, Steps(f, b, e, s), Steps(f, b, e, t),
         NEW i \in 1..Len(s), i <= Len(t)
  PROVE  s[i] = t[i]
<1>1. s \in Seq(Cells) /\ t \in Seq(Cells)
  BY DEF Steps
<1> DEFINE S == {j \in Nat : j + 1 <= Len(s) /\ j + 1 <= Len(t) => s[j + 1] = t[j + 1]}
<1>2. 0 \in S
  BY <1>1 DEF Steps
<1>3. ASSUME NEW j \in Nat, j \in S PROVE j + 1 \in S
  <2> SUFFICES ASSUME (j + 1) + 1 <= Len(s), (j + 1) + 1 <= Len(t) PROVE s[(j + 1) + 1] = t[(j + 1) + 1]
    OBVIOUS
  <2>1. j + 1 \in 1..(Len(s) - 1) /\ j + 1 \in 1..(Len(t) - 1)
    BY <1>1
  <2>2. s[j + 1] = t[j + 1]
    BY <1>1, <1>3, <2>1
  <2> QED
    BY <2>1, <2>2 DEF Steps
<1>4. \A j \in Nat : j \in S
  <2> HIDE DEF S
  <2> QED
    BY <1>2, <1>3, Induction
<1>5. i - 1 \in Nat /\ (i - 1) + 1 = i /\ i <= Len(s)
  BY <1>1
<1>6. i - 1 \in S
  BY <1>4, <1>5
<1> QED
  BY <1>5, <1>6

\* A walk that is no longer than there are cells in a ring is the beginning of the path,
LEMMA PathPrefix ==
  ASSUME NEW f \in [Cells -> Cells \cup {Null}], NEW b \in Cells \cup {Null}, NEW e,
         NEW t, Steps(f, b, e, t), Len(t) <= N + 1
  PROVE  /\ Len(t) <= Len(Path(f, b, e))
         /\ \A i \in 1..Len(t) : Path(f, b, e)[i] = t[i]
<1> DEFINE s == Path(f, b, e)
<1>0. N \in Nat
  BY NIsNat
<1>1. Steps(f, b, e, s) /\ Len(s) <= N + 1 /\ (Len(s) = N + 1 \/ Ended(f, e, s))
  BY PathWalks
<1> HIDE DEF s
<1>2. s \in Seq(Cells) /\ t \in Seq(Cells)
  BY <1>1 DEF Steps
<1>3. Len(t) <= Len(s)
  <2> SUFFICES ASSUME Len(s) < Len(t) PROVE FALSE
    BY <1>2
  <2>1. Ended(f, e, s)
    BY <1>0, <1>1, <1>2
  <2>2. s # <<>>
    BY <1>1, <1>2 DEF Steps
  <2>3. Len(s) \in 1..Len(s) /\ Len(s) \in 1..(Len(t) - 1) /\ Len(s) + 1 \in 1..Len(t)
    BY <1>2, <2>2
  <2>4. s[Len(s)] = t[Len(s)]
    BY <1>1, <1>2, <2>3, StepsAgree
  <2>5. t[Len(s) + 1] = f[t[Len(s)]]
    BY <2>3 DEF Steps
  <2>6. t[Len(s) + 1] \in {e, Null}
    BY <2>1, <2>2, <2>4, <2>5 DEF Ended
  <2> QED
    BY <2>3, <2>6 DEF Steps
<1>4. ASSUME NEW i \in 1..Len(t) PROVE s[i] = t[i]
  BY <1>1, <1>2, <1>3, StepsAgree
<1> QED
  BY <1>3, <1>4 DEF s

\* and one that comes to an end is the path.
LEMMA PathIs ==
  ASSUME NEW f \in [Cells -> Cells \cup {Null}], NEW b \in Cells \cup {Null}, NEW e,
         NEW t, Steps(f, b, e, t), Len(t) <= N + 1, Ended(f, e, t)
  PROVE  Path(f, b, e) = t
<1> DEFINE s == Path(f, b, e)
<1>1. Steps(f, b, e, s)
  BY PathWalks
<1>2. Len(t) <= Len(s) /\ \A i \in 1..Len(t) : s[i] = t[i]
  BY PathPrefix
<1> HIDE DEF s
<1>3. s \in Seq(Cells) /\ t \in Seq(Cells)
  BY <1>1 DEF Steps
<1>4. Len(s) <= Len(t)
  <2> SUFFICES ASSUME Len(t) < Len(s) PROVE FALSE
    BY <1>3
  <2>1. t # <<>>
    BY <1>1, <1>3 DEF Steps
  <2>2. Len(t) \in 1..Len(t) /\ Len(t) \in 1..(Len(s) - 1) /\ Len(t) + 1 \in 1..Len(s)
    BY <1>3, <2>1
  <2>3. s[Len(t) + 1] = f[t[Len(t)]]
    BY <1>1, <1>2, <2>2 DEF Steps
  <2>4. s[Len(t) + 1] \in {e, Null}
    BY <2>1, <2>3 DEF Ended
  <2> QED
    BY <1>1, <2>2, <2>4 DEF Steps
<1>5. Len(s) = Len(t)
  BY <1>2, <1>3, <1>4
<1> QED
  BY <1>2, <1>3, <1>5 DEF s
-----------------------------------------------------------------------------
Ring(nx, pv, A) ==
  /\ A # {}
  /\ \A c \in A : nx[c] \in A /\ pv[c] \in A /\ pv[nx[c]] = c /\ nx[pv[c]] = c
  /\ \A S \in SUBSET A : S # {} /\ (\A c \in S : pv[c] \in S) => S = A

Segment(nx, pv, A, R, b, e) ==
  /\ R \subseteq A /\ b \in R /\ e \in A /\ e \notin R
  /\ \A c \in R : nx[c] \in R \/ nx[c] = e
  /\ \A c \in R : c = b \/ pv[c] \in R
  /\ pv[b] \notin R /\ pv[e] \in R

Line(nx, pv, R, b, z) ==
  /\ b \in R /\ z \in R
  /\ \A c \in R : c # z => nx[c] \in R \ {b} /\ pv[nx[c]] = c
  /\ \A c \in R : c # b => pv[c] \in R \ {z} /\ nx[pv[c]] = c
  /\ \A T \in SUBSET R :
       T # {} /\ (\A c \in T : c # b => pv[c] \in T) => b \in T /\ (z \in T => T = R)

Injective(s) == \A i, j \in 1..Len(s) : s[i] = s[j] => i = j

\* A ring has no smaller ring in it.
LEMMA RingOnly ==
  ASSUME NEW nx, NEW pv, NEW A, Ring(nx, pv, A),
         NEW S, S \subseteq A, S # {}, \A c \in S : pv[c] \in S
  PROVE  S = A
BY DEF Ring

LEMMA RingKept ==
  ASSUME NEW nx, NEW pv, NEW A, Ring(nx, pv, A), NEW nx2, NEW pv2,
         \A c \in A : nx2[c] = nx[c] /\ pv2[c] = pv[c]
  PROVE  Ring(nx2, pv2, A)
<1>1. ASSUME NEW S \in SUBSET A, S # {}, \A c \in S : pv2[c] \in S PROVE S = A
  <2>1. \A c \in S : pv[c] \in S
    BY <1>1
  <2> QED
    BY <1>1, <2>1, RingOnly
<1>2. \A c \in A : nx2[c] \in A /\ pv2[c] \in A /\ pv2[nx2[c]] = c /\ nx2[pv2[c]] = c
  BY DEF Ring
<1>3. A # {}
  BY DEF Ring
<1> QED
  BY <1>1, <1>2, <1>3 DEF Ring

LEMMA RingAlone ==
  ASSUME NEW nx, NEW pv, NEW l, nx[l] = l, pv[l] = l
  PROVE  Ring(nx, pv, {l})
BY DEF Ring

LEMMA RingReversed ==
  ASSUME NEW nx, NEW pv, NEW A, Ring(nx, pv, A), NEW nx2, NEW pv2,
         \A c \in A : nx2[c] = pv[c] /\ pv2[c] = nx[c]
  PROVE  Ring(nx2, pv2, A)
<1>1. ASSUME NEW S \in SUBSET A, S # {}, \A c \in S : pv2[c] \in S PROVE S = A
  <2> DEFINE T == A \ S
  <2>1. \A c \in T : pv[c] \in T
    BY <1>1 DEF Ring
  <2>2. T # A
    BY <1>1
  <2>3. T = {}
    <3> HIDE DEF T
    <3>1. T \subseteq A
      BY DEF T
    <3> QED
      BY <2>1, <2>2, <3>1, RingOnly
  <2> QED
    BY <2>3
<1>2. \A c \in A : nx2[c] \in A /\ pv2[c] \in A /\ pv2[nx2[c]] = c /\ nx2[pv2[c]] = c
  BY DEF Ring
<1>3. A # {}
  BY DEF Ring
<1> QED
  BY <1>1, <1>2, <1>3 DEF Ring

LEMMA RingRenamed ==
  ASSUME NEW nx, NEW pv, NEW A, Ring(nx, pv, A), NEW nx2, NEW pv2, NEW t, NEW B,
         B = {t[c] : c \in A}, \A c, d \in A : t[c] = t[d] => c = d,
         \A c \in A : nx2[t[c]] = t[nx[c]] /\ pv2[t[c]] = t[pv[c]]
  PROVE  Ring(nx2, pv2, B)
<1>1. ASSUME NEW S \in SUBSET B, S # {}, \A c \in S : pv2[c] \in S PROVE S = B
  <2> DEFINE T == {c \in A : t[c] \in S}
  <2>1. T \subseteq A /\ T # {}
    BY <1>1
  <2>2. \A c \in T : pv[c] \in T
    BY <1>1 DEF Ring
  <2>3. T = A
    <3> HIDE DEF T
    <3> QED
      BY <2>1, <2>2, RingOnly
  <2> QED
    BY <2>3
<1>2. ASSUME NEW d \in B PROVE nx2[d] \in B /\ pv2[d] \in B /\ pv2[nx2[d]] = d /\ nx2[pv2[d]] = d
  <2>1. PICK c \in A : d = t[c]
    OBVIOUS
  <2>2. nx[c] \in A /\ pv[c] \in A /\ pv[nx[c]] = c /\ nx[pv[c]] = c
    BY DEF Ring
  <2> QED
    BY <2>1, <2>2
<1>3. B # {}
  <2>1. PICK c \in A : TRUE
    BY DEF Ring
  <2> QED
    BY <2>1
<1> QED
  BY <1>1, <1>2, <1>3 DEF Ring

\* What is left of a ring from which a segment is cut.
LEMMA RingCut ==
  ASSUME NEW nx, NEW pv, NEW A, NEW R, NEW b, NEW e, Ring(nx, pv, A), Segment(nx, pv, A, R, b, e),
         NEW nx2, NEW pv2,
         \A c \in A \ R : nx2[c] = IF c = pv[b] THEN e ELSE nx[c],
         \A c \in A \ R : pv2[c] = IF c = e THEN pv[b] ELSE pv[c]
  PROVE  Ring(nx2, pv2, A \ R)
<1> DEFINE B == A \ R
<1>1. pv[b] \in B /\ e \in B
  BY DEF Ring, Segment
<1>2. ASSUME NEW c \in B PROVE nx2[c] \in B /\ pv2[nx2[c]] = c
  <2>1. CASE c = pv[b]
    BY <1>1, <2>1
  <2>2. CASE c # pv[b]
    <3>1. nx2[c] = nx[c] /\ nx[c] \in A /\ pv[nx[c]] = c
      BY <2>2 DEF Ring
    <3>2. nx[c] \notin R
      BY <2>2, <3>1 DEF Segment
    <3>3. nx[c] # e
      BY <3>1 DEF Segment
    <3> QED
      BY <3>1, <3>2, <3>3
  <2> QED
    BY <2>1, <2>2
<1>3. ASSUME NEW c \in B PROVE pv2[c] \in B /\ nx2[pv2[c]] = c
  <2>1. CASE c = e
    BY <1>1, <2>1
  <2>2. CASE c # e
    <3>1. pv2[c] = pv[c] /\ pv[c] \in A /\ nx[pv[c]] = c
      BY <2>2 DEF Ring
    <3>2. pv[c] \notin R
      BY <2>2, <3>1 DEF Segment
    <3>3. b \in A /\ c # b
      BY DEF Segment
    <3>4. pv[c] # pv[b]
      BY <3>1, <3>3 DEF Ring
    <3> QED
      BY <3>1, <3>2, <3>4
  <2> QED
    BY <2>1, <2>2
<1>4. ASSUME NEW S \in SUBSET B, S # {}, \A c \in S : pv2[c] \in S PROVE S = B
  <2>1. CASE e \notin S
    <3>1. \A c \in S : pv[c] \in S
      BY <1>4, <2>1
    <3>2. S = A
      BY <1>4, <3>1, RingOnly
    <3> QED
      BY <3>2, <2>1, <1>1
  <2>2. CASE e \in S
    <3> DEFINE T == S \cup R
    <3>1. pv[b] \in S
      BY <1>4, <2>2
    <3>2. ASSUME NEW c \in T PROVE pv[c] \in T
      <4>1. CASE c \in R
        BY <3>1, <4>1 DEF Segment
      <4>2. CASE c \in S /\ c # e
        BY <1>4, <4>2
      <4>3. CASE c = e
        BY <4>3 DEF Segment
      <4> QED
        BY <4>1, <4>2, <4>3
    <3>3. T \subseteq A /\ T # {}
      BY <1>4 DEF Segment
    <3>4. T = A
      <4> HIDE DEF T
      <4> QED
        BY <3>2, <3>3, RingOnly
    <3> QED
      BY <3>4
  <2> QED
    BY <2>1, <2>2
<1>5. B # {}
  BY <1>1
<1> HIDE DEF B
<1>6. Ring(nx2, pv2, B)
  BY <1>2, <1>3, <1>4, <1>5 DEF Ring
<1> QED
  BY <1>6 DEF B

\* A ring into which a line is linked before p.
LEMMA RingLink ==
  ASSUME NEW nx, NEW pv, NEW A, NEW R, NEW b, NEW z, NEW p \in A, Ring(nx, pv, A),
         NEW nx2, NEW pv2, Line(nx2, pv2, R, b, z), A \cap R = {},
         \A c \in A : nx2[c] = IF c = pv[p] THEN b ELSE nx[c],
         \A c \in A : pv2[c] = IF c = p THEN z ELSE pv[c],
         nx2[z] = p, pv2[b] = pv[p]
  PROVE  Ring(nx2, pv2, A \cup R)
<1> DEFINE B == A \cup R
<1>1. pv[p] \in A /\ nx[pv[p]] = p /\ b \in R /\ z \in R
  BY DEF Ring, Line
<1>2. ASSUME NEW c \in B PROVE nx2[c] \in B /\ pv2[nx2[c]] = c
  <2>1. CASE c = pv[p]
    BY <1>1, <2>1
  <2>2. CASE c \in A /\ c # pv[p]
    <3>1. nx2[c] = nx[c] /\ nx[c] \in A /\ pv[nx[c]] = c
      BY <2>2 DEF Ring
    <3>2. nx[c] # p
      BY <2>2, <3>1
    <3> QED
      BY <3>1, <3>2
  <2>3. CASE c = z
    BY <2>3
  <2>4. CASE c \in R /\ c # z
    BY <2>4 DEF Line
  <2> QED
    BY <2>1, <2>2, <2>3, <2>4
<1>3. ASSUME NEW c \in B PROVE pv2[c] \in B /\ nx2[pv2[c]] = c
  <2>1. CASE c = p
    BY <1>1, <2>1
  <2>2. CASE c \in A /\ c # p
    <3>1. pv2[c] = pv[c] /\ pv[c] \in A /\ nx[pv[c]] = c
      BY <2>2 DEF Ring
    <3>2. pv[c] # pv[p]
      BY <1>1, <2>2, <3>1
    <3> QED
      BY <3>1, <3>2
  <2>3. CASE c = b
    BY <1>1, <2>3
  <2>4. CASE c \in R /\ c # b
    BY <2>4 DEF Line
  <2> QED
    BY <2>1, <2>2, <2>3, <2>4
<1>4. ASSUME NEW S \in SUBSET B, S # {}, \A c \in S : pv2[c] \in S PROVE S = B
  <2> DEFINE S0 == S \cap A
             S1 == S \cap R
  <2>1. \A c \in S1 : c # b => pv2[c] \in S1
    BY <1>4 DEF Line
  <2>2. S1 # {} => b \in S1 /\ (z \in S1 => S1 = R)
    <3>1. S1 \in SUBSET R
      OBVIOUS
    <3> HIDE DEF S1
    <3> QED
      BY <2>1, <3>1 DEF Line
  <2>3. S0 # {}
    <3>1. CASE S1 # {}
      <4>1. pv[p] \in S
        BY <1>4, <2>2, <3>1
      <4> QED
        BY <1>1, <4>1
    <3>2. CASE S1 = {}
      BY <1>4, <3>2
    <3> QED
      BY <3>1, <3>2
  <2>4. p \in S0 => z \in S1
    BY <1>1, <1>4
  <2>5. p \in S0 => pv[p] \in S
    BY <1>1, <1>4, <2>2, <2>4
  <2>6. ASSUME NEW c \in S0 PROVE pv[c] \in S0
    <3>1. CASE c = p
      BY <1>1, <2>5, <3>1
    <3>2. CASE c # p
      <4>1. pv2[c] = pv[c] /\ pv[c] \in A
        BY <3>2 DEF Ring
      <4> QED
        BY <1>4, <4>1
    <3> QED
      BY <3>1, <3>2
  <2>7. S0 = A
    <3>1. S0 \subseteq A
      OBVIOUS
    <3> HIDE DEF S0
    <3> QED
      BY <2>3, <2>6, <3>1, RingOnly
  <2>8. S1 = R
    BY <2>2, <2>4, <2>7
  <2> QED
    BY <2>7, <2>8
<1>5. B # {}
  OBVIOUS
<1> HIDE DEF B
<1>6. Ring(nx2, pv2, B)
  BY <1>2, <1>3, <1>4, <1>5 DEF Ring
<1> QED
  BY <1>6 DEF B

LEMMA LineKept ==
  ASSUME NEW nx, NEW pv, NEW R, NEW b, NEW z, Line(nx, pv, R, b, z), NEW nx2, NEW pv2,
         \A c \in R : c # z => nx2[c] = nx[c],
         \A c \in R : c # b => pv2[c] = pv[c]
  PROVE  Line(nx2, pv2, R, b, z)
<1>1. ASSUME NEW c \in R, c # z PROVE nx2[c] \in R \ {b} /\ pv2[nx2[c]] = c
  BY <1>1 DEF Line
<1>2. ASSUME NEW c \in R, c # b PROVE pv2[c] \in R \ {z} /\ nx2[pv2[c]] = c
  BY <1>2 DEF Line
<1>3. ASSUME NEW T \in SUBSET R, T # {}, \A c \in T : c # b => pv2[c] \in T
      PROVE  b \in T /\ (z \in T => T = R)
  <2>1. \A c \in T : c # b => pv[c] \in T
    BY <1>3
  <2> QED
    BY <1>3, <2>1 DEF Line
<1>4. b \in R /\ z \in R
  BY DEF Line
<1> QED
  BY <1>1, <1>2, <1>3, <1>4 DEF Line

LEMMA LineOne ==
  ASSUME NEW nx, NEW pv, NEW n
  PROVE  Line(nx, pv, {n}, n, n)
BY DEF Line

LEMMA LineOfSegment ==
  ASSUME NEW nx, NEW pv, NEW A, NEW R, NEW b, NEW e, Ring(nx, pv, A), Segment(nx, pv, A, R, b, e)
  PROVE  Line(nx, pv, R, b, pv[e])
<1> DEFINE z == pv[e]
<1>1. b \in R /\ z \in R /\ R \subseteq A /\ nx[z] = e /\ e \in A /\ e \notin R /\ pv[b] \notin R
  BY DEF Segment, Ring
<1>2. ASSUME NEW c \in R, c # z PROVE nx[c] \in R \ {b} /\ pv[nx[c]] = c
  <2>1. pv[nx[c]] = c /\ (nx[c] \in R \/ nx[c] = e)
    BY <1>1 DEF Ring, Segment
  <2>2. nx[c] # e
    BY <1>2, <2>1
  <2>3. nx[c] # b
    BY <1>1, <2>1
  <2> QED
    BY <2>1, <2>2, <2>3
<1>3. ASSUME NEW c \in R, c # b PROVE pv[c] \in R \ {z} /\ nx[pv[c]] = c
  <2>1. pv[c] \in R /\ nx[pv[c]] = c
    BY <1>1, <1>3 DEF Ring, Segment
  <2>2. pv[c] # z
    BY <1>1, <2>1
  <2> QED
    BY <2>1, <2>2
<1>4. ASSUME NEW T \in SUBSET R, T # {}, \A c \in T : c # b => pv[c] \in T
      PROVE  b \in T /\ (z \in T => T = R)
  <2>1. b \in T
    <3> SUFFICES ASSUME b \notin T PROVE FALSE
      OBVIOUS
    <3>1. \A c \in T : pv[c] \in T
      BY <1>4
    <3>2. T = A
      BY <1>1, <1>4, <3>1, RingOnly
    <3> QED
      BY <1>1, <3>2
  <2>2. ASSUME z \in T PROVE T = R
    <3> DEFINE B == A \ (R \ T)
    <3>1. ASSUME NEW c \in B PROVE pv[c] \in B
      <4>1. pv[c] \in A /\ nx[pv[c]] = c /\ c \in A
        BY DEF Ring
      <4> SUFFICES ASSUME pv[c] \in R, pv[c] \notin T PROVE FALSE
        BY <4>1
      <4>2. c \in R \/ c = e
        BY <4>1 DEF Segment
      <4>3. c # e
        BY <2>2
      <4>4. c \in T
        BY <4>2, <4>3
      <4>5. c # b
        BY <1>1
      <4> QED
        BY <1>4, <4>4, <4>5
    <3>2. B \subseteq A /\ B # {}
      BY <1>1
    <3>3. B = A
      <4> HIDE DEF B
      <4> QED
        BY <3>1, <3>2, RingOnly
    <3> QED
      BY <1>1, <3>3
  <2> QED
    BY <2>1, <2>2
<1> HIDE DEF z
<1>5. Line(nx, pv, R, b, z)
  BY <1>1, <1>2, <1>3, <1>4 DEF Line
<1> QED
  BY <1>5 DEF z

\* The nodes of a sequence, linked one after the other.
LEMMA LineOfSequence ==
  ASSUME NEW nx, NEW pv, NEW t \in Seq(Nodes), t # <<>>, Injective(t),
         \A i \in 1..(Len(t) - 1) : nx[t[i]] = t[i + 1] /\ pv[t[i + 1]] = t[i]
  PROVE  Line(nx, pv, Members(t), t[1], t[Len(t)])
<1> DEFINE n == Len(t)
           b == t[1]
           z == t[n]
           R == Members(t)
<1>1. n \in Nat \ {0} /\ DOMAIN t = 1..n /\ b \in R /\ z \in R
  BY DEF Members
<1>2. \A c \in R : \E i \in 1..n : c = t[i]
  BY <1>1 DEF Members
<1>3. \A i \in 1..n : t[i] \in R
  BY <1>1 DEF Members
<1>4. \A i, j \in 1..n : t[i] = t[j] => i = j
  BY DEF Injective
<1>5. \A i \in 1..(n - 1) : nx[t[i]] = t[i + 1] /\ pv[t[i + 1]] = t[i]
  OBVIOUS
<1>6. b = t[1] /\ z = t[n]
  OBVIOUS
<1> HIDE DEF n, b, z, R
<1>7. ASSUME NEW c \in R, c # z PROVE nx[c] \in R \ {b} /\ pv[nx[c]] = c
  <2>1. PICK i \in 1..n : c = t[i]
    BY <1>2
  <2>2. i \in 1..(n - 1) /\ i + 1 \in 1..n /\ 1 \in 1..n /\ i + 1 # 1
    BY <1>1, <1>6, <1>7, <2>1
  <2>3. nx[c] = t[i + 1] /\ pv[t[i + 1]] = c
    BY <1>5, <2>1, <2>2
  <2>4. t[i + 1] # b
    BY <1>4, <1>6, <2>2
  <2> QED
    BY <1>3, <2>2, <2>3, <2>4
<1>8. ASSUME NEW c \in R, c # b PROVE pv[c] \in R \ {z} /\ nx[pv[c]] = c
  <2>1. PICK i \in 1..n : c = t[i]
    BY <1>2
  <2>2. i - 1 \in 1..(n - 1) /\ i - 1 \in 1..n /\ n \in 1..n /\ i - 1 # n /\ (i - 1) + 1 = i
    BY <1>1, <1>6, <1>8, <2>1
  <2>3. pv[c] = t[i - 1] /\ nx[t[i - 1]] = c
    BY <1>5, <2>1, <2>2
  <2>4. t[i - 1] # z
    BY <1>4, <1>6, <2>2
  <2> QED
    BY <1>3, <2>2, <2>3, <2>4
<1>9. ASSUME NEW T \in SUBSET R, T # {}, \A c \in T : c # b => pv[c] \in T
      PROVE  b \in T /\ (z \in T => T = R)
  <2>1. ASSUME NEW i \in 1..(n - 1), t[i + 1] \in T PROVE t[i] \in T
    <3>1. i + 1 \in 1..n /\ 1 \in 1..n /\ i + 1 # 1
      BY <1>1
    <3>2. t[i + 1] # b
      BY <1>4, <1>6, <3>1
    <3> QED
      BY <1>5, <1>9, <2>1, <3>2
  <2>2. b \in T
    <3> SUFFICES ASSUME b \notin T PROVE FALSE
      OBVIOUS
    <3> DEFINE S == {i \in Nat : i + 1 \in 1..n => t[i + 1] \notin T}
    <3>1. 0 \in S
      BY <1>6
    <3>2. ASSUME NEW i \in Nat, i \in S PROVE i + 1 \in S
      <4> SUFFICES ASSUME (i + 1) + 1 \in 1..n PROVE t[(i + 1) + 1] \notin T
        OBVIOUS
      <4>1. i + 1 \in 1..(n - 1) /\ i + 1 \in 1..n
        BY <1>1
      <4> QED
        BY <2>1, <3>2, <4>1
    <3>3. \A i \in Nat : i \in S
      <4> HIDE DEF S
      <4> QED
        BY <3>1, <3>2, Induction
    <3>4. ASSUME NEW i \in 1..n PROVE t[i] \notin T
      <4>1. i - 1 \in Nat /\ (i - 1) + 1 = i
        OBVIOUS
      <4>2. i - 1 \in S
        BY <3>3, <4>1
      <4> QED
        BY <4>1, <4>2
    <3>5. PICK c \in T : c \in R
      BY <1>9
    <3> QED
      BY <1>2, <3>4, <3>5
  <2>3. ASSUME z \in T PROVE T = R
    <3> DEFINE S == {i \in Nat : i < n => t[n - i] \in T}
    <3>1. 0 \in S
      BY <1>1, <1>6, <2>3
    <3>2. ASSUME NEW i \in Nat, i \in S PROVE i + 1 \in S
      <4> SUFFICES ASSUME i + 1 < n PROVE t[n - (i + 1)] \in T
        OBVIOUS
      <4>1. n - (i + 1) \in 1..(n - 1) /\ (n - (i + 1)) + 1 = n - i
        BY <1>1
      <4>2. t[n - i] \in T
        BY <1>1, <3>2
      <4> QED
        BY <2>1, <4>1, <4>2
    <3>3. \A i \in Nat : i \in S
      <4> HIDE DEF S
      <4> QED
        BY <3>1, <3>2, Induction
    <3>4. ASSUME NEW i \in 1..n PROVE t[i] \in T
      <4>1. n - i \in Nat /\ n - (n - i) = i /\ n - i < n
        BY <1>1
      <4>2. n - i \in S
        BY <3>3, <4>1
      <4> QED
        BY <4>1, <4>2
    <3> QED
      BY <1>2, <3>4
  <2> QED
    BY <2>2, <2>3
<1>10. Line(nx, pv, R, b, z)
  BY <1>1, <1>7, <1>8, <1>9 DEF Line
<1> QED
  BY <1>10 DEF R, b, z, n

\* s goes from cell to cell of A and does not come to e.
Follows(nx, A, e, s) ==
  /\ s \in Seq(A)
  /\ \A m \in 1..Len(s) : s[m] # e
  /\ \A m \in 1..(Len(s) - 1) : s[m + 1] = nx[s[m]]

\* A ring on which one comes back is one that is left at no other place.
LEMMA NoReturn ==
  ASSUME NEW nx, NEW pv, NEW A, Ring(nx, pv, A), NEW e \in A,
         NEW s, Follows(nx, A, e, s),
         NEW i \in 1..Len(s), NEW j \in 1..Len(s), i <= j
  PROVE  pv[s[i]] # s[j]
<1> SUFFICES ASSUME pv[s[i]] = s[j] PROVE FALSE
  OBVIOUS
<1>0. /\ s \in Seq(A) /\ \A m \in 1..Len(s) : s[m] # e
      /\ \A m \in 1..(Len(s) - 1) : s[m + 1] = nx[s[m]]
  BY DEF Follows
<1> DEFINE S == {s[m] : m \in i..j}
<1>1. S \subseteq A /\ s[i] \in S /\ s[j] \in S
  BY <1>0
<1>2. ASSUME NEW c \in S PROVE pv[c] \in S
  <2>1. PICK m \in i..j : c = s[m]
    OBVIOUS
  <2>2. CASE m = i
    BY <1>1, <2>1, <2>2
  <2>3. CASE m # i
    <3>1. m - 1 \in 1..(Len(s) - 1) /\ m - 1 \in 1..Len(s) /\ (m - 1) + 1 = m /\ m - 1 \in i..j
      BY <1>0, <2>3
    <3>2. c = nx[s[m - 1]] /\ s[m - 1] \in A
      BY <1>0, <2>1, <3>1
    <3>3. pv[c] = s[m - 1]
      BY <3>2 DEF Ring
    <3> QED
      BY <3>1, <3>3
  <2> QED
    BY <2>2, <2>3
<1>3. S = A
  <2> HIDE DEF S
  <2> QED
    BY <1>1, <1>2, RingOnly
<1>4. e \in S
  BY <1>3
<1>5. PICK m \in i..j : e = s[m]
  BY <1>4
<1> QED
  BY <1>0, <1>5

\* The path from b to e on a ring: it comes to e, and its cells are a segment.
LEMMA RingPath ==
  ASSUME NEW nx \in [Cells -> Cells \cup {Null}], NEW pv, NEW A, Ring(nx, pv, A),
         A \subseteq Cells, IsFiniteSet(A), Cardinality(A) <= N + 1, NEW b \in A, NEW e \in A
  PROVE  /\ Path(nx, b, e) \in Seq(A \ {e})
         /\ Injective(Path(nx, b, e))
         /\ Len(Path(nx, b, e)) <= N
         /\ Ended(nx, e, Path(nx, b, e))
         /\ b = e => Path(nx, b, e) = <<>>
         /\ b # e => Segment(nx, pv, A, Members(Path(nx, b, e)), b, e)
<1> DEFINE s == Path(nx, b, e)
<1>0. N \in Nat /\ Null \notin Cells
  BY NIsNat, ListAssumption DEF Cells
<1>1. Steps(nx, b, e, s) /\ Len(s) <= N + 1 /\ (Len(s) = N + 1 \/ Ended(nx, e, s))
  BY PathWalks
<1> HIDE DEF s
<1>2. s \in Seq(Cells) /\ (s = <<>> <=> b = e)
  BY <1>0, <1>1 DEF Steps
<1>3. ASSUME NEW i \in 1..Len(s) PROVE s[i] \in A
  <2> DEFINE S == {j \in Nat : j + 1 \in 1..Len(s) => s[j + 1] \in A}
  <2>1. 0 \in S
    BY <1>1, <1>2 DEF Steps
  <2>2. ASSUME NEW j \in Nat, j \in S PROVE j + 1 \in S
    <3> SUFFICES ASSUME (j + 1) + 1 \in 1..Len(s) PROVE s[(j + 1) + 1] \in A
      OBVIOUS
    <3>1. j + 1 \in 1..Len(s) /\ j + 1 \in 1..(Len(s) - 1)
      BY <1>2
    <3> QED
      BY <1>1, <2>2, <3>1 DEF Steps, Ring
  <2>3. \A j \in Nat : j \in S
    <3> HIDE DEF S
    <3> QED
      BY <2>1, <2>2, Induction
  <2>4. i - 1 \in Nat /\ (i - 1) + 1 = i
    BY <1>2
  <2>5. i - 1 \in S
    BY <2>3, <2>4
  <2> QED
    BY <2>4, <2>5
<1>4. \A m \in 1..Len(s) : s[m] # e
  BY <1>1 DEF Steps
<1>5. s \in Seq(A) /\ s \in Seq(A \ {e})
  <2>1. s \in [1..Len(s) -> A] /\ s \in [1..Len(s) -> A \ {e}]
    BY <1>2, <1>3, <1>4
  <2> QED
    BY <1>2, <2>1
<1>6. \A m \in 1..(Len(s) - 1) : s[m + 1] = nx[s[m]]
  BY <1>1 DEF Steps
<1>12. Follows(nx, A, e, s)
  BY <1>4, <1>5, <1>6 DEF Follows
<1>7. ASSUME NEW i \in 1..Len(s), NEW j \in 1..Len(s), i < j PROVE s[i] # s[j]
  <2> SUFFICES ASSUME s[i] = s[j] PROVE FALSE
    OBVIOUS
  <2>1. j - 1 \in 1..(Len(s) - 1) /\ j - 1 \in 1..Len(s) /\ (j - 1) + 1 = j /\ i <= j - 1
    BY <1>2, <1>7
  <2>2. s[j] = nx[s[j - 1]] /\ s[j - 1] \in A
    BY <1>3, <1>6, <2>1
  <2>3. pv[s[i]] = s[j - 1]
    BY <2>2 DEF Ring
  <2> QED
    BY <1>12, <2>1, <2>3, NoReturn
<1>8. Injective(s)
  BY <1>2, <1>7 DEF Injective
<1>9. Len(s) <= N
  <2> DEFINE T == A \ {e}
  <2>1. IsFiniteSet(T) /\ Cardinality(T) = Cardinality(A) - 1
    BY FS_RemoveElement
  <2>2. Cardinality(A) \in Nat
    BY FS_CardinalityType
  <2>3. s \in [1..Len(s) -> T]
    BY <1>2, <1>3, <1>4
  <2>4. s \in Injection(1..Len(s), T)
    BY <1>2, <1>8, <2>3 DEF Injection, Injective, IsInjective
  <2>5. Cardinality(1..Len(s)) <= Cardinality(T)
    <3> HIDE DEF T
    <3> QED
      BY <2>1, <2>4, FS_Injection
  <2>6. Cardinality(1..Len(s)) = Len(s)
    BY <1>2, FS_Interval
  <2> HIDE DEF T
  <2> QED
    BY <1>0, <1>2, <2>1, <2>2, <2>5, <2>6
<1>10. Ended(nx, e, s)
  BY <1>0, <1>1, <1>2, <1>9
<1>11. ASSUME b # e PROVE Segment(nx, pv, A, Members(s), b, e)
  <2> DEFINE R == Members(s)
  <2>1. s # <<>> /\ s[1] = b /\ DOMAIN s = 1..Len(s) /\ Len(s) \in Nat \ {0}
    BY <1>1, <1>2, <1>11 DEF Steps
  <2>2. \A i \in 1..Len(s) : s[i] \in R
    BY <2>1 DEF Members
  <2>3. ASSUME NEW c \in R PROVE \E i \in 1..Len(s) : c = s[i]
    BY <2>1 DEF Members
  <2>4. nx[s[Len(s)]] = e
    <3>1. s[Len(s)] \in A
      BY <1>3, <2>1
    <3>2. nx[s[Len(s)]] \in A
      BY <3>1 DEF Ring
    <3> QED
      BY <1>0, <1>10, <2>1, <3>2 DEF Ended
  <2> HIDE DEF R
  <2>5. R \subseteq A /\ e \notin R /\ b \in R
    BY <1>3, <1>4, <2>1, <2>2, <2>3
  <2>6. ASSUME NEW c \in R PROVE nx[c] \in R \/ nx[c] = e
    <3>1. PICK i \in 1..Len(s) : c = s[i]
      BY <2>3
    <3>2. CASE i = Len(s)
      BY <2>4, <3>1, <3>2
    <3>3. CASE i # Len(s)
      <4>1. i \in 1..(Len(s) - 1) /\ i + 1 \in 1..Len(s)
        BY <1>2, <3>1, <3>3
      <4> QED
        BY <1>6, <2>2, <3>1, <4>1
    <3> QED
      BY <3>2, <3>3
  <2>7. ASSUME NEW c \in R, c # b PROVE pv[c] \in R
    <3>1. PICK i \in 1..Len(s) : c = s[i]
      BY <2>3
    <3>2. i - 1 \in 1..(Len(s) - 1) /\ i - 1 \in 1..Len(s) /\ (i - 1) + 1 = i
      BY <2>1, <2>7, <3>1
    <3>3. c = nx[s[i - 1]] /\ s[i - 1] \in A
      BY <1>3, <1>6, <3>1, <3>2
    <3>4. pv[c] = s[i - 1]
      BY <3>3 DEF Ring
    <3> QED
      BY <2>2, <3>2, <3>4
  <2>8. pv[b] \notin R
    <3> SUFFICES ASSUME pv[b] \in R PROVE FALSE
      OBVIOUS
    <3>1. PICK i \in 1..Len(s) : pv[b] = s[i]
      BY <2>3
    <3>2. 1 \in 1..Len(s) /\ 1 <= i
      BY <2>1
    <3> QED
      BY <1>12, <2>1, <3>1, <3>2, NoReturn
  <2>9. pv[e] \in R
    <3>1. s[Len(s)] \in A
      BY <1>3, <2>1
    <3>2. pv[e] = s[Len(s)]
      BY <2>4, <3>1 DEF Ring
    <3> QED
      BY <2>1, <2>2, <3>2
  <2>10. Segment(nx, pv, A, R, b, e)
    BY <2>5, <2>6, <2>7, <2>8, <2>9 DEF Segment
  <2> QED
    BY <2>10 DEF R
<1> QED
  BY <1>2, <1>5, <1>8, <1>9, <1>10, <1>11 DEF s

\* All the way round.
LEMMA RingRound ==
  ASSUME NEW nx \in [Cells -> Cells \cup {Null}], NEW pv, NEW A, Ring(nx, pv, A),
         A \subseteq Cells, IsFiniteSet(A), Cardinality(A) <= N + 1, NEW l \in A
  PROVE  Members(Path(nx, nx[l], l)) = A \ {l}
<1>1. nx[l] \in A /\ pv[nx[l]] = l
  BY DEF Ring
<1>2. CASE nx[l] = l
  <2>1. A = {l}
    <3> DEFINE S == {l}
    <3>1. S \subseteq A /\ S # {} /\ \A c \in S : pv[c] \in S
      BY <1>1, <1>2
    <3> HIDE DEF S
    <3>2. S = A
      BY <3>1, RingOnly
    <3> QED
      BY <3>2 DEF S
  <2>2. Path(nx, nx[l], l) = <<>>
    BY <1>1, <1>2, RingPath
  <2> QED
    BY <2>1, <2>2 DEF Members
<1>3. CASE nx[l] # l
  <2> DEFINE b == nx[l]
             R == Members(Path(nx, b, l))
  <2>1. Segment(nx, pv, A, R, b, l)
    BY <1>1, <1>3, RingPath
  <2> HIDE DEF R
  <2>2. ASSUME NEW c \in R \cup {l} PROVE pv[c] \in R \cup {l}
    BY <1>1, <2>1 DEF Segment
  <2>3. R \subseteq A /\ l \notin R
    BY <2>1 DEF Segment
  <2>4. R \cup {l} = A
    <3> DEFINE S == R \cup {l}
    <3>1. S \subseteq A /\ S # {} /\ \A c \in S : pv[c] \in S
      BY <2>2, <2>3
    <3> HIDE DEF S
    <3>2. S = A
      BY <3>1, RingOnly
    <3> QED
      BY <3>2 DEF S
  <2>5. R = A \ {l}
    BY <2>3, <2>4
  <2> QED
    BY <2>5 DEF R
<1> QED
  BY <1>2, <1>3
-----------------------------------------------------------------------------
LinksOf(nx, pv) == [next |-> nx, prev |-> pv]

Pointers == [Cells -> Cells \cup {Null}]

\* The ring A has become the ring B, and nothing else has changed.
Relinked(nx, pv, k, A, B) ==
  /\ k.next \in Pointers /\ k.prev \in Pointers
  /\ Ring(k.next, k.prev, B)
  /\ \A c \in Cells \ (A \cup B) : k.next[c] = nx[c] /\ k.prev[c] = pv[c]

LEMMA SetPointer ==
  ASSUME NEW f \in Pointers, NEW c, NEW d \in Cells \cup {Null}
  PROVE  /\ [f EXCEPT ![c] = d] \in Pointers
         /\ \A x \in Cells : [f EXCEPT ![c] = d][x] = IF x = c THEN d ELSE f[x]
BY DEF Pointers

\* Two cells that are on one ring are not alone.
LEMMA NotAlone ==
  ASSUME NEW nx, NEW pv, NEW A, Ring(nx, pv, A), NEW c \in A, NEW d \in A, c # d
  PROVE  nx[c] # c /\ pv[c] # c
<1> SUFFICES ASSUME nx[c] = c \/ pv[c] = c PROVE FALSE
  OBVIOUS
<1> DEFINE S == {c}
<1>1. pv[c] = c
  BY DEF Ring
<1>2. S \subseteq A /\ S # {} /\ \A x \in S : pv[x] \in S
  BY <1>1
<1>3. S = A
  <2> HIDE DEF S
  <2> QED
    BY <1>2, RingOnly
<1> QED
  BY <1>3

LEMMA SegmentOne ==
  ASSUME NEW nx, NEW pv, NEW A, Ring(nx, pv, A), NEW c \in A, nx[c] # c
  PROVE  Segment(nx, pv, A, {c}, c, nx[c])
<1>1. nx[c] \in A /\ pv[nx[c]] = c /\ pv[c] \in A /\ nx[pv[c]] = c
  BY DEF Ring
<1>2. pv[c] # c
  BY <1>1
<1> QED
  BY <1>1, <1>2 DEF Segment

\* Cut().
LEMMA CutCuts ==
  ASSUME NEW nx \in Pointers, NEW pv \in Pointers, NEW A, A \subseteq Cells, Ring(nx, pv, A),
         NEW R, NEW b, NEW e, Segment(nx, pv, A, R, b, e)
  PROVE  Relinked(nx, pv, Cut(LinksOf(nx, pv), b, e), A, A \ R)
<1> DEFINE k == Cut(LinksOf(nx, pv), b, e)
<1>0. k = Cut(LinksOf(nx, pv), b, e)
  OBVIOUS
<1> HIDE DEF k
<1>1. pv[b] \in A /\ e \in A /\ pv[b] \in Cells /\ e \in Cells
  BY DEF Ring, Segment
<1>2. k.next = [nx EXCEPT ![pv[b]] = e] /\ k.prev = [pv EXCEPT ![e] = pv[b]]
  BY <1>0 DEF Cut, Join, LinksOf
<1>3. k.next \in Pointers /\ k.prev \in Pointers
  BY <1>1, <1>2 DEF Pointers
<1>4. \A c \in Cells : k.next[c] = (IF c = pv[b] THEN e ELSE nx[c])
  BY <1>2 DEF Pointers
<1>5. \A c \in Cells : k.prev[c] = (IF c = e THEN pv[b] ELSE pv[c])
  BY <1>2 DEF Pointers
<1>6. Ring(k.next, k.prev, A \ R)
  BY <1>4, <1>5, RingCut
<1>7. \A c \in Cells \ A : k.next[c] = nx[c] /\ k.prev[c] = pv[c]
  BY <1>1, <1>4, <1>5
<1>8. Relinked(nx, pv, k, A, A \ R)
  BY <1>3, <1>6, <1>7 DEF Relinked
<1> QED
  BY <1>8 DEF k

\* Cut() and Forget(): the nodes of the segment are in no list any more.
LEMMA ForgetCuts ==
  ASSUME NEW nx \in Pointers, NEW pv \in Pointers, NEW A, A \subseteq Cells, Ring(nx, pv, A),
         NEW R, NEW b, NEW e, Segment(nx, pv, A, R, b, e)
  PROVE  Relinked(nx, pv, Forget(Cut(LinksOf(nx, pv), b, e), R), A, A \ R)
<1> DEFINE k == Forget(Cut(LinksOf(nx, pv), b, e), R)
<1>0. k = Forget(Cut(LinksOf(nx, pv), b, e), R)
  OBVIOUS
<1> HIDE DEF k
<1> DEFINE h == Cut(LinksOf(nx, pv), b, e)
<1>1. /\ h.next \in Pointers /\ h.prev \in Pointers
      /\ Ring(h.next, h.prev, A \ R)
      /\ \A c \in Cells \ A : h.next[c] = nx[c] /\ h.prev[c] = pv[c]
  <2>1. Relinked(nx, pv, h, A, A \ R)
    BY CutCuts
  <2> HIDE DEF h
  <2> QED
    BY <2>1 DEF Relinked
<1> HIDE DEF h
<1>2. /\ k.next = [c \in Cells |-> IF c \in R THEN Null ELSE h.next[c]]
      /\ k.prev = [c \in Cells |-> IF c \in R THEN Null ELSE h.prev[c]]
  BY <1>0 DEF Forget, h
<1>3. R \subseteq A
  BY DEF Segment
<1>4. k.next \in Pointers /\ k.prev \in Pointers
  BY <1>1, <1>2 DEF Pointers
<1>5. \A c \in Cells \ R : k.next[c] = h.next[c] /\ k.prev[c] = h.prev[c]
  BY <1>2
<1>6. Ring(k.next, k.prev, A \ R)
  BY <1>1, <1>5, RingKept
<1>7. Relinked(nx, pv, k, A, A \ R)
  BY <1>1, <1>3, <1>4, <1>5, <1>6 DEF Relinked
<1> QED
  BY <1>7 DEF k

\* LinkBefore(), of a cell that is on no ring.
LEMMA LinkLinks ==
  ASSUME NEW nx \in Pointers, NEW pv \in Pointers, NEW A, A \subseteq Cells, Ring(nx, pv, A),
         NEW p \in A, NEW n \in Cells, n \notin A
  PROVE  Relinked(nx, pv, LinkBefore(LinksOf(nx, pv), p, n), A, A \cup {n})
<1> DEFINE k == LinkBefore(LinksOf(nx, pv), p, n)
<1>0. k = LinkBefore(LinksOf(nx, pv), p, n)
  OBVIOUS
<1> HIDE DEF k
<1>1. pv[p] \in A /\ pv[p] \in Cells /\ p \in Cells
  BY DEF Ring
<1>2. /\ k.next = [[nx EXCEPT ![pv[p]] = n] EXCEPT ![n] = p]
      /\ k.prev = [[pv EXCEPT ![n] = pv[p]] EXCEPT ![p] = n]
  BY <1>0 DEF LinkBefore, Join, LinksOf
<1>3. k.next \in Pointers /\ k.prev \in Pointers
  <2>1. [nx EXCEPT ![pv[p]] = n] \in Pointers /\ [pv EXCEPT ![n] = pv[p]] \in Pointers
    BY <1>1, SetPointer
  <2>2. [[nx EXCEPT ![pv[p]] = n] EXCEPT ![n] = p] \in Pointers
    BY <1>1, <2>1, SetPointer
  <2>3. [[pv EXCEPT ![n] = pv[p]] EXCEPT ![p] = n] \in Pointers
    BY <1>1, <2>1, SetPointer
  <2> QED
    BY <1>2, <2>2, <2>3
<1>4. \A c \in Cells : k.next[c] = (IF c = n THEN p ELSE IF c = pv[p] THEN n ELSE nx[c])
  BY <1>2 DEF Pointers
<1>5. \A c \in Cells : k.prev[c] = (IF c = p THEN n ELSE IF c = n THEN pv[p] ELSE pv[c])
  BY <1>2 DEF Pointers
<1>6. /\ \A c \in A : k.next[c] = IF c = pv[p] THEN n ELSE nx[c]
      /\ \A c \in A : k.prev[c] = IF c = p THEN n ELSE pv[c]
      /\ k.next[n] = p /\ k.prev[n] = pv[p]
  BY <1>4, <1>5
<1>7. Line(k.next, k.prev, {n}, n, n)
  BY LineOne
<1>8. Ring(k.next, k.prev, A \cup {n})
  <2> DEFINE R == {n}
  <2>1. A \cap R = {} /\ Line(k.next, k.prev, R, n, n)
    BY <1>7
  <2> HIDE DEF R
  <2>2. Ring(k.next, k.prev, A \cup R)
    BY <1>6, <2>1, RingLink
  <2> QED
    BY <2>2 DEF R
<1>9. \A c \in Cells \ (A \cup {n}) : k.next[c] = nx[c] /\ k.prev[c] = pv[c]
  BY <1>1, <1>4, <1>5
<1>10. Relinked(nx, pv, k, A, A \cup {n})
  BY <1>3, <1>8, <1>9 DEF Relinked
<1> QED
  BY <1>10 DEF k

\* The nodes of t are now between a and p, and all other pointers are as they were.
Threaded(nx, pv, t, a, p, k) ==
  /\ k.next \in Pointers /\ k.prev \in Pointers
  /\ \A c \in Cells \ Members(t) :
       /\ k.next[c] = IF c = a THEN (IF t = <<>> THEN p ELSE t[1]) ELSE nx[c]
       /\ k.prev[c] = IF c = p THEN (IF t = <<>> THEN a ELSE t[Len(t)]) ELSE pv[c]
  /\ \A i \in 1..Len(t) :
       /\ k.next[t[i]] = IF i = Len(t) THEN p ELSE t[i + 1]
       /\ k.prev[t[i]] = IF i = 1 THEN a ELSE t[i - 1]

\* Thread(), pointer by pointer.
LEMMA ThreadThreads ==
  ASSUME NEW nx \in Pointers, NEW pv \in Pointers, NEW t \in Seq(Nodes), Injective(t),
         NEW a \in Cells, NEW p \in Cells, a \notin Members(t), p \notin Members(t)
  PROVE  Threaded(nx, pv, t, a, p, Thread(LinksOf(nx, pv), <<a>> \o t \o <<p>>))
<1> DEFINE k == Thread(LinksOf(nx, pv), <<a>> \o t \o <<p>>)
<1>0. k = Thread(LinksOf(nx, pv), <<a>> \o t \o <<p>>)
  OBVIOUS
<1> HIDE DEF k
<1> DEFINE s == <<a>> \o t \o <<p>>
           n == Len(t)
           Out(c) == {i \in 1..(Len(s) - 1) : s[i] = c}
           In2(c) == {i \in 2..Len(s) : s[i] = c}
<1>1. s \in Seq(Cells) /\ Len(s) = n + 2 /\ n \in Nat
  BY DEF Cells
<1>2. s[1] = a /\ s[n + 2] = p
  OBVIOUS
<1>3. \A i \in 1..n : s[i + 1] = t[i]
  OBVIOUS
<1>4. \A i \in 1..n : t[i] \in Members(t) /\ t[i] \in Cells
  BY DEF Members, Cells
<1>5. \A c \in Members(t) : \E i \in 1..n : c = t[i]
  BY DEF Members
<1>6. \A i, j \in 1..n : t[i] = t[j] => i = j
  BY DEF Injective
<1>7. t = <<>> <=> n = 0
  OBVIOUS
<1>8. /\ k.next = [c \in Cells |-> IF Out(c) = {} THEN nx[c] ELSE s[(CHOOSE i \in Out(c) : s[i] = c) + 1]]
      /\ k.prev = [c \in Cells |-> IF In2(c) = {} THEN pv[c] ELSE s[(CHOOSE i \in In2(c) : s[i] = c) - 1]]
  <2> DEFINE h == LinksOf(nx, pv)
             X == [c \in Cells |-> IF Out(c) = {} THEN h.next[c] ELSE s[(CHOOSE i \in Out(c) : s[i] = c) + 1]]
             Y == [c \in Cells |-> IF In2(c) = {} THEN h.prev[c] ELSE s[(CHOOSE i \in In2(c) : s[i] = c) - 1]]
  <2>1. h.next = nx /\ h.prev = pv
    BY DEF LinksOf
  <2>2. k = Thread(h, s)
    BY <1>0
  <2> HIDE DEF h
  <2>3. k = [next |-> X, prev |-> Y]
    BY <2>2 DEF Thread
  <2>4. k.next = X /\ k.prev = Y
    <3> HIDE DEF X, Y
    <3> QED
      BY <2>3
  <2>5. X = [c \in Cells |-> IF Out(c) = {} THEN nx[c] ELSE s[(CHOOSE i \in Out(c) : s[i] = c) + 1]]
    <3> HIDE DEF Out, s
    <3> QED
      BY <2>1
  <2>6. Y = [c \in Cells |-> IF In2(c) = {} THEN pv[c] ELSE s[(CHOOSE i \in In2(c) : s[i] = c) - 1]]
    <3> HIDE DEF In2, s
    <3> QED
      BY <2>1
  <2> HIDE DEF X, Y
  <2> QED
    BY <2>4, <2>5, <2>6
<1> HIDE DEF s, n
<1>9. ASSUME NEW i \in 2..(n + 1) PROVE i - 1 \in 1..n /\ s[i] = t[i - 1]
  <2>1. i - 1 \in 1..n /\ (i - 1) + 1 = i
    BY <1>1
  <2> QED
    BY <1>3, <2>1
<1>10. Out(a) = {1}
  <2>1. ASSUME NEW i \in Out(a) PROVE i = 1
    <3> SUFFICES ASSUME i # 1 PROVE FALSE
      OBVIOUS
    <3>1. i \in 2..(n + 1)
      BY <1>1
    <3> QED
      BY <1>4, <1>9, <3>1
  <2> QED
    BY <1>1, <1>2, <2>1
<1>11. In2(p) = {n + 2}
  <2>1. ASSUME NEW i \in In2(p) PROVE i = n + 2
    <3> SUFFICES ASSUME i # n + 2 PROVE FALSE
      OBVIOUS
    <3>1. i \in 2..(n + 1)
      BY <1>1
    <3> QED
      BY <1>4, <1>9, <3>1
  <2> QED
    BY <1>1, <1>2, <2>1
<1>12. ASSUME NEW j \in 1..n PROVE Out(t[j]) = {j + 1} /\ In2(t[j]) = {j + 1}
  <2>1. j + 1 \in 1..(Len(s) - 1) /\ j + 1 \in 2..Len(s) /\ s[j + 1] = t[j]
    BY <1>1, <1>3
  <2>2. t[j] # a /\ t[j] # p
    BY <1>4
  <2>3. ASSUME NEW i \in 1..Len(s), s[i] = t[j] PROVE i = j + 1
    <3>1. i # 1 /\ i # n + 2
      BY <1>2, <2>2, <2>3
    <3>2. i \in 2..(n + 1)
      BY <1>1, <3>1
    <3>3. i - 1 \in 1..n /\ t[i - 1] = t[j]
      BY <1>9, <2>3, <3>2
    <3>4. i - 1 = j
      BY <1>6, <3>3
    <3> QED
      BY <3>2, <3>4
  <2> QED
    BY <1>1, <2>1, <2>3
<1>13. ASSUME NEW c \in Cells, c \notin Members(t) PROVE (c # a => Out(c) = {}) /\ (c # p => In2(c) = {})
  <2>1. ASSUME NEW i \in 2..(n + 1) PROVE s[i] # c
    BY <1>4, <1>9, <1>13
  <2>2. ASSUME c # a PROVE Out(c) = {}
    <3>1. ASSUME NEW i \in 1..(Len(s) - 1) PROVE s[i] # c
      <4>1. i = 1 \/ i \in 2..(n + 1)
        BY <1>1
      <4> QED
        BY <1>2, <2>1, <2>2, <4>1
    <3> QED
      BY <3>1
  <2>3. ASSUME c # p PROVE In2(c) = {}
    <3>1. ASSUME NEW i \in 2..Len(s) PROVE s[i] # c
      <4>1. i = n + 2 \/ i \in 2..(n + 1)
        BY <1>1
      <4> QED
        BY <1>2, <2>1, <2>3, <4>1
    <3> QED
      BY <3>1
  <2> QED
    BY <2>2, <2>3
<1>14. ASSUME NEW c \in Cells, NEW j, Out(c) = {j} PROVE k.next[c] = s[j + 1]
  <2> HIDE DEF Out
  <2>1. (CHOOSE i \in Out(c) : s[i] = c) = j
    <3>1. s[j] = c
      BY <1>14 DEF Out
    <3> QED
      BY <1>14, <3>1
  <2>2. k.next[c] = s[(CHOOSE i \in Out(c) : s[i] = c) + 1]
    BY <1>8, <1>14
  <2> QED
    BY <2>1, <2>2
<1>15. ASSUME NEW c \in Cells, NEW j, In2(c) = {j} PROVE k.prev[c] = s[j - 1]
  <2> HIDE DEF In2
  <2>1. (CHOOSE i \in In2(c) : s[i] = c) = j
    <3>1. s[j] = c
      BY <1>15 DEF In2
    <3> QED
      BY <1>15, <3>1
  <2>2. k.prev[c] = s[(CHOOSE i \in In2(c) : s[i] = c) - 1]
    BY <1>8, <1>15
  <2> QED
    BY <2>1, <2>2
<1>16. ASSUME NEW c \in Cells, c \notin Members(t) PROVE (c # a => k.next[c] = nx[c]) /\ (c # p => k.prev[c] = pv[c])
  <2> HIDE DEF Out, In2
  <2> QED
    BY <1>8, <1>13, <1>16
<1>17. k.next[a] = s[2] /\ k.prev[p] = s[n + 1]
  <2> HIDE DEF Out, In2
  <2>1. k.next[a] = s[1 + 1]
    BY <1>10, <1>14
  <2>2. k.prev[p] = s[(n + 2) - 1]
    BY <1>11, <1>15
  <2>3. (n + 2) - 1 = n + 1
    BY <1>1
  <2> QED
    BY <2>1, <2>2, <2>3
<1>18. s[2] = (IF t = <<>> THEN p ELSE t[1]) /\ s[n + 1] = (IF t = <<>> THEN a ELSE t[n])
  <2>1. CASE n = 0
    BY <1>2, <1>7, <2>1
  <2>2. CASE n # 0
    <3>1. 1 \in 1..n /\ n \in 1..n
      BY <1>1, <2>2
    <3>2. s[1 + 1] = t[1] /\ s[n + 1] = t[n]
      BY <1>3, <3>1
    <3> QED
      BY <1>7, <2>2, <3>2
  <2> QED
    BY <2>1, <2>2
<1>19. ASSUME NEW j \in 1..n
       PROVE  /\ k.next[t[j]] = IF j = n THEN p ELSE t[j + 1]
              /\ k.prev[t[j]] = IF j = 1 THEN a ELSE t[j - 1]
  <2> HIDE DEF Out, In2
  <2>1. k.next[t[j]] = s[(j + 1) + 1] /\ k.prev[t[j]] = s[(j + 1) - 1]
    BY <1>4, <1>12, <1>14, <1>15
  <2>2. k.next[t[j]] = IF j = n THEN p ELSE t[j + 1]
    <3>1. CASE j = n
      BY <1>1, <1>2, <2>1, <3>1
    <3>2. CASE j # n
      <4>1. j + 1 \in 1..n
        BY <1>1, <3>2
      <4> QED
        BY <1>3, <2>1, <3>2, <4>1
    <3> QED
      BY <3>1, <3>2
  <2>3. k.prev[t[j]] = IF j = 1 THEN a ELSE t[j - 1]
    <3>1. CASE j = 1
      BY <1>2, <2>1, <3>1
    <3>2. CASE j # 1
      <4>1. j - 1 \in 1..n /\ (j + 1) - 1 = (j - 1) + 1
        BY <1>1, <3>2
      <4> QED
        BY <1>3, <2>1, <3>2, <4>1
    <3> QED
      BY <3>1, <3>2
  <2> QED
    BY <2>2, <2>3
<1>20. k.next \in Pointers /\ k.prev \in Pointers
  <2> HIDE DEF Out, In2
  <2>1. \A j \in 1..n : j # n => t[j + 1] \in Cells
    BY <1>1, <1>4
  <2>2. \A j \in 1..n : j # 1 => t[j - 1] \in Cells
    BY <1>1, <1>4
  <2>3. s[2] \in Cells /\ s[n + 1] \in Cells
    BY <1>1
  <2>4. ASSUME NEW c \in Cells PROVE k.next[c] \in Cells \cup {Null} /\ k.prev[c] \in Cells \cup {Null}
    <3>1. CASE c \in Members(t)
      <4>1. PICK j \in 1..n : c = t[j]
        BY <1>5, <3>1
      <4> QED
        BY <1>19, <2>1, <2>2, <4>1
    <3>2. CASE c \notin Members(t)
      <4>1. k.next[c] \in {nx[c], s[2]} /\ k.prev[c] \in {pv[c], s[n + 1]}
        BY <1>16, <1>17, <3>2
      <4>2. nx[c] \in Cells \cup {Null} /\ pv[c] \in Cells \cup {Null}
        BY DEF Pointers
      <4> QED
        BY <2>3, <4>1, <4>2
    <3> QED
      BY <3>1, <3>2
  <2>5. k.next = [c \in Cells |-> k.next[c]] /\ k.prev = [c \in Cells |-> k.prev[c]]
    <3> DEFINE X(c) == IF Out(c) = {} THEN nx[c] ELSE s[(CHOOSE i \in Out(c) : s[i] = c) + 1]
               Y(c) == IF In2(c) = {} THEN pv[c] ELSE s[(CHOOSE i \in In2(c) : s[i] = c) - 1]
    <3>1. k.next = [c \in Cells |-> X(c)] /\ k.prev = [c \in Cells |-> Y(c)]
      BY <1>8
    <3> HIDE DEF X, Y
    <3> QED
      BY <3>1
  <2> QED
    BY <2>4, <2>5 DEF Pointers
<1>21. ASSUME NEW c \in Cells \ Members(t)
       PROVE  /\ k.next[c] = IF c = a THEN (IF t = <<>> THEN p ELSE t[1]) ELSE nx[c]
              /\ k.prev[c] = IF c = p THEN (IF t = <<>> THEN a ELSE t[n]) ELSE pv[c]
  BY <1>16, <1>17, <1>18
<1>22. Threaded(nx, pv, t, a, p, k)
  BY <1>19, <1>20, <1>21 DEF n, Threaded
<1> QED
  BY <1>22 DEF k, s

\* Thread(), of new nodes into a ring.
LEMMA ThreadLinks ==
  ASSUME NEW nx \in Pointers, NEW pv \in Pointers, NEW A, A \subseteq Cells, Ring(nx, pv, A), NEW p \in A,
         NEW t \in Seq(Nodes), Injective(t), A \cap Members(t) = {}
  PROVE  Relinked(nx, pv, Thread(LinksOf(nx, pv), <<pv[p]>> \o t \o <<p>>), A, A \cup Members(t))
<1> DEFINE k == Thread(LinksOf(nx, pv), <<pv[p]>> \o t \o <<p>>)
<1>0. k = Thread(LinksOf(nx, pv), <<pv[p]>> \o t \o <<p>>)
  OBVIOUS
<1> HIDE DEF k
<1>1. p \in Cells /\ pv[p] \in Cells /\ pv[p] \in A /\ nx[pv[p]] = p
  BY DEF Ring
<1>2. p \notin Members(t) /\ pv[p] \notin Members(t)
  BY <1>1
<1>3. /\ k.next \in Pointers /\ k.prev \in Pointers
      /\ \A c \in Cells \ Members(t) :
           /\ k.next[c] = IF c = pv[p] THEN (IF t = <<>> THEN p ELSE t[1]) ELSE nx[c]
           /\ k.prev[c] = IF c = p THEN (IF t = <<>> THEN pv[p] ELSE t[Len(t)]) ELSE pv[c]
      /\ \A i \in 1..Len(t) :
           /\ k.next[t[i]] = IF i = Len(t) THEN p ELSE t[i + 1]
           /\ k.prev[t[i]] = IF i = 1 THEN pv[p] ELSE t[i - 1]
  <2>1. Threaded(nx, pv, t, pv[p], p, k)
    BY <1>1, <1>2, ThreadThreads DEF k
  <2> QED
    BY <2>1 DEF Threaded
<1>4. \A c \in Cells \ (A \cup Members(t)) : k.next[c] = nx[c] /\ k.prev[c] = pv[c]
  BY <1>1, <1>3
<1>5. A \subseteq Cells \ Members(t)
  OBVIOUS
<1>6. Ring(k.next, k.prev, A \cup Members(t))
  <2>1. CASE t = <<>>
    <3>1. Members(t) = {}
      BY <2>1 DEF Members
    <3>2. \A c \in A : k.next[c] = nx[c] /\ k.prev[c] = pv[c]
      BY <1>1, <1>3, <1>5, <2>1
    <3>3. Ring(k.next, k.prev, A)
      BY <3>2, RingKept
    <3> QED
      BY <3>1, <3>3
  <2>2. CASE t # <<>>
    <3> DEFINE b == t[1]
               z == t[Len(t)]
               R == Members(t)
    <3>1. 1 \in 1..Len(t) /\ Len(t) \in 1..Len(t)
      BY <2>2
    <3>2. ASSUME NEW i \in 1..(Len(t) - 1) PROVE k.next[t[i]] = t[i + 1] /\ k.prev[t[i + 1]] = t[i]
      <4>1. i \in 1..Len(t) /\ i + 1 \in 1..Len(t) /\ i # Len(t) /\ i + 1 # 1 /\ (i + 1) - 1 = i
        OBVIOUS
      <4> QED
        BY <1>3, <4>1
    <3>3. Line(k.next, k.prev, R, b, z)
      BY <2>2, <3>2, LineOfSequence
    <3>4. k.next[z] = p /\ k.prev[b] = pv[p]
      BY <1>3, <3>1
    <3>5. /\ \A c \in A : k.next[c] = IF c = pv[p] THEN b ELSE nx[c]
          /\ \A c \in A : k.prev[c] = IF c = p THEN z ELSE pv[c]
      BY <1>3, <1>5, <2>2
    <3>6. A \cap R = {}
      OBVIOUS
    <3> HIDE DEF b, z, R
    <3>7. Ring(k.next, k.prev, A \cup R)
      BY <3>3, <3>4, <3>5, <3>6, RingLink
    <3> QED
      BY <3>7 DEF R
  <2> QED
    BY <2>1, <2>2
<1>7. Relinked(nx, pv, k, A, A \cup Members(t))
  BY <1>3, <1>4, <1>6 DEF Relinked
<1> QED
  BY <1>7 DEF k

\* The cells from b to the one before e are now before p.
Transferred(nx, pv, p, b, e, k) ==
  /\ k.next \in Pointers /\ k.prev \in Pointers
  /\ \A c \in Cells : k.next[c] = (IF c = pv[p] THEN b ELSE IF c = pv[b] THEN e
                                   ELSE IF c = pv[e] THEN p ELSE nx[c])
  /\ \A c \in Cells : k.prev[c] = (IF c = b THEN pv[p] ELSE IF c = e THEN pv[b]
                                   ELSE IF c = p THEN pv[e] ELSE pv[c])

\* Transfer(), pointer by pointer.
LEMMA TransferSets ==
  ASSUME NEW nx \in Pointers, NEW pv \in Pointers, NEW p \in Cells, NEW b \in Cells, NEW e \in Cells,
         pv[p] \in Cells, pv[b] \in Cells, pv[e] \in Cells
  PROVE  Transferred(nx, pv, p, b, e, Transfer(LinksOf(nx, pv), p, b, e))
<1> DEFINE k == Transfer(LinksOf(nx, pv), p, b, e)
           f1 == [nx EXCEPT ![pv[e]] = p]
           f2 == [f1 EXCEPT ![pv[b]] = e]
           f3 == [f2 EXCEPT ![pv[p]] = b]
           g1 == [pv EXCEPT ![p] = pv[e]]
           g2 == [g1 EXCEPT ![e] = pv[b]]
           g3 == [g2 EXCEPT ![b] = pv[p]]
<1>1. k.next = f3 /\ k.prev = g3
  BY DEF Transfer, Join, LinksOf
<1>2. f1 \in Pointers /\ \A c \in Cells : f1[c] = IF c = pv[e] THEN p ELSE nx[c]
  BY DEF Pointers
<1>3. g1 \in Pointers /\ \A c \in Cells : g1[c] = IF c = p THEN pv[e] ELSE pv[c]
  BY DEF Pointers
<1> HIDE DEF f1, g1
<1>4. f2 \in Pointers /\ \A c \in Cells : f2[c] = IF c = pv[b] THEN e ELSE f1[c]
  BY <1>2 DEF Pointers
<1>5. g2 \in Pointers /\ \A c \in Cells : g2[c] = IF c = e THEN pv[b] ELSE g1[c]
  BY <1>3 DEF Pointers
<1> HIDE DEF f2, g2
<1>6. f3 \in Pointers /\ \A c \in Cells : f3[c] = IF c = pv[p] THEN b ELSE f2[c]
  BY <1>4 DEF Pointers
<1>7. g3 \in Pointers /\ \A c \in Cells : g3[c] = IF c = b THEN pv[p] ELSE g2[c]
  BY <1>5 DEF Pointers
<1> HIDE DEF f3, g3, k
<1>8. \A c \in Cells : k.next[c] = (IF c = pv[p] THEN b ELSE IF c = pv[b] THEN e
                                    ELSE IF c = pv[e] THEN p ELSE nx[c])
  BY <1>1, <1>2, <1>4, <1>6
<1>9. \A c \in Cells : k.prev[c] = (IF c = b THEN pv[p] ELSE IF c = e THEN pv[b]
                                    ELSE IF c = p THEN pv[e] ELSE pv[c])
  BY <1>1, <1>3, <1>5, <1>7
<1>10. k.next \in Pointers /\ k.prev \in Pointers
  BY <1>1, <1>6, <1>7
<1>11. Transferred(nx, pv, p, b, e, k)
  BY <1>8, <1>9, <1>10 DEF Transferred
<1> QED
  BY <1>11 DEF k

\* A segment goes from one ring to another,
LEMMA TransferAway ==
  ASSUME NEW nx \in Pointers, NEW pv \in Pointers, NEW A, A \subseteq Cells, Ring(nx, pv, A),
         NEW R, NEW b, NEW e, Segment(nx, pv, A, R, b, e),
         NEW B, B \subseteq Cells, Ring(nx, pv, B), A \cap B = {}, NEW p \in B
  PROVE  LET k == Transfer(LinksOf(nx, pv), p, b, e) IN
         /\ Relinked(nx, pv, k, A \cup B, A \ R)
         /\ Relinked(nx, pv, k, A \cup B, B \cup R)
<1> DEFINE k == Transfer(LinksOf(nx, pv), p, b, e)
           z == pv[e]
<1>1. /\ b \in R /\ z \in R /\ R \subseteq A /\ e \in A \ R /\ pv[b] \in A \ R
      /\ pv[p] \in B /\ nx[pv[p]] = p
  BY DEF Segment, Ring
<1>2. /\ p \in Cells /\ b \in Cells /\ e \in Cells
      /\ pv[p] \in Cells /\ pv[b] \in Cells /\ pv[e] \in Cells
  BY <1>1
<1>3. /\ k.next \in Pointers /\ k.prev \in Pointers
      /\ \A c \in Cells : k.next[c] = (IF c = pv[p] THEN b ELSE IF c = pv[b] THEN e
                                       ELSE IF c = z THEN p ELSE nx[c])
      /\ \A c \in Cells : k.prev[c] = (IF c = b THEN pv[p] ELSE IF c = e THEN pv[b]
                                       ELSE IF c = p THEN z ELSE pv[c])
  <2>1. Transferred(nx, pv, p, b, e, k)
    BY <1>2, TransferSets
  <2> HIDE DEF k
  <2> QED
    BY <2>1 DEF Transferred
<1>4. Line(nx, pv, R, b, z)
  BY LineOfSegment
<1> HIDE DEF k, z
<1>5. /\ \A c \in A \ R : k.next[c] = IF c = pv[b] THEN e ELSE nx[c]
      /\ \A c \in A \ R : k.prev[c] = IF c = e THEN pv[b] ELSE pv[c]
  BY <1>1, <1>3
<1>6. Ring(k.next, k.prev, A \ R)
  BY <1>5, RingCut
<1>7. /\ \A c \in R : c # z => k.next[c] = nx[c]
      /\ \A c \in R : c # b => k.prev[c] = pv[c]
  BY <1>1, <1>3
<1>8. Line(k.next, k.prev, R, b, z)
  BY <1>4, <1>7, LineKept
<1>9. /\ \A c \in B : k.next[c] = IF c = pv[p] THEN b ELSE nx[c]
      /\ \A c \in B : k.prev[c] = IF c = p THEN z ELSE pv[c]
  BY <1>1, <1>3
<1>10. k.next[z] = p /\ k.prev[b] = pv[p]
  BY <1>1, <1>3
<1>11. B \cap R = {}
  BY <1>1
<1>12. Ring(k.next, k.prev, B \cup R)
  BY <1>8, <1>9, <1>10, <1>11, RingLink
<1>13. \A c \in Cells \ (A \cup B) : k.next[c] = nx[c] /\ k.prev[c] = pv[c]
  BY <1>1, <1>3
<1>14. Relinked(nx, pv, k, A \cup B, A \ R) /\ Relinked(nx, pv, k, A \cup B, B \cup R)
  BY <1>3, <1>6, <1>12, <1>13 DEF Relinked
<1> QED
  BY <1>14 DEF k

\* or to another place on its own.
LEMMA TransferWithin ==
  ASSUME NEW nx \in Pointers, NEW pv \in Pointers, NEW A, A \subseteq Cells, Ring(nx, pv, A),
         NEW R, NEW b, NEW e, Segment(nx, pv, A, R, b, e), NEW p \in A, p \notin R, p # e
  PROVE  Relinked(nx, pv, Transfer(LinksOf(nx, pv), p, b, e), A, A)
<1> DEFINE k == Transfer(LinksOf(nx, pv), p, b, e)
           h == Cut(LinksOf(nx, pv), b, e)
           z == pv[e]
           B == A \ R
<1>1. /\ b \in R /\ z \in R /\ R \subseteq A /\ e \in B /\ pv[b] \in B /\ p \in B
      /\ pv[p] \in A /\ nx[pv[p]] = p
  BY DEF Segment, Ring
<1>2. /\ p \in Cells /\ b \in Cells /\ e \in Cells
      /\ pv[p] \in Cells /\ pv[b] \in Cells /\ pv[e] \in Cells
  BY <1>1
<1>3. pv[p] \notin R
  BY <1>1 DEF Segment
<1>4. /\ k.next \in Pointers /\ k.prev \in Pointers
      /\ \A c \in Cells : k.next[c] = (IF c = pv[p] THEN b ELSE IF c = pv[b] THEN e
                                       ELSE IF c = z THEN p ELSE nx[c])
      /\ \A c \in Cells : k.prev[c] = (IF c = b THEN pv[p] ELSE IF c = e THEN pv[b]
                                       ELSE IF c = p THEN z ELSE pv[c])
  <2>1. Transferred(nx, pv, p, b, e, k)
    BY <1>2, TransferSets
  <2> HIDE DEF k
  <2> QED
    BY <2>1 DEF Transferred
<1>5. Line(nx, pv, R, b, z)
  BY LineOfSegment
<1>6. Ring(h.next, h.prev, B)
  <2>1. Relinked(nx, pv, h, A, A \ R)
    BY CutCuts
  <2> HIDE DEF h
  <2> QED
    BY <2>1 DEF Relinked
<1>7. /\ h.next = [nx EXCEPT ![pv[b]] = e] /\ h.prev = [pv EXCEPT ![e] = pv[b]]
  BY DEF Cut, Join, LinksOf
<1> HIDE DEF k, h, z
<1>8. /\ \A c \in Cells : h.next[c] = IF c = pv[b] THEN e ELSE nx[c]
      /\ \A c \in Cells : h.prev[c] = IF c = e THEN pv[b] ELSE pv[c]
  BY <1>7 DEF Pointers
<1>9. /\ \A c \in R : c # z => k.next[c] = nx[c]
      /\ \A c \in R : c # b => k.prev[c] = pv[c]
  BY <1>1, <1>3, <1>4
<1>10. Line(k.next, k.prev, R, b, z)
  BY <1>5, <1>9, LineKept
<1>11. h.prev[p] = pv[p]
  BY <1>2, <1>8
<1>12. /\ \A c \in B : k.next[c] = IF c = h.prev[p] THEN b ELSE h.next[c]
       /\ \A c \in B : k.prev[c] = IF c = p THEN z ELSE h.prev[c]
  BY <1>1, <1>4, <1>8, <1>11
<1>13. k.next[z] = p /\ k.prev[b] = h.prev[p]
  BY <1>1, <1>3, <1>4, <1>11
<1>14. B \cap R = {} /\ p \in B
  BY <1>1
<1>15. B \cup R = A
  BY <1>1
<1> HIDE DEF B
<1>16. Ring(k.next, k.prev, B \cup R)
  BY <1>6, <1>10, <1>12, <1>13, <1>14, RingLink
<1>17. \A c \in Cells \ A : k.next[c] = nx[c] /\ k.prev[c] = pv[c]
  BY <1>1, <1>4 DEF B
<1>18. Relinked(nx, pv, k, A, A)
  BY <1>4, <1>15, <1>16, <1>17 DEF Relinked
<1> QED
  BY <1>18 DEF k

\* clear(): the root is alone.
LEMMA ClearLinks ==
  ASSUME NEW nx \in Pointers, NEW pv \in Pointers, NEW A, A \subseteq Cells, NEW l \in A
  PROVE  Relinked(nx, pv, Forget(Join(LinksOf(nx, pv), l, l), A \ {l}), A, {l})
<1> DEFINE k == Forget(Join(LinksOf(nx, pv), l, l), A \ {l})
           f == [nx EXCEPT ![l] = l]
           g == [pv EXCEPT ![l] = l]
<1>1. /\ k.next = [c \in Cells |-> IF c \in A \ {l} THEN Null ELSE f[c]]
      /\ k.prev = [c \in Cells |-> IF c \in A \ {l} THEN Null ELSE g[c]]
  BY DEF Forget, Join, LinksOf
<1>2. l \in Cells
  OBVIOUS
<1>3. /\ f \in Pointers /\ \A c \in Cells : f[c] = IF c = l THEN l ELSE nx[c]
      /\ g \in Pointers /\ \A c \in Cells : g[c] = IF c = l THEN l ELSE pv[c]
  BY <1>2, SetPointer
<1> HIDE DEF k, f, g
<1>4. k.next \in Pointers /\ k.prev \in Pointers
  BY <1>1, <1>3 DEF Pointers
<1>5. k.next[l] = l /\ k.prev[l] = l
  BY <1>1, <1>2, <1>3
<1>6. Ring(k.next, k.prev, {l})
  BY <1>5, RingAlone
<1>7. \A c \in Cells \ (A \cup {l}) : k.next[c] = nx[c] /\ k.prev[c] = pv[c]
  BY <1>1, <1>3
<1>8. Relinked(nx, pv, k, A, {l})
  BY <1>4, <1>6, <1>7 DEF Relinked
<1> QED
  BY <1>8 DEF k

\* assign(): the root with the new nodes only.
LEMMA AssignLinks ==
  ASSUME NEW nx \in Pointers, NEW pv \in Pointers, NEW A, A \subseteq Cells, NEW l \in A,
         NEW t \in Seq(Nodes), Injective(t), A \cap Members(t) = {}
  PROVE  Relinked(nx, pv, Forget(Thread(LinksOf(nx, pv), <<l>> \o t \o <<l>>), A \ {l}),
                  A, {l} \cup Members(t))
<1> DEFINE h == Thread(LinksOf(nx, pv), <<l>> \o t \o <<l>>)
           k == Forget(h, A \ {l})
           R == Members(t)
<1>1. l \in Cells /\ l \notin R
  OBVIOUS
<1>2. Threaded(nx, pv, t, l, l, h)
  BY <1>1, ThreadThreads
<1>3. /\ k.next = [c \in Cells |-> IF c \in A \ {l} THEN Null ELSE h.next[c]]
      /\ k.prev = [c \in Cells |-> IF c \in A \ {l} THEN Null ELSE h.prev[c]]
  <2> HIDE DEF h
  <2> QED
    BY DEF Forget
<1>4. \A i \in 1..Len(t) : t[i] \in R /\ t[i] \in Cells
  BY DEF Members, Cells
<1> HIDE DEF h, k, R
<1>5. k.next \in Pointers /\ k.prev \in Pointers
  BY <1>2, <1>3 DEF Pointers, Threaded
<1>6. A \cap R = {}
  BY DEF R
<1>7. \A c \in Cells \ (A \cup R) : k.next[c] = nx[c] /\ k.prev[c] = pv[c]
  BY <1>2, <1>3 DEF Threaded, R
<1>8. /\ k.next[l] = IF t = <<>> THEN l ELSE t[1]
      /\ k.prev[l] = IF t = <<>> THEN l ELSE t[Len(t)]
  BY <1>1, <1>2, <1>3 DEF Threaded, R
<1>9. ASSUME NEW i \in 1..Len(t)
      PROVE  /\ k.next[t[i]] = IF i = Len(t) THEN l ELSE t[i + 1]
             /\ k.prev[t[i]] = IF i = 1 THEN l ELSE t[i - 1]
  <2>1. t[i] \in Cells /\ t[i] \notin A
    BY <1>4, <1>6
  <2>2. k.next[t[i]] = h.next[t[i]] /\ k.prev[t[i]] = h.prev[t[i]]
    BY <1>3, <2>1
  <2> QED
    BY <1>2, <2>2 DEF Threaded
<1>10. Ring(k.next, k.prev, {l} \cup R)
  <2>1. CASE t = <<>>
    <3>1. R = {}
      BY <2>1 DEF R, Members
    <3>2. k.next[l] = l /\ k.prev[l] = l
      BY <1>8, <2>1
    <3>3. Ring(k.next, k.prev, {l})
      BY <3>2, RingAlone
    <3> QED
      BY <3>1, <3>3
  <2>2. CASE t # <<>>
    <3> DEFINE b == t[1]
               z == t[Len(t)]
               f == [c \in {l} |-> l]
               B == {l}
    <3>1. 1 \in 1..Len(t) /\ Len(t) \in 1..Len(t)
      BY <2>2
    <3>2. ASSUME NEW i \in 1..(Len(t) - 1) PROVE k.next[t[i]] = t[i + 1] /\ k.prev[t[i + 1]] = t[i]
      <4>1. i \in 1..Len(t) /\ i + 1 \in 1..Len(t) /\ i # Len(t) /\ i + 1 # 1 /\ (i + 1) - 1 = i
        OBVIOUS
      <4> QED
        BY <1>9, <4>1
    <3>3. Line(k.next, k.prev, R, b, z)
      BY <2>2, <3>2, LineOfSequence DEF R
    <3>4. Ring(f, f, B)
      <4>1. f[l] = l
        OBVIOUS
      <4> QED
        BY <4>1, RingAlone
    <3>5. /\ \A c \in B : k.next[c] = IF c = f[l] THEN b ELSE f[c]
          /\ \A c \in B : k.prev[c] = IF c = l THEN z ELSE f[c]
          /\ k.next[z] = l /\ k.prev[b] = f[l]
      BY <1>8, <1>9, <2>2, <3>1
    <3>6. B \cap R = {} /\ l \in B
      BY <1>1 DEF R
    <3> HIDE DEF b, z, f, B
    <3>7. Ring(k.next, k.prev, B \cup R)
      BY <3>3, <3>4, <3>5, <3>6, RingLink
    <3> QED
      BY <3>7 DEF B
  <2> QED
    BY <2>1, <2>2
<1>11. \A c \in Cells \ (A \cup ({l} \cup R)) : k.next[c] = nx[c] /\ k.prev[c] = pv[c]
  BY <1>7
<1>12. Relinked(nx, pv, k, A, {l} \cup R)
  BY <1>5, <1>10, <1>11 DEF Relinked
<1> QED
  BY <1>12 DEF k, h, R

\* reverse(): the same ring the other way round.
LEMMA ReverseLinks ==
  ASSUME NEW nx \in Pointers, NEW pv \in Pointers, NEW A, A \subseteq Cells, Ring(nx, pv, A)
  PROVE  Relinked(nx, pv, Reversed(LinksOf(nx, pv), A), A, A)
<1> DEFINE k == Reversed(LinksOf(nx, pv), A)
<1>1. /\ k.next = [c \in Cells |-> IF c \in A THEN pv[c] ELSE nx[c]]
      /\ k.prev = [c \in Cells |-> IF c \in A THEN nx[c] ELSE pv[c]]
  BY DEF Reversed, LinksOf
<1> HIDE DEF k
<1>2. k.next \in Pointers /\ k.prev \in Pointers
  BY <1>1 DEF Pointers
<1>3. \A c \in A : k.next[c] = pv[c] /\ k.prev[c] = nx[c]
  BY <1>1
<1>4. Ring(k.next, k.prev, A)
  BY <1>3, RingReversed
<1>5. \A c \in Cells \ (A \cup A) : k.next[c] = nx[c] /\ k.prev[c] = pv[c]
  BY <1>1
<1>6. Relinked(nx, pv, k, A, A)
  BY <1>2, <1>4, <1>5 DEF Relinked
<1> QED
  BY <1>6 DEF k

\* shift_forward() and shift_backwards(): the root leaves and comes back elsewhere.
LEMMA ShiftLinks ==
  ASSUME NEW nx \in Pointers, NEW pv \in Pointers, NEW A, A \subseteq Cells, Ring(nx, pv, A),
         NEW l \in A, nx[l] # l, NEW q \in A \ {l}
  PROVE  Relinked(nx, pv, LinkBefore(Cut(LinksOf(nx, pv), l, nx[l]), q, l), A, A)
<1> DEFINE h == Cut(LinksOf(nx, pv), l, nx[l])
           f == h.next
           g == h.prev
           B == A \ {l}
           k == LinkBefore(LinksOf(f, g), q, l)
<1>1. Relinked(nx, pv, h, A, B)
  <2>1. Segment(nx, pv, A, {l}, l, nx[l])
    BY SegmentOne
  <2> QED
    BY <2>1, CutCuts
<1>2. h = LinksOf(f, g)
  BY DEF Cut, Join, LinksOf
<1> HIDE DEF h
<1>3. f \in Pointers /\ g \in Pointers /\ Ring(f, g, B) /\ B \subseteq Cells /\ l \in Cells /\ l \notin B
  BY <1>1 DEF Relinked
<1>4. \A c \in Cells \ A : f[c] = nx[c] /\ g[c] = pv[c]
  BY <1>1 DEF Relinked
<1> HIDE DEF f, g
<1>5. q \in B
  OBVIOUS
<1>6. B \cup {l} = A
  OBVIOUS
<1> HIDE DEF B
<1>7. Relinked(f, g, k, B, B \cup {l})
  BY <1>3, <1>5, LinkLinks
<1> HIDE DEF k
<1>8. Relinked(nx, pv, k, A, A)
  BY <1>4, <1>6, <1>7 DEF Relinked
<1>9. LinkBefore(h, q, l) = k
  BY <1>2 DEF k
<1> QED
  BY <1>8, <1>9 DEF h

Swapped(A, a, b) == {IF c = a THEN b ELSE IF c = b THEN a ELSE c : c \in A}

\* SwapNodes(): every ring goes on with the two cells in each other's place.
LEMMA SwapLinks ==
  ASSUME NEW nx \in Pointers, NEW pv \in Pointers, NEW a \in Cells, NEW b \in Cells
  PROVE  LET k == SwapNodes(LinksOf(nx, pv), a, b) IN
         /\ k.next \in Pointers /\ k.prev \in Pointers
         /\ \A A \in SUBSET Cells : Ring(nx, pv, A) => Ring(k.next, k.prev, Swapped(A, a, b))
<1> DEFINE k == SwapNodes(LinksOf(nx, pv), a, b)
           Trade(c) == IF c = a THEN b ELSE IF c = b THEN a ELSE c
           t == [c \in Cells \cup {Null} |-> Trade(c)]
<1>1. /\ k.next = [c \in Cells |-> Trade(nx[Trade(c)])]
      /\ k.prev = [c \in Cells |-> Trade(pv[Trade(c)])]
  BY DEF SwapNodes, LinksOf
<1>2. \A c \in Cells : Trade(c) \in Cells /\ Trade(Trade(c)) = c /\ t[c] = Trade(c)
  OBVIOUS
<1>3. \A c \in Cells \cup {Null} : Trade(c) \in Cells \cup {Null} /\ t[c] = Trade(c)
  OBVIOUS
<1>4. \A c, d \in Cells : Trade(c) = Trade(d) => c = d
  OBVIOUS
<1> HIDE DEF k, t
<1>5. ASSUME NEW c \in Cells
      PROVE  k.next[Trade(c)] = Trade(nx[c]) /\ k.prev[Trade(c)] = Trade(pv[c])
  <2>1. Trade(c) \in Cells /\ Trade(Trade(c)) = c
    BY <1>2
  <2> HIDE DEF Trade
  <2> QED
    BY <1>1, <2>1
<1>6. k.next \in Pointers /\ k.prev \in Pointers
  <2> HIDE DEF Trade
  <2> QED
    BY <1>1, <1>2, <1>3 DEF Pointers
<1>7. ASSUME NEW A \in SUBSET Cells, Ring(nx, pv, A) PROVE Ring(k.next, k.prev, Swapped(A, a, b))
  <2> DEFINE B == Swapped(A, a, b)
  <2>1. B = {t[c] : c \in A}
    <3>1. \A c \in A : t[c] = Trade(c)
      BY <1>2
    <3> QED
      BY <3>1 DEF Swapped
  <2> HIDE DEF B, Trade
  <2>2. \A c, d \in A : t[c] = t[d] => c = d
    BY <1>2, <1>4
  <2>3. \A c \in A : nx[c] \in Cells /\ pv[c] \in Cells
    BY <1>7 DEF Ring
  <2>4. \A c \in A : k.next[t[c]] = t[nx[c]] /\ k.prev[t[c]] = t[pv[c]]
    BY <1>2, <1>5, <2>3
  <2>5. Ring(k.next, k.prev, B)
    BY <1>7, <2>1, <2>2, <2>4, RingRenamed
  <2> QED
    BY <2>5 DEF B
<1> QED
  BY <1>6, <1>7 DEF k
-----------------------------------------------------------------------------
LEMMA StepsKept ==
  ASSUME NEW f, NEW g, NEW b, NEW e, NEW s, Steps(f, b, e, s), \A i \in 1..Len(s) : g[s[i]] = f[s[i]]
  PROVE  Steps(g, b, e, s) /\ (Ended(f, e, s) => Ended(g, e, s))
<1>1. s \in Seq(Cells)
  BY DEF Steps
<1>2. \A i \in 1..(Len(s) - 1) : i \in 1..Len(s)
  BY <1>1
<1>3. Steps(g, b, e, s)
  BY <1>2 DEF Steps
<1>4. s # <<>> => g[s[Len(s)]] = f[s[Len(s)]]
  <2>1. s # <<>> => Len(s) \in 1..Len(s)
    BY <1>1
  <2> QED
    BY <2>1
<1> QED
  BY <1>3, <1>4 DEF Ended

\* Nodes of which none is twice in it make a sequence that is no longer than there are nodes.
LEMMA InjectiveShort ==
  ASSUME NEW t \in Seq(Nodes), Injective(t)
  PROVE  /\ Len(t) <= N
         /\ IsFiniteSet(Members(t)) /\ Cardinality(Members(t)) = Len(t)
<1>1. IsFiniteSet(Nodes) /\ N = Cardinality(Nodes)
  BY ListAssumption DEF N
<1>2. DOMAIN t = 1..Len(t) /\ Len(t) \in Nat
  OBVIOUS
<1>3. t \in [1..Len(t) -> Members(t)]
  BY DEF Members
<1>4. t \in Bijection(1..Len(t), Members(t))
  <2>1. t \in Injection(1..Len(t), Members(t))
    BY <1>3 DEF Injection, IsInjective, Injective
  <2>2. \A c \in Members(t) : \E i \in 1..Len(t) : t[i] = c
    BY <1>2 DEF Members
  <2> QED
    BY <1>3, <2>1, <2>2 DEF Bijection, Surjection
<1>5. ExistsBijection(1..Len(t), Members(t))
  BY <1>4 DEF ExistsBijection
<1>6. Cardinality(Members(t)) = Len(t)
  BY <1>2, <1>5, FS_CountingElements
<1>7. Members(t) \subseteq Nodes
  BY DEF Members
<1>8. IsFiniteSet(Members(t)) /\ Cardinality(Members(t)) <= N
  BY <1>1, <1>7, FS_Subset
<1> QED
  BY <1>6, <1>8

LEMMA ConcatAssoc ==
  ASSUME NEW S, NEW r \in Seq(S), NEW s \in Seq(S), NEW t \in Seq(S)
  PROVE  (r \o s) \o t = r \o (s \o t)
OBVIOUS

LEMMA SameSequence ==
  ASSUME NEW S, NEW s \in Seq(S), NEW t \in Seq(S), Len(s) = Len(t),
         \A i \in 1..Len(t) : s[i] = t[i]
  PROVE  s = t
OBVIOUS

LEMMA TailIs ==
  ASSUME NEW S, NEW s \in Seq(S), s # <<>>
  PROVE  /\ Tail(s) \in Seq(S) /\ Len(Tail(s)) = Len(s) - 1 /\ Len(s) \in Nat \ {0} /\ s[1] \in S
         /\ \A i \in 1..(Len(s) - 1) : Tail(s)[i] = s[i + 1]
OBVIOUS

BrokenAs(nx, pv, l, f, g) == f = [nx EXCEPT ![pv[l]] = Null, ![l] = l] /\ g = [pv EXCEPT ![l] = l]

\* The prologue of sort(): the root alone, and the nodes in a chain.
LEMMA RingBroken ==
  ASSUME NEW nx \in Pointers, NEW pv \in Pointers, NEW A, A \subseteq Cells, Ring(nx, pv, A),
         IsFiniteSet(A), Cardinality(A) <= N + 1, NEW l \in A, nx[l] # l,
         NEW f, NEW g, BrokenAs(nx, pv, l, f, g)
  PROVE  /\ f \in Pointers /\ g \in Pointers /\ Ring(f, g, {l})
         /\ \A c \in Cells \ A : f[c] = nx[c] /\ g[c] = pv[c]
         /\ Steps(f, nx[l], Null, Path(nx, nx[l], l))
         /\ Ended(f, Null, Path(nx, nx[l], l))
<1> DEFINE s == Path(nx, nx[l], l)
<1>0. Null \notin Cells
  BY ListAssumption DEF Cells
<1>1. nx[l] \in A /\ pv[l] \in A /\ nx[pv[l]] = l /\ pv[nx[l]] = l /\ pv[l] # l
  BY DEF Ring
<1>2. /\ s \in Seq(A \ {l}) /\ Ended(nx, l, s) /\ Steps(nx, nx[l], l, s)
  <2>1. nx \in [Cells -> Cells \cup {Null}] /\ nx[l] \in Cells \cup {Null}
    BY <1>1 DEF Pointers
  <2> QED
    BY <1>1, <2>1, RingPath, PathWalks
<1> HIDE DEF s
<1>3. /\ f \in Pointers /\ g \in Pointers
      /\ \A c \in Cells : f[c] = IF c = l THEN l ELSE IF c = pv[l] THEN Null ELSE nx[c]
      /\ \A c \in Cells : g[c] = IF c = l THEN l ELSE pv[c]
  <2> DEFINE h == [nx EXCEPT ![pv[l]] = Null]
  <2>1. h \in Pointers /\ \A c \in Cells : h[c] = IF c = pv[l] THEN Null ELSE nx[c]
    BY DEF Pointers
  <2>0. f = [nx EXCEPT ![pv[l]] = Null, ![l] = l] /\ g = [pv EXCEPT ![l] = l]
    BY DEF BrokenAs
  <2>2. f = [h EXCEPT ![l] = l]
    BY <2>0
  <2> HIDE DEF h
  <2>3. f \in Pointers /\ \A c \in Cells : f[c] = IF c = l THEN l ELSE h[c]
    BY <2>1, <2>2 DEF Pointers
  <2>4. g \in Pointers /\ \A c \in Cells : g[c] = IF c = l THEN l ELSE pv[c]
    BY <2>0 DEF Pointers
  <2> QED
    BY <2>1, <2>3, <2>4
<1>4. f[l] = l /\ g[l] = l
  BY <1>3
<1>5. Ring(f, g, {l})
  BY <1>4, RingAlone
<1>6. \A c \in Cells \ A : f[c] = nx[c] /\ g[c] = pv[c]
  BY <1>1, <1>3
<1>7. s # <<>> /\ s[1] = nx[l] /\ Len(s) \in Nat \ {0} /\ \A i \in 1..Len(s) : s[i] \in A \ {l}
  <2>1. nx[l] \notin {l, Null}
    BY <1>0, <1>1
  <2>2. s # <<>> /\ s[1] = nx[l]
    BY <1>2, <2>1 DEF Steps
  <2> QED
    BY <1>2, <2>2
<1>8. ASSUME NEW i \in 1..(Len(s) - 1) PROVE s[i + 1] = f[s[i]]
  <2>1. i \in 1..Len(s) /\ i + 1 \in 1..Len(s)
    BY <1>7
  <2>2. s[i + 1] = nx[s[i]]
    BY <1>2 DEF Steps
  <2>3. s[i] # pv[l] /\ s[i] # l /\ s[i] \in Cells
    BY <1>1, <1>7, <2>1, <2>2
  <2> QED
    BY <1>3, <2>2, <2>3
<1>9. f[s[Len(s)]] = Null
  <2>1. Len(s) \in 1..Len(s)
    BY <1>7
  <2>2. nx[s[Len(s)]] \in {l, Null} /\ s[Len(s)] \in A /\ s[Len(s)] # l
    BY <1>2, <1>7, <2>1 DEF Ended
  <2>3. nx[s[Len(s)]] \in A
    BY <2>2 DEF Ring
  <2>4. nx[s[Len(s)]] = l
    BY <1>0, <2>2, <2>3
  <2>5. s[Len(s)] = pv[l]
    BY <2>2, <2>4 DEF Ring
  <2> QED
    BY <1>3, <2>2, <2>5
<1>10. Steps(f, nx[l], Null, s) /\ Ended(f, Null, s)
  <2>1. s \in Seq(Cells) /\ \A i \in 1..Len(s) : s[i] \notin {Null, Null}
    BY <1>0, <1>2, <1>7 DEF Steps
  <2>2. nx[l] \notin {Null, Null}
    BY <1>0, <1>1
  <2> QED
    BY <1>7, <1>8, <1>9, <2>1, <2>2 DEF Steps, Ended
<1> QED
  BY <1>3, <1>5, <1>6, <1>10 DEF s

\* sp is left of the left run, sq of the right one with all that follows it.
Runs(f, at, sp, sq) ==
  /\ sp \in Seq(Nodes) /\ sq \in Seq(Nodes)
  /\ Len(sp) = at.psize
  /\ sp # <<>> => Steps(f, at.p, Null, sp) /\ f[sp[Len(sp)]] \in Nodes \cup {Null}
  /\ Steps(f, at.q, Null, sq) /\ Ended(f, Null, sq)

\* The first of two runs of k in what is left of a list, n nodes.
RunOf(at, n, k, m) ==
  at.psize = (IF k < n THEN k ELSE n) /\ at.qsize = k /\ at.k = k /\ at.merges = m

\* Run() cuts a chain in two.
LEMMA RunSplits ==
  ASSUME NEW f \in Pointers, NEW p \in Nodes, NEW r \in Seq(Nodes), Injective(r),
         Steps(f, p, Null, r), Ended(f, Null, r), NEW k \in Nat \ {0}, NEW m \in Nat
  PROVE  /\ Run(f, p, k, m) \in SortCursors /\ Run(f, p, k, m).k = k
         /\ RunOf(Run(f, p, k, m), Len(r), k, m)
         /\ \E sp, sq : sp \o sq = r /\ Runs(f, Run(f, p, k, m), sp, sq)
<1> DEFINE at == Run(f, p, k, m)
           long == k < Len(r)
           sp == IF long THEN SubSeq(r, 1, k) ELSE r
           sq == IF long THEN SubSeq(r, k + 1, Len(r)) ELSE <<>>
<1>0. Null \notin Cells /\ Nodes \subseteq Cells /\ N \in Nat
  BY ListAssumption, NIsNat DEF Cells
<1>1. Path(f, p, Null) = r
  <2>1. Len(r) <= N + 1
    BY <1>0, InjectiveShort
  <2>2. f \in [Cells -> Cells \cup {Null}] /\ p \in Cells \cup {Null}
    BY <1>0 DEF Pointers
  <2> QED
    BY <2>1, <2>2, PathIs
<1>2. at = [p |-> p, q |-> IF long THEN r[k + 1] ELSE Null,
            psize |-> IF long THEN k ELSE Len(r), qsize |-> k, k |-> k, merges |-> m]
  BY <1>1 DEF Run
<1>3. Len(r) \in Nat /\ (long => k + 1 \in 1..Len(r)) /\ \A i \in 1..Len(r) : r[i] \in Nodes
  OBVIOUS
<1>4. at \in SortCursors
  BY <1>2, <1>3 DEF SortCursors
<1>5. at.p = p /\ at.q = (IF long THEN r[k + 1] ELSE Null) /\ at.psize = (IF long THEN k ELSE Len(r)) /\ at.k = k
  BY <1>2
<1>6. r # <<>> /\ r[1] = p
  BY <1>0 DEF Steps
<1>7. sp \o sq = r /\ Runs(f, at, sp, sq)
  <2> HIDE DEF at
  <2>1. CASE ~long
    <3>1. sp = r /\ sq = <<>>
      BY <2>1
    <3>2. f[r[Len(r)]] \in Nodes \cup {Null}
      BY <1>6 DEF Ended
    <3>3. Steps(f, Null, Null, <<>>) /\ Ended(f, Null, <<>>)
      BY DEF Steps, Ended
    <3>4. r \o <<>> = r
      OBVIOUS
    <3>5. at.q = Null /\ at.psize = Len(r)
      BY <1>5, <2>1
    <3> HIDE DEF sp, sq, long
    <3> QED
      BY <1>5, <3>1, <3>2, <3>3, <3>4, <3>5 DEF Runs
  <2>2. CASE long
    <3>1. sp = SubSeq(r, 1, k) /\ sq = SubSeq(r, k + 1, Len(r))
      BY <2>2
    <3>2. k \in 1..Len(r) /\ k + 1 \in 1..Len(r) /\ Len(r) \in Nat
      BY <2>2
    <3>3. at.q = r[k + 1] /\ at.psize = k
      BY <1>5, <2>2
    <3> HIDE DEF long, sp, sq
    <3>4. /\ sp \in Seq(Nodes) /\ Len(sp) = k /\ \A i \in 1..k : sp[i] = r[i]
          /\ sq \in Seq(Nodes) /\ Len(sq) = Len(r) - k
          /\ \A i \in 1..(Len(r) - k) : sq[i] = r[k + i]
      BY <3>1, <3>2
    <3>5. sp \o sq = r
      <4>0. sp \in Seq(Nodes) /\ sq \in Seq(Nodes)
        BY <3>4
      <4>5. sp \o sq \in Seq(Nodes) /\ Len(sp \o sq) = Len(sp) + Len(sq)
        BY <4>0
      <4>1. sp \o sq \in Seq(Nodes) /\ Len(sp \o sq) = Len(r)
        BY <3>2, <3>4, <4>5
      <4>2. ASSUME NEW i \in 1..Len(r) PROVE (sp \o sq)[i] = r[i]
        <5>1. CASE i <= k
          BY <3>2, <3>4, <5>1
        <5>2. CASE ~(i <= k)
          <6>1. i - k \in 1..(Len(r) - k) /\ k + (i - k) = i
            BY <3>2, <5>2
          <6>2. (sp \o sq)[i] = sq[i - k]
            BY <3>2, <3>4, <5>2
          <6> QED
            BY <3>4, <6>1, <6>2
        <5> QED
          BY <5>1, <5>2
      <4> QED
        BY <4>1, <4>2, SameSequence
    <3>6. \A i \in 1..(Len(r) - 1) : r[i + 1] = f[r[i]]
      BY DEF Steps
    <3>7. \A i \in 1..Len(r) : r[i] \notin {Null, Null}
      BY DEF Steps
    <3>8. Steps(f, p, Null, sp)
      <4>1. sp \in Seq(Cells) /\ sp # <<>> /\ sp[1] = p /\ p \notin {Null, Null}
        BY <1>0, <1>6, <3>2, <3>4
      <4>2. \A i \in 1..Len(sp) : sp[i] \notin {Null, Null}
        BY <3>2, <3>4, <3>7
      <4>3. ASSUME NEW i \in 1..(Len(sp) - 1) PROVE sp[i + 1] = f[sp[i]]
        <5>1. i \in 1..k /\ i + 1 \in 1..k /\ i \in 1..(Len(r) - 1)
          BY <3>2, <3>4
        <5> QED
          BY <3>4, <3>6, <5>1
      <4> QED
        BY <4>1, <4>2, <4>3 DEF Steps
    <3>9. f[sp[Len(sp)]] \in Nodes
      <4>1. k \in 1..k /\ k \in 1..(Len(r) - 1)
        BY <3>2
      <4>2. sp[Len(sp)] = r[k] /\ r[k + 1] = f[r[k]]
        BY <3>4, <3>6, <4>1
      <4> QED
        BY <1>3, <3>2, <4>2
    <3>10. Steps(f, r[k + 1], Null, sq)
      <4>1. 1 \in 1..(Len(r) - k)
        BY <3>2
      <4>2. sq \in Seq(Cells) /\ sq # <<>> /\ sq[1] = r[k + 1] /\ r[k + 1] \notin {Null, Null}
        BY <1>0, <3>2, <3>4, <3>7, <4>1
      <4>3. ASSUME NEW i \in 1..Len(sq) PROVE sq[i] \notin {Null, Null}
        <5>1. i \in 1..(Len(r) - k) /\ k + i \in 1..Len(r)
          BY <3>2, <3>4
        <5> QED
          BY <3>4, <3>7, <5>1
      <4>4. ASSUME NEW i \in 1..(Len(sq) - 1) PROVE sq[i + 1] = f[sq[i]]
        <5>1. i \in 1..(Len(r) - k) /\ i + 1 \in 1..(Len(r) - k) /\ k + i \in 1..(Len(r) - 1) /\ k + (i + 1) = (k + i) + 1
          BY <3>2, <3>4
        <5>2. sq[i] = r[k + i] /\ sq[i + 1] = r[(k + i) + 1]
          BY <3>4, <5>1
        <5>3. r[(k + i) + 1] = f[r[k + i]]
          BY <3>6, <5>1
        <5> QED
          BY <5>2, <5>3
      <4> QED
        BY <4>2, <4>3, <4>4 DEF Steps
    <3>11. Ended(f, Null, sq)
      <4>1. Len(r) - k \in 1..(Len(r) - k) /\ k + (Len(r) - k) = Len(r)
        BY <3>2
      <4>2. sq[Len(sq)] = r[Len(r)]
        BY <3>4, <4>1
      <4> QED
        BY <1>6, <4>2 DEF Ended
    <3> QED
      BY <1>5, <3>3, <3>4, <3>5, <3>8, <3>9, <3>10, <3>11 DEF Runs
  <2> QED
    BY <2>1, <2>2
<1>8. RunOf(at, Len(r), k, m)
  BY <1>2 DEF RunOf
<1> HIDE DEF at, sp, sq
<1>9. \E s, t : s \o t = r /\ Runs(f, at, s, t)
  BY <1>7
<1> QED
  BY <1>4, <1>5, <1>8, <1>9 DEF at
-----------------------------------------------------------------------------
CellsIn(par, l) == {c \in Cells : par[c] = l}

Rooted == \A l \in Lists : parent[l] = l

AllRings == \A l \in Lists : Ring(next, prev, CellsIn(parent, l))

\* The list l in the middle of a sort.
Halfway(l, sp, sq) ==
  /\ CellsIn(parent, l) # {l}
  /\ Runs(next, loop.at, sp, sq)
  /\ Injective(sp \o sq) /\ Members(sp \o sq) \subseteq CellsIn(parent, l) \ {l}
  /\ Ring(next, prev, CellsIn(parent, l) \ Members(sp \o sq))

RingsOK == \A l \in Lists : /\ ~Sorting(l) => Ring(next, prev, CellsIn(parent, l))
                            /\ Sorting(l) => \E sp, sq : Halfway(l, sp, sq)

\* The cursors are where the loops need them.
LoopOK ==
  /\ Running("sort") => loop.at \in SortCursors /\ loop.at.k # 0
  /\ Running("merge") => /\ loop.at \in WalkCursors /\ loop.list # loop.other
                         /\ loop.at.p \in CellsIn(parent, loop.list)
                         /\ loop.at.q \in CellsIn(parent, loop.other)
  /\ Filtering => loop.at \in WalkCursors /\ loop.at.q \in CellsIn(parent, loop.list)

IInv == TypeOK /\ Rooted /\ LifetimeBalanced /\ LoopOK /\ RingsOK

LEMMA Basics ==
  /\ Null \notin Cells /\ Nodes \subseteq Cells /\ Lists \subseteq Cells
  /\ \A l \in Lists : l \notin Nodes
  /\ Cells \ Lists = Nodes
BY ListAssumption DEF Cells

LEMMA CellFacts ==
  ASSUME TypeOK, Rooted, NEW l \in Lists
  PROVE  /\ next \in Pointers /\ prev \in Pointers /\ Links = LinksOf(next, prev)
         /\ l \in CellsIn(parent, l) /\ CellsIn(parent, l) \subseteq Cells
         /\ NodesOf(l) = CellsIn(parent, l) \ {l} /\ NodesOf(l) \subseteq Nodes
         /\ IsFiniteSet(CellsIn(parent, l)) /\ Cardinality(CellsIn(parent, l)) <= N + 1
         /\ \A m \in Lists : m # l => CellsIn(parent, l) \cap CellsIn(parent, m) = {}
<1> DEFINE A == CellsIn(parent, l)
<1>1. next \in Pointers /\ prev \in Pointers /\ Links = LinksOf(next, prev)
  BY DEF TypeOK, Pointers, Links, LinksOf
<1>2. l \in A /\ A \subseteq Cells /\ NodesOf(l) = A \ {l} /\ NodesOf(l) \subseteq Nodes
  BY Basics DEF CellsIn, Rooted, NodesOf
<1>3. \A m \in Lists : m # l => A \cap CellsIn(parent, m) = {}
  BY DEF CellsIn
<1>4. IsFiniteSet(Nodes \cup {l}) /\ Cardinality(Nodes \cup {l}) = N + 1
  BY ListAssumption, Basics, FS_AddElement DEF N
<1>5. A \subseteq Nodes \cup {l}
  BY <1>2
<1> HIDE DEF A
<1>6. IsFiniteSet(A) /\ Cardinality(A) <= N + 1
  BY <1>4, <1>5, FS_Subset
<1> QED
  BY <1>1, <1>2, <1>3, <1>6 DEF A

LEMMA AtRest ==
  ASSUME IInv, ~Running("sort")
  PROVE  AllRings
BY DEF IInv, RingsOK, AllRings, Sorting

\* What Between() gives on a ring.
LEMMA BetweenOn ==
  ASSUME TypeOK, Rooted, NEW l \in Lists, Ring(next, prev, CellsIn(parent, l)),
         NEW b \in CellsIn(parent, l), NEW e \in CellsIn(parent, l)
  PROVE  /\ b = e => Between(b, e) = {}
         /\ b # e => Segment(next, prev, CellsIn(parent, l), Between(b, e), b, e)
<1> DEFINE A == CellsIn(parent, l)
<1>1. /\ next \in Pointers /\ prev \in Pointers /\ A \subseteq Cells
      /\ IsFiniteSet(A) /\ Cardinality(A) <= N + 1
  BY CellFacts
<1>2. next \in [Cells -> Cells \cup {Null}]
  BY <1>1 DEF Pointers
<1> HIDE DEF A
<1>3. b \in A /\ e \in A /\ Ring(next, prev, A)
  BY DEF A
<1>4. /\ b = e => Path(next, b, e) = <<>>
      /\ b # e => Segment(next, prev, A, Members(Path(next, b, e)), b, e)
  BY <1>1, <1>2, <1>3, RingPath
<1>5. Members(<<>>) = {}
  BY DEF Members
<1> QED
  BY <1>4, <1>5 DEF Between, A

LEMMA RoundOn ==
  ASSUME TypeOK, Rooted, NEW l \in Lists, Ring(next, prev, CellsIn(parent, l))
  PROVE  /\ Between(next[l], l) = CellsIn(parent, l) \ {l}
         /\ Members(Content(l)) = NodesOf(l)
         /\ Content(l) \in Seq(Nodes) /\ Injective(Content(l))
<1> DEFINE A == CellsIn(parent, l)
<1>1. /\ next \in Pointers /\ A \subseteq Cells /\ l \in A /\ NodesOf(l) = A \ {l} /\ NodesOf(l) \subseteq Nodes
      /\ IsFiniteSet(A) /\ Cardinality(A) <= N + 1
  BY CellFacts
<1>2. next \in [Cells -> Cells \cup {Null}]
  BY <1>1 DEF Pointers
<1>3. Ring(next, prev, A)
  OBVIOUS
<1> HIDE DEF A
<1>4. Members(Path(next, next[l], l)) = A \ {l}
  BY <1>1, <1>2, <1>3, RingRound
<1>5. next[l] \in A
  BY <1>1, <1>3 DEF Ring
<1>6. Path(next, next[l], l) \in Seq(A \ {l}) /\ Injective(Path(next, next[l], l))
  BY <1>1, <1>2, <1>3, <1>5, RingPath
<1>7. Path(next, next[l], l) \in Seq(Nodes)
  BY <1>1, <1>6
<1> QED
  BY <1>1, <1>4, <1>6, <1>7 DEF Between, Content, A

\* One ring becomes another, of the cells that are in the list then.
LEMMA OneRing ==
  ASSUME TypeOK, Rooted, AllRings, NEW l \in Lists, NEW k, NEW B,
         Relinked(next, prev, k, CellsIn(parent, l), B), next' = k.next, prev' = k.prev,
         CellsIn(parent', l) = B,
         \A m \in Lists : m # l => CellsIn(parent', m) = CellsIn(parent, m)
  PROVE  /\ next' \in Pointers /\ prev' \in Pointers
         /\ \A m \in Lists : Ring(next', prev', CellsIn(parent', m))
<1>1. next' \in Pointers /\ prev' \in Pointers /\ Ring(next', prev', CellsIn(parent', l))
  BY DEF Relinked
<1>2. ASSUME NEW m \in Lists, m # l PROVE Ring(next', prev', CellsIn(parent', m))
  <2> DEFINE A == CellsIn(parent, m)
  <2>1. A \subseteq Cells /\ A \cap CellsIn(parent, l) = {}
    BY <1>2, CellFacts
  <2>2. A \cap B = {}
    BY <1>2 DEF CellsIn
  <2>3. \A c \in A : next'[c] = next[c] /\ prev'[c] = prev[c]
    BY <2>1, <2>2 DEF Relinked
  <2>4. Ring(next, prev, A)
    BY DEF AllRings
  <2> HIDE DEF A
  <2>5. Ring(next', prev', A)
    BY <2>3, <2>4, RingKept
  <2> QED
    BY <1>2, <2>5 DEF A
<1> QED
  BY <1>1, <1>2

\* The books are kept if the set that came and the set that went are those that did.
LEMMA Balanced ==
  ASSUME TypeOK, LifetimeBalanced, NEW in, NEW out, traits' = Counted(in, out), unhooked' = unhooked,
         \A n \in Nodes : n \in in => parent[n] = Null /\ parent'[n] # Null,
         \A n \in Nodes : n \in out => parent[n] # Null /\ parent'[n] = Null,
         \A n \in Nodes : n \notin in \cup out => (parent[n] = Null <=> parent'[n] = Null)
  PROVE  traits' \in [Nodes -> Nat] /\ LifetimeBalanced'
<1>1. ASSUME NEW n \in Nodes
      PROVE  /\ traits'[n] = unhooked'[n] + IF parent'[n] = Null THEN 0 ELSE 1
             /\ traits'[n] \in Nat
  <2>1. traits[n] \in Nat /\ unhooked[n] \in Nat
    BY DEF TypeOK
  <2>2. traits[n] = unhooked[n] + IF parent[n] = Null THEN 0 ELSE 1
    BY DEF LifetimeBalanced
  <2>3. traits'[n] = traits[n] + (IF n \in in THEN 1 ELSE 0) - (IF n \in out THEN 1 ELSE 0)
    BY DEF Counted
  <2>4. CASE n \in in
    <3>1. n \notin out
      BY <2>4
    <3> QED
      BY <2>1, <2>2, <2>3, <2>4, <3>1
  <2>5. CASE n \in out
    <3>1. n \notin in
      BY <2>5
    <3> QED
      BY <2>1, <2>2, <2>3, <2>5, <3>1
  <2>6. CASE n \notin in \cup out
    BY <2>1, <2>2, <2>3, <2>6
  <2> QED
    BY <2>4, <2>5, <2>6
<1>2. traits' = [n \in Nodes |-> traits'[n]]
  BY DEF Counted
<1>3. traits' \in [Nodes -> Nat]
  BY <1>1, <1>2
<1> QED
  BY <1>1, <1>3 DEF LifetimeBalanced

LEMMA SameBooks ==
  ASSUME TypeOK, LifetimeBalanced, UNCHANGED books,
         \A n \in Nodes : parent[n] = Null <=> parent'[n] = Null
  PROVE  traits' \in [Nodes -> Nat] /\ unhooked' \in [Nodes -> Nat] /\ LifetimeBalanced'
BY DEF TypeOK, LifetimeBalanced, books

\* With no loop running that is all there is.
LEMMA Settled ==
  ASSUME next' \in Pointers, prev' \in Pointers, parent' \in [Cells -> Lists \cup {Null}],
         traits' \in [Nodes -> Nat], unhooked' \in [Nodes -> Nat], loop' = Null,
         \A l \in Lists : parent'[l] = l, LifetimeBalanced',
         \A l \in Lists : Ring(next', prev', CellsIn(parent', l))
  PROVE  IInv'
<1>1. TypeOK'
  BY DEF TypeOK, Pointers
<1>2. Rooted'
  BY DEF Rooted
<1>3. LoopOK'
  BY DEF LoopOK, Running, Filtering
<1>4. \A l \in Lists : ~Sorting(l)'
  BY DEF Sorting, Running
<1>5. RingsOK'
  BY <1>4 DEF RingsOK
<1> QED
  BY <1>1, <1>2, <1>3, <1>5 DEF IInv

LEMMA InitHolds == Init => IInv
<1> SUFFICES ASSUME Init PROVE IInv
  OBVIOUS
<1>1. TypeOK
  BY Basics DEF Init, TypeOK
<1>2. Rooted
  BY Basics DEF Init, Rooted
<1>3. LifetimeBalanced
  BY Basics DEF Init, LifetimeBalanced
<1>4. LoopOK
  BY DEF Init, LoopOK, Running, Filtering
<1>5. ASSUME NEW l \in Lists PROVE Ring(next, prev, CellsIn(parent, l))
  <2>1. CellsIn(parent, l) = {l}
    BY Basics DEF Init, CellsIn
  <2>2. next[l] = l /\ prev[l] = l
    BY Basics DEF Init
  <2> QED
    BY <2>1, <2>2, RingAlone
<1>6. RingsOK
  BY <1>5 DEF RingsOK, Init, Sorting, Running
<1> QED
  BY <1>1, <1>2, <1>3, <1>4, <1>6 DEF IInv

\* Given(): who is in which list then.
LEMMA GivenIs ==
  ASSUME TypeOK, Rooted, NEW S, S \subseteq Nodes, NEW x \in Lists \cup {Null}, parent' = Given(S, x)
  PROVE  /\ parent' \in [Cells -> Lists \cup {Null}] /\ \A l \in Lists : parent'[l] = l
         /\ \A c \in S : parent'[c] = x
         /\ \A c \in Cells \ S : parent'[c] = parent[c]
         /\ \A m \in Lists : m = x => CellsIn(parent', m) = CellsIn(parent, m) \cup S
         /\ \A m \in Lists : m # x => CellsIn(parent', m) = CellsIn(parent, m) \ S
<1>1. parent' = [c \in Cells |-> IF c \in S THEN x ELSE parent[c]]
  BY DEF Given
<1>2. \A c \in Cells : parent'[c] = IF c \in S THEN x ELSE parent[c]
  BY <1>1
<1>3. parent' \in [Cells -> Lists \cup {Null}]
  BY <1>1 DEF TypeOK
<1>4. S \subseteq Cells
  BY Basics
<1>5. \A l \in Lists : parent'[l] = l
  BY <1>2, Basics DEF Rooted
<1>6. ASSUME NEW m \in Lists, m = x PROVE CellsIn(parent', m) = CellsIn(parent, m) \cup S
  BY <1>2, <1>4, <1>6 DEF CellsIn
<1>7. ASSUME NEW m \in Lists, m # x PROVE CellsIn(parent', m) = CellsIn(parent, m) \ S
  BY <1>2, <1>4, <1>7 DEF CellsIn
<1> QED
  BY <1>2, <1>3, <1>4, <1>5, <1>6, <1>7

\* The list l gains or loses the nodes of S, and no other list changes.
LEMMA NodesCame ==
  ASSUME TypeOK, Rooted, NEW S, S \subseteq Nodes, \A n \in S : parent[n] = Null, NEW l \in Lists,
         parent' = Given(S, l)
  PROVE  /\ CellsIn(parent', l) = CellsIn(parent, l) \cup S /\ CellsIn(parent, l) \cap S = {}
         /\ \A m \in Lists : m # l => CellsIn(parent', m) = CellsIn(parent, m)
<1>1. \A m \in Lists : CellsIn(parent, m) \cap S = {}
  BY Basics DEF CellsIn
<1>2. /\ \A m \in Lists : m = l => CellsIn(parent', m) = CellsIn(parent, m) \cup S
      /\ \A m \in Lists : m # l => CellsIn(parent', m) = CellsIn(parent, m) \ S
  BY GivenIs
<1> QED
  BY <1>1, <1>2

LEMMA NodesWent ==
  ASSUME TypeOK, Rooted, NEW l \in Lists, NEW S, S \subseteq CellsIn(parent, l) \ {l},
         parent' = Given(S, Null)
  PROVE  /\ S \subseteq Nodes
         /\ CellsIn(parent', l) = CellsIn(parent, l) \ S
         /\ \A m \in Lists : m # l => CellsIn(parent', m) = CellsIn(parent, m)
<1>0. S \subseteq Nodes
  BY CellFacts
<1>1. \A m \in Lists : m # l => CellsIn(parent, m) \cap S = {}
  BY DEF CellsIn
<1>2. \A m \in Lists : m # Null => CellsIn(parent', m) = CellsIn(parent, m) \ S
  BY <1>0, GivenIs
<1>3. \A m \in Lists : m # Null
  BY Basics
<1> QED
  BY <1>0, <1>1, <1>2, <1>3

\* The arrivals are counted, and the departures.
LEMMA CameBalanced ==
  ASSUME TypeOK, Rooted, LifetimeBalanced, NEW S, S \subseteq Nodes, \A n \in S : parent[n] = Null,
         NEW l \in Lists, parent' = Given(S, l), traits' = Counted(S, {}), unhooked' = unhooked
  PROVE  traits' \in [Nodes -> Nat] /\ unhooked' \in [Nodes -> Nat] /\ LifetimeBalanced'
<1>1. (\A c \in S : parent'[c] = l) /\ (\A c \in Cells \ S : parent'[c] = parent[c])
  BY GivenIs
<1>2. l # Null
  BY Basics
<1>3. \A n \in Nodes : n \in S => parent[n] = Null /\ parent'[n] # Null
  BY <1>1, <1>2
<1>4. \A n \in Nodes : n \in {} => parent[n] # Null /\ parent'[n] = Null
  OBVIOUS
<1>5. \A n \in Nodes : n \notin S \cup {} => (parent[n] = Null <=> parent'[n] = Null)
  BY <1>1, Basics
<1>6. traits' \in [Nodes -> Nat] /\ LifetimeBalanced'
  BY <1>3, <1>4, <1>5, Balanced
<1> QED
  BY <1>6 DEF TypeOK

LEMMA WentBalanced ==
  ASSUME TypeOK, Rooted, LifetimeBalanced, NEW l \in Lists, NEW S, S \subseteq CellsIn(parent, l) \ {l},
         parent' = Given(S, Null), traits' = Counted({}, S), unhooked' = unhooked
  PROVE  traits' \in [Nodes -> Nat] /\ unhooked' \in [Nodes -> Nat] /\ LifetimeBalanced'
<1>0. S \subseteq Nodes
  BY NodesWent
<1>1. (\A c \in S : parent'[c] = Null) /\ (\A c \in Cells \ S : parent'[c] = parent[c])
  BY <1>0, GivenIs
<1>2. l # Null
  BY Basics
<1>3. \A n \in Nodes : n \in S => parent[n] # Null /\ parent'[n] = Null
  BY <1>1, <1>2 DEF CellsIn
<1>4. \A n \in Nodes : n \in {} => parent[n] = Null /\ parent'[n] # Null
  OBVIOUS
<1>5. \A n \in Nodes : n \notin {} \cup S => (parent[n] = Null <=> parent'[n] = Null)
  BY <1>1, Basics
<1>6. traits' \in [Nodes -> Nat] /\ LifetimeBalanced'
  BY <1>3, <1>4, <1>5, Balanced
<1> QED
  BY <1>6 DEF TypeOK

\* What an operation finds that needs no loop to be running.
LEMMA Idle ==
  ASSUME IInv, loop = Null
  PROVE  TypeOK /\ Rooted /\ LifetimeBalanced /\ AllRings
BY AtRest DEF IInv, Running

LEMMA UnlinkedIs ==
  ASSUME NEW s \in Seq(Nodes), Unlinked(s)
  PROVE  Members(s) \subseteq Nodes /\ Injective(s) /\ \A n \in Members(s) : parent[n] = Null
BY DEF Unlinked, Injective, Members

LEMMA InsertHolds ==
  ASSUME IInv, NEW l \in Lists, NEW p \in Cells, NEW s \in Seq(Nodes), Insert(l, p, s)
  PROVE  IInv'
<1> DEFINE A == CellsIn(parent, l)
           S == Members(s)
           k == Thread(Links, <<prev[p]>> \o s \o <<p>>)
<1>1. TypeOK /\ Rooted /\ LifetimeBalanced /\ AllRings
  BY Idle DEF Insert
<1>2. /\ S \subseteq Nodes /\ Injective(s) /\ \A n \in S : parent[n] = Null
  BY UnlinkedIs DEF Insert
<1>3. /\ parent' = Given(S, l) /\ traits' = Counted(S, {}) /\ unhooked' = unhooked /\ loop' = Null
      /\ next' = k.next /\ prev' = k.prev /\ p \in A
  BY DEF Insert, Become, In, CellsIn
<1>4. /\ next \in Pointers /\ prev \in Pointers /\ Links = LinksOf(next, prev) /\ A \subseteq Cells
  BY <1>1, CellFacts
<1>5. /\ CellsIn(parent', l) = A \cup S /\ A \cap S = {}
      /\ \A m \in Lists : m # l => CellsIn(parent', m) = CellsIn(parent, m)
  <2> HIDE DEF S
  <2> QED
    BY <1>1, <1>2, <1>3, NodesCame
<1>6. Ring(next, prev, A)
  BY <1>1 DEF AllRings
<1>7. Relinked(next, prev, k, A, A \cup S)
  <2> HIDE DEF A
  <2>1. Relinked(next, prev, Thread(LinksOf(next, prev), <<prev[p]>> \o s \o <<p>>), A, A \cup S)
    BY <1>2, <1>3, <1>4, <1>5, <1>6, ThreadLinks
  <2> QED
    BY <1>4, <2>1
<1> HIDE DEF k, S
<1>8. /\ next' \in Pointers /\ prev' \in Pointers
      /\ \A m \in Lists : Ring(next', prev', CellsIn(parent', m))
  <2>1. Relinked(next, prev, k, CellsIn(parent, l), A \cup S)
    BY <1>7
  <2> HIDE DEF A
  <2> QED
    BY <2>1, <1>1, <1>3, <1>5, OneRing
<1>9. parent' \in [Cells -> Lists \cup {Null}] /\ \A m \in Lists : parent'[m] = m
  BY <1>1, <1>2, <1>3, GivenIs
<1>10. traits' \in [Nodes -> Nat] /\ unhooked' \in [Nodes -> Nat] /\ LifetimeBalanced'
  BY <1>1, <1>2, <1>3, CameBalanced
<1> QED
  BY <1>3, <1>8, <1>9, <1>10, Settled

\* Nodes that leave one list, by whatever operation.
LEMMA Departed ==
  ASSUME TypeOK, Rooted, AllRings, NEW l \in Lists,
         NEW S, S \subseteq CellsIn(parent, l) \ {l}, parent' = Given(S, Null),
         NEW k, Relinked(next, prev, k, CellsIn(parent, l), CellsIn(parent, l) \ S),
         next' = k.next, prev' = k.prev
  PROVE  /\ next' \in Pointers /\ prev' \in Pointers
         /\ parent' \in [Cells -> Lists \cup {Null}] /\ \A m \in Lists : parent'[m] = m
         /\ \A m \in Lists : Ring(next', prev', CellsIn(parent', m))
         /\ CellsIn(parent', l) = CellsIn(parent, l) \ S
<1>1. /\ S \subseteq Nodes
      /\ CellsIn(parent', l) = CellsIn(parent, l) \ S
      /\ \A m \in Lists : m # l => CellsIn(parent', m) = CellsIn(parent, m)
  BY NodesWent
<1>2. /\ next' \in Pointers /\ prev' \in Pointers
      /\ \A m \in Lists : Ring(next', prev', CellsIn(parent', m))
  BY <1>1, OneRing
<1>3. parent' \in [Cells -> Lists \cup {Null}] /\ \A m \in Lists : parent'[m] = m
  BY <1>1, GivenIs
<1> QED
  BY <1>1, <1>2, <1>3

LEMMA DepartureHolds ==
  ASSUME TypeOK, Rooted, AllRings, NEW l \in Lists,
         NEW S, S \subseteq CellsIn(parent, l) \ {l}, parent' = Given(S, Null),
         NEW k, Relinked(next, prev, k, CellsIn(parent, l), CellsIn(parent, l) \ S),
         next' = k.next, prev' = k.prev,
         traits' \in [Nodes -> Nat], unhooked' \in [Nodes -> Nat], LifetimeBalanced', loop' = Null
  PROVE  IInv'
BY Departed, Settled

LEMMA EraseHolds ==
  ASSUME IInv, NEW l \in Lists, NEW b \in Cells, NEW e \in Cells, Erase(l, b, e)
  PROVE  IInv'
<1> DEFINE A == CellsIn(parent, l)
           R == Between(b, e)
           k == Forget(Cut(Links, b, e), R)
<1>1. TypeOK /\ Rooted /\ LifetimeBalanced /\ AllRings
  BY Idle DEF Erase
<1>2. /\ parent' = Given(R, Null) /\ traits' = Counted({}, R) /\ unhooked' = unhooked /\ loop' = Null
      /\ next' = k.next /\ prev' = k.prev /\ b \in A /\ e \in A /\ l \notin R
  BY DEF Erase, Become, In, CellsIn
<1>3. /\ next \in Pointers /\ prev \in Pointers /\ Links = LinksOf(next, prev) /\ A \subseteq Cells
  BY <1>1, CellFacts
<1>4. Ring(next, prev, A)
  BY <1>1 DEF AllRings
<1>5. /\ b = e => R = {}
      /\ b # e => Segment(next, prev, A, R, b, e)
  BY <1>1, <1>2, <1>4, BetweenOn
<1>6. R \subseteq A \ {l}
  <2>1. CASE b = e
    BY <1>5, <2>1
  <2>2. CASE b # e
    BY <1>2, <1>5, <2>2 DEF Segment
  <2> QED
    BY <2>1, <2>2
<1>7. Relinked(next, prev, k, A, A \ R)
  <2>1. CASE b # e
    <3>1. Segment(next, prev, A, R, b, e)
      BY <1>5, <2>1
    <3> HIDE DEF A, R
    <3>2. Relinked(next, prev, Forget(Cut(LinksOf(next, prev), b, e), R), A, A \ R)
      BY <1>3, <1>4, <3>1, ForgetCuts
    <3> QED
      BY <1>3, <3>2
  <2>2. CASE b = e
    <3>1. R = {} /\ prev[b] \in A /\ next[prev[b]] = b /\ b \in Cells
      BY <1>2, <1>3, <1>4, <1>5, <2>2 DEF Ring
    <3>2. k.next = [c \in Cells |-> IF c \in R THEN Null ELSE [next EXCEPT ![prev[b]] = b][c]]
      BY <2>2 DEF Forget, Cut, Join, Links
    <3>3. k.prev = [c \in Cells |-> IF c \in R THEN Null ELSE [prev EXCEPT ![b] = prev[b]][c]]
      BY <2>2 DEF Forget, Cut, Join, Links
    <3> HIDE DEF k, R, A
    <3>4. k.next = next /\ k.prev = prev
      BY <1>3, <3>1, <3>2, <3>3 DEF Pointers
    <3>5. A \ R = A
      BY <3>1
    <3> QED
      BY <1>3, <1>4, <3>4, <3>5 DEF Relinked
  <2> QED
    BY <2>1, <2>2
<1> HIDE DEF k, R
<1>8. traits' \in [Nodes -> Nat] /\ unhooked' \in [Nodes -> Nat] /\ LifetimeBalanced'
  BY <1>1, <1>2, <1>6, WentBalanced
<1> QED
  BY <1>1, <1>2, <1>6, <1>7, <1>8, DepartureHolds

LEMMA UnhookHolds ==
  ASSUME IInv, NEW n \in Nodes, Unhook(n)
  PROVE  IInv'
<1> DEFINE l == parent[n]
           A == CellsIn(parent, l)
           k == Forget(Cut(Links, n, next[n]), {n})
<1>1. TypeOK /\ Rooted /\ LifetimeBalanced /\ AllRings
  BY Idle DEF Unhook
<1>2. l \in Lists /\ n \in A /\ n # l /\ n \in Cells
  BY <1>1, Basics DEF Unhook, TypeOK, CellsIn
<1>3. /\ parent' = Given({n}, Null) /\ traits' = traits /\ loop' = Null
      /\ unhooked' = [unhooked EXCEPT ![n] = @ + 1]
      /\ next' = k.next /\ prev' = k.prev
  <2>1. Cut(Links, n, next[n]) = Join(Links, prev[n], next[n])
    BY DEF Cut, Links
  <2> QED
    BY <2>1 DEF Unhook, Become
<1>4. /\ next \in Pointers /\ prev \in Pointers /\ Links = LinksOf(next, prev) /\ A \subseteq Cells /\ l \in A
  BY <1>1, <1>2, CellFacts
<1>5. Ring(next, prev, A)
  BY <1>1, <1>2 DEF AllRings
<1>6. Relinked(next, prev, k, A, A \ {n})
  <2> HIDE DEF A, l
  <2>1. next[n] # n
    BY <1>2, <1>4, <1>5, NotAlone
  <2>2. Segment(next, prev, A, {n}, n, next[n])
    BY <1>2, <1>5, <2>1, SegmentOne
  <2>3. Relinked(next, prev, Forget(Cut(LinksOf(next, prev), n, next[n]), {n}), A, A \ {n})
    BY <1>4, <1>5, <2>2, ForgetCuts
  <2> QED
    BY <1>4, <2>3
<1>7. {n} \subseteq A \ {l}
  BY <1>2
<1>8. /\ parent'[n] = Null /\ \A c \in Cells \ {n} : parent'[c] = parent[c]
  BY <1>2 DEF Given, Unhook
<1>9. parent[n] # Null
  BY DEF Unhook
<1>10. traits' \in [Nodes -> Nat] /\ unhooked' \in [Nodes -> Nat]
  BY <1>1, <1>3 DEF TypeOK
<1>11. LifetimeBalanced'
  <2> SUFFICES ASSUME NEW m \in Nodes
               PROVE  traits'[m] = unhooked'[m] + IF parent'[m] = Null THEN 0 ELSE 1
    BY DEF LifetimeBalanced
  <2>1. traits[m] = unhooked[m] + (IF parent[m] = Null THEN 0 ELSE 1) /\ unhooked \in [Nodes -> Nat]
    BY <1>1 DEF LifetimeBalanced, TypeOK
  <2>2. CASE m = n
    BY <1>3, <1>8, <1>9, <2>1, <2>2
  <2>3. CASE m # n
    <3>1. unhooked'[m] = unhooked[m] /\ parent'[m] = parent[m]
      BY <1>3, <1>8, <2>1, <2>3, Basics
    <3> QED
      BY <1>3, <2>1, <3>1
  <2> QED
    BY <2>2, <2>3
<1> HIDE DEF k, l
<1> QED
  BY <1>1, <1>2, <1>3, <1>6, <1>7, <1>10, <1>11, DepartureHolds

LEMMA ClearHolds ==
  ASSUME IInv, NEW l \in Lists, Clear(l)
  PROVE  IInv'
<1> DEFINE A == CellsIn(parent, l)
           R == Between(next[l], l)
           k == Forget(Join(Links, l, l), R)
<1>1. TypeOK /\ Rooted /\ LifetimeBalanced /\ AllRings
  BY Idle DEF Clear
<1>2. /\ parent' = Given(R, Null) /\ traits' = Counted({}, R) /\ unhooked' = unhooked /\ loop' = Null
      /\ next' = k.next /\ prev' = k.prev
  BY DEF Clear, Become
<1>3. /\ next \in Pointers /\ prev \in Pointers /\ Links = LinksOf(next, prev) /\ A \subseteq Cells /\ l \in A
  BY <1>1, CellFacts
<1>4. Ring(next, prev, A)
  BY <1>1 DEF AllRings
<1>5. R = A \ {l}
  BY <1>1, <1>4, RoundOn
<1>6. A \ R = {l}
  BY <1>3, <1>5
<1>7. Relinked(next, prev, k, A, A \ R)
  <2> HIDE DEF A, R
  <2>1. Relinked(next, prev, Forget(Join(LinksOf(next, prev), l, l), A \ {l}), A, {l})
    BY <1>3, ClearLinks
  <2> QED
    BY <1>3, <1>5, <1>6, <2>1
<1> HIDE DEF k, R
<1>8. R \subseteq A \ {l}
  BY <1>5
<1>9. traits' \in [Nodes -> Nat] /\ unhooked' \in [Nodes -> Nat] /\ LifetimeBalanced'
  BY <1>1, <1>2, <1>8, WentBalanced
<1> QED
  BY <1>1, <1>2, <1>7, <1>8, <1>9, DepartureHolds

\* An operation that moves cells about within one list.
LEMMA RearrangedHolds ==
  ASSUME IInv, loop = Null, NEW l \in Lists,
         NEW k, Relinked(next, prev, k, CellsIn(parent, l), CellsIn(parent, l)),
         next' = k.next, prev' = k.prev, UNCHANGED <<parent, books, loop>>
  PROVE  IInv'
<1>1. TypeOK /\ Rooted /\ LifetimeBalanced /\ AllRings
  BY Idle
<1>2. parent' = parent /\ UNCHANGED books /\ loop' = Null
  OBVIOUS
<1>3. /\ next' \in Pointers /\ prev' \in Pointers
      /\ \A m \in Lists : Ring(next', prev', CellsIn(parent', m))
  <2>1. /\ CellsIn(parent', l) = CellsIn(parent, l)
        /\ \A m \in Lists : m # l => CellsIn(parent', m) = CellsIn(parent, m)
    BY <1>2
  <2> QED
    BY <1>1, <2>1, OneRing
<1>4. parent' \in [Cells -> Lists \cup {Null}] /\ \A m \in Lists : parent'[m] = m
  BY <1>1, <1>2 DEF TypeOK, Rooted
<1>5. traits' \in [Nodes -> Nat] /\ unhooked' \in [Nodes -> Nat] /\ LifetimeBalanced'
  BY <1>1, <1>2, SameBooks
<1> QED
  BY <1>2, <1>3, <1>4, <1>5, Settled

LEMMA ReverseHolds ==
  ASSUME IInv, NEW l \in Lists, Reverse(l)
  PROVE  IInv'
<1> DEFINE A == CellsIn(parent, l)
           k == Reversed(Links, Between(next[l], l) \cup {l})
<1>1. TypeOK /\ Rooted /\ LifetimeBalanced /\ AllRings /\ loop = Null
  BY Idle DEF Reverse
<1>2. next' = k.next /\ prev' = k.prev /\ UNCHANGED <<parent, books, loop>>
  BY DEF Reverse, Become
<1>3. /\ next \in Pointers /\ prev \in Pointers /\ Links = LinksOf(next, prev) /\ A \subseteq Cells /\ l \in A
  BY <1>1, CellFacts
<1>4. Ring(next, prev, A)
  BY <1>1 DEF AllRings
<1>5. Between(next[l], l) \cup {l} = A
  BY <1>1, <1>3, <1>4, RoundOn
<1>6. k = Reversed(LinksOf(next, prev), A)
  BY <1>3, <1>5
<1> HIDE DEF k
<1>7. Relinked(next, prev, k, A, A)
  BY <1>3, <1>4, <1>6, ReverseLinks
<1> QED
  BY <1>1, <1>2, <1>7, RearrangedHolds

\* The node that a walk round the ring without its root comes to.
LEMMA WalkStays ==
  ASSUME NEW f \in Pointers, NEW B, B \subseteq Cells, \A c \in B : f[c] \in B,
         NEW b \in B, NEW n \in 1..N
  PROVE  Path(f, b, Null)[n + 1] \in B
<1> DEFINE s == Path(f, b, Null)
<1>0. N \in Nat /\ Null \notin Cells
  BY NIsNat, Basics
<1>1. /\ Steps(f, b, Null, s)
      /\ Len(s) <= N + 1 /\ (Len(s) = N + 1 \/ Ended(f, Null, s))
  BY PathWalks DEF Pointers
<1> HIDE DEF s
<1>2. s \in Seq(Cells) /\ s # <<>> /\ s[1] = b
  BY <1>0, <1>1 DEF Steps
<1> DEFINE S == {i \in Nat : i < Len(s) => s[i + 1] \in B}
<1>3. 0 \in S
  BY <1>2
<1>4. ASSUME NEW i \in Nat, i \in S PROVE i + 1 \in S
  <2> SUFFICES ASSUME i + 1 < Len(s) PROVE s[(i + 1) + 1] \in B
    OBVIOUS
  <2>1. i + 1 \in 1..(Len(s) - 1)
    BY <1>2
  <2>2. s[(i + 1) + 1] = f[s[i + 1]]
    BY <1>1, <2>1 DEF Steps
  <2>3. s[i + 1] \in B
    BY <1>2, <1>4
  <2> QED
    BY <2>2, <2>3
<1>5. \A i \in Nat : i \in S
  <2> HIDE DEF S
  <2> QED
    BY <1>3, <1>4, Induction
<1>6. \A i \in Nat : i < Len(s) => s[i + 1] \in B
  BY <1>5
<1>7. Len(s) = N + 1
  <2> SUFFICES ASSUME Ended(f, Null, s) PROVE FALSE
    BY <1>1
  <2>1. Len(s) - 1 \in Nat /\ Len(s) - 1 < Len(s) /\ (Len(s) - 1) + 1 = Len(s)
    BY <1>2
  <2>2. s[Len(s)] \in B
    BY <1>6, <2>1
  <2>3. f[s[Len(s)]] \in Cells
    BY <2>2
  <2> QED
    BY <1>0, <1>2, <2>3 DEF Ended
<1>8. n \in Nat /\ n < Len(s)
  BY <1>0, <1>7
<1> QED
  BY <1>6, <1>8 DEF s

\* shift_forward() and shift_backwards(), to whatever node it is.
LEMMA ShiftRelinks ==
  ASSUME IInv, loop = Null, NEW l \in Lists, next[l] # prev[l],
         NEW q, NEW n \in 1..N,
         LET k == Cut(Links, l, next[l])
         IN  \/ q = Path(k.next, next[l], Null)[n + 1]
             \/ q = k.next[Path(k.prev, prev[l], Null)[n + 1]]
  PROVE  Relinked(next, prev, LinkBefore(Cut(Links, l, next[l]), q, l), CellsIn(parent, l), CellsIn(parent, l))
<1> DEFINE A == CellsIn(parent, l)
           B == A \ {l}
           h == Cut(Links, l, next[l])
           k == LinkBefore(h, q, l)
<1>1. TypeOK /\ Rooted /\ LifetimeBalanced /\ AllRings
  BY Idle
<1>2. /\ next \in Pointers /\ prev \in Pointers /\ Links = LinksOf(next, prev) /\ A \subseteq Cells /\ l \in A
  BY <1>1, CellFacts
<1>3. Ring(next, prev, A)
  BY <1>1 DEF AllRings
<1>4. next[l] # l /\ next[l] \in B /\ prev[l] \in B
  <2>1. next[l] \in A /\ prev[l] \in A /\ prev[next[l]] = l /\ next[prev[l]] = l
    BY <1>2, <1>3 DEF Ring
  <2> QED
    BY <2>1
<1>5. Relinked(next, prev, h, A, B)
  <2> HIDE DEF A
  <2>1. Segment(next, prev, A, {l}, l, next[l])
    BY <1>2, <1>3, <1>4, SegmentOne
  <2>2. Relinked(next, prev, Cut(LinksOf(next, prev), l, next[l]), A, A \ {l})
    BY <1>2, <1>3, <2>1, CutCuts
  <2> QED
    BY <1>2, <2>2
<1>6. q = Path(h.next, next[l], Null)[n + 1] \/ q = h.next[Path(h.prev, prev[l], Null)[n + 1]]
  OBVIOUS
<1>8. h = Cut(LinksOf(next, prev), l, next[l])
  BY <1>2
<1> HIDE DEF h
<1>9. /\ h.next \in Pointers /\ h.prev \in Pointers
      /\ \A c \in B : h.next[c] \in B /\ h.prev[c] \in B
  BY <1>5 DEF Relinked, Ring
<1>10. B \subseteq Cells
  BY <1>2
<1> HIDE DEF B
<1>11. /\ Path(h.next, next[l], Null)[n + 1] \in B
       /\ Path(h.prev, prev[l], Null)[n + 1] \in B
  BY <1>4, <1>9, <1>10, WalkStays
<1>12. q \in B
  BY <1>6, <1>9, <1>11
<1>13. q \in A \ {l}
  BY <1>12 DEF B
<1>14. k = LinkBefore(Cut(LinksOf(next, prev), l, next[l]), q, l)
  BY <1>8
<1> HIDE DEF A, k
<1>15. Relinked(next, prev, k, A, A)
  BY <1>2, <1>3, <1>4, <1>13, <1>14, ShiftLinks
<1> QED
  BY <1>15 DEF A, h, k

LEMMA ShiftHolds ==
  ASSUME IInv, loop = Null, NEW l \in Lists, next[l] # prev[l],
         NEW q, NEW n \in 1..N,
         LET k == Cut(Links, l, next[l])
         IN  \/ q = Path(k.next, next[l], Null)[n + 1]
             \/ q = k.next[Path(k.prev, prev[l], Null)[n + 1]],
         Become(LinkBefore(Cut(Links, l, next[l]), q, l)), UNCHANGED <<parent, books, loop>>
  PROVE  IInv'
BY ShiftRelinks, RearrangedHolds DEF Become

LEMMA ShiftForwardHolds ==
  ASSUME IInv, NEW l \in Lists, NEW n \in 1..N, ShiftForward(l, n)
  PROVE  IInv'
BY ShiftHolds DEF ShiftForward

LEMMA ShiftBackwardsHolds ==
  ASSUME IInv, NEW l \in Lists, NEW n \in 1..N, ShiftBackwards(l, n)
  PROVE  IInv'
BY ShiftHolds DEF ShiftBackwards

LEMMA AssignHolds ==
  ASSUME IInv, NEW l \in Lists, NEW s \in Seq(Nodes), Assign(l, s)
  PROVE  IInv'
<1> DEFINE A == CellsIn(parent, l)
           R == Between(next[l], l)
           S == Members(s)
           k == Forget(Thread(Links, <<l>> \o s \o <<l>>), R)
<1>1. TypeOK /\ Rooted /\ LifetimeBalanced /\ AllRings
  BY Idle DEF Assign
<1>2. /\ S \subseteq Nodes /\ Injective(s) /\ \A n \in S : parent[n] = Null
  BY UnlinkedIs DEF Assign
<1>3. /\ parent' = [c \in Cells |-> IF c \in R THEN Null ELSE Given(S, l)[c]]
      /\ traits' = Counted(S, R) /\ unhooked' = unhooked /\ loop' = Null
      /\ next' = k.next /\ prev' = k.prev
  BY DEF Assign, Become
<1>4. /\ next \in Pointers /\ prev \in Pointers /\ Links = LinksOf(next, prev) /\ A \subseteq Cells /\ l \in A
      /\ A \ {l} \subseteq Nodes
  BY <1>1, CellFacts
<1>5. Ring(next, prev, A)
  BY <1>1 DEF AllRings
<1>6. R = A \ {l}
  BY <1>1, <1>5, RoundOn
<1>7. \A m \in Lists : CellsIn(parent, m) \cap S = {}
  BY <1>2, Basics DEF CellsIn
<1>8. A \cap S = {}
  BY <1>7
<1>9. Relinked(next, prev, k, A, {l} \cup S)
  <2> HIDE DEF A, R
  <2>1. Relinked(next, prev, Forget(Thread(LinksOf(next, prev), <<l>> \o s \o <<l>>), A \ {l}), A, {l} \cup S)
    BY <1>2, <1>4, <1>8, AssignLinks
  <2> QED
    BY <1>4, <1>6, <2>1
<1> HIDE DEF k, R, S
<1>10. \A c \in Cells : parent'[c] = IF c \in R THEN Null ELSE IF c \in S THEN l ELSE parent[c]
  BY <1>3 DEF Given
<1>11. parent' \in [Cells -> Lists \cup {Null}]
  <2>1. \A c \in Cells : Given(S, l)[c] \in Lists \cup {Null}
    BY <1>1 DEF Given, TypeOK
  <2> HIDE DEF A
  <2> QED
    BY <1>3, <2>1
<1>12. \A m \in Lists : parent'[m] = m
  BY <1>1, <1>2, <1>4, <1>6, <1>10, Basics DEF Rooted
<1>13. CellsIn(parent', l) = {l} \cup S
  <2>1. S \subseteq Cells
    BY <1>2, Basics
  <2> QED
    BY <1>4, <1>6, <1>7, <1>8, <1>10, <2>1, Basics DEF CellsIn
<1>14. ASSUME NEW m \in Lists, m # l PROVE CellsIn(parent', m) = CellsIn(parent, m)
  BY <1>6, <1>7, <1>10, <1>14, Basics DEF CellsIn
<1>15. /\ next' \in Pointers /\ prev' \in Pointers
       /\ \A m \in Lists : Ring(next', prev', CellsIn(parent', m))
  <2>1. Relinked(next, prev, k, CellsIn(parent, l), {l} \cup S)
    BY <1>9
  <2> HIDE DEF A
  <2> QED
    BY <2>1, <1>1, <1>3, <1>13, <1>14, OneRing
<1>16. traits' \in [Nodes -> Nat] /\ LifetimeBalanced'
  <2>1. l # Null /\ Nodes \subseteq Cells
    BY Basics
  <2>2. \A n \in Nodes : n \in S => parent[n] = Null /\ parent'[n] # Null
    BY <1>2, <1>6, <1>8, <1>10, <2>1
  <2>3. \A n \in Nodes : n \in R => parent[n] # Null /\ parent'[n] = Null
    BY <1>6, <1>10, <2>1 DEF CellsIn
  <2>4. \A n \in Nodes : n \notin S \cup R => (parent[n] = Null <=> parent'[n] = Null)
    BY <1>10, <2>1
  <2> QED
    BY <1>1, <1>3, <2>2, <2>3, <2>4, Balanced
<1>17. unhooked' \in [Nodes -> Nat]
  BY <1>1, <1>3 DEF TypeOK
<1> QED
  BY <1>3, <1>11, <1>12, <1>15, <1>16, <1>17, Settled

\* A set with two cells in each other's place.
LEMMA SwappedIs ==
  ASSUME NEW A, NEW a, NEW b
  PROVE  /\ a \notin A /\ b \notin A => Swapped(A, a, b) = A
         /\ a \in A /\ b \notin A => Swapped(A, a, b) = (A \ {a}) \cup {b}
         /\ a \notin A /\ b \in A => Swapped(A, a, b) = (A \ {b}) \cup {a}
         /\ a = b => Swapped(A, a, b) = A
BY DEF Swapped

\* The rings are those that were, with two roots in each other's place.
LEMMA SwappedRings ==
  ASSUME NEW nx \in Pointers, NEW pv \in Pointers, NEW l \in Cells, NEW x \in Cells,
         Become(SwapNodes(LinksOf(nx, pv), l, x)),
         \A m \in Lists : \E A \in SUBSET Cells : Ring(nx, pv, A) /\ CellsIn(parent', m) = Swapped(A, l, x)
  PROVE  /\ next' \in Pointers /\ prev' \in Pointers
         /\ \A m \in Lists : Ring(next', prev', CellsIn(parent', m))
<1> DEFINE k == SwapNodes(LinksOf(nx, pv), l, x)
<1>1. next' = k.next /\ prev' = k.prev
  BY DEF Become
<1>2. /\ k.next \in Pointers /\ k.prev \in Pointers
      /\ \A A \in SUBSET Cells : Ring(nx, pv, A) => Ring(k.next, k.prev, Swapped(A, l, x))
  BY SwapLinks
<1> HIDE DEF k
<1> QED
  BY <1>1, <1>2

LEMMA SwapHolds ==
  ASSUME IInv, NEW l \in Lists, NEW x \in Lists, Swap(l, x)
  PROVE  IInv'
<1> DEFINE A == CellsIn(parent, l)
           B == CellsIn(parent, x)
<1>1. TypeOK /\ Rooted /\ LifetimeBalanced /\ AllRings
  BY Idle DEF Swap
<1>2. /\ next \in Pointers /\ prev \in Pointers /\ Links = LinksOf(next, prev)
      /\ A \subseteq Cells /\ l \in A /\ B \subseteq Cells /\ x \in B
      /\ A \ {l} \subseteq Nodes /\ B \ {x} \subseteq Nodes
      /\ l # x => A \cap B = {}
  BY <1>1, CellFacts
<1>3. Ring(next, prev, A) /\ Ring(next, prev, B)
  BY <1>1 DEF AllRings
<1>4. Between(next[l], l) = A \ {l} /\ Between(next[x], x) = B \ {x}
  BY <1>1, <1>3, RoundOn
<1>5. parent' = [c \in Cells |-> IF c \in A \ {l} THEN x ELSE Given(B \ {x}, l)[c]]
  BY <1>4 DEF Swap
<1>6. UNCHANGED books /\ loop' = Null /\ Become(SwapNodes(LinksOf(next, prev), l, x))
  BY <1>2 DEF Swap
<1> HIDE DEF A, B
<1>7. \A c \in Cells : parent'[c] = IF c \in A \ {l} THEN x ELSE IF c \in B \ {x} THEN l ELSE parent[c]
  BY <1>5 DEF Given
<1>8. parent' \in [Cells -> Lists \cup {Null}]
  <2>1. \A c \in Cells : Given(B \ {x}, l)[c] \in Lists \cup {Null}
    BY <1>1 DEF Given, TypeOK
  <2> QED
    BY <1>5, <2>1
<1>9. \A m \in Lists : parent'[m] = m
  BY <1>1, <1>2, <1>7, Basics DEF Rooted
<1>10. l \in Cells /\ x \in Cells /\ Nodes \subseteq Cells
  BY Basics
<1>11. ASSUME NEW m \in Lists
       PROVE  \E C \in SUBSET Cells : Ring(next, prev, C) /\ CellsIn(parent', m) = Swapped(C, l, x)
  <2>1. CASE l # x /\ m = l
    <3>1. CellsIn(parent', m) = (B \ {x}) \cup {l}
      BY <1>1, <1>2, <1>7, <1>10, <2>1 DEF CellsIn, A, B, Rooted
    <3>2. Swapped(B, l, x) = (B \ {x}) \cup {l}
      BY <1>2, <2>1, SwappedIs
    <3> QED
      BY <1>2, <1>3, <3>1, <3>2
  <2>2. CASE l # x /\ m = x
    <3>1. CellsIn(parent', m) = (A \ {l}) \cup {x}
      BY <1>1, <1>2, <1>7, <1>10, <2>2 DEF CellsIn, A, B, Rooted
    <3>2. Swapped(A, l, x) = (A \ {l}) \cup {x}
      BY <1>2, <2>2, SwappedIs
    <3> QED
      BY <1>2, <1>3, <3>1, <3>2
  <2>3. CASE m # l /\ m # x
    <3>1. CellsIn(parent', m) = CellsIn(parent, m)
      BY <1>7, <2>3 DEF CellsIn, A, B
    <3>2. Swapped(CellsIn(parent, m), l, x) = CellsIn(parent, m)
      <4>1. l \notin CellsIn(parent, m) /\ x \notin CellsIn(parent, m)
        BY <1>1, <2>3 DEF CellsIn, Rooted
      <4> QED
        BY <4>1, SwappedIs
    <3>3. CellsIn(parent, m) \in SUBSET Cells /\ Ring(next, prev, CellsIn(parent, m))
      BY <1>1 DEF AllRings, CellsIn
    <3> QED
      BY <3>1, <3>2, <3>3
  <2>4. CASE l = x /\ m = l
    <3>1. CellsIn(parent', m) = A
      BY <1>7, <2>4 DEF CellsIn, A, B
    <3>2. Swapped(A, l, x) = A
      BY <2>4, SwappedIs
    <3> QED
      BY <1>2, <1>3, <3>1, <3>2
  <2> QED
    BY <2>1, <2>2, <2>3, <2>4
<1>12. /\ next' \in Pointers /\ prev' \in Pointers
       /\ \A m \in Lists : Ring(next', prev', CellsIn(parent', m))
  BY <1>2, <1>6, <1>10, <1>11, SwappedRings
<1>13. traits' \in [Nodes -> Nat] /\ unhooked' \in [Nodes -> Nat] /\ LifetimeBalanced'
  <2>1. \A n \in Nodes : (parent[n] = Null) <=> (parent'[n] = Null)
    BY <1>7, <1>10, Basics DEF CellsIn, A, B
  <2> QED
    BY <1>1, <1>6, <2>1, SameBooks
<1> QED
  BY <1>6, <1>8, <1>9, <1>12, <1>13, Settled

LEMMA MoveAssignHolds ==
  ASSUME IInv, NEW l \in Lists, NEW x \in Lists, MoveAssign(l, x)
  PROVE  IInv'
<1> DEFINE A == CellsIn(parent, l)
           B == CellsIn(parent, x)
           R == A \ {l}
           S == IF l = x THEN {} ELSE B \ {x}
           h == Forget(Join(Links, l, l), R)
<1>1. TypeOK /\ Rooted /\ LifetimeBalanced /\ AllRings
  BY Idle DEF MoveAssign
<1>2. /\ next \in Pointers /\ prev \in Pointers /\ Links = LinksOf(next, prev)
      /\ A \subseteq Cells /\ l \in A /\ B \subseteq Cells /\ x \in B
      /\ A \ {l} \subseteq Nodes /\ B \ {x} \subseteq Nodes
      /\ l # x => A \cap B = {}
  BY <1>1, CellFacts
<1>3. \A m \in Lists : Ring(next, prev, CellsIn(parent, m))
  BY <1>1 DEF AllRings
<1>4. Between(next[l], l) = A \ {l} /\ Between(next[x], x) = B \ {x}
  BY <1>1, <1>3, RoundOn
<1>5. /\ parent' = [c \in Cells |-> IF c \in R THEN Null ELSE Given(S, l)[c]]
      /\ traits' = Counted({}, R) /\ unhooked' = unhooked /\ loop' = Null
      /\ Become(SwapNodes(h, l, x))
  BY <1>4 DEF MoveAssign
<1>6. h = LinksOf(h.next, h.prev)
  BY DEF Forget, LinksOf
<1>7. Relinked(next, prev, h, A, {l})
  <2> HIDE DEF A, R
  <2>1. Relinked(next, prev, Forget(Join(LinksOf(next, prev), l, l), A \ {l}), A, {l})
    BY <1>2, ClearLinks
  <2> QED
    BY <1>2, <2>1 DEF R
<1> HIDE DEF A, B, R, S, h
<1>8. \A c \in Cells : parent'[c] = IF c \in R THEN Null ELSE IF c \in S THEN l ELSE parent[c]
  BY <1>5 DEF Given
<1>9. parent' \in [Cells -> Lists \cup {Null}]
  <2>1. \A c \in Cells : Given(S, l)[c] \in Lists \cup {Null}
    BY <1>1 DEF Given, TypeOK
  <2> QED
    BY <1>5, <2>1
<1>10. \A m \in Lists : parent'[m] = m
  BY <1>1, <1>2, <1>8, Basics DEF Rooted, R, S
<1>11. l \in Cells /\ x \in Cells /\ Nodes \subseteq Cells /\ l # Null /\ x # Null
  BY Basics
<1>12. /\ h.next \in Pointers /\ h.prev \in Pointers /\ Ring(h.next, h.prev, {l})
       /\ \A c \in Cells \ (A \cup {l}) : h.next[c] = next[c] /\ h.prev[c] = prev[c]
  BY <1>7 DEF Relinked
<1>13. ASSUME NEW m \in Lists, m # l PROVE Ring(h.next, h.prev, CellsIn(parent, m))
  <2> DEFINE C == CellsIn(parent, m)
  <2>1. \A c \in C : h.next[c] = next[c] /\ h.prev[c] = prev[c]
    BY <1>2, <1>12, <1>13 DEF CellsIn, A
  <2>2. Ring(next, prev, C)
    BY <1>3
  <2> HIDE DEF C
  <2>3. Ring(h.next, h.prev, C)
    BY <2>1, <2>2, RingKept
  <2> QED
    BY <2>3 DEF C
<1>14. ASSUME NEW m \in Lists
       PROVE  \E C \in SUBSET Cells : Ring(h.next, h.prev, C) /\ CellsIn(parent', m) = Swapped(C, l, x)
  <2>1. CASE l # x /\ m = l
    <3>1. CellsIn(parent', m) = (B \ {x}) \cup {l}
      <4>1. S = B \ {x}
        BY <2>1 DEF S
      <4> QED
        BY <1>1, <1>2, <1>8, <1>11, <2>1, <4>1 DEF CellsIn, A, B, R, Rooted
    <3>2. Swapped(B, l, x) = (B \ {x}) \cup {l}
      BY <1>2, <2>1, SwappedIs
    <3>3. Ring(h.next, h.prev, B)
      BY <1>13, <2>1 DEF B
    <3> QED
      BY <1>2, <3>1, <3>2, <3>3
  <2>2. CASE l # x /\ m = x
    <3>1. CellsIn(parent', m) = {x}
      <4>1. S = B \ {x}
        BY <2>2 DEF S
      <4> QED
        BY <1>1, <1>2, <1>8, <1>11, <2>2, <4>1 DEF CellsIn, A, B, R, Rooted
    <3>2. Swapped({l}, l, x) = {x}
      BY <2>2, SwappedIs
    <3> QED
      BY <1>11, <1>12, <3>1, <3>2
  <2>3. CASE m # l /\ m # x
    <3>1. CellsIn(parent', m) = CellsIn(parent, m)
      <4>1. S \subseteq B
        BY DEF S
      <4>2. \A c \in R : parent[c] = l
        BY DEF R, A, CellsIn
      <4>3. \A c \in S : parent[c] = x
        BY <4>1 DEF B, CellsIn
      <4>4. \A c \in Cells : parent'[c] = m <=> parent[c] = m
        <5>1. m # Null
          BY Basics
        <5> QED
          BY <1>8, <2>3, <4>2, <4>3, <5>1
      <4> QED
        BY <4>4 DEF CellsIn
    <3>2. Swapped(CellsIn(parent, m), l, x) = CellsIn(parent, m)
      <4>1. l \notin CellsIn(parent, m) /\ x \notin CellsIn(parent, m)
        BY <1>1, <2>3 DEF CellsIn, Rooted
      <4> QED
        BY <4>1, SwappedIs
    <3>3. CellsIn(parent, m) \in SUBSET Cells /\ Ring(h.next, h.prev, CellsIn(parent, m))
      BY <1>13, <2>3 DEF CellsIn
    <3> QED
      BY <3>1, <3>2, <3>3
  <2>4. CASE l = x /\ m = l
    <3>1. CellsIn(parent', m) = {l}
      <4>1. S = {}
        BY <2>4 DEF S
      <4> QED
        BY <1>1, <1>2, <1>8, <1>11, <2>4, <4>1 DEF CellsIn, A, R, Rooted
    <3>2. Swapped({l}, l, x) = {l}
      BY <2>4, SwappedIs
    <3> QED
      BY <1>11, <1>12, <3>1, <3>2
  <2> QED
    BY <2>1, <2>2, <2>3, <2>4
<1>15. /\ next' \in Pointers /\ prev' \in Pointers
       /\ \A m \in Lists : Ring(next', prev', CellsIn(parent', m))
  <2>1. Become(SwapNodes(LinksOf(h.next, h.prev), l, x))
    BY <1>5, <1>6
  <2> QED
    BY <1>11, <1>12, <1>14, <2>1, SwappedRings
<1>16. traits' \in [Nodes -> Nat] /\ LifetimeBalanced'
  <2>1. \A n \in Nodes : n \in {} => parent[n] = Null /\ parent'[n] # Null
    OBVIOUS
  <2>2. \A n \in Nodes : n \in R => parent[n] # Null /\ parent'[n] = Null
    BY <1>8, <1>11 DEF CellsIn, A, R
  <2>3. \A n \in Nodes : n \notin {} \cup R => (parent[n] = Null <=> parent'[n] = Null)
    BY <1>8, <1>11 DEF S, B, CellsIn
  <2> QED
    BY <1>1, <1>5, <2>1, <2>2, <2>3, Balanced
<1>17. unhooked' \in [Nodes -> Nat]
  BY <1>1, <1>5 DEF TypeOK
<1> QED
  BY <1>5, <1>9, <1>10, <1>15, <1>16, <1>17, Settled

\* Nodes that go from one list to another, or to another place in their list.
LEMMA Moved ==
  ASSUME TypeOK, Rooted, AllRings, NEW l \in Lists, NEW x \in Lists, NEW p \in CellsIn(parent, l),
         NEW R, NEW b, NEW e, Segment(next, prev, CellsIn(parent, x), R, b, e),
         x \notin R, p \notin R, p # e,
         Become(Transfer(Links, p, b, e)), parent' = Given(R, l)
  PROVE  /\ next' \in Pointers /\ prev' \in Pointers
         /\ parent' \in [Cells -> Lists \cup {Null}] /\ \A m \in Lists : parent'[m] = m
         /\ \A m \in Lists : Ring(next', prev', CellsIn(parent', m))
         /\ \A n \in Nodes : (parent[n] = Null) <=> (parent'[n] = Null)
         /\ CellsIn(parent', x) = IF l = x THEN CellsIn(parent, x) ELSE CellsIn(parent, x) \ R
         /\ CellsIn(parent', l) = CellsIn(parent, l) \cup R
<1> DEFINE A == CellsIn(parent, x)
           B == CellsIn(parent, l)
           k == Transfer(Links, p, b, e)
<1>1. /\ next \in Pointers /\ prev \in Pointers /\ Links = LinksOf(next, prev)
      /\ A \subseteq Cells /\ x \in A /\ B \subseteq Cells /\ l \in B /\ A \ {x} \subseteq Nodes
      /\ l # x => A \cap B = {}
  BY CellFacts
<1>2. Ring(next, prev, A) /\ Ring(next, prev, B)
  BY DEF AllRings
<1>3. next' = k.next /\ prev' = k.prev
  BY DEF Become
<1>4. R \subseteq A /\ R \subseteq Nodes
  BY <1>1 DEF Segment
<1>5. /\ parent' \in [Cells -> Lists \cup {Null}] /\ \A m \in Lists : parent'[m] = m
      /\ \A c \in R : parent'[c] = l
      /\ \A c \in Cells \ R : parent'[c] = parent[c]
      /\ \A m \in Lists : m = l => CellsIn(parent', m) = CellsIn(parent, m) \cup R
      /\ \A m \in Lists : m # l => CellsIn(parent', m) = CellsIn(parent, m) \ R
  BY <1>4, GivenIs
<1>6. ASSUME NEW m \in Lists, m # l, m # x PROVE CellsIn(parent', m) = CellsIn(parent, m)
  <2>1. CellsIn(parent, m) \cap R = {}
    BY <1>4, <1>6 DEF CellsIn
  <2> QED
    BY <1>5, <1>6, <2>1
<1>7. \A n \in Nodes : (parent[n] = Null) <=> (parent'[n] = Null)
  <2>1. \A n \in R : parent[n] # Null
    BY <1>4, Basics DEF CellsIn
  <2> QED
    BY <1>5, <2>1, Basics
<1> HIDE DEF A, B
<1>8. CASE l = x
  <2>1. A = B /\ p \in A /\ CellsIn(parent', l) = A
    <3>1. A = B /\ p \in B
      BY <1>8 DEF A, B
    <3>2. CellsIn(parent', l) = B \cup R
      BY <1>5 DEF B
    <3> QED
      BY <1>4, <3>1, <3>2
  <2>2. Relinked(next, prev, Transfer(LinksOf(next, prev), p, b, e), A, A)
    <3>1. Segment(next, prev, A, R, b, e)
      BY DEF A
    <3> QED
      BY <1>1, <1>2, <2>1, <3>1, TransferWithin
  <2>3. Relinked(next, prev, k, A, A)
    BY <1>1, <2>2
  <2> HIDE DEF k
  <2>4. Relinked(next, prev, k, CellsIn(parent, x), A)
    BY <2>3 DEF A
  <2>5. CellsIn(parent', x) = A
    BY <1>8, <2>1
  <2>6. \A m \in Lists : m # x => CellsIn(parent', m) = CellsIn(parent, m)
    BY <1>6, <1>8
  <2>7. /\ next' \in Pointers /\ prev' \in Pointers
        /\ \A m \in Lists : Ring(next', prev', CellsIn(parent', m))
    BY <1>3, <2>4, <2>5, <2>6, OneRing
  <2> QED
    BY <1>5, <1>7, <1>8, <2>1, <2>5, <2>7 DEF A
<1>9. CASE l # x
  <2>1. CellsIn(parent', x) = A \ R /\ CellsIn(parent', l) = B \cup R
    BY <1>5, <1>9 DEF A, B
  <2>2. /\ Relinked(next, prev, k, A \cup B, A \ R)
        /\ Relinked(next, prev, k, A \cup B, B \cup R)
    <3>1. Segment(next, prev, A, R, b, e) /\ p \in B
      BY DEF A, B
    <3>2. A \cap B = {}
      BY <1>1, <1>9
    <3>3. LET h == Transfer(LinksOf(next, prev), p, b, e) IN
          /\ Relinked(next, prev, h, A \cup B, A \ R)
          /\ Relinked(next, prev, h, A \cup B, B \cup R)
      BY <1>1, <1>2, <3>1, <3>2, TransferAway
    <3> QED
      BY <1>1, <3>3
  <2> HIDE DEF k
  <2>3. /\ next' \in Pointers /\ prev' \in Pointers
        /\ Ring(next', prev', A \ R) /\ Ring(next', prev', B \cup R)
        /\ \A c \in Cells \ (A \cup B) : next'[c] = next[c] /\ prev'[c] = prev[c]
    BY <1>3, <1>4, <2>2 DEF Relinked
  <2>4. ASSUME NEW m \in Lists PROVE Ring(next', prev', CellsIn(parent', m))
    <3>1. CASE m = l \/ m = x
      BY <2>1, <2>3, <3>1
    <3>2. CASE m # l /\ m # x
      <4> DEFINE C == CellsIn(parent, m)
      <4>1. \A c \in C : next'[c] = next[c] /\ prev'[c] = prev[c]
        BY <2>3, <3>2 DEF CellsIn, A, B
      <4>2. Ring(next, prev, C)
        BY DEF AllRings
      <4> HIDE DEF C
      <4>3. Ring(next', prev', C)
        BY <4>1, <4>2, RingKept
      <4> QED
        BY <1>6, <3>2, <4>3 DEF C
    <3> QED
      BY <3>1, <3>2
  <2> QED
    BY <1>5, <1>7, <1>9, <2>1, <2>3, <2>4 DEF A, B
<1> QED
  BY <1>8, <1>9

LEMMA SpliceHolds ==
  ASSUME IInv, NEW l \in Lists, NEW p \in Cells, NEW x \in Lists, NEW b \in Cells, NEW e \in Cells,
         Splice(l, p, x, b, e)
  PROVE  IInv'
<1>1. TypeOK /\ Rooted /\ LifetimeBalanced /\ AllRings
  BY Idle DEF Splice
<1> DEFINE R == Between(b, e)
<1>2. /\ p \in CellsIn(parent, l) /\ x \notin R /\ p \notin R /\ p # e
      /\ parent' = Given(R, l) /\ UNCHANGED books /\ loop' = Null
      /\ Become(Transfer(Links, p, b, e))
  BY DEF Splice, In, CellsIn
<1>3. Segment(next, prev, CellsIn(parent, x), R, b, e)
  <2>1. b \in CellsIn(parent, x) /\ e \in CellsIn(parent, x) /\ b # e
    BY DEF Splice, In, CellsIn
  <2>2. Ring(next, prev, CellsIn(parent, x))
    BY <1>1 DEF AllRings
  <2> QED
    BY <1>1, <2>1, <2>2, BetweenOn
<1> HIDE DEF R
<1>4. /\ next' \in Pointers /\ prev' \in Pointers
      /\ parent' \in [Cells -> Lists \cup {Null}] /\ \A m \in Lists : parent'[m] = m
      /\ \A m \in Lists : Ring(next', prev', CellsIn(parent', m))
      /\ \A n \in Nodes : (parent[n] = Null) <=> (parent'[n] = Null)
  BY <1>1, <1>2, <1>3, Moved
<1>5. traits' \in [Nodes -> Nat] /\ unhooked' \in [Nodes -> Nat] /\ LifetimeBalanced'
  BY <1>1, <1>2, <1>4, SameBooks
<1> QED
  BY <1>2, <1>4, <1>5, Settled

-----------------------------------------------------------------------------
\* A loop that is not a sort() goes on.
LEMMA GoesOn ==
  ASSUME next' \in Pointers, prev' \in Pointers, parent' \in [Cells -> Lists \cup {Null}],
         traits' \in [Nodes -> Nat], unhooked' \in [Nodes -> Nat], loop' \in Loops, loop'.op # "sort",
         \A l \in Lists : parent'[l] = l, LifetimeBalanced', LoopOK',
         \A l \in Lists : Ring(next', prev', CellsIn(parent', l))
  PROVE  IInv'
<1>1. TypeOK'
  BY DEF TypeOK, Pointers
<1>2. Rooted'
  BY DEF Rooted
<1>3. \A l \in Lists : ~Sorting(l)'
  BY DEF Sorting, Running
<1>4. RingsOK'
  BY <1>3 DEF RingsOK
<1> QED
  BY <1>1, <1>2, <1>4 DEF IInv

\* A step of a loop that changes no list.
LEMMA OnlyLooks ==
  ASSUME IInv, ~Running("sort"), UNCHANGED <<next, prev, parent, books>>,
         loop' = Null \/ (loop' \in Loops /\ loop'.op # "sort"), LoopOK'
  PROVE  IInv'
<1>1. TypeOK /\ Rooted /\ LifetimeBalanced /\ AllRings
  BY AtRest DEF IInv
<1>2. next' = next /\ prev' = prev /\ parent' = parent /\ UNCHANGED books
  OBVIOUS
<1>3. /\ next' \in Pointers /\ prev' \in Pointers /\ parent' \in [Cells -> Lists \cup {Null}]
      /\ \A l \in Lists : parent'[l] = l
  BY <1>1, <1>2 DEF TypeOK, Pointers, Rooted
<1>4. \A l \in Lists : Ring(next', prev', CellsIn(parent', l))
  BY <1>1, <1>2 DEF AllRings
<1>5. traits' \in [Nodes -> Nat] /\ unhooked' \in [Nodes -> Nat] /\ LifetimeBalanced'
  BY <1>1, <1>2, SameBooks
<1>6. CASE loop' = Null
  BY <1>3, <1>4, <1>5, <1>6, Settled
<1>7. CASE loop' \in Loops /\ loop'.op # "sort"
  BY <1>3, <1>4, <1>5, <1>7, GoesOn
<1> QED
  BY <1>6, <1>7

LEMMA LoopIs ==
  ASSUME TypeOK, NEW op, Running(op)
  PROVE  /\ loop \in Loops /\ loop # Null /\ loop.op = op
         /\ loop.list \in Lists /\ loop.other \in Lists
BY DEF TypeOK, Running, Loops

LEMMA BeginIs ==
  ASSUME IInv, NEW op \in {"sort", "merge", "remove_if", "unique"}, NEW l \in Lists, NEW x \in Lists,
         NEW lawful \in BOOLEAN, NEW at \in WalkCursors \cup SortCursors, Begin(op, l, x, lawful, at)
  PROVE  /\ loop' \in Loops /\ loop' # Null
         /\ loop'.op = op /\ loop'.list = l /\ loop'.other = x /\ loop'.at = at
         /\ TypeOK /\ Rooted /\ LifetimeBalanced /\ AllRings /\ loop = Null /\ ~Running("sort")
<1>1. TypeOK /\ Rooted /\ LifetimeBalanced /\ AllRings /\ loop = Null
  BY Idle DEF Begin
<1>2. [m \in Lists |-> Content(m)] \in [Lists -> Seq(Nodes)]
  <2>1. ASSUME NEW m \in Lists PROVE Content(m) \in Seq(Nodes)
    BY <1>1, RoundOn DEF AllRings
  <2> QED
    BY <2>1
<1>3. loop' = [op |-> op, list |-> l, other |-> x, lawful |-> lawful, at |-> at,
               before |-> [m \in Lists |-> Content(m)]]
  BY DEF Begin
<1>4. loop' \in Loops
  BY <1>2, <1>3 DEF Loops
<1>5. loop' # Null
  BY <1>4, ListAssumption
<1>6. loop'.op = op /\ loop'.list = l /\ loop'.other = x /\ loop'.at = at
  BY <1>3
<1> QED
  BY <1>1, <1>4, <1>5, <1>6 DEF Running

\* Another turn.
LEMMA TurnIs ==
  ASSUME loop \in Loops, NEW at \in WalkCursors \cup SortCursors, loop' = [loop EXCEPT !.at = at]
  PROVE  /\ loop' \in Loops /\ loop' # Null
         /\ loop'.op = loop.op /\ loop'.list = loop.list /\ loop'.other = loop.other /\ loop'.at = at
<1>1. loop' \in Loops
  BY DEF Loops
<1>2. loop' # Null
  BY <1>1, ListAssumption
<1>3. loop'.op = loop.op /\ loop'.list = loop.list /\ loop'.other = loop.other /\ loop'.at = at
  BY DEF Loops
<1> QED
  BY <1>1, <1>2, <1>3

LEMMA MergeBegins ==
  ASSUME IInv, NEW l \in Lists, NEW x \in Lists, NEW lawful \in BOOLEAN, Merge(l, x, lawful)
  PROVE  IInv'
<1> DEFINE at == [p |-> next[l], q |-> next[x]]
<1>1. TypeOK /\ Rooted /\ AllRings
  BY Idle DEF Merge, Begin
<1>2. next[l] \in CellsIn(parent, l) /\ next[x] \in CellsIn(parent, x)
  <2>1. l \in CellsIn(parent, l) /\ x \in CellsIn(parent, x)
    BY <1>1, CellFacts
  <2> QED
    BY <1>1, <2>1 DEF AllRings, Ring
<1>3. at \in WalkCursors
  BY <1>2 DEF WalkCursors, CellsIn
<1>4. l # x /\ Begin("merge", l, x, lawful, at) /\ UNCHANGED <<next, prev, parent, books>>
  BY DEF Merge
<1>5. at.p = next[l] /\ at.q = next[x]
  OBVIOUS
<1> HIDE DEF at
<1>6. /\ loop' \in Loops /\ loop' # Null
      /\ loop'.op = "merge" /\ loop'.list = l /\ loop'.other = x /\ loop'.at = at /\ ~Running("sort")
  BY <1>3, <1>4, BeginIs
<1>7. LoopOK'
  BY <1>2, <1>3, <1>4, <1>5, <1>6 DEF LoopOK, Running, Filtering
<1> QED
  BY <1>4, <1>6, <1>7, OnlyLooks

LEMMA FilterBegins ==
  ASSUME IInv, NEW l \in Lists, NEW lawful \in BOOLEAN, RemoveIf(l) \/ Unique(l, lawful)
  PROVE  IInv'
<1>1. TypeOK /\ Rooted /\ AllRings
  BY Idle DEF RemoveIf, Unique, Begin
<1>2. next[l] \in CellsIn(parent, l) /\ next[next[l]] \in CellsIn(parent, l) /\ l \in CellsIn(parent, l)
  <2>1. l \in CellsIn(parent, l)
    BY <1>1, CellFacts
  <2> QED
    BY <1>1, <2>1 DEF AllRings, Ring
<1>3. PICK op \in {"remove_if", "unique"}, lawfully \in BOOLEAN, at \in WalkCursors :
        at.q \in CellsIn(parent, l) /\ Begin(op, l, l, lawfully, at)
  <2>1. CASE RemoveIf(l)
    <3> DEFINE at == [p |-> l, q |-> next[l]]
    <3>1. at \in WalkCursors /\ at.q \in CellsIn(parent, l)
      BY <1>2 DEF WalkCursors, CellsIn
    <3>2. Begin("remove_if", l, l, FALSE, at)
      BY <2>1 DEF RemoveIf
    <3> QED
      BY <3>1, <3>2
  <2>2. CASE Unique(l, lawful)
    <3> DEFINE at == [p |-> next[l], q |-> next[next[l]]]
    <3>1. at \in WalkCursors /\ at.q \in CellsIn(parent, l)
      BY <1>2 DEF WalkCursors, CellsIn
    <3>2. Begin("unique", l, l, lawful, at)
      BY <2>2 DEF Unique
    <3> QED
      BY <3>1, <3>2
  <2> QED
    BY <2>1, <2>2
<1>4. /\ loop' \in Loops /\ loop' # Null
      /\ loop'.op = op /\ loop'.list = l /\ loop'.at = at /\ ~Running("sort")
  BY <1>3, BeginIs
<1>5. UNCHANGED <<next, prev, parent, books>>
  BY DEF RemoveIf, Unique
<1>6. LoopOK'
  <2>1. at \in WalkCursors /\ at.q \in CellsIn(parent', l)
    BY <1>3, <1>5
  <2>2. op \in {"remove_if", "unique"}
    BY <1>3
  <2> QED
    BY <1>4, <2>1, <2>2 DEF LoopOK, Running, Filtering
<1> QED
  BY <1>4, <1>5, <1>6, OnlyLooks

LEMMA SkipHolds ==
  ASSUME IInv, MergeSkip
  PROVE  IInv'
<1> DEFINE l == loop.list
           at == [loop.at EXCEPT !.p = next[loop.at.p]]
<1>1. TypeOK /\ Rooted /\ AllRings /\ Running("merge") /\ ~Running("sort")
  BY AtRest DEF IInv, MergeSkip, Running
<1>2. loop \in Loops /\ loop.op = "merge" /\ l \in Lists
  BY <1>1, LoopIs
<1>3. /\ loop.at \in WalkCursors /\ l # loop.other
      /\ loop.at.p \in CellsIn(parent, l) /\ loop.at.q \in CellsIn(parent, loop.other)
  BY <1>1 DEF IInv, LoopOK
<1>4. next[loop.at.p] \in CellsIn(parent, l)
  BY <1>1, <1>2, <1>3 DEF AllRings, Ring
<1>5. at \in WalkCursors /\ at.p = next[loop.at.p] /\ at.q = loop.at.q
  BY <1>3, <1>4 DEF WalkCursors, CellsIn
<1>6. UNCHANGED <<next, prev, parent, books>> /\ loop' = [loop EXCEPT !.at = at]
  BY <1>2, <1>3 DEF MergeSkip
<1> HIDE DEF at
<1>7. /\ loop' \in Loops /\ loop' # Null
      /\ loop'.op = loop.op /\ loop'.list = l /\ loop'.other = loop.other /\ loop'.at = at
  BY <1>2, <1>5, <1>6, TurnIs
<1>8. LoopOK'
  BY <1>2, <1>3, <1>4, <1>5, <1>6, <1>7 DEF LoopOK, Running, Filtering
<1> QED
  BY <1>1, <1>2, <1>6, <1>7, <1>8, OnlyLooks

LEMMA KeepHolds ==
  ASSUME IInv, FilterKeep
  PROVE  IInv'
<1> DEFINE l == loop.list
           at == [p |-> loop.at.q, q |-> next[loop.at.q]]
<1>1. TypeOK /\ Rooted /\ AllRings /\ Filtering /\ ~Running("sort")
  BY AtRest DEF IInv, FilterKeep, Filtering, Running
<1>2. loop \in Loops /\ loop.op \in {"remove_if", "unique"} /\ l \in Lists
  BY <1>1, LoopIs DEF Filtering
<1>3. loop.at \in WalkCursors /\ loop.at.q \in CellsIn(parent, l)
  BY <1>1 DEF IInv, LoopOK
<1>4. next[loop.at.q] \in CellsIn(parent, l)
  BY <1>1, <1>2, <1>3 DEF AllRings, Ring
<1>5. at \in WalkCursors /\ at.q = next[loop.at.q]
  BY <1>3, <1>4 DEF WalkCursors, CellsIn
<1>6. UNCHANGED <<next, prev, parent, books>> /\ loop' = [loop EXCEPT !.at = at]
  BY <1>2, <1>3 DEF FilterKeep
<1> HIDE DEF at
<1>7. /\ loop' \in Loops /\ loop' # Null
      /\ loop'.op = loop.op /\ loop'.list = l /\ loop'.at = at
  BY <1>2, <1>5, <1>6, TurnIs
<1>8. LoopOK'
  BY <1>2, <1>4, <1>5, <1>6, <1>7 DEF LoopOK, Running, Filtering
<1> QED
  BY <1>1, <1>2, <1>6, <1>7, <1>8, OnlyLooks

\* A loop that returns, or whose predicate throws.
LEMMA LeaveHolds ==
  ASSUME IInv, MergeReturn \/ MergeThrow \/ FilterReturn \/ FilterThrow
  PROVE  IInv'
<1>1. ~Running("sort")
  BY DEF MergeReturn, MergeThrow, FilterReturn, FilterThrow, Filtering, Running
<1>2. UNCHANGED <<next, prev, parent, books>> /\ loop' = Null
  BY DEF MergeReturn, MergeThrow, FilterReturn, FilterThrow
<1>3. LoopOK'
  BY <1>2 DEF LoopOK, Running, Filtering
<1> QED
  BY <1>1, <1>2, <1>3, OnlyLooks

LEMMA TakeHolds ==
  ASSUME IInv, MergeTake
  PROVE  IInv'
<1> DEFINE l == loop.list
           x == loop.other
           p == loop.at.p
           q == loop.at.q
           at == [loop.at EXCEPT !.q = next[q]]
<1>1. TypeOK /\ Rooted /\ LifetimeBalanced /\ AllRings /\ Running("merge")
  BY AtRest DEF IInv, MergeTake, Running
<1>2. loop \in Loops /\ loop.op = "merge" /\ l \in Lists /\ x \in Lists
  BY <1>1, LoopIs
<1>3. loop.at \in WalkCursors /\ l # x /\ p \in CellsIn(parent, l) /\ q \in CellsIn(parent, x)
  BY <1>1 DEF IInv, LoopOK
<1>4. /\ q # x /\ Become(Transfer(Links, p, q, next[q])) /\ parent' = Given({q}, l) /\ UNCHANGED books
  BY DEF MergeTake
<1>5. Ring(next, prev, CellsIn(parent, x)) /\ x \in CellsIn(parent, x)
  BY <1>1, <1>2, CellFacts DEF AllRings
<1>6. next[q] # q /\ next[q] \in CellsIn(parent, x)
  <2> HIDE DEF q, x
  <2>1. next[q] # q
    BY <1>3, <1>4, <1>5, NotAlone
  <2> QED
    BY <1>3, <1>5, <2>1 DEF Ring
<1>7. at \in WalkCursors /\ at.p = p /\ at.q = next[q]
  BY <1>3, <1>6 DEF WalkCursors, CellsIn
<1>8. loop' = [loop EXCEPT !.at = at]
  BY <1>2, <1>3 DEF MergeTake
<1> HIDE DEF l, x, p, q, at
<1>9. p # q /\ p # next[q]
  BY <1>3, <1>6 DEF CellsIn
<1>10. Segment(next, prev, CellsIn(parent, x), {q}, q, next[q])
  BY <1>3, <1>5, <1>6, SegmentOne
<1>11. /\ next' \in Pointers /\ prev' \in Pointers
       /\ parent' \in [Cells -> Lists \cup {Null}] /\ \A m \in Lists : parent'[m] = m
       /\ \A m \in Lists : Ring(next', prev', CellsIn(parent', m))
       /\ \A n \in Nodes : (parent[n] = Null) <=> (parent'[n] = Null)
       /\ CellsIn(parent', x) = CellsIn(parent, x) \ {q}
       /\ CellsIn(parent', l) = CellsIn(parent, l) \cup {q}
  <2>1. x \notin {q} /\ p \notin {q} /\ p # next[q]
    BY <1>4, <1>9
  <2> DEFINE R == {q}
             e == next[q]
  <2>2. Segment(next, prev, CellsIn(parent, x), R, q, e) /\ x \notin R /\ p \notin R /\ p # e
    BY <1>10, <2>1
  <2>3. Become(Transfer(Links, p, q, e)) /\ parent' = Given(R, l)
    BY <1>4
  <2> HIDE DEF R, e
  <2>4. /\ next' \in Pointers /\ prev' \in Pointers
        /\ parent' \in [Cells -> Lists \cup {Null}] /\ \A m \in Lists : parent'[m] = m
        /\ \A m \in Lists : Ring(next', prev', CellsIn(parent', m))
        /\ \A n \in Nodes : (parent[n] = Null) <=> (parent'[n] = Null)
        /\ CellsIn(parent', x) = IF l = x THEN CellsIn(parent, x) ELSE CellsIn(parent, x) \ R
        /\ CellsIn(parent', l) = CellsIn(parent, l) \cup R
    BY <1>1, <1>2, <1>3, <2>2, <2>3, Moved
  <2> QED
    BY <1>3, <2>4 DEF R
<1>12. traits' \in [Nodes -> Nat] /\ unhooked' \in [Nodes -> Nat] /\ LifetimeBalanced'
  BY <1>1, <1>4, <1>11, SameBooks
<1>13. /\ loop' \in Loops /\ loop' # Null
       /\ loop'.op = "merge" /\ loop'.list = l /\ loop'.other = x /\ loop'.at = at
  BY <1>2, <1>7, <1>8, TurnIs DEF l, x
<1>14. LoopOK'
  <2>1. at.p \in CellsIn(parent', l) /\ at.q \in CellsIn(parent', x)
    BY <1>3, <1>6, <1>7, <1>11
  <2> QED
    BY <1>3, <1>7, <1>13, <2>1 DEF LoopOK, Running, Filtering
<1> QED
  BY <1>11, <1>12, <1>13, <1>14, GoesOn

LEMMA FilterEraseHolds ==
  ASSUME IInv, FilterErase
  PROVE  IInv'
<1> DEFINE l == loop.list
           q == loop.at.q
           at == [loop.at EXCEPT !.q = next[q]]
           A == CellsIn(parent, l)
           k == Forget(Cut(Links, q, next[q]), {q})
<1>1. TypeOK /\ Rooted /\ LifetimeBalanced /\ AllRings /\ Filtering
  BY AtRest DEF IInv, FilterErase, Filtering, Running
<1>2. loop \in Loops /\ loop.op \in {"remove_if", "unique"} /\ l \in Lists
  BY <1>1, LoopIs DEF Filtering
<1>3. loop.at \in WalkCursors /\ q \in A
  BY <1>1 DEF IInv, LoopOK
<1>4. /\ q # l /\ next' = k.next /\ prev' = k.prev /\ parent' = Given({q}, Null)
      /\ traits' = Counted({}, {q}) /\ unhooked' = unhooked
  BY DEF FilterErase, Become
<1>5. /\ Ring(next, prev, A) /\ l \in A /\ A \subseteq Cells
      /\ next \in Pointers /\ prev \in Pointers /\ Links = LinksOf(next, prev)
  BY <1>1, <1>2, CellFacts DEF AllRings
<1>6. next[q] # q /\ next[q] \in A
  <2> HIDE DEF A, l, q
  <2> QED
    <3>1. next[q] # q
      BY <1>3, <1>4, <1>5, NotAlone
    <3> QED
      BY <1>3, <1>5, <3>1 DEF Ring
<1>7. at \in WalkCursors /\ at.q = next[q]
  BY <1>3, <1>6 DEF WalkCursors, CellsIn
<1>8. loop' = [loop EXCEPT !.at = at]
  BY <1>2, <1>3 DEF FilterErase
<1> HIDE DEF l, q, at
<1>9. Relinked(next, prev, k, A, A \ {q})
  <2> HIDE DEF A
  <2>1. Segment(next, prev, A, {q}, q, next[q])
    BY <1>3, <1>5, <1>6, SegmentOne
  <2>2. Relinked(next, prev, Forget(Cut(LinksOf(next, prev), q, next[q]), {q}), A, A \ {q})
    BY <1>5, <2>1, ForgetCuts
  <2> QED
    BY <1>5, <2>2
<1> HIDE DEF k
<1>10. {q} \subseteq A \ {l}
  BY <1>3, <1>4
<1>11. /\ next' \in Pointers /\ prev' \in Pointers
       /\ parent' \in [Cells -> Lists \cup {Null}] /\ \A m \in Lists : parent'[m] = m
       /\ \A m \in Lists : Ring(next', prev', CellsIn(parent', m))
       /\ CellsIn(parent', l) = A \ {q}
  BY <1>1, <1>2, <1>4, <1>9, <1>10, Departed
<1>12. traits' \in [Nodes -> Nat] /\ unhooked' \in [Nodes -> Nat] /\ LifetimeBalanced'
  BY <1>1, <1>2, <1>4, <1>10, WentBalanced
<1>13. /\ loop' \in Loops /\ loop' # Null
       /\ loop'.op = loop.op /\ loop'.list = l /\ loop'.at = at
  BY <1>2, <1>7, <1>8, TurnIs DEF l
<1>14. LoopOK'
  <2>1. at.q \in CellsIn(parent', l)
    BY <1>6, <1>7, <1>11
  <2> QED
    BY <1>2, <1>7, <1>13, <2>1 DEF LoopOK, Running, Filtering
<1>15. loop'.op # "sort"
  BY <1>2, <1>13
<1> QED
  BY <1>11, <1>12, <1>13, <1>14, <1>15, GoesOn

-----------------------------------------------------------------------------
LEMMA ConcatParts ==
  ASSUME NEW s \in Seq(Nodes), NEW t \in Seq(Nodes)
  PROVE  /\ s \o t \in Seq(Nodes) /\ Len(s \o t) = Len(s) + Len(t)
         /\ Members(s \o t) = Members(s) \cup Members(t)
         /\ Injective(s \o t) <=> Injective(s) /\ Injective(t) /\ Members(s) \cap Members(t) = {}
<1> DEFINE u == s \o t
           m == Len(s)
           n == Len(t)
<1>1. u \in Seq(Nodes) /\ Len(u) = m + n /\ m \in Nat /\ n \in Nat
  OBVIOUS
<1>2. \A i \in 1..m : u[i] = s[i]
  OBVIOUS
<1>3. \A i \in 1..n : u[m + i] = t[i]
  OBVIOUS
<1>4. DOMAIN u = 1..(m + n) /\ DOMAIN s = 1..m /\ DOMAIN t = 1..n
  BY <1>1
<1> HIDE DEF u
<1>5. \A i \in 1..(m + n) : i \in 1..m \/ (i - m \in 1..n /\ m + (i - m) = i)
  BY <1>1
<1>6. \A i \in 1..m : i \in 1..(m + n)
  BY <1>1
<1>7. \A i \in 1..n : m + i \in 1..(m + n) /\ m + i \notin 1..m
  BY <1>1
<1>8. Members(u) = Members(s) \cup Members(t)
  <2>1. \A c \in Members(u) : c \in Members(s) \cup Members(t)
    <3>1. ASSUME NEW i \in 1..(m + n) PROVE u[i] \in Members(s) \cup Members(t)
      <4>1. CASE i \in 1..m
        BY <1>2, <1>4, <4>1 DEF Members
      <4>2. CASE i - m \in 1..n /\ m + (i - m) = i
        <5>1. u[i] = t[i - m]
          BY <1>3, <4>2
        <5> QED
          BY <1>4, <4>2, <5>1 DEF Members
      <4> QED
        BY <1>5, <4>1, <4>2
    <3> QED
      BY <1>4, <3>1 DEF Members
  <2>2. \A c \in Members(s) : c \in Members(u)
    BY <1>2, <1>4, <1>6 DEF Members
  <2>3. \A c \in Members(t) : c \in Members(u)
    <3>1. ASSUME NEW i \in 1..n PROVE t[i] \in Members(u)
      <4>1. t[i] = u[m + i] /\ m + i \in 1..(m + n)
        BY <1>3, <1>7
      <4> QED
        BY <1>4, <4>1 DEF Members
    <3> QED
      BY <1>4, <3>1 DEF Members
  <2> QED
    BY <2>1, <2>2, <2>3
<1>9. ASSUME Injective(u) PROVE Injective(s) /\ Injective(t) /\ Members(s) \cap Members(t) = {}
  <2>0. ASSUME NEW i \in 1..(m + n), NEW j \in 1..(m + n), u[i] = u[j] PROVE i = j
    BY <1>1, <1>9, <2>0 DEF Injective
  <2>1. ASSUME NEW i \in 1..m, NEW j \in 1..m, s[i] = s[j] PROVE i = j
    BY <1>2, <1>6, <2>0, <2>1
  <2>2. ASSUME NEW i \in 1..n, NEW j \in 1..n, t[i] = t[j] PROVE i = j
    <3>1. m + i = m + j
      BY <1>3, <1>7, <2>0, <2>2
    <3> QED
      BY <1>1, <3>1
  <2>3. ASSUME NEW i \in 1..m, NEW j \in 1..n PROVE s[i] # t[j]
    <3> SUFFICES ASSUME s[i] = t[j] PROVE FALSE
      OBVIOUS
    <3>1. u[i] = u[m + j] /\ i \in 1..(m + n) /\ m + j \in 1..(m + n) /\ m + j \notin 1..m
      BY <1>2, <1>3, <1>6, <1>7
    <3>2. i = m + j
      BY <2>0, <3>1
    <3> QED
      BY <3>1, <3>2
  <2>4. Members(s) \cap Members(t) = {}
    BY <1>4, <2>3 DEF Members
  <2> QED
    BY <2>1, <2>2, <2>4 DEF Injective
<1>10. ASSUME Injective(s), Injective(t), Members(s) \cap Members(t) = {} PROVE Injective(u)
  <2>1. \A i, j \in 1..m : s[i] = s[j] => i = j
    BY <1>10 DEF Injective
  <2>2. \A i, j \in 1..n : t[i] = t[j] => i = j
    BY <1>10 DEF Injective
  <2>3. \A i \in 1..m, j \in 1..n : s[i] # t[j]
    BY <1>4, <1>10 DEF Members
  <2>4. ASSUME NEW i \in 1..(m + n), NEW j \in 1..(m + n), u[i] = u[j] PROVE i = j
    <3>1. CASE i \in 1..m /\ j \in 1..m
      BY <1>2, <2>1, <2>4, <3>1
    <3>2. CASE i \in 1..m /\ j \notin 1..m
      <4>1. u[j] = t[j - m] /\ j - m \in 1..n
        BY <1>3, <1>5, <3>2
      <4> QED
        BY <1>2, <2>3, <2>4, <3>2, <4>1
    <3>3. CASE i \notin 1..m /\ j \in 1..m
      <4>1. u[i] = t[i - m] /\ i - m \in 1..n
        BY <1>3, <1>5, <3>3
      <4> QED
        BY <1>2, <2>3, <2>4, <3>3, <4>1
    <3>4. CASE i \notin 1..m /\ j \notin 1..m
      <4>1. u[i] = t[i - m] /\ i - m \in 1..n /\ u[j] = t[j - m] /\ j - m \in 1..n
        BY <1>3, <1>5, <3>4
      <4>2. i - m = j - m
        BY <2>2, <2>4, <4>1
      <4> QED
        BY <1>1, <4>2
    <3> QED
      BY <3>1, <3>2, <3>3, <3>4
  <2> QED
    BY <1>1, <2>4 DEF Injective
<1> QED
  BY <1>1, <1>8, <1>9, <1>10 DEF u

\* A chain without its first node.
LEMMA TailSteps ==
  ASSUME NEW f \in Pointers, NEW b, NEW s \in Seq(Nodes), s # <<>>, Injective(s), Steps(f, b, Null, s)
  PROVE  /\ b = s[1] /\ b \in Nodes /\ b \in Members(s)
         /\ Tail(s) \in Seq(Nodes) /\ Len(Tail(s)) = Len(s) - 1
         /\ Injective(Tail(s)) /\ Members(Tail(s)) = Members(s) \ {b}
         /\ Tail(s) # <<>> => /\ Steps(f, f[b], Null, Tail(s)) /\ f[b] \in Nodes
                              /\ Tail(s)[Len(Tail(s))] = s[Len(s)]
         /\ Tail(s) = <<>> => b = s[Len(s)]
<1> DEFINE t == Tail(s)
           n == Len(s)
<1>0. Null \notin Cells /\ Nodes \subseteq Cells
  BY Basics
<1>1. /\ t \in Seq(Nodes) /\ Len(t) = n - 1 /\ n \in Nat \ {0} /\ s[1] \in Nodes
      /\ \A i \in 1..(n - 1) : t[i] = s[i + 1]
  BY TailIs
<1>2. \A i \in 1..n : s[i] \in Nodes
  OBVIOUS
<1>3. b = s[1]
  BY DEF Steps
<1>4. DOMAIN s = 1..n
  OBVIOUS
<1> HIDE DEF t
<1>5. DOMAIN t = 1..(n - 1)
  BY <1>1
<1>6. b \in Members(s)
  BY <1>1, <1>3, <1>4 DEF Members
<1>7. \A i \in 1..(n - 1) : i + 1 \in 1..n /\ i + 1 # 1
  BY <1>1
<1>8. \A i, j \in 1..n : s[i] = s[j] => i = j
  BY DEF Injective
<1>9. Injective(t)
  <2>1. ASSUME NEW i \in 1..(n - 1), NEW j \in 1..(n - 1), t[i] = t[j] PROVE i = j
    <3>1. i + 1 = j + 1
      BY <1>1, <1>7, <1>8, <2>1
    <3> QED
      BY <1>1, <3>1
  <2> QED
    BY <1>1, <2>1 DEF Injective
<1>10. Members(t) = Members(s) \ {b}
  <2>1. ASSUME NEW i \in 1..(n - 1) PROVE t[i] \in Members(s) /\ t[i] # b
    <3>1. t[i] = s[i + 1] /\ i + 1 \in 1..n /\ 1 \in 1..n /\ i + 1 # 1
      BY <1>1, <1>7
    <3> QED
      BY <1>3, <1>4, <1>8, <3>1 DEF Members
  <2>2. ASSUME NEW i \in 1..n, s[i] # b PROVE s[i] \in Members(t)
    <3>1. i - 1 \in 1..(n - 1) /\ (i - 1) + 1 = i
      BY <1>1, <1>3, <2>2
    <3>2. t[i - 1] = s[i]
      BY <1>1, <3>1
    <3> QED
      BY <1>5, <3>1, <3>2 DEF Members
  <2>3. \A c \in Members(t) : c \in Members(s) \ {b}
    BY <1>5, <2>1 DEF Members
  <2>4. \A c \in Members(s) \ {b} : c \in Members(t)
    BY <1>4, <2>2 DEF Members
  <2> QED
    BY <2>3, <2>4
<1>11. ASSUME t # <<>>
       PROVE  Steps(f, f[b], Null, t) /\ f[b] \in Nodes /\ t[Len(t)] = s[n]
  <2>1. n - 1 \in 1..(n - 1) /\ 1 \in 1..(n - 1) /\ (n - 1) + 1 = n
    BY <1>1, <1>11
  <2>2. \A i \in 1..(n - 1) : s[i + 1] = f[s[i]]
    BY DEF Steps
  <2>3. t[1] = f[b] /\ f[b] \in Nodes
    <3>1. t[1] = s[1 + 1] /\ s[1 + 1] = f[s[1]] /\ 1 + 1 \in 1..n
      BY <1>1, <1>7, <2>1, <2>2
    <3> QED
      BY <1>2, <1>3, <3>1
  <2>4. t[Len(t)] = s[n]
    BY <1>1, <2>1
  <2>5. \A i \in 1..Len(t) : t[i] \notin {Null, Null}
    BY <1>0, <1>1, <1>2, <1>7
  <2>6. ASSUME NEW i \in 1..(Len(t) - 1) PROVE t[i + 1] = f[t[i]]
    <3>1. i \in 1..(n - 1) /\ i + 1 \in 1..(n - 1)
      BY <1>1
    <3>2. t[i] = s[i + 1] /\ t[i + 1] = s[(i + 1) + 1] /\ s[(i + 1) + 1] = f[s[i + 1]]
      BY <1>1, <2>2, <3>1
    <3> QED
      BY <3>2
  <2>7. t \in Seq(Cells) /\ f[b] \notin {Null, Null}
    BY <1>0, <1>1, <2>3
  <2>8. Steps(f, f[b], Null, t)
    BY <1>11, <2>3, <2>5, <2>6, <2>7 DEF Steps
  <2> QED
    BY <2>3, <2>4, <2>8
<1>12. t = <<>> => b = s[n]
  <2>1. t = <<>> => n = 1
    BY <1>1
  <2> QED
    BY <1>3, <2>1
<1> QED
  BY <1>1, <1>3, <1>6, <1>9, <1>10, <1>11, <1>12 DEF t

-----------------------------------------------------------------------------
OthersWhole(l) == \A m \in Lists : m # l => Ring(next, prev, CellsIn(parent, m))

LEMMA SortIs ==
  ASSUME IInv, Running("sort")
  PROVE  /\ loop \in Loops /\ loop # Null /\ loop.op = "sort" /\ loop.list \in Lists
         /\ loop.at \in SortCursors /\ loop.at.k # 0
         /\ TypeOK /\ Rooted /\ LifetimeBalanced /\ OthersWhole(loop.list)
         /\ \E sp, sq : Halfway(loop.list, sp, sq)
<1>1. TypeOK /\ Rooted /\ LifetimeBalanced /\ LoopOK /\ RingsOK
  BY DEF IInv
<1>2. loop \in Loops /\ loop # Null /\ loop.op = "sort" /\ loop.list \in Lists
  BY <1>1, LoopIs
<1>3. loop.at \in SortCursors /\ loop.at.k # 0
  BY <1>1 DEF LoopOK
<1>4. OthersWhole(loop.list)
  BY <1>1 DEF OthersWhole, RingsOK, Sorting
<1>5. \E sp, sq : Halfway(loop.list, sp, sq)
  BY <1>1, <1>2 DEF RingsOK, Sorting
<1> QED
  BY <1>1, <1>2, <1>3, <1>4, <1>5

\* A sort() goes on.
LEMMA SortGoesOn ==
  ASSUME TypeOK, Rooted, LifetimeBalanced, next' \in Pointers, prev' \in Pointers, UNCHANGED <<parent, books>>,
         NEW l \in Lists, loop' \in Loops, loop' # Null, loop'.op = "sort", loop'.list = l,
         loop'.at \in SortCursors, loop'.at.k # 0,
         \A m \in Lists : m # l => Ring(next', prev', CellsIn(parent, m)),
         NEW sp, NEW sq, CellsIn(parent, l) # {l}, Runs(next', loop'.at, sp, sq), Injective(sp \o sq),
         Members(sp \o sq) \subseteq CellsIn(parent, l) \ {l},
         Ring(next', prev', CellsIn(parent, l) \ Members(sp \o sq))
  PROVE  IInv' /\ Halfway(l, sp, sq)'
<1>0. parent' = parent /\ UNCHANGED books
  OBVIOUS
<1>1. TypeOK'
  BY <1>0 DEF TypeOK, Pointers, books
<1>2. Rooted'
  BY <1>0 DEF Rooted
<1>3. LifetimeBalanced'
  BY <1>0, SameBooks
<1>4. LoopOK'
  BY DEF LoopOK, Running, Filtering
<1>5. Halfway(l, sp, sq)'
  BY <1>0 DEF Halfway
<1>6. RingsOK'
  <2>1. ASSUME NEW m \in Lists, m # l PROVE ~Sorting(m)' /\ Ring(next', prev', CellsIn(parent', m))
    BY <1>0, <2>1 DEF Sorting
  <2>2. Sorting(l)'
    BY DEF Sorting, Running
  <2> QED
    BY <1>5, <2>1, <2>2 DEF RingsOK
<1> QED
  BY <1>1, <1>2, <1>3, <1>4, <1>5, <1>6 DEF IInv

\* A pass starts: the cursors of its first run,
LEMMA PassCursors ==
  ASSUME TypeOK, Rooted, NEW l \in Lists, Ring(next, prev, CellsIn(parent, l)), next[l] # l,
         NEW k \in Nat \ {0}
  PROVE  /\ FirstRun(l, k) \in SortCursors /\ FirstRun(l, k).k = k
         /\ RunOf(FirstRun(l, k), Len(Content(l)), k, 1) /\ Broken(l).next[l] = l
         /\ \E sp, sq : sp \o sq = Content(l) /\ Runs(Broken(l).next, FirstRun(l, k), sp, sq)
         /\ Broken(l).next \in Pointers /\ Broken(l).prev \in Pointers
         /\ Ring(Broken(l).next, Broken(l).prev, {l})
         /\ \A c \in Cells \ CellsIn(parent, l) :
              Broken(l).next[c] = next[c] /\ Broken(l).prev[c] = prev[c]
<1> DEFINE A == CellsIn(parent, l)
           f == Broken(l).next
           g == Broken(l).prev
<1>1. /\ next \in Pointers /\ prev \in Pointers /\ A \subseteq Cells /\ l \in A
      /\ IsFiniteSet(A) /\ Cardinality(A) <= N + 1 /\ A \ {l} \subseteq Nodes
  BY CellFacts
<1>2. BrokenAs(next, prev, l, f, g)
  BY DEF Broken, BrokenAs
<1>3. Ring(next, prev, A)
  OBVIOUS
<1>4. Content(l) \in Seq(Nodes) /\ Injective(Content(l))
  BY RoundOn
<1> HIDE DEF f, g, A
<1>5. /\ f \in Pointers /\ g \in Pointers /\ Ring(f, g, {l})
      /\ \A c \in Cells \ A : f[c] = next[c] /\ g[c] = prev[c]
      /\ Steps(f, next[l], Null, Content(l)) /\ Ended(f, Null, Content(l))
  <2>1. /\ f \in Pointers /\ g \in Pointers /\ Ring(f, g, {l})
        /\ \A c \in Cells \ A : f[c] = next[c] /\ g[c] = prev[c]
        /\ Steps(f, next[l], Null, Path(next, next[l], l))
        /\ Ended(f, Null, Path(next, next[l], l))
    BY <1>1, <1>2, <1>3, RingBroken
  <2> QED
    BY <2>1 DEF Content
<1>6. next[l] \in Nodes
  BY <1>1, <1>3 DEF Ring
<1>7. 1 \in Nat
  OBVIOUS
<1>8. /\ Run(f, next[l], k, 1) \in SortCursors /\ Run(f, next[l], k, 1).k = k
      /\ RunOf(Run(f, next[l], k, 1), Len(Content(l)), k, 1)
      /\ \E sp, sq : sp \o sq = Content(l) /\ Runs(f, Run(f, next[l], k, 1), sp, sq)
  BY <1>4, <1>5, <1>6, <1>7, RunSplits
<1>9. f[l] = l
  BY <1>5 DEF Ring
<1> QED
  BY <1>5, <1>8, <1>9 DEF FirstRun, A, f, g

\* and what it makes of the list.
LEMMA PassStarts ==
  ASSUME TypeOK, Rooted, LifetimeBalanced, NEW l \in Lists, OthersWhole(l),
         Ring(next, prev, CellsIn(parent, l)), next[l] # l,
         NEW k \in Nat \ {0}, loop' \in Loops, loop' # Null, loop'.op = "sort", loop'.list = l,
         loop'.at = FirstRun(l, k), Become(Broken(l)), UNCHANGED <<parent, books>>
  PROVE  /\ IInv' /\ next' \in Pointers /\ next'[l] = l
         /\ RunOf(loop'.at, Len(Content(l)), k, 1)
         /\ \E sp, sq : sp \o sq = Content(l) /\ Halfway(l, sp, sq)'
<1> DEFINE A == CellsIn(parent, l)
<1>1. /\ FirstRun(l, k) \in SortCursors /\ FirstRun(l, k).k = k
      /\ next' \in Pointers /\ prev' \in Pointers /\ Ring(next', prev', {l})
      /\ \A c \in Cells \ A : next'[c] = next[c] /\ prev'[c] = prev[c]
      /\ next'[l] = l /\ RunOf(loop'.at, Len(Content(l)), k, 1)
  <2>1. /\ FirstRun(l, k) \in SortCursors /\ FirstRun(l, k).k = k
        /\ Broken(l).next \in Pointers /\ Broken(l).prev \in Pointers
        /\ Ring(Broken(l).next, Broken(l).prev, {l})
        /\ \A c \in Cells \ A : Broken(l).next[c] = next[c] /\ Broken(l).prev[c] = prev[c]
        /\ Broken(l).next[l] = l /\ RunOf(FirstRun(l, k), Len(Content(l)), k, 1)
    BY PassCursors
  <2>2. next' = Broken(l).next /\ prev' = Broken(l).prev /\ loop'.at = FirstRun(l, k)
    BY DEF Become
  <2> QED
    BY <2>1, <2>2
<1>2. PICK sp, sq : sp \o sq = Content(l) /\ Runs(next', loop'.at, sp, sq)
  <2>1. \E sp, sq : sp \o sq = Content(l) /\ Runs(Broken(l).next, FirstRun(l, k), sp, sq)
    BY PassCursors
  <2>2. next' = Broken(l).next /\ loop'.at = FirstRun(l, k)
    BY DEF Become
  <2> QED
    BY <2>1, <2>2
<1>3. Members(Content(l)) = A \ {l} /\ Injective(Content(l)) /\ l \in A
  BY RoundOn, CellFacts
<1>4. A \ Members(sp \o sq) = {l} /\ Members(sp \o sq) \subseteq A \ {l} /\ Injective(sp \o sq)
  BY <1>2, <1>3
<1>5. A # {l}
  BY DEF Ring
<1>6. ASSUME NEW m \in Lists, m # l PROVE Ring(next', prev', CellsIn(parent, m))
  <2> DEFINE C == CellsIn(parent, m)
  <2>1. \A c \in C : next'[c] = next[c] /\ prev'[c] = prev[c]
    BY <1>1, <1>6 DEF CellsIn
  <2>2. Ring(next, prev, C)
    BY <1>6 DEF OthersWhole
  <2> HIDE DEF C
  <2>3. Ring(next', prev', C)
    BY <2>1, <2>2, RingKept
  <2> QED
    BY <2>3 DEF C
<1>7. loop'.at \in SortCursors /\ loop'.at.k # 0
  BY <1>1
<1>8. Ring(next', prev', A \ Members(sp \o sq))
  BY <1>1, <1>4
<1>9. IInv' /\ Halfway(l, sp, sq)'
  BY <1>1, <1>2, <1>4, <1>5, <1>6, <1>7, <1>8, SortGoesOn
<1> QED
  BY <1>1, <1>2, <1>9

LEMMA SortBegins ==
  ASSUME IInv, NEW l \in Lists, NEW lawful \in BOOLEAN, Sort(l, lawful)
  PROVE  /\ IInv' /\ next' \in Pointers /\ next'[l] = l /\ loop' # Null
         /\ RunOf(loop'.at, Len(Content(l)), 1, 1)
         /\ \E sp, sq : sp \o sq = Content(l) /\ Halfway(l, sp, sq)'
<1>1. next[l] # l /\ Begin("sort", l, l, lawful, FirstRun(l, 1)) /\ Become(Broken(l)) /\ UNCHANGED <<parent, books>>
  BY DEF Sort
<1>2. TypeOK /\ Rooted /\ LifetimeBalanced /\ AllRings
  BY <1>1, Idle DEF Begin
<1>3. Ring(next, prev, CellsIn(parent, l)) /\ OthersWhole(l)
  BY <1>2 DEF AllRings, OthersWhole
<1>4. 1 \in Nat \ {0}
  OBVIOUS
<1>5. FirstRun(l, 1) \in WalkCursors \cup SortCursors
  BY <1>1, <1>2, <1>3, <1>4, PassCursors
<1>6. loop' \in Loops /\ loop' # Null /\ loop'.op = "sort" /\ loop'.list = l /\ loop'.at = FirstRun(l, 1)
  BY <1>1, <1>5, BeginIs
<1> QED
  BY <1>1, <1>2, <1>3, <1>4, <1>6, PassStarts

\* At the end of a pass the ring is closed again.
LEMMA PassEnds ==
  ASSUME IInv, Running("sort"), ~RunsLeft(loop.at), loop.at.q = Null
  PROVE  /\ TypeOK /\ Rooted /\ LifetimeBalanced /\ AllRings /\ OthersWhole(loop.list)
         /\ next[loop.list] # loop.list
<1> DEFINE l == loop.list
           A == CellsIn(parent, l)
<1>1. /\ loop \in Loops /\ l \in Lists /\ loop.at \in SortCursors
      /\ TypeOK /\ Rooted /\ LifetimeBalanced /\ OthersWhole(l)
  BY SortIs
<1>2. PICK sp, sq : Halfway(l, sp, sq)
  BY SortIs
<1> HIDE DEF l
<1>3. sp = <<>> /\ sq = <<>>
  <2>1. loop.at.psize = 0
    BY <1>1 DEF RunsLeft, SortCursors
  <2>2. sp \in Seq(Nodes) /\ Len(sp) = 0
    BY <1>2, <2>1 DEF Halfway, Runs
  <2>3. sq = <<>>
    BY <1>2 DEF Halfway, Runs, Steps
  <2> QED
    BY <2>2, <2>3
<1>4. Members(sp \o sq) = {}
  BY <1>3 DEF Members
<1>5. Ring(next, prev, A) /\ A # {l}
  BY <1>2, <1>4 DEF Halfway
<1>6. l \in A
  BY <1>1, CellFacts
<1>7. next[l] # l
  <2> SUFFICES ASSUME next[l] = l PROVE FALSE
    OBVIOUS
  <2> DEFINE S == {l}
  <2>1. S \subseteq A /\ S # {} /\ \A c \in S : prev[c] \in S
    BY <1>5, <1>6 DEF Ring
  <2> HIDE DEF S, A
  <2>2. S = A
    BY <1>5, <2>1, RingOnly
  <2> QED
    BY <1>5, <2>2 DEF S
<1>8. AllRings
  BY <1>1, <1>5 DEF AllRings, OthersWhole
<1> QED
  BY <1>1, <1>7, <1>8 DEF l

LEMMA NextPassHolds ==
  ASSUME IInv, SortNextPass, NEW l, l = loop.list
  PROVE  /\ IInv' /\ next' \in Pointers /\ next'[l] = l /\ loop' # Null
         /\ RunOf(loop'.at, Len(Content(l)), 2 * loop.at.k, 1)
         /\ \E sp, sq : sp \o sq = Content(l) /\ Halfway(l, sp, sq)'
         /\ loop' = [loop EXCEPT !.at = loop'.at]
<1> DEFINE k == 2 * loop.at.k
<1>1. /\ Running("sort") /\ ~RunsLeft(loop.at) /\ loop.at.q = Null
      /\ Become(Broken(l)) /\ UNCHANGED <<parent, books>>
  BY DEF SortNextPass
<1>2. TypeOK /\ Rooted /\ LifetimeBalanced /\ AllRings /\ OthersWhole(l) /\ next[l] # l
  BY <1>1, PassEnds
<1>3. loop \in Loops /\ loop.op = "sort" /\ l \in Lists /\ loop.at \in SortCursors /\ loop.at.k # 0
  BY <1>1, SortIs
<1>4. k \in Nat \ {0}
  <2>1. loop.at.k \in Nat
    BY <1>3 DEF SortCursors
  <2> QED
    BY <1>3, <2>1
<1>5. loop' = [loop EXCEPT !.at = FirstRun(l, k)]
  BY <1>3 DEF SortNextPass
<1> HIDE DEF k
<1>6. Ring(next, prev, CellsIn(parent, l))
  BY <1>2, <1>3 DEF AllRings
<1>7. FirstRun(l, k) \in WalkCursors \cup SortCursors
  BY <1>2, <1>3, <1>4, <1>6, PassCursors
<1>8. loop' \in Loops /\ loop' # Null /\ loop'.op = "sort" /\ loop'.list = l /\ loop'.at = FirstRun(l, k)
  BY <1>3, <1>5, <1>7, TurnIs
<1> QED
  BY <1>1, <1>2, <1>3, <1>4, <1>5, <1>6, <1>8, PassStarts DEF k

LEMMA SortReturnHolds ==
  ASSUME IInv, SortReturn
  PROVE  IInv'
<1>1. Running("sort") /\ ~RunsLeft(loop.at) /\ loop.at.q = Null
  BY DEF SortReturn
<1>2. next' = next /\ prev' = prev /\ parent' = parent /\ UNCHANGED books /\ loop' = Null
  BY DEF SortReturn
<1>3. TypeOK /\ Rooted /\ LifetimeBalanced /\ AllRings
  BY <1>1, PassEnds
<1>4. /\ next' \in Pointers /\ prev' \in Pointers /\ parent' \in [Cells -> Lists \cup {Null}]
      /\ \A l \in Lists : parent'[l] = l
  BY <1>2, <1>3 DEF TypeOK, Pointers, Rooted
<1>5. \A l \in Lists : Ring(next', prev', CellsIn(parent', l))
  BY <1>2, <1>3 DEF AllRings
<1>6. traits' \in [Nodes -> Nat] /\ unhooked' \in [Nodes -> Nat] /\ LifetimeBalanced'
  BY <1>2, <1>3, SameBooks
<1> QED
  BY <1>2, <1>4, <1>5, <1>6, Settled

LEMMA RunsNext ==
  ASSUME IInv, SortNextRuns, NEW l, l = loop.list, NEW sp, NEW sq, Halfway(l, sp, sq)
  PROVE  /\ IInv' /\ sp = <<>> /\ loop' # Null /\ loop' = [loop EXCEPT !.at = loop'.at]
         /\ RunOf(loop'.at, Len(sq), loop.at.k, loop.at.merges + 1)
         /\ \E s, t : s \o t = sq /\ Halfway(l, s, t)'
<1> DEFINE A == CellsIn(parent, l)
           q == loop.at.q
           k == loop.at.k
           m == loop.at.merges + 1
           at == Run(next, q, k, m)
<1>1. /\ Running("sort") /\ ~RunsLeft(loop.at) /\ q # Null
      /\ UNCHANGED <<next, prev, parent, books>>
  BY DEF SortNextRuns
<1>2. /\ loop \in Loops /\ loop.op = "sort" /\ l \in Lists /\ loop.at \in SortCursors /\ loop.at.k # 0
      /\ TypeOK /\ Rooted /\ LifetimeBalanced /\ OthersWhole(l)
  BY <1>1, SortIs
<1>3. q \in Nodes /\ k \in Nat \ {0} /\ m \in Nat /\ loop.at.psize \in Nat
  BY <1>1, <1>2 DEF SortCursors
<1>4. loop' = [loop EXCEPT !.at = at]
  BY <1>2 DEF SortNextRuns
<1>5. Halfway(l, sp, sq)
  OBVIOUS
<1>6. sp = <<>>
  <2>1. loop.at.psize = 0
    BY <1>1, <1>3 DEF RunsLeft
  <2>2. sp \in Seq(Nodes) /\ Len(sp) = 0
    BY <1>5, <2>1 DEF Halfway, Runs
  <2> QED
    BY <2>2
<1>7. sq \in Seq(Nodes) /\ Steps(next, q, Null, sq) /\ Ended(next, Null, sq)
  BY <1>5 DEF Halfway, Runs
<1>8. sp \o sq = sq
  BY <1>6, <1>7
<1> HIDE DEF q, k, m, A
<1>9. Injective(sq) /\ Members(sq) \subseteq A \ {l} /\ Ring(next, prev, A \ Members(sq)) /\ A # {l}
  BY <1>5, <1>8 DEF Halfway, A
<1>10. next \in Pointers
  BY <1>2 DEF TypeOK, Pointers
<1>11. /\ Run(next, q, k, m) \in SortCursors /\ Run(next, q, k, m).k = k
       /\ RunOf(Run(next, q, k, m), Len(sq), k, m)
       /\ \E s, t : s \o t = sq /\ Runs(next, Run(next, q, k, m), s, t)
  BY <1>3, <1>7, <1>9, <1>10, RunSplits
<1>12. PICK s, t : s \o t = sq /\ Runs(next, at, s, t)
  BY <1>11
<1>13. at \in SortCursors /\ at.k # 0 /\ RunOf(at, Len(sq), k, m)
  BY <1>3, <1>11
<1> HIDE DEF at
<1>14. loop' \in Loops /\ loop' # Null /\ loop'.op = "sort" /\ loop'.list = l /\ loop'.at = at
  BY <1>2, <1>4, <1>13, TurnIs
<1>15. /\ next' \in Pointers /\ prev' \in Pointers /\ UNCHANGED <<parent, books>>
       /\ Runs(next', loop'.at, s, t) /\ loop'.at \in SortCursors /\ loop'.at.k # 0
  BY <1>1, <1>2, <1>12, <1>13, <1>14 DEF TypeOK, Pointers
<1>16. /\ CellsIn(parent, l) # {l} /\ Injective(s \o t) /\ Members(s \o t) \subseteq CellsIn(parent, l) \ {l}
       /\ Ring(next', prev', CellsIn(parent, l) \ Members(s \o t))
  BY <1>1, <1>9, <1>12 DEF A
<1>17. \A n \in Lists : n # l => Ring(next', prev', CellsIn(parent, n))
  BY <1>1, <1>2 DEF OthersWhole
<1>18. IInv' /\ Halfway(l, s, t)'
  BY <1>2, <1>14, <1>15, <1>16, <1>17, SortGoesOn
<1> QED
  BY <1>4, <1>6, <1>12, <1>13, <1>14, <1>18 DEF k, m

LEMMA NextRunsHolds ==
  ASSUME IInv, SortNextRuns
  PROVE  IInv'
<1>1. Running("sort")
  BY DEF SortNextRuns
<1>2. PICK l \in Lists : l = loop.list
  BY <1>1, SortIs
<1>3. PICK sp, sq : Halfway(l, sp, sq)
  BY <1>1, <1>2, SortIs
<1> QED
  BY <1>2, <1>3, RunsNext

\* A step of a sort() that puts cells back on the ring of its list.
LEMMA PutBack ==
  ASSUME TypeOK, Rooted, NEW l \in Lists, OthersWhole(l), NEW R, NEW S, NEW k,
         Relinked(next, prev, k, R, S), R \cup S \subseteq CellsIn(parent, l), next' = k.next, prev' = k.prev
  PROVE  /\ next' \in Pointers /\ prev' \in Pointers /\ Ring(next', prev', S)
         /\ \A c \in Cells \ (R \cup S) : next'[c] = next[c]
         /\ \A m \in Lists : m # l => Ring(next', prev', CellsIn(parent, m))
<1>1. ASSUME NEW m \in Lists, m # l PROVE Ring(next', prev', CellsIn(parent, m))
  <2> DEFINE C == CellsIn(parent, m)
  <2>1. C \subseteq Cells /\ C \cap CellsIn(parent, l) = {}
    BY <1>1 DEF CellsIn
  <2>2. \A c \in C : next'[c] = next[c] /\ prev'[c] = prev[c]
    BY <2>1 DEF Relinked
  <2>3. Ring(next, prev, C)
    BY <1>1 DEF OthersWhole
  <2> HIDE DEF C
  <2>4. Ring(next', prev', C)
    BY <2>2, <2>3, RingKept
  <2> QED
    BY <2>4 DEF C
<1> QED
  BY <1>1 DEF Relinked

Begins(s, t) == Len(t) <= Len(s) /\ \A i \in 1..Len(t) : s[i] = t[i]

LEMMA PathBegins ==
  ASSUME NEW f \in [Cells -> Cells \cup {Null}], NEW b \in Cells \cup {Null}, NEW e,
         NEW t, Steps(f, b, e, t), Len(t) <= N + 1
  PROVE  Begins(Path(f, b, e), t)
BY PathPrefix DEF Begins

\* The first nodes of a chain are a part of the path along it, the whole chain is the path.
LEMMA ChainStart ==
  ASSUME NEW f \in Pointers, NEW b \in Nodes \cup {Null}, NEW t \in Seq(Nodes), Injective(t),
         t # <<>> => Steps(f, b, Null, t)
  PROVE  SubSeq(Path(f, b, Null), 1, Len(t)) = t
<1> DEFINE s == Path(f, b, Null)
<1>1. f \in [Cells -> Cells \cup {Null}] /\ b \in Cells \cup {Null}
  BY Basics DEF Pointers
<1>2. Len(t) <= N + 1
  <2>1. Len(t) <= N /\ N \in Nat /\ Len(t) \in Nat
    BY InjectiveShort, NIsNat
  <2> QED
    BY <2>1
<1>3. s \in Seq(Cells)
  BY <1>1, PathWalks DEF Steps
<1>4. CASE t # <<>>
  <2>0. Steps(f, b, Null, t)
    BY <1>4
  <2>1. Begins(s, t)
    BY <1>1, <1>2, <2>0, PathBegins
  <2> HIDE DEF s
  <2>2. t \in Seq(Cells)
    BY Basics
  <2>3. SubSeq(s, 1, Len(t)) \in Seq(Cells) /\ Len(SubSeq(s, 1, Len(t))) = Len(t)
    BY <1>3, <2>1, <2>2 DEF Begins
  <2>4. \A i \in 1..Len(t) : SubSeq(s, 1, Len(t))[i] = t[i]
    BY <1>3, <2>1, <2>2 DEF Begins
  <2> QED
    BY <2>2, <2>3, <2>4, SameSequence DEF s
<1>5. CASE t = <<>>
  <2> HIDE DEF s
  <2>1. SubSeq(s, 1, 0) = <<>>
    BY <1>3
  <2> QED
    BY <1>5, <2>1 DEF s
<1> QED
  BY <1>4, <1>5

LEMMA ChainWhole ==
  ASSUME NEW f \in Pointers, NEW b \in Nodes \cup {Null}, NEW t \in Seq(Nodes), Injective(t),
         Steps(f, b, Null, t), Ended(f, Null, t)
  PROVE  Path(f, b, Null) = t
<1>1. f \in [Cells -> Cells \cup {Null}] /\ b \in Cells \cup {Null}
  BY Basics DEF Pointers
<1>2. Len(t) <= N + 1
  <2>1. Len(t) <= N /\ N \in Nat /\ Len(t) \in Nat
    BY InjectiveShort, NIsNat
  <2> QED
    BY <2>1
<1> QED
  BY <1>1, <1>2, PathIs

\* What is left of the two runs is what sort() finds when it walks along them.
LEMMA RestIs ==
  ASSUME TypeOK, loop.at \in SortCursors, NEW l \in Lists, NEW sp, NEW sq, Halfway(l, sp, sq)
  PROVE  LeftRun = sp /\ Path(next, loop.at.q, Null) = sq
<1> DEFINE p == loop.at.p
           q == loop.at.q
<1>1. p \in Nodes \cup {Null} /\ q \in Nodes \cup {Null} /\ next \in Pointers
  BY DEF SortCursors, TypeOK, Pointers
<1>2. /\ sp \in Seq(Nodes) /\ sq \in Seq(Nodes) /\ Len(sp) = loop.at.psize
      /\ sp # <<>> => Steps(next, p, Null, sp)
      /\ Steps(next, q, Null, sq) /\ Ended(next, Null, sq) /\ Injective(sp \o sq)
  BY DEF Halfway, Runs
<1>3. Injective(sp) /\ Injective(sq)
  BY <1>2, ConcatParts
<1>4. LeftRun = SubSeq(Path(next, p, Null), 1, Len(sp))
  BY <1>2 DEF LeftRun
<1> HIDE DEF p, q
<1>5. SubSeq(Path(next, p, Null), 1, Len(sp)) = sp
  BY <1>1, <1>2, <1>3, ChainStart
<1>6. Path(next, q, Null) = sq
  BY <1>1, <1>2, <1>3, ChainWhole
<1> QED
  BY <1>4, <1>5, <1>6 DEF q

LEMMA SortThrowHolds ==
  ASSUME IInv, SortThrow
  PROVE  IInv'
<1> DEFINE l == loop.list
           A == CellsIn(parent, l)
           p == loop.at.p
           q == loop.at.q
           k == Thread(Links, <<prev[l]>> \o LeftRun \o Path(next, q, Null) \o <<l>>)
<1>1. /\ Running("sort") /\ loop.at.psize > 0 /\ next' = k.next /\ prev' = k.prev
      /\ parent' = parent /\ UNCHANGED books /\ loop' = Null
  BY DEF SortThrow, Compares, Become
<1>2. /\ l \in Lists /\ loop.at \in SortCursors
      /\ TypeOK /\ Rooted /\ LifetimeBalanced /\ OthersWhole(l)
  BY <1>1, SortIs
<1>3. p \in Nodes \cup {Null} /\ q \in Nodes \cup {Null} /\ loop.at.psize \in Nat
  BY <1>2 DEF SortCursors
<1>4. PICK sp, sq : Halfway(l, sp, sq)
  BY <1>1, SortIs
<1>5. /\ sp \in Seq(Nodes) /\ sq \in Seq(Nodes) /\ Len(sp) = loop.at.psize
      /\ sp # <<>> => Steps(next, p, Null, sp)
      /\ Steps(next, q, Null, sq) /\ Ended(next, Null, sq)
  BY <1>4 DEF Halfway, Runs
<1>6. /\ Injective(sp \o sq) /\ Members(sp \o sq) \subseteq A \ {l}
      /\ Ring(next, prev, A \ Members(sp \o sq))
  BY <1>4 DEF Halfway
<1>7. /\ next \in Pointers /\ prev \in Pointers /\ Links = LinksOf(next, prev) /\ A \subseteq Cells /\ l \in A
  BY <1>2, CellFacts
<1>8. /\ sp \o sq \in Seq(Nodes) /\ Injective(sp) /\ Injective(sq)
  BY <1>5, <1>6, ConcatParts
<1>9. LeftRun = sp
  BY <1>2, <1>4, RestIs
<1>10. Path(next, q, Null) = sq
  BY <1>2, <1>4, RestIs
<1>11. ((<<prev[l]>> \o sp) \o sq) \o <<l>> = (<<prev[l]>> \o (sp \o sq)) \o <<l>>
  <2>1. prev[l] \in Cells \cup {Null}
    BY <1>7 DEF Pointers
  <2>2. /\ <<prev[l]>> \in Seq(Cells \cup {Null}) /\ sp \in Seq(Cells \cup {Null})
        /\ sq \in Seq(Cells \cup {Null})
    BY <1>5, <2>1, Basics
  <2>3. (<<prev[l]>> \o sp) \o sq = <<prev[l]>> \o (sp \o sq)
    BY <2>2, ConcatAssoc
  <2> QED
    BY <2>3
<1>12. k = Thread(LinksOf(next, prev), (<<prev[l]>> \o (sp \o sq)) \o <<l>>)
  BY <1>7, <1>9, <1>10, <1>11
<1> DEFINE t == sp \o sq
           R == A \ Members(t)
<1>13. Relinked(next, prev, k, R, R \cup Members(t))
  <2>1. R \subseteq Cells /\ l \in R /\ R \cap Members(t) = {} /\ Ring(next, prev, R)
    BY <1>6, <1>7
  <2>2. k = Thread(LinksOf(next, prev), <<prev[l]>> \o t \o <<l>>) /\ t \in Seq(Nodes) /\ Injective(t)
    BY <1>6, <1>8, <1>12
  <2> HIDE DEF k, R, t, l, A
  <2>3. Relinked(next, prev, Thread(LinksOf(next, prev), <<prev[l]>> \o t \o <<l>>), R, R \cup Members(t))
    BY <1>7, <2>1, <2>2, ThreadLinks
  <2> QED
    BY <2>2, <2>3
<1>14. R \cup Members(t) = A /\ R \cup (R \cup Members(t)) \subseteq A
  BY <1>6
<1> HIDE DEF k, t, R, l
<1>15. /\ next' \in Pointers /\ prev' \in Pointers /\ Ring(next', prev', R \cup Members(t))
       /\ \A m \in Lists : m # l => Ring(next', prev', CellsIn(parent, m))
  BY <1>1, <1>2, <1>13, <1>14, PutBack
<1>16. \A m \in Lists : Ring(next', prev', CellsIn(parent', m))
  BY <1>1, <1>14, <1>15
<1>17. parent' \in [Cells -> Lists \cup {Null}] /\ \A m \in Lists : parent'[m] = m
  BY <1>1, <1>2 DEF TypeOK, Rooted
<1>18. traits' \in [Nodes -> Nat] /\ unhooked' \in [Nodes -> Nat] /\ LifetimeBalanced'
  BY <1>1, <1>2, SameBooks
<1> QED
  BY <1>1, <1>15, <1>16, <1>17, <1>18, Settled

\* A chain that no longer has its first node goes on as it did, for all that was put back.
LEMMA ChainGoesOn ==
  ASSUME NEW f \in Pointers, NEW g \in Pointers, NEW s \in Seq(Nodes), NEW b, Steps(f, b, Null, s),
         \A c \in Members(s) : g[c] = f[c]
  PROVE  /\ Steps(g, b, Null, s) /\ (Ended(f, Null, s) => Ended(g, Null, s))
         /\ s # <<>> => g[s[Len(s)]] = f[s[Len(s)]]
<1>1. \A i \in 1..Len(s) : s[i] \in Members(s)
  BY DEF Members
<1>2. \A i \in 1..Len(s) : g[s[i]] = f[s[i]]
  BY <1>1
<1>3. s # <<>> => Len(s) \in 1..Len(s)
  OBVIOUS
<1> QED
  BY <1>2, <1>3, StepsKept

\* A node that goes back on the ring, and the chains without it.
LEMMA NodeBack ==
  ASSUME IInv, Running("sort"), NEW l, l = loop.list, NEW sp, NEW sq, Halfway(l, sp, sq),
         NEW n, NEW s \in Seq(Nodes), NEW t \in Seq(Nodes), n \in Members(sp \o sq),
         Injective(s \o t), Members(s \o t) = Members(sp \o sq) \ {n},
         Become(LinkBefore(Links, l, n)), UNCHANGED <<parent, books>>,
         NEW at \in SortCursors, at.k = loop.at.k, loop' = [loop EXCEPT !.at = at], Runs(next, at, s, t)
  PROVE  IInv' /\ Halfway(l, s, t)' /\ next' \in Pointers
<1> DEFINE A == CellsIn(parent, l)
           M == Members(sp \o sq)
           R == A \ M
           k == LinkBefore(Links, l, n)
<1>1. /\ loop \in Loops /\ loop.op = "sort" /\ l \in Lists /\ loop.at.k # 0
      /\ TypeOK /\ Rooted /\ LifetimeBalanced /\ OthersWhole(l)
  BY SortIs
<1>2. /\ M \subseteq A \ {l} /\ Ring(next, prev, R) /\ A # {l}
  BY DEF Halfway
<1>3. /\ next \in Pointers /\ prev \in Pointers /\ Links = LinksOf(next, prev) /\ A \subseteq Cells /\ l \in A
  BY <1>1, CellFacts
<1>4. next' = k.next /\ prev' = k.prev
  BY DEF Become
<1>5. R \subseteq Cells /\ l \in R /\ n \in Cells /\ n \notin R /\ R \cup (R \cup {n}) \subseteq A
  BY <1>2, <1>3
<1>6. k = LinkBefore(LinksOf(next, prev), l, n)
  BY <1>3
<1>7. Members(s \o t) \subseteq A \ {l} /\ A \ Members(s \o t) = R \cup {n}
  BY <1>2
<1>8. Members(s \o t) = Members(s) \cup Members(t) /\ Injective(s \o t)
  BY ConcatParts
<1>9. \A c \in Members(s \o t) : c \in Cells \ (R \cup {n})
  BY <1>2, <1>3
<1> HIDE DEF A, M, R, k
<1>10. Relinked(next, prev, k, R, R \cup {n})
  BY <1>2, <1>3, <1>5, <1>6, LinkLinks
<1>11. /\ next' \in Pointers /\ prev' \in Pointers /\ Ring(next', prev', R \cup {n})
       /\ \A c \in Cells \ (R \cup (R \cup {n})) : next'[c] = next[c]
       /\ \A m \in Lists : m # l => Ring(next', prev', CellsIn(parent, m))
  <2>1. R \cup (R \cup {n}) \subseteq CellsIn(parent, l)
    BY <1>5 DEF A
  <2> QED
    BY <1>1, <1>4, <1>10, <2>1, PutBack
<1>12. \A c \in Members(s) : next'[c] = next[c]
  BY <1>8, <1>9, <1>11
<1>13. \A c \in Members(t) : next'[c] = next[c]
  BY <1>8, <1>9, <1>11
<1>14. Runs(next', at, s, t)
  <2>1. /\ Len(s) = at.psize
        /\ s # <<>> => Steps(next, at.p, Null, s) /\ next[s[Len(s)]] \in Nodes \cup {Null}
        /\ Steps(next, at.q, Null, t) /\ Ended(next, Null, t)
    BY DEF Runs
  <2>2. s # <<>> => Steps(next', at.p, Null, s) /\ next'[s[Len(s)]] \in Nodes \cup {Null}
    BY <1>3, <1>11, <1>12, <2>1, ChainGoesOn
  <2>3. Steps(next', at.q, Null, t) /\ Ended(next', Null, t)
    BY <1>3, <1>11, <1>13, <2>1, ChainGoesOn
  <2> QED
    BY <2>1, <2>2, <2>3 DEF Runs
<1>15. loop' \in Loops /\ loop' # Null /\ loop'.op = "sort" /\ loop'.list = l /\ loop'.at = at
  BY <1>1, TurnIs
<1>16. loop'.at \in SortCursors /\ loop'.at.k # 0 /\ Runs(next', loop'.at, s, t)
  BY <1>1, <1>14, <1>15
<1>17. /\ CellsIn(parent, l) # {l} /\ Members(s \o t) \subseteq CellsIn(parent, l) \ {l}
       /\ Ring(next', prev', CellsIn(parent, l) \ Members(s \o t))
  BY <1>2, <1>7, <1>11 DEF A
<1> QED
  BY <1>1, <1>8, <1>11, <1>15, <1>16, <1>17, SortGoesOn

TookQ(a, c, b) == b = [a EXCEPT !.q = c, !.qsize = @ - 1]
TookP(a, c, b) == b = [a EXCEPT !.p = c, !.psize = @ - 1]

LEMMA TakesQ ==
  ASSUME NEW a \in SortCursors, NEW c \in Nodes \cup {Null}, a.qsize > 0,
         NEW b, TookQ(a, c, b)
  PROVE  /\ b \in SortCursors /\ b.k = a.k /\ b.p = a.p /\ b.q = c /\ b.psize = a.psize
         /\ b.qsize = a.qsize - 1 /\ b.merges = a.merges
<1>1. b = [p |-> a.p, q |-> c, psize |-> a.psize, qsize |-> a.qsize - 1, k |-> a.k, merges |-> a.merges]
  BY DEF SortCursors, TookQ
<1>2. /\ a.p \in Nodes \cup {Null} /\ a.psize \in Nat /\ a.qsize - 1 \in Nat /\ a.k \in Nat /\ a.merges \in Nat
  BY DEF SortCursors
<1> QED
  BY <1>1, <1>2 DEF SortCursors

LEMMA TakesP ==
  ASSUME NEW a \in SortCursors, NEW c \in Nodes \cup {Null}, a.psize > 0,
         NEW b, TookP(a, c, b)
  PROVE  /\ b \in SortCursors /\ b.k = a.k /\ b.p = c /\ b.q = a.q /\ b.psize = a.psize - 1
         /\ b.qsize = a.qsize /\ b.merges = a.merges
<1>1. b = [p |-> c, q |-> a.q, psize |-> a.psize - 1, qsize |-> a.qsize, k |-> a.k, merges |-> a.merges]
  BY DEF SortCursors, TookP
<1>2. /\ a.q \in Nodes \cup {Null} /\ a.psize - 1 \in Nat /\ a.qsize \in Nat /\ a.k \in Nat /\ a.merges \in Nat
  BY DEF SortCursors
<1> QED
  BY <1>1, <1>2 DEF SortCursors

LEMMA AtIs ==
  ASSUME loop \in Loops, NEW at, loop' = [loop EXCEPT !.at = at]
  PROVE  loop'.at = at
BY DEF Loops

\* What SortTake does: a node of one of the two runs goes to the end of the list.
TookLeft(l, sp, sq) ==
  /\ loop.at.psize > 0 /\ sp # <<>> /\ loop.at.p = sp[1]
  /\ Compares(loop.at) /\ loop.lawful => ~(Key[loop.at.q] < Key[loop.at.p])
  /\ next' = LinkBefore(Links, l, sp[1]).next /\ Halfway(l, Tail(sp), sq)'
  /\ loop'.at.psize = loop.at.psize - 1 /\ loop'.at.qsize = loop.at.qsize

TookRight(l, sp, sq) ==
  /\ loop.at.qsize > 0 /\ sq # <<>> /\ loop.at.q = sq[1]
  /\ Compares(loop.at) /\ loop.lawful => Key[loop.at.q] < Key[loop.at.p]
  /\ next' = LinkBefore(Links, l, sq[1]).next /\ Halfway(l, sp, Tail(sq))'
  /\ loop'.at.psize = loop.at.psize /\ loop'.at.qsize = loop.at.qsize - 1

LEMMA SortTakes ==
  ASSUME IInv, SortTake, NEW l, l = loop.list, NEW sp, NEW sq, Halfway(l, sp, sq)
  PROVE  /\ IInv' /\ next' \in Pointers /\ loop'.at.k = loop.at.k /\ loop'.at.merges = loop.at.merges
         /\ loop' = [loop EXCEPT !.at = loop'.at]
         /\ TookLeft(l, sp, sq) \/ TookRight(l, sp, sq)
<1> DEFINE p == loop.at.p
           q == loop.at.q
<1>1. Running("sort") /\ RunsLeft(loop.at) /\ UNCHANGED <<parent, books>>
  BY DEF SortTake
<1>2. PICK right \in BOOLEAN :
        /\ loop.at.psize = 0 => right
        /\ loop.at.psize > 0 /\ ~Compares(loop.at) => ~right
        /\ Compares(loop.at) => Less(q, p, right)
        /\ Become(LinkBefore(Links, l, IF right THEN q ELSE p))
        /\ loop' = [loop EXCEPT !.at = IF right THEN TakeQ(@) ELSE TakeP(@)]
  BY DEF SortTake
<1>3. loop \in Loops /\ loop.at \in SortCursors /\ TypeOK /\ next \in Pointers
  BY <1>1, SortIs DEF TypeOK, Pointers
<1>4. /\ p \in Nodes \cup {Null} /\ q \in Nodes \cup {Null}
      /\ loop.at.psize \in Nat /\ loop.at.qsize \in Nat
  BY <1>3 DEF SortCursors
<1>5. Halfway(l, sp, sq)
  OBVIOUS
<1>6. /\ sp \in Seq(Nodes) /\ sq \in Seq(Nodes) /\ Len(sp) = loop.at.psize
      /\ sp # <<>> => Steps(next, p, Null, sp) /\ next[sp[Len(sp)]] \in Nodes \cup {Null}
      /\ Steps(next, q, Null, sq) /\ Ended(next, Null, sq) /\ Injective(sp \o sq)
  BY <1>5 DEF Halfway, Runs
<1>7. /\ Injective(sp) /\ Injective(sq) /\ Members(sp) \cap Members(sq) = {}
      /\ Members(sp \o sq) = Members(sp) \cup Members(sq)
  BY <1>6, ConcatParts
<1>8. CASE right
  <2> DEFINE at == TakeQ(loop.at)
             t == Tail(sq)
  <2>1. q # Null /\ loop.at.qsize > 0
    BY <1>1, <1>2, <1>4, <1>8 DEF RunsLeft, Compares
  <2>2. sq # <<>>
    BY <1>6, <2>1 DEF Steps
  <2>3. /\ q = sq[1] /\ q \in Members(sq) /\ t \in Seq(Nodes) /\ Injective(t) /\ Members(t) = Members(sq) \ {q}
        /\ t # <<>> => Steps(next, next[q], Null, t) /\ next[q] \in Nodes /\ t[Len(t)] = sq[Len(sq)]
        /\ t = <<>> => q = sq[Len(sq)]
    BY <1>3, <1>6, <1>7, <2>2, TailSteps
  <2>4. next[sq[Len(sq)]] = Null
    BY <1>6, <2>2 DEF Ended
  <2> HIDE DEF t
  <2>5. next[q] \in Nodes \cup {Null} /\ Steps(next, next[q], Null, t) /\ Ended(next, Null, t)
    <3>1. CASE t = <<>>
      <4>1. next[q] = Null
        BY <2>3, <2>4, <3>1
      <4> QED
        BY <3>1, <4>1 DEF Steps, Ended
    <3>2. CASE t # <<>>
      BY <2>3, <2>4, <3>2 DEF Ended
    <3> QED
      BY <3>1, <3>2
  <2>6. /\ at \in SortCursors /\ at.k = loop.at.k /\ at.p = p /\ at.q = next[q] /\ at.psize = loop.at.psize
        /\ at.qsize = loop.at.qsize - 1 /\ at.merges = loop.at.merges
    <3>1. TookQ(loop.at, next[q], at)
      BY DEF TakeQ, TookQ
    <3> HIDE DEF at
    <3> QED
      BY <1>3, <2>1, <2>5, <3>1, TakesQ
  <2>7. loop' = [loop EXCEPT !.at = at] /\ Become(LinkBefore(Links, l, q))
    BY <1>2, <1>3, <1>8
  <2> HIDE DEF at
  <2>8. Runs(next, at, sp, t)
    BY <1>6, <2>3, <2>5, <2>6 DEF Runs
  <2>9. /\ q \in Members(sp \o sq) /\ Injective(sp \o t) /\ Members(sp \o t) = Members(sp \o sq) \ {q}
    <3>1. Injective(sp \o t) /\ Members(sp \o t) = Members(sp) \cup Members(t)
      BY <1>6, <1>7, <2>3, ConcatParts
    <3> QED
      BY <1>7, <2>3, <3>1
  <2>10. IInv' /\ Halfway(l, sp, t)' /\ next' \in Pointers
    <3> HIDE DEF q
    <3> QED
      BY <1>1, <1>5, <1>6, <2>3, <2>6, <2>7, <2>8, <2>9, NodeBack
  <2>11. loop'.at = at
    BY <1>3, <2>7, AtIs
  <2>12. Compares(loop.at) /\ loop.lawful => Key[q] < Key[p]
    BY <1>2, <1>8 DEF Less
  <2>13. next' = LinkBefore(Links, l, sq[1]).next
    BY <2>3, <2>7 DEF Become
  <2>14. TookRight(l, sp, sq)
    BY <2>1, <2>2, <2>3, <2>6, <2>10, <2>11, <2>12, <2>13 DEF TookRight, t
  <2> QED
    BY <2>6, <2>7, <2>10, <2>11, <2>14
<1>9. CASE ~right
  <2> DEFINE at == TakeP(loop.at)
             s == Tail(sp)
  <2>1. loop.at.psize > 0
    BY <1>2, <1>4, <1>9
  <2>2. sp # <<>>
    BY <1>6, <2>1
  <2>3. /\ p = sp[1] /\ p \in Members(sp) /\ s \in Seq(Nodes) /\ Len(s) = Len(sp) - 1
        /\ Injective(s) /\ Members(s) = Members(sp) \ {p}
        /\ s # <<>> => Steps(next, next[p], Null, s) /\ next[p] \in Nodes /\ s[Len(s)] = sp[Len(sp)]
        /\ s = <<>> => p = sp[Len(sp)]
    BY <1>3, <1>6, <1>7, <2>2, TailSteps
  <2>4. next[sp[Len(sp)]] \in Nodes \cup {Null}
    BY <1>6, <2>2
  <2> HIDE DEF s
  <2>5. /\ next[p] \in Nodes \cup {Null}
        /\ s # <<>> => Steps(next, next[p], Null, s) /\ next[s[Len(s)]] \in Nodes \cup {Null}
    BY <2>3, <2>4
  <2>6. /\ at \in SortCursors /\ at.k = loop.at.k /\ at.p = next[p] /\ at.q = q /\ at.psize = loop.at.psize - 1
        /\ at.qsize = loop.at.qsize /\ at.merges = loop.at.merges
    <3>1. TookP(loop.at, next[p], at)
      BY DEF TakeP, TookP
    <3> HIDE DEF at
    <3> QED
      <4>1. next[p] \in Nodes \cup {Null}
        BY <2>5
      <4> HIDE DEF p
      <4> QED
        BY <1>3, <2>1, <3>1, <4>1, TakesP
  <2>7. loop' = [loop EXCEPT !.at = at] /\ Become(LinkBefore(Links, l, p))
    BY <1>2, <1>3, <1>9
  <2> HIDE DEF at
  <2>8. Runs(next, at, s, sq)
    BY <1>6, <2>3, <2>5, <2>6 DEF Runs
  <2>9. /\ p \in Members(sp \o sq) /\ Injective(s \o sq) /\ Members(s \o sq) = Members(sp \o sq) \ {p}
    <3>1. Injective(s \o sq) /\ Members(s \o sq) = Members(s) \cup Members(sq)
      BY <1>6, <1>7, <2>3, ConcatParts
    <3> QED
      BY <1>7, <2>3, <3>1
  <2>10. IInv' /\ Halfway(l, s, sq)' /\ next' \in Pointers
    <3> HIDE DEF p
    <3> QED
      BY <1>1, <1>5, <1>6, <2>3, <2>6, <2>7, <2>8, <2>9, NodeBack
  <2>11. loop'.at = at
    BY <1>3, <2>7, AtIs
  <2>12. Compares(loop.at) /\ loop.lawful => ~(Key[q] < Key[p])
    BY <1>2, <1>9 DEF Less
  <2>13. next' = LinkBefore(Links, l, sp[1]).next
    BY <2>3, <2>7 DEF Become
  <2>14. TookLeft(l, sp, sq)
    BY <2>1, <2>2, <2>3, <2>6, <2>10, <2>11, <2>12, <2>13 DEF TookLeft, s
  <2> QED
    BY <2>6, <2>7, <2>10, <2>11, <2>14
<1> QED
  BY <1>8, <1>9

LEMMA SortTakeHolds ==
  ASSUME IInv, SortTake
  PROVE  IInv'
<1>1. Running("sort")
  BY DEF SortTake
<1>2. PICK l \in Lists : l = loop.list
  BY <1>1, SortIs
<1>3. PICK sp, sq : Halfway(l, sp, sq)
  BY <1>1, <1>2, SortIs
<1> QED
  BY <1>2, <1>3, SortTakes

-----------------------------------------------------------------------------
LEMMA ArrangementIs ==
  ASSUME NEW S, S \subseteq Nodes, NEW s \in Arrangements(S)
  PROVE  s \in Seq(Nodes)
<1>1. PICK n \in 1..Cardinality(S) : s \in [1..n -> S]
  BY DEF Arrangements
<1> QED
  BY <1>1

LEMMA OperationHolds ==
  ASSUME IInv, NEW l \in Lists, Operation(l)
  PROVE  IInv'
<1>1. CASE \E s \in Arrangements({n \in Nodes : parent[n] = Null}) :
             Assign(l, s) \/ \E p \in Cells : Insert(l, p, s)
  <2>1. PICK s \in Arrangements({n \in Nodes : parent[n] = Null}) :
               Assign(l, s) \/ \E p \in Cells : Insert(l, p, s)
    BY <1>1
  <2>2. s \in Seq(Nodes)
    BY ArrangementIs
  <2> QED
    BY <2>1, <2>2, AssignHolds, InsertHolds
<1>2. CASE Assign(l, <<>>)
  <2>1. <<>> \in Seq(Nodes)
    OBVIOUS
  <2> QED
    BY <1>2, <2>1, AssignHolds
<1>3. CASE \E b, e \in Cells : Erase(l, b, e)
  BY <1>3, EraseHolds
<1>4. CASE Clear(l) \/ Reverse(l)
  BY <1>4, ClearHolds, ReverseHolds
<1>5. CASE \E x \in Lists : MoveAssign(l, x) \/ Swap(l, x)
  BY <1>5, MoveAssignHolds, SwapHolds
<1>6. CASE \E p, b, e \in Cells, x \in Lists : Splice(l, p, x, b, e)
  BY <1>6, SpliceHolds
<1>7. CASE \E n \in 1..Cardinality(Nodes) : ShiftForward(l, n) \/ ShiftBackwards(l, n)
  BY <1>7, ShiftForwardHolds, ShiftBackwardsHolds DEF N
<1>8. CASE \E lawful \in BOOLEAN :
             Sort(l, lawful) \/ Unique(l, lawful) \/ \E x \in Lists : Merge(l, x, lawful)
  BY <1>8, SortBegins, FilterBegins, MergeBegins
<1>9. CASE RemoveIf(l)
  BY <1>9, FilterBegins
<1> QED
  BY <1>1, <1>2, <1>3, <1>4, <1>5, <1>6, <1>7, <1>8, <1>9 DEF Operation

LEMMA TurnHolds ==
  ASSUME IInv, Turn
  PROVE  IInv'
<1>1. CASE SortTake
  BY <1>1, SortTakeHolds
<1>2. CASE SortThrow
  BY <1>2, SortThrowHolds
<1>3. CASE SortNextRuns
  BY <1>3, NextRunsHolds
<1>4. CASE SortNextPass
  BY <1>4, SortIs, NextPassHolds DEF SortNextPass
<1>5. CASE SortReturn
  BY <1>5, SortReturnHolds
<1>6. CASE MergeTake
  BY <1>6, TakeHolds
<1>7. CASE MergeSkip
  BY <1>7, SkipHolds
<1>8. CASE FilterErase
  BY <1>8, FilterEraseHolds
<1>9. CASE FilterKeep
  BY <1>9, KeepHolds
<1>10. CASE MergeReturn \/ MergeThrow \/ FilterReturn \/ FilterThrow
  BY <1>10, LeaveHolds
<1> QED
  BY <1>1, <1>2, <1>3, <1>4, <1>5, <1>6, <1>7, <1>8, <1>9, <1>10 DEF Turn

LEMMA StutterHolds == IInv /\ UNCHANGED vars => IInv'
<1> SUFFICES ASSUME IInv, UNCHANGED vars PROVE IInv'
  OBVIOUS
<1>0. /\ next' = next /\ prev' = prev /\ parent' = parent /\ traits' = traits
      /\ unhooked' = unhooked /\ loop' = loop
  BY DEF vars
<1>1. TypeOK' /\ Rooted' /\ LifetimeBalanced'
  BY <1>0 DEF IInv, TypeOK, Rooted, LifetimeBalanced
<1>2. LoopOK'
  BY <1>0 DEF IInv, LoopOK, Running, Filtering
<1>3. \A l \in Lists : \A sp, sq : Halfway(l, sp, sq) => Halfway(l, sp, sq)'
  BY <1>0 DEF Halfway
<1>4. \A l \in Lists : Sorting(l)' <=> Sorting(l)
  BY <1>0 DEF Sorting, Running
<1>5. RingsOK'
  BY <1>0, <1>3, <1>4 DEF IInv, RingsOK
<1> QED
  BY <1>1, <1>2, <1>5 DEF IInv

LEMMA NextHolds == IInv /\ [Next]_vars => IInv'
<1> SUFFICES ASSUME IInv, [Next]_vars PROVE IInv'
  OBVIOUS
<1>1. CASE \E l \in Lists : Operation(l)
  BY <1>1, OperationHolds
<1>2. CASE \E n \in Nodes : Unhook(n)
  BY <1>2, UnhookHolds
<1>3. CASE Turn
  BY <1>3, TurnHolds
<1>4. CASE UNCHANGED vars
  BY <1>4, StutterHolds
<1> QED
  BY <1>1, <1>2, <1>3, <1>4 DEF Next

\* Whatever is called, and wherever a predicate throws: every list that is not being
\* sorted is one ring, the ring and the two chains of a list that is being sorted hold
\* its nodes in one place each, and the cursors of merge(), remove_if() and unique() are
\* on the lists they walk over.
THEOREM Invariant == Spec => []IInv
<1>1. Init => IInv
  BY InitHolds
<1>2. IInv /\ [Next]_vars => IInv'
  BY NextHolds
<1> QED
  BY <1>1, <1>2, PTL DEF Spec

LEMMA RingsWellLinked == IInv => WellLinked
<1> SUFFICES ASSUME IInv, NEW l \in Lists
             PROVE  /\ parent[l] = l
                    /\ ~Sorting(l) =>
                         /\ \A c \in NodesOf(l) \cup {l} :
                              /\ next[c] \in NodesOf(l) \cup {l} /\ prev[next[c]] = c
                              /\ prev[c] \in NodesOf(l) \cup {l} /\ next[prev[c]] = c
                         /\ Members(Content(l)) = NodesOf(l)
  BY DEF WellLinked
<1>1. TypeOK /\ Rooted /\ parent[l] = l
  BY DEF IInv, Rooted
<1>2. ASSUME ~Sorting(l)
      PROVE  /\ \A c \in NodesOf(l) \cup {l} :
                  /\ next[c] \in NodesOf(l) \cup {l} /\ prev[next[c]] = c
                  /\ prev[c] \in NodesOf(l) \cup {l} /\ next[prev[c]] = c
             /\ Members(Content(l)) = NodesOf(l)
  <2>1. Ring(next, prev, CellsIn(parent, l))
    BY <1>2 DEF IInv, RingsOK
  <2>2. Members(Content(l)) = NodesOf(l)
    BY <1>1, <2>1, RoundOn
  <2>3. NodesOf(l) \cup {l} = CellsIn(parent, l)
    BY <1>1, CellFacts
  <2> QED
    BY <2>1, <2>2, <2>3 DEF Ring
<1> QED
  BY <1>1, <1>2

LEMMA HalfwayLosesNothing ==
  ASSUME IInv, Running("sort")
  PROVE  LET all == Content(loop.list) \o LeftRun \o Path(next, loop.at.q, Null)
         IN  Len(all) = Cardinality(NodesOf(loop.list)) /\ Members(all) = NodesOf(loop.list)
<1> DEFINE l == loop.list
           A == CellsIn(parent, l)
<1>1. /\ l \in Lists /\ loop.at \in SortCursors /\ TypeOK /\ Rooted
  BY SortIs
<1>2. PICK sp, sq : Halfway(l, sp, sq)
  BY SortIs
<1>3. LeftRun = sp /\ Path(next, loop.at.q, Null) = sq
  BY <1>1, <1>2, RestIs
<1>4. /\ sp \in Seq(Nodes) /\ sq \in Seq(Nodes) /\ Injective(sp \o sq)
      /\ Members(sp \o sq) \subseteq A \ {l}
      /\ Ring(next, prev, A \ Members(sp \o sq))
  BY <1>2 DEF Halfway, Runs
<1>5. /\ next \in Pointers /\ A \subseteq Cells /\ l \in A /\ NodesOf(l) = A \ {l} /\ NodesOf(l) \subseteq Nodes
      /\ IsFiniteSet(A) /\ Cardinality(A) <= N + 1
  BY <1>1, CellFacts
<1>6. next \in [Cells -> Cells \cup {Null}]
  BY <1>5 DEF Pointers
<1> DEFINE R == A \ Members(sp \o sq)
           s == Content(l)
<1>7. /\ R \subseteq Cells /\ l \in R /\ R \subseteq A /\ Ring(next, prev, R)
  BY <1>4, <1>5
<1> HIDE DEF l, A, R
<1>8. IsFiniteSet(R) /\ Cardinality(R) <= N + 1
  <2>1. IsFiniteSet(R) /\ Cardinality(R) <= Cardinality(A)
    BY <1>5, <1>7, FS_Subset
  <2>2. Cardinality(R) \in Nat /\ Cardinality(A) \in Nat /\ N \in Nat
    BY <1>5, <2>1, FS_CardinalityType, NIsNat
  <2> QED
    BY <1>5, <2>1, <2>2
<1>9. Members(s) = R \ {l}
  BY <1>6, <1>7, <1>8, RingRound DEF Content
<1>10. s \in Seq(Nodes) /\ Injective(s)
  <2>1. next[l] \in R
    BY <1>7 DEF Ring
  <2>2. Path(next, next[l], l) \in Seq(R \ {l}) /\ Injective(Path(next, next[l], l))
    BY <1>6, <1>7, <1>8, <2>1, RingPath
  <2>3. R \ {l} \subseteq Nodes
    BY <1>5, <1>7
  <2> QED
    BY <2>2, <2>3 DEF Content
<1> HIDE DEF s
<1>11. /\ sp \o sq \in Seq(Nodes) /\ Members(s) \cap Members(sp \o sq) = {}
  BY <1>4, <1>9 DEF R
<1>12. /\ s \o (sp \o sq) \in Seq(Nodes) /\ Injective(s \o (sp \o sq))
       /\ Members(s \o (sp \o sq)) = Members(s) \cup Members(sp \o sq)
  BY <1>4, <1>10, <1>11, ConcatParts
<1>13. Members(s \o (sp \o sq)) = NodesOf(l)
  BY <1>4, <1>5, <1>9, <1>12 DEF R
<1>14. Len(s \o (sp \o sq)) = Cardinality(NodesOf(l))
  BY <1>12, <1>13, InjectiveShort
<1>15. (s \o sp) \o sq = s \o (sp \o sq)
  BY <1>4, <1>10, ConcatAssoc
<1> QED
  BY <1>3, <1>13, <1>14, <1>15 DEF s, l

LEMMA WholeLists == IInv => ListsWhole
<1> SUFFICES ASSUME IInv PROVE ListsWhole
  OBVIOUS
<1>1. TypeOK /\ WellLinked
  BY RingsWellLinked DEF IInv
<1>2. SortLosesNothing
  <2> SUFFICES ASSUME NEW l \in Lists, Sorting(l)
               PROVE  LET all == Content(l) \o LeftRun \o Path(next, loop.at.q, Null)
                      IN  Len(all) = Cardinality(NodesOf(l)) /\ Members(all) = NodesOf(l)
    BY DEF SortLosesNothing
  <2>1. Running("sort") /\ loop.list = l
    BY DEF Sorting
  <2> QED
    BY <2>1, HalfwayLosesNothing
<1> QED
  BY <1>1, <1>2 DEF ListsWhole

\* Every list is whole: forwards and backwards it is one ring of exactly the nodes whose
\* parent it is, and a list in the middle of sort() has lost no node and has none twice.
THEOREM ListsAlwaysWhole == Spec => []ListsWhole
<1>1. IInv => ListsWhole
  BY WholeLists
<1> QED
  BY Invariant, <1>1, PTL

\* Every arrival in a list calls LifetimeTraits::add once, every departure calls remove
\* once, except for ParentListHook::unlink.
THEOREM TraitsBalanced == Spec => []LifetimeBalanced
<1>1. IInv => LifetimeBalanced
  BY DEF IInv
<1> QED
  BY Invariant, <1>1, PTL

-----------------------------------------------------------------------------
(* The refinement of ListsOfNodes.  A list yields a sequence if the sequence  *)
(* steps through its ring: what an operation does to the pointers is then a   *)
(* statement about neighbours in it.                                          *)

\* The i-th cell that one comes to from the root of a list of nodes s.
Place(l, s, i) == IF i \in 1..Len(s) THEN s[i] ELSE l

Yields(nx, l, s) ==
  /\ s \in Seq(Nodes) /\ Injective(s)
  /\ \A i \in 0..Len(s) : nx[Place(l, s, i)] = Place(l, s, i + 1)

\* What iterating gives is what the pointers say.
LEMMA YieldsPath ==
  ASSUME NEW nx \in Pointers, NEW l \in Lists, NEW s, Yields(nx, l, s)
  PROVE  Path(nx, nx[l], l) = s
<1>1. s \in Seq(Nodes) /\ Injective(s) /\ \A i \in 0..Len(s) : nx[Place(l, s, i)] = Place(l, s, i + 1)
  BY DEF Yields
<1>2. Len(s) <= N /\ N \in Nat /\ Len(s) \in Nat
  BY <1>1, InjectiveShort, NIsNat
<1>3. nx[l] = Place(l, s, 1)
  <2>1. Place(l, s, 0) = l /\ 0 \in 0..Len(s)
    BY <1>2 DEF Place
  <2> QED BY <1>1, <2>1
<1>4. s \in Seq(Cells) /\ \A i \in 1..Len(s) : s[i] \notin {l, Null}
  BY <1>1, Basics
<1>5. \A i \in 1..Len(s) : nx[s[i]] = IF i = Len(s) THEN l ELSE s[i + 1]
  <2> TAKE i \in 1..Len(s)
  <2>1. i \in 0..Len(s) /\ Place(l, s, i) = s[i]
    BY <1>2 DEF Place
  <2>2. Place(l, s, i + 1) = IF i = Len(s) THEN l ELSE s[i + 1]
    BY <1>2 DEF Place
  <2> QED BY <1>1, <2>1, <2>2
<1>6. Steps(nx, nx[l], l, s)
  <2>1. CASE s = <<>>
    <3>1. nx[l] = l
      BY <1>3, <2>1 DEF Place
    <3> QED BY <1>4, <2>1, <3>1 DEF Steps
  <2>2. CASE s # <<>>
    <3>1. 1 \in 1..Len(s)
      BY <1>4, <2>2
    <3>2. nx[l] = s[1] /\ s[1] \notin {l, Null}
      BY <1>3, <1>4, <3>1 DEF Place
    <3>3. \A i \in 1..(Len(s) - 1) : s[i + 1] = nx[s[i]]
      BY <1>2, <1>5
    <3> QED BY <1>4, <2>2, <3>2, <3>3 DEF Steps
  <2> QED BY <2>1, <2>2
<1>7. Ended(nx, l, s)
  <2>1. s # <<>> => Len(s) \in 1..Len(s)
    BY <1>4
  <2> QED BY <1>5, <2>1 DEF Ended
<1>8. nx[l] \in Cells \cup {Null} /\ Len(s) <= N + 1
  BY <1>2, Basics DEF Pointers
<1> QED BY <1>6, <1>7, <1>8, PathIs DEF Pointers

\* A list that is a ring: its cells, forwards and backwards, and where each of them is.
LEMMA RingYields ==
  ASSUME TypeOK, NEW l \in Lists, NEW A, Ring(next, prev, A), A \subseteq Nodes \cup {l}, l \in A
  PROVE  /\ Yields(next, l, Content(l)) /\ Members(Content(l)) = A \ {l}
         /\ \A i \in 0..Len(Content(l)) :
              prev[Place(l, Content(l), i + 1)] = Place(l, Content(l), i)
         /\ \A c \in A :
              \E i \in 0..Len(Content(l)) : c = Place(l, Content(l), i + 1)
<1> DEFINE s == Content(l)
<1>1. /\ next \in Pointers /\ A \subseteq Cells /\ l \in A
      /\ IsFiniteSet(A) /\ Cardinality(A) <= N + 1
  <2>1. IsFiniteSet(Nodes \cup {l}) /\ Cardinality(Nodes \cup {l}) = N + 1
    BY ListAssumption, Basics, FS_AddElement DEF N
  <2>2. IsFiniteSet(A) /\ Cardinality(A) <= N + 1
    BY <2>1, FS_Subset
  <2> QED BY <2>2, Basics DEF TypeOK, Pointers
<1>3. Ring(next, prev, A)
  OBVIOUS
<1>2. Members(s) = A \ {l} /\ s \in Seq(Nodes) /\ Injective(s)
  <2>1. next[l] \in A
    BY <1>1, <1>3 DEF Ring
  <2>2. /\ Members(Path(next, next[l], l)) = A \ {l}
        /\ Path(next, next[l], l) \in Seq(A \ {l}) /\ Injective(Path(next, next[l], l))
    BY <1>1, <1>3, <2>1, RingRound, RingPath DEF Pointers
  <2>3. A \ {l} \subseteq Nodes
    OBVIOUS
  <2> QED BY <2>2, <2>3 DEF Content
<1>4. next[l] \in A
  BY <1>1, <1>3 DEF Ring
<1>5. Ended(next, l, s) /\ (next[l] = l => s = <<>>)
  BY <1>1, <1>3, <1>4, RingPath DEF Content, Pointers
<1>6. Steps(next, next[l], l, s)
  BY <1>1, <1>4, PathWalks DEF Content, Pointers
<1> HIDE DEF s
<1>7. Len(s) \in Nat /\ \A i \in 1..Len(s) : s[i] \in A /\ s[i] # l
  BY <1>2 DEF Members
<1>8. ASSUME NEW i \in 0..Len(s) PROVE next[Place(l, s, i)] = Place(l, s, i + 1)
  <2>1. CASE i = 0 /\ s = <<>>
    <3>1. next[l] = l
      BY <1>1, <1>4, <1>6, <2>1, Basics DEF Steps
    <3> QED BY <2>1, <3>1 DEF Place
  <2>2. CASE i = 0 /\ s # <<>>
    <3>1. 1 \in 1..Len(s) /\ ~(0 \in 1..Len(s))
      BY <1>2, <2>2
    <3>2. next[l] = s[1]
      BY <1>6, <2>2 DEF Steps
    <3> QED BY <2>2, <3>1, <3>2 DEF Place
  <2>3. CASE i \in 1..(Len(s) - 1)
    <3>1. i \in 1..Len(s) /\ i + 1 \in 1..Len(s)
      BY <1>7, <2>3
    <3>2. next[s[i]] = s[i + 1]
      BY <1>6, <2>3 DEF Steps
    <3> QED BY <3>1, <3>2 DEF Place
  <2>4. CASE i = Len(s) /\ s # <<>>
    <3>1. i \in 1..Len(s) /\ ~(i + 1 \in 1..Len(s))
      BY <1>2, <1>7, <2>4
    <3>2. next[s[i]] \in {l, Null} /\ next[s[i]] \in A
      BY <1>3, <1>5, <1>7, <2>4, <3>1 DEF Ended, Ring
    <3>3. next[s[i]] = l
      BY <1>1, <3>2, Basics
    <3> QED BY <3>1, <3>3 DEF Place
  <2> QED
    <3>1. i = 0 \/ i \in 1..(Len(s) - 1) \/ i = Len(s)
      BY <1>7
    <3>2. s = <<>> => Len(s) = 0
      OBVIOUS
    <3> QED BY <2>1, <2>2, <2>3, <2>4, <3>1, <3>2
<1>9. ASSUME NEW i \in 0..Len(s) PROVE Place(l, s, i) \in A
  BY <1>1, <1>7 DEF Place
<1>10. ASSUME NEW i \in 0..Len(s) PROVE prev[Place(l, s, i + 1)] = Place(l, s, i)
  BY <1>3, <1>8, <1>9 DEF Ring
<1>11. ASSUME NEW c \in A PROVE \E i \in 0..Len(s) : c = Place(l, s, i + 1)
  <2>1. CASE c = l
    <3>1. Len(s) \in 0..Len(s) /\ ~(Len(s) + 1 \in 1..Len(s))
      BY <1>7
    <3> QED BY <2>1, <3>1 DEF Place
  <2>2. CASE c # l
    <3>1. c \in Members(s)
      BY <1>2, <2>2
    <3>2. PICK j \in 1..Len(s) : c = s[j]
      BY <1>2, <3>1 DEF Members
    <3>3. j - 1 \in 0..Len(s) /\ (j - 1) + 1 = j
      BY <1>7
    <3> QED BY <3>2, <3>3 DEF Place
  <2> QED BY <2>1, <2>2
<1>12. Yields(next, l, s)
  BY <1>2, <1>8 DEF Yields
<1> QED BY <1>2, <1>10, <1>11, <1>12 DEF s

LEMMA ContentYields ==
  ASSUME TypeOK, Rooted, NEW l \in Lists, Ring(next, prev, CellsIn(parent, l))
  PROVE  /\ Yields(next, l, Content(l)) /\ Members(Content(l)) = NodesOf(l)
         /\ \A i \in 0..Len(Content(l)) :
              prev[Place(l, Content(l), i + 1)] = Place(l, Content(l), i)
         /\ \A c \in CellsIn(parent, l) :
              \E i \in 0..Len(Content(l)) : c = Place(l, Content(l), i + 1)
<1> DEFINE A == CellsIn(parent, l)
<1>1. l \in A /\ NodesOf(l) = A \ {l} /\ NodesOf(l) \subseteq Nodes
  BY CellFacts
<1>2. A \subseteq Nodes \cup {l} /\ Ring(next, prev, A)
  BY <1>1
<1> HIDE DEF A
<1>3. /\ Yields(next, l, Content(l)) /\ Members(Content(l)) = A \ {l}
      /\ \A i \in 0..Len(Content(l)) :
           prev[Place(l, Content(l), i + 1)] = Place(l, Content(l), i)
      /\ \A c \in A :
           \E i \in 0..Len(Content(l)) : c = Place(l, Content(l), i + 1)
  BY <1>1, <1>2, RingYields
<1> QED BY <1>1, <1>3 DEF A

\* A list none of whose pointers changes yields what it did.
LEMMA ContentKept ==
  ASSUME TypeOK, Rooted, NEW l \in Lists, Ring(next, prev, CellsIn(parent, l)),
         next' \in Pointers, \A c \in CellsIn(parent, l) : next'[c] = next[c]
  PROVE  Content(l)' = Content(l)
<1> DEFINE s == Content(l)
<1>1. Yields(next, l, s) /\ Members(s) = NodesOf(l)
  BY ContentYields
<1>2. NodesOf(l) \subseteq CellsIn(parent, l) /\ l \in CellsIn(parent, l)
  BY CellFacts
<1> HIDE DEF s
<1>3. ASSUME NEW i \in 0..Len(s) PROVE Place(l, s, i) \in CellsIn(parent, l)
  BY <1>1, <1>2 DEF Place, Members, Yields
<1>4. Yields(next', l, s)
  BY <1>1, <1>3 DEF Yields
<1>5. Path(next', next'[l], l) = s
  BY <1>4, YieldsPath
<1> QED BY <1>5 DEF s, Content

Spliced(s, i, t) == SubSeq(s, 1, i) \o t \o SubSeq(s, i + 1, Len(s))
Without(s, i, j) == SubSeq(s, 1, i) \o SubSeq(s, j + 1, Len(s))

SplicedSeq(S, s, i, t, r) ==
  /\ r \in Seq(S) /\ Len(r) = Len(s) + Len(t)
  /\ \A m \in 1..(Len(s) + Len(t)) :
       r[m] = IF m <= i THEN s[m] ELSE IF m <= i + Len(t) THEN t[m - i] ELSE s[m - Len(t)]

LEMMA SplicedIs ==
  ASSUME NEW S, NEW s \in Seq(S), NEW t \in Seq(S), NEW i \in 0..Len(s)
  PROVE  SplicedSeq(S, s, i, t, Spliced(s, i, t))
<1> DEFINE a == SubSeq(s, 1, i)
           c == SubSeq(s, i + 1, Len(s))
           b == a \o t
<1>1. a \in Seq(S) /\ Len(a) = i /\ \A m \in 1..i : a[m] = s[m]
  OBVIOUS
<1>2. c \in Seq(S) /\ Len(c) = Len(s) - i /\ \A m \in 1..(Len(s) - i) : c[m] = s[m + i]
  OBVIOUS
<1> HIDE DEF a, c
<1>3. /\ b \in Seq(S) /\ Len(b) = i + Len(t)
      /\ \A m \in 1..(i + Len(t)) : b[m] = IF m <= i THEN a[m] ELSE t[m - i]
  <2>1. /\ b \in Seq(S) /\ Len(b) = Len(a) + Len(t)
        /\ \A m \in 1..(Len(a) + Len(t)) : b[m] = IF m <= Len(a) THEN a[m] ELSE t[m - Len(a)]
    BY <1>1, ConcatProperties
  <2> QED BY <1>1, <2>1
<1> HIDE DEF b
<1>4. /\ b \o c \in Seq(S) /\ Len(b \o c) = Len(b) + Len(c)
      /\ \A m \in 1..(Len(b) + Len(c)) : (b \o c)[m] = IF m <= Len(b) THEN b[m] ELSE c[m - Len(b)]
  <2>1. b \in Seq(S) /\ c \in Seq(S)
    BY <1>2, <1>3
  <2> QED BY <2>1, ConcatProperties
<1>5. Len(b) + Len(c) = Len(s) + Len(t)
  BY <1>2, <1>3
<1>6. ASSUME NEW m \in 1..(Len(s) + Len(t))
      PROVE  (b \o c)[m] = IF m <= i THEN s[m] ELSE IF m <= i + Len(t) THEN t[m - i] ELSE s[m - Len(t)]
  <2>1. CASE m <= i
    <3>1. m \in 1..i /\ m \in 1..(i + Len(t)) /\ m <= i + Len(t)
      BY <2>1
    <3> QED BY <1>1, <1>3, <1>4, <1>5, <2>1, <3>1
  <2>2. CASE ~(m <= i) /\ m <= i + Len(t)
    <3>1. m \in 1..(i + Len(t))
      BY <2>2
    <3> QED BY <1>3, <1>4, <1>5, <2>2, <3>1
  <2>3. CASE ~(m <= i) /\ ~(m <= i + Len(t))
    <3>1. m - (i + Len(t)) \in 1..(Len(s) - i) /\ (m - (i + Len(t))) + i = m - Len(t)
      BY <2>3
    <3>2. (b \o c)[m] = c[m - (i + Len(t))]
      BY <1>3, <1>4, <1>5, <2>3
    <3>3. c[m - (i + Len(t))] = s[m - Len(t)]
      BY <1>2, <3>1
    <3> QED BY <2>3, <3>2, <3>3
  <2> QED BY <2>1, <2>2, <2>3
<1>7. Spliced(s, i, t) = b \o c
  BY DEF Spliced, a, b, c
<1>8. SplicedSeq(S, s, i, t, b \o c)
  BY <1>4, <1>5, <1>6 DEF SplicedSeq
<1> QED BY <1>7, <1>8

WithoutSeq(S, s, i, d, r) ==
  /\ r \in Seq(S) /\ Len(r) = Len(s) - d
  /\ \A m \in 1..(Len(s) - d) : r[m] = IF m <= i THEN s[m] ELSE s[m + d]

LEMMA WithoutIs ==
  ASSUME NEW S, NEW s \in Seq(S), NEW i \in 0..Len(s), NEW j \in i..Len(s)
  PROVE  WithoutSeq(S, s, i, j - i, Without(s, i, j))
<1> DEFINE a == SubSeq(s, 1, i)
           c == SubSeq(s, j + 1, Len(s))
<1>1. a \in Seq(S) /\ Len(a) = i /\ \A m \in 1..i : a[m] = s[m]
  OBVIOUS
<1>2. c \in Seq(S) /\ Len(c) = Len(s) - j /\ \A m \in 1..(Len(s) - j) : c[m] = s[m + j]
  OBVIOUS
<1> HIDE DEF a, c
<1>4. /\ a \o c \in Seq(S) /\ Len(a \o c) = Len(a) + Len(c)
      /\ \A m \in 1..(Len(a) + Len(c)) : (a \o c)[m] = IF m <= Len(a) THEN a[m] ELSE c[m - Len(a)]
  <2>1. a \in Seq(S) /\ c \in Seq(S)
    BY <1>1, <1>2
  <2> QED BY <2>1, ConcatProperties
<1>5. Len(a) + Len(c) = Len(s) - (j - i)
  BY <1>1, <1>2
<1>6. ASSUME NEW m \in 1..(Len(s) - (j - i))
      PROVE  (a \o c)[m] = IF m <= i THEN s[m] ELSE s[m + (j - i)]
  <2>1. CASE m <= i
    <3>1. m \in 1..i
      BY <2>1
    <3> QED BY <1>1, <1>4, <1>5, <2>1, <3>1
  <2>2. CASE ~(m <= i)
    <3>1. m - i \in 1..(Len(s) - j) /\ (m - i) + j = m + (j - i)
      BY <2>2
    <3>2. (a \o c)[m] = c[m - i]
      BY <1>1, <1>4, <1>5, <2>2
    <3> QED BY <1>2, <2>2, <3>1, <3>2
  <2> QED BY <2>1, <2>2
<1>7. Without(s, i, j) = a \o c
  BY DEF Without, a, c
<1>8. WithoutSeq(S, s, i, j - i, a \o c)
  BY <1>4, <1>5, <1>6 DEF WithoutSeq
<1> QED BY <1>7, <1>8

LEMMA InOrBehind ==
  ASSUME NEW i \in Nat, NEW n \in Nat, NEW m \in (i + 1)..(n + 1)
  PROVE  m \in 1..n \/ m = n + 1
OBVIOUS

LEMMA Around ==
  ASSUME NEW m \in Nat, NEW i \in Nat, NEW n \in Nat
  PROVE  m < i \/ m = i \/ (i < m /\ m < i + n) \/ m = i + n \/ i + n < m
OBVIOUS

\* The nodes of t follow the i-th place of s, and all others follow whom they did.
LinkedIn(nx, l, s, i, t, nx2) ==
  /\ nx2[Place(l, s, i)] = t[1] /\ nx2[t[Len(t)]] = Place(l, s, i + 1)
  /\ \A m \in 1..(Len(t) - 1) : nx2[t[m]] = t[m + 1]
  /\ \A m \in 0..Len(s) : m # i => nx2[Place(l, s, m)] = nx[Place(l, s, m)]

\* Nodes that are put into a list are yielded where they were put,
LEMMA YieldsSpliced ==
  ASSUME NEW nx, NEW l \in Lists, NEW s, Yields(nx, l, s), NEW i \in 0..Len(s),
         NEW t \in Seq(Nodes), Injective(t), Members(s) \cap Members(t) = {}, t # <<>>,
         NEW nx2, LinkedIn(nx, l, s, i, t, nx2)
  PROVE  Yields(nx2, l, Spliced(s, i, t)) /\ Members(Spliced(s, i, t)) = Members(s) \cup Members(t)
<1> DEFINE r == Spliced(s, i, t)
<1> USE DEF LinkedIn
<1>1. /\ s \in Seq(Nodes) /\ Injective(s) /\ Len(s) \in Nat
      /\ \A m \in 0..Len(s) : nx[Place(l, s, m)] = Place(l, s, m + 1)
  BY DEF Yields
<1>2. /\ r \in Seq(Nodes) /\ Len(r) = Len(s) + Len(t) /\ Len(t) \in Nat \ {0}
      /\ \A m \in 1..(Len(s) + Len(t)) :
           r[m] = IF m <= i THEN s[m] ELSE IF m <= i + Len(t) THEN t[m - i] ELSE s[m - Len(t)]
  <2>1. s \in Seq(Nodes) /\ SplicedSeq(Nodes, s, i, t, r)
    BY <1>1, SplicedIs
  <2>2. Len(t) \in Nat \ {0}
    OBVIOUS
  <2> HIDE DEF r
  <2> QED BY <2>1, <2>2 DEF SplicedSeq
<1> HIDE DEF r
<1>3. \A m \in 0..i : Place(l, r, m) = Place(l, s, m)
  BY <1>1, <1>2 DEF Place
<1>4. \A m \in 1..Len(t) : Place(l, r, i + m) = t[m]
  <2> TAKE m \in 1..Len(t)
  <2>1. i + m \in 1..(Len(s) + Len(t)) /\ ~(i + m <= i) /\ i + m <= i + Len(t) /\ (i + m) - i = m
    BY <1>1, <1>2
  <2> QED BY <1>2, <2>1 DEF Place
<1>5. \A m \in (i + 1)..(Len(s) + 1) : Place(l, r, m + Len(t)) = Place(l, s, m)
  <2> TAKE m \in (i + 1)..(Len(s) + 1)
  <2>1. CASE m \in 1..Len(s)
    <3>1. /\ m + Len(t) \in 1..(Len(s) + Len(t)) /\ ~(m + Len(t) <= i) /\ ~(m + Len(t) <= i + Len(t))
          /\ (m + Len(t)) - Len(t) = m
      BY <1>1, <1>2, <2>1
    <3> QED BY <1>2, <2>1, <3>1 DEF Place
  <2>2. CASE m = Len(s) + 1
    <3>1. ~(m \in 1..Len(s)) /\ ~(m + Len(t) \in 1..Len(r))
      BY <1>1, <1>2, <2>2
    <3> QED BY <3>1 DEF Place
  <2>3. m \in 1..Len(s) \/ m = Len(s) + 1
    <3>1. i \in Nat /\ Len(s) \in Nat
      BY <1>1
    <3> QED BY <3>1, InOrBehind
  <2> QED BY <2>1, <2>2, <2>3
<1>6. ASSUME NEW m \in 0..Len(r) PROVE nx2[Place(l, r, m)] = Place(l, r, m + 1)
  <2>1. CASE m < i
    <3>1. m \in 0..i /\ m + 1 \in 0..i /\ m \in 0..Len(s) /\ m # i
      BY <1>1, <2>1
    <3> QED BY <1>1, <1>3, <3>1
  <2>2. CASE m = i
    <3>1. i \in 0..i /\ 1 \in 1..Len(t)
      BY <1>2
    <3> QED BY <1>3, <1>4, <2>2, <3>1
  <2>3. CASE i < m /\ m < i + Len(t)
    <3>1. PICK j \in 1..(Len(t) - 1) : m = i + j
      <4>1. m - i \in 1..(Len(t) - 1) /\ m = i + (m - i)
        BY <1>2, <2>3
      <4> QED BY <4>1
    <3>2. j \in 1..Len(t) /\ j + 1 \in 1..Len(t) /\ m + 1 = i + (j + 1)
      BY <1>2, <3>1
    <3> QED BY <1>4, <3>1, <3>2
  <2>4. CASE m = i + Len(t)
    <3>1. Len(t) \in 1..Len(t) /\ i + 1 \in (i + 1)..(Len(s) + 1) /\ m + 1 = (i + 1) + Len(t)
      BY <1>1, <1>2, <2>4
    <3>2. Place(l, r, m) = t[Len(t)]
      BY <1>4, <2>4, <3>1
    <3>3. Place(l, r, m + 1) = Place(l, s, i + 1)
      BY <1>5, <3>1
    <3> QED BY <3>2, <3>3
  <2>5. CASE i + Len(t) < m
    <3>1. PICK j \in (i + 1)..Len(s) : m = j + Len(t)
      <4>1. m - Len(t) \in (i + 1)..Len(s) /\ m = (m - Len(t)) + Len(t)
        BY <1>1, <1>2, <2>5
      <4> QED BY <4>1
    <3>2. /\ j \in (i + 1)..(Len(s) + 1) /\ j + 1 \in (i + 1)..(Len(s) + 1) /\ m + 1 = (j + 1) + Len(t)
          /\ j \in 0..Len(s) /\ j # i
      BY <1>1, <3>1
    <3>3. Place(l, r, m) = Place(l, s, j)
      BY <1>5, <3>1, <3>2
    <3>4. Place(l, r, m + 1) = Place(l, s, j + 1)
      BY <1>5, <3>2
    <3> QED BY <1>1, <3>2, <3>3, <3>4
  <2>6. m < i \/ m = i \/ (i < m /\ m < i + Len(t)) \/ m = i + Len(t) \/ i + Len(t) < m
    <3>1. m \in Nat /\ i \in Nat /\ Len(t) \in Nat
      BY <1>1, <1>2
    <3> QED BY <3>1, Around
  <2> QED BY <2>1, <2>2, <2>3, <2>4, <2>5, <2>6
<1>7. \A m \in 1..Len(s) : s[m] \in Members(s)
  BY <1>1 DEF Members
<1>8. \A m \in 1..Len(t) : t[m] \in Members(t)
  BY DEF Members
<1>9. Injective(r)
  <2> SUFFICES ASSUME NEW m \in 1..Len(r), NEW n \in 1..Len(r), r[m] = r[n] PROVE m = n
    BY DEF Injective
  <2> DEFINE old(x) == ~(i < x /\ x <= i + Len(t))
             from(x) == IF x <= i THEN x ELSE x - Len(t)
  <2>1. ASSUME NEW x \in 1..Len(r), old(x) PROVE from(x) \in 1..Len(s) /\ r[x] = s[from(x)]
    BY <1>1, <1>2, <2>1
  <2>2. ASSUME NEW x \in 1..Len(r), ~old(x) PROVE x - i \in 1..Len(t) /\ r[x] = t[x - i]
    BY <1>1, <1>2, <2>2
  <2>3. CASE old(m) /\ old(n)
    <3>1. from(m) = from(n)
      <4> HIDE DEF from, old
      <4> QED BY <1>1, <2>1, <2>3 DEF Injective
    <3> QED BY <1>2, <2>3, <3>1
  <2>4. CASE ~old(m) /\ ~old(n)
    <3>1. m - i = n - i
      <4> HIDE DEF old
      <4>1. m - i \in 1..Len(t) /\ n - i \in 1..Len(t) /\ t[m - i] = t[n - i]
        BY <2>2, <2>4
      <4> QED BY <4>1 DEF Injective
    <3> QED BY <1>2, <3>1
  <2> HIDE DEF from, old
  <2>5. CASE old(m) /\ ~old(n)
    BY <1>7, <1>8, <2>1, <2>2, <2>5
  <2>6. CASE ~old(m) /\ old(n)
    BY <1>7, <1>8, <2>1, <2>2, <2>6
  <2> QED BY <2>3, <2>4, <2>5, <2>6
<1>12. \A m \in 1..Len(r) : r[m] \in Members(r)
  BY <1>2 DEF Members
<1>10. Members(r) = Members(s) \cup Members(t)
  <2>1. ASSUME NEW c \in Members(r) PROVE c \in Members(s) \cup Members(t)
    <3>1. PICK m \in 1..Len(r) : c = r[m]
      BY <1>2 DEF Members
    <3>2. CASE m <= i
      <4>1. m \in 1..Len(s)
        BY <1>1, <3>2
      <4> QED BY <1>2, <1>7, <3>1, <3>2, <4>1
    <3>3. CASE ~(m <= i) /\ m <= i + Len(t)
      <4>1. m - i \in 1..Len(t)
        BY <1>2, <3>3
      <4> QED BY <1>2, <1>8, <3>1, <3>3, <4>1
    <3>4. CASE ~(m <= i) /\ ~(m <= i + Len(t))
      <4>1. m - Len(t) \in 1..Len(s)
        BY <1>2, <3>4
      <4> QED BY <1>2, <1>7, <3>1, <3>4, <4>1
    <3> QED BY <3>2, <3>3, <3>4
  <2>2. ASSUME NEW c \in Members(s) PROVE c \in Members(r)
    <3>1. PICK m \in 1..Len(s) : c = s[m]
      BY <1>1 DEF Members
    <3>2. CASE m <= i
      <4>1. m \in 1..Len(r) /\ r[m] = s[m]
        BY <1>1, <1>2, <3>2
      <4> QED BY <1>12, <3>1, <4>1
    <3>3. CASE ~(m <= i)
      <4>1. /\ m + Len(t) \in 1..Len(r) /\ ~(m + Len(t) <= i) /\ ~(m + Len(t) <= i + Len(t))
            /\ (m + Len(t)) - Len(t) = m
        BY <1>1, <1>2, <3>3
      <4>2. r[m + Len(t)] = s[m]
        BY <1>2, <4>1
      <4> QED BY <1>12, <3>1, <4>1, <4>2
    <3> QED BY <3>2, <3>3
  <2>3. ASSUME NEW c \in Members(t) PROVE c \in Members(r)
    <3>1. PICK m \in 1..Len(t) : c = t[m]
      BY DEF Members
    <3>2. m + i \in 1..Len(r) /\ ~(m + i <= i) /\ m + i <= i + Len(t) /\ (m + i) - i = m
      BY <1>1, <1>2
    <3>3. r[m + i] = t[m]
      BY <1>2, <3>2
    <3> QED BY <1>12, <3>1, <3>2, <3>3
  <2> QED BY <2>1, <2>2, <2>3
<1>11. Yields(nx2, l, r)
  BY <1>2, <1>6, <1>9 DEF Yields
<1> QED BY <1>10, <1>11 DEF r

\* and a list that a part is taken out of yields the others.
LEMMA YieldsWithout ==
  ASSUME NEW nx, NEW l \in Lists, NEW s, Yields(nx, l, s),
         NEW i \in 0..Len(s), NEW j \in i..Len(s),
         NEW nx2, nx2[Place(l, s, i)] = Place(l, s, j + 1),
         \A m \in 0..Len(s) : m < i \/ j < m => nx2[Place(l, s, m)] = nx[Place(l, s, m)]
  PROVE  Yields(nx2, l, Without(s, i, j))
<1> DEFINE r == Without(s, i, j)
<1>0. PICK d \in Nat : j = i + d
  <2>1. j - i \in Nat /\ j = i + (j - i)
    OBVIOUS
  <2> QED BY <2>1
<1>1. /\ s \in Seq(Nodes) /\ Injective(s) /\ Len(s) \in Nat
      /\ \A m \in 0..Len(s) : nx[Place(l, s, m)] = Place(l, s, m + 1)
  BY DEF Yields
<1>2. /\ r \in Seq(Nodes) /\ Len(r) = Len(s) - d
      /\ \A m \in 1..(Len(s) - d) : r[m] = IF m <= i THEN s[m] ELSE s[m + d]
  <2>1. WithoutSeq(Nodes, s, i, j - i, r) /\ j - i = d
    BY <1>0, <1>1, WithoutIs
  <2> HIDE DEF r
  <2> QED BY <2>1 DEF WithoutSeq
<1> HIDE DEF r
<1>3. \A m \in 0..i : Place(l, r, m) = Place(l, s, m)
  BY <1>0, <1>1, <1>2 DEF Place
<1>4. \A m \in (i + 1)..(Len(r) + 1) : Place(l, r, m) = Place(l, s, m + d)
  BY <1>0, <1>1, <1>2 DEF Place
<1>5. ASSUME NEW m \in 0..Len(r) PROVE nx2[Place(l, r, m)] = Place(l, r, m + 1)
  <2>1. CASE m < i
    <3>1. m \in 0..i /\ m + 1 \in 0..i /\ m \in 0..Len(s)
      BY <1>1, <2>1
    <3> QED BY <1>1, <1>3, <2>1, <3>1
  <2>2. CASE m = i
    <3>1. i \in 0..i /\ i + 1 \in (i + 1)..(Len(r) + 1) /\ (i + 1) + d = j + 1
      BY <1>0, <1>1, <1>2
    <3> QED BY <1>3, <1>4, <2>2, <3>1
  <2>3. CASE i < m
    <3>1. /\ m \in (i + 1)..(Len(r) + 1) /\ m + 1 \in (i + 1)..(Len(r) + 1) /\ (m + 1) + d = (m + d) + 1
          /\ m + d \in 0..Len(s) /\ j < m + d
      BY <1>0, <1>1, <1>2, <2>3
    <3> QED BY <1>1, <1>4, <3>1
  <2> QED BY <2>1, <2>2, <2>3
<1>6. Injective(r)
  <2> SUFFICES ASSUME NEW m \in 1..Len(r), NEW n \in 1..Len(r), r[m] = r[n] PROVE m = n
    BY DEF Injective
  <2> DEFINE from(x) == IF x <= i THEN x ELSE x + d
  <2>1. ASSUME NEW x \in 1..Len(r) PROVE from(x) \in 1..Len(s) /\ r[x] = s[from(x)]
    <3>1. from(x) \in 1..Len(s)
      BY <1>0, <1>1, <1>2
    <3>2. r[x] = IF x <= i THEN s[x] ELSE s[x + d]
      BY <1>2
    <3> QED BY <3>1, <3>2
  <2>2. from(m) = from(n)
    <3> HIDE DEF from
    <3>1. from(m) \in 1..Len(s) /\ from(n) \in 1..Len(s) /\ s[from(m)] = s[from(n)]
      BY <2>1
    <3> QED BY <1>1, <3>1 DEF Injective
  <2> QED BY <2>2
<1> QED BY <1>2, <1>5, <1>6 DEF Yields, r

\* The part of a list that lies between two of its cells; the other way round the root
\* is between them.
LEMMA BetweenIs ==
  ASSUME TypeOK, Rooted, NEW l \in Lists, Ring(next, prev, CellsIn(parent, l)),
         NEW s, s = Content(l), NEW i \in 0..Len(s), NEW j \in 0..Len(s)
  PROVE  /\ i <= j => Path(next, Place(l, s, i + 1), Place(l, s, j + 1)) = SubSeq(s, i + 1, j)
         /\ j < i => l \in Between(Place(l, s, i + 1), Place(l, s, j + 1))
<1> DEFINE b == Place(l, s, i + 1)
           e == Place(l, s, j + 1)
<1>1. /\ s \in Seq(Nodes) /\ Injective(s) /\ Len(s) \in Nat /\ Len(s) <= N /\ N \in Nat
      /\ \A m \in 0..Len(s) : next[Place(l, s, m)] = Place(l, s, m + 1)
  BY ContentYields, InjectiveShort, NIsNat DEF Yields
<1>2. next \in Pointers /\ l \notin Nodes /\ Null \notin Nodes /\ l # Null /\ Nodes \subseteq Cells /\ l \in Cells
  BY CellFacts, Basics
<1>3. \A m \in 1..Len(s) : s[m] \in Nodes /\ s[m] # l /\ next[s[m]] = Place(l, s, m + 1)
  <2> TAKE m \in 1..Len(s)
  <2>1. m \in 0..Len(s) /\ Place(l, s, m) = s[m]
    BY <1>1 DEF Place
  <2> QED BY <1>1, <1>2, <2>1
<1>4. b \in Cells /\ e \in Cells
  BY <1>2, <1>3 DEF Place
<1>5. \A m \in 1..Len(s) : m # j + 1 => s[m] # e
  BY <1>1, <1>3 DEF Place, Injective
<1>6. \A m \in 1..(Len(s) - 1) : next[s[m]] = s[m + 1]
  <2> TAKE m \in 1..(Len(s) - 1)
  <2>1. m \in 1..Len(s) /\ m + 1 \in 1..Len(s)
    BY <1>1
  <2> QED BY <1>3, <2>1 DEF Place
<1>7. ASSUME i <= j PROVE Path(next, b, e) = SubSeq(s, i + 1, j)
  <2> DEFINE t == SubSeq(s, i + 1, j)
  <2>1. t \in Seq(Cells) /\ Len(t) = j - i /\ \A m \in 1..(j - i) : t[m] = s[m + i]
    BY <1>1, <1>2, <1>7
  <2> HIDE DEF t
  <2>2. ASSUME NEW m \in 1..Len(t) PROVE t[m] \notin {e, Null}
    <3>1. m + i \in 1..Len(s) /\ m + i # j + 1
      BY <1>1, <1>7, <2>1
    <3> HIDE DEF e
    <3> QED BY <1>2, <1>3, <1>5, <2>1, <3>1
  <2>3. ASSUME NEW m \in 1..(Len(t) - 1) PROVE t[m + 1] = next[t[m]]
    <3>1. /\ m + i \in 1..(Len(s) - 1) /\ m \in 1..(j - i) /\ m + 1 \in 1..(j - i)
          /\ (m + 1) + i = (m + i) + 1
      BY <1>1, <1>7, <2>1
    <3> QED BY <1>6, <2>1, <3>1
  <2>4. CASE i = j
    <3>1. t = <<>> /\ b = e
      BY <2>1, <2>4
    <3>2. Steps(next, b, e, t) /\ Ended(next, e, t) /\ Len(t) <= N + 1
      BY <1>1, <2>1, <3>1 DEF Steps, Ended
    <3> HIDE DEF b, e
    <3> QED BY <1>2, <1>4, <3>2, PathIs DEF t, Pointers
  <2>5. CASE i # j
    <3>1. /\ i + 1 \in 1..Len(s) /\ 1 \in 1..Len(t) /\ t # <<>> /\ Len(t) \in 1..Len(t)
          /\ Len(t) + i = j /\ j \in 1..Len(s) /\ 1 + i = i + 1
      BY <1>1, <1>7, <2>1, <2>5
    <3>2. t[1] = b /\ b \notin {e, Null}
      <4>1. b = s[i + 1] /\ t[1] = s[i + 1]
        BY <2>1, <3>1 DEF Place
      <4> QED BY <2>2, <3>1, <4>1
    <3>3. next[t[Len(t)]] = e
      BY <1>3, <2>1, <3>1
    <3> HIDE DEF b, e
    <3>4. Steps(next, b, e, t) /\ Ended(next, e, t)
      BY <2>1, <2>2, <2>3, <3>1, <3>2, <3>3 DEF Steps, Ended
    <3>5. Len(t) <= N + 1
      BY <1>1, <2>1
    <3> QED BY <1>2, <1>4, <3>4, <3>5, PathIs DEF t, Pointers
  <2> QED BY <2>4, <2>5
<1>8. ASSUME j < i PROVE l \in Between(b, e)
  <2>1. CASE i = Len(s)
    <3>1. b = l /\ e # l
      <4>1. ~(i + 1 \in 1..Len(s)) /\ j + 1 \in 1..Len(s)
        BY <1>1, <1>8, <2>1
      <4> QED BY <1>3, <4>1 DEF Place
    <3> DEFINE t == <<l>>
    <3>2. t \in Seq(Cells) /\ Len(t) = 1 /\ t[1] = l /\ t # <<>>
      BY <1>2
    <3> HIDE DEF t, e
    <3>3. Steps(next, b, e, t)
      BY <1>2, <3>1, <3>2 DEF Steps
    <3> HIDE DEF b
    <3>4. 1 <= Len(Path(next, b, e)) /\ Path(next, b, e)[1] = l
      <4>1. Len(t) <= N + 1 /\ 1 \in 1..Len(t)
        BY <1>1, <3>2
      <4> DEFINE pth == Path(next, b, e)
      <4>2. Len(t) <= Len(pth) /\ \A m \in 1..Len(t) : pth[m] = t[m]
        BY <1>2, <1>4, <3>3, <4>1, PathPrefix DEF Pointers
      <4> HIDE DEF pth
      <4>3. 1 <= Len(pth) /\ pth[1] = l
        BY <3>2, <4>1, <4>2
      <4> QED BY <4>3 DEF pth
    <3>5. Path(next, b, e) \in Seq(Cells)
      BY <1>2, <1>4, PathWalks DEF Steps, Pointers
    <3> DEFINE pth == Path(next, b, e)
    <3>6. pth \in Seq(Cells) /\ 1 <= Len(pth) /\ pth[1] = l
      BY <3>4, <3>5
    <3> HIDE DEF pth
    <3>7. l \in Members(pth)
      <4>1. 1 \in DOMAIN pth
        BY <3>6
      <4> QED BY <3>6, <4>1 DEF Members
    <3> QED BY <3>7 DEF Between, pth
  <2>2. CASE i # Len(s)
    <3> DEFINE u == SubSeq(s, i + 1, Len(s))
               t == Append(u, l)
               d == Len(s) - i
    <3>1. d \in Nat /\ d >= 1 /\ d <= N /\ d + i = Len(s)
      BY <1>1, <2>2
    <3>2. u \in Seq(Cells) /\ Len(u) = d /\ \A m \in 1..d : u[m] = s[m + i]
      BY <1>1, <1>2
    <3> HIDE DEF u, d
    <3>3. t \in Seq(Cells) /\ Len(t) = d + 1 /\ t[d + 1] = l /\ \A m \in 1..d : t[m] = s[m + i]
      BY <1>2, <3>1, <3>2
    <3> HIDE DEF t
    <3>4. e # l /\ b = s[i + 1]
      <4>1. i + 1 \in 1..Len(s) /\ j + 1 \in 1..Len(s)
        BY <1>1, <1>8, <2>2
      <4> QED BY <1>3, <4>1 DEF Place
    <3> HIDE DEF b
    <3>5. ASSUME NEW m \in 1..Len(t) PROVE t[m] \notin {e, Null}
      <4>1. CASE m \in 1..d
        <5>1. m + i \in 1..Len(s) /\ m + i # j + 1
          BY <1>1, <1>8, <3>1, <4>1
        <5> HIDE DEF e
        <5> QED BY <1>2, <1>3, <1>5, <3>3, <4>1, <5>1
      <4>2. CASE m = d + 1
        BY <1>2, <3>3, <3>4, <4>2
      <4>3. m \in 1..d \/ m = d + 1
        BY <3>1, <3>3
      <4> QED BY <4>1, <4>2, <4>3
    <3> HIDE DEF e
    <3>6. ASSUME NEW m \in 1..(Len(t) - 1) PROVE t[m + 1] = next[t[m]]
      <4>1. m \in 1..d
        BY <3>1, <3>3
      <4>2. CASE m = d
        <5>1. m + i = Len(s) /\ Len(s) \in 1..Len(s) /\ ~(Len(s) + 1 \in 1..Len(s))
          BY <1>1, <2>2, <3>1, <4>2
        <5>2. next[s[Len(s)]] = l
          BY <1>3, <5>1 DEF Place
        <5> QED BY <3>3, <4>1, <4>2, <5>1, <5>2
      <4>3. CASE m # d
        <5>1. m + 1 \in 1..d /\ (m + 1) + i = (m + i) + 1 /\ m + i \in 1..(Len(s) - 1)
          BY <1>1, <3>1, <4>1, <4>3
        <5> QED BY <1>6, <3>3, <4>1, <5>1
      <4> QED BY <4>2, <4>3
    <3>7. t[1] = b /\ t # <<>>
      <4>1. 1 \in 1..d /\ 1 + i = i + 1
        BY <3>1
      <4>2. t # <<>>
        BY <3>1, <3>3
      <4> QED BY <3>3, <3>4, <4>1, <4>2
    <3>8. b \notin {e, Null}
      <4>1. 1 \in 1..Len(t)
        BY <3>1, <3>3
      <4> QED BY <3>5, <3>7, <4>1
    <3>9. Steps(next, b, e, t)
      BY <3>3, <3>5, <3>6, <3>7, <3>8 DEF Steps
    <3>10. Len(t) <= N + 1
      BY <1>1, <3>1, <3>3
    <3> DEFINE pth == Path(next, b, e)
    <3>11. Len(t) <= Len(pth) /\ \A m \in 1..Len(t) : pth[m] = t[m]
      BY <1>2, <1>4, <3>9, <3>10, PathPrefix DEF Pointers
    <3>12. pth \in Seq(Cells)
      BY <1>2, <1>4, PathWalks DEF Steps, Pointers
    <3> HIDE DEF pth
    <3>13. d + 1 \in 1..Len(t) /\ d + 1 \in DOMAIN pth
      BY <3>1, <3>3, <3>11, <3>12
    <3>14. pth[d + 1] = l
      BY <3>3, <3>11, <3>13
    <3>15. l \in Members(pth)
      BY <3>13, <3>14 DEF Members
    <3> QED BY <3>15 DEF pth, Between
  <2> QED BY <2>1, <2>2
<1> QED BY <1>7, <1>8

-----------------------------------------------------------------------------
(* What the steps of ListsOfNodes say of each list.                           *)

\* What the abstract specification is told of two states.
Only(S) == \A m \in Lists \ S : ContentSeen(m)' = ContentSeen(m)

LEMMA OrdersIs ==
  ASSUME NEW t \in Seq(Nodes), Injective(t)
  PROVE  /\ t \in AsSequences!Orders(Members(t))
         /\ \A S : t # <<>> /\ Members(t) \subseteq S => t \in AsSequences!Arrangements(S)
<1>1. Cardinality(Members(t)) = Len(t)
  BY InjectiveShort
<1>2. t \in [1..Len(t) -> Members(t)]
  BY DEF Members
<1>3. AsSequences!Members(t) = Members(t)
  BY DEF Members, AsSequences!Members
<1>4. t \in AsSequences!Orders(Members(t))
  <2> DEFINE M == Members(t)
  <2>1. t \in [1..AsSequences!Cardinality(M) -> M] /\ AsSequences!Members(t) = M
    <3>1. AsSequences!Cardinality(M) = Cardinality(M)
      BY DEF AsSequences!Cardinality, Cardinality
    <3> QED BY <1>1, <1>2, <1>3, <3>1
  <2> HIDE DEF M
  <2>2. t \in AsSequences!Orders(M)
    BY <2>1, Zenon DEF AsSequences!Orders
  <2> QED BY <2>2 DEF M
<1>5. ASSUME NEW S, t # <<>>, Members(t) \subseteq S PROVE t \in AsSequences!Arrangements(S)
  <2>1. Members(t) # {}
    <3>1. 1 \in DOMAIN t
      BY <1>5
    <3> QED BY <3>1 DEF Members
  <2>2. Members(t) \in (SUBSET S) \ {{}}
    BY <1>5, <2>1
  <2> QED BY <1>4, <2>2 DEF AsSequences!Arrangements
<1> QED BY <1>4, <1>5

LEMMA SeenChanges ==
  ASSUME NEW l \in Lists, NEW r, ContentSeen(l)' = r, Only({l})
  PROVE  [m \in Lists |-> ContentSeen(m)]' = [[m \in Lists |-> ContentSeen(m)] EXCEPT ![l] = r]
BY DEF Only

LEMMA SeenInserts ==
  ASSUME NEW l \in Lists, NEW s, ContentSeen(l) = s, NEW i \in 0..Len(s), NEW t \in Seq(Nodes),
         Injective(t), t # <<>>, \A m \in Lists : Members(ContentSeen(m)) \cap Members(t) = {},
         ContentSeen(l)' = Spliced(s, i, t), Only({l})
  PROVE  AsSequences!Next
<1>1. AsSequences!Spliced(s, i, t) = Spliced(s, i, t)
  BY DEF AsSequences!Spliced, AsSequences!Part, Spliced
<1>2. AsSequences!Insert(l, i, t)
  BY <1>1, SeenChanges DEF AsSequences!Insert
<1>3. Members(t) \subseteq Nodes \ AsSequences!Listed
  BY DEF AsSequences!Listed, AsSequences!Members, Members
<1>4. t \in AsSequences!Arrangements(Nodes \ AsSequences!Listed)
  BY <1>3, OrdersIs
<1> QED BY <1>2, <1>4 DEF AsSequences!Next

LEMMA SeenAssigns ==
  ASSUME NEW l \in Lists, NEW t \in Seq(Nodes),
         Injective(t), t # <<>>, \A m \in Lists : Members(ContentSeen(m)) \cap Members(t) = {},
         ContentSeen(l)' = t, Only({l})
  PROVE  AsSequences!Next
<1>2. AsSequences!Assign(l, t)
  BY SeenChanges DEF AsSequences!Assign
<1>3. Members(t) \subseteq Nodes \ AsSequences!Listed
  BY DEF AsSequences!Listed, AsSequences!Members, Members
<1>4. t \in AsSequences!Arrangements(Nodes \ AsSequences!Listed)
  BY <1>3, OrdersIs
<1> QED BY <1>2, <1>4 DEF AsSequences!Next

LEMMA SeenErases ==
  ASSUME NEW l \in Lists, NEW s, ContentSeen(l) = s, NEW i \in 0..Len(s), NEW j \in 0..Len(s), i < j,
         ContentSeen(l)' = Without(s, i, j), Only({l})
  PROVE  AsSequences!Next
<1>1. AsSequences!Without(s, i, j) = Without(s, i, j)
  BY DEF AsSequences!Without, AsSequences!Part, Without
<1>2. AsSequences!Erase(l, i, j)
  BY <1>1, SeenChanges DEF AsSequences!Erase
<1>3. <<i, j>> \in AsSequences!Parts(l)
  BY DEF AsSequences!Parts
<1> QED BY <1>2, <1>3 DEF AsSequences!Next

LEMMA SeenReorders ==
  ASSUME NEW l \in Lists, NEW s \in Seq(Nodes), NEW t \in Seq(Nodes), ContentSeen(l) = s,
         ContentSeen(l)' = t, Injective(t), Members(t) = Members(s), Only({l})
  PROVE  AsSequences!Next
<1>1. [m \in Lists |-> ContentSeen(m)]' = [[m \in Lists |-> ContentSeen(m)] EXCEPT ![l] = t]
  BY SeenChanges
<1>2. AsSequences!Members(s) = Members(t)
  BY DEF AsSequences!Members, Members
<1>3. t \in AsSequences!Orders(AsSequences!Members(s))
  BY <1>2, OrdersIs
<1>4. AsSequences!Reorder(l)
  BY <1>1, <1>3 DEF AsSequences!Reorder
<1> QED BY <1>4 DEF AsSequences!Next

LEMMA SeenSplices ==
  ASSUME NEW l \in Lists, NEW x \in Lists, l # x, NEW s, ContentSeen(l) = s, NEW t, ContentSeen(x) = t,
         NEW k \in 0..Len(s), NEW i \in 0..Len(t), NEW j \in 0..Len(t), i < j,
         ContentSeen(l)' = Spliced(s, k, SubSeq(t, i + 1, j)), ContentSeen(x)' = Without(t, i, j),
         Only({l, x})
  PROVE  AsSequences!Next
<1>1. AsSequences!Spliced(s, k, AsSequences!Part(t, i + 1, j)) = Spliced(s, k, SubSeq(t, i + 1, j))
  BY DEF AsSequences!Spliced, AsSequences!Part, Spliced
<1>2. AsSequences!Without(t, i, j) = Without(t, i, j)
  BY DEF AsSequences!Without, AsSequences!Part, Without
<1>3. [m \in Lists |-> ContentSeen(m)]'
        = [[m \in Lists |-> ContentSeen(m)] EXCEPT ![l] = Spliced(s, k, SubSeq(t, i + 1, j)),
                                                   ![x] = Without(t, i, j)]
  BY DEF Only
<1>4. AsSequences!Splice(l, k, x, i, j)
  BY <1>1, <1>2, <1>3 DEF AsSequences!Splice
<1>5. <<i, j>> \in AsSequences!Parts(x)
  BY DEF AsSequences!Parts
<1> QED BY <1>4, <1>5 DEF AsSequences!Next

LEMMA SeenMoves ==
  ASSUME NEW l \in Lists, NEW x \in Lists, l # x, ContentSeen(l)' = ContentSeen(x),
         ContentSeen(x)' = <<>>, Only({l, x})
  PROVE  AsSequences!Next
<1>1. AsSequences!MoveAssign(l, x)
  BY DEF Only, AsSequences!MoveAssign
<1> QED BY <1>1 DEF AsSequences!Next

LEMMA SeenSwaps ==
  ASSUME NEW l \in Lists, NEW x \in Lists, l # x, ContentSeen(l)' = ContentSeen(x),
         ContentSeen(x)' = ContentSeen(l), Only({l, x})
  PROVE  AsSequences!Next
<1>1. AsSequences!Swap(l, x)
  BY DEF Only, AsSequences!Swap
<1> QED BY <1>1 DEF AsSequences!Next

LEMMA SeenStays ==
  ASSUME Only({})
  PROVE  UNCHANGED [m \in Lists |-> ContentSeen(m)]
BY DEF Only

\* What a step that sorts nothing lets a program see.
LEMMA OnlyThese ==
  ASSUME IInv, ~Running("sort"), ~(Running("sort")'), next' \in Pointers, NEW S,
         \A m \in Lists \ S : \A c \in CellsIn(parent, m) : next'[c] = next[c]
  PROVE  /\ Only(S)
         /\ \A m \in Lists : /\ ContentSeen(m) = Content(m) /\ ContentSeen(m)' = Content(m)'
                             /\ Ring(next, prev, CellsIn(parent, m))
<1>1. TypeOK /\ Rooted /\ AllRings
  BY AtRest DEF IInv
<1>2. \A m \in Lists : Ring(next, prev, CellsIn(parent, m))
  BY <1>1 DEF AllRings
<1>3. \A m \in Lists : ~Sorting(m) /\ ~(Sorting(m)')
  BY DEF Sorting
<1>4. \A m \in Lists : ContentSeen(m) = Content(m) /\ ContentSeen(m)' = Content(m)'
  BY <1>3 DEF ContentSeen
<1>5. ASSUME NEW m \in Lists \ S PROVE Content(m)' = Content(m)
  BY <1>1, <1>2, ContentKept
<1> QED BY <1>2, <1>4, <1>5 DEF Only

\* A place has one number.
LEMMA PlacesDiffer ==
  ASSUME NEW l \in Lists, NEW s \in Seq(Nodes), Injective(s),
         NEW i \in 0..Len(s), NEW m \in 0..Len(s), i # m
  PROVE  Place(l, s, i) # Place(l, s, m)
<1>1. \A j \in 1..Len(s) : s[j] # l
  BY Basics
<1> QED BY <1>1 DEF Place, Injective

\* Where the cells of a list are.
LEMMA PlacesIn ==
  ASSUME TypeOK, Rooted, NEW l \in Lists, Ring(next, prev, CellsIn(parent, l)),
         NEW s, s = Content(l), NEW i \in Nat
  PROVE  Place(l, s, i) \in CellsIn(parent, l)
<1>1. s \in Seq(Nodes) /\ Members(s) = CellsIn(parent, l) \ {l} /\ l \in CellsIn(parent, l)
  BY CellFacts, RoundOn
<1> QED BY <1>1 DEF Place, Members

\* The step puts the nodes of t behind the i-th place of the list l.
LinksIn(l, s, i, t) ==
  /\ \A c \in CellsIn(parent, l) : next'[c] = IF c = Place(l, s, i) THEN t[1] ELSE next[c]
  /\ \A m \in 1..(Len(t) - 1) : next'[t[m]] = t[m + 1]
  /\ next'[t[Len(t)]] = Place(l, s, i + 1)

LEMMA LinkSeen ==
  ASSUME TypeOK, Rooted, NEW l \in Lists, Ring(next, prev, CellsIn(parent, l)), next' \in Pointers,
         NEW s, s = Content(l), NEW i \in 0..Len(s),
         NEW t \in Seq(Nodes), Injective(t), t # <<>>, CellsIn(parent, l) \cap Members(t) = {},
         LinksIn(l, s, i, t)
  PROVE  Content(l)' = Spliced(s, i, t)
<1>1. Yields(next, l, s) /\ s \in Seq(Nodes) /\ Injective(s) /\ Members(s) \cap Members(t) = {}
  BY ContentYields, RoundOn, CellFacts
<1>2. \A m \in 0..Len(s) : Place(l, s, m) \in CellsIn(parent, l)
  BY PlacesIn
<1>3. next'[Place(l, s, i)] = t[1]
  BY <1>2 DEF LinksIn
<1>4. \A m \in 0..Len(s) : m # i => next'[Place(l, s, m)] = next[Place(l, s, m)]
  BY <1>1, <1>2, PlacesDiffer DEF LinksIn
<1> HIDE DEF Spliced
<1>5. Yields(next', l, Spliced(s, i, t))
  <2> DEFINE g == next'
  <2>1. LinkedIn(next, l, s, i, t, g)
    BY <1>3, <1>4 DEF LinkedIn, LinksIn
  <2> HIDE DEF g
  <2>2. Yields(g, l, Spliced(s, i, t))
    BY <1>1, <2>1, YieldsSpliced
  <2> QED BY <2>2 DEF g
<1> QED BY <1>5, YieldsPath DEF Content

\* Nodes are taken out.
LEMMA CutSeen ==
  ASSUME TypeOK, Rooted, NEW l \in Lists, Ring(next, prev, CellsIn(parent, l)), next' \in Pointers,
         NEW s, s = Content(l), NEW i \in 0..Len(s), NEW j \in 0..Len(s), i < j,
         \A c \in CellsIn(parent, l) \ Between(Place(l, s, i + 1), Place(l, s, j + 1)) :
           next'[c] = IF c = Place(l, s, i) THEN Place(l, s, j + 1) ELSE next[c]
  PROVE  Content(l)' = Without(s, i, j)
<1> DEFINE R == Between(Place(l, s, i + 1), Place(l, s, j + 1))
<1>1. Yields(next, l, s) /\ s \in Seq(Nodes) /\ Injective(s) /\ Len(s) \in Nat
  BY ContentYields, RoundOn
<1>2. \A m \in 0..Len(s) : Place(l, s, m) \in CellsIn(parent, l)
  BY PlacesIn
<1>3. R = Members(SubSeq(s, i + 1, j))
  <2>1. Path(next, Place(l, s, i + 1), Place(l, s, j + 1)) = SubSeq(s, i + 1, j)
    <3>1. i <= j
      BY <1>1
    <3> QED BY <3>1, BetweenIs, Zenon
  <2> QED BY <2>1 DEF Between
<1>4. ASSUME NEW c \in R PROVE \E m \in (i + 1)..j : c = s[m]
  <2>1. PICK n \in DOMAIN SubSeq(s, i + 1, j) : c = SubSeq(s, i + 1, j)[n]
    BY <1>3 DEF Members
  <2>2. n \in 1..(j - i) /\ SubSeq(s, i + 1, j)[n] = s[i + n] /\ i + n \in (i + 1)..j
    BY <1>1, <2>1
  <2> QED BY <2>1, <2>2
<1> HIDE DEF R
<1>5. ASSUME NEW m \in 0..Len(s), m <= i \/ j < m PROVE Place(l, s, m) \notin R
  <2> SUFFICES ASSUME NEW n \in (i + 1)..j, Place(l, s, m) = s[n] PROVE FALSE
    BY <1>4
  <2>1. n \in 0..Len(s) /\ Place(l, s, n) = s[n] /\ n # m
    BY <1>1, <1>5 DEF Place
  <2> QED BY <1>1, <2>1, PlacesDiffer
<1>6. next'[Place(l, s, i)] = Place(l, s, j + 1)
  BY <1>2, <1>5 DEF R
<1>7. ASSUME NEW m \in 0..Len(s), m < i \/ j < m PROVE next'[Place(l, s, m)] = next[Place(l, s, m)]
  <2>1. m <= i \/ j < m
    BY <1>7
  <2>2. Place(l, s, m) # Place(l, s, i)
    BY <1>1, <1>7, PlacesDiffer
  <2> QED BY <1>2, <1>5, <2>1, <2>2 DEF R
<1> HIDE DEF Without
<1>8. j \in i..Len(s)
  BY <1>1
<1>9. Yields(next', l, Without(s, i, j))
  BY <1>1, <1>6, <1>7, <1>8, YieldsWithout
<1> QED BY <1>9, YieldsPath DEF Content

\* A segment of a list, in numbers.
LEMMA SegmentPlaces ==
  ASSUME TypeOK, Rooted, NEW l \in Lists, Ring(next, prev, CellsIn(parent, l)), NEW s, s = Content(l),
         NEW b \in CellsIn(parent, l), NEW e \in CellsIn(parent, l), b # e, l \notin Between(b, e)
  PROVE  \E i \in 0..Len(s), j \in 0..Len(s) :
           i < j /\ b = Place(l, s, i + 1) /\ e = Place(l, s, j + 1) /\ prev[b] = Place(l, s, i)
           /\ prev[e] = Place(l, s, j)
<1>1. PICK i \in 0..Len(s) : b = Place(l, s, i + 1)
  BY ContentYields
<1>2. PICK j \in 0..Len(s) : e = Place(l, s, j + 1)
  BY ContentYields
<1>3. prev[b] = Place(l, s, i) /\ prev[e] = Place(l, s, j)
  BY <1>1, <1>2, ContentYields
<1>4. Len(s) \in Nat
  BY RoundOn
<1>5. ~(j < i)
  BY <1>1, <1>2, BetweenIs
<1>6. i < j
  BY <1>1, <1>2, <1>4, <1>5
<1> QED BY <1>1, <1>2, <1>3, <1>6

\* A step of the pointers is a step of the sequences, or none that is seen.
SeenStep == AsSequences!Next \/ UNCHANGED [m \in Lists |-> ContentSeen(m)]

\* What an operation starts from, and leaves.
LEMMA Resting ==
  ASSUME IInv, loop = Null, NEW l \in Lists
  PROVE  /\ TypeOK /\ Rooted /\ AllRings /\ ~Running("sort")
         /\ Ring(next, prev, CellsIn(parent, l)) /\ ContentSeen(l) = Content(l)
         /\ Content(l) \in Seq(Nodes) /\ Injective(Content(l)) /\ Members(Content(l)) = NodesOf(l)
         /\ next \in Pointers /\ prev \in Pointers /\ Links = LinksOf(next, prev)
         /\ l \in CellsIn(parent, l) /\ CellsIn(parent, l) \subseteq Cells
         /\ NodesOf(l) = CellsIn(parent, l) \ {l}
         /\ \A m \in Lists : m # l => CellsIn(parent, l) \cap CellsIn(parent, m) = {}
<1>1. TypeOK /\ Rooted /\ AllRings /\ ~Running("sort")
  BY Idle DEF Running
<1>2. Ring(next, prev, CellsIn(parent, l)) /\ ContentSeen(l) = Content(l)
  BY <1>1 DEF AllRings, ContentSeen, Sorting
<1>3. Content(l) \in Seq(Nodes) /\ Injective(Content(l)) /\ Members(Content(l)) = NodesOf(l)
  BY <1>1, <1>2, RoundOn
<1> QED BY <1>1, <1>2, <1>3, CellFacts

LEMMA ArrangementHasNodes ==
  ASSUME NEW S, S \subseteq Nodes, NEW s \in Arrangements(S)
  PROVE  s \in Seq(Nodes) /\ s # <<>>
<1>1. PICK n \in 1..Cardinality(S) : s \in [1..n -> S]
  BY DEF Arrangements
<1> QED BY <1>1

LEMMA InsertSeen ==
  ASSUME IInv, NEW l \in Lists, NEW p \in Cells, NEW t \in Seq(Nodes), t # <<>>, Insert(l, p, t)
  PROVE  SeenStep
<1> DEFINE s == Content(l)
           A == CellsIn(parent, l)
           k == Thread(Links, <<prev[p]>> \o t \o <<p>>)
<1>1. /\ loop = Null /\ loop' = Null /\ next' = k.next /\ p \in A /\ Unlinked(t)
  BY DEF Insert, Become, In, CellsIn
<1>2. /\ TypeOK /\ Rooted /\ AllRings /\ ~Running("sort") /\ Ring(next, prev, A) /\ ContentSeen(l) = s
      /\ next \in Pointers /\ prev \in Pointers /\ Links = LinksOf(next, prev) /\ A \subseteq Cells
  BY <1>1, Resting
<1>3. Injective(t) /\ \A n \in Members(t) : n \in Nodes /\ parent[n] = Null
  BY <1>1, UnlinkedIs
<1>4. \A m \in Lists : CellsIn(parent, m) \cap Members(t) = {}
  BY <1>3, Basics DEF CellsIn
<1>5. PICK i \in 0..Len(s) : p = Place(l, s, i + 1)
  BY <1>1, <1>2, ContentYields
<1>6. prev[p] = Place(l, s, i) /\ prev[p] \in A
  BY <1>1, <1>2, <1>5, ContentYields DEF Ring
<1>7. Threaded(next, prev, t, prev[p], p, k)
  BY <1>1, <1>2, <1>3, <1>4, <1>6, ThreadThreads
<1> HIDE DEF k, s, A
<1>8. /\ next' \in Pointers
      /\ \A c \in Cells \ Members(t) : next'[c] = IF c = prev[p] THEN t[1] ELSE next[c]
      /\ \A m \in 1..Len(t) : next'[t[m]] = IF m = Len(t) THEN p ELSE t[m + 1]
  BY <1>1, <1>7 DEF Threaded
<1>9. \A m \in Lists : CellsIn(parent, m) \subseteq Cells \ Members(t)
  BY <1>4 DEF CellsIn
<1>10. Content(l)' = Spliced(s, i, t)
  <2>1. \A c \in A : next'[c] = IF c = Place(l, s, i) THEN t[1] ELSE next[c]
    BY <1>6, <1>8, <1>9 DEF A
  <2>2. \A m \in 1..(Len(t) - 1) : next'[t[m]] = t[m + 1]
    BY <1>8
  <2>3. next'[t[Len(t)]] = Place(l, s, i + 1)
    <3>1. Len(t) \in 1..Len(t)
      OBVIOUS
    <3> QED BY <1>5, <1>8, <3>1
  <2>4. LinksIn(l, s, i, t)
    BY <2>1, <2>2, <2>3 DEF LinksIn, A
  <2> QED BY <1>2, <1>3, <1>4, <1>8, <2>4, LinkSeen DEF s, A
<1>11. /\ Only({l})
       /\ \A m \in Lists : /\ ContentSeen(m) = Content(m) /\ ContentSeen(m)' = Content(m)'
                           /\ Ring(next, prev, CellsIn(parent, m))
  <2>1. ~(Running("sort")')
    BY <1>1 DEF Running
  <2>2. \A m \in Lists \ {l} : \A c \in CellsIn(parent, m) : next'[c] = next[c]
    BY <1>6, <1>8, <1>9 DEF A, CellsIn
  <2> QED BY <1>2, <1>8, <2>1, <2>2, OnlyThese
<1>12. \A m \in Lists : Members(ContentSeen(m)) \cap Members(t) = {}
  BY <1>1, <1>4, Resting
<1> QED BY <1>2, <1>3, <1>10, <1>11, <1>12, SeenInserts DEF SeenStep

\* Some nodes of one list leave it.
LEMMA DepartShows ==
  ASSUME IInv, ~Running("sort"), ~(Running("sort")'), NEW l \in Lists,
         NEW b \in CellsIn(parent, l), NEW e \in CellsIn(parent, l), b # e, l \notin Between(b, e),
         next' = Forget(Cut(Links, b, e), Between(b, e)).next
  PROVE  /\ \E i \in 0..Len(Content(l)), j \in 0..Len(Content(l)) :
              /\ i < j /\ b = Place(l, Content(l), i + 1) /\ e = Place(l, Content(l), j + 1)
              /\ Content(l)' = Without(Content(l), i, j)
         /\ Only({l})
         /\ \A m \in Lists : ContentSeen(m) = Content(m) /\ ContentSeen(m)' = Content(m)'
<1> DEFINE s == Content(l)
           A == CellsIn(parent, l)
           R == Between(b, e)
<1>1. TypeOK /\ Rooted /\ Ring(next, prev, A)
  BY AtRest DEF IInv, AllRings
<1>2. next \in Pointers /\ prev \in Pointers /\ Links = LinksOf(next, prev) /\ A \subseteq Cells
  BY <1>1, CellFacts
<1>3. prev[b] \in A /\ R \subseteq A
  BY <1>1, BetweenOn DEF Ring, Segment
<1>4. next' = [c \in Cells |-> IF c \in R THEN Null ELSE [next EXCEPT ![prev[b]] = e][c]]
  BY <1>2 DEF Forget, Cut, Join, LinksOf
<1>5. next' \in Pointers /\ \A c \in Cells \ R : next'[c] = IF c = prev[b] THEN e ELSE next[c]
  BY <1>2, <1>3, <1>4 DEF Pointers
<1>6. PICK i \in 0..Len(s), j \in 0..Len(s) :
           i < j /\ b = Place(l, s, i + 1) /\ e = Place(l, s, j + 1) /\ prev[b] = Place(l, s, i)
  BY <1>1, SegmentPlaces
<1> HIDE DEF s, R
<1>7. Content(l)' = Without(s, i, j)
  <2>1. \A c \in A \ R : next'[c] = IF c = Place(l, s, i) THEN Place(l, s, j + 1) ELSE next[c]
    BY <1>2, <1>5, <1>6
  <2> QED BY <1>1, <1>5, <1>6, <2>1, CutSeen DEF s, R
<1>8. /\ Only({l})
      /\ \A m \in Lists : ContentSeen(m) = Content(m) /\ ContentSeen(m)' = Content(m)'
  <2>1. \A m \in Lists \ {l} : \A c \in CellsIn(parent, m) : next'[c] = next[c]
    BY <1>3, <1>5 DEF CellsIn
  <2> QED BY <1>5, <2>1, OnlyThese
<1> QED BY <1>6, <1>7, <1>8 DEF s

LEMMA DepartSeen ==
  ASSUME IInv, ~Running("sort"), ~(Running("sort")'), NEW l \in Lists,
         NEW b \in CellsIn(parent, l), NEW e \in CellsIn(parent, l), b # e, l \notin Between(b, e),
         next' = Forget(Cut(Links, b, e), Between(b, e)).next
  PROVE  SeenStep
<1>1. /\ Only({l})
      /\ \A m \in Lists : ContentSeen(m) = Content(m) /\ ContentSeen(m)' = Content(m)'
  BY DepartShows
<1>2. PICK i \in 0..Len(Content(l)), j \in 0..Len(Content(l)) :
        i < j /\ Content(l)' = Without(Content(l), i, j)
  BY DepartShows
<1>3. ContentSeen(l) = Content(l) /\ ContentSeen(l)' = Without(Content(l), i, j)
  BY <1>1, <1>2
<1>4. AsSequences!Next
  BY <1>1, <1>2, <1>3, SeenErases
<1> QED BY <1>4 DEF SeenStep

\* Nothing changes but pointers that nobody follows, or none.
LEMMA SameSeen ==
  ASSUME IInv, ~Running("sort"), ~(Running("sort")'), next' = next
  PROVE  SeenStep
<1>1. next' \in Pointers /\ \A m \in Lists \ {} : \A c \in CellsIn(parent, m) : next'[c] = next[c]
  BY DEF IInv, TypeOK, Pointers
<1>2. Only({})
  BY <1>1, OnlyThese
<1> QED BY <1>2, SeenStays DEF SeenStep

\* From a node to the next one there is that node.
LEMMA OneBetween ==
  ASSUME TypeOK, Rooted, NEW l \in Lists, Ring(next, prev, CellsIn(parent, l)), NEW n \in CellsIn(parent, l),
         next[n] # n
  PROVE  Between(n, next[n]) = {n} /\ Path(next, n, next[n]) = <<n>>
<1>1. next \in Pointers /\ n \in Cells /\ next[n] \in Cells /\ Null \notin Cells
  BY CellFacts, Basics DEF Ring
<1>2. Steps(next, n, next[n], <<n>>) /\ Ended(next, next[n], <<n>>)
  BY <1>1 DEF Steps, Ended
<1>3. Len(<<n>>) <= N + 1
  BY NIsNat
<1>4. Path(next, n, next[n]) = <<n>>
  BY <1>1, <1>2, <1>3, PathIs DEF Pointers
<1> QED BY <1>4 DEF Between, Members

LEMMA EraseSeen ==
  ASSUME IInv, NEW l \in Lists, NEW b \in Cells, NEW e \in Cells, Erase(l, b, e)
  PROVE  SeenStep
<1>1. /\ loop = Null /\ loop' = Null /\ b \in CellsIn(parent, l) /\ e \in CellsIn(parent, l)
      /\ l \notin Between(b, e) /\ next' = Forget(Cut(Links, b, e), Between(b, e)).next
  BY DEF Erase, Become, In, CellsIn
<1>2. ~Running("sort") /\ ~(Running("sort")')
  BY <1>1 DEF Running
<1>3. CASE b # e
  BY <1>1, <1>2, <1>3, DepartSeen
<1>4. CASE b = e
  <2> DEFINE R == Between(b, e)
             A == CellsIn(parent, l)
  <2>1. TypeOK /\ Rooted /\ Ring(next, prev, A) /\ next \in Pointers /\ A \subseteq Cells
    BY <1>1, Resting
  <2>2. R = {} /\ prev[b] \in A /\ next[prev[b]] = b
    BY <1>1, <1>4, <2>1, BetweenOn DEF Ring
  <2>3. next' = [c \in Cells |-> IF c \in R THEN Null ELSE [next EXCEPT ![prev[b]] = b][c]]
    BY <1>1, <1>4 DEF Forget, Cut, Join, Links
  <2> HIDE DEF R, A
  <2>4. next' = next
    BY <2>1, <2>2, <2>3 DEF Pointers
  <2> QED BY <1>2, <2>4, SameSeen
<1> QED BY <1>3, <1>4

LEMMA UnhookSeen ==
  ASSUME IInv, NEW n \in Nodes, Unhook(n)
  PROVE  SeenStep
<1> DEFINE l == parent[n]
           A == CellsIn(parent, l)
<1>1. /\ loop = Null /\ loop' = Null /\ l # Null
      /\ next' = Forget(Join(Links, prev[n], next[n]), {n}).next
  BY DEF Unhook, Become
<1>2. ~Running("sort") /\ ~(Running("sort")')
  BY <1>1 DEF Running
<1>3. l \in Lists /\ n \in A /\ n # l
  BY <1>1, Basics DEF IInv, TypeOK, CellsIn
<1>4. TypeOK /\ Rooted /\ Ring(next, prev, A) /\ l \in A
  BY <1>1, <1>3, Resting
<1>5. next[n] # n /\ next[n] \in A
  <2> HIDE DEF A
  <2>1. next[n] # n
    BY <1>3, <1>4, NotAlone
  <2> QED BY <1>3, <1>4, <2>1 DEF Ring
<1>6. Between(n, next[n]) = {n}
  BY <1>3, <1>4, <1>5, OneBetween
<1>7. Cut(Links, n, next[n]) = Join(Links, prev[n], next[n])
  BY DEF Cut, Links
<1> HIDE DEF l, A
<1>8. n \in CellsIn(parent, l) /\ next[n] \in CellsIn(parent, l) /\ l \notin Between(n, next[n])
  BY <1>3, <1>5, <1>6 DEF A
<1> QED BY <1>1, <1>2, <1>3, <1>5, <1>6, <1>7, <1>8, DepartSeen

\* A list whose root points to itself is empty.
LEMMA NothingIn ==
  ASSUME NEW nx \in Pointers, NEW l \in Lists, nx[l] = l
  PROVE  Path(nx, nx[l], l) = <<>>
<1>1. Place(l, <<>>, 0) = l /\ Place(l, <<>>, 1) = l
  BY DEF Place
<1>2. Yields(nx, l, <<>>)
  BY <1>1 DEF Yields, Injective
<1> QED BY <1>2, YieldsPath

LEMMA EmptiedSeen ==
  ASSUME IInv, loop = Null, loop' = Null, NEW l \in Lists, next' \in Pointers, next'[l] = l,
         \A m \in Lists \ {l} : \A c \in CellsIn(parent, m) : next'[c] = next[c]
  PROVE  SeenStep
<1> DEFINE s == Content(l)
<1>1. /\ Only({l})
      /\ \A m \in Lists : ContentSeen(m) = Content(m) /\ ContentSeen(m)' = Content(m)'
  <2>1. ~Running("sort") /\ ~(Running("sort")')
    BY DEF Running
  <2> QED BY <2>1, OnlyThese
<1>2. Content(l)' = <<>>
  BY NothingIn DEF Content
<1>3. s \in Seq(Nodes)
  BY Resting
<1> HIDE DEF s
<1>4. CASE s = <<>>
  <2>1. Only({})
    BY <1>1, <1>2, <1>4 DEF Only, s
  <2> QED BY <2>1, SeenStays DEF SeenStep
<1>5. CASE s # <<>>
  <2>1. 0 \in 0..Len(s) /\ Len(s) \in 0..Len(s) /\ 0 < Len(s)
    BY <1>3, <1>5
  <2>2. Without(s, 0, Len(s)) = <<>>
    <3>1. WithoutSeq(Nodes, s, 0, Len(s), Without(s, 0, Len(s)))
      <4>1. Len(s) - 0 = Len(s) /\ Len(s) \in 0..Len(s)
        BY <1>3
      <4> QED BY <1>3, <2>1, <4>1, WithoutIs
    <3>2. Without(s, 0, Len(s)) \in Seq(Nodes) /\ Len(Without(s, 0, Len(s))) = 0
      BY <1>3, <3>1 DEF WithoutSeq
    <3> QED BY <3>2
  <2>3. AsSequences!Next
    BY <1>1, <1>2, <2>1, <2>2, SeenErases DEF s
  <2> QED BY <2>3 DEF SeenStep
<1> QED BY <1>4, <1>5

LEMMA ClearSeen ==
  ASSUME IInv, NEW l \in Lists, Clear(l)
  PROVE  SeenStep
<1> DEFINE R == Between(next[l], l)
           A == CellsIn(parent, l)
<1>1. /\ loop = Null /\ loop' = Null /\ next' = Forget(Join(Links, l, l), R).next
  BY DEF Clear, Become
<1>2. /\ TypeOK /\ Rooted /\ Ring(next, prev, A) /\ next \in Pointers /\ A \subseteq Cells /\ l \in A
      /\ Links = LinksOf(next, prev)
  BY <1>1, Resting
<1>3. R = A \ {l}
  BY <1>2, RoundOn
<1>4. next' = [c \in Cells |-> IF c \in R THEN Null ELSE [next EXCEPT ![l] = l][c]]
  BY <1>1, <1>2 DEF Forget, Join, LinksOf
<1> HIDE DEF R
<1>5. next' \in Pointers /\ next'[l] = l
  BY <1>2, <1>3, <1>4 DEF Pointers
<1>6. \A m \in Lists \ {l} : \A c \in CellsIn(parent, m) : next'[c] = next[c]
  BY <1>2, <1>3, <1>4 DEF CellsIn, Pointers
<1> QED BY <1>1, <1>5, <1>6, EmptiedSeen

LEMMA AssignSeen ==
  ASSUME IInv, NEW l \in Lists, NEW t \in Seq(Nodes), Assign(l, t)
  PROVE  SeenStep
<1> DEFINE R == Between(next[l], l)
           A == CellsIn(parent, l)
           h == Thread(Links, <<l>> \o t \o <<l>>)
<1>1. /\ loop = Null /\ loop' = Null /\ next' = Forget(h, R).next /\ Unlinked(t)
  BY DEF Assign, Become
<1>2. /\ TypeOK /\ Rooted /\ Ring(next, prev, A) /\ next \in Pointers /\ prev \in Pointers
      /\ A \subseteq Cells /\ l \in A /\ Links = LinksOf(next, prev)
  BY <1>1, Resting
<1>3. R = A \ {l}
  BY <1>2, RoundOn
<1>4. Injective(t) /\ \A n \in Members(t) : n \in Nodes /\ parent[n] = Null
  BY <1>1, UnlinkedIs
<1>5. \A m \in Lists : CellsIn(parent, m) \cap Members(t) = {} /\ CellsIn(parent, m) \subseteq Cells
  BY <1>4, Basics DEF CellsIn
<1>6. Threaded(next, prev, t, l, l, h)
  BY <1>2, <1>4, <1>5, ThreadThreads
<1>7. next' = [c \in Cells |-> IF c \in R THEN Null ELSE h.next[c]]
  BY <1>1 DEF Forget
<1> HIDE DEF h, R
<1>8. /\ next' \in Pointers
      /\ next'[l] = IF t = <<>> THEN l ELSE t[1]
      /\ \A c \in Cells \ (Members(t) \cup A) : next'[c] = next[c]
      /\ \A m \in 1..Len(t) : next'[t[m]] = IF m = Len(t) THEN l ELSE t[m + 1]
  <2>1. /\ h.next \in Pointers
        /\ \A c \in Cells \ Members(t) : h.next[c] = IF c = l THEN (IF t = <<>> THEN l ELSE t[1]) ELSE next[c]
        /\ \A m \in 1..Len(t) : h.next[t[m]] = IF m = Len(t) THEN l ELSE t[m + 1]
    BY <1>6 DEF Threaded
  <2>2. \A m \in 1..Len(t) : t[m] \in Members(t) /\ t[m] \in Cells
    BY Basics DEF Members
  <2>3. next' \in Pointers
    BY <1>7, <2>1 DEF Pointers
  <2>4. \A c \in Cells \ R : next'[c] = h.next[c]
    BY <1>7
  <2>5. \A m \in 1..Len(t) : next'[t[m]] = h.next[t[m]]
    BY <1>3, <1>5, <2>2, <2>4
  <2>6. l \in Cells \ Members(t) /\ l \notin R
    BY <1>2, <1>3, <1>5
  <2> QED BY <1>2, <1>3, <2>1, <2>3, <2>4, <2>5, <2>6
<1>9. \A m \in Lists \ {l} : \A c \in CellsIn(parent, m) : next'[c] = next[c]
  BY <1>5, <1>8 DEF CellsIn
<1>10. CASE t = <<>>
  BY <1>1, <1>8, <1>9, <1>10, EmptiedSeen
<1>11. CASE t # <<>>
  <2>1. Yields(next', l, t)
    <3> SUFFICES ASSUME NEW i \in 0..Len(t) PROVE next'[Place(l, t, i)] = Place(l, t, i + 1)
      BY <1>4 DEF Yields
    <3>1. CASE i = 0
      <4>1. 1 \in 1..Len(t)
        BY <1>11
      <4> QED BY <1>8, <1>11, <3>1, <4>1 DEF Place
    <3>2. CASE i \in 1..Len(t)
      BY <1>8, <3>2 DEF Place
    <3> QED BY <3>1, <3>2
  <2>2. Content(l)' = t
    BY <1>8, <2>1, YieldsPath DEF Content
  <2>3. /\ Only({l})
        /\ \A m \in Lists : ContentSeen(m) = Content(m) /\ ContentSeen(m)' = Content(m)'
    <3>1. ~Running("sort") /\ ~(Running("sort")')
      BY <1>1 DEF Running
    <3> QED BY <1>8, <1>9, <3>1, OnlyThese
  <2>4. \A m \in Lists : Members(ContentSeen(m)) \cap Members(t) = {}
    BY <1>1, <1>5, Resting
  <2>5. AsSequences!Next
    BY <1>4, <1>11, <2>2, <2>3, <2>4, SeenAssigns
  <2> QED BY <2>5 DEF SeenStep
<1> QED BY <1>10, <1>11

Traded(c, a, b) == IF c = a THEN b ELSE IF c = b THEN a ELSE c

\* SwapNodes(), pointer by pointer.
LEMMA SwapSets ==
  ASSUME NEW nx \in Pointers, NEW pv, NEW a \in Cells, NEW b \in Cells
  PROVE  /\ SwapNodes(LinksOf(nx, pv), a, b).next \in Pointers
         /\ \A c \in Cells : SwapNodes(LinksOf(nx, pv), a, b).next[c] = Traded(nx[Traded(c, a, b)], a, b)
<1>1. SwapNodes(LinksOf(nx, pv), a, b).next = [c \in Cells |-> Traded(nx[Traded(c, a, b)], a, b)]
  BY DEF SwapNodes, LinksOf, Traded
<1>2. \A c \in Cells : Traded(c, a, b) \in Cells
  BY DEF Traded
<1>3. \A c \in Cells \cup {Null} : Traded(c, a, b) \in Cells \cup {Null}
  BY DEF Traded
<1>4. \A c \in Cells : nx[Traded(c, a, b)] \in Cells \cup {Null}
  BY <1>2 DEF Pointers
<1>5. \A c \in Cells : Traded(nx[Traded(c, a, b)], a, b) \in Cells \cup {Null}
  BY <1>3, <1>4
<1> QED BY <1>1, <1>5 DEF Pointers

\* Two lists that trade their roots yield each other's nodes.
LEMMA YieldsTraded ==
  ASSUME NEW nx \in Pointers, NEW l \in Lists, NEW x \in Lists, l # x, NEW s, Yields(nx, x, s),
         NEW nx2, NEW a, NEW b, {a, b} = {l, x},
         \A c \in Cells : nx2[c] = Traded(nx[Traded(c, a, b)], a, b)
  PROVE  Yields(nx2, l, s)
<1>1. /\ s \in Seq(Nodes) /\ Injective(s) /\ Len(s) \in Nat
      /\ \A i \in 0..Len(s) : nx[Place(x, s, i)] = Place(x, s, i + 1)
  BY DEF Yields
<1>2. (a = l /\ b = x) \/ (a = x /\ b = l)
  OBVIOUS
<1>3. \A i \in 1..Len(s) : s[i] \in Nodes /\ s[i] # l /\ s[i] # x
  BY <1>1, Basics
<1>4. \A i \in Nat : /\ Traded(Place(x, s, i), a, b) = Place(l, s, i)
                     /\ Traded(Place(l, s, i), a, b) = Place(x, s, i)
                     /\ Place(l, s, i) \in Cells
  BY <1>2, <1>3, Basics DEF Traded, Place
<1>5. ASSUME NEW i \in 0..Len(s) PROVE nx2[Place(l, s, i)] = Place(l, s, i + 1)
  <2>1. i \in Nat /\ i + 1 \in Nat
    OBVIOUS
  <2> QED BY <1>1, <1>4, <2>1
<1> QED BY <1>1, <1>5 DEF Yields

LEMMA SwapSeen ==
  ASSUME IInv, NEW l \in Lists, NEW x \in Lists, Swap(l, x)
  PROVE  SeenStep
<1>1. loop = Null /\ loop' = Null /\ next' = SwapNodes(Links, l, x).next
  BY DEF Swap, Become
<1>2. ~Running("sort") /\ ~(Running("sort")')
  BY <1>1 DEF Running
<1>3. /\ TypeOK /\ Rooted /\ AllRings /\ next \in Pointers /\ prev \in Pointers
      /\ Links = LinksOf(next, prev) /\ l \in Cells /\ x \in Cells
  BY <1>1, Resting
<1>4. next' \in Pointers /\ \A c \in Cells : next'[c] = Traded(next[Traded(c, l, x)], l, x)
  BY <1>1, <1>3, SwapSets
<1>5. CASE l = x
  <2>1. \A c : Traded(c, l, x) = c
    BY <1>5 DEF Traded
  <2>2. next' = next
    BY <1>3, <1>4, <2>1 DEF Pointers
  <2> QED BY <1>2, <2>2, SameSeen
<1>6. CASE l # x
  <2>1. \A m \in Lists : Yields(next, m, Content(m))
    BY <1>3, ContentYields DEF AllRings
  <2>2. Yields(next', l, Content(x))
    BY <1>3, <1>4, <1>6, <2>1, YieldsTraded
  <2>3. Yields(next', x, Content(l))
    <3>1. {l, x} = {x, l}
      OBVIOUS
    <3> QED BY <1>3, <1>4, <1>6, <2>1, <3>1, YieldsTraded
  <2>4. Content(l)' = Content(x) /\ Content(x)' = Content(l)
    BY <1>4, <2>2, <2>3, YieldsPath DEF Content
  <2>5. ASSUME NEW m \in Lists \ {l, x}, NEW c \in CellsIn(parent, m) PROVE next'[c] = next[c]
    <3>1. next[c] \in CellsIn(parent, m) /\ c \in Cells
      BY <1>3 DEF AllRings, Ring, CellsIn
    <3>2. c \notin {l, x} /\ next[c] \notin {l, x}
      BY <1>3, <2>5, <3>1 DEF Rooted, CellsIn
    <3> QED BY <1>4, <3>1, <3>2 DEF Traded
  <2>6. /\ Only({l, x})
        /\ \A m \in Lists : ContentSeen(m) = Content(m) /\ ContentSeen(m)' = Content(m)'
    BY <1>2, <1>4, <2>5, OnlyThese
  <2>7. AsSequences!Next
    BY <1>6, <2>4, <2>6, SeenSwaps
  <2> QED BY <2>7 DEF SeenStep
<1> QED BY <1>5, <1>6

LEMMA MoveAssignSeen ==
  ASSUME IInv, NEW l \in Lists, NEW x \in Lists, MoveAssign(l, x)
  PROVE  SeenStep
<1> DEFINE R == Between(next[l], l)
           A == CellsIn(parent, l)
           h == Forget(Join(Links, l, l), R)
<1>1. loop = Null /\ loop' = Null /\ next' = SwapNodes(h, l, x).next
  BY DEF MoveAssign, Become
<1>2. ~Running("sort") /\ ~(Running("sort")')
  BY <1>1 DEF Running
<1>3. /\ TypeOK /\ Rooted /\ AllRings /\ next \in Pointers /\ prev \in Pointers /\ Ring(next, prev, A)
      /\ Links = LinksOf(next, prev) /\ l \in A /\ A \subseteq Cells /\ x \in Cells
  BY <1>1, Resting, Basics
<1>4. R = A \ {l}
  BY <1>3, RoundOn
<1>5. /\ h.next = [c \in Cells |-> IF c \in R THEN Null ELSE [next EXCEPT ![l] = l][c]]
      /\ h = LinksOf(h.next, h.prev)
  BY <1>3 DEF Forget, Join, LinksOf
<1> HIDE DEF R, h
<1>6. /\ h.next \in Pointers /\ h.next[l] = l
      /\ \A c \in Cells \ A : h.next[c] = next[c]
  BY <1>3, <1>4, <1>5 DEF Pointers
<1>7. next' \in Pointers /\ \A c \in Cells : next'[c] = Traded(h.next[Traded(c, l, x)], l, x)
  <2>1. next' = SwapNodes(LinksOf(h.next, h.prev), l, x).next
    BY <1>1, <1>5
  <2> QED BY <1>3, <1>6, <2>1, SwapSets
<1>8. ASSUME NEW m \in Lists \ {l, x}, NEW c \in CellsIn(parent, m) PROVE next'[c] = next[c]
  <2>1. next[c] \in CellsIn(parent, m) /\ c \in Cells
    BY <1>3 DEF AllRings, Ring, CellsIn
  <2>2. c \notin {l, x} /\ next[c] \notin {l, x} /\ c \notin A
    BY <1>3, <1>8, <2>1 DEF Rooted, CellsIn
  <2> QED BY <1>6, <1>7, <2>1, <2>2 DEF Traded
<1>9. CASE l = x
  <2>1. next'[l] = l
    BY <1>3, <1>6, <1>7, <1>9 DEF Traded
  <2>2. \A m \in Lists \ {l} : \A c \in CellsIn(parent, m) : next'[c] = next[c]
    BY <1>8, <1>9
  <2> QED BY <1>1, <1>7, <2>1, <2>2, EmptiedSeen
<1>10. CASE l # x
  <2>1. Yields(h.next, x, Content(x))
    <3>1. /\ Yields(next, x, Content(x)) /\ Ring(next, prev, CellsIn(parent, x))
      BY <1>3, ContentYields DEF AllRings
    <3>2. \A i \in 0..Len(Content(x)) : Place(x, Content(x), i) \in CellsIn(parent, x)
      BY <1>3, <3>1, PlacesIn
    <3>3. CellsIn(parent, x) \subseteq Cells \ A
      BY <1>10 DEF CellsIn
    <3> QED BY <1>6, <3>1, <3>2, <3>3 DEF Yields
  <2>2. Yields(next', l, Content(x))
    <3> DEFINE f == h.next
    <3>1. /\ f \in Pointers /\ Yields(f, x, Content(x)) /\ {l, x} = {l, x}
          /\ \A c \in Cells : next'[c] = Traded(f[Traded(c, l, x)], l, x)
      BY <1>6, <1>7, <2>1
    <3> HIDE DEF f
    <3> QED BY <1>10, <3>1, YieldsTraded
  <2>3. next'[x] = x
    BY <1>3, <1>6, <1>7, <1>10 DEF Traded
  <2>4. Content(l)' = Content(x) /\ Content(x)' = <<>>
    BY <1>7, <2>2, <2>3, YieldsPath, NothingIn DEF Content
  <2>5. /\ Only({l, x})
        /\ \A m \in Lists : ContentSeen(m) = Content(m) /\ ContentSeen(m)' = Content(m)'
    BY <1>2, <1>7, <1>8, OnlyThese
  <2>6. AsSequences!Next
    BY <1>10, <2>4, <2>5, SeenMoves
  <2> QED BY <2>6 DEF SeenStep
<1> QED BY <1>9, <1>10

LEMMA PartIs ==
  ASSUME NEW S, NEW t \in Seq(S), NEW i \in 0..Len(t), NEW j \in 0..Len(t), i < j
  PROVE  /\ SubSeq(t, i + 1, j) \in Seq(S) /\ Len(SubSeq(t, i + 1, j)) = j - i
         /\ \A m \in 1..(j - i) : SubSeq(t, i + 1, j)[m] = t[i + m]
OBVIOUS

\* Nodes go from one list to another: the links of three cells change.
LEMMA TransferLinks ==
  ASSUME IInv, ~Running("sort"), ~(Running("sort")'), NEW l \in Lists, NEW x \in Lists, l # x,
         NEW p \in CellsIn(parent, l), NEW b \in CellsIn(parent, x), NEW e \in CellsIn(parent, x),
         b # e, x \notin Between(b, e), next' = Transfer(Links, p, b, e).next
  PROVE  /\ TypeOK /\ Rooted
         /\ Ring(next, prev, CellsIn(parent, x)) /\ Ring(next, prev, CellsIn(parent, l))
         /\ next \in Pointers /\ prev \in Pointers
         /\ CellsIn(parent, x) \subseteq Cells /\ CellsIn(parent, l) \subseteq Cells
         /\ CellsIn(parent, x) \cap CellsIn(parent, l) = {}
         /\ prev[b] \in CellsIn(parent, x) \ Between(b, e) /\ prev[e] \in Between(b, e)
         /\ Between(b, e) \subseteq CellsIn(parent, x) /\ prev[p] \in CellsIn(parent, l)
         /\ next' \in Pointers
         /\ \A c \in Cells : next'[c] = (IF c = prev[p] THEN b ELSE IF c = prev[b] THEN e
                                         ELSE IF c = prev[e] THEN p ELSE next[c])
<1> DEFINE A == CellsIn(parent, x)
           B == CellsIn(parent, l)
           R == Between(b, e)
<1>1. TypeOK /\ Rooted /\ Ring(next, prev, A) /\ Ring(next, prev, B)
  BY AtRest DEF IInv, AllRings
<1>2. /\ next \in Pointers /\ prev \in Pointers /\ Links = LinksOf(next, prev)
      /\ A \subseteq Cells /\ B \subseteq Cells /\ A \cap B = {}
  BY <1>1, CellFacts
<1>3. /\ prev[b] \in A \ R /\ prev[e] \in R /\ R \subseteq A
      /\ prev[p] \in B
  BY <1>1, BetweenOn DEF Ring, Segment
<1>4. /\ next' \in Pointers
      /\ \A c \in Cells : next'[c] = (IF c = prev[p] THEN b ELSE IF c = prev[b] THEN e
                                      ELSE IF c = prev[e] THEN p ELSE next[c])
  <2>1. Transferred(next, prev, p, b, e, Transfer(LinksOf(next, prev), p, b, e))
    <3>1. p \in Cells /\ b \in Cells /\ e \in Cells /\ prev[p] \in Cells /\ prev[b] \in Cells /\ prev[e] \in Cells
      BY <1>2, <1>3
    <3> QED BY <1>2, <3>1, TransferSets
  <2> QED BY <1>2, <2>1 DEF Transferred
<1> QED BY <1>1, <1>2, <1>3, <1>4

\* What the two lists show.
LEMMA TransferChanges ==
  ASSUME IInv, ~Running("sort"), ~(Running("sort")'), NEW l \in Lists, NEW x \in Lists, l # x,
         NEW p \in CellsIn(parent, l), NEW b \in CellsIn(parent, x), NEW e \in CellsIn(parent, x),
         b # e, x \notin Between(b, e), next' = Transfer(Links, p, b, e).next
  PROVE  \E i \in 0..Len(Content(x)), j \in 0..Len(Content(x)), k \in 0..Len(Content(l)) :
            /\ i < j /\ b = Place(x, Content(x), i + 1) /\ e = Place(x, Content(x), j + 1)
            /\ p = Place(l, Content(l), k + 1)
            /\ Content(x)' = Without(Content(x), i, j)
            /\ Content(l)' = Spliced(Content(l), k, SubSeq(Content(x), i + 1, j))
<1> DEFINE s == Content(l)
           t == Content(x)
           A == CellsIn(parent, x)
           B == CellsIn(parent, l)
           R == Between(b, e)
<1>1. TypeOK /\ Rooted /\ Ring(next, prev, A) /\ Ring(next, prev, B)
  BY TransferLinks
<1>2. /\ next \in Pointers /\ prev \in Pointers
      /\ A \subseteq Cells /\ B \subseteq Cells /\ A \cap B = {}
  BY TransferLinks
<1>3. prev[b] \in A \ R /\ prev[e] \in R /\ R \subseteq A /\ prev[p] \in B
  BY TransferLinks
<1>4. /\ next' \in Pointers
      /\ \A c \in Cells : next'[c] = (IF c = prev[p] THEN b ELSE IF c = prev[b] THEN e
                                      ELSE IF c = prev[e] THEN p ELSE next[c])
  BY TransferLinks
<1>5. PICK i \in 0..Len(t), j \in 0..Len(t) :
           /\ i < j /\ b = Place(x, t, i + 1) /\ e = Place(x, t, j + 1)
           /\ prev[b] = Place(x, t, i) /\ prev[e] = Place(x, t, j)
  BY <1>1, SegmentPlaces
<1>6. PICK k \in 0..Len(s) : p = Place(l, s, k + 1) /\ prev[p] = Place(l, s, k)
  <2>1. PICK k \in 0..Len(s) : p = Place(l, s, k + 1)
    BY <1>1, ContentYields
  <2>2. prev[p] = Place(l, s, k)
    BY <1>1, <2>1, ContentYields
  <2> QED BY <2>1, <2>2
<1>7. /\ t \in Seq(Nodes) /\ Injective(t) /\ Members(t) = A \ {x} /\ Len(t) \in Nat
      /\ \A m \in 0..Len(t) : next[Place(x, t, m)] = Place(x, t, m + 1)
  <2>1. Yields(next, x, t)
    BY <1>1, ContentYields
  <2>2. t \in Seq(Nodes) /\ Injective(t) /\ Members(t) = A \ {x}
    BY <1>1, RoundOn, CellFacts
  <2> HIDE DEF t, A
  <2> QED BY <2>1, <2>2 DEF Yields
<1> DEFINE u == SubSeq(t, i + 1, j)
<1>8. u \in Seq(Nodes) /\ Len(u) = j - i /\ \A m \in 1..(j - i) : u[m] = t[i + m]
  <2>1. t \in Seq(Nodes) /\ i \in 0..Len(t) /\ j \in 0..Len(t) /\ i < j
    BY <1>5, <1>7
  <2> HIDE DEF t
  <2> QED BY <2>1, PartIs
<1> HIDE DEF s, t, R, u
<1>9. i \in Nat /\ j \in Nat /\ j - i \in Nat \ {0} /\ u # <<>>
  BY <1>5, <1>7, <1>8
<1>10. ASSUME NEW m \in 1..(j - i) PROVE u[m] = Place(x, t, i + m) /\ i + m \in 0..Len(t) /\ u[m] \in A
  <2>1. i + m \in 1..Len(t) /\ i + m \in 0..Len(t)
    BY <1>7, <1>9
  <2> QED BY <1>7, <1>8, <2>1 DEF Place, Members
<1>11. Injective(u)
  <2> SUFFICES ASSUME NEW m \in 1..Len(u), NEW n \in 1..Len(u), u[m] = u[n] PROVE m = n
    BY DEF Injective
  <2>1. m \in 1..(j - i) /\ n \in 1..(j - i)
    BY <1>8
  <2>2. i + m \in 1..Len(t) /\ i + n \in 1..Len(t)
    BY <1>7, <1>9, <2>1
  <2>3. t[i + m] = t[i + n]
    BY <1>8, <2>1
  <2>4. i + m = i + n
    BY <1>7, <2>2, <2>3 DEF Injective
  <2> QED BY <1>9, <2>1, <2>4
<1>12. Content(x)' = Without(t, i, j)
  <2>1. \A c \in A \ R : next'[c] = IF c = Place(x, t, i) THEN Place(x, t, j + 1) ELSE next[c]
    BY <1>2, <1>3, <1>4, <1>5
  <2> QED BY <1>1, <1>4, <1>5, <2>1, CutSeen DEF t, R
<1>13. Content(l)' = Spliced(s, k, u)
  <2>1. B \cap Members(u) = {}
    BY <1>2, <1>8, <1>10 DEF Members
  <2>2. 1 \in 1..(j - i) /\ j - i \in 1..(j - i) /\ i + (j - i) = j
    BY <1>9
  <2>3. u[1] = b /\ u[Len(u)] = prev[e]
    BY <1>5, <1>8, <1>10, <2>2
  <2>4. \A c \in B : next'[c] = IF c = Place(l, s, k) THEN u[1] ELSE next[c]
    BY <1>2, <1>3, <1>4, <1>6, <2>3
  <2>5. ASSUME NEW m \in 1..(Len(u) - 1) PROVE next'[u[m]] = u[m + 1]
    <3>1. m \in 1..(j - i) /\ m + 1 \in 1..(j - i) /\ i + m # i /\ i + m # j /\ i + (m + 1) = (i + m) + 1
      BY <1>8, <1>9
    <3>2. /\ u[m] = Place(x, t, i + m) /\ i + m \in 0..Len(t) /\ u[m] \in A
          /\ u[m + 1] = Place(x, t, (i + m) + 1)
      BY <1>10, <3>1
    <3>3. u[m] # prev[b] /\ u[m] # prev[e]
      BY <1>5, <1>7, <3>1, <3>2, PlacesDiffer
    <3> QED BY <1>2, <1>3, <1>4, <1>7, <3>2, <3>3
  <2>6. next'[u[Len(u)]] = Place(l, s, k + 1)
    BY <1>2, <1>3, <1>4, <1>6, <2>3
  <2>7. LinksIn(l, s, k, u)
    BY <2>4, <2>5, <2>6 DEF LinksIn
  <2> QED BY <1>1, <1>4, <1>6, <1>8, <1>9, <1>11, <2>1, <2>7, LinkSeen DEF s
<1> QED BY <1>5, <1>6, <1>12, <1>13 DEF s, t, u

\* The others stay as they are.
LEMMA TransferOthers ==
  ASSUME IInv, ~Running("sort"), ~(Running("sort")'), NEW l \in Lists, NEW x \in Lists, l # x,
         NEW p \in CellsIn(parent, l), NEW b \in CellsIn(parent, x), NEW e \in CellsIn(parent, x),
         b # e, x \notin Between(b, e), next' = Transfer(Links, p, b, e).next
  PROVE  /\ Only({l, x})
         /\ \A m \in Lists : ContentSeen(m) = Content(m) /\ ContentSeen(m)' = Content(m)'
<1>1. /\ \A c \in Cells : next'[c] = (IF c = prev[p] THEN b ELSE IF c = prev[b] THEN e
                                      ELSE IF c = prev[e] THEN p ELSE next[c])
      /\ next' \in Pointers
  BY TransferLinks
<1>2. /\ prev[b] \in CellsIn(parent, x) /\ prev[e] \in CellsIn(parent, x)
      /\ prev[p] \in CellsIn(parent, l)
  BY TransferLinks
<1>3. \A m \in Lists \ {l, x} : \A c \in CellsIn(parent, m) : next'[c] = next[c]
  BY <1>1, <1>2 DEF CellsIn
<1> QED BY <1>1, <1>3, OnlyThese

LEMMA TransferSeen ==
  ASSUME IInv, ~Running("sort"), ~(Running("sort")'), NEW l \in Lists, NEW x \in Lists, l # x,
         NEW p \in CellsIn(parent, l), NEW b \in CellsIn(parent, x), NEW e \in CellsIn(parent, x),
         b # e, x \notin Between(b, e), next' = Transfer(Links, p, b, e).next
  PROVE  SeenStep
<1>1. /\ Only({l, x})
      /\ \A m \in Lists : ContentSeen(m) = Content(m) /\ ContentSeen(m)' = Content(m)'
  BY TransferOthers
<1>2. PICK i \in 0..Len(Content(x)), j \in 0..Len(Content(x)), k \in 0..Len(Content(l)) :
        /\ i < j /\ b = Place(x, Content(x), i + 1) /\ e = Place(x, Content(x), j + 1)
        /\ p = Place(l, Content(l), k + 1)
        /\ Content(x)' = Without(Content(x), i, j)
        /\ Content(l)' = Spliced(Content(l), k, SubSeq(Content(x), i + 1, j))
  BY TransferChanges
<1>3. /\ ContentSeen(l) = Content(l) /\ ContentSeen(x) = Content(x)
      /\ ContentSeen(l)' = Content(l)' /\ ContentSeen(x)' = Content(x)'
  BY <1>1
<1>4. AsSequences!Next
  BY <1>1, <1>2, <1>3, SeenSplices
<1> QED BY <1>4 DEF SeenStep

\* RoundOn(), of any state: of the next one, too.
LEMMA RoundAlways ==
  IInv => \A l \in Lists : ~Sorting(l) =>
    /\ Content(l) \in Seq(Nodes) /\ Injective(Content(l)) /\ Members(Content(l)) = NodesOf(l)
BY RoundOn DEF IInv, RingsOK

LEMMA RoundNext ==
  ASSUME IInv'
  PROVE  \A l \in Lists : ~(Sorting(l)') =>
           /\ Content(l)' \in Seq(Nodes) /\ Injective(Content(l)') /\ Members(Content(l)') = NodesOf(l)'
<1>1. (IInv => \A l \in Lists : ~Sorting(l) =>
         /\ Content(l) \in Seq(Nodes) /\ Injective(Content(l)) /\ Members(Content(l)) = NodesOf(l))'
  BY RoundAlways, PTL
<1> QED BY <1>1

\* The nodes of one list come into another order.
LEMMA RearrangedSeen ==
  ASSUME IInv, IInv', ~Running("sort"), ~(Running("sort")'), NEW l \in Lists, NodesOf(l)' = NodesOf(l),
         \A m \in Lists \ {l} : \A c \in CellsIn(parent, m) : next'[c] = next[c]
  PROVE  SeenStep
<1>1. next' \in Pointers
  BY DEF IInv, TypeOK, Pointers
<1>2. /\ Only({l})
      /\ \A m \in Lists : ContentSeen(m) = Content(m) /\ ContentSeen(m)' = Content(m)'
  BY <1>1, OnlyThese
<1>3. TypeOK /\ Rooted /\ Ring(next, prev, CellsIn(parent, l))
  BY AtRest DEF IInv, AllRings
<1>5. Content(l) \in Seq(Nodes) /\ Members(Content(l)) = NodesOf(l)
  BY <1>3, RoundOn
<1>6. Content(l)' \in Seq(Nodes) /\ Injective(Content(l)') /\ Members(Content(l)') = NodesOf(l)'
  BY RoundNext DEF Sorting
<1>7. AsSequences!Next
  BY <1>2, <1>5, <1>6, SeenReorders
<1> QED BY <1>7 DEF SeenStep

LEMMA ReverseSeen ==
  ASSUME IInv, IInv', NEW l \in Lists, Reverse(l)
  PROVE  SeenStep
<1> DEFINE S == Between(next[l], l) \cup {l}
<1>1. loop = Null /\ loop' = Null /\ parent' = parent /\ next' = Reversed(Links, S).next
  BY DEF Reverse, Become
<1>2. TypeOK /\ Rooted /\ Ring(next, prev, CellsIn(parent, l)) /\ l \in CellsIn(parent, l)
      /\ Links = LinksOf(next, prev)
  BY <1>1, Resting
<1>3. S = CellsIn(parent, l)
  BY <1>2, RoundOn
<1> HIDE DEF S
<1>4. next' = [c \in Cells |-> IF c \in S THEN prev[c] ELSE next[c]]
  BY <1>1, <1>2 DEF Reversed, LinksOf
<1>5. \A m \in Lists \ {l} : \A c \in CellsIn(parent, m) : next'[c] = next[c]
  BY <1>3, <1>4 DEF CellsIn
<1>6. ~Running("sort") /\ ~(Running("sort")') /\ NodesOf(l)' = NodesOf(l)
  BY <1>1 DEF Running, NodesOf
<1> QED BY <1>5, <1>6, RearrangedSeen

LEMMA ShiftSeen ==
  ASSUME IInv, IInv', NEW l \in Lists, NEW n \in 1..N, ShiftForward(l, n) \/ ShiftBackwards(l, n)
  PROVE  SeenStep
<1> DEFINE k == Cut(Links, l, next[l])
<1>1. PICK q : /\ q = Path(k.next, next[l], Null)[n + 1] \/ q = k.next[Path(k.prev, prev[l], Null)[n + 1]]
               /\ next' = LinkBefore(k, q, l).next
  BY DEF ShiftForward, ShiftBackwards, Become
<1>2. loop = Null /\ loop' = Null /\ parent' = parent /\ next[l] # prev[l]
  BY DEF ShiftForward, ShiftBackwards
<1>3. Relinked(next, prev, LinkBefore(k, q, l), CellsIn(parent, l), CellsIn(parent, l))
  BY <1>1, <1>2, ShiftRelinks
<1> HIDE DEF k
<1>4. \A m \in Lists \ {l} : \A c \in CellsIn(parent, m) : next'[c] = next[c]
  BY <1>1, <1>3 DEF Relinked, CellsIn
<1>5. ~Running("sort") /\ ~(Running("sort")') /\ NodesOf(l)' = NodesOf(l)
  BY <1>2 DEF Running, NodesOf
<1> QED BY <1>4, <1>5, RearrangedSeen

LEMMA SpliceSeen ==
  ASSUME IInv, IInv', NEW l \in Lists, NEW p \in Cells, NEW x \in Lists, NEW b \in Cells, NEW e \in Cells,
         Splice(l, p, x, b, e)
  PROVE  SeenStep
<1> DEFINE R == Between(b, e)
           A == CellsIn(parent, x)
<1>1. /\ loop = Null /\ loop' = Null /\ p \in CellsIn(parent, l) /\ b \in A /\ e \in A /\ b # e
      /\ x \notin R /\ p \notin R /\ p # e /\ parent' = Given(R, l)
      /\ next' = Transfer(Links, p, b, e).next
  BY DEF Splice, Become, In, CellsIn
<1>2. ~Running("sort") /\ ~(Running("sort")')
  BY <1>1 DEF Running
<1>3. CASE l # x
  BY <1>1, <1>2, <1>3, TransferSeen
<1>4. CASE l = x
  <2>1. /\ TypeOK /\ Rooted /\ Ring(next, prev, A) /\ next \in Pointers /\ prev \in Pointers
        /\ Links = LinksOf(next, prev) /\ A \subseteq Cells
    BY <1>1, Resting
  <2>2. Segment(next, prev, A, R, b, e)
    BY <1>1, <2>1, BetweenOn
  <2>3. Relinked(next, prev, Transfer(Links, p, b, e), A, A)
    <3> HIDE DEF R
    <3> QED BY <1>1, <1>4, <2>1, <2>2, TransferWithin
  <2>4. \A m \in Lists \ {l} : \A c \in CellsIn(parent, m) : next'[c] = next[c]
    BY <1>1, <1>4, <2>3 DEF Relinked, CellsIn
  <2>5. \A c \in Nodes : parent'[c] = l <=> parent[c] = l
    <3>1. \A c \in R : parent[c] = l
      BY <1>4, <2>2 DEF Segment, CellsIn
    <3> HIDE DEF R
    <3> QED BY <1>1, <3>1, Basics DEF Given
  <2>6. NodesOf(l)' = NodesOf(l)
    BY <2>5 DEF NodesOf
  <2> QED BY <1>2, <2>4, <2>6, RearrangedSeen
<1> QED BY <1>3, <1>4

LEMMA MergeTakeSeen ==
  ASSUME IInv, MergeTake
  PROVE  SeenStep
<1> DEFINE l == loop.list
           x == loop.other
           p == loop.at.p
           q == loop.at.q
<1>1. Running("merge") /\ q # x /\ next' = Transfer(Links, p, q, next[q]).next
      /\ loop' = [loop EXCEPT !.at.q = next[q]]
  BY DEF MergeTake, Become
<1>2. loop \in Loops /\ loop.op = "merge" /\ l \in Lists /\ x \in Lists
  BY <1>1, LoopIs DEF IInv
<1>3. l # x /\ p \in CellsIn(parent, l) /\ q \in CellsIn(parent, x)
  BY <1>1 DEF IInv, LoopOK
<1>4. ~Running("sort") /\ ~(Running("sort")')
  BY <1>1, <1>2 DEF Running, Loops
<1>5. TypeOK /\ Rooted /\ Ring(next, prev, CellsIn(parent, x)) /\ x \in CellsIn(parent, x)
  BY <1>2, <1>4, AtRest, CellFacts DEF IInv, AllRings
<1> HIDE DEF l, x, p, q
<1>6. next[q] # q /\ next[q] \in CellsIn(parent, x)
  <2>1. next[q] # q
    BY <1>1, <1>3, <1>5, NotAlone
  <2> QED BY <1>3, <1>5, <2>1 DEF Ring
<1>7. Between(q, next[q]) = {q}
  BY <1>2, <1>3, <1>5, <1>6, OneBetween
<1> QED BY <1>1, <1>2, <1>3, <1>4, <1>6, <1>7, TransferSeen

LEMMA FilterEraseSeen ==
  ASSUME IInv, FilterErase
  PROVE  SeenStep
<1> DEFINE l == loop.list
           q == loop.at.q
<1>1. Filtering /\ q # l /\ next' = Forget(Cut(Links, q, next[q]), {q}).next
      /\ loop' = [loop EXCEPT !.at.q = next[q]]
  BY DEF FilterErase, Become
<1>2. loop \in Loops /\ loop.op \in {"remove_if", "unique"} /\ l \in Lists
  BY <1>1, LoopIs DEF IInv, Filtering
<1>3. q \in CellsIn(parent, l)
  BY <1>1 DEF IInv, LoopOK
<1>4. ~Running("sort") /\ ~(Running("sort")')
  BY <1>1, <1>2 DEF Running, Loops
<1>5. TypeOK /\ Rooted /\ Ring(next, prev, CellsIn(parent, l)) /\ l \in CellsIn(parent, l)
  BY <1>2, <1>4, AtRest, CellFacts DEF IInv, AllRings
<1> HIDE DEF l, q
<1>6. next[q] # q /\ next[q] \in CellsIn(parent, l)
  <2>1. next[q] # q
    BY <1>1, <1>3, <1>5, NotAlone
  <2> QED BY <1>3, <1>5, <2>1 DEF Ring
<1>7. Between(q, next[q]) = {q}
  BY <1>2, <1>3, <1>5, <1>6, OneBetween
<1> QED BY <1>1, <1>2, <1>3, <1>4, <1>6, <1>7, DepartSeen

-----------------------------------------------------------------------------
(* sort(), in the middle of which the list is seen as it was.                 *)

\* A list that is being sorted is still seen with its nodes, each once.
Kept == Running("sort") =>
          /\ Injective(loop.before[loop.list])
          /\ Members(loop.before[loop.list]) = NodesOf(loop.list)

\* A step of sort(), which is seen by no other list.
LEMMA OthersSeen ==
  ASSUME IInv, next' \in Pointers, NEW l \in Lists,
         \A m \in Lists \ {l} : /\ ~Sorting(m) /\ ~(Sorting(m)')
                                /\ \A c \in CellsIn(parent, m) : next'[c] = next[c]
  PROVE  Only({l})
<1>1. ASSUME NEW m \in Lists \ {l} PROVE Content(m)' = Content(m)
  <2>1. Ring(next, prev, CellsIn(parent, m))
    BY <1>1 DEF IInv, RingsOK
  <2> QED BY <2>1, ContentKept DEF IInv
<1> QED BY <1>1 DEF Only, ContentSeen

LEMMA SortBeginSeen ==
  ASSUME IInv, NEW l \in Lists, NEW lawful \in BOOLEAN, Sort(l, lawful)
  PROVE  SeenStep /\ Kept'
<1>1. /\ loop = Null /\ next' = Broken(l).next /\ parent' = parent /\ Begin("sort", l, l, lawful, FirstRun(l, 1))
  BY DEF Sort, Begin, Become
<1>2. /\ TypeOK /\ Rooted /\ Ring(next, prev, CellsIn(parent, l)) /\ next \in Pointers
      /\ l \in CellsIn(parent, l) /\ ContentSeen(l) = Content(l) /\ CellsIn(parent, l) \subseteq Cells
      /\ Content(l) \in Seq(Nodes) /\ Injective(Content(l)) /\ Members(Content(l)) = NodesOf(l)
  BY <1>1, Resting
<1>3. next[l] # l
  BY DEF Sort
<1>4. 1 \in Nat \ {0}
  OBVIOUS
<1>5. /\ FirstRun(l, 1) \in SortCursors /\ Broken(l).next \in Pointers
      /\ \A c \in Cells \ CellsIn(parent, l) : Broken(l).next[c] = next[c]
  BY <1>2, <1>3, <1>4, PassCursors
<1>6. loop' \in Loops /\ loop' # Null /\ loop'.op = "sort" /\ loop'.list = l
  BY <1>1, <1>5, BeginIs
<1>7. loop'.before[l] = Content(l)
  <2>1. loop' = [op |-> "sort", list |-> l, other |-> l, lawful |-> lawful, at |-> FirstRun(l, 1),
                 before |-> [m \in Lists |-> Content(m)]]
    BY <1>1 DEF Begin
  <2> HIDE DEF FirstRun
  <2> QED BY <2>1
<1>8. Only({l})
  <2>1. \A m \in Lists \ {l} : ~Sorting(m) /\ ~(Sorting(m)')
    BY <1>1, <1>6 DEF Sorting, Running
  <2>2. \A m \in Lists \ {l} : \A c \in CellsIn(parent, m) : next'[c] = next[c]
    BY <1>1, <1>5 DEF CellsIn
  <2> QED BY <1>1, <1>5, <2>1, <2>2, OthersSeen
<1>9. ContentSeen(l)' = ContentSeen(l)
  BY <1>2, <1>6, <1>7 DEF ContentSeen, Sorting, Running
<1>10. Only({})
  BY <1>8, <1>9 DEF Only
<1>11. Kept'
  <2>1. NodesOf(l)' = NodesOf(l)
    BY <1>1 DEF NodesOf
  <2> QED BY <1>2, <1>6, <1>7, <2>1 DEF Kept, Running
<1> QED BY <1>10, <1>11, SeenStays DEF SeenStep

LEMMA SortGoesOnSeen ==
  ASSUME IInv, Kept, Running("sort"), NEW l \in Lists, l = loop.list,
         loop' # Null, loop'.op = "sort", loop'.list = l,
         loop'.before = loop.before, next' \in Pointers, parent' = parent,
         \A c \in Cells \ CellsIn(parent, l) : next'[c] = next[c]
  PROVE  SeenStep /\ Kept'
<1>1. loop # Null /\ loop.op = "sort"
  BY DEF Running
<1>2. \A m \in Lists \ {l} : ~Sorting(m) /\ ~(Sorting(m)')
  BY <1>1 DEF Sorting, Running
<1>3. \A m \in Lists \ {l} : \A c \in CellsIn(parent, m) : next'[c] = next[c]
  BY DEF CellsIn
<1>4. Only({l})
  BY <1>2, <1>3, OthersSeen
<1>5. ContentSeen(l) = loop.before[l] /\ ContentSeen(l)' = loop.before[l]
  BY <1>1 DEF ContentSeen, Sorting, Running
<1>6. Only({})
  BY <1>4, <1>5 DEF Only
<1>7. Kept'
  <2>1. NodesOf(l)' = NodesOf(l)
    BY DEF NodesOf
  <2> QED BY <1>1, <2>1 DEF Kept, Running
<1> QED BY <1>6, <1>7, SeenStays DEF SeenStep

LEMMA SortLeavesSeen ==
  ASSUME IInv, IInv', Kept, Running("sort"), NEW l \in Lists, l = loop.list,
         loop' = Null, parent' = parent,
         \A c \in Cells \ CellsIn(parent, l) : next'[c] = next[c]
  PROVE  SeenStep
<1> DEFINE s == loop.before[l]
<1>1. loop \in Loops /\ loop # Null /\ loop.op = "sort"
  BY SortIs
<1>2. s \in Seq(Nodes) /\ ContentSeen(l) = s /\ Members(s) = NodesOf(l)
  BY <1>1 DEF Loops, ContentSeen, Sorting, Running, Kept
<1>3. next' \in Pointers
  BY DEF IInv, TypeOK, Pointers
<1>4. \A m \in Lists : ~(Sorting(m)') /\ (m # l => ~Sorting(m))
  BY <1>1 DEF Sorting, Running
<1>5. \A m \in Lists \ {l} : \A c \in CellsIn(parent, m) : next'[c] = next[c]
  BY DEF CellsIn
<1> HIDE DEF s
<1>6. Only({l})
  BY <1>3, <1>4, <1>5, OthersSeen
<1>7. NodesOf(l)' = NodesOf(l)
  BY DEF NodesOf
<1>8. ContentSeen(l)' = Content(l)'
  BY <1>4 DEF ContentSeen
<1>9. Content(l)' \in Seq(Nodes) /\ Injective(Content(l)') /\ Members(Content(l)') = NodesOf(l)'
  BY <1>4, RoundNext
<1>10. AsSequences!Next
  BY <1>2, <1>6, <1>7, <1>8, <1>9, SeenReorders
<1> QED BY <1>10 DEF SeenStep

\* A turn keeps all but the cursors.
LEMMA TurnKeeps ==
  ASSUME loop \in Loops, NEW at, loop' = [loop EXCEPT !.at = at]
  PROVE  /\ loop'.op = loop.op /\ loop'.list = loop.list /\ loop'.before = loop.before
         /\ loop'.lawful = loop.lawful /\ loop'.other = loop.other
         /\ DOMAIN loop' = DOMAIN loop
BY DEF Loops

\* The cursors of the two runs stay on nodes, or come to the end.
LEMMA CursorsGoOn ==
  ASSUME IInv, Running("sort"), NEW sp, NEW sq, Halfway(loop.list, sp, sq)
  PROVE  /\ loop.at.psize > 0 => next[loop.at.p] \in Nodes \cup {Null}
         /\ loop.at.q # Null => next[loop.at.q] \in Nodes \cup {Null}
<1> DEFINE p == loop.at.p
           q == loop.at.q
<1>1. next \in Pointers /\ loop.at.psize \in Nat
  BY SortIs DEF TypeOK, Pointers, SortCursors
<1>2. /\ sp \in Seq(Nodes) /\ sq \in Seq(Nodes) /\ Len(sp) = loop.at.psize
      /\ sp # <<>> => Steps(next, p, Null, sp) /\ next[sp[Len(sp)]] \in Nodes \cup {Null}
      /\ Steps(next, q, Null, sq) /\ Ended(next, Null, sq) /\ Injective(sp \o sq)
  BY DEF Halfway, Runs
<1>3. Injective(sp) /\ Injective(sq)
  BY <1>2, ConcatParts
<1>4. ASSUME loop.at.psize > 0 PROVE next[p] \in Nodes \cup {Null}
  <2>1. sp # <<>>
    BY <1>2, <1>4
  <2>2. /\ Tail(sp) # <<>> => next[p] \in Nodes
        /\ Tail(sp) = <<>> => p = sp[Len(sp)]
    BY <1>1, <1>2, <1>3, <2>1, TailSteps
  <2> QED BY <1>2, <2>1, <2>2
<1>5. ASSUME q # Null PROVE next[q] \in Nodes \cup {Null}
  <2>1. sq # <<>>
    BY <1>2, <1>5 DEF Steps
  <2>2. /\ Tail(sq) # <<>> => next[q] \in Nodes
        /\ Tail(sq) = <<>> => q = sq[Len(sq)]
    BY <1>1, <1>2, <1>3, <2>1, TailSteps
  <2>3. next[sq[Len(sq)]] = Null
    BY <1>2, <2>1 DEF Ended
  <2> QED BY <2>2, <2>3
<1> QED BY <1>4, <1>5

LEMMA SortTakeSeen ==
  ASSUME IInv, IInv', Kept, SortTake
  PROVE  SeenStep /\ Kept'
<1>1. Running("sort")
  BY DEF SortTake
<1>2. PICK l \in Lists : l = loop.list
  BY <1>1, SortIs
<1>3. PICK right \in BOOLEAN :
        /\ loop.at.psize = 0 => right
        /\ loop.at.psize > 0 /\ ~Compares(loop.at) => ~right
        /\ next' = LinkBefore(Links, l, IF right THEN loop.at.q ELSE loop.at.p).next
        /\ loop' = [loop EXCEPT !.at = IF right THEN TakeQ(@) ELSE TakeP(@)]
  BY <1>2 DEF SortTake, Become
<1>4. /\ loop \in Loops /\ loop.op = "sort" /\ loop.at \in SortCursors /\ TypeOK /\ Rooted
      /\ RunsLeft(loop.at) /\ parent' = parent
  BY <1>1, SortIs DEF SortTake
<1>5. PICK sp, sq : Halfway(l, sp, sq)
  BY <1>1, <1>2, SortIs
<1> DEFINE A == CellsIn(parent, l)
           n == IF right THEN loop.at.q ELSE loop.at.p
           B == A \ Members(sp \o sq)
<1>6. /\ sp \in Seq(Nodes) /\ sq \in Seq(Nodes) /\ Len(sp) = loop.at.psize
      /\ sp # <<>> => sp[1] = loop.at.p
      /\ loop.at.q # Null => sq # <<>> /\ sq[1] = loop.at.q
      /\ Members(sp \o sq) \subseteq A \ {l} /\ Ring(next, prev, B)
  <2>1. loop.at.q # Null => sq # <<>>
    BY <1>5 DEF Halfway, Runs, Steps
  <2> QED BY <1>5, <2>1 DEF Halfway, Runs, Steps
<1>7. n \in A /\ n # l
  <2>1. Members(sp \o sq) = Members(sp) \cup Members(sq)
    BY <1>6, ConcatParts
  <2>2. CASE right
    <3>1. loop.at.q # Null
      BY <1>3, <1>4, <2>2 DEF RunsLeft, Compares, SortCursors
    <3>2. n \in Members(sq)
      BY <1>6, <2>2, <3>1 DEF Members
    <3> QED BY <1>6, <2>1, <3>2
  <2>3. CASE ~right
    <3>1. sp # <<>>
      BY <1>3, <1>4, <1>6, <2>3 DEF SortCursors
    <3>2. n \in Members(sp)
      BY <1>6, <2>3, <3>1 DEF Members
    <3> QED BY <1>6, <2>1, <3>2
  <2> QED BY <2>2, <2>3
<1>8. l \in B /\ prev[l] \in A /\ A \subseteq Cells /\ next \in Pointers /\ Links = LinksOf(next, prev)
  <2>1. l \in B /\ A \subseteq Cells /\ next \in Pointers /\ Links = LinksOf(next, prev)
    BY <1>4, <1>6, CellFacts
  <2> QED BY <1>6, <2>1 DEF Ring
<1> HIDE DEF n, A, B
<1>9. next' = [[next EXCEPT ![prev[l]] = n] EXCEPT ![n] = l]
  BY <1>3, <1>8 DEF LinkBefore, Join, LinksOf, n
<1>10. next' \in Pointers
  BY DEF IInv, TypeOK, Pointers
<1>11. \A c \in Cells \ A : next'[c] = next[c]
  BY <1>7, <1>8, <1>9 DEF Pointers
<1>12. /\ loop' # Null /\ loop'.op = "sort" /\ loop'.list = l /\ loop'.before = loop.before
  <2> DEFINE at == IF right THEN TakeQ(loop.at) ELSE TakeP(loop.at)
  <2>1. loop' = [loop EXCEPT !.at = at]
    BY <1>3, <1>4
  <2>2. at \in SortCursors
    <3>1. loop.at.psize \in Nat /\ loop.at.qsize \in Nat
      BY <1>4 DEF SortCursors
    <3>2. /\ loop.at.psize > 0 => next[loop.at.p] \in Nodes \cup {Null}
          /\ loop.at.q # Null => next[loop.at.q] \in Nodes \cup {Null}
      BY <1>1, <1>2, <1>5, CursorsGoOn
    <3>3. CASE right
      <4>1. loop.at.q # Null /\ loop.at.qsize > 0
        BY <1>3, <1>4, <3>1, <3>3 DEF RunsLeft, Compares
      <4>2. TookQ(loop.at, next[loop.at.q], TakeQ(loop.at))
        BY DEF TakeQ, TookQ
      <4>3. TakeQ(loop.at) \in SortCursors
        BY <1>4, <3>2, <4>1, <4>2, TakesQ
      <4> QED BY <3>3, <4>3
    <3>4. CASE ~right
      <4>1. loop.at.psize > 0
        BY <1>3, <3>1, <3>4
      <4>2. TookP(loop.at, next[loop.at.p], TakeP(loop.at))
        BY DEF TakeP, TookP
      <4>3. TakeP(loop.at) \in SortCursors
        BY <1>4, <3>2, <4>1, <4>2, TakesP
      <4> QED BY <3>4, <4>3
    <3> QED BY <3>3, <3>4
  <2> HIDE DEF at
  <2>3. loop' \in Loops /\ loop' # Null
    BY <1>4, <2>1, <2>2, TurnIs
  <2> QED BY <1>2, <1>4, <2>1, <2>3, TurnKeeps
<1> QED BY <1>1, <1>2, <1>4, <1>10, <1>11, <1>12, SortGoesOnSeen DEF A

LEMMA NextRunsSeen ==
  ASSUME IInv, Kept, SortNextRuns
  PROVE  SeenStep /\ Kept'
<1> DEFINE at == Run(next, loop.at.q, loop.at.k, loop.at.merges + 1)
<1>1. /\ Running("sort") /\ ~RunsLeft(loop.at) /\ loop.at.q # Null
      /\ next' = next /\ parent' = parent
  BY DEF SortNextRuns
<1>2. /\ loop \in Loops /\ loop.op = "sort" /\ loop.at \in SortCursors /\ loop.at.k # 0 /\ next \in Pointers
  BY <1>1, SortIs DEF TypeOK, Pointers
<1>3. PICK l \in Lists : l = loop.list
  BY <1>1, SortIs
<1>4. loop' = [loop EXCEPT !.at = at]
  BY <1>2 DEF SortNextRuns
<1>5. PICK sp, sq : Halfway(l, sp, sq)
  BY <1>1, <1>3, SortIs
<1>6. sq \in Seq(Nodes) /\ sp \in Seq(Nodes) /\ Steps(next, loop.at.q, Null, sq) /\ Ended(next, Null, sq)
      /\ Injective(sp \o sq)
  BY <1>5 DEF Halfway, Runs
<1>7. Injective(sq)
  BY <1>6, ConcatParts
<1>8. loop.at.q \in Nodes /\ loop.at.k \in Nat \ {0} /\ loop.at.merges + 1 \in Nat
  BY <1>1, <1>2 DEF SortCursors
<1>9. at \in SortCursors
  BY <1>2, <1>6, <1>7, <1>8, RunSplits
<1> HIDE DEF at
<1>10. loop' \in Loops /\ loop' # Null
  BY <1>2, <1>4, <1>9, TurnIs
<1>11. loop'.op = "sort" /\ loop'.list = l /\ loop'.before = loop.before
  BY <1>2, <1>3, <1>4, TurnKeeps
<1> QED BY <1>1, <1>2, <1>3, <1>10, <1>11, SortGoesOnSeen

LEMMA NextPassSeen ==
  ASSUME IInv, Kept, SortNextPass
  PROVE  SeenStep /\ Kept'
<1>1. /\ Running("sort") /\ ~RunsLeft(loop.at) /\ loop.at.q = Null
      /\ next' = Broken(loop.list).next /\ parent' = parent
  BY DEF SortNextPass, Become
<1>2. loop \in Loops /\ loop.op = "sort" /\ loop.at \in SortCursors /\ loop.at.k # 0
  BY <1>1, SortIs
<1>3. PICK l \in Lists : l = loop.list
  BY <1>1, SortIs
<1>4. TypeOK /\ Rooted /\ AllRings /\ next[l] # l
  BY <1>1, <1>3, PassEnds
<1>5. 2 * loop.at.k \in Nat \ {0}
  <2>1. loop.at.k \in Nat
    BY <1>2 DEF SortCursors
  <2> QED BY <1>2, <2>1
<1>6. loop' = [loop EXCEPT !.at = FirstRun(l, 2 * loop.at.k)]
  BY <1>2, <1>3 DEF SortNextPass
<1>7. Ring(next, prev, CellsIn(parent, l))
  BY <1>4 DEF AllRings
<1> DEFINE k == 2 * loop.at.k
<1> HIDE DEF k
<1>8. /\ FirstRun(l, k) \in SortCursors /\ Broken(l).next \in Pointers
      /\ \A c \in Cells \ CellsIn(parent, l) : Broken(l).next[c] = next[c]
  <2>1. k \in Nat \ {0}
    BY <1>5 DEF k
  <2> QED BY <1>4, <1>7, <2>1, PassCursors
<1>9. loop' \in Loops /\ loop' # Null
  BY <1>2, <1>6, <1>8, TurnIs DEF k
<1>10. loop'.op = "sort" /\ loop'.list = l /\ loop'.before = loop.before
  BY <1>2, <1>3, <1>6, TurnKeeps
<1> QED BY <1>1, <1>3, <1>8, <1>9, <1>10, SortGoesOnSeen

LEMMA SortReturnSeen ==
  ASSUME IInv, IInv', Kept, SortReturn
  PROVE  SeenStep
<1>1. Running("sort") /\ loop' = Null /\ next' = next /\ parent' = parent
  BY DEF SortReturn
<1>2. PICK l \in Lists : l = loop.list
  BY <1>1, SortIs
<1>3. \A c \in Cells \ CellsIn(parent, l) : next'[c] = next[c]
  BY <1>1
<1> QED BY <1>1, <1>2, <1>3, SortLeavesSeen

LEMMA SortThrowSeen ==
  ASSUME IInv, IInv', Kept, SortThrow
  PROVE  SeenStep
<1>1. Running("sort") /\ loop' = Null /\ parent' = parent
  BY DEF SortThrow
<1>2. PICK l \in Lists : l = loop.list
  BY <1>1, SortIs
<1> DEFINE A == CellsIn(parent, l)
           q == loop.at.q
           k == Thread(Links, <<prev[l]>> \o LeftRun \o Path(next, q, Null) \o <<l>>)
<1>3. next' = k.next
  BY <1>2 DEF SortThrow, Become
<1>4. loop.at \in SortCursors /\ TypeOK /\ Rooted
  BY <1>1, SortIs
<1>5. PICK sp, sq : Halfway(l, sp, sq)
  BY <1>1, <1>2, SortIs
<1>6. /\ sp \in Seq(Nodes) /\ sq \in Seq(Nodes) /\ Injective(sp \o sq) /\ Members(sp \o sq) \subseteq A \ {l}
      /\ Ring(next, prev, A \ Members(sp \o sq))
  BY <1>5 DEF Halfway, Runs
<1>7. /\ next \in Pointers /\ prev \in Pointers /\ Links = LinksOf(next, prev) /\ A \subseteq Cells /\ l \in A
  BY <1>4, CellFacts
<1>8. LeftRun = sp /\ Path(next, q, Null) = sq
  BY <1>4, <1>5, RestIs
<1>9. ((<<prev[l]>> \o sp) \o sq) \o <<l>> = (<<prev[l]>> \o (sp \o sq)) \o <<l>>
  <2>1. prev[l] \in Cells \cup {Null}
    BY <1>7 DEF Pointers
  <2>2. /\ <<prev[l]>> \in Seq(Cells \cup {Null}) /\ sp \in Seq(Cells \cup {Null})
        /\ sq \in Seq(Cells \cup {Null})
    BY <1>6, <2>1, Basics
  <2>3. (<<prev[l]>> \o sp) \o sq = <<prev[l]>> \o (sp \o sq)
    BY <2>2, ConcatAssoc
  <2> QED BY <2>3
<1> DEFINE t == sp \o sq
           R == A \ Members(t)
<1>10. k = Thread(LinksOf(next, prev), <<prev[l]>> \o t \o <<l>>) /\ t \in Seq(Nodes) /\ Injective(t)
  <2>1. t \in Seq(Nodes) /\ Injective(t)
    BY <1>6
  <2>2. k = Thread(LinksOf(next, prev), ((<<prev[l]>> \o sp) \o sq) \o <<l>>)
    BY <1>7, <1>8
  <2>3. k = Thread(LinksOf(next, prev), (<<prev[l]>> \o (sp \o sq)) \o <<l>>)
    BY <1>9, <2>2
  <2> QED BY <2>1, <2>3
<1>11. /\ R \subseteq Cells /\ l \in R /\ R \cap Members(t) = {} /\ Ring(next, prev, R)
       /\ R \cup Members(t) = A
  BY <1>6, <1>7
<1> HIDE DEF k, R, t, A
<1>12. Relinked(next, prev, Thread(LinksOf(next, prev), <<prev[l]>> \o t \o <<l>>), R, R \cup Members(t))
  BY <1>7, <1>10, <1>11, ThreadLinks
<1>13. \A c \in Cells \ A : next'[c] = next[c]
  BY <1>3, <1>10, <1>11, <1>12 DEF Relinked
<1> QED BY <1>1, <1>2, <1>13, SortLeavesSeen DEF A

\* Steps that only look, of the loops that do not sort.
LEMMA MergeLooks ==
  ASSUME IInv, MergeSkip \/ MergeReturn \/ MergeThrow
  PROVE  SeenStep /\ ~(Running("sort")')
<1>1. /\ Running("merge") /\ next' = next
      /\ loop' = Null \/ loop' = [loop EXCEPT !.at.p = next[@]]
  BY DEF MergeSkip, MergeReturn, MergeThrow
<1>2. loop \in Loops /\ loop.op = "merge"
  BY <1>1, LoopIs DEF IInv
<1>3. ~Running("sort") /\ ~(Running("sort")')
  BY <1>1, <1>2 DEF Running, Loops
<1> QED BY <1>1, <1>3, SameSeen

LEMMA FilterLooks ==
  ASSUME IInv, FilterKeep \/ FilterReturn \/ FilterThrow
  PROVE  SeenStep /\ ~(Running("sort")')
<1>1. /\ Filtering /\ next' = next
      /\ loop' = Null \/ loop' = [loop EXCEPT !.at = [p |-> @.q, q |-> next[@.q]]]
  BY DEF FilterKeep, FilterReturn, FilterThrow
<1>2. loop \in Loops /\ loop.op \in {"remove_if", "unique"}
  BY <1>1, LoopIs DEF IInv, Filtering
<1>3. ~Running("sort") /\ ~(Running("sort")')
  BY <1>1, <1>2 DEF Running, Loops
<1> QED BY <1>1, <1>3, SameSeen

LEMMA WalkBegins ==
  ASSUME IInv, NEW l \in Lists, NEW x \in Lists, NEW lawful \in BOOLEAN,
         Merge(l, x, lawful) \/ RemoveIf(l) \/ Unique(l, lawful)
  PROVE  SeenStep /\ ~(Running("sort")')
<1>1. \E op \in {"merge", "remove_if", "unique"} : \E y, a, at : Begin(op, l, y, a, at)
  BY DEF Merge, RemoveIf, Unique
<1>2. next' = next
  BY DEF Merge, RemoveIf, Unique
<1>3. loop = Null /\ loop'.op \in {"merge", "remove_if", "unique"}
  BY <1>1 DEF Begin
<1>4. ~Running("sort") /\ ~(Running("sort")')
  BY <1>3 DEF Running
<1> QED BY <1>2, <1>4, SameSeen

LEMMA StutterSeen ==
  ASSUME UNCHANGED vars
  PROVE  SeenStep /\ (Kept => Kept')
<1>0. next' = next /\ parent' = parent /\ loop' = loop
  BY DEF vars
<1>1. \A m \in Lists : Content(m)' = Content(m) /\ NodesOf(m)' = NodesOf(m)
  BY <1>0 DEF Content, NodesOf
<1>2. \A m \in Lists : ContentSeen(m)' = ContentSeen(m)
  BY <1>0, <1>1 DEF ContentSeen, Sorting, Running
<1>3. Kept => Kept'
  BY <1>0 DEF Kept, Running, NodesOf
<1> QED BY <1>2, <1>3 DEF SeenStep

-----------------------------------------------------------------------------
(* All steps.                                                                 *)

\* Wherever no sort() is left running, there is nothing to keep.
LEMMA NothingKept ==
  ~(Running("sort")') => Kept'
BY DEF Kept

LEMMA OperationSeen ==
  ASSUME IInv, IInv', NEW l \in Lists, Operation(l)
  PROVE  SeenStep /\ Kept'
<1>1. CASE \E s \in Arrangements({n \in Nodes : parent[n] = Null}) :
             Assign(l, s) \/ \E p \in Cells : Insert(l, p, s)
  <2>1. PICK s \in Arrangements({n \in Nodes : parent[n] = Null}) :
               Assign(l, s) \/ \E p \in Cells : Insert(l, p, s)
    BY <1>1
  <2>2. s \in Seq(Nodes) /\ s # <<>>
    BY ArrangementHasNodes
  <2>3. loop' = Null
    BY <2>1 DEF Assign, Insert
  <2> QED BY <2>1, <2>2, <2>3, AssignSeen, InsertSeen, NothingKept DEF Running
<1>2. CASE Assign(l, <<>>)
  <2>1. <<>> \in Seq(Nodes)
    OBVIOUS
  <2>2. loop' = Null
    BY <1>2 DEF Assign
  <2> QED BY <1>2, <2>1, <2>2, AssignSeen, NothingKept DEF Running
<1>3. CASE \E b, e \in Cells : Erase(l, b, e)
  <2>1. loop' = Null
    BY <1>3 DEF Erase
  <2> QED BY <1>3, <2>1, EraseSeen, NothingKept DEF Running
<1>4. CASE Clear(l) \/ Reverse(l)
  <2>1. loop' = Null
    BY <1>4 DEF Clear, Reverse
  <2> QED BY <1>4, <2>1, ClearSeen, ReverseSeen, NothingKept DEF Running
<1>5. CASE \E x \in Lists : MoveAssign(l, x) \/ Swap(l, x)
  <2>1. loop' = Null
    BY <1>5 DEF MoveAssign, Swap
  <2> QED BY <1>5, <2>1, MoveAssignSeen, SwapSeen, NothingKept DEF Running
<1>6. CASE \E p, b, e \in Cells, x \in Lists : Splice(l, p, x, b, e)
  <2>1. loop' = Null
    BY <1>6 DEF Splice
  <2> QED BY <1>6, <2>1, SpliceSeen, NothingKept DEF Running
<1>7. CASE \E n \in 1..Cardinality(Nodes) : ShiftForward(l, n) \/ ShiftBackwards(l, n)
  <2>1. loop' = Null
    BY <1>7 DEF ShiftForward, ShiftBackwards
  <2>2. PICK n \in 1..N : ShiftForward(l, n) \/ ShiftBackwards(l, n)
    BY <1>7 DEF N
  <2> QED BY <2>1, <2>2, ShiftSeen, NothingKept DEF Running
<1>8. CASE \E lawful \in BOOLEAN : Sort(l, lawful)
  BY <1>8, SortBeginSeen
<1>9. CASE \E lawful \in BOOLEAN : Unique(l, lawful) \/ \E x \in Lists : Merge(l, x, lawful)
  BY <1>9, WalkBegins, NothingKept
<1>10. CASE RemoveIf(l)
  <2>1. TRUE \in BOOLEAN
    OBVIOUS
  <2> QED BY <1>10, <2>1, WalkBegins, NothingKept
<1> QED BY <1>1, <1>2, <1>3, <1>4, <1>5, <1>6, <1>7, <1>8, <1>9, <1>10 DEF Operation

LEMMA TurnSeen ==
  ASSUME IInv, IInv', Kept, Turn
  PROVE  SeenStep /\ Kept'
<1>1. CASE SortTake
  BY <1>1, SortTakeSeen
<1>2. CASE SortNextRuns
  BY <1>2, NextRunsSeen
<1>3. CASE SortNextPass
  BY <1>3, NextPassSeen
<1>4. CASE SortThrow \/ SortReturn
  <2>1. loop' = Null
    BY <1>4 DEF SortThrow, SortReturn
  <2> QED BY <1>4, <2>1, SortThrowSeen, SortReturnSeen, NothingKept DEF Running
<1>5. CASE MergeTake
  <2>1. Running("merge") /\ loop' = [loop EXCEPT !.at.q = next[@]]
    BY <1>5 DEF MergeTake
  <2>2. loop \in Loops /\ loop.op = "merge"
    BY <2>1, LoopIs DEF IInv
  <2>3. ~(Running("sort")')
    BY <2>1, <2>2 DEF Running, Loops
  <2> QED BY <1>5, <2>3, MergeTakeSeen, NothingKept
<1>6. CASE FilterErase
  <2>1. Filtering /\ loop' = [loop EXCEPT !.at.q = next[@]]
    BY <1>6 DEF FilterErase
  <2>2. loop \in Loops /\ loop.op \in {"remove_if", "unique"}
    BY <2>1, LoopIs DEF IInv, Filtering
  <2>3. ~(Running("sort")')
    BY <2>1, <2>2 DEF Running, Loops
  <2> QED BY <1>6, <2>3, FilterEraseSeen, NothingKept
<1>7. CASE MergeSkip \/ MergeReturn \/ MergeThrow
  BY <1>7, MergeLooks, NothingKept
<1>8. CASE FilterKeep \/ FilterReturn \/ FilterThrow
  BY <1>8, FilterLooks, NothingKept
<1> QED BY <1>1, <1>2, <1>3, <1>4, <1>5, <1>6, <1>7, <1>8 DEF Turn

LEMMA NextSeen == IInv /\ IInv' /\ Kept /\ [Next]_vars => SeenStep /\ Kept'
<1> SUFFICES ASSUME IInv, IInv', Kept, [Next]_vars PROVE SeenStep /\ Kept'
  OBVIOUS
<1>1. CASE \E l \in Lists : Operation(l)
  BY <1>1, OperationSeen
<1>2. CASE \E n \in Nodes : Unhook(n)
  <2>1. loop' = Null
    BY <1>2 DEF Unhook
  <2> QED BY <1>2, <2>1, UnhookSeen, NothingKept DEF Running
<1>3. CASE Turn
  BY <1>3, TurnSeen
<1>4. CASE UNCHANGED vars
  BY <1>4, StutterSeen
<1> QED BY <1>1, <1>2, <1>3, <1>4 DEF Next

LEMMA InitSeen == Init => AsSequences!Init /\ Kept
<1> SUFFICES ASSUME Init PROVE AsSequences!Init /\ Kept
  OBVIOUS
<1>1. loop = Null /\ \A l \in Lists : next[l] = l
  BY DEF Init, Cells
<1>2. next \in Pointers
  BY InitHolds DEF IInv, TypeOK, Pointers
<1>3. ASSUME NEW l \in Lists PROVE ContentSeen(l) = <<>>
  BY <1>1, <1>2, NothingIn DEF ContentSeen, Sorting, Running, Content
<1>4. Kept
  BY <1>1 DEF Kept, Running
<1> QED BY <1>3, <1>4 DEF AsSequences!Init

\* The rings of pointers implement lists that are sequences: whatever operation is called
\* and wherever its predicate throws, the lists change as sequences do, or do not change.
THEOREM ListsAreSequences == Spec => ImplementsSequences
<1>1. Init => AsSequences!Init /\ Kept
  BY InitSeen
<1>2. IInv /\ IInv' /\ Kept /\ [Next]_vars =>
        [AsSequences!Next]_[l \in Lists |-> ContentSeen(l)] /\ Kept'
  BY NextSeen DEF SeenStep
<1> QED BY <1>1, <1>2, Invariant, PTL DEF Spec, ImplementsSequences, AsSequences!Spec

-----------------------------------------------------------------------------
(* What the loops leave.  sort(): the nodes that are put back and what is left*)
(* of the runs are one sequence in which no run of k nodes is out of order,  *)
(* and no node has left the run of 2 * k nodes that it was in to begin with. *)

Precedes(s, a, b) == Key[a] < Key[b] \/ (Key[a] = Key[b] /\ Index(s, a) < Index(s, b))

LEMMA IndexIs ==
  ASSUME NEW s \in Seq(Nodes), Injective(s)
  PROVE  /\ \A i \in 1..Len(s) : Index(s, s[i]) = i
         /\ \A c \in Members(s) : Index(s, c) \in 1..Len(s) /\ s[Index(s, c)] = c
<1>1. ASSUME NEW i \in 1..Len(s) PROVE Index(s, s[i]) = i
  <2> DEFINE j == CHOOSE m \in DOMAIN s : s[m] = s[i]
  <2>1. j \in DOMAIN s /\ s[j] = s[i]
    <3>1. \E m \in DOMAIN s : s[m] = s[i]
      OBVIOUS
    <3> QED BY <3>1
  <2> HIDE DEF j
  <2>2. j = i
    BY <2>1 DEF Injective
  <2> QED BY <2>2 DEF Index, j
<1>2. ASSUME NEW c \in Members(s) PROVE Index(s, c) \in 1..Len(s) /\ s[Index(s, c)] = c
  <2>1. PICK i \in 1..Len(s) : c = s[i]
    BY DEF Members
  <2> QED BY <1>1, <2>1
<1> QED BY <1>1, <1>2

\* A node that is not greater than the first of a run comes before the run; one that is less
\* than the first, before that run.
LEMMA PrecedesLate ==
  ASSUME NEW s, NEW a \in Nodes, NEW b \in Nodes, NEW c \in Nodes, Key[a] <= Key[b],
         b = c \/ Precedes(s, b, c), Index(s, a) < Index(s, c)
  PROVE  Precedes(s, a, c)
<1>1. Key[a] \in Nat /\ Key[b] \in Nat /\ Key[c] \in Nat
  BY ListAssumption
<1>2. Key[b] <= Key[c]
  BY <1>1 DEF Precedes
<1> QED BY <1>1, <1>2 DEF Precedes

LEMMA PrecedesEarly ==
  ASSUME NEW s, NEW a \in Nodes, NEW b \in Nodes, NEW c \in Nodes, Key[a] < Key[b],
         b = c \/ Precedes(s, b, c)
  PROVE  Precedes(s, a, c)
<1>1. Key[a] \in Nat /\ Key[b] \in Nat /\ Key[c] \in Nat
  BY ListAssumption
<1>2. Key[b] <= Key[c]
  BY <1>1 DEF Precedes
<1> QED BY <1>1, <1>2 DEF Precedes
-----------------------------------------------------------------------------
Multiples(k) == {b * k : b \in Nat}

LEMMA MultiplesAre ==
  ASSUME NEW k \in Nat \ {0}
  PROVE  /\ Multiples(k) \subseteq Nat /\ 0 \in Multiples(k)
         /\ \A c \in Multiples(k) : c + k \in Multiples(k)
         /\ \A c, d \in Multiples(k) : c < d => c + k <= d
         /\ Multiples(2 * k) \subseteq Multiples(k)
<1>1. ASSUME NEW b \in Nat PROVE b * k \in Nat /\ b * k + k = (b + 1) * k /\ b + 1 \in Nat
  OBVIOUS
<1>2. 0 = 0 * k
  OBVIOUS
<1>3. ASSUME NEW a \in Nat, NEW b \in Nat, a * k < b * k PROVE a * k + k <= b * k
  <2>1. a < b
    <3> SUFFICES ASSUME b <= a PROVE FALSE
      OBVIOUS
    <3>1. PICK e \in Nat : a = b + e
      <4>1. a - b \in Nat /\ a = b + (a - b)
        OBVIOUS
      <4> QED BY <4>1
    <3>2. a * k = b * k + e * k /\ e * k \in Nat
      BY <3>1
    <3> QED BY <1>1, <1>3, <3>2
  <2>2. PICK e \in Nat : b = (a + 1) + e
    <3>1. b - (a + 1) \in Nat /\ b = (a + 1) + (b - (a + 1))
      BY <2>1
    <3> QED BY <3>1
  <2>3. b * k = (a + 1) * k + e * k /\ e * k \in Nat
    BY <2>2
  <2>4. (a + 1) * k = a * k + k /\ a * k \in Nat
    BY <1>1
  <2> QED BY <2>3, <2>4
<1>4. ASSUME NEW b \in Nat PROVE b * (2 * k) = (b * 2) * k /\ b * 2 \in Nat
  OBVIOUS
<1>5. Multiples(k) \subseteq Nat /\ 0 \in Multiples(k)
  BY <1>1, <1>2 DEF Multiples
<1>6. ASSUME NEW c \in Multiples(k) PROVE c + k \in Multiples(k)
  <2>1. PICK b \in Nat : c = b * k
    BY DEF Multiples
  <2>2. c + k = (b + 1) * k /\ b + 1 \in Nat
    BY <1>1, <2>1
  <2> QED BY <2>2 DEF Multiples
<1>7. ASSUME NEW c \in Multiples(k), NEW d \in Multiples(k), c < d PROVE c + k <= d
  <2>1. PICK a \in Nat : c = a * k
    BY DEF Multiples
  <2>2. PICK b \in Nat : d = b * k
    BY DEF Multiples
  <2> QED BY <1>3, <1>7, <2>1, <2>2
<1>8. Multiples(2 * k) \subseteq Multiples(k)
  <2>1. ASSUME NEW c \in Multiples(2 * k) PROVE c \in Multiples(k)
    <3>1. PICK b \in Nat : c = b * (2 * k)
      BY DEF Multiples
    <3>2. c = (b * 2) * k /\ b * 2 \in Nat
      BY <1>4, <3>1
    <3> QED BY <3>2 DEF Multiples
  <2> QED BY <2>1
<1> QED BY <1>5, <1>6, <1>7, <1>8

\* Where the runs of k begin that are still to be merged, and those of 2 * k that are.
Fences(k, e) == {c \in Multiples(2 * k) : c <= e} \cup {c \in Multiples(k) : c >= e}
Apart(K, i, j) == \E c \in K : i <= c /\ c < j

\* No node has left the run that it was in to begin with.
Fenced(s, u, K) == \A c \in K : \A i \in 1..Len(u) : i <= c <=> Index(s, u[i]) <= c

\* The runs up to e are merged in pairs, and no node of any is out of order in it.
Merged(s, u, k, e) ==
  /\ k \in Nat \ {0} /\ e \in Multiples(2 * k) /\ u \in Seq(Nodes)
  /\ Fenced(s, u, Fences(k, e))
  /\ \A i, j \in 1..Len(u) : i < j /\ ~Apart(Fences(k, e), i, j) => Precedes(s, u[i], u[j])

\* Fences in the middle of the merge of the pair that begins behind b.
Around2(k, b) == {c \in Multiples(2 * k) : c <= b} \cup {c \in Multiples(k) : c >= b + 2 * k}

\* d nodes are merged, m are left of the left run and n at most of the right one.
Shape(u, k, b, d, m, n) ==
  /\ k \in Nat \ {0} /\ b \in Multiples(2 * k) /\ u \in Seq(Nodes)
  /\ d \in Nat /\ m \in Nat /\ n \in Nat
  /\ b <= d /\ d + m <= Len(u) /\ d + m + n <= b + 2 * k
  /\ d + m < Len(u) => d + m + n = b + 2 * k

Merging(s, u, k, b, d, m, n) ==
  /\ Shape(u, k, b, d, m, n)
  /\ Fenced(s, u, Around2(k, b))
  /\ \A i, j \in 1..Len(u) : i < j /\ ~Apart(Around2(k, b), i, j) =>
       IF d < i /\ i <= d + m /\ d + m < j THEN Index(s, u[i]) < Index(s, u[j])
                                           ELSE Precedes(s, u[i], u[j])

LEMMA AroundIs ==
  ASSUME NEW k \in Nat \ {0}, NEW b \in Multiples(2 * k)
  PROVE  /\ b \in Nat /\ b + 2 * k \in Multiples(2 * k)
         /\ Around2(k, b) \subseteq Nat
         /\ \A c \in Around2(k, b) : c <= b \/ c >= b + 2 * k
         /\ b + 2 * k \in Around2(k, b) /\ b \in Around2(k, b)
<1>1. 2 * k \in Nat \ {0}
  OBVIOUS
<1>2. Multiples(2 * k) \subseteq Nat /\ Multiples(k) \subseteq Nat /\ b + 2 * k \in Multiples(2 * k)
      /\ Multiples(2 * k) \subseteq Multiples(k)
  BY <1>1, MultiplesAre
<1> QED BY <1>2 DEF Around2

\* A node of the left run is taken: the first of the right run is not less.
LEMMA TakeLeftMerges ==
  ASSUME NEW s, NEW u, NEW k, NEW b, NEW d, NEW m, NEW n, Merging(s, u, k, b, d, m, n),
         m > 0, n > 0 /\ d + m < Len(u) => Key[u[d + 1]] <= Key[u[d + m + 1]]
  PROVE  Merging(s, u, k, b, d + 1, m - 1, n)
<1>1. /\ k \in Nat \ {0} /\ b \in Multiples(2 * k) /\ u \in Seq(Nodes) /\ Len(u) \in Nat
      /\ d \in Nat /\ m \in Nat /\ n \in Nat
      /\ b <= d /\ d + m <= Len(u) /\ d + m + n <= b + 2 * k
      /\ d + m < Len(u) => d + m + n = b + 2 * k
      /\ Fenced(s, u, Around2(k, b))
  BY DEF Merging, Shape
<1>2. b \in Nat /\ b + 2 * k \in Around2(k, b)
  BY <1>1, AroundIs
<1>3. d + 1 + (m - 1) = d + m /\ m - 1 \in Nat /\ d + 1 \in Nat
  BY <1>1
<1>4. Shape(u, k, b, d + 1, m - 1, n)
  BY <1>1, <1>2, <1>3 DEF Shape
<1> DEFINE K == Around2(k, b)
<1>5. ASSUME NEW i \in 1..Len(u), NEW j \in 1..Len(u), i < j, ~Apart(K, i, j)
      PROVE  IF d < i /\ i <= d + m /\ d + m < j THEN Index(s, u[i]) < Index(s, u[j])
                                                 ELSE Precedes(s, u[i], u[j])
  BY <1>5 DEF Merging
<1>6. ASSUME NEW i \in 1..Len(u), NEW j \in 1..Len(u), i < j, ~Apart(K, i, j), i = d + 1, d + m < j
      PROVE  Precedes(s, u[i], u[j])
  <2> DEFINE h == d + m + 1
  <2>1. Index(s, u[i]) < Index(s, u[j])
    BY <1>1, <1>5, <1>6
  <2>2. j <= b + 2 * k
    <3>1. i <= b + 2 * k
      BY <1>1, <1>6
    <3> QED BY <1>1, <1>2, <1>6, <3>1 DEF Apart
  <2>3. n > 0 /\ d + m < Len(u) /\ h \in 1..Len(u) /\ h <= j
    BY <1>1, <1>2, <1>6, <2>2
  <2>4. Key[u[i]] <= Key[u[h]]
    BY <1>6, <2>3
  <2>5. u[h] = u[j] \/ Precedes(s, u[h], u[j])
    <3>1. CASE h = j
      BY <3>1
    <3>2. CASE h < j
      <4>1. i <= h /\ ~(h <= d + m)
        BY <1>1, <1>6
      <4>2. ~Apart(K, h, j)
        <5> SUFFICES ASSUME NEW c \in K, h <= c, c < j PROVE FALSE
          BY DEF Apart
        <5>1. c \in Nat
          BY <1>1, AroundIs
        <5>2. i <= c
          BY <1>1, <1>6, <4>1, <5>1
        <5> QED BY <1>6, <5>2 DEF Apart
      <4> QED BY <1>5, <2>3, <3>2, <4>1, <4>2
    <3> QED BY <1>1, <2>3, <3>1, <3>2
  <2>6. u[i] \in Nodes /\ u[j] \in Nodes /\ u[h] \in Nodes
    BY <1>1, <2>3
  <2> HIDE DEF h
  <2> QED BY <2>1, <2>4, <2>5, <2>6, PrecedesLate
<1>7. ASSUME NEW i \in 1..Len(u), NEW j \in 1..Len(u), i < j, ~Apart(K, i, j)
      PROVE  IF d + 1 < i /\ i <= d + 1 + (m - 1) /\ d + 1 + (m - 1) < j
             THEN Index(s, u[i]) < Index(s, u[j]) ELSE Precedes(s, u[i], u[j])
  <2>1. CASE i = d + 1 /\ d + m < j
    BY <1>1, <1>6, <1>7, <2>1
  <2>2. CASE ~(i = d + 1 /\ d + m < j)
    <3>1. (d + 1 < i /\ i <= d + m /\ d + m < j) <=> (d < i /\ i <= d + m /\ d + m < j)
      BY <1>1, <2>2
    <3> QED BY <1>3, <1>5, <1>7, <3>1
  <2> QED BY <2>1, <2>2
<1> QED BY <1>1, <1>4, <1>7 DEF Merging

\* The node at h comes to d + 1, and those from there on one further.
From(d, h, i) == IF i = d + 1 THEN h ELSE IF d + 1 < i /\ i <= h THEN i - 1 ELSE i
MovedUp(u, d, h, w) ==
  w \in Seq(Nodes) /\ Len(w) = Len(u) /\ \A i \in 1..Len(u) : w[i] = u[From(d, h, i)]

\* A node of the right run is taken: it is less than the first of the left run.
LEMMA TakeRightMerges ==
  ASSUME NEW s, NEW u, NEW k, NEW b, NEW d, NEW m, NEW n, Merging(s, u, k, b, d, m, n),
         n > 0, d + m < Len(u), m > 0 => Key[u[d + m + 1]] < Key[u[d + 1]],
         NEW w, MovedUp(u, d, d + m + 1, w)
  PROVE  Merging(s, w, k, b, d + 1, m, n - 1)
<1> DEFINE h == d + m + 1
           K == Around2(k, b)
           f(i) == From(d, h, i)
<1>1. /\ k \in Nat \ {0} /\ b \in Multiples(2 * k) /\ u \in Seq(Nodes) /\ Len(u) \in Nat
      /\ d \in Nat /\ m \in Nat /\ n \in Nat
      /\ b <= d /\ d + m <= Len(u) /\ d + m + n = b + 2 * k
      /\ Fenced(s, u, K)
  BY DEF Merging, Shape
<1>2. b \in Nat /\ b + 2 * k \in K /\ K \subseteq Nat /\ \A c \in K : c <= b \/ c >= b + 2 * k
  BY <1>1, AroundIs
<1>3. h \in 1..Len(u) /\ d < h /\ h <= b + 2 * k
  BY <1>1, <1>2
<1>4. w \in Seq(Nodes) /\ Len(w) = Len(u) /\ \A i \in 1..Len(u) : w[i] = u[f(i)]
  BY DEF MovedUp
<1>5. Shape(w, k, b, d + 1, m, n - 1)
  <2>1. /\ d + 1 \in Nat /\ n - 1 \in Nat /\ b <= d + 1 /\ d + 1 + m <= Len(u)
        /\ d + 1 + m + (n - 1) = b + 2 * k
    BY <1>1, <1>2
  <2> QED BY <1>1, <1>4, <2>1 DEF Shape
<1>6. ASSUME NEW i \in 1..Len(u)
      PROVE  /\ f(i) \in 1..Len(u)
             /\ \A c \in K : i <= c <=> f(i) <= c
  <2> DEFINE e == b + 2 * k
  <2>1. /\ Len(u) \in Nat /\ d \in Nat /\ h \in 1..Len(u) /\ d < h /\ b \in Nat /\ e \in Nat /\ b <= d /\ h <= e
        /\ \A c \in K : c \in Nat /\ (c <= b \/ c >= e)
    BY <1>1, <1>2, <1>3
  <2> HIDE DEF e, h, K
  <2>2. CASE i = d + 1
    <3>1. f(i) = h
      BY <2>2 DEF From
    <3> QED BY <2>1, <2>2, <3>1
  <2>3. CASE d + 1 < i /\ i <= h
    <3>1. f(i) = i - 1
      BY <2>1, <2>3 DEF From
    <3> QED BY <2>1, <2>3, <3>1
  <2>4. CASE i # d + 1 /\ ~(d + 1 < i /\ i <= h)
    <3>1. f(i) = i
      BY <2>4 DEF From
    <3> QED BY <3>1
  <2> QED BY <2>2, <2>3, <2>4
<1>7. Fenced(s, w, K)
  <2> SUFFICES ASSUME NEW c \in K, NEW i \in 1..Len(u) PROVE i <= c <=> Index(s, w[i]) <= c
    BY <1>4 DEF Fenced
  <2>1. f(i) <= c <=> Index(s, u[f(i)]) <= c
    BY <1>1, <1>6 DEF Fenced
  <2> QED BY <1>4, <1>6, <2>1
<1>8. ASSUME NEW i \in 1..Len(u), NEW j \in 1..Len(u), i < j, ~Apart(K, i, j)
      PROVE  IF d < i /\ i <= d + m /\ d + m < j THEN Index(s, u[i]) < Index(s, u[j])
                                                 ELSE Precedes(s, u[i], u[j])
  BY <1>8 DEF Merging
<1>9. ASSUME NEW i \in 1..Len(u), NEW j \in 1..Len(u), ~Apart(K, i, j)
      PROVE  ~Apart(K, f(i), f(j))
  <2> SUFFICES ASSUME NEW c \in K, f(i) <= c, c < f(j) PROVE FALSE
    BY DEF Apart
  <2>1. i <= c /\ ~(f(j) <= c) /\ c \in Nat
    BY <1>2, <1>6
  <2>2. ~(j <= c)
    BY <1>6, <2>1
  <2>3. c < j
    BY <2>1, <2>2
  <2> QED BY <1>9, <2>1, <2>3 DEF Apart
<1>10. ASSUME NEW i \in 1..Len(u), NEW j \in 1..Len(u), i < j, ~Apart(K, i, j)
       PROVE  IF d + 1 < i /\ i <= d + 1 + m /\ d + 1 + m < j
              THEN Index(s, w[i]) < Index(s, w[j]) ELSE Precedes(s, w[i], w[j])
  <2>0. f(i) \in 1..Len(u) /\ f(j) \in 1..Len(u) /\ w[i] = u[f(i)] /\ w[j] = u[f(j)] /\ ~Apart(K, f(i), f(j))
    BY <1>4, <1>6, <1>9, <1>10
  <2>1. CASE i # d + 1
    <3>1. /\ f(i) < f(j)
          /\ (d < f(i) /\ f(i) <= d + m /\ d + m < f(j)) <=> (d + 1 < i /\ i <= d + 1 + m /\ d + 1 + m < j)
      BY <1>1, <1>10, <2>1 DEF From
    <3> HIDE DEF f
    <3> QED BY <1>8, <2>0, <3>1
  <2>2. CASE i = d + 1 /\ j > h
    <3>1. f(i) = h /\ f(j) = j /\ ~(h <= d + m) /\ ~(d + 1 < i)
      BY <1>1, <2>2 DEF From
    <3> HIDE DEF f, h
    <3> QED BY <1>8, <2>0, <2>2, <3>1
  <2>3. CASE i = d + 1 /\ j <= h
    <3>1. f(i) = h /\ f(j) = j - 1 /\ d + 1 <= j - 1 /\ m > 0 /\ d + 1 \in 1..Len(u) /\ j - 1 \in 1..Len(u)
      <4>1. Len(u) \in Nat /\ d \in Nat /\ m \in Nat /\ h \in 1..Len(u) /\ i < j /\ i = d + 1 /\ j <= h
        BY <1>1, <1>3, <1>10, <2>3
      <4>2. d + 1 < j /\ m > 0
        BY <4>1
      <4>3. f(i) = h /\ f(j) = j - 1
        BY <4>1, <4>2 DEF From
      <4> HIDE DEF h, f
      <4> QED BY <4>1, <4>2, <4>3
    <3>2. Key[u[h]] < Key[u[d + 1]]
      BY <3>1
    <3>3. u[d + 1] = u[j - 1] \/ Precedes(s, u[d + 1], u[j - 1])
      <4>1. CASE j - 1 = d + 1
        BY <4>1
      <4>2. CASE d + 1 < j - 1
        <5>1. ~Apart(K, d + 1, j - 1)
          <6> SUFFICES ASSUME NEW c \in K, d + 1 <= c, c < j - 1 PROVE FALSE
            BY DEF Apart
          <6>1. c \in Nat /\ (c <= b \/ c >= b + 2 * k)
            BY <1>2
          <6> DEFINE e == b + 2 * k
          <6>2. e \in Nat /\ b <= d /\ h <= e /\ (c <= b \/ c >= e)
            BY <1>1, <1>2, <1>3, <6>1
          <6>3. d \in Nat /\ h \in Nat /\ b \in Nat /\ j <= h
            BY <1>1, <1>2, <1>3, <2>3
          <6> HIDE DEF e, h
          <6>4. ~(c <= b)
            BY <6>1, <6>2, <6>3
          <6>5. ~(c >= e)
            BY <6>1, <6>2, <6>3
          <6> QED BY <6>2, <6>4, <6>5
        <5>2. ~(d + m < j - 1)
          BY <1>1, <2>3
        <5> QED BY <1>8, <3>1, <4>2, <5>1, <5>2
      <4> QED BY <1>1, <3>1, <4>1, <4>2
    <3>4. u[h] \in Nodes /\ u[d + 1] \in Nodes /\ u[j - 1] \in Nodes
      BY <1>1, <1>3, <3>1
    <3>5. Precedes(s, u[h], u[j - 1])
      <4> HIDE DEF h
      <4> QED BY <3>2, <3>3, <3>4, PrecedesEarly
    <3>6. ~(d + 1 < i)
      BY <1>1, <2>3
    <3> QED BY <2>0, <3>1, <3>5, <3>6
  <2> QED BY <1>1, <1>3, <2>1, <2>2, <2>3
<1> QED BY <1>1, <1>4, <1>5, <1>7, <1>10 DEF Merging

\* The next pair of runs.
LEMMA RunStarts ==
  ASSUME NEW s, NEW u, NEW k, NEW e, Merged(s, u, k, e), e <= Len(u),
         \A i \in 1..Len(u) : Index(s, u[i]) \in Nat, NEW m,
         m = IF k < Len(u) - e THEN k ELSE Len(u) - e
  PROVE  Merging(s, u, k, e, e, m, k)
<1>1. /\ k \in Nat \ {0} /\ e \in Multiples(2 * k) /\ u \in Seq(Nodes) /\ Len(u) \in Nat
      /\ Fenced(s, u, Fences(k, e))
  BY DEF Merged
<1>2. 2 * k \in Nat \ {0} /\ Multiples(2 * k) \subseteq Multiples(k) /\ Multiples(k) \subseteq Nat /\ e \in Nat
      /\ e \in Multiples(k) /\ e + k \in Multiples(k) /\ e + k \in Nat
      /\ \A c, d \in Multiples(k) : c < d => c + k <= d
  <2>1. 2 * k \in Nat \ {0}
    BY <1>1
  <2>2. /\ Multiples(2 * k) \subseteq Multiples(k) /\ Multiples(k) \subseteq Nat
        /\ \A c \in Multiples(k) : c + k \in Multiples(k)
        /\ \A c, d \in Multiples(k) : c < d => c + k <= d
    BY <1>1, MultiplesAre
  <2> QED BY <1>1, <2>1, <2>2
<1>3. m \in Nat /\ m <= k /\ e + m <= Len(u) /\ (e + m < Len(u) => m = k)
  BY <1>1, <1>2
<1>4. Shape(u, k, e, e, m, k)
  BY <1>1, <1>2, <1>3 DEF Shape
<1>5. Around2(k, e) \subseteq Fences(k, e) /\ e \in Around2(k, e) /\ e + k \in Fences(k, e)
  BY <1>1, <1>2 DEF Around2, Fences
<1>6. Fenced(s, u, Around2(k, e))
  BY <1>1, <1>5 DEF Fenced
<1>7. ASSUME NEW i \in 1..Len(u), NEW j \in 1..Len(u), i < j, ~Apart(Around2(k, e), i, j)
      PROVE  IF e < i /\ i <= e + m /\ e + m < j THEN Index(s, u[i]) < Index(s, u[j])
                                                 ELSE Precedes(s, u[i], u[j])
  <2>1. CASE e < i /\ i <= e + m /\ e + m < j
    <3>1. m = k
      BY <1>1, <1>2, <1>3, <2>1
    <3>2. i <= e + k /\ ~(j <= e + k)
      BY <1>1, <1>2, <2>1, <3>1
    <3>3. Index(s, u[i]) \in Nat /\ Index(s, u[j]) \in Nat
      OBVIOUS
    <3>4. Index(s, u[i]) <= e + k /\ ~(Index(s, u[j]) <= e + k)
      BY <1>1, <1>5, <3>2 DEF Fenced
    <3> QED BY <1>2, <2>1, <3>3, <3>4
  <2>2. CASE ~(e < i /\ i <= e + m /\ e + m < j)
    <3>1. ~Apart(Fences(k, e), i, j)
      <4> SUFFICES ASSUME NEW c \in Fences(k, e), i <= c, c < j PROVE FALSE
        BY DEF Apart
      <4>1. c \notin Around2(k, e)
        BY <1>7 DEF Apart
      <4>2. c \in Multiples(k) /\ c \in Nat /\ c # e /\ e <= c /\ ~(c >= e + 2 * k)
        BY <1>1, <1>2, <1>5, <4>1 DEF Fences, Around2
      <4>3. e + k <= c
        BY <1>2, <4>2
      <4>4. c = e + k
        <5> SUFFICES ASSUME e + k < c PROVE FALSE
          BY <1>1, <1>2, <4>2, <4>3
        <5>1. (e + k) + k <= c
          BY <1>2, <4>2
        <5> QED BY <1>1, <1>2, <4>2, <5>1
      <4>5. ~(i <= e)
        <5> SUFFICES ASSUME i <= e PROVE FALSE
          OBVIOUS
        <5>1. e < j
          BY <1>2, <4>2
        <5> QED BY <1>5, <1>7, <5>1 DEF Apart
      <4>6. m = k
        BY <1>1, <1>2, <1>3, <4>4
      <4> QED BY <1>1, <1>2, <2>2, <4>4, <4>5, <4>6
    <3> QED BY <1>7, <2>2, <3>1 DEF Merged
  <2> QED BY <2>1, <2>2
<1> QED BY <1>4, <1>6, <1>7 DEF Merging

\* Both runs are taken, and there is more.
LEMMA RunsOver ==
  ASSUME NEW s, NEW u, NEW k, NEW b, NEW d, NEW n, Merging(s, u, k, b, d, 0, n), n = 0,
         d < Len(u)
  PROVE  d = b + 2 * k /\ Merged(s, u, k, d)
<1>1. /\ k \in Nat \ {0} /\ b \in Multiples(2 * k) /\ u \in Seq(Nodes) /\ Len(u) \in Nat
      /\ d \in Nat /\ Fenced(s, u, Around2(k, b)) /\ d = b + 2 * k
  BY DEF Merging, Shape
<1>2. 2 * k \in Nat \ {0} /\ b \in Nat /\ b + 2 * k \in Multiples(2 * k) /\ b + 2 * k \in Around2(k, b)
  BY <1>1, AroundIs
<1>3. Fences(k, d) \subseteq Around2(k, b) /\ Around2(k, b) \subseteq Fences(k, d)
  <2>1. \A c, e \in Multiples(2 * k) : c < e => c + 2 * k <= e
    BY <1>2, MultiplesAre
  <2>2. Multiples(2 * k) \subseteq Nat
    BY <1>2, MultiplesAre
  <2>3. ASSUME NEW c \in Multiples(2 * k), c <= d PROVE c \in Around2(k, b)
    <3>1. CASE c <= b
      BY <3>1 DEF Around2
    <3>2. CASE ~(c <= b)
      <4>1. c = b + 2 * k
        <5>1. b < c
          BY <1>2, <2>2, <3>2
        <5>2. b + 2 * k <= c
          BY <1>1, <2>1, <5>1
        <5> QED BY <1>1, <1>2, <2>2, <2>3, <5>2
      <4> QED BY <1>2, <4>1
    <3> QED BY <3>1, <3>2
  <2>4. ASSUME NEW c \in Multiples(2 * k), c <= b PROVE c <= d
    BY <1>1, <1>2, <2>2, <2>4
  <2>5. Fences(k, d) \subseteq Around2(k, b)
    BY <1>1, <2>3 DEF Fences, Around2
  <2>6. Around2(k, b) \subseteq Fences(k, d)
    BY <1>1, <2>4 DEF Fences, Around2
  <2> QED BY <2>5, <2>6
<1>4. Fences(k, d) = Around2(k, b)
  BY <1>3
<1>5. ASSUME NEW i \in 1..Len(u), NEW j \in 1..Len(u), i < j, ~Apart(Around2(k, b), i, j)
      PROVE  Precedes(s, u[i], u[j])
  <2>1. ~(d < i /\ i <= d + 0)
    BY <1>1
  <2> QED BY <1>5, <2>1 DEF Merging
<1> QED BY <1>1, <1>2, <1>4, <1>5 DEF Merged

\* The pass is over: the runs are twice as long.
LEMMA PassOver ==
  ASSUME NEW s, NEW u, NEW k, NEW b, NEW d, NEW n, Merging(s, u, k, b, d, 0, n), d = Len(u)
  PROVE  Merged(s, u, 2 * k, 0)
<1>1. /\ k \in Nat \ {0} /\ b \in Multiples(2 * k) /\ u \in Seq(Nodes) /\ Len(u) \in Nat
      /\ d \in Nat /\ n \in Nat /\ Fenced(s, u, Around2(k, b)) /\ d <= b + 2 * k
  <2>1. Shape(u, k, b, d, 0, n) /\ Fenced(s, u, Around2(k, b))
    BY DEF Merging
  <2>2. /\ k \in Nat \ {0} /\ b \in Multiples(2 * k) /\ u \in Seq(Nodes)
        /\ d \in Nat /\ n \in Nat /\ d + 0 + n <= b + 2 * k
    BY <2>1 DEF Shape
  <2>3. b \in Nat
    BY <2>2, AroundIs
  <2> QED BY <2>1, <2>2, <2>3
<1>2. 2 * k \in Nat \ {0} /\ 2 * (2 * k) \in Nat \ {0} /\ b \in Nat
  BY <1>1, AroundIs
<1>3. Multiples(2 * k) \subseteq Nat /\ Multiples(2 * k) \subseteq Multiples(k)
      /\ \A c, e \in Multiples(2 * k) : c < e => c + 2 * k <= e
  BY <1>1, <1>2, MultiplesAre
<1>4. Multiples(2 * (2 * k)) \subseteq Multiples(2 * k) /\ 0 \in Multiples(2 * (2 * k))
  BY <1>2, MultiplesAre
<1>5. Fences(2 * k, 0) = Multiples(2 * k)
  BY <1>3, <1>4 DEF Fences
<1>6. Multiples(2 * k) \subseteq Around2(k, b)
  <2> SUFFICES ASSUME NEW c \in Multiples(2 * k), ~(c <= b) PROVE c \in Multiples(k) /\ c >= b + 2 * k
    BY DEF Around2
  <2>1. b < c /\ c \in Nat
    BY <1>2, <1>3
  <2>2. b + 2 * k <= c
    BY <1>1, <1>3, <2>1
  <2> QED BY <1>1, <1>2, <1>3, <2>1, <2>2
<1>7. Fenced(s, u, Fences(2 * k, 0))
  BY <1>1, <1>5, <1>6 DEF Fenced
<1>8. ASSUME NEW i \in 1..Len(u), NEW j \in 1..Len(u), i < j, ~Apart(Multiples(2 * k), i, j)
      PROVE  Precedes(s, u[i], u[j])
  <2>1. ~(d < i)
    BY <1>1
  <2>2. ~Apart(Around2(k, b), i, j)
    <3> SUFFICES ASSUME NEW c \in Around2(k, b), i <= c, c < j PROVE FALSE
      BY DEF Apart
    <3>1. c \notin Multiples(2 * k)
      BY <1>8 DEF Apart
    <3>2. c \in Nat /\ c >= b + 2 * k
      BY <1>1, <3>1, AroundIs DEF Around2
    <3> QED BY <1>1, <1>2, <3>2
  <2> QED BY <1>8, <2>1, <2>2 DEF Merging
<1> QED BY <1>1, <1>2, <1>4, <1>5, <1>7, <1>8 DEF Merged

\* Runs of one node are in order.
LEMMA FirstReady ==
  ASSUME NEW s \in Seq(Nodes), Injective(s)
  PROVE  Merged(s, s, 1, 0)
<1>1. 1 \in Nat \ {0} /\ 2 * 1 \in Nat \ {0}
  OBVIOUS
<1>2. 0 \in Multiples(2 * 1)
  BY <1>1, MultiplesAre
<1>3. \A i \in 1..Len(s) : Index(s, s[i]) = i
  BY IndexIs
<1>4. ASSUME NEW i \in Nat PROVE i \in Fences(1, 0)
  <2>1. i = i * 1
    OBVIOUS
  <2> QED BY <2>1 DEF Fences, Multiples
<1>5. Fenced(s, s, Fences(1, 0))
  BY <1>3 DEF Fenced
<1>6. ASSUME NEW i \in 1..Len(s), NEW j \in 1..Len(s), i < j PROVE Apart(Fences(1, 0), i, j)
  BY <1>4, <1>6 DEF Apart
<1> QED BY <1>1, <1>2, <1>5, <1>6 DEF Merged

\* Only one pair was merged, and it was the whole list.
LEMMA AllSorted ==
  ASSUME NEW s, NEW u, NEW k, NEW n, Merging(s, u, k, 0, Len(u), 0, n)
  PROVE  \A i, j \in 1..Len(u) : i < j => Precedes(s, u[i], u[j])
<1>1. /\ k \in Nat \ {0} /\ 0 \in Multiples(2 * k) /\ u \in Seq(Nodes) /\ Len(u) \in Nat
      /\ n \in Nat /\ Len(u) + 0 + n <= 0 + 2 * k
  BY DEF Merging, Shape
<1> SUFFICES ASSUME NEW i \in 1..Len(u), NEW j \in 1..Len(u), i < j
             PROVE  Precedes(s, u[i], u[j])
  OBVIOUS
<1>2. ~Apart(Around2(k, 0), i, j)
  <2> SUFFICES ASSUME NEW c \in Around2(k, 0), i <= c, c < j PROVE FALSE
    BY DEF Apart
  <2>1. c \in Nat /\ (c <= 0 \/ c >= 0 + 2 * k)
    BY <1>1, AroundIs
  <2> QED BY <1>1, <2>1
<1>3. ~(Len(u) < i)
  BY <1>1
<1> QED BY <1>2, <1>3 DEF Merging

-----------------------------------------------------------------------------
(* The list in the middle of sort().                                         *)

\* A sort() whose predicate is the order of the keys has merged what it has put back.
InProgress(l, sp, sq, b) ==
  /\ Halfway(l, sp, sq)
  /\ Merging(loop.before[l], Content(l) \o (sp \o sq), loop.at.k, b, Len(Content(l)),
             loop.at.psize, loop.at.qsize)
  /\ loop.at.merges >= 1 /\ (loop.at.merges = 1 => b = 0)

SortOrder == Running("sort") /\ loop.lawful => \E sp, sq, b : InProgress(loop.list, sp, sq, b)

\* Each of the nodes that were in the list is put back, or in what is left of the runs.
Nodeful(r, s, sp, sq, l) ==
  /\ s \o (sp \o sq) \in Seq(Nodes) /\ Len(s \o (sp \o sq)) = Len(s) + (Len(sp) + Len(sq))
  /\ Members(s \o (sp \o sq)) = NodesOf(l) /\ Injective(s \o (sp \o sq))
  /\ r \in Seq(Nodes) /\ Injective(r) /\ Members(r) = NodesOf(l)
  /\ \A i \in 1..Len(s \o (sp \o sq)) : Index(r, (s \o (sp \o sq))[i]) \in Nat

LEMMA HalfwayIs ==
  ASSUME IInv, Kept, Running("sort"), NEW l, l = loop.list, NEW sp, NEW sq, Halfway(l, sp, sq)
  PROVE  /\ l \in Lists /\ loop \in Loops /\ loop.at \in SortCursors
         /\ Content(l) \in Seq(Nodes) /\ sp \in Seq(Nodes) /\ sq \in Seq(Nodes)
         /\ Len(sp) = loop.at.psize /\ (sq = <<>> <=> loop.at.q = Null)
         /\ Nodeful(loop.before[l], Content(l), sp, sq, l)
<1> DEFINE s == Content(l)
           r == loop.before[l]
           u == s \o (sp \o sq)
<1>1. /\ l \in Lists /\ loop \in Loops /\ loop.at \in SortCursors /\ loop.op = "sort" /\ TypeOK /\ Rooted
  BY SortIs
<1>2. /\ sp \in Seq(Nodes) /\ sq \in Seq(Nodes) /\ Len(sp) = loop.at.psize
      /\ Steps(next, loop.at.q, Null, sq)
      /\ Injective(sp \o sq) /\ Members(sp \o sq) \subseteq CellsIn(parent, l) \ {l}
      /\ Ring(next, prev, CellsIn(parent, l) \ Members(sp \o sq))
  BY DEF Halfway, Runs
<1> DEFINE A == CellsIn(parent, l)
           R == A \ Members(sp \o sq)
<1>3. l \in A /\ NodesOf(l) = A \ {l} /\ NodesOf(l) \subseteq Nodes
  BY <1>1, CellFacts
<1>4. l \in R /\ R \subseteq Nodes \cup {l} /\ Ring(next, prev, R)
  BY <1>2, <1>3
<1> HIDE DEF A, R
<1>5. Yields(next, l, s) /\ Members(s) = R \ {l}
  BY <1>1, <1>4, RingYields
<1>0. u = s \o (sp \o sq)
  OBVIOUS
<1> HIDE DEF s, r, u
<1>6. s \in Seq(Nodes) /\ Injective(s)
  BY <1>5 DEF Yields
<1>7. sp \o sq \in Seq(Nodes) /\ Len(sp \o sq) = Len(sp) + Len(sq)
  BY <1>2, ConcatParts
<1>8. Members(s) \cap Members(sp \o sq) = {} /\ Members(s) \cup Members(sp \o sq) = NodesOf(l)
  BY <1>2, <1>3, <1>5 DEF A, R
<1>9. /\ u \in Seq(Nodes) /\ Len(u) = Len(s) + (Len(sp) + Len(sq))
      /\ Members(u) = NodesOf(l) /\ Injective(u)
  <2> DEFINE v == sp \o sq
  <2>1. v \in Seq(Nodes) /\ Injective(v) /\ Members(s) \cap Members(v) = {} /\ u = s \o v
    BY <1>0, <1>2, <1>7, <1>8
  <2>2. Len(v) = Len(sp) + Len(sq) /\ Members(s) \cup Members(v) = NodesOf(l)
    BY <1>7, <1>8
  <2> HIDE DEF v
  <2>3. /\ s \o v \in Seq(Nodes) /\ Len(s \o v) = Len(s) + Len(v)
        /\ Members(s \o v) = Members(s) \cup Members(v)
        /\ Injective(s \o v) <=> Injective(s) /\ Injective(v) /\ Members(s) \cap Members(v) = {}
    BY <1>6, <2>1, ConcatParts
  <2>4. Injective(s \o v)
    BY <1>6, <2>1, <2>3
  <2> QED BY <2>1, <2>2, <2>3, <2>4
<1>10. r \in Seq(Nodes) /\ Injective(r) /\ Members(r) = NodesOf(l)
  BY <1>1 DEF Loops, Kept, r
<1>11. \A i \in 1..Len(u) : Index(r, u[i]) \in Nat
  <2>1. \A i \in 1..Len(u) : u[i] \in Members(r)
    <3>1. DOMAIN u = 1..Len(u)
      BY <1>9
    <3>2. \A i \in 1..Len(u) : u[i] \in Members(u)
      BY <3>1 DEF Members
    <3> QED BY <1>9, <1>10, <3>2
  <2>2. 1..Len(r) \subseteq Nat
    BY <1>10
  <2> QED BY <1>10, <2>1, <2>2, IndexIs
<1>12. sq = <<>> <=> loop.at.q = Null
  BY <1>2 DEF Steps
<1>13. Nodeful(r, s, sp, sq, l)
  BY <1>0, <1>9, <1>10, <1>11 DEF Nodeful
<1> QED BY <1>1, <1>2, <1>6, <1>12, <1>13 DEF r, s

\* A node is put at the end.
LEMMA ContentGrows ==
  ASSUME IInv, Kept, Running("sort"), NEW l, l = loop.list, NEW sp, NEW sq, Halfway(l, sp, sq),
         NEW n \in Members(sp \o sq), next' = LinkBefore(Links, l, n).next, next' \in Pointers
  PROVE  Content(l)' = Content(l) \o <<n>>
<1> DEFINE s == Content(l)
           A == CellsIn(parent, l)
           R == A \ Members(sp \o sq)
<1>2. TypeOK /\ Rooted /\ l \in Lists
  BY SortIs
<1>3. /\ l \in A /\ A \ {l} \subseteq Nodes /\ Links = LinksOf(next, prev) /\ next \in Pointers /\ A \subseteq Cells
  BY <1>2, CellFacts
<1>4. /\ Members(sp \o sq) \subseteq A \ {l} /\ Ring(next, prev, R)
  BY DEF Halfway
<1>5. l \in R /\ R \subseteq Nodes \cup {l} /\ n \in Nodes /\ n \notin R /\ R \subseteq Cells /\ n \in Cells /\ l \in Cells
  BY <1>3, <1>4
<1> HIDE DEF A, R
<1>1. l \in Lists /\ s \in Seq(Nodes)
  BY <1>2, <1>4, <1>5, RingYields DEF Yields
<1> HIDE DEF s
<1>6. /\ Yields(next, l, s) /\ Members(s) = R \ {l} /\ Injective(s)
      /\ \A i \in 0..Len(s) : prev[Place(l, s, i + 1)] = Place(l, s, i)
  BY <1>1, <1>2, <1>4, <1>5, RingYields DEF s, Yields
<1>7. prev[l] = Place(l, s, Len(s)) /\ Place(l, s, Len(s) + 1) = l
  <2>1. Len(s) \in 0..Len(s) /\ ~(Len(s) + 1 \in 1..Len(s))
    BY <1>1
  <2> QED BY <1>6, <2>1 DEF Place
<1>8. \A m \in 0..Len(s) : Place(l, s, m) \in R
  BY <1>5, <1>6 DEF Place, Members
<1>9. prev[l] \in R /\ prev[l] # n
  <2>1. Len(s) \in 0..Len(s)
    BY <1>1
  <2> QED BY <1>5, <1>7, <1>8, <2>1
<1>10. next' = [[next EXCEPT ![prev[l]] = n] EXCEPT ![n] = l]
  BY <1>3 DEF LinkBefore, Join, LinksOf
<1>11. next'[prev[l]] = n /\ next'[n] = l /\ \A c \in R : c # prev[l] => next'[c] = next[c]
  BY <1>3, <1>5, <1>9, <1>10 DEF Pointers
<1> DEFINE t == <<n>>
<1>12. t \in Seq(Nodes) /\ Injective(t) /\ Len(t) = 1 /\ t[1] = n /\ t # <<>> /\ Members(t) = {n}
  BY <1>5 DEF Injective, Members
<1> HIDE DEF t
<1>13. LinkedIn(next, l, s, Len(s), t, next')
  <2>1. \A m \in 0..Len(s) : m # Len(s) => next'[Place(l, s, m)] = next[Place(l, s, m)]
    BY <1>1, <1>6, <1>7, <1>8, <1>11, PlacesDiffer
  <2>2. \A m \in 1..(Len(t) - 1) : next'[t[m]] = t[m + 1]
    BY <1>12
  <2> QED BY <1>7, <1>11, <1>12, <2>1, <2>2 DEF LinkedIn
<1>14. Len(s) \in 0..Len(s) /\ Members(s) \cap Members(t) = {}
  BY <1>1, <1>5, <1>6, <1>12
<1>15. Yields(next', l, Spliced(s, Len(s), t))
  BY <1>1, <1>6, <1>12, <1>13, <1>14, YieldsSpliced
<1>16. Spliced(s, Len(s), t) = s \o t
  <2> DEFINE v == Spliced(s, Len(s), t)
  <2>1. SplicedSeq(Nodes, s, Len(s), t, v)
    BY <1>1, <1>12, <1>14, SplicedIs
  <2> HIDE DEF v
  <2>2. v \in Seq(Nodes) /\ Len(v) = Len(s) + 1
        /\ \A m \in 1..(Len(s) + 1) : v[m] = IF m <= Len(s) THEN s[m] ELSE t[m - Len(s)]
    BY <1>1, <1>12, <2>1 DEF SplicedSeq
  <2>3. s \o t \in Seq(Nodes) /\ Len(s \o t) = Len(s) + 1
        /\ \A m \in 1..(Len(s) + 1) : (s \o t)[m] = IF m <= Len(s) THEN s[m] ELSE t[m - Len(s)]
    BY <1>1, <1>12, ConcatProperties
  <2>4. v = s \o t
    BY <2>2, <2>3, SameSequence
  <2> QED BY <2>4 DEF v
<1>17. Path(next', next'[l], l) = s \o t
  BY <1>1, <1>15, <1>16, YieldsPath
<1> QED BY <1>17 DEF s, t, Content

LEMMA ThreeParts ==
  ASSUME NEW x \in Seq(Nodes), NEW y \in Seq(Nodes), NEW z \in Seq(Nodes), NEW w, w = x \o (y \o z)
  PROVE  /\ w \in Seq(Nodes) /\ Len(w) = Len(x) + (Len(y) + Len(z))
         /\ \A i \in 1..(Len(x) + (Len(y) + Len(z))) :
              w[i] = IF i <= Len(x) THEN x[i]
                     ELSE IF i <= Len(x) + Len(y) THEN y[i - Len(x)] ELSE z[i - (Len(x) + Len(y))]
<1> DEFINE v == y \o z
<1>1. /\ v \in Seq(Nodes) /\ Len(v) = Len(y) + Len(z)
      /\ \A i \in 1..(Len(y) + Len(z)) : v[i] = IF i <= Len(y) THEN y[i] ELSE z[i - Len(y)]
  BY ConcatProperties
<1>0. w = x \o v
  OBVIOUS
<1> HIDE DEF v
<1>2. /\ x \o v \in Seq(Nodes) /\ Len(x \o v) = Len(x) + Len(v)
      /\ \A i \in 1..(Len(x) + Len(v)) : (x \o v)[i] = IF i <= Len(x) THEN x[i] ELSE v[i - Len(x)]
  BY <1>1, ConcatProperties
<1>3. ASSUME NEW i \in 1..(Len(x) + (Len(y) + Len(z)))
      PROVE  w[i] = IF i <= Len(x) THEN x[i]
                    ELSE IF i <= Len(x) + Len(y) THEN y[i - Len(x)] ELSE z[i - (Len(x) + Len(y))]
  <2>1. w[i] = IF i <= Len(x) THEN x[i] ELSE v[i - Len(x)]
    BY <1>0, <1>1, <1>2
  <2>2. CASE i <= Len(x)
    BY <2>1, <2>2
  <2>3. CASE ~(i <= Len(x))
    <3>1. i - Len(x) \in 1..(Len(y) + Len(z)) /\ (i - Len(x)) - Len(y) = i - (Len(x) + Len(y))
          /\ (i - Len(x) <= Len(y) <=> i <= Len(x) + Len(y))
      BY <2>3
    <3>2. v[i - Len(x)] = IF i <= Len(x) + Len(y) THEN y[i - Len(x)] ELSE z[i - (Len(x) + Len(y))]
      BY <1>1, <3>1
    <3> QED BY <2>1, <2>3, <3>2
  <2> QED BY <2>2, <2>3
<1> QED BY <1>0, <1>1, <1>2, <1>3

LEMMA OneMore ==
  ASSUME NEW s \in Seq(Nodes), NEW n \in Nodes, NEW x, x = s \o <<n>>
  PROVE  /\ x \in Seq(Nodes) /\ Len(x) = Len(s) + 1
         /\ \A i \in 1..(Len(s) + 1) : x[i] = IF i <= Len(s) THEN s[i] ELSE n
<1> DEFINE t == <<n>>
<1>1. t \in Seq(Nodes) /\ Len(t) = 1 /\ t[1] = n /\ x = s \o t
  OBVIOUS
<1> HIDE DEF t
<1>2. /\ s \o t \in Seq(Nodes) /\ Len(s \o t) = Len(s) + Len(t)
      /\ \A i \in 1..(Len(s) + Len(t)) : (s \o t)[i] = IF i <= Len(s) THEN s[i] ELSE t[i - Len(s)]
  BY <1>1, ConcatProperties
<1>3. ASSUME NEW i \in 1..(Len(s) + 1) PROVE x[i] = IF i <= Len(s) THEN s[i] ELSE n
  <2>1. ~(i <= Len(s)) => i - Len(s) = 1
    OBVIOUS
  <2> QED BY <1>1, <1>2, <2>1
<1> QED BY <1>1, <1>2, <1>3

\* Taken from the left run, a node stays where it would have come to.
LEMMA LeftStays ==
  ASSUME NEW s \in Seq(Nodes), NEW sp \in Seq(Nodes), NEW sq \in Seq(Nodes), sp # <<>>
  PROVE  (s \o <<sp[1]>>) \o (Tail(sp) \o sq) = s \o (sp \o sq)
<1> DEFINE x == s \o <<sp[1]>>
           y == Tail(sp)
           u == s \o (sp \o sq)
           w == x \o (y \o sq)
<1>1. /\ y \in Seq(Nodes) /\ Len(y) = Len(sp) - 1 /\ Len(sp) \in Nat \ {0} /\ sp[1] \in Nodes
      /\ \A i \in 1..(Len(sp) - 1) : y[i] = sp[i + 1]
  BY TailIs
<1> HIDE DEF y
<1>0. x = s \o <<sp[1]>> /\ u = s \o (sp \o sq) /\ w = x \o (y \o sq)
  OBVIOUS
<1> HIDE DEF x, u, w
<1>2. /\ x \in Seq(Nodes) /\ Len(x) = Len(s) + 1
      /\ \A i \in 1..(Len(s) + 1) : x[i] = IF i <= Len(s) THEN s[i] ELSE sp[1]
  <2> DEFINE n == sp[1]
  <2>1. n \in Nodes /\ x = s \o <<n>>
    BY <1>0, <1>1
  <2> HIDE DEF n
  <2>2. /\ x \in Seq(Nodes) /\ Len(x) = Len(s) + 1
        /\ \A i \in 1..(Len(s) + 1) : x[i] = IF i <= Len(s) THEN s[i] ELSE n
    BY <2>1, OneMore
  <2> QED BY <2>2 DEF n
<1>3. /\ u \in Seq(Nodes) /\ Len(u) = Len(s) + (Len(sp) + Len(sq))
      /\ \A i \in 1..(Len(s) + (Len(sp) + Len(sq))) :
           u[i] = IF i <= Len(s) THEN s[i]
                  ELSE IF i <= Len(s) + Len(sp) THEN sp[i - Len(s)] ELSE sq[i - (Len(s) + Len(sp))]
  BY <1>0, ThreeParts
<1>4. /\ w \in Seq(Nodes) /\ Len(w) = Len(x) + (Len(y) + Len(sq))
      /\ \A i \in 1..(Len(x) + (Len(y) + Len(sq))) :
           w[i] = IF i <= Len(x) THEN x[i]
                  ELSE IF i <= Len(x) + Len(y) THEN y[i - Len(x)] ELSE sq[i - (Len(x) + Len(y))]
  <2>1. x \in Seq(Nodes) /\ y \in Seq(Nodes) /\ w = x \o (y \o sq)
    BY <1>0, <1>1, <1>2
  <2> QED BY <2>1, ThreeParts
<1>5. Len(w) = Len(u) /\ Len(x) + Len(y) = Len(s) + Len(sp)
  BY <1>1, <1>2, <1>3, <1>4
<1>6. ASSUME NEW i \in 1..Len(u) PROVE w[i] = u[i]
  <2>0. i \in 1..(Len(s) + (Len(sp) + Len(sq))) /\ i \in 1..(Len(x) + (Len(y) + Len(sq)))
    BY <1>3, <1>4, <1>5
  <2>1. CASE i <= Len(s)
    <3>1. i <= Len(x) /\ i \in 1..(Len(s) + 1)
      BY <1>2, <2>1
    <3>2. w[i] = x[i] /\ u[i] = s[i]
      BY <1>3, <1>4, <2>0, <2>1, <3>1
    <3> QED BY <1>2, <2>1, <3>1, <3>2
  <2>2. CASE i = Len(s) + 1
    <3>1. i - Len(s) = 1 /\ i <= Len(s) + Len(sp) /\ ~(i <= Len(s)) /\ i <= Len(x) /\ i \in 1..(Len(s) + 1)
      BY <1>1, <1>2, <2>2
    <3> QED BY <1>2, <1>3, <1>4, <2>0, <3>1
  <2>3. CASE i > Len(s) + 1 /\ i <= Len(s) + Len(sp)
    <3>1. i - Len(x) \in 1..(Len(sp) - 1) /\ (i - Len(x)) + 1 = i - Len(s) /\ ~(i <= Len(s)) /\ ~(i <= Len(x))
      BY <1>1, <1>2, <2>3
    <3> QED BY <1>1, <1>3, <1>4, <1>5, <2>0, <2>3, <3>1
  <2>4. CASE i > Len(s) + Len(sp)
    <3>1. ~(i <= Len(s) + Len(sp)) /\ ~(i <= Len(s)) /\ ~(i <= Len(x))
      BY <1>1, <1>2, <2>4
    <3> QED BY <1>3, <1>4, <1>5, <2>0, <3>1
  <2> QED BY <1>1, <2>1, <2>2, <2>3, <2>4
<1>7. w = u
  BY <1>3, <1>4, <1>5, <1>6, SameSequence
<1> QED BY <1>7 DEF u, w, x, y

\* Taken from the right run, it comes before what is left of the left one.
LEMMA RightMoves ==
  ASSUME NEW s \in Seq(Nodes), NEW sp \in Seq(Nodes), NEW sq \in Seq(Nodes), sq # <<>>
  PROVE  MovedUp(s \o (sp \o sq), Len(s), Len(s) + Len(sp) + 1, (s \o <<sq[1]>>) \o (sp \o Tail(sq)))
<1> DEFINE x == s \o <<sq[1]>>
           y == Tail(sq)
           u == s \o (sp \o sq)
           w == x \o (sp \o y)
           h == Len(s) + Len(sp) + 1
<1>1. /\ y \in Seq(Nodes) /\ Len(y) = Len(sq) - 1 /\ Len(sq) \in Nat \ {0} /\ sq[1] \in Nodes
      /\ \A i \in 1..(Len(sq) - 1) : y[i] = sq[i + 1]
  BY TailIs
<1> HIDE DEF y
<1>0. x = s \o <<sq[1]>> /\ u = s \o (sp \o sq) /\ w = x \o (sp \o y)
  OBVIOUS
<1> HIDE DEF x, u, w
<1>2. /\ x \in Seq(Nodes) /\ Len(x) = Len(s) + 1
      /\ \A i \in 1..(Len(s) + 1) : x[i] = IF i <= Len(s) THEN s[i] ELSE sq[1]
  <2> DEFINE n == sq[1]
  <2>1. n \in Nodes /\ x = s \o <<n>>
    BY <1>0, <1>1
  <2> HIDE DEF n
  <2>2. /\ x \in Seq(Nodes) /\ Len(x) = Len(s) + 1
        /\ \A i \in 1..(Len(s) + 1) : x[i] = IF i <= Len(s) THEN s[i] ELSE n
    BY <2>1, OneMore
  <2> QED BY <2>2 DEF n
<1>3. /\ u \in Seq(Nodes) /\ Len(u) = Len(s) + (Len(sp) + Len(sq))
      /\ \A i \in 1..(Len(s) + (Len(sp) + Len(sq))) :
           u[i] = IF i <= Len(s) THEN s[i]
                  ELSE IF i <= Len(s) + Len(sp) THEN sp[i - Len(s)] ELSE sq[i - (Len(s) + Len(sp))]
  BY <1>0, ThreeParts
<1>4. /\ w \in Seq(Nodes) /\ Len(w) = Len(x) + (Len(sp) + Len(y))
      /\ \A i \in 1..(Len(x) + (Len(sp) + Len(y))) :
           w[i] = IF i <= Len(x) THEN x[i]
                  ELSE IF i <= Len(x) + Len(sp) THEN sp[i - Len(x)] ELSE y[i - (Len(x) + Len(sp))]
  <2>1. x \in Seq(Nodes) /\ y \in Seq(Nodes) /\ w = x \o (sp \o y)
    BY <1>0, <1>1, <1>2
  <2> QED BY <2>1, ThreeParts
<1>5. Len(w) = Len(u) /\ Len(x) + Len(sp) = h /\ h \in Nat /\ Len(s) \in Nat /\ Len(sp) \in Nat
  BY <1>1, <1>2, <1>3, <1>4
<1>6. ASSUME NEW i \in 1..Len(u) PROVE w[i] = u[From(Len(s), h, i)]
  <2> DEFINE j == From(Len(s), h, i)
  <2>0. i \in 1..(Len(s) + (Len(sp) + Len(sq))) /\ i \in 1..(Len(x) + (Len(sp) + Len(y)))
    BY <1>3, <1>4, <1>5
  <2>1. CASE i <= Len(s)
    <3>1. j = i /\ i <= Len(x) /\ i \in 1..(Len(s) + 1)
      BY <1>1, <1>2, <1>5, <2>1 DEF From
    <3> HIDE DEF j
    <3> QED BY <1>2, <1>3, <1>4, <2>0, <2>1, <3>1 DEF j
  <2>2. CASE i = Len(s) + 1
    <3>1. j = h
      BY <2>2 DEF From
    <3>2. /\ h \in 1..(Len(s) + (Len(sp) + Len(sq))) /\ h - (Len(s) + Len(sp)) = 1
          /\ ~(h <= Len(s)) /\ ~(h <= Len(s) + Len(sp)) /\ ~(i <= Len(s)) /\ i <= Len(x) /\ i \in 1..(Len(s) + 1)
      BY <1>1, <1>2, <1>5, <2>2
    <3>3. u[h] = sq[1]
      BY <1>3, <3>2
    <3>4. w[i] = sq[1]
      BY <1>2, <1>4, <2>0, <3>2
    <3> QED BY <3>1, <3>3, <3>4
  <2>3. CASE i > Len(s) + 1 /\ i <= h
    <3>1. j = i - 1
      BY <1>5, <2>3 DEF From
    <3>2. /\ i - 1 \in 1..(Len(s) + (Len(sp) + Len(sq))) /\ (i - 1) - Len(s) = i - Len(x)
          /\ ~(i - 1 <= Len(s)) /\ i - 1 <= Len(s) + Len(sp) /\ ~(i <= Len(x))
      BY <1>1, <1>2, <1>5, <2>3
    <3>3. u[i - 1] = sp[i - Len(x)]
      BY <1>3, <3>2
    <3>4. w[i] = sp[i - Len(x)]
      BY <1>4, <1>5, <2>0, <2>3, <3>2
    <3> QED BY <3>1, <3>3, <3>4
  <2>4. CASE i > h
    <3>1. j = i
      BY <1>5, <2>4 DEF From
    <3>2. /\ ~(i <= Len(s)) /\ ~(i <= Len(s) + Len(sp)) /\ ~(i <= Len(x)) /\ ~(i <= h)
          /\ i - h \in 1..(Len(sq) - 1) /\ (i - h) + 1 = i - (Len(s) + Len(sp))
      BY <1>1, <1>2, <1>3, <1>5, <2>4
    <3>3. u[i] = sq[i - (Len(s) + Len(sp))]
      BY <1>3, <2>0, <3>2
    <3>4. w[i] = y[i - h]
      BY <1>4, <1>5, <2>0, <3>2
    <3> QED BY <1>1, <3>1, <3>2, <3>3, <3>4
  <2> QED BY <1>5, <2>1, <2>2, <2>3, <2>4
<1>7. MovedUp(u, Len(s), h, w)
  BY <1>4, <1>5, <1>6 DEF MovedUp
<1> QED BY <1>7 DEF u, w, x, y, h

\* A turn that only moves the cursors of sort() keeps what it is sorting.
LEMMA SortKeeps ==
  ASSUME loop \in Loops, Running("sort"), loop' = [loop EXCEPT !.at = loop'.at], loop' # Null
  PROVE  /\ loop'.list = loop.list /\ loop'.before = loop.before /\ loop'.lawful = loop.lawful
         /\ Running("sort")'
<1>1. /\ loop'.op = loop.op /\ loop'.list = loop.list /\ loop'.before = loop.before
      /\ loop'.lawful = loop.lawful
  BY TurnKeeps
<1> QED BY <1>1 DEF Running

LEMMA SortTakeOrders ==
  ASSUME IInv, Kept, SortOrder, SortTake
  PROVE  SortOrder'
<1> SUFFICES ASSUME (Running("sort") /\ loop.lawful)'
             PROVE  \E sp, sq, b : InProgress(loop.list, sp, sq, b)'
  BY DEF SortOrder
<1>1. Running("sort")
  BY DEF SortTake
<1>2. PICK l \in Lists : l = loop.list
  BY <1>1, SortIs
<1>3. loop \in Loops /\ loop' # Null /\ loop' = [loop EXCEPT !.at = loop'.at]
  <2>1. PICK sp, sq : Halfway(l, sp, sq)
    BY <1>1, <1>2, SortIs
  <2> QED BY <1>1, <1>2, <2>1, SortIs, SortTakes DEF Running
<1>4. loop'.list = l /\ loop'.before = loop.before /\ loop'.lawful = loop.lawful
  BY <1>1, <1>2, <1>3, SortKeeps
<1>5. PICK sp, sq, b : InProgress(l, sp, sq, b)
  BY <1>1, <1>2, <1>4 DEF SortOrder
<1>6. Halfway(l, sp, sq)
  BY <1>5 DEF InProgress
<1>7. /\ next' \in Pointers /\ loop'.at.k = loop.at.k /\ loop'.at.merges = loop.at.merges
      /\ TookLeft(l, sp, sq) \/ TookRight(l, sp, sq)
  BY <1>2, <1>6, SortTakes
<1> DEFINE s == Content(l)
           r == loop.before[l]
           u == s \o (sp \o sq)
           k == loop.at.k
           m == loop.at.psize
           n == loop.at.qsize
           d == Len(s)
<1>8. Merging(r, u, k, b, d, m, n) /\ loop.at.merges >= 1 /\ (loop.at.merges = 1 => b = 0)
  BY <1>5 DEF InProgress
<1>9. /\ s \in Seq(Nodes) /\ sp \in Seq(Nodes) /\ sq \in Seq(Nodes) /\ loop.at \in SortCursors
      /\ Len(sp) = m /\ (sq = <<>> <=> loop.at.q = Null)
  BY <1>1, <1>2, <1>6, HalfwayIs
<1>10. m \in Nat /\ n \in Nat /\ d \in Nat /\ k \in Nat
  BY <1>9 DEF SortCursors
<1>11. loop'.before[l] = r
  BY <1>4
<1>12. Members(sp \o sq) = Members(sp) \cup Members(sq)
  BY <1>9, ConcatParts
<1>13. /\ u \in Seq(Nodes) /\ Len(u) = d + (m + Len(sq))
       /\ \A i \in 1..(d + (m + Len(sq))) :
            u[i] = IF i <= d THEN s[i] ELSE IF i <= d + m THEN sp[i - d] ELSE sq[i - (d + m)]
  <2> HIDE DEF s, u, m, d
  <2>1. /\ u \in Seq(Nodes) /\ Len(u) = Len(s) + (Len(sp) + Len(sq))
        /\ \A i \in 1..(Len(s) + (Len(sp) + Len(sq))) :
             u[i] = IF i <= Len(s) THEN s[i]
                    ELSE IF i <= Len(s) + Len(sp) THEN sp[i - Len(s)] ELSE sq[i - (Len(s) + Len(sp))]
    <3>1. s \in Seq(Nodes) /\ sp \in Seq(Nodes) /\ sq \in Seq(Nodes) /\ u = s \o (sp \o sq)
      BY <1>9 DEF u
    <3> QED BY <3>1, ThreeParts
  <2>2. Len(sp) = m
    BY <1>9
  <2> QED BY <2>1, <2>2 DEF d
<1>14. ASSUME m > 0, sp # <<>> PROVE d + 1 \in 1..Len(u) /\ u[d + 1] = sp[1]
  <2> HIDE DEF s, u, m, d
  <2>1. d + 1 \in 1..(d + (m + Len(sq))) /\ ~(d + 1 <= d) /\ d + 1 <= d + m /\ (d + 1) - d = 1
    BY <1>9, <1>10, <1>14
  <2> QED BY <1>13, <2>1
<1>15. ASSUME sq # <<>> PROVE d + m < Len(u) /\ d + m + 1 \in 1..Len(u) /\ u[d + m + 1] = sq[1]
  <2> HIDE DEF s, u, m, d
  <2>1. Len(sq) \in Nat \ {0}
    BY <1>9, <1>15
  <2>2. /\ d + m + 1 \in 1..(d + (m + Len(sq))) /\ ~(d + m + 1 <= d) /\ ~(d + m + 1 <= d + m)
        /\ (d + m + 1) - (d + m) = 1
    BY <1>10, <2>1
  <2> QED BY <1>10, <1>13, <2>1, <2>2
<1>16. CASE TookLeft(l, sp, sq)
  <2>1. /\ m > 0 /\ sp # <<>> /\ loop.at.p = sp[1]
        /\ Compares(loop.at) /\ loop.lawful => ~(Key[loop.at.q] < Key[loop.at.p])
        /\ next' = LinkBefore(Links, l, sp[1]).next /\ Halfway(l, Tail(sp), sq)'
        /\ loop'.at.psize = m - 1 /\ loop'.at.qsize = n
    BY <1>16 DEF TookLeft
  <2>2. sp[1] \in Members(sp \o sq) /\ sp[1] \in Nodes
    <3>1. 1 \in 1..Len(sp) /\ DOMAIN sp = 1..Len(sp)
      BY <1>9, <2>1
    <3>2. sp[1] \in Members(sp)
      BY <3>1 DEF Members
    <3> QED BY <1>9, <1>12, <3>1, <3>2
  <2>3. Content(l)' = s \o <<sp[1]>>
    BY <1>1, <1>2, <1>6, <1>7, <2>1, <2>2, ContentGrows
  <2>4. Content(l)' \o (Tail(sp) \o sq) = u
    <3>1. s \in Seq(Nodes) /\ sp \in Seq(Nodes) /\ sq \in Seq(Nodes) /\ sp # <<>>
      BY <1>9, <2>1
    <3> HIDE DEF s
    <3>2. (s \o <<sp[1]>>) \o (Tail(sp) \o sq) = s \o (sp \o sq)
      BY <3>1, LeftStays
    <3> QED BY <2>3, <3>2
  <2>5. Len(Content(l)') = d + 1
    BY <1>9, <2>2, <2>3, OneMore
  <2>6. n > 0 /\ d + m < Len(u) => Key[u[d + 1]] <= Key[u[d + m + 1]]
    <3> SUFFICES ASSUME n > 0, d + m < Len(u) PROVE Key[u[d + 1]] <= Key[u[d + m + 1]]
      OBVIOUS
    <3>1. sq # <<>>
      <4> SUFFICES ASSUME sq = <<>> PROVE FALSE
        OBVIOUS
      <4>1. Len(u) = d + m
        BY <1>10, <1>13
      <4> QED BY <1>10, <4>1
    <3>2. Compares(loop.at) /\ loop.at.q = sq[1] /\ sq[1] \in Nodes
      <4>1. loop.at.q = sq[1]
        BY <1>6, <3>1 DEF Halfway, Runs, Steps
      <4> QED BY <1>9, <2>1, <3>1, <4>1 DEF Compares
    <3>3. ~(Key[sq[1]] < Key[sp[1]])
      BY <1>4, <2>1, <3>2
    <3>4. Key[sq[1]] \in Nat /\ Key[sp[1]] \in Nat
      BY <2>2, <3>2, ListAssumption
    <3> HIDE DEF u, d, m, s
    <3> QED BY <1>14, <1>15, <2>1, <3>1, <3>3, <3>4
  <2>7. Merging(r, u, k, b, d + 1, m - 1, n)
    <3> HIDE DEF r, u, k, d, m, n
    <3> QED BY <1>8, <2>1, <2>6, TakeLeftMerges
  <2>8. InProgress(l, Tail(sp), sq, b)'
    BY <1>7, <1>8, <1>11, <2>1, <2>4, <2>5, <2>7 DEF InProgress
  <2> QED BY <1>4, <2>8
<1>17. CASE TookRight(l, sp, sq)
  <2>1. /\ n > 0 /\ sq # <<>> /\ loop.at.q = sq[1]
        /\ Compares(loop.at) /\ loop.lawful => Key[loop.at.q] < Key[loop.at.p]
        /\ next' = LinkBefore(Links, l, sq[1]).next /\ Halfway(l, sp, Tail(sq))'
        /\ loop'.at.psize = m /\ loop'.at.qsize = n - 1
    BY <1>17 DEF TookRight
  <2>2. sq[1] \in Members(sp \o sq) /\ sq[1] \in Nodes
    <3>1. 1 \in 1..Len(sq) /\ DOMAIN sq = 1..Len(sq)
      BY <1>9, <2>1
    <3>2. sq[1] \in Members(sq)
      BY <3>1 DEF Members
    <3> QED BY <1>9, <1>12, <3>1, <3>2
  <2>3. Content(l)' = s \o <<sq[1]>>
    BY <1>1, <1>2, <1>6, <1>7, <2>1, <2>2, ContentGrows
  <2> DEFINE w == Content(l)' \o (sp \o Tail(sq))
             h == d + m + 1
  <2>4. MovedUp(u, d, h, w)
    <3>1. MovedUp(s \o (sp \o sq), Len(s), Len(s) + Len(sp) + 1, (s \o <<sq[1]>>) \o (sp \o Tail(sq)))
      BY <1>9, <2>1, RightMoves
    <3>2. Len(sp) = m
      BY <1>9
    <3> QED BY <2>3, <3>1, <3>2
  <2>5. Len(Content(l)') = d + 1
    BY <1>9, <2>2, <2>3, OneMore
  <2>6. m > 0 => Key[u[h]] < Key[u[d + 1]]
    <3> SUFFICES ASSUME m > 0 PROVE Key[u[h]] < Key[u[d + 1]]
      OBVIOUS
    <3>1. sp # <<>>
      <4>1. sp = <<>> => Len(sp) = 0
        OBVIOUS
      <4> QED BY <1>9, <1>10, <4>1
    <3>2. Compares(loop.at) /\ loop.at.p = sp[1]
      <4>1. loop.at.p = sp[1]
        BY <1>6, <3>1 DEF Halfway, Runs, Steps
      <4> QED BY <1>9, <2>1, <4>1 DEF Compares
    <3>3. Key[sq[1]] < Key[sp[1]]
      BY <1>4, <2>1, <3>2
    <3> HIDE DEF u, d, m, s
    <3> QED BY <1>14, <1>15, <2>1, <3>1, <3>3
  <2>7. Merging(r, w, k, b, d + 1, m, n - 1)
    <3>1. d + m < Len(u)
      BY <1>15, <2>1
    <3> HIDE DEF r, u, k, d, m, n, w
    <3> QED BY <1>8, <2>1, <2>4, <2>6, <3>1, TakeRightMerges DEF h
  <2>8. InProgress(l, sp, Tail(sq), b)'
    BY <1>7, <1>8, <1>11, <2>1, <2>5, <2>7 DEF InProgress
  <2> QED BY <1>4, <2>8
<1> QED BY <1>7, <1>16, <1>17

LEMMA NothingBefore ==
  ASSUME NEW t \in Seq(Nodes)
  PROVE  <<>> \o t = t
OBVIOUS

\* An empty list, and all its nodes in the runs of the first pass, or of the next one.
LEMMA PassOrders ==
  ASSUME IInv', loop' \in Loops, NEW l \in Lists, (Running("sort") /\ loop.list = l)',
         next' \in Pointers, next'[l] = l, NEW k \in Nat \ {0}, NEW u \in Seq(Nodes),
         RunOf(loop'.at, Len(u), k, 1),
         \E sp, sq : sp \o sq = u /\ Halfway(l, sp, sq)',
         Merged(loop'.before[l], u, k, 0),
         \A i \in 1..Len(u) : Index(loop'.before[l], u[i]) \in Nat
  PROVE  SortOrder'
<1>1. Content(l)' = <<>>
  <2>1. Yields(next', l, <<>>)
    BY DEF Yields, Place, Injective
  <2>2. Path(next', next'[l], l) = <<>>
    BY <2>1, YieldsPath
  <2> QED BY <2>2 DEF Content
<1>2. PICK sp, sq : sp \o sq = u /\ Halfway(l, sp, sq)'
  OBVIOUS
<1>3. Content(l)' \o (sp \o sq) = u /\ Len(Content(l)') = 0
  BY <1>1, <1>2, NothingBefore
<1> DEFINE r == loop'.before[l]
           m == loop'.at.psize
<1>4. m = (IF k < Len(u) - 0 THEN k ELSE Len(u) - 0) /\ loop'.at.qsize = k /\ loop'.at.k = k /\ loop'.at.merges = 1
  BY DEF RunOf
<1>5. Merging(r, u, k, 0, 0, m, k)
  <2> HIDE DEF r, m
  <2>1. 0 <= Len(u) /\ \A i \in 1..Len(u) : Index(r, u[i]) \in Nat
    BY DEF r
  <2>2. Merged(r, u, k, 0)
    BY DEF r
  <2> QED BY <1>4, <2>1, <2>2, RunStarts
<1>6. InProgress(l, sp, sq, 0)'
  BY <1>2, <1>3, <1>4, <1>5 DEF InProgress
<1> QED BY <1>6 DEF SortOrder

LEMMA SortBeginOrders ==
  ASSUME IInv, IInv', NEW l \in Lists, NEW lawful \in BOOLEAN, Sort(l, lawful)
  PROVE  SortOrder'
<1>1. loop = Null /\ Begin("sort", l, l, lawful, FirstRun(l, 1))
  BY DEF Sort, Begin
<1>2. /\ next' \in Pointers /\ next'[l] = l /\ loop' # Null
      /\ RunOf(loop'.at, Len(Content(l)), 1, 1)
      /\ \E sp, sq : sp \o sq = Content(l) /\ Halfway(l, sp, sq)'
  BY SortBegins
<1>3. Content(l) \in Seq(Nodes) /\ Injective(Content(l))
  BY <1>1, Resting
<1>4. loop'.before[l] = Content(l) /\ loop'.op = "sort" /\ loop'.list = l
  <2>1. loop' = [op |-> "sort", list |-> l, other |-> l, lawful |-> lawful, at |-> FirstRun(l, 1),
                 before |-> [m \in Lists |-> Content(m)]]
    BY <1>1 DEF Begin
  <2> HIDE DEF FirstRun
  <2> QED BY <2>1
<1>5. Merged(Content(l), Content(l), 1, 0)
  BY <1>3, FirstReady
<1>6. \A i \in 1..Len(Content(l)) : Index(Content(l), Content(l)[i]) \in Nat
  <2> DEFINE s == Content(l)
  <2> HIDE DEF s
  <2>1. \A i \in 1..Len(s) : Index(s, s[i]) = i
    BY <1>3, IndexIs DEF s
  <2>2. \A i \in 1..Len(s) : Index(s, s[i]) \in Nat
    BY <1>3, <2>1 DEF s
  <2> QED BY <2>2 DEF s
<1>7. loop' \in Loops /\ (Running("sort") /\ loop.list = l)'
  BY <1>2, <1>4 DEF Running, IInv, TypeOK
<1>8. 1 \in Nat \ {0}
  OBVIOUS
<1> DEFINE u == Content(l)
<1>9. /\ u \in Seq(Nodes) /\ RunOf(loop'.at, Len(u), 1, 1) /\ Merged(loop'.before[l], u, 1, 0)
      /\ \E sp, sq : sp \o sq = u /\ Halfway(l, sp, sq)'
      /\ \A i \in 1..Len(u) : Index(loop'.before[l], u[i]) \in Nat
  BY <1>2, <1>3, <1>4, <1>5, <1>6
<1> HIDE DEF u
<1> QED BY <1>2, <1>7, <1>8, <1>9, PassOrders

\* All is merged but what is not looked at yet.
LEMMA RunsDone ==
  ASSUME IInv, Kept, Running("sort"), ~RunsLeft(loop.at), NEW l, l = loop.list,
         NEW sp, NEW sq, NEW b, InProgress(l, sp, sq, b)
  PROVE  /\ sp = <<>> /\ loop.at.psize = 0 /\ loop.at \in SortCursors
         /\ Content(l) \in Seq(Nodes) /\ sq \in Seq(Nodes)
         /\ sq = <<>> <=> loop.at.q = Null
         /\ Nodeful(loop.before[l], Content(l), sp, sq, l)
<1>1. Halfway(l, sp, sq)
  BY DEF InProgress
<1>2. /\ loop.at \in SortCursors /\ sp \in Seq(Nodes) /\ Len(sp) = loop.at.psize
      /\ Content(l) \in Seq(Nodes) /\ sq \in Seq(Nodes) /\ (sq = <<>> <=> loop.at.q = Null)
      /\ Nodeful(loop.before[l], Content(l), sp, sq, l)
  BY <1>1, HalfwayIs
<1>3. loop.at.psize = 0
  BY <1>2 DEF RunsLeft, SortCursors
<1>4. sp = <<>>
  BY <1>2, <1>3
<1> QED BY <1>2, <1>3, <1>4

LEMMA NextRunsOrders ==
  ASSUME IInv, Kept, SortOrder, SortNextRuns
  PROVE  SortOrder'
<1> SUFFICES ASSUME (Running("sort") /\ loop.lawful)'
             PROVE  \E sp, sq, b : InProgress(loop.list, sp, sq, b)'
  BY DEF SortOrder
<1>1. Running("sort") /\ ~RunsLeft(loop.at) /\ loop.at.q # Null /\ next' = next
  BY DEF SortNextRuns
<1>2. PICK l \in Lists : l = loop.list
  BY <1>1, SortIs
<1>3. loop \in Loops /\ loop' # Null /\ loop' = [loop EXCEPT !.at = loop'.at]
  <2>1. PICK sp, sq : Halfway(l, sp, sq)
    BY <1>1, <1>2, SortIs
  <2> QED BY <1>1, <1>2, <2>1, SortIs, RunsNext
<1>4. loop'.list = l /\ loop'.before = loop.before /\ loop'.lawful = loop.lawful
  BY <1>1, <1>2, <1>3, SortKeeps
<1>5. PICK sp, sq, b : InProgress(l, sp, sq, b)
  BY <1>1, <1>2, <1>4 DEF SortOrder
<1> DEFINE s == Content(l)
           r == loop.before[l]
           u == s \o (sp \o sq)
           k == loop.at.k
           d == Len(s)
<1>6. /\ sp = <<>> /\ loop.at.psize = 0 /\ loop.at \in SortCursors
      /\ s \in Seq(Nodes) /\ sq \in Seq(Nodes) /\ sq # <<>> /\ Nodeful(r, s, sp, sq, l)
  BY <1>1, <1>2, <1>5, RunsDone
<1>7. loop.at.qsize = 0 /\ loop.at.k \in Nat /\ loop.at.merges \in Nat
  BY <1>1, <1>6 DEF RunsLeft, SortCursors
<1>8. Halfway(l, sp, sq) /\ Merging(r, u, k, b, d, 0, 0) /\ loop.at.merges >= 1
  BY <1>5, <1>6, <1>7 DEF InProgress
<1>9. /\ RunOf(loop'.at, Len(sq), k, loop.at.merges + 1)
      /\ \E v, w : v \o w = sq /\ Halfway(l, v, w)'
  BY <1>2, <1>8, RunsNext
<1>10. PICK v, w : v \o w = sq /\ Halfway(l, v, w)'
  BY <1>9
<1>11. sp \o sq = sq
  BY <1>6, NothingBefore
<1>12. Content(l)' = s
  BY <1>1 DEF Content
<1>13. Content(l)' \o (v \o w) = u
  BY <1>10, <1>11, <1>12
<1>14. Len(u) = d + Len(sq) /\ Len(sq) \in Nat \ {0} /\ d \in Nat /\ u \in Seq(Nodes)
       /\ \A i \in 1..Len(u) : Index(r, u[i]) \in Nat
  BY <1>6 DEF Nodeful
<1> DEFINE m == loop'.at.psize
<1>15. m = (IF k < Len(u) - d THEN k ELSE Len(u) - d) /\ loop'.at.qsize = k /\ loop'.at.k = k
       /\ loop'.at.merges = loop.at.merges + 1
  <2>1. Len(u) - d = Len(sq)
    BY <1>14
  <2> QED BY <1>9, <2>1 DEF RunOf
<1> HIDE DEF s, r, u, k, d, m
<1>16. Merged(r, u, k, d)
  BY <1>8, <1>14, RunsOver
<1>17. d <= Len(u)
  BY <1>14
<1>18. Merging(r, u, k, d, d, m, k)
  BY <1>14, <1>15, <1>16, <1>17, RunStarts
<1>19. loop'.at.merges >= 1 /\ loop'.at.merges # 1
  BY <1>7, <1>8, <1>15
<1> PICK e : e = d
  OBVIOUS
<1>20. InProgress(l, v, w, e)'
  <2>1. Merging(loop'.before[l], Content(l)' \o (v \o w), loop'.at.k, e, Len(Content(l)'), loop'.at.psize, loop'.at.qsize)
    BY <1>4, <1>12, <1>13, <1>15, <1>18 DEF m, d, r
  <2> QED BY <1>10, <1>19, <2>1 DEF InProgress
<1> QED BY <1>4, <1>20

LEMMA NextPassOrders ==
  ASSUME IInv, Kept, SortOrder, SortNextPass
  PROVE  SortOrder'
<1> SUFFICES ASSUME (Running("sort") /\ loop.lawful)'
             PROVE  SortOrder'
  BY DEF SortOrder
<1>1. Running("sort") /\ ~RunsLeft(loop.at) /\ loop.at.q = Null
  BY DEF SortNextPass
<1>2. PICK l \in Lists : l = loop.list
  BY <1>1, SortIs
<1> DEFINE s == Content(l)
           r == loop.before[l]
           k == 2 * loop.at.k
<1>3. /\ IInv' /\ next' \in Pointers /\ next'[l] = l /\ loop' # Null /\ loop' = [loop EXCEPT !.at = loop'.at]
      /\ RunOf(loop'.at, Len(s), k, 1)
      /\ \E sp, sq : sp \o sq = s /\ Halfway(l, sp, sq)'
  BY <1>2, NextPassHolds
<1>4. loop'.list = l /\ loop'.before = loop.before /\ loop'.lawful = loop.lawful
  BY <1>1, <1>2, <1>3, SortIs, SortKeeps
<1>5. PICK sp, sq, b : InProgress(l, sp, sq, b)
  BY <1>1, <1>2, <1>4 DEF SortOrder
<1>6. /\ sp = <<>> /\ loop.at.psize = 0 /\ loop.at \in SortCursors
      /\ s \in Seq(Nodes) /\ sq = <<>> /\ Nodeful(r, s, sp, sq, l)
  BY <1>1, <1>2, <1>5, RunsDone
<1>7. s \o (sp \o sq) = s
  BY <1>6
<1>8. Merging(r, s, loop.at.k, b, Len(s), 0, loop.at.qsize)
  BY <1>5, <1>6, <1>7 DEF InProgress
<1>9. Merged(r, s, k, 0)
  <2> HIDE DEF r, s
  <2> QED BY <1>8, PassOver
<1>10. k \in Nat \ {0}
  <2>1. loop.at.k # 0 /\ loop.at.k \in Nat
    BY <1>1, <1>6, SortIs DEF SortCursors
  <2> QED BY <2>1
<1>11. \A i \in 1..Len(s) : Index(r, s[i]) \in Nat
  BY <1>6, <1>7 DEF Nodeful
<1>12. loop'.before[l] = r /\ loop' \in Loops /\ (Running("sort") /\ loop.list = l)'
  BY <1>3, <1>4 DEF IInv, TypeOK
<1> HIDE DEF s, r, k
<1> QED BY <1>3, <1>6, <1>9, <1>10, <1>11, <1>12, PassOrders

\* The list that sort() leaves.
LEMMA SortReturnStable ==
  ASSUME IInv, Kept, SortOrder
  PROVE  SortStable
<1> SUFFICES ASSUME NEW l \in Lists, SortReturn, loop.list = l, loop.lawful
             PROVE  StablySorted(loop.before[l], Content(l)')
  BY DEF SortStable
<1>1. Running("sort") /\ ~RunsLeft(loop.at) /\ loop.at.q = Null /\ loop.at.merges <= 1 /\ next' = next
  BY DEF SortReturn
<1>2. PICK sp, sq, b : InProgress(l, sp, sq, b)
  BY <1>1 DEF SortOrder
<1> DEFINE s == Content(l)
           r == loop.before[l]
<1>3. /\ sp = <<>> /\ loop.at.psize = 0 /\ loop.at \in SortCursors
      /\ s \in Seq(Nodes) /\ sq = <<>> /\ Nodeful(r, s, sp, sq, l)
  BY <1>1, <1>2, RunsDone
<1>4. s \o (sp \o sq) = s
  BY <1>3
<1>5. loop.at.merges = 1 /\ b = 0
  <2>1. loop.at.merges \in Nat
    BY <1>3 DEF SortCursors
  <2> QED BY <1>1, <1>2, <2>1 DEF InProgress
<1>6. Merging(r, s, loop.at.k, 0, Len(s), 0, loop.at.qsize)
  BY <1>2, <1>3, <1>4, <1>5 DEF InProgress
<1>7. /\ Injective(s) /\ Members(s) = NodesOf(l)
      /\ r \in Seq(Nodes) /\ Injective(r) /\ Members(r) = NodesOf(l)
  BY <1>3, <1>4 DEF Nodeful
<1>8. Content(l)' = s
  BY <1>1 DEF Content
<1> HIDE DEF s, r
<1>9. \A i, j \in 1..Len(s) : i < j => Precedes(r, s[i], s[j])
  BY <1>6, AllSorted
<1>10. Len(s) = Len(r)
  BY <1>3, <1>7, InjectiveShort
<1>11. DOMAIN s = 1..Len(s)
  BY <1>3
<1>12. StablySorted(r, s)
  BY <1>7, <1>9, <1>10, <1>11 DEF StablySorted, Precedes
<1> QED BY <1>8, <1>12 DEF r

-----------------------------------------------------------------------------
(* The steps that go on with a loop.                                         *)

\* The steps that leave a loop running.
LEMMA LoopRuns ==
  ASSUME IInv, [Next]_vars, loop' # Null
  PROVE  \/ UNCHANGED vars
         \/ /\ loop'.op = "sort"
            /\ \/ \E l \in Lists, lawful \in BOOLEAN : Sort(l, lawful)
               \/ SortTake \/ SortNextRuns \/ SortNextPass
         \/ /\ loop'.op = "merge"
            /\ \/ \E l, x \in Lists, lawful \in BOOLEAN : Merge(l, x, lawful)
               \/ MergeTake \/ MergeSkip
         \/ /\ loop'.op = "unique"
            /\ \/ \E l \in Lists, lawful \in BOOLEAN : Unique(l, lawful)
               \/ Running("unique") /\ (FilterErase \/ FilterKeep)
         \/ loop'.op = "remove_if"
<1>1. CASE \E l \in Lists : Operation(l)
  <2>1. PICK l \in Lists : Operation(l)
    BY <1>1
  <2>2. \/ \E lawful \in BOOLEAN : Sort(l, lawful) \/ Unique(l, lawful) \/ \E x \in Lists : Merge(l, x, lawful)
        \/ RemoveIf(l)
    BY <2>1 DEF Operation, Insert, Assign, Erase, Clear, Reverse, MoveAssign, Swap, Splice,
                ShiftForward, ShiftBackwards
  <2>3. ASSUME NEW lawful \in BOOLEAN, Sort(l, lawful) PROVE loop'.op = "sort"
    <3>1. Begin("sort", l, l, lawful, FirstRun(l, 1))
      BY <2>3 DEF Sort
    <3> QED BY <3>1 DEF Begin
  <2>4. ASSUME NEW lawful \in BOOLEAN, Unique(l, lawful) PROVE loop'.op = "unique"
    BY <2>4 DEF Unique, Begin
  <2>5. ASSUME NEW lawful \in BOOLEAN, NEW x \in Lists, Merge(l, x, lawful) PROVE loop'.op = "merge"
    BY <2>5 DEF Merge, Begin
  <2>6. RemoveIf(l) => loop'.op = "remove_if"
    BY DEF RemoveIf, Begin
  <2> QED BY <2>2, <2>3, <2>4, <2>5, <2>6
<1>2. CASE \E n \in Nodes : Unhook(n)
  BY <1>2 DEF Unhook
<1>3. CASE Turn
  <2>1. \/ SortTake \/ SortNextRuns \/ SortNextPass \/ MergeTake \/ MergeSkip \/ FilterErase \/ FilterKeep
    BY <1>3 DEF Turn, SortThrow, SortReturn, MergeReturn, MergeThrow, FilterReturn, FilterThrow
  <2>2. loop \in Loops
    BY <2>1, LoopIs DEF IInv, SortTake, SortNextRuns, SortNextPass, MergeTake, MergeSkip, FilterErase,
                        FilterKeep, Filtering
  <2>3. loop' = [loop EXCEPT !.at = loop'.at]
    <3>1. CASE SortTake
      <4>1. \E right \in BOOLEAN : loop' = [loop EXCEPT !.at = IF right THEN TakeQ(@) ELSE TakeP(@)]
        BY <3>1 DEF SortTake
      <4> QED BY <2>2, <4>1, TurnKeeps DEF Loops
    <3>2. CASE SortNextRuns
      <4>1. loop' = [loop EXCEPT !.at = Run(next, @.q, @.k, @.merges + 1)]
        BY <3>2 DEF SortNextRuns
      <4> HIDE DEF Run
      <4> QED BY <2>2, <4>1, TurnKeeps DEF Loops
    <3>3. CASE SortNextPass
      <4>1. loop' = [loop EXCEPT !.at = FirstRun(loop.list, 2 * @.k)]
        BY <3>3 DEF SortNextPass
      <4> QED BY <2>2, <4>1, TurnKeeps DEF Loops
    <3>4. CASE MergeTake
      BY <2>2, <3>4 DEF MergeTake, Loops
    <3>5. CASE MergeSkip
      BY <2>2, <3>5 DEF MergeSkip, Loops
    <3>6. CASE FilterErase
      BY <2>2, <3>6 DEF FilterErase, Loops
    <3>7. CASE FilterKeep
      BY <2>2, <3>7 DEF FilterKeep, Loops
    <3> QED BY <2>1, <3>1, <3>2, <3>3, <3>4, <3>5, <3>6, <3>7
  <2>4. loop'.op = loop.op
    BY <2>2, <2>3 DEF Loops
  <2>5. SortTake \/ SortNextRuns \/ SortNextPass => loop.op = "sort"
    BY DEF SortTake, SortNextRuns, SortNextPass, Running
  <2>6. MergeTake \/ MergeSkip => loop.op = "merge"
    BY DEF MergeTake, MergeSkip, Running
  <2>7. FilterErase \/ FilterKeep => loop.op = "remove_if" \/ (loop.op = "unique" /\ Running("unique"))
    BY DEF FilterErase, FilterKeep, Filtering, Running
  <2> QED BY <2>1, <2>4, <2>5, <2>6, <2>7
<1> QED BY <1>1, <1>2, <1>3 DEF Next

LEMMA SortOrderGoesOn == IInv /\ IInv' /\ Kept /\ SortOrder /\ [Next]_vars => SortOrder'
<1> SUFFICES ASSUME IInv, IInv', Kept, SortOrder, [Next]_vars, (loop # Null /\ loop.op = "sort")'
             PROVE  SortOrder'
  BY DEF SortOrder, Running
<1>1. CASE UNCHANGED vars
  BY <1>1 DEF vars, SortOrder, Running, InProgress, Halfway, CellsIn, OthersWhole, Content
<1>2. CASE \E l \in Lists, lawful \in BOOLEAN : Sort(l, lawful)
  BY <1>2, SortBeginOrders
<1> QED BY <1>1, <1>2, LoopRuns, SortTakeOrders, NextRunsOrders, NextPassOrders

LEMMA SortOrderBegins == Init => SortOrder
BY DEF Init, SortOrder, Running

\* The steps of the refinement, without what they mean for the sequences.
LEMMA KeptGoesOn == IInv /\ IInv' /\ Kept /\ [Next]_vars => Kept'
BY NextSeen

LEMMA KeptBegins == Init => Kept
BY InitSeen

-----------------------------------------------------------------------------
(* merge(): the nodes that are passed come before what is left of the other  *)
(* list.                                                                     *)

\* A list in order has no greater node before a lesser one.
LEMMA OrderedPairs ==
  ASSUME NEW s \in Seq(Nodes), InOrder(s)
  PROVE  \A i, j \in 1..Len(s) : i <= j => Key[s[i]] <= Key[s[j]]
<1> SUFFICES ASSUME NEW i \in 1..Len(s), NEW j \in 1..Len(s), i <= j
             PROVE  Key[s[i]] <= Key[s[j]]
  OBVIOUS
<1> DEFINE S == {d \in Nat : i + d <= Len(s) => Key[s[i]] <= Key[s[i + d]]}
<1>0. \A m \in 1..Len(s) : s[m] \in Nodes /\ Key[s[m]] \in Nat
  BY ListAssumption
<1>1. 0 \in S
  BY <1>0
<1>2. ASSUME NEW d \in Nat, d \in S PROVE d + 1 \in S
  <2> SUFFICES ASSUME i + (d + 1) <= Len(s) PROVE Key[s[i]] <= Key[s[i + (d + 1)]]
    OBVIOUS
  <2>1. i + d \in 1..(Len(s) - 1) /\ i + d \in 1..Len(s) /\ i + (d + 1) \in 1..Len(s) /\ i + (d + 1) = (i + d) + 1
    OBVIOUS
  <2>2. Key[s[i + d]] <= Key[s[(i + d) + 1]]
    BY <2>1 DEF InOrder
  <2>3. Key[s[i]] <= Key[s[i + d]]
    BY <1>2, <2>1
  <2> QED BY <1>0, <2>1, <2>2, <2>3
<1> HIDE DEF S
<1>3. \A d \in Nat : d \in S
  BY <1>1, <1>2, Induction
<1>4. j - i \in Nat /\ i + (j - i) = j /\ j <= Len(s)
  OBVIOUS
<1> QED BY <1>3, <1>4 DEF S

\* Where the nodes of two lists are when the one follows the other.
LEMMA TwoLists ==
  ASSUME NEW s \in Seq(Nodes), NEW t \in Seq(Nodes), Injective(s \o t)
  PROVE  /\ s \o t \in Seq(Nodes) /\ Len(s \o t) = Len(s) + Len(t)
         /\ Members(s \o t) = Members(s) \cup Members(t)
         /\ \A i \in 1..Len(s) : Index(s \o t, s[i]) = i
         /\ \A j \in 1..Len(t) : Index(s \o t, t[j]) = Len(s) + j
<1> DEFINE u == s \o t
<1>1. u \in Seq(Nodes) /\ Len(u) = Len(s) + Len(t) /\ Members(u) = Members(s) \cup Members(t)
  BY ConcatParts
<1>2. \A m \in 1..(Len(s) + Len(t)) : u[m] = IF m <= Len(s) THEN s[m] ELSE t[m - Len(s)]
  BY ConcatProperties
<1> HIDE DEF u
<1>3. \A m \in 1..Len(u) : Index(u, u[m]) = m
  BY <1>1, IndexIs DEF u
<1>4. ASSUME NEW i \in 1..Len(s) PROVE Index(u, s[i]) = i
  <2>1. i \in 1..(Len(s) + Len(t)) /\ u[i] = s[i]
    BY <1>2
  <2> QED BY <1>1, <1>3, <2>1
<1>5. ASSUME NEW j \in 1..Len(t) PROVE Index(u, t[j]) = Len(s) + j
  <2>1. Len(s) + j \in 1..(Len(s) + Len(t)) /\ u[Len(s) + j] = t[j]
    BY <1>2
  <2> QED BY <1>1, <1>3, <2>1
<1> QED BY <1>1, <1>4, <1>5 DEF u
-----------------------------------------------------------------------------
\* r is s with the first j nodes of t in it, none of them behind the first c of r.
Interleaved(s, t, r, c, j) ==
  /\ s \in Seq(Nodes) /\ t \in Seq(Nodes) /\ Injective(s \o t)
  /\ r \in Seq(Nodes) /\ c \in 0..Len(r) /\ j \in 0..Len(t) /\ Len(r) = Len(s) + j
  /\ Members(r) = Members(s) \cup {t[m] : m \in 1..j}
  /\ \A b \in 1..Len(r) : c < b => r[b] \in Members(s)

\* r is sorted, and its first c nodes come before what is left of t.
Sifted(s, t, r, c, j) ==
  /\ \A a, b \in 1..Len(r) : a < b => Precedes(s \o t, r[a], r[b])
  /\ \A a \in 1..c, m \in (j + 1)..Len(t) : Precedes(s \o t, r[a], t[m])

LEMMA MergeStarts ==
  ASSUME NEW s \in Seq(Nodes), NEW t \in Seq(Nodes), Injective(s \o t)
  PROVE  /\ Interleaved(s, t, s, 0, 0)
         /\ InOrder(s) => Sifted(s, t, s, 0, 0)
<1>1. Interleaved(s, t, s, 0, 0)
  <2>1. \A b \in 1..Len(s) : s[b] \in Members(s)
    BY DEF Members
  <2>2. {t[m] : m \in 1..0} = {}
    OBVIOUS
  <2> QED BY <2>1, <2>2 DEF Interleaved
<1>2. ASSUME InOrder(s), NEW a \in 1..Len(s), NEW b \in 1..Len(s), a < b
      PROVE  Precedes(s \o t, s[a], s[b])
  <2>1. Key[s[a]] <= Key[s[b]] /\ Key[s[a]] \in Nat /\ Key[s[b]] \in Nat
    BY <1>2, OrderedPairs, ListAssumption
  <2>2. Index(s \o t, s[a]) < Index(s \o t, s[b])
    BY <1>2, TwoLists
  <2> QED BY <2>1, <2>2 DEF Precedes
<1> QED BY <1>1, <1>2 DEF Sifted

\* The first of what is left of t is not less than the node behind the c-th of r.
LEMMA SkipSifts ==
  ASSUME NEW s, NEW t, NEW r, NEW c, NEW j, Interleaved(s, t, r, c, j), c < Len(r), j < Len(t)
  PROVE  /\ Interleaved(s, t, r, c + 1, j)
         /\ Sifted(s, t, r, c, j) /\ InOrder(t) /\ Key[r[c + 1]] <= Key[t[j + 1]]
              => Sifted(s, t, r, c + 1, j)
<1>1. /\ s \in Seq(Nodes) /\ t \in Seq(Nodes) /\ Injective(s \o t) /\ r \in Seq(Nodes)
      /\ c \in 0..Len(r) /\ j \in 0..Len(t) /\ c + 1 \in 1..Len(r) /\ j + 1 \in 1..Len(t)
      /\ Len(s) \in Nat /\ r[c + 1] \in Members(s)
  BY DEF Interleaved
<1>2. Interleaved(s, t, r, c + 1, j)
  BY <1>1 DEF Interleaved
<1>3. ASSUME Sifted(s, t, r, c, j), InOrder(t), Key[r[c + 1]] <= Key[t[j + 1]],
             NEW a \in 1..(c + 1), NEW m \in (j + 1)..Len(t)
      PROVE  Precedes(s \o t, r[a], t[m])
  <2>1. CASE a <= c
    <3>1. a \in 1..c
      BY <1>1, <2>1
    <3> QED BY <1>3, <3>1 DEF Sifted
  <2>2. CASE a = c + 1
    <3>1. m \in 1..Len(t) /\ j + 1 <= m
      BY <1>1
    <3>2. Key[t[j + 1]] <= Key[t[m]]
      BY <1>1, <1>3, <3>1, OrderedPairs
    <3>3. Index(s \o t, r[c + 1]) < Index(s \o t, t[m])
      <4>1. PICK i \in 1..Len(s) : r[c + 1] = s[i]
        BY <1>1 DEF Members
      <4>2. Index(s \o t, s[i]) = i /\ Index(s \o t, t[m]) = Len(s) + m
        BY <1>1, <3>1, TwoLists
      <4> QED BY <1>1, <3>1, <4>1, <4>2
    <3>4. /\ Key[r[c + 1]] \in Nat /\ Key[t[j + 1]] \in Nat /\ Key[t[m]] \in Nat
      <4>1. r[c + 1] \in Nodes /\ t[j + 1] \in Nodes /\ t[m] \in Nodes
        BY <1>1, <3>1
      <4> QED BY <4>1, ListAssumption
    <3> QED BY <1>3, <2>2, <3>2, <3>3, <3>4 DEF Precedes
  <2> QED BY <1>1, <2>1, <2>2
<1> QED BY <1>2, <1>3 DEF Sifted

\* The first of what is left of t is less than the node behind the c-th of r, or c is the last.
LEMMA TakeSifts ==
  ASSUME NEW s, NEW t, NEW r, NEW c, NEW j, Interleaved(s, t, r, c, j), j < Len(t)
  PROVE  /\ Interleaved(s, t, Spliced(r, c, <<t[j + 1]>>), c + 1, j + 1)
         /\ Sifted(s, t, r, c, j) /\ InOrder(t) /\ (c < Len(r) => Key[t[j + 1]] < Key[r[c + 1]])
              => Sifted(s, t, Spliced(r, c, <<t[j + 1]>>), c + 1, j + 1)
<1> DEFINE q == t[j + 1]
           z == Spliced(r, c, <<q>>)
           u == s \o t
<1>1. /\ s \in Seq(Nodes) /\ t \in Seq(Nodes) /\ Injective(s \o t) /\ r \in Seq(Nodes)
      /\ c \in 0..Len(r) /\ j \in 0..Len(t) /\ j + 1 \in 1..Len(t) /\ q \in Nodes
      /\ Len(s) \in Nat /\ Len(r) \in Nat /\ Len(r) = Len(s) + j
      /\ \A b \in 1..Len(r) : c < b => r[b] \in Members(s)
  BY DEF Interleaved
<1>2. /\ z \in Seq(Nodes) /\ Len(z) = Len(r) + 1
      /\ \A m \in 1..(Len(r) + 1) : z[m] = IF m <= c THEN r[m] ELSE IF m <= c + 1 THEN q ELSE r[m - 1]
  <2> HIDE DEF q, z
  <2>1. <<q>> \in Seq(Nodes) /\ Len(<<q>>) = 1
    BY <1>1
  <2>2. SplicedSeq(Nodes, r, c, <<q>>, z)
    BY <1>1, <2>1, SplicedIs DEF z
  <2>3. /\ z \in Seq(Nodes) /\ Len(z) = Len(r) + 1
        /\ \A m \in 1..(Len(r) + 1) :
             z[m] = IF m <= c THEN r[m] ELSE IF m <= c + 1 THEN <<q>>[m - c] ELSE r[m - 1]
    BY <2>1, <2>2 DEF SplicedSeq
  <2>4. ASSUME NEW m \in 1..(Len(r) + 1), ~(m <= c), m <= c + 1 PROVE <<q>>[m - c] = q
    <3>1. m - c = 1
      BY <1>1, <2>4
    <3> QED BY <3>1
  <2> QED BY <2>3, <2>4
<1> HIDE DEF z
<1>3. /\ c + 1 \in 1..Len(z) /\ z[c + 1] = q
      /\ \A m \in 1..Len(z) : m <= c => m \in 1..Len(r) /\ z[m] = r[m]
      /\ \A m \in 1..Len(z) : c + 1 < m => m - 1 \in 1..Len(r) /\ c < m - 1 /\ z[m] = r[m - 1]
  BY <1>1, <1>2
<1>4. Members(z) = Members(r) \cup {q}
  <2>0. Members(r) = {r[m] : m \in 1..Len(r)} /\ Members(z) = {z[m] : m \in 1..Len(z)}
    <3>1. DOMAIN r = 1..Len(r) /\ DOMAIN z = 1..Len(z)
      BY <1>1, <1>2
    <3> QED BY <3>1 DEF Members
  <2> HIDE DEF q
  <2>1. ASSUME NEW m \in 1..Len(z) PROVE z[m] \in Members(r) \cup {q}
    <3>1. m <= c \/ m = c + 1 \/ c + 1 < m
      BY <1>1
    <3>2. CASE m <= c
      BY <1>3, <2>0, <3>2
    <3>3. CASE m = c + 1
      BY <1>3, <3>3
    <3>4. CASE c + 1 < m
      <4>1. m - 1 \in 1..Len(r) /\ z[m] = r[m - 1]
        BY <1>3, <3>4
      <4> QED BY <2>0, <4>1
    <3> QED BY <3>1, <3>2, <3>3, <3>4
  <2>2. ASSUME NEW m \in 1..Len(r) PROVE r[m] \in Members(z)
    <3>1. CASE m <= c
      <4>1. m \in 1..Len(z)
        BY <1>1, <1>2
      <4>2. z[m] = r[m]
        BY <1>3, <3>1, <4>1
      <4> QED BY <2>0, <4>1, <4>2
    <3>2. CASE ~(m <= c)
      <4>1. m + 1 \in 1..Len(z) /\ c + 1 < m + 1 /\ (m + 1) - 1 = m
        BY <1>1, <1>2, <3>2
      <4>2. z[m + 1] = r[m]
        BY <1>3, <4>1
      <4> QED BY <2>0, <4>1, <4>2
    <3> QED BY <3>1, <3>2
  <2>3. q \in Members(z)
    BY <1>3, <2>0
  <2>4. \A e \in Members(z) : e \in Members(r) \cup {q}
    BY <2>0, <2>1
  <2>5. \A e \in Members(r) : e \in Members(z)
    BY <2>0, <2>2
  <2> QED BY <2>3, <2>4, <2>5
<1>5. Interleaved(s, t, z, c + 1, j + 1)
  <2>1. {t[m] : m \in 1..(j + 1)} = {t[m] : m \in 1..j} \cup {q}
    <3>1. \A m : m \in 1..(j + 1) <=> m \in 1..j \/ m = j + 1
      BY <1>1
    <3> QED BY <3>1
  <2>2. Members(r) = Members(s) \cup {t[m] : m \in 1..j}
    BY DEF Interleaved
  <2>3. Members(z) = Members(s) \cup {t[m] : m \in 1..(j + 1)}
    BY <1>4, <2>1, <2>2
  <2>4. c + 1 \in 0..Len(z) /\ j + 1 \in 0..Len(t) /\ Len(z) = Len(s) + (j + 1)
    BY <1>1, <1>2
  <2>5. \A b \in 1..Len(z) : c + 1 < b => z[b] \in Members(s)
    BY <1>1, <1>3
  <2> HIDE DEF q
  <2> QED BY <1>1, <1>2, <2>3, <2>4, <2>5 DEF Interleaved
<1>6. ASSUME Sifted(s, t, r, c, j), InOrder(t), c < Len(r) => Key[q] < Key[r[c + 1]]
      PROVE  Sifted(s, t, z, c + 1, j + 1)
  <2>1. /\ \A a, b \in 1..Len(r) : a < b => Precedes(u, r[a], r[b])
        /\ \A a \in 1..c, m \in (j + 1)..Len(t) : Precedes(u, r[a], t[m])
    BY <1>6 DEF Sifted
  <2>2. ASSUME NEW m \in (j + 2)..Len(t) PROVE Precedes(u, q, t[m])
    <3>1. m \in 1..Len(t) /\ j + 1 < m
      BY <1>1
    <3>2. Key[q] <= Key[t[m]]
      BY <1>1, <1>6, <3>1, OrderedPairs
    <3>3. Index(u, q) < Index(u, t[m])
      <4>1. Index(u, q) = Len(s) + (j + 1) /\ Index(u, t[m]) = Len(s) + m
        BY <1>1, <3>1, TwoLists
      <4> QED BY <1>1, <3>1, <4>1
    <3>4. Key[q] \in Nat /\ Key[t[m]] \in Nat
      BY <1>1, <3>1, ListAssumption
    <3> QED BY <3>2, <3>3, <3>4 DEF Precedes
  <2>3. ASSUME NEW b \in 1..Len(r), c < b PROVE Precedes(u, q, r[b])
    <3>1. c + 1 \in 1..Len(r) /\ c < Len(r) /\ (c + 1 = b \/ c + 1 < b)
      BY <1>1, <2>3
    <3>2. r[c + 1] = r[b] \/ Precedes(u, r[c + 1], r[b])
      BY <2>1, <3>1
    <3>3. q \in Nodes /\ r[c + 1] \in Nodes /\ r[b] \in Nodes /\ Key[q] < Key[r[c + 1]]
      BY <1>1, <1>6, <3>1
    <3> HIDE DEF q, u
    <3> QED BY <3>2, <3>3, PrecedesEarly
  <2> HIDE DEF u
  <2>4. ASSUME NEW a \in 1..Len(z), NEW b \in 1..Len(z), a < b PROVE Precedes(u, z[a], z[b])
    <3>1. CASE b <= c
      <4>1. a <= c
        BY <1>1, <2>4, <3>1
      <4> QED BY <1>3, <2>1, <2>4, <3>1, <4>1
    <3>2. CASE b = c + 1
      <4>1. a \in 1..c /\ j + 1 \in (j + 1)..Len(t)
        BY <1>1, <2>4, <3>2
      <4> QED BY <1>3, <2>1, <3>2, <4>1
    <3>3. CASE c + 1 < b
      <4>1. CASE a <= c
        <5>1. a < b - 1
          BY <1>1, <3>3, <4>1
        <5> QED BY <1>3, <2>1, <3>3, <4>1, <5>1
      <4>2. CASE a = c + 1
        BY <1>3, <2>3, <3>3, <4>2
      <4>3. CASE c + 1 < a
        <5>1. a - 1 < b - 1
          BY <2>4
        <5> QED BY <1>3, <2>1, <3>3, <4>3, <5>1
      <4> QED BY <1>1, <4>1, <4>2, <4>3
    <3> QED BY <1>1, <3>1, <3>2, <3>3
  <2>5. ASSUME NEW a \in 1..(c + 1), NEW m \in ((j + 1) + 1)..Len(t) PROVE Precedes(u, z[a], t[m])
    <3>1. CASE a = c + 1
      <4>1. m \in (j + 2)..Len(t)
        BY <1>1
      <4> QED BY <1>3, <2>2, <3>1, <4>1
    <3>2. CASE a <= c
      <4>1. a \in 1..Len(z) /\ m \in (j + 1)..Len(t) /\ a \in 1..c
        BY <1>1, <1>2, <3>2
      <4> QED BY <1>3, <2>1, <3>2, <4>1
    <3> QED BY <1>1, <3>1, <3>2
  <2> QED BY <2>4, <2>5 DEF Sifted, u
<1> QED BY <1>5, <1>6 DEF z

\* Nothing is left of t.
LEMMA MergeEnds ==
  ASSUME NEW s, NEW t, NEW r, NEW c, Interleaved(s, t, r, c, Len(t)), Sifted(s, t, r, c, Len(t))
  PROVE  StablySorted(s \o t, r)
<1>1. /\ s \in Seq(Nodes) /\ t \in Seq(Nodes) /\ Injective(s \o t) /\ r \in Seq(Nodes)
      /\ Len(r) = Len(s) + Len(t) /\ Members(r) = Members(s) \cup {t[m] : m \in 1..Len(t)}
  BY DEF Interleaved
<1>2. Members(t) = {t[m] : m \in 1..Len(t)} /\ DOMAIN r = 1..Len(r)
  BY <1>1 DEF Members
<1>3. Members(s \o t) = Members(r) /\ Len(s \o t) = Len(r)
  BY <1>1, <1>2, TwoLists
<1>4. \A a, b \in DOMAIN r : a < b => Precedes(s \o t, r[a], r[b])
  BY <1>2 DEF Sifted
<1> QED BY <1>3, <1>4 DEF StablySorted, Precedes

\* All but the first j.
Rest(t, j) == SubSeq(t, j + 1, Len(t))

\* What merge() has done: c nodes of the list are passed, and j of the other are taken.
MergeAt(l, x, c, j) ==
  /\ Interleaved(loop.before[l], loop.before[x], Content(l), c, j)
  /\ Content(x) = Rest(loop.before[x], j)
  /\ loop.at.p = Place(l, Content(l), c + 1)
  /\ loop.at.q = Place(x, loop.before[x], j + 1)
  /\ loop.lawful /\ InOrder(loop.before[l]) /\ InOrder(loop.before[x])
       => Sifted(loop.before[l], loop.before[x], Content(l), c, j)

MergeOrder == Running("merge") => \E c, j : MergeAt(loop.list, loop.other, c, j)

LEMMA MergeIs ==
  ASSUME IInv, Running("merge"), NEW l, l = loop.list, NEW x, x = loop.other
  PROVE  /\ loop \in Loops /\ loop # Null /\ loop.op = "merge" /\ loop.at \in WalkCursors
         /\ l \in Lists /\ x \in Lists /\ l # x
         /\ loop.at.p \in CellsIn(parent, l) /\ loop.at.q \in CellsIn(parent, x)
         /\ ~Running("sort") /\ TypeOK /\ Rooted
         /\ Ring(next, prev, CellsIn(parent, l)) /\ Ring(next, prev, CellsIn(parent, x))
         /\ l \in CellsIn(parent, l) /\ x \in CellsIn(parent, x)
<1>1. TypeOK /\ Rooted /\ ~Running("sort")
  BY DEF IInv, Running
<1>2. loop \in Loops /\ loop # Null /\ loop.op = "merge" /\ l \in Lists /\ x \in Lists
  BY <1>1, LoopIs
<1>3. /\ loop.at \in WalkCursors /\ l # x
      /\ loop.at.p \in CellsIn(parent, l) /\ loop.at.q \in CellsIn(parent, x)
  BY DEF IInv, LoopOK
<1>4. Ring(next, prev, CellsIn(parent, l)) /\ Ring(next, prev, CellsIn(parent, x))
  BY <1>1, <1>2, AtRest DEF AllRings
<1>5. l \in CellsIn(parent, l) /\ x \in CellsIn(parent, x)
  BY <1>1, <1>2, CellFacts
<1> QED BY <1>1, <1>2, <1>3, <1>4, <1>5

\* A turn that only moves the cursors keeps what it is about.
LEMMA CursorKeeps ==
  ASSUME loop \in Loops, NEW at \in WalkCursors, loop' = [loop EXCEPT !.at = at]
  PROVE  /\ loop' \in Loops /\ loop' # Null /\ loop'.at = at /\ loop'.op = loop.op
         /\ loop'.list = loop.list /\ loop'.other = loop.other /\ loop'.before = loop.before
         /\ loop'.lawful = loop.lawful
<1>1. /\ loop' \in Loops /\ loop' # Null
      /\ loop'.op = loop.op /\ loop'.list = loop.list /\ loop'.other = loop.other /\ loop'.at = at
  BY TurnIs
<1>2. loop'.before = loop.before /\ loop'.lawful = loop.lawful
  BY TurnKeeps
<1> QED BY <1>1, <1>2

LEMMA MergeBeginOrders ==
  ASSUME IInv, NEW l \in Lists, NEW x \in Lists, NEW lawful \in BOOLEAN, Merge(l, x, lawful)
  PROVE  MergeOrder'
<1> DEFINE s == Content(l)
           t == Content(x)
<1>1. l # x /\ loop = Null /\ next' = next
  BY DEF Merge, Begin
<1>2. loop' = [op |-> "merge", list |-> l, other |-> x, lawful |-> lawful,
               at |-> [p |-> next[l], q |-> next[x]], before |-> [m \in Lists |-> Content(m)]]
  BY DEF Merge, Begin
<1>3. /\ loop'.list = l /\ loop'.other = x /\ loop'.before[l] = s /\ loop'.before[x] = t
      /\ loop'.at.p = next[l] /\ loop'.at.q = next[x]
  BY <1>2
<1>4. /\ s \in Seq(Nodes) /\ Injective(s) /\ Members(s) = NodesOf(l)
      /\ t \in Seq(Nodes) /\ Injective(t) /\ Members(t) = NodesOf(x)
      /\ TypeOK /\ Rooted /\ Ring(next, prev, CellsIn(parent, l)) /\ Ring(next, prev, CellsIn(parent, x))
  BY <1>1, Resting
<1>5. Members(s) \cap Members(t) = {}
  BY <1>1, <1>4, ListAssumption DEF NodesOf
<1>6. Yields(next, l, s) /\ Yields(next, x, t)
  BY <1>4, ContentYields
<1>7. Content(l)' = s /\ Content(x)' = t
  BY <1>1 DEF Content
<1> HIDE DEF s, t
<1>8. Injective(s \o t)
  BY <1>4, <1>5, ConcatParts
<1>9. next[l] = Place(l, s, 1) /\ next[x] = Place(x, t, 1)
  <2>1. 0 \in 0..Len(s) /\ 0 \in 0..Len(t) /\ Place(l, s, 0) = l /\ Place(x, t, 0) = x /\ 0 + 1 = 1
    BY <1>4 DEF Place
  <2> QED BY <1>6, <2>1 DEF Yields
<1>10. t = Rest(t, 0)
  <2>1. t = SubSeq(t, 1, Len(t)) /\ 0 + 1 = 1
    BY <1>4
  <2> QED BY <2>1 DEF Rest
<1>11. Interleaved(s, t, s, 0, 0) /\ (InOrder(s) => Sifted(s, t, s, 0, 0))
  BY <1>4, <1>8, MergeStarts
<1>12. MergeAt(l, x, 0, 0)'
  BY <1>3, <1>7, <1>9, <1>10, <1>11 DEF MergeAt
<1> QED BY <1>3, <1>12 DEF MergeOrder

LEMMA MergeSkipOrders ==
  ASSUME IInv, MergeOrder, MergeSkip
  PROVE  MergeOrder'
<1>1. Running("merge") /\ next' = next /\ loop.at.p # loop.list /\ loop.at.q # loop.other
  BY DEF MergeSkip
<1>2. PICK l, x, c, j : l = loop.list /\ x = loop.other /\ MergeAt(l, x, c, j)
  BY <1>1 DEF MergeOrder
<1> DEFINE s == loop.before[l]
           t == loop.before[x]
           r == Content(l)
           p == loop.at.p
           at == [loop.at EXCEPT !.p = next[p]]
<1>3. /\ loop \in Loops /\ loop.at \in WalkCursors /\ l \in Lists /\ x \in Lists
      /\ TypeOK /\ Rooted /\ Ring(next, prev, CellsIn(parent, l)) /\ p \in CellsIn(parent, l)
  BY <1>1, <1>2, MergeIs
<1>4. next[p] \in CellsIn(parent, l)
  BY <1>3 DEF Ring
<1>5. at \in WalkCursors /\ at.p = next[p] /\ at.q = loop.at.q
  BY <1>3, <1>4 DEF WalkCursors, CellsIn
<1>6. loop' = [loop EXCEPT !.at = at]
  BY <1>3 DEF MergeSkip, Loops
<1> HIDE DEF at
<1>7. /\ loop'.at = at /\ loop'.list = l /\ loop'.other = x /\ loop'.before = loop.before
      /\ loop'.lawful = loop.lawful
  BY <1>2, <1>3, <1>5, <1>6, CursorKeeps
<1>8. Content(l)' = r /\ Content(x)' = Content(x)
  BY <1>1 DEF Content
<1>9. Yields(next, l, r)
  BY <1>3, ContentYields
<1>10. loop.lawful => Key[p] <= Key[loop.at.q]
  <2>1. ASSUME loop.lawful PROVE ~(Key[loop.at.q] < Key[p])
    BY <2>1 DEF MergeSkip, Less
  <2>2. p \in Nodes /\ loop.at.q \in Nodes
    <3>1. loop.at.q \in CellsIn(parent, x) /\ CellsIn(parent, x) \ {x} \subseteq Nodes
          /\ CellsIn(parent, l) \ {l} \subseteq Nodes
      BY <1>1, <1>2, <1>3, MergeIs, CellFacts
    <3> QED BY <1>1, <1>2, <1>3, <3>1
  <2>3. Key[p] \in Nat /\ Key[loop.at.q] \in Nat
    BY <2>2, ListAssumption
  <2> QED BY <2>1, <2>3
<1>11. /\ Interleaved(s, t, r, c, j) /\ Content(x) = Rest(t, j)
       /\ p = Place(l, r, c + 1) /\ loop.at.q = Place(x, t, j + 1)
       /\ loop.lawful /\ InOrder(s) /\ InOrder(t) => Sifted(s, t, r, c, j)
  BY <1>2 DEF MergeAt
<1>12. p # l /\ loop.at.q # x
  BY <1>1, <1>2
<1> HIDE DEF s, t, r, p
<1>13. /\ c \in 0..Len(r) /\ j \in 0..Len(t) /\ r \in Seq(Nodes) /\ t \in Seq(Nodes)
  BY <1>11 DEF Interleaved
<1>14. c < Len(r) /\ j < Len(t) /\ p = r[c + 1] /\ loop.at.q = t[j + 1]
  BY <1>11, <1>12, <1>13 DEF Place
<1>15. /\ Interleaved(s, t, r, c + 1, j)
       /\ Sifted(s, t, r, c, j) /\ InOrder(t) /\ Key[r[c + 1]] <= Key[t[j + 1]]
            => Sifted(s, t, r, c + 1, j)
  BY <1>11, <1>14, SkipSifts
<1>16. next[p] = Place(l, r, (c + 1) + 1)
  <2>1. c + 1 \in 0..Len(r)
    BY <1>13, <1>14
  <2> QED BY <1>9, <1>11, <2>1 DEF Yields
<1>17. loop.lawful /\ InOrder(s) /\ InOrder(t) => Sifted(s, t, r, c + 1, j)
  BY <1>10, <1>11, <1>14, <1>15
<1> PICK d : d = c + 1
  OBVIOUS
<1>18. MergeAt(l, x, d, j)'
  BY <1>5, <1>7, <1>8, <1>11, <1>15, <1>16, <1>17 DEF MergeAt, s, t
<1> QED BY <1>7, <1>18 DEF MergeOrder

\* What is left when the first of v is taken.
LEMMA FirstGone ==
  ASSUME NEW t \in Seq(Nodes), NEW j \in 0..Len(t), j < Len(t), NEW v, v = Rest(t, j)
  PROVE  /\ v \in Seq(Nodes) /\ Len(v) = Len(t) - j /\ \A m \in 1..Len(v) : v[m] = t[j + m]
         /\ Without(v, 0, 1) = Rest(t, j + 1)
         /\ SubSeq(v, 1, 1) = <<t[j + 1]>>
<1>1. /\ v \in Seq(Nodes) /\ Len(v) = Len(t) - j /\ \A m \in 1..Len(v) : v[m] = t[j + m]
  BY DEF Rest
<1>2. Without(v, 0, 1) = SubSeq(t, (j + 1) + 1, Len(t))
  <2> DEFINE w == Without(v, 0, 1)
             z == SubSeq(t, (j + 1) + 1, Len(t))
  <2>1. WithoutSeq(Nodes, v, 0, 1 - 0, w)
    <3>1. 0 \in 0..Len(v) /\ 1 \in 0..Len(v)
      BY <1>1
    <3> HIDE DEF w
    <3> QED BY <1>1, <3>1, WithoutIs DEF w
  <2>2. z \in Seq(Nodes) /\ Len(z) = Len(t) - (j + 1) /\ \A m \in 1..Len(z) : z[m] = t[(j + 1) + m]
    OBVIOUS
  <2> HIDE DEF w, z
  <2>3. w \in Seq(Nodes) /\ Len(w) = Len(v) - 1 /\ \A m \in 1..Len(w) : w[m] = v[m + 1]
    <3>1. w \in Seq(Nodes) /\ Len(w) = Len(v) - (1 - 0)
      BY <2>1 DEF WithoutSeq
    <3>2. \A m \in 1..(Len(v) - (1 - 0)) : w[m] = IF m <= 0 THEN v[m] ELSE v[m + (1 - 0)]
      BY <2>1 DEF WithoutSeq
    <3>3. 1 - 0 = 1 /\ \A m \in 1..Len(w) : ~(m <= 0)
      OBVIOUS
    <3> QED BY <3>1, <3>2, <3>3
  <2>4. Len(w) = Len(z)
    BY <1>1, <2>2, <2>3
  <2>5. ASSUME NEW m \in 1..Len(w) PROVE w[m] = z[m]
    <3>1. m + 1 \in 1..Len(v) /\ m \in 1..Len(z) /\ j + (m + 1) = (j + 1) + m
      BY <1>1, <2>3, <2>4
    <3>2. w[m] = v[m + 1] /\ v[m + 1] = t[j + (m + 1)] /\ z[m] = t[(j + 1) + m]
      BY <1>1, <2>2, <2>3, <3>1
    <3> QED BY <3>1, <3>2
  <2>6. w = z
    BY <2>2, <2>3, <2>4, <2>5, SameSequence
  <2> QED BY <2>6 DEF w, z
<1>3. SubSeq(v, 1, 1) = <<t[j + 1]>>
  <2>1. 1 \in 1..Len(v)
    BY <1>1
  <2>2. v[1] = t[j + 1]
    BY <1>1, <2>1
  <2>3. SubSeq(v, 1, 1) = <<v[1]>>
    <3>1. /\ SubSeq(v, 1, 1) \in Seq(Nodes) /\ Len(SubSeq(v, 1, 1)) = 1
          /\ SubSeq(v, 1, 1)[1] = v[1]
      BY <1>1, <2>1
    <3>2. <<v[1]>> \in Seq(Nodes) /\ Len(<<v[1]>>) = 1 /\ <<v[1]>>[1] = v[1]
      BY <1>1, <2>1
    <3> DEFINE a == SubSeq(v, 1, 1)
               b == <<v[1]>>
    <3>3. a \in Seq(Nodes) /\ b \in Seq(Nodes) /\ Len(a) = Len(b) /\ Len(b) = 1 /\ a[1] = b[1]
      BY <3>1, <3>2
    <3> HIDE DEF a, b
    <3>4. \A m \in 1..Len(b) : m = 1
      BY <3>3
    <3>5. a = b
      BY <3>3, <3>4, SameSequence
    <3> QED BY <3>5 DEF a, b
  <2> QED BY <2>2, <2>3
<1> QED BY <1>1, <1>2, <1>3 DEF Rest

\* A node is behind the root and before the second one only if it is the first.
LEMMA FirstPlaces ==
  ASSUME NEW x \in Lists, NEW v \in Seq(Nodes), Injective(v), v # <<>>,
         NEW i \in 0..Len(v), NEW j \in 0..Len(v), i < j,
         Place(x, v, i + 1) = v[1], Place(x, v, j + 1) = Place(x, v, 2)
  PROVE  i = 0 /\ j = 1
<1>1. Len(v) \in Nat \ {0} /\ \A m \in 1..Len(v) : v[m] # x
  BY Basics
<1>2. i = 0
  <2>1. i + 1 \in 1..Len(v)
    BY <1>1 DEF Place
  <2>2. v[i + 1] = v[1]
    BY <2>1 DEF Place
  <2> QED BY <1>1, <2>1, <2>2 DEF Injective
<1>3. j = 1
  <2>1. CASE 2 \in 1..Len(v)
    <3>1. Place(x, v, 2) = v[2] /\ v[2] # x
      BY <1>1, <2>1 DEF Place
    <3>2. j + 1 \in 1..Len(v) /\ v[j + 1] = v[2]
      BY <3>1 DEF Place
    <3>3. j + 1 = 2
      BY <2>1, <3>2 DEF Injective
    <3> QED BY <1>1, <3>3
  <2>2. CASE 2 \notin 1..Len(v)
    BY <1>1, <2>2
  <2> QED BY <2>1, <2>2
<1> QED BY <1>2, <1>3

\* The first node of the other list comes before p.
LEMMA MergeTakeShows ==
  ASSUME IInv, MergeTake, NEW l, l = loop.list, NEW x, x = loop.other
  PROVE  /\ Content(x) \in Seq(Nodes) /\ Injective(Content(x)) /\ Yields(next, x, Content(x))
         /\ loop.at.q = Place(x, Content(x), 1) =>
              \E k \in 0..Len(Content(l)) :
                 /\ loop.at.p = Place(l, Content(l), k + 1)
                 /\ Content(x)' = Without(Content(x), 0, 1)
                 /\ Content(l)' = Spliced(Content(l), k, SubSeq(Content(x), 1, 1))
<1> PICK p, q, e : p = loop.at.p /\ q = loop.at.q /\ e = next[q]
  OBVIOUS
<1>1. Running("merge") /\ q # x /\ next' = Transfer(Links, p, q, next[q]).next
      /\ loop' = [loop EXCEPT !.at.q = next[q]]
  BY DEF MergeTake, Become
<1>2. /\ loop \in Loops /\ loop.op = "merge" /\ l \in Lists /\ x \in Lists
      /\ l # x /\ p \in CellsIn(parent, l) /\ q \in CellsIn(parent, x)
      /\ TypeOK /\ Rooted /\ Ring(next, prev, CellsIn(parent, x)) /\ x \in CellsIn(parent, x)
  BY <1>1, MergeIs
<1>3. ~Running("sort") /\ ~(Running("sort")')
  BY <1>1, <1>2 DEF Running, Loops
<1>4. next[q] # q /\ next[q] \in CellsIn(parent, x)
  <2>1. next[q] # q
    BY <1>1, <1>2, NotAlone
  <2> QED BY <1>2, <2>1 DEF Ring
<1>5. Between(q, next[q]) = {q}
  BY <1>2, <1>4, OneBetween
<1>6. x \notin Between(q, next[q])
  BY <1>1, <1>5
<1>11. e \in CellsIn(parent, x) /\ q # e /\ x \notin Between(q, e) /\ next' = Transfer(Links, p, q, e).next
  BY <1>1, <1>4, <1>6
<1>7. PICK i \in 0..Len(Content(x)), j \in 0..Len(Content(x)), k \in 0..Len(Content(l)) :
        /\ i < j /\ q = Place(x, Content(x), i + 1) /\ e = Place(x, Content(x), j + 1)
        /\ p = Place(l, Content(l), k + 1)
        /\ Content(x)' = Without(Content(x), i, j)
        /\ Content(l)' = Spliced(Content(l), k, SubSeq(Content(x), i + 1, j))
  BY <1>2, <1>3, <1>11, TransferChanges
<1>8. Yields(next, x, Content(x)) /\ Content(x) \in Seq(Nodes) /\ Injective(Content(x))
  BY <1>2, ContentYields, RoundOn
<1>9. ASSUME q = Place(x, Content(x), 1) PROVE i = 0 /\ j = 1
  <2> PICK v : v = Content(x)
    OBVIOUS
  <2>1. Yields(next, x, v) /\ v \in Seq(Nodes) /\ Injective(v)
    BY <1>8
  <2>2. 1 \in 1..Len(v) /\ q = v[1] /\ v # <<>>
    <3>1. 1 \in 1..Len(v)
      BY <1>1, <1>9 DEF Place
    <3> QED BY <1>9, <2>1, <3>1 DEF Place
  <2>3. next[q] = Place(x, v, 2)
    <3>1. 1 \in 0..Len(v) /\ 1 + 1 = 2 /\ Place(x, v, 1) = q
      BY <1>9, <2>1, <2>2
    <3> QED BY <2>1, <3>1 DEF Yields
  <2>4. /\ i \in 0..Len(v) /\ j \in 0..Len(v) /\ i < j
        /\ Place(x, v, i + 1) = v[1] /\ Place(x, v, j + 1) = Place(x, v, 2)
    BY <1>7, <2>2, <2>3
  <2> QED BY <1>2, <2>1, <2>2, <2>4, FirstPlaces
<1>10. ASSUME q = Place(x, Content(x), 1)
       PROVE  /\ Content(x)' = Without(Content(x), 0, 1)
              /\ Content(l)' = Spliced(Content(l), k, SubSeq(Content(x), 1, 1))
  <2>1. i = 0 /\ j = 1 /\ i + 1 = 1
    BY <1>9, <1>10
  <2> QED BY <1>7, <2>1
<1> QED BY <1>7, <1>8, <1>10

LEMMA MergeTakeOrders ==
  ASSUME IInv, MergeOrder, MergeTake
  PROVE  MergeOrder'
<1>1. Running("merge") /\ loop.at.q # loop.other /\ loop' = [loop EXCEPT !.at.q = next[@]]
  BY DEF MergeTake
<1>2. PICK l, x, c, j : l = loop.list /\ x = loop.other /\ MergeAt(l, x, c, j)
  BY <1>1 DEF MergeOrder
<1> PICK s, t, r, v, p, q, w :
      /\ s = loop.before[l] /\ t = loop.before[x] /\ r = Content(l) /\ v = Content(x)
      /\ p = loop.at.p /\ q = loop.at.q /\ w = next[q]
  OBVIOUS
<1>3. /\ loop \in Loops /\ loop.at \in WalkCursors /\ l \in Lists /\ x \in Lists
      /\ TypeOK /\ Rooted /\ Ring(next, prev, CellsIn(parent, l)) /\ p \in CellsIn(parent, l)
      /\ Ring(next, prev, CellsIn(parent, x)) /\ q \in CellsIn(parent, x) /\ q # x
  BY <1>1, <1>2, MergeIs
<1>4. w \in CellsIn(parent, x)
  BY <1>3 DEF Ring
<1> DEFINE at == [loop.at EXCEPT !.q = w]
<1>5. at \in WalkCursors /\ at.p = p /\ at.q = w
  BY <1>3, <1>4 DEF WalkCursors, CellsIn
<1>6. loop' = [loop EXCEPT !.at = at]
  BY <1>1, <1>3 DEF Loops
<1> HIDE DEF at
<1>7. /\ loop'.at = at /\ loop'.list = l /\ loop'.other = x /\ loop'.before = loop.before
      /\ loop'.lawful = loop.lawful
  BY <1>2, <1>3, <1>5, <1>6, CursorKeeps
<1>8. Yields(next, l, r) /\ Injective(r)
  BY <1>3, ContentYields, RoundOn
<1>9. /\ Interleaved(s, t, r, c, j) /\ v = Rest(t, j)
      /\ p = Place(l, r, c + 1) /\ q = Place(x, t, j + 1)
      /\ loop.lawful /\ InOrder(s) /\ InOrder(t) => Sifted(s, t, r, c, j)
  BY <1>2 DEF MergeAt
<1>10. /\ c \in 0..Len(r) /\ j \in 0..Len(t) /\ r \in Seq(Nodes) /\ t \in Seq(Nodes)
  BY <1>9 DEF Interleaved
<1>11. j < Len(t) /\ q = t[j + 1]
  BY <1>3, <1>9, <1>10 DEF Place
<1>12. /\ v \in Seq(Nodes) /\ Len(v) = Len(t) - j /\ \A m \in 1..Len(v) : v[m] = t[j + m]
       /\ Without(v, 0, 1) = Rest(t, j + 1)
       /\ SubSeq(v, 1, 1) = <<t[j + 1]>>
  BY <1>9, <1>10, <1>11, FirstGone
<1>13. q = Place(x, v, 1)
  <2>1. 1 \in 1..Len(v) /\ v[1] = t[j + 1]
    BY <1>10, <1>11, <1>12
  <2> QED BY <1>11, <2>1 DEF Place
<1>14. PICK k \in 0..Len(r) :
         /\ p = Place(l, r, k + 1)
         /\ Content(x)' = Without(v, 0, 1)
         /\ Content(l)' = Spliced(r, k, SubSeq(v, 1, 1))
  BY <1>2, <1>13, MergeTakeShows
<1>15. k = c
  <2>1. \A m \in 1..Len(r) : r[m] # l
    BY <1>3, <1>10, Basics
  <2>2. CASE k + 1 \in 1..Len(r) /\ c + 1 \in 1..Len(r)
    <3>1. r[k + 1] = r[c + 1]
      BY <1>9, <1>14, <2>2 DEF Place
    <3> QED BY <1>8, <1>10, <2>2, <3>1 DEF Injective
  <2>3. CASE k + 1 \notin 1..Len(r) \/ c + 1 \notin 1..Len(r)
    <3>1. k + 1 \notin 1..Len(r) /\ c + 1 \notin 1..Len(r)
      BY <1>9, <1>14, <2>1, <2>3 DEF Place
    <3> QED BY <1>10, <3>1
  <2> QED BY <2>2, <2>3
<1> PICK z : z = Spliced(r, c, <<t[j + 1]>>)
  OBVIOUS
<1>16. Content(l)' = z /\ Content(x)' = Rest(t, j + 1)
  BY <1>12, <1>14, <1>15
<1>17. /\ Interleaved(s, t, z, c + 1, j + 1)
       /\ Sifted(s, t, r, c, j) /\ InOrder(t) /\ (c < Len(r) => Key[t[j + 1]] < Key[r[c + 1]])
            => Sifted(s, t, z, c + 1, j + 1)
  BY <1>9, <1>11, TakeSifts
<1>18. loop.lawful /\ c < Len(r) => Key[t[j + 1]] < Key[r[c + 1]]
  <2> SUFFICES ASSUME loop.lawful, c < Len(r) PROVE Key[q] < Key[r[c + 1]]
    BY <1>11
  <2>1. c + 1 \in 1..Len(r)
    BY <1>10
  <2>2. p = r[c + 1] /\ p # l
    BY <1>3, <1>9, <1>10, <2>1, Basics DEF Place
  <2>3. Less(q, p, TRUE)
    BY <1>2, <2>2 DEF MergeTake
  <2> QED BY <2>2, <2>3 DEF Less
<1>19. p = Place(l, z, (c + 1) + 1)
  <2>1. SplicedSeq(Nodes, r, c, <<t[j + 1]>>, z)
    <3>1. <<t[j + 1]>> \in Seq(Nodes)
      <4>1. j + 1 \in 1..Len(t)
        BY <1>10, <1>11
      <4> QED BY <1>10, <4>1
    <3> QED BY <1>10, <3>1, SplicedIs
  <2> PICK y : y = <<t[j + 1]>>
    OBVIOUS
  <2>2. Len(y) = 1 /\ Len(z) = Len(r) + Len(y) /\ Len(r) \in Nat
        /\ \A m \in 1..(Len(r) + Len(y)) :
             z[m] = IF m <= c THEN r[m] ELSE IF m <= c + Len(y) THEN y[m - c] ELSE r[m - Len(y)]
    BY <1>10, <2>1 DEF SplicedSeq
  <2>3. CASE c < Len(r)
    <3>1. /\ (c + 1) + 1 \in 1..(Len(r) + Len(y)) /\ ~((c + 1) + 1 <= c) /\ ~((c + 1) + 1 <= c + Len(y))
          /\ ((c + 1) + 1) - Len(y) = c + 1 /\ c + 1 \in 1..Len(r)
      BY <1>10, <2>2, <2>3
    <3>2. z[(c + 1) + 1] = r[c + 1]
      BY <2>2, <3>1
    <3> QED BY <1>9, <2>2, <3>1, <3>2 DEF Place
  <2>4. CASE c = Len(r)
    BY <1>9, <2>2, <2>4 DEF Place
  <2> QED BY <1>10, <2>3, <2>4
<1>20. w = Place(x, t, (j + 1) + 1)
  <2>1. Yields(next, x, v)
    BY <1>2, MergeTakeShows
  <2>2. w = Place(x, v, 2)
    <3>1. 1 \in 0..Len(v) /\ 1 + 1 = 2
      BY <1>10, <1>11, <1>12
    <3> QED BY <1>13, <2>1, <3>1 DEF Yields
  <2>3. CASE 2 <= Len(v)
    <3>1. 2 \in 1..Len(v) /\ (j + 1) + 1 \in 1..Len(t) /\ v[2] = t[j + 2] /\ j + 2 = (j + 1) + 1
      BY <1>10, <1>12, <2>3
    <3> QED BY <2>2, <3>1 DEF Place
  <2>4. CASE ~(2 <= Len(v))
    <3>1. 2 \notin 1..Len(v) /\ (j + 1) + 1 \notin 1..Len(t)
      BY <1>10, <1>12, <2>4
    <3> QED BY <2>2, <3>1 DEF Place
  <2> QED BY <2>3, <2>4
<1>21. loop.lawful /\ InOrder(s) /\ InOrder(t) => Sifted(s, t, z, c + 1, j + 1)
  BY <1>9, <1>17, <1>18
<1> PICK d, i : d = c + 1 /\ i = j + 1
  OBVIOUS
<1>22. MergeAt(l, x, d, i)'
  BY <1>5, <1>7, <1>16, <1>17, <1>19, <1>20, <1>21 DEF MergeAt
<1> QED BY <1>7, <1>22 DEF MergeOrder

\* The lists that merge() leaves.
LEMMA MergeReturnStable ==
  ASSUME IInv, MergeOrder
  PROVE  MergeStable
<1> SUFFICES ASSUME NEW l \in Lists, NEW x \in Lists, MergeReturn, loop.list = l, loop.other = x, loop.lawful
             PROVE  /\ Content(x)' = <<>>
                    /\ InOrder(loop.before[l]) /\ InOrder(loop.before[x])
                         => StablySorted(loop.before[l] \o loop.before[x], Content(l)')
  BY DEF MergeStable
<1>1. Running("merge") /\ loop.at.q = x /\ next' = next
  BY DEF MergeReturn
<1>2. PICK c, j : MergeAt(l, x, c, j)
  BY <1>1 DEF MergeOrder
<1> PICK s, t, r, v : s = loop.before[l] /\ t = loop.before[x] /\ r = Content(l) /\ v = Content(x)
  OBVIOUS
<1>3. Content(l)' = r /\ Content(x)' = v
  BY <1>1 DEF Content
<1>4. /\ Interleaved(s, t, r, c, j) /\ v = Rest(t, j) /\ x = Place(x, t, j + 1)
      /\ InOrder(s) /\ InOrder(t) => Sifted(s, t, r, c, j)
  BY <1>1, <1>2 DEF MergeAt
<1>5. j \in 0..Len(t) /\ t \in Seq(Nodes)
  BY <1>4 DEF Interleaved
<1>6. j = Len(t)
  <2>1. \A m \in 1..Len(t) : t[m] # x
    BY <1>5, Basics
  <2> QED BY <1>4, <1>5, <2>1 DEF Place
<1>7. v = <<>>
  BY <1>4, <1>5, <1>6 DEF Rest
<1>8. ASSUME InOrder(s), InOrder(t) PROVE StablySorted(s \o t, r)
  BY <1>4, <1>6, <1>8, MergeEnds
<1> QED BY <1>3, <1>7, <1>8

LEMMA MergeOrderGoesOn == IInv /\ IInv' /\ MergeOrder /\ [Next]_vars => MergeOrder'
<1> SUFFICES ASSUME IInv, IInv', MergeOrder, [Next]_vars, (loop # Null /\ loop.op = "merge")'
             PROVE  MergeOrder'
  BY DEF MergeOrder, Running
<1>1. CASE UNCHANGED vars
  BY <1>1 DEF vars, MergeOrder, Running, MergeAt, Content
<1>2. CASE \E l, x \in Lists, lawful \in BOOLEAN : Merge(l, x, lawful)
  BY <1>2, MergeBeginOrders
<1> QED BY <1>1, <1>2, LoopRuns, MergeTakeOrders, MergeSkipOrders

LEMMA MergeOrderBegins == Init => MergeOrder
BY DEF Init, MergeOrder, Running

-----------------------------------------------------------------------------
(* unique(): what is left of the nodes that it has looked at.                *)

\* The first c of r are what is left of the first j of s; all behind them are behind those.
Thinned(s, r, c, j) ==
  /\ s \in Seq(Nodes) /\ Injective(s) /\ r \in Seq(Nodes)
  /\ c \in 1..Len(r) /\ j \in 1..Len(s) /\ Len(r) + j = Len(s) + c
  /\ \A m \in 1..Len(r) : c < m => r[m] = s[(m - c) + j]
  /\ \A a, b \in 1..c : a < b => Index(s, r[a]) < Index(s, r[b])
  /\ \A a \in 1..c : Index(s, r[a]) \in 1..j

\* They are the first ones of their groups, and the last of them that of the group of the j-th.
Grouped(s, r, c, j) ==
  /\ {r[m] : m \in 1..c} = {s[i] : i \in Firsts(s) \cap (1..j)}
  /\ Key[s[j]] = Key[r[c]]

LEMMA UniqueStarts ==
  ASSUME NEW s \in Seq(Nodes), Injective(s), s # <<>>
  PROVE  Thinned(s, s, 1, 1) /\ Grouped(s, s, 1, 1)
<1>1. 1 \in 1..Len(s) /\ 1 \in DOMAIN s
  OBVIOUS
<1>2. \A m \in 1..Len(s) : (m - 1) + 1 = m
  OBVIOUS
<1>3. \A a \in 1..1 : a = 1
  OBVIOUS
<1>4. Index(s, s[1]) = 1
  BY <1>1, IndexIs
<1>5. Thinned(s, s, 1, 1)
  BY <1>1, <1>2, <1>3, <1>4 DEF Thinned
<1>6. Firsts(s) \cap (1..1) = {1}
  BY <1>1, <1>3 DEF Firsts
<1>7. {s[m] : m \in 1..1} = {s[i] : i \in {1}}
  BY <1>3
<1>8. Grouped(s, s, 1, 1)
  BY <1>6, <1>7 DEF Grouped
<1> QED BY <1>5, <1>8

\* The node behind the last one that is left.
LEMMA ThinnedNext ==
  ASSUME NEW s, NEW r, NEW c, NEW j, Thinned(s, r, c, j), c < Len(r)
  PROVE  /\ s \in Seq(Nodes) /\ r \in Seq(Nodes) /\ Injective(s)
         /\ c \in Nat \ {0} /\ j \in Nat \ {0} /\ c + 1 \in 1..Len(r) /\ j + 1 \in 1..Len(s)
         /\ r[c + 1] = s[j + 1] /\ Index(s, r[c + 1]) = j + 1
<1>1. /\ s \in Seq(Nodes) /\ r \in Seq(Nodes) /\ Injective(s)
      /\ c \in 1..Len(r) /\ j \in 1..Len(s) /\ Len(r) + j = Len(s) + c
      /\ Len(r) \in Nat /\ Len(s) \in Nat
  BY DEF Thinned
<1>2. /\ c \in Nat \ {0} /\ j \in Nat \ {0} /\ c + 1 \in 1..Len(r) /\ j + 1 \in 1..Len(s)
      /\ ((c + 1) - c) + j = j + 1 /\ c < c + 1
  BY <1>1
<1>3. r[c + 1] = s[j + 1]
  BY <1>2 DEF Thinned
<1>4. Index(s, s[j + 1]) = j + 1
  BY <1>1, <1>2, IndexIs
<1> QED BY <1>1, <1>2, <1>3, <1>4

\* Which groups begin up to the next node.
LEMMA NextFirst ==
  ASSUME NEW s \in Seq(Nodes), NEW j \in Nat \ {0}, j + 1 \in 1..Len(s)
  PROVE  Firsts(s) \cap (1..(j + 1)) =
           (Firsts(s) \cap (1..j)) \cup (IF Key[s[j]] # Key[s[j + 1]] THEN {j + 1} ELSE {})
<1>1. \A i : i \in 1..(j + 1) <=> i \in 1..j \/ i = j + 1
  OBVIOUS
<1>2. j + 1 \in Firsts(s) <=> Key[s[j]] # Key[s[j + 1]]
  <2>1. (j + 1) - 1 = j /\ j + 1 # 1 /\ j + 1 \in DOMAIN s
    OBVIOUS
  <2> QED BY <2>1 DEF Firsts
<1> QED BY <1>1, <1>2

\* The node behind is one of another group: it is left.
LEMMA KeepThins ==
  ASSUME NEW s, NEW r, NEW c, NEW j, Thinned(s, r, c, j), c < Len(r)
  PROVE  /\ Thinned(s, r, c + 1, j + 1)
         /\ Grouped(s, r, c, j) /\ Key[r[c]] # Key[r[c + 1]] => Grouped(s, r, c + 1, j + 1)
<1>1. /\ s \in Seq(Nodes) /\ r \in Seq(Nodes) /\ Injective(s)
      /\ c \in Nat \ {0} /\ j \in Nat \ {0} /\ c + 1 \in 1..Len(r) /\ j + 1 \in 1..Len(s)
      /\ r[c + 1] = s[j + 1] /\ Index(s, r[c + 1]) = j + 1
  BY ThinnedNext
<1>2. /\ Len(r) + j = Len(s) + c
      /\ \A m \in 1..Len(r) : c < m => r[m] = s[(m - c) + j]
      /\ \A a, b \in 1..c : a < b => Index(s, r[a]) < Index(s, r[b])
      /\ \A a \in 1..c : Index(s, r[a]) \in 1..j
  BY DEF Thinned
<1>3. \A a \in 1..(c + 1) : a \in 1..c \/ a = c + 1
  BY <1>1
<1>4. Thinned(s, r, c + 1, j + 1)
  <2>1. ASSUME NEW m \in 1..Len(r), c + 1 < m PROVE r[m] = s[(m - (c + 1)) + (j + 1)]
    <3>1. c < m /\ (m - (c + 1)) + (j + 1) = (m - c) + j
      BY <1>1, <2>1
    <3> QED BY <1>2, <3>1
  <2>2. ASSUME NEW a \in 1..(c + 1) PROVE Index(s, r[a]) \in 1..(j + 1)
    <3>1. CASE a = c + 1
      BY <1>1, <3>1
    <3>2. CASE a \in 1..c
      <4>1. Index(s, r[a]) \in 1..j
        BY <1>2, <3>2
      <4> QED BY <1>1, <4>1
    <3> QED BY <1>3, <3>1, <3>2
  <2>3. ASSUME NEW a \in 1..(c + 1), NEW b \in 1..(c + 1), a < b PROVE Index(s, r[a]) < Index(s, r[b])
    <3>1. a \in 1..c
      BY <1>1, <2>3
    <3>2. Index(s, r[a]) \in 1..j
      BY <1>2, <3>1
    <3>3. CASE b = c + 1
      BY <1>1, <3>2, <3>3
    <3>4. CASE b \in 1..c
      BY <1>2, <2>3, <3>1, <3>4
    <3> QED BY <1>3, <3>3, <3>4
  <2>4. Len(r) + (j + 1) = Len(s) + (c + 1)
    <3>1. Len(r) \in Nat /\ Len(s) \in Nat /\ j \in Nat /\ c \in Nat /\ Len(r) + j = Len(s) + c
      BY <1>1, <1>2
    <3> QED BY <3>1
  <2> QED BY <1>1, <2>1, <2>2, <2>3, <2>4 DEF Thinned
<1>5. ASSUME Grouped(s, r, c, j), Key[r[c]] # Key[r[c + 1]] PROVE Grouped(s, r, c + 1, j + 1)
  <2>1. {r[m] : m \in 1..c} = {s[i] : i \in Firsts(s) \cap (1..j)} /\ Key[s[j]] # Key[s[j + 1]]
    BY <1>1, <1>5 DEF Grouped
  <2>2. Firsts(s) \cap (1..(j + 1)) = (Firsts(s) \cap (1..j)) \cup {j + 1}
    BY <1>1, <2>1, NextFirst
  <2>3. {r[m] : m \in 1..(c + 1)} = {r[m] : m \in 1..c} \cup {r[c + 1]}
    <3>1. \A m : m \in 1..(c + 1) <=> m \in 1..c \/ m = c + 1
      BY <1>1
    <3> QED BY <3>1
  <2>4. {s[i] : i \in (Firsts(s) \cap (1..j)) \cup {j + 1}} = {s[i] : i \in Firsts(s) \cap (1..j)} \cup {s[j + 1]}
    OBVIOUS
  <2> QED BY <1>1, <2>1, <2>2, <2>3, <2>4 DEF Grouped
<1> QED BY <1>4, <1>5

\* The node behind is one of the same group: it goes.
LEMMA EraseThins ==
  ASSUME NEW s, NEW r, NEW c, NEW j, Thinned(s, r, c, j), c < Len(r), NEW z, z = Without(r, c, c + 1)
  PROVE  /\ Thinned(s, z, c, j + 1) /\ z \in Seq(Nodes) /\ Len(z) = Len(r) - 1 /\ z[c] = r[c]
         /\ \A m \in 1..(Len(r) - 1) : c < m => z[m] = r[m + 1]
         /\ Grouped(s, r, c, j) /\ Key[r[c]] = Key[r[c + 1]] => Grouped(s, z, c, j + 1)
<1>1. /\ s \in Seq(Nodes) /\ r \in Seq(Nodes) /\ Injective(s)
      /\ c \in Nat \ {0} /\ j \in Nat \ {0} /\ c + 1 \in 1..Len(r) /\ j + 1 \in 1..Len(s)
      /\ r[c + 1] = s[j + 1] /\ Index(s, r[c + 1]) = j + 1 /\ Len(r) \in Nat
  BY ThinnedNext
<1>2. /\ Len(r) + j = Len(s) + c
      /\ \A m \in 1..Len(r) : c < m => r[m] = s[(m - c) + j]
      /\ \A a, b \in 1..c : a < b => Index(s, r[a]) < Index(s, r[b])
      /\ \A a \in 1..c : Index(s, r[a]) \in 1..j
  BY DEF Thinned
<1>3. z \in Seq(Nodes) /\ Len(z) = Len(r) - 1 /\ \A m \in 1..Len(z) : z[m] = IF m <= c THEN r[m] ELSE r[m + 1]
  <2>1. c \in 0..Len(r) /\ c + 1 \in c..Len(r) /\ (c + 1) - c = 1
    BY <1>1
  <2>2. WithoutSeq(Nodes, r, c, 1, z)
    BY <1>1, <2>1, WithoutIs
  <2> QED BY <2>2 DEF WithoutSeq
<1>4. c \in 1..Len(z) /\ \A m \in 1..c : m \in 1..Len(z) /\ z[m] = r[m]
  <2>1. Len(z) = Len(r) - 1
    BY <1>3
  <2>2. c \in 1..Len(z)
    BY <1>1, <2>1
  <2>3. ASSUME NEW m \in 1..c PROVE m \in 1..Len(z) /\ z[m] = r[m]
    <3>1. m \in 1..Len(z) /\ m <= c
      BY <1>1, <2>1
    <3> QED BY <1>3, <3>1
  <2> QED BY <2>2, <2>3
<1>5. \A m \in 1..(Len(r) - 1) : c < m => z[m] = r[m + 1]
  BY <1>1, <1>3
<1>6. Thinned(s, z, c, j + 1)
  <2>1. ASSUME NEW m \in 1..Len(z), c < m PROVE z[m] = s[(m - c) + (j + 1)]
    <3>1. m + 1 \in 1..Len(r) /\ c < m + 1 /\ ((m + 1) - c) + j = (m - c) + (j + 1)
      BY <1>1, <1>3, <2>1
    <3>2. z[m] = r[m + 1]
      BY <1>3, <1>5, <2>1
    <3> QED BY <1>2, <3>1, <3>2
  <2>2. \A a \in 1..c : Index(s, z[a]) \in 1..(j + 1)
    <3>1. ASSUME NEW a \in 1..c PROVE Index(s, z[a]) \in 1..(j + 1)
      <4>1. Index(s, r[a]) \in 1..j /\ z[a] = r[a]
        BY <1>2, <1>4
      <4> QED BY <1>1, <4>1
    <3> QED BY <3>1
  <2>3. \A a, b \in 1..c : a < b => Index(s, z[a]) < Index(s, z[b])
    BY <1>2, <1>4
  <2>4. Len(z) + (j + 1) = Len(s) + c
    <3>1. Len(z) = Len(r) - 1 /\ Len(r) \in Nat /\ Len(s) \in Nat /\ j \in Nat /\ c \in Nat
      BY <1>1, <1>3
    <3> QED BY <1>2, <3>1
  <2>5. z \in Seq(Nodes) /\ c \in 1..Len(z)
    BY <1>3, <1>4
  <2> QED BY <1>1, <2>1, <2>2, <2>3, <2>4, <2>5 DEF Thinned
<1>7. ASSUME Grouped(s, r, c, j), Key[r[c]] = Key[r[c + 1]] PROVE Grouped(s, z, c, j + 1)
  <2>1. {r[m] : m \in 1..c} = {s[i] : i \in Firsts(s) \cap (1..j)} /\ Key[s[j]] = Key[s[j + 1]]
        /\ Key[s[j + 1]] = Key[r[c]]
    BY <1>1, <1>7 DEF Grouped
  <2>2. Firsts(s) \cap (1..(j + 1)) = Firsts(s) \cap (1..j)
    BY <1>1, <2>1, NextFirst
  <2>3. \A m \in 1..c : z[m] = r[m]
    BY <1>4
  <2>4. {z[m] : m \in 1..c} = {r[m] : m \in 1..c}
    BY <2>3
  <2>5. z[c] = r[c]
    BY <1>1, <2>3
  <2> QED BY <2>1, <2>2, <2>4, <2>5 DEF Grouped
<1>8. z[c] = r[c]
  BY <1>1, <1>4
<1> QED BY <1>3, <1>5, <1>6, <1>7, <1>8

\* Nothing is behind.
LEMMA UniqueEnds ==
  ASSUME NEW s, NEW r, NEW j, Thinned(s, r, Len(r), j), Grouped(s, r, Len(r), j)
  PROVE  OnlyFirsts(s, r)
<1>1. /\ s \in Seq(Nodes) /\ r \in Seq(Nodes) /\ j \in 1..Len(s) /\ Len(r) + j = Len(s) + Len(r)
      /\ Len(r) \in Nat /\ Len(s) \in Nat
      /\ \A a, b \in 1..Len(r) : a < b => Index(s, r[a]) < Index(s, r[b])
  BY DEF Thinned
<1>2. j = Len(s)
  BY <1>1
<1>3. Firsts(s) \cap (1..j) = Firsts(s)
  BY <1>1, <1>2 DEF Firsts
<1>4. DOMAIN r = 1..Len(r)
  BY <1>1
<1>5. Members(r) = {s[i] : i \in Firsts(s)}
  BY <1>3, <1>4 DEF Grouped, Members
<1> QED BY <1>1, <1>4, <1>5 DEF OnlyFirsts

\* What unique() has done: c nodes of the list are left of the j it has looked at.
UniqueAt(l, c, j) ==
  /\ Thinned(loop.before[l], Content(l), c, j)
  /\ loop.at.p = Content(l)[c] /\ loop.at.q = Place(l, Content(l), c + 1)
  /\ loop.lawful => Grouped(loop.before[l], Content(l), c, j)

UniqueOrder ==
  Running("unique") =>
    \/ loop.before[loop.list] = <<>> /\ Content(loop.list) = <<>> /\ loop.at.q = loop.list
    \/ \E c, j : UniqueAt(loop.list, c, j)

LEMMA UniqueIs ==
  ASSUME IInv, Running("unique"), NEW l, l = loop.list
  PROVE  /\ loop \in Loops /\ loop # Null /\ loop.op = "unique" /\ loop.at \in WalkCursors
         /\ l \in Lists /\ loop.at.q \in CellsIn(parent, l)
         /\ ~Running("sort") /\ TypeOK /\ Rooted
         /\ Ring(next, prev, CellsIn(parent, l)) /\ l \in CellsIn(parent, l)
<1>1. TypeOK /\ Rooted /\ ~Running("sort")
  BY DEF IInv, Running
<1>2. loop \in Loops /\ loop # Null /\ loop.op = "unique" /\ l \in Lists
  BY <1>1, LoopIs
<1>3. loop.at \in WalkCursors /\ loop.at.q \in CellsIn(parent, l)
  BY DEF IInv, LoopOK, Filtering
<1>4. Ring(next, prev, CellsIn(parent, l)) /\ l \in CellsIn(parent, l)
  BY <1>1, <1>2, AtRest, CellFacts DEF AllRings
<1> QED BY <1>1, <1>2, <1>3, <1>4

LEMMA UniqueBeginOrders ==
  ASSUME IInv, NEW l \in Lists, NEW lawful \in BOOLEAN, Unique(l, lawful)
  PROVE  UniqueOrder'
<1> PICK s : s = Content(l)
  OBVIOUS
<1>1. loop = Null /\ next' = next
  BY DEF Unique, Begin
<1>2. loop' = [op |-> "unique", list |-> l, other |-> l, lawful |-> lawful,
               at |-> [p |-> next[l], q |-> next[next[l]]], before |-> [m \in Lists |-> Content(m)]]
  BY DEF Unique, Begin
<1>3. /\ loop'.list = l /\ loop'.before[l] = s
      /\ loop'.at.p = next[l] /\ loop'.at.q = next[next[l]]
  BY <1>2
<1>4. /\ s \in Seq(Nodes) /\ Injective(s) /\ Yields(next, l, s)
  BY <1>1, Resting, ContentYields
<1>5. Content(l)' = s
  BY <1>1 DEF Content
<1>6. next[l] = Place(l, s, 1)
  <2>1. 0 \in 0..Len(s) /\ Place(l, s, 0) = l /\ 0 + 1 = 1
    BY <1>4 DEF Place
  <2> QED BY <1>4, <2>1 DEF Yields
<1>7. CASE s = <<>>
  <2>1. next[l] = l
    BY <1>6, <1>7 DEF Place
  <2> QED BY <1>3, <1>5, <1>7, <2>1 DEF UniqueOrder
<1>8. CASE s # <<>>
  <2>1. 1 \in 1..Len(s) /\ 1 \in 0..Len(s) /\ 1 + 1 = 2
    BY <1>4, <1>8
  <2>2. next[l] = s[1]
    BY <1>6, <2>1 DEF Place
  <2>3. next[next[l]] = Place(l, s, 1 + 1)
    BY <1>4, <1>6, <2>1 DEF Yields
  <2>4. Thinned(s, s, 1, 1) /\ Grouped(s, s, 1, 1)
    BY <1>4, <1>8, UniqueStarts
  <2>5. UniqueAt(l, 1, 1)'
    BY <1>3, <1>5, <2>2, <2>3, <2>4 DEF UniqueAt
  <2> QED BY <1>3, <2>5 DEF UniqueOrder
<1> QED BY <1>7, <1>8

\* The next node, and the one behind it.
LEMMA UniqueNext ==
  ASSUME IInv, UniqueOrder, Running("unique"), loop.at.q # loop.list, NEW l, l = loop.list
  PROVE  /\ Content(l) \in Seq(Nodes) /\ Injective(Content(l))
         /\ \E c, j : /\ UniqueAt(l, c, j) /\ c \in 1..Len(Content(l)) /\ c < Len(Content(l))
                      /\ c + 1 \in 1..Len(Content(l)) /\ loop.at.q = Content(l)[c + 1]
                      /\ next[loop.at.q] = Place(l, Content(l), (c + 1) + 1)
<1> PICK r, q : r = Content(l) /\ q = loop.at.q
  OBVIOUS
<1>1. /\ l \in Lists /\ TypeOK /\ Rooted /\ Ring(next, prev, CellsIn(parent, l))
  BY UniqueIs
<1>2. r \in Seq(Nodes) /\ Injective(r) /\ Yields(next, l, r)
  BY <1>1, ContentYields, RoundOn
<1>3. PICK c, j : UniqueAt(l, c, j)
  BY DEF UniqueOrder
<1>4. q = Place(l, r, c + 1) /\ c \in 1..Len(r) /\ q # l
  BY <1>3 DEF UniqueAt, Thinned
<1>5. c < Len(r) /\ c + 1 \in 1..Len(r) /\ q = r[c + 1]
  BY <1>2, <1>4 DEF Place
<1>6. next[q] = Place(l, r, (c + 1) + 1)
  <2>1. c + 1 \in 0..Len(r)
    BY <1>5
  <2> QED BY <1>2, <1>4, <2>1 DEF Yields
<1> QED BY <1>2, <1>3, <1>4, <1>5, <1>6

LEMMA UniqueKeepOrders ==
  ASSUME IInv, UniqueOrder, Running("unique"), FilterKeep
  PROVE  UniqueOrder'
<1>1. next' = next /\ loop.at.q # loop.list /\ Equal(loop.at.p, loop.at.q, FALSE)
      /\ loop' = [loop EXCEPT !.at = [p |-> @.q, q |-> next[@.q]]]
  BY DEF FilterKeep
<1> PICK l, r, q, w : l = loop.list /\ r = Content(l) /\ q = loop.at.q /\ w = next[q]
  OBVIOUS
<1>2. /\ loop \in Loops /\ loop.at \in WalkCursors /\ l \in Lists /\ q \in CellsIn(parent, l)
      /\ TypeOK /\ Rooted /\ Ring(next, prev, CellsIn(parent, l))
  BY UniqueIs
<1>3. PICK c, j : /\ UniqueAt(l, c, j) /\ c < Len(r) /\ c + 1 \in 1..Len(r) /\ q = r[c + 1]
                  /\ w = Place(l, r, (c + 1) + 1)
  BY <1>1, UniqueNext
<1> DEFINE at == [p |-> q, q |-> w]
<1>4. at \in WalkCursors /\ at.p = q /\ at.q = w
  <2>1. w \in CellsIn(parent, l)
    BY <1>2 DEF Ring
  <2> QED BY <1>2, <2>1 DEF WalkCursors, CellsIn
<1>5. loop' = [loop EXCEPT !.at = at]
  BY <1>1, <1>2 DEF Loops
<1> HIDE DEF at
<1>6. /\ loop'.at = at /\ loop'.list = l /\ loop'.before = loop.before /\ loop'.lawful = loop.lawful
  BY <1>2, <1>4, <1>5, CursorKeeps
<1>7. Content(l)' = r
  BY <1>1 DEF Content
<1> PICK s : s = loop.before[l]
  OBVIOUS
<1>8. /\ Thinned(s, r, c, j) /\ loop.at.p = r[c] /\ (loop.lawful => Grouped(s, r, c, j))
  BY <1>3 DEF UniqueAt
<1>9. loop.lawful => Key[r[c]] # Key[r[c + 1]]
  BY <1>1, <1>3, <1>8 DEF Equal
<1>10. /\ Thinned(s, r, c + 1, j + 1)
       /\ Grouped(s, r, c, j) /\ Key[r[c]] # Key[r[c + 1]] => Grouped(s, r, c + 1, j + 1)
  BY <1>3, <1>8, KeepThins
<1> PICK d, i : d = c + 1 /\ i = j + 1
  OBVIOUS
<1>11. UniqueAt(l, d, i)'
  BY <1>3, <1>4, <1>6, <1>7, <1>8, <1>9, <1>10 DEF UniqueAt
<1> QED BY <1>6, <1>11 DEF UniqueOrder

\* A node's place, and that of the node behind it.
LEMMA OnePlace ==
  ASSUME NEW l \in Lists, NEW r \in Seq(Nodes), Injective(r), NEW c \in 0..Len(r), c < Len(r),
         NEW i \in 0..Len(r), NEW k \in 0..Len(r),
         Place(l, r, i + 1) = r[c + 1], Place(l, r, k + 1) = Place(l, r, (c + 1) + 1), i < k
  PROVE  i = c /\ k = c + 1
<1>1. Len(r) \in Nat /\ c + 1 \in 1..Len(r) /\ \A m \in 1..Len(r) : r[m] # l
  BY Basics
<1>2. i = c
  <2>1. i + 1 \in 1..Len(r)
    BY <1>1 DEF Place
  <2>2. r[i + 1] = r[c + 1]
    BY <2>1 DEF Place
  <2>3. i + 1 = c + 1
    BY <1>1, <2>1, <2>2 DEF Injective
  <2> QED BY <2>3
<1>3. k = c + 1
  <2>1. CASE (c + 1) + 1 \in 1..Len(r)
    <3>1. Place(l, r, (c + 1) + 1) = r[(c + 1) + 1] /\ r[(c + 1) + 1] # l
      BY <1>1, <2>1 DEF Place
    <3>2. k + 1 \in 1..Len(r) /\ r[k + 1] = r[(c + 1) + 1]
      BY <3>1 DEF Place
    <3>3. k + 1 = (c + 1) + 1
      BY <2>1, <3>2 DEF Injective
    <3> QED BY <3>3
  <2>2. CASE (c + 1) + 1 \notin 1..Len(r)
    BY <1>1, <1>2, <2>2
  <2> QED BY <2>1, <2>2
<1> QED BY <1>2, <1>3

\* DepartShows(), of the list alone.
LEMMA DepartChanges ==
  ASSUME IInv, ~Running("sort"), ~(Running("sort")'), NEW l \in Lists,
         NEW b \in CellsIn(parent, l), NEW e \in CellsIn(parent, l), b # e, l \notin Between(b, e),
         next' = Forget(Cut(Links, b, e), Between(b, e)).next
  PROVE  \E i \in 0..Len(Content(l)), k \in 0..Len(Content(l)) :
            /\ i < k /\ b = Place(l, Content(l), i + 1) /\ e = Place(l, Content(l), k + 1)
            /\ Content(l)' = Without(Content(l), i, k)
BY DepartShows

LEMMA UniqueEraseOrders ==
  ASSUME IInv, UniqueOrder, Running("unique"), FilterErase
  PROVE  UniqueOrder'
<1> PICK l, r, q, w, s : l = loop.list /\ r = Content(l) /\ q = loop.at.q /\ w = next[q] /\ s = loop.before[l]
  OBVIOUS
<1>1. /\ q # l /\ Equal(loop.at.p, q, TRUE)
      /\ next' = Forget(Cut(Links, q, w), {q}).next
      /\ loop' = [loop EXCEPT !.at.q = next[@]]
  BY DEF FilterErase, Become
<1>2. /\ loop \in Loops /\ loop.op = "unique" /\ loop.at \in WalkCursors /\ l \in Lists /\ q \in CellsIn(parent, l)
      /\ TypeOK /\ Rooted /\ Ring(next, prev, CellsIn(parent, l)) /\ l \in CellsIn(parent, l) /\ ~Running("sort")
  BY UniqueIs
<1>3. PICK c, j : /\ UniqueAt(l, c, j) /\ c \in 1..Len(r) /\ c < Len(r) /\ c + 1 \in 1..Len(r) /\ q = r[c + 1]
                  /\ w = Place(l, r, (c + 1) + 1)
  BY <1>1, UniqueNext
<1>4. r \in Seq(Nodes) /\ Injective(r)
  BY <1>1, UniqueNext
<1>5. w \in CellsIn(parent, l) /\ w # q
  <2>1. next[q] # q
    BY <1>1, <1>2, NotAlone
  <2> QED BY <1>2, <2>1 DEF Ring
<1> DEFINE at == [loop.at EXCEPT !.q = w]
<1>6. at \in WalkCursors /\ at.p = loop.at.p /\ at.q = w
  BY <1>2, <1>5 DEF WalkCursors, CellsIn
<1>7. loop' = [loop EXCEPT !.at = at]
  BY <1>1, <1>2 DEF Loops
<1> HIDE DEF at
<1>8. /\ loop'.at = at /\ loop'.list = l /\ loop'.before = loop.before /\ loop'.lawful = loop.lawful
      /\ loop'.op = loop.op
  BY <1>2, <1>6, <1>7, CursorKeeps
<1>9. ~(Running("sort")')
  BY <1>2, <1>8 DEF Running
<1>10. Between(q, w) = {q}
  BY <1>2, <1>5, OneBetween
<1>11. /\ l \notin Between(q, w) /\ q # w
       /\ next' = Forget(Cut(Links, q, w), Between(q, w)).next
  BY <1>1, <1>5, <1>10
<1>12. PICK i \in 0..Len(r), k \in 0..Len(r) :
         /\ i < k /\ q = Place(l, r, i + 1) /\ w = Place(l, r, k + 1)
         /\ Content(l)' = Without(r, i, k)
  BY <1>2, <1>5, <1>9, <1>11, DepartChanges
<1>13. i = c /\ k = c + 1
  <2>1. c \in 0..Len(r)
    BY <1>3
  <2> QED BY <1>2, <1>3, <1>4, <1>12, <2>1, OnePlace
<1> PICK z : z = Without(r, c, c + 1)
  OBVIOUS
<1>14. Content(l)' = z
  BY <1>12, <1>13
<1>15. /\ Thinned(s, r, c, j) /\ loop.at.p = r[c] /\ (loop.lawful => Grouped(s, r, c, j))
  BY <1>3 DEF UniqueAt
<1>16. loop.lawful => Key[r[c]] = Key[r[c + 1]]
  BY <1>1, <1>3, <1>15 DEF Equal
<1>17. /\ Thinned(s, z, c, j + 1) /\ z \in Seq(Nodes) /\ Len(z) = Len(r) - 1 /\ z[c] = r[c]
       /\ \A m \in 1..(Len(r) - 1) : c < m => z[m] = r[m + 1]
       /\ Grouped(s, r, c, j) /\ Key[r[c]] = Key[r[c + 1]] => Grouped(s, z, c, j + 1)
  <2>1. Thinned(s, r, c, j) /\ c < Len(r) /\ z = Without(r, c, c + 1)
    BY <1>3, <1>15
  <2> QED BY <2>1, EraseThins
<1>18. w = Place(l, z, c + 1)
  <2>1. Len(r) \in Nat /\ c \in Nat
    BY <1>3, <1>4
  <2>2. CASE (c + 1) + 1 \in 1..Len(r)
    <3>1. c + 1 \in 1..(Len(r) - 1) /\ c < c + 1
      BY <2>1, <2>2
    <3>2. z[c + 1] = r[(c + 1) + 1]
      BY <1>17, <3>1
    <3> QED BY <1>3, <1>17, <2>2, <3>1, <3>2 DEF Place
  <2>3. CASE (c + 1) + 1 \notin 1..Len(r)
    <3>1. c + 1 \notin 1..(Len(r) - 1)
      BY <2>1, <2>3
    <3> QED BY <1>3, <1>17, <2>3, <3>1 DEF Place
  <2> QED BY <2>2, <2>3
<1> PICK d : d = j + 1
  OBVIOUS
<1>19. UniqueAt(l, c, d)'
  BY <1>6, <1>8, <1>14, <1>15, <1>16, <1>17, <1>18 DEF UniqueAt
<1> QED BY <1>8, <1>19 DEF UniqueOrder

\* The list that unique() leaves.
LEMMA UniqueReturnKeeps ==
  ASSUME IInv, UniqueOrder
  PROVE  FirstsKept
<1> SUFFICES ASSUME NEW l \in Lists, Running("unique"), FilterReturn, loop.list = l, loop.lawful
             PROVE  OnlyFirsts(loop.before[l], Content(l)')
  BY DEF FirstsKept
<1>1. loop.at.q = l /\ next' = next
  BY DEF FilterReturn
<1> PICK s, r : s = loop.before[l] /\ r = Content(l)
  OBVIOUS
<1>2. Content(l)' = r
  BY <1>1 DEF Content
<1>3. CASE s = <<>> /\ r = <<>>
  <2>1. Firsts(s) = {}
    BY <1>3 DEF Firsts
  <2>2. DOMAIN r = {}
    BY <1>3
  <2>3. OnlyFirsts(s, r)
    BY <2>1, <2>2 DEF OnlyFirsts, Members
  <2> QED BY <1>2, <2>3
<1>4. CASE \E c, j : UniqueAt(l, c, j)
  <2>1. PICK c, j : UniqueAt(l, c, j)
    BY <1>4
  <2>2. /\ Thinned(s, r, c, j) /\ Grouped(s, r, c, j) /\ l = Place(l, r, c + 1)
    BY <1>1, <2>1 DEF UniqueAt
  <2>3. r \in Seq(Nodes) /\ c \in 1..Len(r)
    BY <2>2 DEF Thinned
  <2>4. c = Len(r)
    <3>1. \A m \in 1..Len(r) : r[m] # l
      BY <2>3, Basics
    <3> QED BY <2>2, <2>3, <3>1 DEF Place
  <2>5. OnlyFirsts(s, r)
    BY <2>2, <2>4, UniqueEnds
  <2> QED BY <1>2, <2>5
<1> QED BY <1>3, <1>4 DEF UniqueOrder

LEMMA UniqueOrderGoesOn == IInv /\ IInv' /\ UniqueOrder /\ [Next]_vars => UniqueOrder'
<1> SUFFICES ASSUME IInv, IInv', UniqueOrder, [Next]_vars, (loop # Null /\ loop.op = "unique")'
             PROVE  UniqueOrder'
  BY DEF UniqueOrder, Running
<1>1. CASE UNCHANGED vars
  BY <1>1 DEF vars, UniqueOrder, Running, UniqueAt, Content
<1>2. CASE \E l \in Lists, lawful \in BOOLEAN : Unique(l, lawful)
  BY <1>2, UniqueBeginOrders
<1> QED BY <1>1, <1>2, LoopRuns, UniqueEraseOrders, UniqueKeepOrders

LEMMA UniqueOrderBegins == Init => UniqueOrder
BY DEF Init, UniqueOrder, Running

\* sort() sorts and is stable; merge() of two sorted lists leaves one, the equal nodes of
\* the list merged into first, and the other empty; unique() leaves the first node of each
\* group of equal neighbours, in order: whatever the lists and the keys are.
THEOREM OrderAlwaysStable == Spec => OrderStable
<1> DEFINE J == IInv /\ Kept /\ SortOrder /\ MergeOrder /\ UniqueOrder
<1>1. J /\ [Next]_vars => [SortStable /\ MergeStable /\ FirstsKept]_vars
  BY SortReturnStable, MergeReturnStable, UniqueReturnKeeps
<1>2. Init => SortOrder /\ MergeOrder /\ UniqueOrder /\ Kept
  BY SortOrderBegins, MergeOrderBegins, UniqueOrderBegins, KeptBegins
<1>3. J /\ IInv' /\ [Next]_vars => Kept' /\ SortOrder' /\ MergeOrder' /\ UniqueOrder'
  BY KeptGoesOn, SortOrderGoesOn, MergeOrderGoesOn, UniqueOrderGoesOn
<1> QED BY <1>1, <1>2, <1>3, Invariant, PTL DEF Spec, OrderStable
=============================================================================
