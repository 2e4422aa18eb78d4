------------------------- MODULE ExceptionInfoProofs -------------------------
(***************************************************************************)
(* Exceptions are values, for any number of objects, blocks and infos.      *)
(* IInv is the inductive invariant: the counters are exact, each stage has  *)
(* the pointers it needs, and whoever is going to write has seen the        *)
(* counter at one or has made the block, so that it is the only holder.     *)
(***************************************************************************)
EXTENDS ExceptionInfoProps, FiniteSetTheorems, TLAPS

\* The stages in which a call gives up a block.
Dropping(e) == stage[e] \in {"release", "delete"}

\* The block of e is e's alone from now on until it is changed.
Committed(e) == \/ stage[e] = "write"
                \/ Dropping(e) /\ after[e] = "write"

\* A call of AddInfo() or AddLocation() is under way.
Changing(e) == stage[e] \in {"ensure", "clone"} \/ Committed(e)

StageInv ==
  \A e \in Objects :
    /\ old[e] # None <=> Dropping(e)
    /\ Gone(e) => info[e] = None
    /\ stage[e] = "clone" \/ Committed(e) => info[e] # None
    /\ Changing(e) => todo[e] \in Notes \cup Places

\* An exception that is changed in place is the only holder of its block, from
\* the moment EnsureInfo() has seen the counter until the change is done.
WritesAlone == \A e \in Objects : Committed(e) => refcount[info[e]] = 1

IInv == TypeOK /\ BlocksCounted /\ StageInv /\ WritesAlone
-----------------------------------------------------------------------------
(* Counting.                                                               *)

\* Two sets of objects that differ in one object at most differ by one at most.
LEMMA OneDiffers ==
  ASSUME NEW S \in SUBSET Objects, NEW T \in SUBSET Objects, NEW e \in Objects,
         S \ {e} = T \ {e}
  PROVE  /\ Cardinality(S) \in Nat /\ Cardinality(T) \in Nat
         /\ Cardinality(T) = Cardinality(S) - (IF e \in S THEN 1 ELSE 0) + (IF e \in T THEN 1 ELSE 0)
<1>1. IsFiniteSet(S) /\ IsFiniteSet(T)
  BY FS_Subset, ExceptionInfoAssumption
<1>2. Cardinality(S) \in Nat /\ Cardinality(T) \in Nat
  BY <1>1, FS_CardinalityType
<1>3. Cardinality(S \ {e}) = Cardinality(S) - (IF e \in S THEN 1 ELSE 0)
  <2>1. Cardinality(S \ {e}) = IF e \in S THEN Cardinality(S) - 1 ELSE Cardinality(S)
    BY <1>1, FS_RemoveElement
  <2>2. CASE e \in S
    BY <1>2, <2>1, <2>2
  <2>3. CASE e \notin S
    BY <1>2, <2>1, <2>3
  <2>4. QED BY <2>2, <2>3
<1>4. Cardinality(T \ {e}) = Cardinality(T) - (IF e \in T THEN 1 ELSE 0)
  <2>1. Cardinality(T \ {e}) = IF e \in T THEN Cardinality(T) - 1 ELSE Cardinality(T)
    BY <1>1, FS_RemoveElement
  <2>2. CASE e \in T
    BY <1>2, <2>1, <2>2
  <2>3. CASE e \notin T
    BY <1>2, <2>1, <2>3
  <2>4. QED BY <2>2, <2>3
<1>5. Cardinality(S) - (IF e \in S THEN 1 ELSE 0) = Cardinality(T) - (IF e \in T THEN 1 ELSE 0)
  BY <1>3, <1>4
<1>6. QED BY <1>2, <1>5

LEMMA SetsOfObjects ==
  ASSUME NEW b \in Blocks
  PROVE  /\ Holding(b) \in SUBSET Objects /\ Leaving(b) \in SUBSET Objects
         /\ Deleting(b) \in SUBSET Objects
         /\ Holding(b)' \in SUBSET Objects /\ Leaving(b)' \in SUBSET Objects
         /\ Deleting(b)' \in SUBSET Objects
BY DEF Holding, Leaving, Deleting

LEMMA CountsAreNat ==
  ASSUME NEW b \in Blocks
  PROVE  /\ Cardinality(Holding(b)) \in Nat /\ Cardinality(Leaving(b)) \in Nat
         /\ Cardinality(Deleting(b)) \in Nat
<1>1. \A S \in SUBSET Objects : Cardinality(S) \in Nat
  BY FS_Subset, FS_CardinalityType, ExceptionInfoAssumption
<1>2. QED BY <1>1, SetsOfObjects

\* A call on e changes who holds b by e at most.
LEMMA HoldingMoves ==
  ASSUME NEW e \in Objects, NEW b \in Blocks, \A x \in Objects \ {e} : info'[x] = info[x]
  PROVE  Cardinality(Holding(b))'
           = Cardinality(Holding(b)) - (IF info[e] = b THEN 1 ELSE 0) + (IF info'[e] = b THEN 1 ELSE 0)
<1>1. Holding(b) \ {e} = Holding(b)' \ {e}
  BY DEF Holding
<1>2. (e \in Holding(b) <=> info[e] = b) /\ (e \in Holding(b)' <=> info'[e] = b)
  BY DEF Holding
<1>3. Cardinality(Holding(b)')
        = Cardinality(Holding(b)) - (IF e \in Holding(b) THEN 1 ELSE 0) + (IF e \in Holding(b)' THEN 1 ELSE 0)
  BY <1>1, SetsOfObjects, OneDiffers
<1>4. QED BY <1>2, <1>3

LEMMA LeavingMoves ==
  ASSUME NEW e \in Objects, NEW b \in Blocks,
         \A x \in Objects \ {e} : stage'[x] = stage[x] /\ old'[x] = old[x]
  PROVE  /\ Cardinality(Leaving(b))'
              = Cardinality(Leaving(b)) - (IF stage[e] = "release" /\ old[e] = b THEN 1 ELSE 0)
                  + (IF stage'[e] = "release" /\ old'[e] = b THEN 1 ELSE 0)
         /\ Cardinality(Deleting(b))'
              = Cardinality(Deleting(b)) - (IF stage[e] = "delete" /\ old[e] = b THEN 1 ELSE 0)
                  + (IF stage'[e] = "delete" /\ old'[e] = b THEN 1 ELSE 0)
<1>1. Leaving(b) \ {e} = Leaving(b)' \ {e} /\ Deleting(b) \ {e} = Deleting(b)' \ {e}
  BY DEF Leaving, Deleting
<1>2. /\ e \in Leaving(b) <=> stage[e] = "release" /\ old[e] = b
      /\ e \in Leaving(b)' <=> stage'[e] = "release" /\ old'[e] = b
      /\ e \in Deleting(b) <=> stage[e] = "delete" /\ old[e] = b
      /\ e \in Deleting(b)' <=> stage'[e] = "delete" /\ old'[e] = b
  BY DEF Leaving, Deleting
<1>3. Cardinality(Leaving(b)')
        = Cardinality(Leaving(b)) - (IF e \in Leaving(b) THEN 1 ELSE 0) + (IF e \in Leaving(b)' THEN 1 ELSE 0)
  BY <1>1, SetsOfObjects, OneDiffers
<1>4. Cardinality(Deleting(b)')
        = Cardinality(Deleting(b)) - (IF e \in Deleting(b) THEN 1 ELSE 0) + (IF e \in Deleting(b)' THEN 1 ELSE 0)
  BY <1>1, SetsOfObjects, OneDiffers
<1>5. QED BY <1>2, <1>3, <1>4

\* Who is in a set counts.
LEMMA HeldIsCounted ==
  ASSUME BlocksCounted, NEW e \in Objects
  PROVE  /\ info[e] \in Blocks => refcount[info[e]] >= 1 /\ info[e] \in heap
         /\ stage[e] = "release" /\ old[e] \in Blocks
              => refcount[old[e]] >= 1 /\ old[e] \in heap
<1>1. \A S \in SUBSET Objects : e \in S => Cardinality(S) # 0
  BY FS_Subset, FS_EmptySet, ExceptionInfoAssumption
<1>2. ASSUME NEW b \in Blocks, e \in Holding(b) \/ e \in Leaving(b)
      PROVE  refcount[b] >= 1 /\ b \in heap
  <2>1. Cardinality(Holding(b)) # 0 \/ Cardinality(Leaving(b)) # 0
    BY <1>1, <1>2, SetsOfObjects
  <2>2. QED BY <2>1, CountsAreNat DEF BlocksCounted
<1>3. \A b \in Blocks : (info[e] = b => e \in Holding(b))
                          /\ (stage[e] = "release" /\ old[e] = b => e \in Leaving(b))
  BY DEF Holding, Leaving
<1>4. QED BY <1>2, <1>3

\* A block that is held once has no second holder, and nobody gives it up.
LEMMA HeldAlone ==
  ASSUME BlocksCounted, NEW e \in Objects, NEW b \in Blocks, info[e] = b, refcount[b] = 1,
         NEW x \in Objects
  PROVE  /\ info[x] = b => x = e
         /\ ~(stage[x] = "release" /\ old[x] = b)
<1>1. \A S \in SUBSET Objects : IsFiniteSet(S) /\ Cardinality(S) \in Nat
  BY FS_Subset, FS_CardinalityType, ExceptionInfoAssumption
<1>2. Cardinality(Holding(b) \ {e}) = Cardinality(Holding(b)) - 1
  <2>1. e \in Holding(b)
    BY DEF Holding
  <2>2. QED BY <1>1, <2>1, SetsOfObjects, FS_RemoveElement
<1>3. Cardinality(Holding(b) \ {e}) = 0 /\ Cardinality(Leaving(b)) = 0
  <2>1. Holding(b) \ {e} \in SUBSET Objects
    BY SetsOfObjects
  <2>2. Cardinality(Holding(b) \ {e}) \in Nat
    BY <1>1, <2>1
  <2>3. QED BY <1>2, <2>2, CountsAreNat DEF BlocksCounted
<1>4. Holding(b) \ {e} = {} /\ Leaving(b) = {}
  BY <1>1, <1>3, SetsOfObjects, FS_EmptySet
<1>5. QED BY <1>4 DEF Holding, Leaving
-----------------------------------------------------------------------------
(* Classes and contents.                                                   *)

LEMMA ParentIsName == \A c \in Names : Parent[c] \in Names
BY DEF Names, Parent

LEMMA BasesAreNames == \A c \in Names : Bases(c) \subseteq Names
BY ParentIsName DEF Bases

LEMMA CaughtAreNames == \A c \in Names : Caught(c) \subseteq Names
BY BasesAreNames DEF Caught, Matching

LEMMA BlankIsContent == Blank \in Content
BY DEF Blank, Content

LEMMA PutIsContent ==
  ASSUME NEW content \in Content, NEW what \in Notes \cup Places
  PROVE  Put(content, what) \in Content
<1>1. CASE what \in Places
  BY <1>1 DEF Put, Content
<1>2. CASE what \notin Places
  <2>1. content.infos \in Seq(Notes) /\ what \in Notes
    BY <1>2 DEF Content
  <2>2. Append(content.infos, what) \in Seq(Notes)
    BY <2>1
  <2>3. QED BY <1>2, <2>2 DEF Put, Content
<1>3. QED BY <1>1, <1>2
-----------------------------------------------------------------------------
(* Each action preserves the invariant.                                    *)

LEMMA NewStep ==
  ASSUME IInv, NEW e \in Objects, NEW c \in Class, NEW r \in {"kept", "made", "temp"},
         NEW what \in Notes \cup Places \cup {None}, NEW first \in {"idle", "ensure"},
         first = "ensure" => what \in Notes \cup Places, New(e, c, r, what, first)
  PROVE  IInv'
<1>0. /\ UNCHANGED <<after, info, old, heap, block, refcount>>
      /\ stage' = [stage EXCEPT ![e] = first] /\ stage[e] = "none"
  BY DEF New
<1>1. TypeOK'
  BY DEF IInv, TypeOK, New, Stages
<1>2. BlocksCounted'
  <2>1. ASSUME NEW b \in Blocks
        PROVE  /\ Holding(b)' = Holding(b) /\ Leaving(b)' = Leaving(b)
               /\ Deleting(b)' = Deleting(b)
    BY <1>0 DEF IInv, TypeOK, Holding, Leaving, Deleting
  <2>2. QED BY <1>0, <2>1 DEF IInv, BlocksCounted
<1>3. StageInv'
  BY DEF IInv, TypeOK, StageInv, Gone, Dropping, Committed, Changing, New
<1>4. WritesAlone'
  BY <1>0 DEF IInv, TypeOK, WritesAlone, Committed, Dropping
<1>5. QED BY <1>1, <1>2, <1>3, <1>4 DEF IInv

\* Copying to f, with nothing or something else for e to do afterwards.
LEMMA CopyToStep ==
  ASSUME IInv, NEW e \in Objects, NEW f \in Objects, NEW s \in {"idle", "leave"},
         stage[e] \in {"idle", "throw"}, CopyTo(e, f),
         stage' = [stage EXCEPT ![e] = s, ![f] = "idle"],
         UNCHANGED <<after, todo, old, heap, block>>
  PROVE  IInv'
<1>0. /\ stage[f] = "none" /\ e # f /\ info[f] = None
      /\ info' = [info EXCEPT ![f] = info[e]]
      /\ refcount' = IF info[e] = None THEN refcount ELSE [refcount EXCEPT ![info[e]] = @ + 1]
  BY DEF IInv, StageInv, Gone, CopyTo, AddRef
<1>1. TypeOK'
  <2>1. stage' \in [Objects -> Stages] /\ info' \in [Objects -> Blocks \cup {None}]
    BY <1>0 DEF IInv, TypeOK, Stages
  <2>2. refcount' \in [Blocks -> Nat]
    BY <1>0 DEF IInv, TypeOK
  <2>3. class' \in [Objects -> Class] /\ role' \in [Objects -> {"kept", "made", "temp"}]
    BY DEF IInv, TypeOK, CopyTo
  <2>4. QED BY <2>1, <2>2, <2>3 DEF IInv, TypeOK
<1>2. BlocksCounted'
  <2>1. ASSUME NEW b \in Blocks
        PROVE  Leaving(b)' = Leaving(b) /\ Deleting(b)' = Deleting(b)
    BY <1>0 DEF IInv, TypeOK, Leaving, Deleting
  <2>2. ASSUME NEW b \in Blocks
        PROVE  Cardinality(Holding(b))' = Cardinality(Holding(b)) + (IF info[e] = b THEN 1 ELSE 0)
    <3>1. Cardinality(Holding(b))'
            = Cardinality(Holding(b)) - (IF info[f] = b THEN 1 ELSE 0) + (IF info'[f] = b THEN 1 ELSE 0)
      BY <1>0, HoldingMoves DEF IInv, TypeOK
    <3>2. info[f] # b /\ info'[f] = info[e]
      BY <1>0, ExceptionInfoAssumption DEF IInv, TypeOK
    <3>3. QED BY <3>1, <3>2, CountsAreNat
  <2>3. ASSUME NEW b \in Blocks
        PROVE  refcount'[b] = refcount[b] + (IF info[e] = b THEN 1 ELSE 0)
    BY <1>0, ExceptionInfoAssumption DEF IInv, TypeOK
  <2>4. info[e] \in Blocks => refcount[info[e]] >= 1 /\ info[e] \in heap
    BY HeldIsCounted DEF IInv
  <2>5. ASSUME NEW b \in Blocks
        PROVE  /\ refcount'[b] = Cardinality(Holding(b))' + Cardinality(Leaving(b))'
               /\ b \notin heap' => refcount'[b] = 0
               /\ Cardinality(Deleting(b))' = IF b \in heap' /\ refcount'[b] = 0 THEN 1 ELSE 0
    <3>0. /\ refcount[b] = Cardinality(Holding(b)) + Cardinality(Leaving(b))
          /\ b \notin heap => refcount[b] = 0
          /\ Cardinality(Deleting(b)) = IF b \in heap /\ refcount[b] = 0 THEN 1 ELSE 0
          /\ heap' = heap
      BY DEF IInv, BlocksCounted
    <3>1. CASE info[e] = b
      BY <2>1, <2>2, <2>3, <2>4, <3>0, <3>1, CountsAreNat
    <3>2. CASE info[e] # b
      <4>1. refcount'[b] = refcount[b] /\ Cardinality(Holding(b))' = Cardinality(Holding(b))
        BY <2>2, <2>3, <3>2, CountsAreNat DEF IInv, TypeOK
      <4>2. QED BY <2>1, <3>0, <4>1
    <3>3. QED BY <3>1, <3>2
  <2>6. QED BY <2>5 DEF BlocksCounted
<1>3. StageInv'
  BY <1>0 DEF IInv, TypeOK, StageInv, Gone, Dropping, Committed, Changing
<1>4. WritesAlone'
  <2>1. ASSUME NEW x \in Objects, Committed(x)'
        PROVE  refcount'[info'[x]] = 1
    <3>1. x # e /\ x # f /\ Committed(x) /\ info'[x] = info[x]
      BY <1>0, <2>1 DEF IInv, TypeOK, Committed, Dropping
    <3>2. info[x] \in Blocks /\ refcount[info[x]] = 1
      BY <3>1 DEF IInv, TypeOK, StageInv, WritesAlone
    <3>3. info[e] # info[x]
      BY <3>1, <3>2, HeldAlone DEF IInv
    <3>4. QED BY <1>0, <3>1, <3>2, <3>3 DEF IInv, TypeOK
  <2>2. QED BY <2>1 DEF WritesAlone
<1>5. QED BY <1>1, <1>2, <1>3, <1>4 DEF IInv

\* When f gives up its block, or none, on the way to stage t.  The block that it
\* takes instead is that of e, or none.
LEMMA AssignStep ==
  ASSUME IInv, NEW e \in Objects, NEW f \in Objects, Assign(e, f)
  PROVE  IInv'
<1>0. /\ stage[e] = "idle" /\ stage[f] = "idle" /\ old[f] = None
      /\ info' = [info EXCEPT ![f] = info[e]] /\ old' = [old EXCEPT ![f] = info[f]]
      /\ refcount' = IF info[e] = None THEN refcount ELSE [refcount EXCEPT ![info[e]] = @ + 1]
      /\ UNCHANGED <<role, class, todo, heap, block>>
  BY DEF IInv, StageInv, Dropping, Assign, AddRef
<1>00. stage' = IF info[f] = None THEN stage ELSE [stage EXCEPT ![f] = "release"]
  BY DEF Assign
<1>000. after' = IF info[f] = None THEN after ELSE [after EXCEPT ![f] = "idle"]
  BY DEF Assign
<1>1. TypeOK'
  <2>1. stage' \in [Objects -> Stages] /\ after' \in [Objects -> {"none", "idle", "write"}]
    BY <1>00, <1>000 DEF IInv, TypeOK, Stages
  <2>2. refcount' \in [Blocks -> Nat]
    BY <1>0 DEF IInv, TypeOK
  <2>3. info' \in [Objects -> Blocks \cup {None}] /\ old' \in [Objects -> Blocks \cup {None}]
    BY <1>0 DEF IInv, TypeOK
  <2>4. QED BY <1>0, <2>1, <2>2, <2>3 DEF IInv, TypeOK
<1>2. BlocksCounted'
  <2>1. ASSUME NEW b \in Blocks
        PROVE  Deleting(b)' = Deleting(b)
    BY <1>0, <1>00 DEF IInv, TypeOK, Deleting
  <2>2. ASSUME NEW b \in Blocks
        PROVE  Cardinality(Holding(b))' = Cardinality(Holding(b))
                 - (IF info[f] = b THEN 1 ELSE 0) + (IF info[e] = b THEN 1 ELSE 0)
    <3>1. Cardinality(Holding(b))' = Cardinality(Holding(b))
            - (IF info[f] = b THEN 1 ELSE 0) + (IF info'[f] = b THEN 1 ELSE 0)
      BY <1>0, HoldingMoves DEF IInv, TypeOK
    <3>2. info'[f] = info[e]
      BY <1>0 DEF IInv, TypeOK
    <3>3. QED BY <3>1, <3>2
  <2>3. ASSUME NEW b \in Blocks
        PROVE  Cardinality(Leaving(b))' = Cardinality(Leaving(b))
                 + (IF info[f] = b THEN 1 ELSE 0)
    <3>1. Cardinality(Leaving(b))' = Cardinality(Leaving(b))
            - (IF stage[f] = "release" /\ old[f] = b THEN 1 ELSE 0)
            + (IF stage'[f] = "release" /\ old'[f] = b THEN 1 ELSE 0)
      BY <1>0, <1>00, LeavingMoves DEF IInv, TypeOK
    <3>2. stage'[f] = "release" /\ old'[f] = b <=> info[f] = b
      BY <1>0, <1>00, ExceptionInfoAssumption DEF IInv, TypeOK
    <3>3. QED BY <1>0, <3>1, <3>2, CountsAreNat
  <2>4. ASSUME NEW b \in Blocks
        PROVE  refcount'[b] = refcount[b] + (IF info[e] = b THEN 1 ELSE 0)
    BY <1>0, ExceptionInfoAssumption DEF IInv, TypeOK
  <2>5. info[e] \in Blocks => refcount[info[e]] >= 1 /\ info[e] \in heap
    BY HeldIsCounted DEF IInv
  <2>6. ASSUME NEW b \in Blocks
        PROVE  /\ refcount'[b] = Cardinality(Holding(b))' + Cardinality(Leaving(b))'
               /\ b \notin heap' => refcount'[b] = 0
               /\ Cardinality(Deleting(b))' = IF b \in heap' /\ refcount'[b] = 0 THEN 1 ELSE 0
    <3>0. /\ refcount[b] = Cardinality(Holding(b)) + Cardinality(Leaving(b))
          /\ b \notin heap => refcount[b] = 0
          /\ Cardinality(Deleting(b)) = IF b \in heap /\ refcount[b] = 0 THEN 1 ELSE 0
          /\ heap' = heap /\ refcount[b] \in Nat
      BY <1>0 DEF IInv, TypeOK, BlocksCounted
    <3>1. refcount'[b] = Cardinality(Holding(b))' + Cardinality(Leaving(b))'
      BY <2>2, <2>3, <2>4, <3>0, CountsAreNat
    <3>2. /\ b \notin heap => refcount'[b] = 0
          /\ refcount'[b] = 0 <=> refcount[b] = 0
      BY <2>4, <2>5, <3>0
    <3>3. QED BY <2>1, <3>0, <3>1, <3>2
  <2>7. QED BY <2>6 DEF BlocksCounted
<1>3. StageInv'
  <2>1. ASSUME NEW x \in Objects
        PROVE  /\ old'[x] # None <=> Dropping(x)'
               /\ Gone(x)' <=> Gone(x)
               /\ Committed(x)' <=> Committed(x)
    BY <1>0, <1>00, <1>000, ExceptionInfoAssumption
    DEF IInv, TypeOK, StageInv, Gone, Dropping, Committed
  <2>2. ASSUME NEW x \in Objects, x = f
        PROVE  ~Gone(x) /\ ~Committed(x) /\ stage'[x] \notin {"ensure", "clone"}
    BY <1>0, <1>00, <2>2 DEF IInv, TypeOK, Gone, Dropping, Committed
  <2>3. ASSUME NEW x \in Objects, x # f
        PROVE  stage'[x] = stage[x] /\ info'[x] = info[x] /\ todo'[x] = todo[x]
    BY <1>0, <1>00, <2>3 DEF IInv, TypeOK
  <2>4. ASSUME NEW x \in Objects
        PROVE  /\ Gone(x)' => info'[x] = None
               /\ stage'[x] = "clone" \/ Committed(x)' => info'[x] # None
               /\ Changing(x)' => todo'[x] \in Notes \cup Places
    <3>1. CASE x = f
      BY <2>1, <2>2, <3>1 DEF Changing
    <3>2. CASE x # f
      BY <2>1, <2>3, <3>2 DEF IInv, StageInv, Changing
    <3>3. QED BY <3>1, <3>2
  <2>5. QED BY <2>1, <2>4 DEF StageInv
<1>4. WritesAlone'
  <2>1. ASSUME NEW x \in Objects, Committed(x)'
        PROVE  refcount'[info'[x]] = 1
    <3>1. x # e /\ x # f /\ Committed(x) /\ info'[x] = info[x]
      BY <1>0, <1>00, <1>000, <2>1 DEF IInv, TypeOK, Committed, Dropping
    <3>2. info[x] \in Blocks /\ refcount[info[x]] = 1
      BY <3>1 DEF IInv, TypeOK, StageInv, WritesAlone
    <3>3. info[e] # info[x]
      BY <3>1, <3>2, HeldAlone DEF IInv
    <3>4. QED BY <1>0, <3>1, <3>2, <3>3 DEF IInv, TypeOK
  <2>2. QED BY <2>1 DEF WritesAlone
<1>5. QED BY <1>1, <1>2, <1>3, <1>4 DEF IInv

LEMMA EndsStep ==
  ASSUME IInv, NEW e \in Objects, stage[e] \in {"idle", "ensure", "clone", "write", "leave"},
         Ends(e), UNCHANGED <<heap, block, refcount>>,
         todo' = todo \/ todo' = [todo EXCEPT ![e] = None]
  PROVE  IInv'
<1>0. /\ info' = [info EXCEPT ![e] = None] /\ old' = [old EXCEPT ![e] = info[e]]
      /\ after' = [after EXCEPT ![e] = "none"] /\ old[e] = None
      /\ stage' = [stage EXCEPT ![e] = IF info[e] = None THEN "none" ELSE "release"]
  BY DEF IInv, StageInv, Dropping, Ends, Become
<1>1. TypeOK'
  <2>1. stage' \in [Objects -> Stages] /\ after' \in [Objects -> {"none", "idle", "write"}]
    BY <1>0 DEF IInv, TypeOK, Stages
  <2>2. info' \in [Objects -> Blocks \cup {None}] /\ old' \in [Objects -> Blocks \cup {None}]
    BY <1>0 DEF IInv, TypeOK
  <2>3. class' \in [Objects -> Class] /\ role' \in [Objects -> {"kept", "made", "temp"}]
    <3>1. NoClass \in Class
      BY DEF NoClass, Class, Names, Parent
    <3>2. QED BY <3>1 DEF IInv, TypeOK, Ends, Become
  <2>4. todo' \in [Objects -> Notes \cup Places \cup {None}]
    BY DEF IInv, TypeOK
  <2>5. QED BY <2>1, <2>2, <2>3, <2>4 DEF IInv, TypeOK
<1>2. BlocksCounted'
  <2>1. ASSUME NEW b \in Blocks
        PROVE  Deleting(b)' = Deleting(b)
    BY <1>0 DEF IInv, TypeOK, Deleting
  <2>2. ASSUME NEW b \in Blocks
        PROVE  Cardinality(Holding(b))' = Cardinality(Holding(b)) - (IF info[e] = b THEN 1 ELSE 0)
    <3>1. Cardinality(Holding(b))' = Cardinality(Holding(b))
            - (IF info[e] = b THEN 1 ELSE 0) + (IF info'[e] = b THEN 1 ELSE 0)
      BY <1>0, HoldingMoves DEF IInv, TypeOK
    <3>2. info'[e] # b
      BY <1>0, ExceptionInfoAssumption DEF IInv, TypeOK
    <3>3. QED BY <3>1, <3>2, CountsAreNat
  <2>3. ASSUME NEW b \in Blocks
        PROVE  Cardinality(Leaving(b))' = Cardinality(Leaving(b)) + (IF info[e] = b THEN 1 ELSE 0)
    <3>1. Cardinality(Leaving(b))' = Cardinality(Leaving(b))
            - (IF stage[e] = "release" /\ old[e] = b THEN 1 ELSE 0)
            + (IF stage'[e] = "release" /\ old'[e] = b THEN 1 ELSE 0)
      BY <1>0, LeavingMoves DEF IInv, TypeOK
    <3>2. stage'[e] = "release" /\ old'[e] = b <=> info[e] = b
      BY <1>0, ExceptionInfoAssumption DEF IInv, TypeOK
    <3>3. QED BY <1>0, <3>1, <3>2, CountsAreNat
  <2>4. ASSUME NEW b \in Blocks
        PROVE  Cardinality(Holding(b))' + Cardinality(Leaving(b))'
                 = Cardinality(Holding(b)) + Cardinality(Leaving(b))
    BY <2>2, <2>3, CountsAreNat
  <2>5. QED BY <2>1, <2>4 DEF IInv, BlocksCounted
<1>3. StageInv'
  BY <1>0, ExceptionInfoAssumption
  DEF IInv, TypeOK, StageInv, Gone, Dropping, Committed, Changing
<1>4. WritesAlone'
  <2>1. ASSUME NEW x \in Objects, Committed(x)'
        PROVE  Committed(x) /\ info'[x] = info[x]
    BY <1>0, <2>1 DEF IInv, TypeOK, Committed, Dropping
  <2>2. QED BY <2>1 DEF IInv, WritesAlone
<1>5. QED BY <1>1, <1>2, <1>3, <1>4 DEF IInv

\* A step that leaves the blocks and the pointers alone and does not commit, or has
\* just seen the counter at one.
LEMMA StageStep ==
  ASSUME IInv, NEW e \in Objects, NEW s \in {"idle", "ensure", "clone", "write", "throw"},
         ~Dropping(e), stage[e] # "none", stage' = [stage EXCEPT ![e] = s],
         UNCHANGED <<after, class, info, old, heap, refcount>>,
         role' \in [Objects -> {"kept", "made", "temp"}], block' \in [Blocks -> Content],
         todo' \in [Objects -> Notes \cup Places \cup {None}],
         \A x \in Objects \ {e} : todo'[x] = todo[x],
         s \in {"ensure", "clone", "write"} => todo'[e] \in Notes \cup Places,
         s \in {"clone", "write"} => info[e] # None,
         s = "write" => refcount[info[e]] = 1
  PROVE  IInv'
<1>1. TypeOK'
  BY DEF IInv, TypeOK, Stages
<1>2. BlocksCounted'
  <2>1. ASSUME NEW b \in Blocks
        PROVE  /\ Holding(b)' = Holding(b) /\ Leaving(b)' = Leaving(b)
               /\ Deleting(b)' = Deleting(b)
    BY DEF IInv, TypeOK, Holding, Leaving, Deleting, Dropping
  <2>2. QED BY <2>1 DEF IInv, BlocksCounted
<1>3. StageInv'
  BY DEF IInv, TypeOK, StageInv, Gone, Dropping, Committed, Changing
<1>4. WritesAlone'
  BY DEF IInv, TypeOK, WritesAlone, Committed, Dropping
<1>5. QED BY <1>1, <1>2, <1>3, <1>4 DEF IInv

LEMMA StartStep ==
  ASSUME IInv, NEW e \in Objects, NEW what \in Notes \cup Places, Start(e, what)
  PROVE  IInv'
<1>1. ~Dropping(e) /\ stage[e] # "none" /\ stage' = [stage EXCEPT ![e] = "ensure"]
  BY DEF Start, Dropping
<1>2. /\ todo' \in [Objects -> Notes \cup Places \cup {None}]
      /\ \A x \in Objects \ {e} : todo'[x] = todo[x]
      /\ todo'[e] \in Notes \cup Places
  BY DEF IInv, TypeOK, Start
<1>3. /\ UNCHANGED <<after, class, info, old, heap, refcount>>
      /\ role' \in [Objects -> {"kept", "made", "temp"}] /\ block' \in [Blocks -> Content]
  BY DEF IInv, TypeOK, Start
<1>4. QED BY <1>1, <1>2, <1>3, StageStep

LEMMA EnsureLookStep ==
  ASSUME IInv, NEW e \in Objects, EnsureLook(e)
  PROVE  IInv'
<1>1. PICK s \in {"clone", "write"} : /\ stage' = [stage EXCEPT ![e] = s]
                                      /\ s = "write" => refcount[info[e]] = 1
  BY DEF EnsureLook, Shared
<1>2. /\ ~Dropping(e) /\ stage[e] # "none" /\ info[e] # None
      /\ UNCHANGED <<after, role, class, todo, info, old, heap, block, refcount>>
  BY DEF EnsureLook, Dropping
<1>3. /\ todo' \in [Objects -> Notes \cup Places \cup {None}]
      /\ \A x \in Objects \ {e} : todo'[x] = todo[x]
      /\ todo'[e] \in Notes \cup Places
  BY <1>2 DEF IInv, TypeOK, StageInv, Changing, EnsureLook
<1>4. role' \in [Objects -> {"kept", "made", "temp"}] /\ block' \in [Blocks -> Content]
  BY <1>2 DEF IInv, TypeOK
<1>5. QED BY <1>1, <1>2, <1>3, <1>4, StageStep

LEMMA WriteStep ==
  ASSUME IInv, NEW e \in Objects, Write(e)
  PROVE  IInv'
<1>1. PICK s \in {"idle", "throw"} : stage' = [stage EXCEPT ![e] = s]
  BY DEF Write
<1>2. /\ ~Dropping(e) /\ stage[e] # "none" /\ info[e] \in Blocks
      /\ todo[e] \in Notes \cup Places
      /\ UNCHANGED <<after, class, info, old, heap, refcount>>
  <2>0. stage[e] = "write"
    BY DEF Write
  <2>1. Committed(e) /\ Changing(e) /\ ~Dropping(e)
    <3>1. Committed(e)
      BY <2>0 DEF Committed
    <3>2. ~Dropping(e)
      BY <2>0 DEF Dropping
    <3>3. QED BY <3>1, <3>2 DEF Changing
  <2>2. info[e] # None /\ todo[e] \in Notes \cup Places
    BY <2>1 DEF IInv, StageInv
  <2>3. QED BY <2>0, <2>1, <2>2 DEF IInv, TypeOK, Write
<1>3. block' \in [Blocks -> Content]
  <2>1. Put(block[info[e]], todo[e]) \in Content
    BY <1>2, PutIsContent DEF IInv, TypeOK
  <2>2. QED BY <2>1 DEF IInv, TypeOK, Write
<1>4. /\ todo' \in [Objects -> Notes \cup Places \cup {None}]
      /\ \A x \in Objects \ {e} : todo'[x] = todo[x]
      /\ role' \in [Objects -> {"kept", "made", "temp"}]
  BY DEF IInv, TypeOK, Write
<1>5. QED BY <1>1, <1>2, <1>3, <1>4, StageStep

LEMMA FailStep ==
  ASSUME IInv, NEW e \in Objects, Fail(e)
  PROVE  IInv'
<1>1. CASE role[e] # "kept"
  <2>1. Ends(e) /\ stage[e] \in {"ensure", "clone", "write"}
    BY <1>1 DEF Fail
  <2>2. UNCHANGED <<heap, block, refcount>> /\ todo' = [todo EXCEPT ![e] = None]
    BY DEF Fail
  <2>3. QED BY <2>1, <2>2, EndsStep
<1>2. CASE role[e] = "kept"
  <2>1. /\ stage' = [stage EXCEPT ![e] = "idle"] /\ stage[e] \in {"ensure", "clone", "write"}
        /\ UNCHANGED <<after, old, info>>
    BY <1>2 DEF Fail, Become
  <2>2. ~Dropping(e) /\ stage[e] # "none"
    BY <2>1 DEF Dropping
  <2>3. class' = class /\ role' \in [Objects -> {"kept", "made", "temp"}]
    BY <1>2 DEF IInv, TypeOK, Fail, Become
  <2>4. /\ todo' \in [Objects -> Notes \cup Places \cup {None}]
        /\ \A x \in Objects \ {e} : todo'[x] = todo[x]
        /\ UNCHANGED <<heap, block, refcount>> /\ block' \in [Blocks -> Content]
    BY DEF IInv, TypeOK, Fail
  <2>5. QED BY <2>1, <2>2, <2>3, <2>4, StageStep
<1>3. QED BY <1>1, <1>2

\* A block that is not allocated is nobody's; e takes it and may give up the one it has.
LEMMA NewBlockCounts ==
  ASSUME IInv, NEW e \in Objects, NEW b \in Blocks, NEW content \in Content,
         NewBlock(e, b, content), ~Dropping(e),
         \A x \in Objects \ {e} : stage'[x] = stage[x] /\ old'[x] = old[x],
         stage'[e] # "delete",
         info[e] # None => stage'[e] = "release" /\ old'[e] = info[e],
         info[e] = None => stage'[e] # "release"
  PROVE  BlocksCounted'
<1>0. /\ b \notin heap /\ heap' = heap \cup {b} /\ info' = [info EXCEPT ![e] = b]
      /\ refcount' = [refcount EXCEPT ![b] = 1]
  BY DEF NewBlock
<1>1. refcount[b] = 0 /\ info[e] # b
  BY <1>0, HeldIsCounted DEF IInv, BlocksCounted
<1>2. ASSUME NEW c \in Blocks
      PROVE  Deleting(c)' = Deleting(c)
  BY DEF IInv, TypeOK, Deleting, Dropping
<1>3. ASSUME NEW c \in Blocks
      PROVE  Cardinality(Holding(c))' = Cardinality(Holding(c))
               - (IF info[e] = c THEN 1 ELSE 0) + (IF c = b THEN 1 ELSE 0)
  <2>1. Cardinality(Holding(c))' = Cardinality(Holding(c))
          - (IF info[e] = c THEN 1 ELSE 0) + (IF info'[e] = c THEN 1 ELSE 0)
    BY <1>0, HoldingMoves DEF IInv, TypeOK
  <2>2. info'[e] = b
    BY <1>0 DEF IInv, TypeOK
  <2>3. QED BY <2>1, <2>2
<1>4. ASSUME NEW c \in Blocks
      PROVE  Cardinality(Leaving(c))' = Cardinality(Leaving(c)) + (IF info[e] = c THEN 1 ELSE 0)
  <2>1. Cardinality(Leaving(c))' = Cardinality(Leaving(c))
          - (IF stage[e] = "release" /\ old[e] = c THEN 1 ELSE 0)
          + (IF stage'[e] = "release" /\ old'[e] = c THEN 1 ELSE 0)
    BY LeavingMoves
  <2>2. stage'[e] = "release" /\ old'[e] = c <=> info[e] = c
    BY ExceptionInfoAssumption DEF IInv, TypeOK
  <2>3. QED BY <2>1, <2>2, CountsAreNat DEF Dropping
<1>5. ASSUME NEW c \in Blocks
      PROVE  Cardinality(Holding(c))' + Cardinality(Leaving(c))'
               = Cardinality(Holding(c)) + Cardinality(Leaving(c)) + (IF c = b THEN 1 ELSE 0)
  BY <1>3, <1>4, CountsAreNat
<1>6. ASSUME NEW c \in Blocks
      PROVE  refcount'[c] = IF c = b THEN 1 ELSE refcount[c]
  BY <1>0 DEF IInv, TypeOK
<1>7. ASSUME NEW c \in Blocks
      PROVE  /\ refcount'[c] = Cardinality(Holding(c))' + Cardinality(Leaving(c))'
             /\ c \notin heap' => refcount'[c] = 0
             /\ Cardinality(Deleting(c))' = IF c \in heap' /\ refcount'[c] = 0 THEN 1 ELSE 0
  <2>0. /\ refcount[c] = Cardinality(Holding(c)) + Cardinality(Leaving(c))
        /\ c \notin heap => refcount[c] = 0
        /\ Cardinality(Deleting(c)) = IF c \in heap /\ refcount[c] = 0 THEN 1 ELSE 0
    BY DEF IInv, BlocksCounted
  <2>1. CASE c = b
    BY <1>0, <1>1, <1>2, <1>5, <1>6, <2>0, <2>1, CountsAreNat
  <2>2. CASE c # b
    BY <1>0, <1>2, <1>5, <1>6, <2>0, <2>2, CountsAreNat
  <2>3. QED BY <2>1, <2>2
<1>8. QED BY <1>7 DEF BlocksCounted

LEMMA NewBlockRest ==
  ASSUME IInv, NEW e \in Objects, NEW b \in Blocks, NEW content \in Content,
         NewBlock(e, b, content), UNCHANGED <<role, class, todo>>,
         \/ /\ stage[e] = "ensure" /\ stage' = [stage EXCEPT ![e] = "write"]
            /\ UNCHANGED <<after, old>>
         \/ /\ stage[e] = "clone" /\ stage' = [stage EXCEPT ![e] = "release"]
            /\ after' = [after EXCEPT ![e] = "write"] /\ old' = [old EXCEPT ![e] = info[e]]
  PROVE  TypeOK' /\ StageInv' /\ WritesAlone'
<1>0. /\ b \notin heap /\ heap' = heap \cup {b} /\ info' = [info EXCEPT ![e] = b]
      /\ refcount' = [refcount EXCEPT ![b] = 1] /\ block' = [block EXCEPT ![b] = content]
  BY DEF NewBlock
<1>1. TypeOK'
  <2>1. stage' \in [Objects -> Stages] /\ after' \in [Objects -> {"none", "idle", "write"}]
    BY DEF IInv, TypeOK, Stages
  <2>2. info' \in [Objects -> Blocks \cup {None}] /\ old' \in [Objects -> Blocks \cup {None}]
    BY <1>0 DEF IInv, TypeOK
  <2>3. heap' \subseteq Blocks /\ block' \in [Blocks -> Content] /\ refcount' \in [Blocks -> Nat]
    BY <1>0 DEF IInv, TypeOK
  <2>4. QED BY <2>1, <2>2, <2>3 DEF IInv, TypeOK
<1>2. StageInv'
  BY <1>0, ExceptionInfoAssumption
  DEF IInv, TypeOK, StageInv, Gone, Dropping, Committed, Changing
<1>3. WritesAlone'
  <2>1. ASSUME NEW x \in Objects, Committed(x)', x # e
        PROVE  refcount'[info'[x]] = 1
    <3>1. Committed(x) /\ info'[x] = info[x]
      BY <1>0, <2>1 DEF IInv, TypeOK, Committed, Dropping
    <3>2. info[x] \in Blocks /\ refcount[info[x]] = 1 /\ info[x] \in heap
      BY <3>1, HeldIsCounted DEF IInv, TypeOK, StageInv, WritesAlone
    <3>3. QED BY <1>0, <3>1, <3>2 DEF IInv, TypeOK
  <2>2. refcount'[info'[e]] = 1
    BY <1>0 DEF IInv, TypeOK
  <2>3. QED BY <2>1, <2>2 DEF WritesAlone
<1>4. QED BY <1>1, <1>2, <1>3

LEMMA EnsureNewStep ==
  ASSUME IInv, NEW e \in Objects, EnsureNew(e)
  PROVE  IInv'
<1>1. PICK b \in Blocks : NewBlock(e, b, Blank)
  BY DEF EnsureNew
<1>2. /\ stage[e] = "ensure" /\ stage' = [stage EXCEPT ![e] = "write"] /\ info[e] = None
      /\ UNCHANGED <<after, role, class, todo, old>>
  BY DEF EnsureNew
<1>3. TypeOK' /\ StageInv' /\ WritesAlone'
  BY <1>1, <1>2, BlankIsContent, NewBlockRest
<1>4. BlocksCounted'
  <2>1. /\ ~Dropping(e) /\ stage'[e] = "write"
        /\ \A x \in Objects \ {e} : stage'[x] = stage[x] /\ old'[x] = old[x]
    BY <1>2 DEF IInv, TypeOK, Dropping
  <2>2. QED BY <1>1, <1>2, <2>1, BlankIsContent, NewBlockCounts
<1>5. QED BY <1>3, <1>4 DEF IInv

LEMMA EnsureCloneStep ==
  ASSUME IInv, NEW e \in Objects, EnsureClone(e)
  PROVE  IInv'
<1>1. PICK b \in Blocks : NewBlock(e, b, block[info[e]])
  BY DEF EnsureClone
<1>2. /\ stage[e] = "clone" /\ stage' = [stage EXCEPT ![e] = "release"]
      /\ after' = [after EXCEPT ![e] = "write"] /\ old' = [old EXCEPT ![e] = info[e]]
      /\ UNCHANGED <<role, class, todo>>
  BY DEF EnsureClone
<1>3. info[e] \in Blocks /\ block[info[e]] \in Content
  BY <1>2 DEF IInv, TypeOK, StageInv
<1>4. TypeOK' /\ StageInv' /\ WritesAlone'
  BY <1>1, <1>2, <1>3, NewBlockRest
<1>5. BlocksCounted'
  <2>1. /\ ~Dropping(e) /\ stage'[e] = "release" /\ old'[e] = info[e] /\ info[e] # None
        /\ \A x \in Objects \ {e} : stage'[x] = stage[x] /\ old'[x] = old[x]
    BY <1>2, <1>3, ExceptionInfoAssumption DEF IInv, TypeOK, Dropping
  <2>2. QED BY <1>1, <1>3, <2>1, NewBlockCounts
<1>6. QED BY <1>4, <1>5 DEF IInv

LEMMA DoneTypes ==
  ASSUME IInv, NEW e \in Objects, Done(e)
  PROVE  /\ stage' \in [Objects -> Stages] /\ after' \in [Objects -> {"none", "idle", "write"}]
         /\ old' \in [Objects -> Blocks \cup {None}] /\ class' \in [Objects -> Class]
         /\ role' \in [Objects -> {"kept", "made", "temp"}]
<1>1. NoClass \in Class
  BY DEF NoClass, Class, Names, Parent
<1>2. stage' \in [Objects -> Stages] /\ after' \in [Objects -> {"none", "idle", "write"}]
  BY DEF IInv, TypeOK, Done, Become, Stages
<1>3. /\ old' \in [Objects -> Blocks \cup {None}] /\ class' \in [Objects -> Class]
      /\ role' \in [Objects -> {"kept", "made", "temp"}]
  BY <1>1 DEF IInv, TypeOK, Done, Become
<1>4. QED BY <1>2, <1>3

\* A call that has given up its block goes on where it is said.
LEMMA DoneStages ==
  ASSUME IInv, NEW e \in Objects, Dropping(e), Done(e), UNCHANGED <<info, todo>>
  PROVE  /\ StageInv'
         /\ \A x \in Objects : Committed(x)' <=> Committed(x)
<1>0. /\ stage' = [stage EXCEPT ![e] = after[e]] /\ after' = [after EXCEPT ![e] = "none"]
      /\ old' = [old EXCEPT ![e] = None] /\ after[e] \in {"none", "idle", "write"}
  BY DEF IInv, TypeOK, Done, Become
<1>1. ASSUME NEW x \in Objects
      PROVE  Committed(x)' <=> Committed(x)
  <2>1. CASE x = e
    <3>1. stage'[x] = after[x] /\ stage'[x] \notin {"release", "delete"}
      BY <1>0, <2>1 DEF IInv, TypeOK
    <3>2. (Committed(x)' <=> after[x] = "write") /\ ~Dropping(x)'
      BY <3>1 DEF Committed, Dropping
    <3>3. Committed(x) <=> after[x] = "write"
      BY <2>1 DEF Committed, Dropping
    <3>4. QED BY <3>2, <3>3
  <2>2. CASE x # e
    BY <1>0, <2>2 DEF IInv, TypeOK, Committed, Dropping
  <2>3. QED BY <2>1, <2>2
<1>2. ASSUME NEW x \in Objects
      PROVE  /\ old'[x] # None <=> Dropping(x)'
             /\ Gone(x)' => info'[x] = None
             /\ stage'[x] = "clone" \/ Committed(x)' => info'[x] # None
             /\ Changing(x)' => todo'[x] \in Notes \cup Places
  <2>0. /\ old[x] # None <=> Dropping(x)
        /\ Gone(x) => info[x] = None
        /\ stage[x] = "clone" \/ Committed(x) => info[x] # None
        /\ Changing(x) => todo[x] \in Notes \cup Places
    BY DEF IInv, StageInv
  <2>1. CASE x = e
    <3>1. stage'[x] = after[x] /\ old'[x] = None
      BY <1>0, <2>1 DEF IInv, TypeOK
    <3>2. ~Dropping(x)' /\ (Gone(x)' => Gone(x)) /\ (Changing(x)' => Committed(x)')
      BY <1>0, <2>1, <3>1 DEF Dropping, Gone, Changing, Committed
    <3>3. stage'[x] # "clone"
      BY <1>0, <2>1, <3>1
    <3>4. QED BY <1>1, <2>0, <3>1, <3>2, <3>3 DEF Changing
  <2>2. CASE x # e
    <3>1. stage'[x] = stage[x] /\ old'[x] = old[x] /\ after'[x] = after[x]
      BY <1>0, <2>2 DEF IInv, TypeOK
    <3>2. QED BY <2>0, <3>1 DEF Dropping, Gone, Changing, Committed
  <2>3. QED BY <2>1, <2>2
<1>3. QED BY <1>1, <1>2 DEF StageInv

\* The count of the block that is given up goes down, and if it was the last one
\* the block is e's to delete.
LEMMA ReleaseCounts ==
  ASSUME IInv, NEW e \in Objects, stage[e] = "release", old[e] \in Blocks,
         refcount' = [refcount EXCEPT ![old[e]] = @ - 1], UNCHANGED <<info, heap>>,
         \A x \in Objects \ {e} : stage'[x] = stage[x] /\ old'[x] = old[x],
         \A x \in Objects : Committed(x)' <=> Committed(x),
         stage'[e] # "release",
         refcount[old[e]] = 1 <=> stage'[e] = "delete",
         refcount[old[e]] = 1 => old'[e] = old[e]
  PROVE  BlocksCounted' /\ WritesAlone'
<1>1. refcount[old[e]] >= 1 /\ old[e] \in heap
  BY HeldIsCounted DEF IInv
<1>2. ASSUME NEW b \in Blocks
      PROVE  Holding(b)' = Holding(b)
  BY DEF Holding
<1>3. ASSUME NEW b \in Blocks
      PROVE  /\ Cardinality(Leaving(b))' = Cardinality(Leaving(b)) - (IF old[e] = b THEN 1 ELSE 0)
             /\ Cardinality(Deleting(b))' = Cardinality(Deleting(b))
                  + (IF old[e] = b /\ refcount[b] = 1 THEN 1 ELSE 0)
  <2>1. /\ Cardinality(Leaving(b))'
              = Cardinality(Leaving(b)) - (IF stage[e] = "release" /\ old[e] = b THEN 1 ELSE 0)
                  + (IF stage'[e] = "release" /\ old'[e] = b THEN 1 ELSE 0)
        /\ Cardinality(Deleting(b))'
              = Cardinality(Deleting(b)) - (IF stage[e] = "delete" /\ old[e] = b THEN 1 ELSE 0)
                  + (IF stage'[e] = "delete" /\ old'[e] = b THEN 1 ELSE 0)
    BY LeavingMoves
  <2>2. stage'[e] = "delete" /\ old'[e] = b <=> old[e] = b /\ refcount[b] = 1
    OBVIOUS
  <2>3. QED BY <2>1, <2>2, CountsAreNat
<1>4. ASSUME NEW b \in Blocks
      PROVE  refcount'[b] = refcount[b] - (IF old[e] = b THEN 1 ELSE 0)
  BY DEF IInv, TypeOK
<1>5. ASSUME NEW b \in Blocks
      PROVE  /\ refcount'[b] = Cardinality(Holding(b))' + Cardinality(Leaving(b))'
             /\ b \notin heap' => refcount'[b] = 0
             /\ Cardinality(Deleting(b))' = IF b \in heap' /\ refcount'[b] = 0 THEN 1 ELSE 0
  <2>0. /\ refcount[b] = Cardinality(Holding(b)) + Cardinality(Leaving(b))
        /\ b \notin heap => refcount[b] = 0
        /\ Cardinality(Deleting(b)) = IF b \in heap /\ refcount[b] = 0 THEN 1 ELSE 0
        /\ heap' = heap /\ refcount[b] \in Nat
    BY DEF IInv, TypeOK, BlocksCounted
  <2>1. CASE old[e] = b
    <3>1. refcount'[b] = refcount[b] - 1 /\ refcount[b] >= 1 /\ b \in heap
      BY <1>1, <1>4, <2>1
    <3>2. Cardinality(Leaving(b))' = Cardinality(Leaving(b)) - 1
      BY <1>3, <2>1
    <3>3. Cardinality(Deleting(b)) = 0
      BY <2>0, <3>1
    <3>4. Cardinality(Deleting(b))' = IF refcount[b] = 1 THEN 1 ELSE 0
      BY <1>3, <2>1, <3>3
    <3>5. refcount'[b] = Cardinality(Holding(b))' + Cardinality(Leaving(b))'
      BY <1>2, <2>0, <3>1, <3>2, CountsAreNat
    <3>6. QED BY <2>0, <3>1, <3>4, <3>5
  <2>2. CASE old[e] # b
    <3>1. /\ refcount'[b] = refcount[b] /\ Cardinality(Leaving(b))' = Cardinality(Leaving(b))
          /\ Cardinality(Deleting(b))' = Cardinality(Deleting(b))
      BY <1>3, <1>4, <2>0, <2>2, CountsAreNat
    <3>2. QED BY <1>2, <2>0, <3>1
  <2>3. QED BY <2>1, <2>2
<1>6. ASSUME NEW x \in Objects, Committed(x)
      PROVE  refcount'[info'[x]] = 1
  <2>1. info[x] \in Blocks /\ refcount[info[x]] = 1
    BY <1>6 DEF IInv, TypeOK, StageInv, WritesAlone
  <2>2. ~(stage[e] = "release" /\ old[e] = info[x])
    <3>1. \A y \in Objects : info[y] = info[x] => y = x
      BY <2>1, HeldAlone DEF IInv
    <3>2. Leaving(info[x]) = {}
      BY <2>1, HeldAlone DEF IInv, Leaving
    <3>3. QED BY <3>2 DEF Leaving
  <2>3. QED BY <2>1, <2>2 DEF IInv, TypeOK
<1>7. QED BY <1>5, <1>6 DEF BlocksCounted, WritesAlone

LEMMA ReleaseStep ==
  ASSUME IInv, NEW e \in Objects, Release(e)
  PROVE  IInv'
<1> DEFINE d == old[e]
<1>0. /\ stage[e] = "release" /\ d \in Blocks /\ refcount' = [refcount EXCEPT ![d] = @ - 1]
      /\ UNCHANGED <<todo, info, heap, block>> /\ Dropping(e)
  BY DEF IInv, TypeOK, StageInv, Dropping, Release
<1>1. refcount[d] >= 1 /\ refcount[d] \in Nat /\ d \in heap
  BY <1>0, HeldIsCounted DEF IInv, TypeOK
<1>2. CASE refcount[d] = 1
  <2>1. /\ stage' = [stage EXCEPT ![e] = "delete"] /\ UNCHANGED <<after, old, class, role>>
    BY <1>2 DEF IInv, TypeOK, Release, Become
  <2>2. TypeOK'
    <3>1. stage' \in [Objects -> Stages]
      BY <2>1 DEF IInv, TypeOK, Stages
    <3>2. refcount' \in [Blocks -> Nat]
      BY <1>0, <1>1 DEF IInv, TypeOK
    <3>3. QED BY <1>0, <2>1, <3>1, <3>2 DEF IInv, TypeOK
  <2>3. StageInv'
    BY <1>0, <2>1 DEF IInv, TypeOK, StageInv, Gone, Dropping, Committed, Changing
  <2>4. \A x \in Objects : Committed(x)' <=> Committed(x)
    BY <1>0, <2>1 DEF IInv, TypeOK, Committed, Dropping
  <2>5. BlocksCounted' /\ WritesAlone'
    <3>1. /\ \A x \in Objects \ {e} : stage'[x] = stage[x] /\ old'[x] = old[x]
          /\ stage'[e] = "delete" /\ old'[e] = old[e]
      BY <2>1 DEF IInv, TypeOK
    <3>2. QED BY <1>0, <1>2, <2>4, <3>1, ReleaseCounts
  <2>6. QED BY <2>2, <2>3, <2>5 DEF IInv
<1>3. CASE refcount[d] # 1
  <2>1. Done(e)
    BY <1>3 DEF Release
  <2>2. TypeOK'
    <3>1. refcount' \in [Blocks -> Nat]
      BY <1>0, <1>1 DEF IInv, TypeOK
    <3>2. QED BY <1>0, <2>1, <3>1, DoneTypes DEF IInv, TypeOK
  <2>3. StageInv' /\ \A x \in Objects : Committed(x)' <=> Committed(x)
    BY <1>0, <2>1, DoneStages
  <2>4. BlocksCounted' /\ WritesAlone'
    <3>1. /\ \A x \in Objects \ {e} : stage'[x] = stage[x] /\ old'[x] = old[x]
          /\ stage'[e] \notin {"release", "delete"}
      BY <2>1 DEF IInv, TypeOK, Done, Become
    <3>2. QED BY <1>0, <1>3, <2>3, <3>1, ReleaseCounts
  <2>5. QED BY <2>2, <2>3, <2>4 DEF IInv
<1>4. QED BY <1>2, <1>3

LEMMA DeleteStep ==
  ASSUME IInv, NEW e \in Objects, Delete(e)
  PROVE  IInv'
<1>0. /\ stage[e] = "delete" /\ old[e] \in Blocks /\ Dropping(e) /\ Done(e)
      /\ heap' = heap \ {old[e]} /\ block' = [block EXCEPT ![old[e]] = Blank]
      /\ UNCHANGED <<todo, info, refcount>>
  BY DEF IInv, TypeOK, StageInv, Dropping, Delete
<1>1. TypeOK'
  <2>1. heap' \subseteq Blocks /\ block' \in [Blocks -> Content]
    BY <1>0, BlankIsContent DEF IInv, TypeOK
  <2>2. QED BY <1>0, <2>1, DoneTypes DEF IInv, TypeOK
<1>2. StageInv' /\ \A x \in Objects : Committed(x)' <=> Committed(x)
  BY <1>0, DoneStages
<1>3. WritesAlone'
  BY <1>0, <1>2 DEF IInv, WritesAlone
<1>4. BlocksCounted'
  <2>1. /\ \A x \in Objects \ {e} : stage'[x] = stage[x] /\ old'[x] = old[x]
        /\ stage'[e] \notin {"release", "delete"}
    BY <1>0 DEF IInv, TypeOK, Done, Become
  <2>2. ASSUME NEW b \in Blocks
        PROVE  /\ Cardinality(Leaving(b))' = Cardinality(Leaving(b))
               /\ Cardinality(Deleting(b))'
                    = Cardinality(Deleting(b)) - (IF old[e] = b THEN 1 ELSE 0)
    <3>1. /\ Cardinality(Leaving(b))'
                = Cardinality(Leaving(b)) - (IF stage[e] = "release" /\ old[e] = b THEN 1 ELSE 0)
                    + (IF stage'[e] = "release" /\ old'[e] = b THEN 1 ELSE 0)
          /\ Cardinality(Deleting(b))'
                = Cardinality(Deleting(b)) - (IF stage[e] = "delete" /\ old[e] = b THEN 1 ELSE 0)
                    + (IF stage'[e] = "delete" /\ old'[e] = b THEN 1 ELSE 0)
      BY <2>1, LeavingMoves
    <3>2. QED BY <1>0, <2>1, <3>1, CountsAreNat
  <2>3. refcount[old[e]] = 0 /\ old[e] \in heap
    <3>1. e \in Deleting(old[e])
      BY <1>0 DEF Deleting
    <3>2. Cardinality(Deleting(old[e])) # 0
      BY <1>0, <3>1, SetsOfObjects, FS_Subset, FS_EmptySet, ExceptionInfoAssumption
    <3>3. QED BY <1>0, <3>2 DEF IInv, BlocksCounted
  <2>4. ASSUME NEW b \in Blocks
        PROVE  Holding(b)' = Holding(b)
    BY <1>0 DEF Holding
  <2>5. ASSUME NEW b \in Blocks
        PROVE  /\ refcount'[b] = Cardinality(Holding(b))' + Cardinality(Leaving(b))'
               /\ b \notin heap' => refcount'[b] = 0
               /\ Cardinality(Deleting(b))' = IF b \in heap' /\ refcount'[b] = 0 THEN 1 ELSE 0
    <3>0. /\ refcount[b] = Cardinality(Holding(b)) + Cardinality(Leaving(b))
          /\ b \notin heap => refcount[b] = 0
          /\ Cardinality(Deleting(b)) = IF b \in heap /\ refcount[b] = 0 THEN 1 ELSE 0
      BY DEF IInv, BlocksCounted
    <3>1. CASE old[e] = b
      BY <1>0, <2>2, <2>3, <2>4, <3>0, <3>1, CountsAreNat
    <3>2. CASE old[e] # b
      BY <1>0, <2>2, <2>4, <3>0, <3>2, CountsAreNat
    <3>3. QED BY <3>1, <3>2
  <2>6. QED BY <2>5 DEF BlocksCounted
<1>5. QED BY <1>1, <1>2, <1>3, <1>4 DEF IInv
-----------------------------------------------------------------------------
(* The invariant.                                                          *)

LEMMA Starts == Init => IInv
<1> SUFFICES ASSUME Init PROVE IInv
  OBVIOUS
<1>1. TypeOK
  <2>1. NoClass \in Class /\ "int" \in Names
    BY DEF NoClass, Class, Names, Parent
  <2>2. QED BY <2>1, BlankIsContent DEF Init, TypeOK, Stages
<1>2. BlocksCounted
  <2>1. \A b \in Blocks : Holding(b) = {} /\ Leaving(b) = {} /\ Deleting(b) = {}
    BY ExceptionInfoAssumption DEF Init, Holding, Leaving, Deleting
  <2>2. \A b \in Blocks : refcount[b] = 0
    BY DEF Init
  <2>3. heap = {}
    BY DEF Init
  <2>4. Cardinality({}) = 0
    BY FS_EmptySet
  <2>5. QED BY <2>1, <2>2, <2>3, <2>4 DEF BlocksCounted
<1>3. StageInv
  BY DEF Init, StageInv, Gone, Dropping, Committed, Changing
<1>4. WritesAlone
  BY DEF Init, WritesAlone, Dropping, Committed
<1>5. QED BY <1>1, <1>2, <1>3, <1>4 DEF IInv

LEMMA ThrownClasses ==
  \A c \in Names, own \in BOOLEAN : [name |-> c, own |-> own] \in Class
BY DEF Class

LEMMA UseStep ==
  ASSUME IInv, NEW e \in Objects, Use(e)
  PROVE  IInv'
<1>1. ASSUME NEW c \in Thrown, ThrowForeign(e, c)
      PROVE  IInv'
  <2>1. New(e, [name |-> c, own |-> FALSE], "kept", None, "idle")
    BY <1>1 DEF ThrowForeign
  <2>2. [name |-> c, own |-> FALSE] \in Class
    BY ThrownClasses, ExceptionInfoAssumption
  <2>3. QED BY <2>1, <2>2, NewStep
<1>2. ASSUME NEW c \in Thrown, NEW p \in Places, GetException(e, c, p)
      PROVE  IInv'
  <2>1. New(e, [name |-> c, own |-> TRUE], "made", p, "ensure")
    BY <1>2 DEF GetException
  <2>2. [name |-> c, own |-> TRUE] \in Class
    BY ThrownClasses, ExceptionInfoAssumption
  <2>3. QED BY <2>1, <2>2, NewStep
<1>3. ASSUME NEW note \in Infos, AddInfo(e, note)
      PROVE  IInv'
  BY <1>3, StartStep DEF AddInfo, Notes
<1>4. ASSUME NEW p \in Places, AddLocation(e, p)
      PROVE  IInv'
  BY <1>4, StartStep DEF AddLocation
<1>5. ASSUME Destroy(e)
      PROVE  IInv'
  BY <1>5, EndsStep DEF Destroy
<1>6. QED BY <1>1, <1>2, <1>3, <1>4, <1>5 DEF Use

LEMMA ExchangeStep ==
  ASSUME IInv, NEW e \in Objects, NEW f \in Objects, Exchange(e, f)
  PROVE  IInv'
<1>1. ASSUME Copy(e, f)
      PROVE  IInv'
  <2>1. /\ CopyTo(e, f) /\ stage[e] = "idle" /\ UNCHANGED <<after, todo, old, heap, block>>
        /\ stage' = [stage EXCEPT ![e] = "idle", ![f] = "idle"]
    BY <1>1 DEF Copy, IInv, TypeOK
  <2>2. QED BY <2>1, CopyToStep
<1>2. ASSUME ThrowTemp(e, f)
      PROVE  IInv'
  BY <1>2, CopyToStep DEF ThrowTemp
<1>3. ASSUME Rethrow(e, f)
      PROVE  IInv'
  <2>1. class[e].name \in Names
    BY DEF IInv, TypeOK, Class
  <2>2. PICK c \in Caught(class[e].name) :
          New(f, [name |-> c, own |-> TRUE], "temp", class[e].name, "ensure")
    BY <1>3 DEF Rethrow
  <2>3. [name |-> c, own |-> TRUE] \in Class
    BY <2>1, CaughtAreNames, ThrownClasses
  <2>4. QED BY <2>1, <2>2, <2>3, NewStep DEF Notes
<1>4. QED BY <1>1, <1>2, <1>3, AssignStep DEF Exchange

LEMMA AdvanceStep ==
  ASSUME IInv, NEW e \in Objects, Advance(e)
  PROVE  IInv'
<1>1. ASSUME DropTemp(e)
      PROVE  IInv'
  BY <1>1, EndsStep DEF DropTemp
<1>2. QED BY <1>1, EnsureNewStep, EnsureLookStep, EnsureCloneStep, WriteStep, FailStep,
             ReleaseStep, DeleteStep DEF Advance

LEMMA Stutters ==
  ASSUME IInv, UNCHANGED vars
  PROVE  IInv'
<1>1. \A b \in Blocks : /\ Holding(b)' = Holding(b) /\ Leaving(b)' = Leaving(b)
                        /\ Deleting(b)' = Deleting(b)
  BY DEF vars, Holding, Leaving, Deleting
<1>2. BlocksCounted'
  BY <1>1 DEF IInv, BlocksCounted, vars
<1>3. QED BY <1>2 DEF IInv, TypeOK, StageInv, WritesAlone, Gone, Dropping, Committed, Changing, vars

LEMMA Inductive == Spec => []IInv
<1>1. IInv /\ [Next]_vars => IInv'
  BY UseStep, AdvanceStep, ExchangeStep, Stutters DEF Next
<1>2. QED BY Starts, <1>1, PTL DEF Spec

\* Types are right: no counter goes below zero.
THEOREM TypeCorrect == Spec => []TypeOK
<1>1. IInv => TypeOK
  BY DEF IInv
<1>2. QED BY <1>1, Inductive, PTL

\* The counters of the blocks are exact, and blocks are freed once and in time.
THEOREM CountersExact == Spec => []BlocksCounted
<1>1. IInv => BlocksCounted
  BY DEF IInv
<1>2. QED BY <1>1, Inductive, PTL

\* Whoever writes has the block alone.
THEOREM NoSharedWrites == Spec => []WritesAlone
<1>1. IInv => WritesAlone
  BY DEF IInv
<1>2. QED BY <1>1, Inductive, PTL
-----------------------------------------------------------------------------
(* Refinement: what a step of the code is for the values.                   *)

Value == [e \in Live |-> Val(e)]

LEMMA NothingShows ==
  ASSUME Live' = Live, \A x \in Live : Val(x)' = Val(x)
  PROVE  UNCHANGED Value
BY Zenon DEF Value

LEMMA PutShows ==
  ASSUME NEW e \in Objects, NEW v, Live' = Live \cup {e}, Val(e)' = v,
         \A x \in Live \ {e} : Val(x)' = Val(x)
  PROVE  Values!Put(e, v)
<1>1. \A x \in Live' : Val(x)' = IF x = e THEN v ELSE Val(x)
  OBVIOUS
<1>2. [x \in Live |-> Val(x)]' = [x \in Live \cup {e} |-> IF x = e THEN v ELSE Val(x)]
  BY <1>1
<1>3. /\ DOMAIN [x \in Live |-> Val(x)] = Live
      /\ \A x \in Live : [y \in Live |-> Val(y)][x] = Val(x)
  OBVIOUS
<1>4. [x \in Live \cup {e} |-> IF x = e THEN v ELSE Val(x)]
        = [x \in DOMAIN [y \in Live |-> Val(y)] \cup {e} |->
             IF x = e THEN v ELSE [y \in Live |-> Val(y)][x]]
  BY <1>3
<1>5. QED BY <1>2, <1>4 DEF Values!Put

LEMMA DestroyShows ==
  ASSUME NEW e \in Live, Live' = Live \ {e}, \A x \in Live \ {e} : Val(x)' = Val(x)
  PROVE  Values!Destroy(e)
<1>1. [x \in Live |-> Val(x)]' = [x \in Live \ {e} |-> Val(x)]
  BY Zenon
<1>2. /\ DOMAIN [x \in Live |-> Val(x)] = Live
      /\ \A x \in Live : [y \in Live |-> Val(y)][x] = Val(x)
  OBVIOUS
<1>3. [x \in Live \ {e} |-> Val(x)]
        = [x \in DOMAIN [y \in Live |-> Val(y)] \ {e} |-> [y \in Live |-> Val(y)][x]]
  BY <1>2
<1>4. QED BY <1>1, <1>2, <1>3 DEF Values!Destroy, Values!Alive

\* What an exception carries is the same where its pointer and its block are.
LEMMA SameVal ==
  ASSUME NEW x \in Objects, info'[x] = info[x], class'[x] = class[x],
         info[x] # None => block'[info[x]] = block[info[x]]
  PROVE  Val(x)' = Val(x)
BY DEF Val, Carries

LEMMA NewShows ==
  ASSUME IInv, NEW e \in Objects, NEW c \in Class, NEW r, NEW what, NEW first \in {"idle", "ensure"},
         New(e, c, r, what, first)
  PROVE  Values!Make(e, c)
<1>1. /\ UNCHANGED <<after, info, old, heap, block, refcount>> /\ stage[e] = "none"
      /\ stage' = [stage EXCEPT ![e] = first] /\ class' = [class EXCEPT ![e] = c]
  BY DEF New
<1>2. info[e] = None /\ e \notin Live
  BY <1>1 DEF IInv, StageInv, Gone, Live
<1>3. Live' = Live \cup {e}
  BY <1>1 DEF IInv, TypeOK, Live, Gone
<1>4. \A x \in Live \ {e} : Val(x)' = Val(x)
  BY <1>1 DEF IInv, TypeOK, Live, Val, Carries
<1>5. Val(e)' = [class |-> c, carries |-> Blank]
  BY <1>1, <1>2 DEF IInv, TypeOK, Val, Carries, Blank
<1>6. Values!Put(e, [class |-> c, carries |-> Blank])
  BY <1>3, <1>4, <1>5, PutShows
<1>7. QED BY <1>2, <1>6 DEF Values!Make, Values!Alive, Values!Blank, Blank

LEMMA CopyToShows ==
  ASSUME IInv, NEW e \in Objects, NEW f \in Objects, NEW s \in {"idle", "leave"},
         stage[e] \in {"idle", "throw"}, CopyTo(e, f),
         stage' = [stage EXCEPT ![e] = s, ![f] = "idle"],
         UNCHANGED <<after, todo, old, heap, block>>
  PROVE  Values!Copy(e, f)
<1>1. /\ stage[f] = "none" /\ e # f /\ info' = [info EXCEPT ![f] = info[e]]
      /\ class' = [class EXCEPT ![f] = class[e]]
  BY DEF CopyTo
<1>2. e \in Live /\ f \notin Live
  BY <1>1 DEF IInv, TypeOK, Live, Gone
<1>3. Live' = Live \cup {f}
  BY <1>1 DEF IInv, TypeOK, Live, Gone
<1>4. \A x \in Live \ {f} : Val(x)' = Val(x)
  BY <1>1 DEF IInv, TypeOK, Live, Val, Carries
<1>5. Val(f)' = Val(e)
  BY <1>1 DEF IInv, TypeOK, Val, Carries, Blank
<1>6. Values!Put(f, Val(e))
  BY <1>3, <1>4, <1>5, PutShows
<1>7. QED BY <1>2, <1>6 DEF Values!Copy, Values!Alive

LEMMA AssignShows ==
  ASSUME IInv, NEW e \in Objects, NEW f \in Objects, Assign(e, f)
  PROVE  Values!Assign(e, f)
<1>1. /\ stage[e] = "idle" /\ stage[f] = "idle" /\ info' = [info EXCEPT ![f] = info[e]]
      /\ UNCHANGED <<class, block>>
  BY DEF Assign
<1>2. /\ stage' = IF info[f] = None THEN stage ELSE [stage EXCEPT ![f] = "release"]
      /\ after' = IF info[f] = None THEN after ELSE [after EXCEPT ![f] = "idle"]
  BY DEF Assign
<1>3. e \in Live /\ f \in Live
  BY <1>1 DEF Live, Gone
<1>4. Live' = Live \cup {f}
  <2>1. \A x \in Objects : Gone(x)' <=> Gone(x)
    BY <1>1, <1>2 DEF IInv, TypeOK, Gone
  <2>2. QED BY <1>3, <2>1 DEF Live
<1>5. \A x \in Live \ {f} : Val(x)' = Val(x)
  BY <1>1 DEF IInv, TypeOK, Live, Val, Carries
<1>6. Val(f)' = [class |-> Val(f).class, carries |-> Val(e).carries]
  BY <1>1 DEF IInv, TypeOK, Val, Carries, Blank
<1>7. Values!Put(f, [class |-> Val(f).class, carries |-> Val(e).carries])
  BY <1>4, <1>5, <1>6, PutShows
<1>8. QED BY <1>3, <1>7 DEF Values!Assign, Values!Alive

LEMMA EndsShows ==
  ASSUME IInv, NEW e \in Objects, stage[e] \in {"idle", "ensure", "clone", "write", "leave"},
         Ends(e), UNCHANGED block
  PROVE  Values!Destroy(e)
<1>1. /\ info' = [info EXCEPT ![e] = None] /\ after' = [after EXCEPT ![e] = "none"]
      /\ stage' = [stage EXCEPT ![e] = IF info[e] = None THEN "none" ELSE "release"]
      /\ \A x \in Objects \ {e} : class'[x] = class[x]
  BY DEF IInv, TypeOK, Ends, Become
<1>2. e \in Live
  BY DEF Live, Gone
<1>3. Live' = Live \ {e}
  BY <1>1 DEF IInv, TypeOK, Live, Gone
<1>4. \A x \in Live \ {e} : Val(x)' = Val(x)
  BY <1>1 DEF IInv, TypeOK, Live, Val, Carries
<1>5. QED BY <1>2, <1>3, <1>4, DestroyShows

\* A change of stage only.
LEMMA StageShows ==
  ASSUME IInv, NEW e \in Objects, NEW s \in {"idle", "ensure", "clone", "write"},
         stage[e] \in {"idle", "ensure", "clone", "write"}, stage' = [stage EXCEPT ![e] = s],
         UNCHANGED <<after, class, info, block>>
  PROVE  UNCHANGED Value
<1>1. Live' = Live
  BY DEF IInv, TypeOK, Live, Gone
<1>2. \A x \in Live : Val(x)' = Val(x)
  BY DEF Val, Carries
<1>3. QED BY <1>1, <1>2, NothingShows

\* A new block starts with what e carries; nobody else has it.
LEMMA NewBlockShows ==
  ASSUME IInv, NEW e \in Objects, NEW b \in Blocks, NewBlock(e, b, Carries(e)),
         UNCHANGED class, Live' = Live
  PROVE  UNCHANGED Value
<1>1. /\ b \notin heap /\ info' = [info EXCEPT ![e] = b]
      /\ block' = [block EXCEPT ![b] = Carries(e)]
  BY DEF NewBlock
<1>2. \A x \in Objects : info[x] \in Blocks => info[x] # b
  BY <1>1, HeldIsCounted DEF IInv
<1>3. ASSUME NEW x \in Live, x # e
      PROVE  Val(x)' = Val(x)
  BY <1>1, <1>2, <1>3 DEF IInv, TypeOK, Live, Val, Carries
<1>4. Val(e)' = Val(e)
  <2>1. info'[e] = b /\ block'[b] = Carries(e) /\ b # None
    BY <1>1, ExceptionInfoAssumption DEF IInv, TypeOK
  <2>2. Carries(e)' = Carries(e)
    BY <2>1 DEF Carries
  <2>3. QED BY <2>2 DEF Val
<1>5. QED BY <1>3, <1>4, NothingShows

LEMMA WriteShows ==
  ASSUME IInv, NEW e \in Objects, Write(e)
  PROVE  \/ \E note \in Notes : Values!AddInfo(e, note)
         \/ \E place \in Places : Values!AddLocation(e, place)
<1> DEFINE b == info[e]
           w == todo[e]
<1>0. /\ stage[e] = "write" /\ block' = [block EXCEPT ![b] = Put(@, w)]
      /\ \E s \in {"idle", "throw"} : stage' = [stage EXCEPT ![e] = s]
      /\ UNCHANGED <<after, class, info>>
  BY DEF Write
<1>1. b # None /\ w \in Notes \cup Places /\ refcount[b] = 1
  BY <1>0 DEF IInv, StageInv, WritesAlone, Committed, Changing
<1>2. b \in Blocks /\ block[b] \in Content
  BY <1>1 DEF IInv, TypeOK
<1>3. Live' = Live \cup {e} /\ e \in Live
  BY <1>0 DEF IInv, TypeOK, Live, Gone
<1>4. \A x \in Live \ {e} : Val(x)' = Val(x)
  <2>1. \A x \in Objects : info[x] = b => x = e
    BY <1>1, <1>2, HeldAlone DEF IInv
  <2>2. QED BY <1>0, <1>2, <2>1 DEF IInv, TypeOK, Live, Val, Carries
<1>5. Val(e)' = [class |-> class[e], carries |-> Put(block[b], w)]
  BY <1>0, <1>1, <1>2 DEF IInv, TypeOK, Val, Carries
<1>6. Val(e) = [class |-> class[e], carries |-> block[b]]
  BY <1>1 DEF Val, Carries
<1> HIDE DEF b, w
<1>7. CASE w \in Places
  <2>1. Put(block[b], w) = [place |-> w, infos |-> block[b].infos]
    BY <1>2, <1>7 DEF Put, Content
  <2>2. Values!Put(e, [class |-> Val(e).class,
                       carries |-> [place |-> w, infos |-> Val(e).carries.infos]])
    BY <1>3, <1>4, <1>5, <1>6, <2>1, PutShows
  <2>3. Values!AddLocation(e, w)
    BY <1>3, <2>2 DEF Values!AddLocation, Values!Alive
  <2>4. QED BY <1>7, <2>3
<1>8. CASE w \notin Places
  <2>1. Put(block[b], w) = [place |-> block[b].place, infos |-> Append(block[b].infos, w)]
    BY <1>2, <1>8 DEF Put, Content
  <2>2. /\ Val(e).class = class[e] /\ Val(e).carries.place = block[b].place
        /\ Val(e).carries.infos = block[b].infos
    BY <1>6
  <2> DEFINE v == [class |-> Val(e).class,
                   carries |-> [place |-> Val(e).carries.place,
                                infos |-> Append(Val(e).carries.infos, w)]]
  <2>3. Val(e)' = v
    BY <1>5, <2>1, <2>2
  <2> HIDE DEF v
  <2>4. Values!Put(e, v)
    BY <1>3, <1>4, <2>3, PutShows
  <2>5. Values!AddInfo(e, w)
    BY <1>3, <2>4 DEF Values!AddInfo, Values!Alive, v
  <2>6. QED BY <1>1, <1>8, <2>5
<1>9. QED BY <1>7, <1>8

\* Giving up a block shows in no value: nobody has what is deleted.
LEMMA ReleaseShows ==
  ASSUME IInv, NEW e \in Objects, Release(e) \/ Delete(e)
  PROVE  UNCHANGED Value
<1>1. /\ Dropping(e) /\ UNCHANGED info
      /\ \/ /\ stage' = [stage EXCEPT ![e] = "delete"] /\ UNCHANGED <<after, block>>
            /\ \A x \in Objects : class'[x] = class[x]
         \/ Done(e)
  BY DEF Release, Delete, Dropping, Become, IInv, TypeOK
<1>2. Live' = Live
  <2>1. ASSUME NEW x \in Objects, x # e
        PROVE  stage'[x] = stage[x] /\ after'[x] = after[x]
    BY <1>1, <2>1 DEF IInv, TypeOK, Done, Become
  <2>2. Gone(e)' <=> Gone(e)
    <3>1. CASE stage' = [stage EXCEPT ![e] = "delete"] /\ after' = after
      BY <1>1, <3>1 DEF IInv, TypeOK, Gone, Dropping
    <3>2. CASE Done(e)
      <4>1. stage'[e] = after[e] /\ after[e] \in {"none", "idle", "write"}
        BY <3>2 DEF IInv, TypeOK, Done, Become
      <4>2. QED BY <1>1, <4>1 DEF Gone, Dropping
    <3>3. QED BY <1>1, <3>1, <3>2
  <2>3. \A x \in Objects : Gone(x)' <=> Gone(x)
    BY <2>1, <2>2 DEF Gone
  <2>4. QED BY <2>3 DEF Live
<1>3. \A x \in Live : class'[x] = class[x]
  BY <1>1 DEF IInv, TypeOK, Live, Gone, Dropping, Done, Become
<1>4. \A x \in Objects : info[x] # None => block'[info[x]] = block[info[x]]
  <2>1. CASE Release(e)
    BY <2>1 DEF Release
  <2>2. CASE Delete(e)
    <3>1. old[e] \in Blocks /\ block' = [block EXCEPT ![old[e]] = Blank] /\ stage[e] = "delete"
      BY <2>2 DEF IInv, TypeOK, StageInv, Dropping, Delete
    <3>2. refcount[old[e]] = 0
      <4>1. e \in Deleting(old[e])
        BY <3>1 DEF Deleting
      <4>2. Cardinality(Deleting(old[e])) # 0
        BY <3>1, <4>1, SetsOfObjects, FS_Subset, FS_EmptySet, ExceptionInfoAssumption
      <4>3. QED BY <3>1, <4>2 DEF IInv, BlocksCounted
    <3>3. \A x \in Objects : info[x] \in Blocks => info[x] # old[e]
      BY <3>1, <3>2, HeldIsCounted DEF IInv
    <3>4. QED BY <3>1, <3>3 DEF IInv, TypeOK
  <2>3. QED BY <2>1, <2>2
<1>5. \A x \in Live : Val(x)' = Val(x)
  BY <1>1, <1>3, <1>4, SameVal DEF Live
<1>6. QED BY <1>2, <1>5, NothingShows

\* An action of the abstract specification.
LEMMA AbstractStep ==
  ASSUME NEW e \in Objects,
         \/ \E c \in Class : Values!Make(e, c)
         \/ \E f \in Objects : Values!Copy(e, f) \/ Values!Assign(e, f)
         \/ \E note \in Notes : Values!AddInfo(e, note)
         \/ \E place \in Places : Values!AddLocation(e, place)
         \/ Values!Destroy(e)
  PROVE  Values!Next
BY DEF Values!Next

LEMMA UseShows ==
  ASSUME IInv, NEW e \in Objects, Use(e)
  PROVE  Values!Next \/ UNCHANGED Value
<1>1. ASSUME NEW c \in Thrown, ThrowForeign(e, c)
      PROVE  Values!Next
  <2>1. New(e, [name |-> c, own |-> FALSE], "kept", None, "idle")
    BY <1>1 DEF ThrowForeign
  <2>2. [name |-> c, own |-> FALSE] \in Class
    BY ThrownClasses, ExceptionInfoAssumption
  <2>3. Values!Make(e, [name |-> c, own |-> FALSE])
    BY <2>1, <2>2, NewShows
  <2>4. QED BY <2>2, <2>3, AbstractStep
<1>2. ASSUME NEW c \in Thrown, NEW p \in Places, GetException(e, c, p)
      PROVE  Values!Next
  <2>1. New(e, [name |-> c, own |-> TRUE], "made", p, "ensure")
    BY <1>2 DEF GetException
  <2>2. [name |-> c, own |-> TRUE] \in Class
    BY ThrownClasses, ExceptionInfoAssumption
  <2>3. Values!Make(e, [name |-> c, own |-> TRUE])
    BY <2>1, <2>2, NewShows
  <2>4. QED BY <2>2, <2>3, AbstractStep
<1>3. ASSUME NEW what, Start(e, what)
      PROVE  UNCHANGED Value
  <2>1. /\ stage[e] = "idle" /\ stage' = [stage EXCEPT ![e] = "ensure"]
        /\ UNCHANGED <<after, class, info, block>>
    BY <1>3 DEF Start
  <2>2. QED BY <2>1, StageShows
<1>4. ASSUME Destroy(e)
      PROVE  Values!Next
  <2>1. Values!Destroy(e)
    BY <1>4, EndsShows DEF Destroy
  <2>2. QED BY <2>1, AbstractStep
<1>5. QED BY <1>1, <1>2, <1>3, <1>4 DEF Use, AddInfo, AddLocation

LEMMA ExchangeShows ==
  ASSUME IInv, NEW e \in Objects, NEW f \in Objects, Exchange(e, f)
  PROVE  Values!Next
<1>1. ASSUME Copy(e, f)
      PROVE  Values!Next
  <2>1. /\ CopyTo(e, f) /\ stage[e] = "idle" /\ UNCHANGED <<after, todo, old, heap, block>>
        /\ stage' = [stage EXCEPT ![e] = "idle", ![f] = "idle"]
    BY <1>1 DEF Copy, IInv, TypeOK
  <2>2. Values!Copy(e, f)
    BY <2>1, CopyToShows
  <2>3. QED BY <2>2, AbstractStep
<1>2. ASSUME ThrowTemp(e, f)
      PROVE  Values!Next
  <2>1. Values!Copy(e, f)
    BY <1>2, CopyToShows DEF ThrowTemp
  <2>2. QED BY <2>1, AbstractStep
<1>3. ASSUME Rethrow(e, f)
      PROVE  Values!Next
  <2>1. class[e].name \in Names
    BY DEF IInv, TypeOK, Class
  <2>2. PICK c \in Caught(class[e].name) :
          New(f, [name |-> c, own |-> TRUE], "temp", class[e].name, "ensure")
    BY <1>3 DEF Rethrow
  <2>3. [name |-> c, own |-> TRUE] \in Class
    BY <2>1, CaughtAreNames, ThrownClasses
  <2>4. Values!Make(f, [name |-> c, own |-> TRUE])
    BY <2>2, <2>3, NewShows
  <2>5. QED BY <2>3, <2>4, AbstractStep
<1>4. ASSUME Assign(e, f)
      PROVE  Values!Next
  <2>1. Values!Assign(e, f)
    BY <1>4, AssignShows
  <2>2. QED BY <2>1, AbstractStep
<1>5. QED BY <1>1, <1>2, <1>3, <1>4 DEF Exchange

LEMMA AdvanceShows ==
  ASSUME IInv, NEW e \in Objects, Advance(e)
  PROVE  Values!Next \/ UNCHANGED Value
<1>1. ASSUME EnsureNew(e)
      PROVE  UNCHANGED Value
  <2>1. PICK b \in Blocks : NewBlock(e, b, Carries(e))
    BY <1>1 DEF EnsureNew, Carries
  <2>2. Live' = Live /\ UNCHANGED class
    BY <1>1 DEF IInv, TypeOK, EnsureNew, Live, Gone
  <2>3. QED BY <2>1, <2>2, NewBlockShows
<1>2. ASSUME EnsureClone(e)
      PROVE  UNCHANGED Value
  <2>1. info[e] # None
    BY <1>2 DEF IInv, StageInv, EnsureClone
  <2>2. PICK b \in Blocks : NewBlock(e, b, Carries(e))
    BY <1>2, <2>1 DEF EnsureClone, Carries
  <2>3. Live' = Live /\ UNCHANGED class
    BY <1>2 DEF IInv, TypeOK, EnsureClone, Live, Gone
  <2>4. QED BY <2>2, <2>3, NewBlockShows
<1>3. ASSUME EnsureLook(e)
      PROVE  UNCHANGED Value
  <2>1. \E s \in {"clone", "write"} : stage' = [stage EXCEPT ![e] = s]
    BY <1>3 DEF EnsureLook
  <2>2. stage[e] = "ensure" /\ UNCHANGED <<after, class, info, block>>
    BY <1>3 DEF EnsureLook
  <2>3. QED BY <2>1, <2>2, StageShows
<1>4. ASSUME Write(e)
      PROVE  Values!Next
  BY <1>4, WriteShows, AbstractStep
<1>5. ASSUME Fail(e)
      PROVE  Values!Next \/ UNCHANGED Value
  <2>1. stage[e] \in {"ensure", "clone", "write"} /\ UNCHANGED block
    BY <1>5 DEF Fail
  <2>2. CASE role[e] # "kept"
    <3>1. Values!Destroy(e)
      BY <1>5, <2>1, <2>2, EndsShows DEF Fail
    <3>2. QED BY <3>1, AbstractStep
  <2>3. CASE role[e] = "kept"
    <3>1. stage' = [stage EXCEPT ![e] = "idle"] /\ UNCHANGED <<after, info>>
      BY <1>5, <2>3 DEF Fail, Become
    <3>2. class' = class
      BY <1>5, <2>3 DEF IInv, TypeOK, Fail, Become
    <3>3. QED BY <2>1, <3>1, <3>2, StageShows
  <2>4. QED BY <2>2, <2>3
<1>6. ASSUME DropTemp(e)
      PROVE  Values!Next
  <2>1. Values!Destroy(e)
    BY <1>6, EndsShows DEF DropTemp
  <2>2. QED BY <2>1, AbstractStep
<1>7. QED BY <1>1, <1>2, <1>3, <1>4, <1>5, <1>6, ReleaseShows DEF Advance

\* Exceptions are values, whatever is shared: the code implements ExceptionValues.
THEOREM SharingNeverShows == Spec => ImplementsValues
<1>1. Init => Values!Init
  <2>1. Init => Live = {}
    BY DEF Init, Live, Gone
  <2>2. QED BY <2>1 DEF Values!Init
<1>2. IInv /\ [Next]_vars => [Values!Next]_(Value)
  <2>1. ASSUME IInv, Next
        PROVE  Values!Next \/ UNCHANGED Value
    BY <2>1, UseShows, AdvanceShows, ExchangeShows DEF Next
  <2>2. ASSUME UNCHANGED vars
        PROVE  UNCHANGED Value
    <3>1. Live' = Live /\ \A x \in Live : Val(x)' = Val(x)
      BY <2>2 DEF vars, Live, Gone, Val, Carries
    <3>2. QED BY <3>1, NothingShows
  <2>3. QED BY <2>1, <2>2
<1>3. QED BY <1>1, <1>2, Inductive, PTL DEF Spec, ImplementsValues, Values!Spec, Value
-----------------------------------------------------------------------------
(* RethrowException().                                                     *)

\* What the steps of the values say of each of them.
LEMMA NothingShown ==
  ASSUME UNCHANGED Value
  PROVE  Live' = Live /\ \A x \in Live : Val(x)' = Val(x)
<1>1. DOMAIN Value = Live /\ DOMAIN Value' = Live'
  BY DEF Value
<1>2. (\A x \in Live : Value[x] = Val(x)) /\ (\A x \in Live' : Value'[x] = Val(x)')
  BY DEF Value
<1>3. QED BY <1>1, <1>2

LEMMA PutShown ==
  ASSUME NEW e \in Objects, NEW v, Values!Put(e, v)
  PROVE  /\ Live' = Live \cup {e} /\ Val(e)' = v
         /\ \A x \in Live \ {e} : Val(x)' = Val(x)
<1>1. DOMAIN Value = Live /\ DOMAIN Value' = Live'
  BY DEF Value
<1>2. (\A x \in Live : Value[x] = Val(x)) /\ (\A x \in Live' : Value'[x] = Val(x)')
  BY DEF Value
<1>3. Value' = [x \in DOMAIN Value \cup {e} |-> IF x = e THEN v ELSE Value[x]]
  BY DEF Value, Values!Put
<1>4. QED BY <1>1, <1>2, <1>3

LEMMA DestroyShown ==
  ASSUME NEW e \in Objects, Values!Destroy(e)
  PROVE  Live' = Live \ {e} /\ \A x \in Live \ {e} : Val(x)' = Val(x)
<1>1. DOMAIN Value = Live /\ DOMAIN Value' = Live'
  BY DEF Value
<1>2. (\A x \in Live : Value[x] = Val(x)) /\ (\A x \in Live' : Value'[x] = Val(x)')
  BY DEF Value
<1>3. Value' = [x \in DOMAIN Value \ {e} |-> Value[x]]
  BY DEF Value, Values!Destroy
<1>4. QED BY <1>1, <1>2, <1>3

\* An exception whose first info is the name of a class was rethrown for it.
NamedRight(v) == v.carries.infos # <<>> /\ v.carries.infos[1] \in Names =>
                   v.class.own /\ Nearest(v.class.name, v.carries.infos[1])

\* What a call is going to add is the name of a class only when RethrowException() makes the
\* exception, and it will be its first info.
AddsRight(x) ==
  Changing(x) => IF role[x] = "temp"
                 THEN /\ Val(x).carries.infos = <<>> /\ Val(x).class.own
                      /\ todo[x] \in Names /\ Nearest(Val(x).class.name, todo[x])
                 ELSE todo[x] \in Infos \cup Places

\* An object on which no call is under way is none that RethrowException() has just made.
Resting(x) == stage[x] = "idle" \/ (Dropping(x) /\ after[x] = "idle")
Settled(x) == Resting(x) => role[x] # "temp"

Obeys(x) == x \in Live => NamedRight(Val(x)) /\ AddsRight(x) /\ Settled(x)
RethrowInv == \A x \in Objects : Obeys(x)

\* The classes that an exception is of are a chain, and a handler comes before those for
\* its bases.
LEMMA BasesAreChain ==
  ASSUME NEW d \in Names, NEW a \in Bases(d), NEW c \in Bases(d)
  PROVE  a \in Bases(c) \/ c \in Bases(a)
BY DEF Bases

LEMMA DerivedFirst == \A i, k \in DOMAIN Handlers : Handlers[i] \in Bases(Handlers[k]) => k <= i
BY SMTT(60) DEF Handlers, Bases, Parent

\* So the first handler that matches is that of the nearest class.
LEMMA CaughtIsNearest ==
  ASSUME NEW d \in Names, NEW c \in Caught(d)
  PROVE  Nearest(c, d)
<1>1. PICK i \in Matching(d) : c = Handlers[i] /\ \A k \in Matching(d) : i <= k
  BY DEF Caught
<1>2. i \in DOMAIN Handlers /\ c \in Bases(d) /\ c \in Listed
  BY <1>1 DEF Matching, Listed
<1>3. ASSUME NEW a \in Listed \cap Bases(d) PROVE a \in Bases(c)
  <2>1. PICK k \in DOMAIN Handlers : a = Handlers[k]
    BY <1>3 DEF Listed
  <2>2. i <= k
    BY <1>1, <1>3, <2>1 DEF Matching
  <2>3. CASE c \in Bases(a)
    <3>1. k <= i
      BY <1>1, <1>2, <2>1, <2>3, DerivedFirst
    <3>2. i \in Nat /\ k \in Nat
      BY <1>2, <2>1 DEF Handlers
    <3>3. a = c
      BY <1>1, <2>1, <2>2, <3>1, <3>2
    <3>4. QED BY <3>3 DEF Bases
  <2>4. QED BY <1>2, <1>3, <2>3, BasesAreChain
<1>4. QED BY <1>2, <1>3 DEF Nearest

\* An object that stays as it was, or only goes on with its call.
LEMMA StillObeys ==
  ASSUME RethrowInv, NEW x \in Objects,
         x \in Live' => /\ x \in Live /\ Val(x)' = Val(x)
                        /\ Changing(x)' => Changing(x) /\ role'[x] = role[x] /\ todo'[x] = todo[x]
                        /\ Resting(x)' => (role'[x] = "temp" => Resting(x) /\ role[x] = "temp")
  PROVE  Obeys(x)'
<1>1. SUFFICES ASSUME x \in Live' PROVE NamedRight(Val(x)') /\ AddsRight(x)' /\ Settled(x)'
  BY DEF Obeys, NamedRight
<1>2. x \in Live /\ Val(x)' = Val(x) /\ NamedRight(Val(x)) /\ AddsRight(x) /\ Settled(x)
  BY <1>1 DEF RethrowInv, Obeys
<1>3. AddsRight(x)'
  BY <1>1, <1>2 DEF AddsRight
<1>4. Settled(x)'
  BY <1>1, <1>2 DEF Settled
<1>5. QED BY <1>2, <1>3, <1>4

\* The objects that no step touches.
Apart(x) == stage'[x] = stage[x] /\ after'[x] = after[x] /\ role'[x] = role[x] /\ todo'[x] = todo[x]

LEMMA ApartObeys ==
  ASSUME RethrowInv, NEW x \in Objects, Apart(x), x \in Live' => x \in Live /\ Val(x)' = Val(x)
  PROVE  Obeys(x)'
<1>1. (Changing(x)' <=> Changing(x)) /\ (Resting(x)' <=> Resting(x))
  BY DEF Apart, Changing, Committed, Dropping, Resting
<1>2. QED BY <1>1, StillObeys DEF Apart

LEMMA NewObeys ==
  ASSUME IInv, RethrowInv, NEW e \in Objects, NEW c \in Class, NEW r, NEW what,
         NEW first \in {"idle", "ensure"}, New(e, c, r, what, first),
         first = "idle" => r # "temp",
         first = "ensure" => IF r = "temp" THEN c.own /\ what \in Names /\ Nearest(c.name, what)
                             ELSE what \in Infos \cup Places
  PROVE  RethrowInv'
<1>1. Values!Make(e, c)
  BY NewShows
<1>2. Values!Put(e, [class |-> c, carries |-> Blank])
  BY <1>1 DEF Values!Make, Values!Blank, Blank
<1>3. /\ Live' = Live \cup {e} /\ Val(e)' = [class |-> c, carries |-> Blank]
      /\ \A x \in Live \ {e} : Val(x)' = Val(x)
  BY <1>2, PutShown
<1>4. /\ stage'[e] = first /\ role'[e] = r /\ todo'[e] = what
      /\ \A x \in Objects \ {e} : Apart(x)
  BY DEF IInv, TypeOK, New, Apart
<1>5. \A x \in Objects \ {e} : Obeys(x)'
  BY <1>3, <1>4, ApartObeys
<1>6. Obeys(e)'
  <2>1. Val(e)'.carries.infos = <<>> /\ Val(e)'.class = c
    BY <1>3 DEF Blank
  <2>2. NamedRight(Val(e)')
    BY <2>1 DEF NamedRight
  <2>3. Changing(e)' => first = "ensure"
    BY <1>4 DEF Changing, Committed, Dropping
  <2>4. AddsRight(e)'
    BY <1>4, <2>1, <2>3 DEF AddsRight
  <2>5. Settled(e)'
    BY <1>4 DEF Settled, Resting, Dropping
  <2>6. QED BY <2>2, <2>4, <2>5 DEF Obeys, NamedRight
<1>7. QED BY <1>5, <1>6 DEF RethrowInv

LEMMA CopyToObeys ==
  ASSUME IInv, RethrowInv, NEW e \in Objects, NEW f \in Objects, NEW s \in {"idle", "leave"},
         stage[e] \in {"idle", "throw"}, CopyTo(e, f), s = "idle" => stage[e] = "idle",
         stage' = [stage EXCEPT ![e] = s, ![f] = "idle"],
         UNCHANGED <<after, todo, old, heap, block>>
  PROVE  RethrowInv'
<1>1. Values!Copy(e, f)
  BY CopyToShows
<1>2. Values!Put(f, Value[e]) /\ e \in DOMAIN Value
  BY <1>1 DEF Values!Copy, Values!Alive, Value
<1>3. e \in Live /\ Value[e] = Val(e)
  BY <1>2 DEF Value
<1>4. Live' = Live \cup {f} /\ Val(f)' = Val(e) /\ \A x \in Live \ {f} : Val(x)' = Val(x)
  BY <1>2, <1>3, PutShown
<1>5. /\ e # f /\ stage'[e] = s /\ stage'[f] = "idle" /\ role'[f] = "kept" /\ role'[e] = role[e]
      /\ \A x \in Objects \ {e, f} : Apart(x)
  BY DEF IInv, TypeOK, CopyTo, Apart
<1>6. \A x \in Objects \ {e, f} : Obeys(x)'
  BY <1>4, <1>5, ApartObeys
<1>7. Obeys(e)'
  <2>1. ~Changing(e)' /\ (Resting(e)' => Resting(e))
    BY <1>5 DEF Changing, Committed, Dropping, Resting
  <2>2. QED BY <1>3, <1>4, <1>5, <2>1, StillObeys
<1>8. Obeys(f)'
  <2>1. NamedRight(Val(e))
    BY <1>3 DEF RethrowInv, Obeys
  <2>2. ~Changing(f)'
    BY <1>5 DEF Changing, Committed, Dropping
  <2>3. QED BY <1>4, <1>5, <2>1, <2>2 DEF Obeys, NamedRight, AddsRight, Settled
<1>9. QED BY <1>6, <1>7, <1>8 DEF RethrowInv

LEMMA AssignObeys ==
  ASSUME IInv, RethrowInv, NEW e \in Objects, NEW f \in Objects, Assign(e, f)
  PROVE  RethrowInv'
<1>1. Values!Assign(e, f)
  BY AssignShows
<1>2. /\ e \in DOMAIN Value /\ f \in DOMAIN Value
      /\ Values!Put(f, [class |-> Value[f].class, carries |-> Value[e].carries])
  BY <1>1 DEF Values!Assign, Values!Alive, Value
<1>3. e \in Live /\ f \in Live /\ Value[e] = Val(e) /\ Value[f] = Val(f)
  BY <1>2 DEF Value
<1>4. /\ Live' = Live \cup {f}
      /\ Val(f)' = [class |-> Val(f).class, carries |-> Val(e).carries]
      /\ \A x \in Live \ {f} : Val(x)' = Val(x)
  BY <1>2, <1>3, PutShown
<1>5. Val(e).class = Val(f).class
  BY DEF Assign, Val
<1>6. /\ stage[f] = "idle" /\ UNCHANGED <<role, todo>> /\ \A x \in Objects \ {f} : Apart(x)
      /\ stage'[f] = "idle" \/ (stage'[f] = "release" /\ after'[f] = "idle")
  BY DEF IInv, TypeOK, Assign, Apart
<1>7. \A x \in Objects \ {f} : Obeys(x)'
  BY <1>4, <1>6, ApartObeys
<1>8. Obeys(f)'
  <2>1. NamedRight(Val(e)) /\ Settled(f)
    BY <1>3 DEF RethrowInv, Obeys
  <2>2. Val(f)'.class = Val(e).class /\ Val(f)'.carries = Val(e).carries
    BY <1>4, <1>5
  <2>3. NamedRight(Val(f)')
    BY <2>1, <2>2 DEF NamedRight
  <2>4. ~Changing(f)' /\ Resting(f)
    BY <1>6 DEF Changing, Committed, Dropping, Resting
  <2>5. Settled(f)'
    BY <1>6, <2>1, <2>4 DEF Settled
  <2>6. QED BY <2>3, <2>4, <2>5 DEF Obeys, NamedRight, AddsRight
<1>9. QED BY <1>7, <1>8 DEF RethrowInv

LEMMA EndsObeys ==
  ASSUME IInv, RethrowInv, NEW e \in Objects,
         stage[e] \in {"idle", "ensure", "clone", "write", "leave"},
         Ends(e), UNCHANGED block, \A x \in Objects \ {e} : todo'[x] = todo[x]
  PROVE  RethrowInv'
<1>1. Live' = Live \ {e} /\ \A x \in Live \ {e} : Val(x)' = Val(x)
  BY EndsShows, DestroyShown
<1>2. \A x \in Objects \ {e} : Apart(x)
  BY DEF IInv, TypeOK, Ends, Become, Apart
<1>3. \A x \in Objects \ {e} : Obeys(x)'
  BY <1>1, <1>2, ApartObeys
<1>4. Obeys(e)'
  BY <1>1 DEF Obeys
<1>5. QED BY <1>3, <1>4 DEF RethrowInv

\* A step of e that shows in no value.
LEMMA HiddenObeys ==
  ASSUME RethrowInv, NEW e \in Objects, UNCHANGED Value, \A x \in Objects \ {e} : Apart(x),
         e \in Live' => /\ Changing(e)' => Changing(e) /\ role'[e] = role[e] /\ todo'[e] = todo[e]
                        /\ Resting(e)' => (role'[e] = "temp" => Resting(e) /\ role[e] = "temp")
  PROVE  RethrowInv'
<1>1. Live' = Live /\ \A x \in Live : Val(x)' = Val(x)
  BY NothingShown
<1>2. \A x \in Objects \ {e} : Obeys(x)'
  BY <1>1, ApartObeys
<1>3. Obeys(e)'
  BY <1>1, StillObeys
<1>4. QED BY <1>2, <1>3 DEF RethrowInv

LEMMA StartObeys ==
  ASSUME IInv, RethrowInv, NEW e \in Objects, NEW what \in Infos \cup Places, Start(e, what)
  PROVE  RethrowInv'
<1>1. /\ stage[e] = "idle" /\ stage'[e] = "ensure" /\ todo'[e] = what /\ role' = role
      /\ \A x \in Objects \ {e} : Apart(x)
  BY DEF IInv, TypeOK, Start, Apart
<1>2. UNCHANGED Value
  BY StageShows DEF Start
<1>3. e \in Live /\ Live' = Live /\ \A x \in Live : Val(x)' = Val(x)
  BY <1>1, <1>2, NothingShown DEF Live, Gone
<1>4. \A x \in Objects \ {e} : Obeys(x)'
  BY <1>1, <1>3, ApartObeys
<1>5. NamedRight(Val(e)) /\ role[e] # "temp"
  BY <1>1, <1>3 DEF RethrowInv, Obeys, Settled, Resting
<1>6. AddsRight(e)' /\ Settled(e)'
  BY <1>1, <1>5 DEF AddsRight, Settled
<1>7. Obeys(e)'
  BY <1>3, <1>5, <1>6 DEF Obeys, NamedRight
<1>8. QED BY <1>4, <1>7 DEF RethrowInv

LEMMA EnsureObeys ==
  ASSUME IInv, RethrowInv, NEW e \in Objects, EnsureNew(e) \/ EnsureLook(e) \/ EnsureClone(e)
  PROVE  RethrowInv'
<1>1. /\ stage[e] \in {"ensure", "clone"} /\ role' = role /\ todo' = todo
      /\ \/ stage'[e] \in {"write", "clone"}
         \/ stage'[e] = "release" /\ after'[e] = "write"
      /\ \A x \in Objects \ {e} : Apart(x)
  BY DEF IInv, TypeOK, EnsureNew, EnsureLook, EnsureClone, Apart
<1>2. UNCHANGED Value
  <2>1. CASE EnsureLook(e)
    <3>1. \E s \in {"clone", "write"} : stage' = [stage EXCEPT ![e] = s]
      BY <2>1 DEF EnsureLook
    <3>2. stage[e] = "ensure" /\ UNCHANGED <<after, class, info, block>>
      BY <2>1 DEF EnsureLook
    <3>3. QED BY <3>1, <3>2, StageShows
  <2>2. CASE EnsureNew(e) \/ EnsureClone(e)
    <3>1. PICK b \in Blocks : NewBlock(e, b, Carries(e))
      BY <2>2 DEF IInv, StageInv, EnsureNew, EnsureClone, Carries
    <3>2. Live' = Live /\ UNCHANGED class
      BY <2>2 DEF IInv, TypeOK, EnsureNew, EnsureClone, Live, Gone
    <3>3. QED BY <3>1, <3>2, NewBlockShows
  <2>3. QED BY <2>1, <2>2
<1>3. Changing(e) /\ ~Resting(e)'
  BY <1>1 DEF Changing, Resting, Dropping
<1>4. QED BY <1>1, <1>2, <1>3, HiddenObeys

LEMMA ReleaseObeys ==
  ASSUME IInv, RethrowInv, NEW e \in Objects, Release(e) \/ Delete(e)
  PROVE  RethrowInv'
<1>1. UNCHANGED Value
  BY ReleaseShows
<1>2. /\ Dropping(e) /\ UNCHANGED todo /\ \A x \in Objects \ {e} : Apart(x)
      /\ \/ stage'[e] = "delete" /\ after'[e] = after[e] /\ role'[e] = role[e]
         \/ stage'[e] = after[e] /\ (after[e] # "none" => role'[e] = role[e])
  BY DEF IInv, TypeOK, Release, Delete, Done, Become, Dropping, Apart
<1>3. after[e] \in {"none", "idle", "write"}
  BY DEF IInv, TypeOK
<1>4. e \in Live' => /\ Changing(e)' => Changing(e) /\ role'[e] = role[e]
                     /\ Resting(e)' => Resting(e) /\ role'[e] = role[e]
  BY <1>2, <1>3 DEF Live, Gone, Changing, Committed, Dropping, Resting
<1>5. QED BY <1>1, <1>2, <1>4, HiddenObeys

\* The first info of an exception is the class it was rethrown for, or nobody's.
LEMMA WriteObeys ==
  ASSUME IInv, RethrowInv, NEW e \in Objects, Write(e)
  PROVE  RethrowInv'
<1> DEFINE s == Val(e).carries.infos
           w == todo[e]
           t == Val(e)'.carries.infos
<1>1. /\ stage[e] = "write" /\ stage'[e] = IF role[e] = "temp" THEN "throw" ELSE "idle"
      /\ role[e] # "temp" => role'[e] # "temp"
      /\ UNCHANGED class /\ \A x \in Objects \ {e} : Apart(x)
  BY DEF IInv, TypeOK, Write, Apart
<1>2. /\ Live' = Live \cup {e} /\ \A x \in Live \ {e} : Val(x)' = Val(x)
      /\ t = s \/ (w \in Notes /\ w \notin Places /\ t = Append(s, w))
  <2>1. \/ \E note \in Notes : Values!AddInfo(e, note)
        \/ \E place \in Places : Values!AddLocation(e, place)
    BY WriteShows
  <2>2. \E v : Values!Put(e, v)
    BY <2>1 DEF Values!AddInfo, Values!AddLocation
  <2>3. Live' = Live \cup {e} /\ \A x \in Live \ {e} : Val(x)' = Val(x)
    BY <2>2, PutShown
  <2>4. t = Put(block[info[e]], w).infos
    <3>1. info[e] # None
      BY <1>1 DEF IInv, StageInv, Committed
    <3>2. info' = info /\ block'[info[e]] = Put(block[info[e]], w)
      BY <3>1 DEF IInv, TypeOK, Write
    <3>3. QED BY <3>1, <3>2 DEF Val, Carries
  <2>5. s = block[info[e]].infos /\ block[info[e]] \in Content /\ w \in Notes \cup Places
    BY <1>1 DEF IInv, TypeOK, StageInv, Committed, Changing, Val, Carries
  <2> HIDE DEF s, t, w
  <2>6. CASE w \in Places
    BY <2>3, <2>4, <2>5, <2>6 DEF Put, Content
  <2>7. CASE w \notin Places
    BY <2>3, <2>4, <2>5, <2>7 DEF Put, Content
  <2>8. QED BY <2>6, <2>7
<1>3. /\ s \in Seq(Notes) /\ Val(e)'.class = Val(e).class /\ Val(e).class = class[e]
  <2>1. info[e] \in Blocks /\ block[info[e]] \in Content
    BY <1>1 DEF IInv, TypeOK, StageInv, Committed
  <2>2. s = block[info[e]].infos
    BY <1>1 DEF IInv, StageInv, Committed, Val, Carries
  <2>3. QED BY <1>1, <2>1, <2>2 DEF Content, Val
<1>4. e \in Live /\ NamedRight(Val(e)) /\ AddsRight(e) /\ Changing(e)
  BY <1>1 DEF RethrowInv, Obeys, Live, Gone, Changing, Committed
<1> HIDE DEF s, t, w
<1>5. s # <<>> /\ s[1] \in Names => Val(e).class.own /\ Nearest(Val(e).class.name, s[1])
  BY <1>4 DEF NamedRight, s
<1>6. t # <<>> /\ t[1] \in Names => Val(e).class.own /\ Nearest(Val(e).class.name, t[1])
  <2>1. CASE t = s
    BY <1>5, <2>1
  <2>2. CASE t # s /\ s # <<>>
    <3>1. t[1] = s[1]
      BY <1>2, <1>3, <2>2
    <3>2. QED BY <1>5, <2>2, <3>1
  <2>3. CASE t # s /\ s = <<>>
    <3>1. t[1] = w /\ w \in Notes /\ w \notin Places
      BY <1>2, <2>3
    <3>2. CASE role[e] = "temp"
      BY <1>4, <3>1, <3>2 DEF AddsRight, w
    <3>3. CASE role[e] # "temp"
      BY <1>4, <3>1, <3>3, ExceptionInfoAssumption DEF AddsRight, w
    <3>4. QED BY <3>2, <3>3
  <2>4. QED BY <2>1, <2>2, <2>3
<1>7. NamedRight(Val(e)')
  BY <1>3, <1>6 DEF NamedRight, t
<1>8. AddsRight(e)' /\ Settled(e)'
  BY <1>1 DEF AddsRight, Settled, Changing, Committed, Dropping, Resting
<1>9. Obeys(e)'
  BY <1>7, <1>8 DEF Obeys, NamedRight
<1>10. \A x \in Objects \ {e} : Obeys(x)'
  BY <1>1, <1>2, ApartObeys
<1>11. QED BY <1>9, <1>10 DEF RethrowInv

LEMMA FailObeys ==
  ASSUME IInv, RethrowInv, NEW e \in Objects, Fail(e)
  PROVE  RethrowInv'
<1>1. stage[e] \in {"ensure", "clone", "write"} /\ UNCHANGED block
  BY DEF Fail
<1>2. \A x \in Objects \ {e} : todo'[x] = todo[x]
  BY DEF IInv, TypeOK, Fail
<1>3. CASE role[e] # "kept"
  BY <1>1, <1>2, <1>3, EndsObeys DEF Fail
<1>4. CASE role[e] = "kept"
  <2>1. stage' = [stage EXCEPT ![e] = "idle"] /\ UNCHANGED <<after, info>>
    BY <1>4 DEF Fail, Become
  <2>2. class' = class /\ role' = role
    BY <1>4 DEF IInv, TypeOK, Fail, Become
  <2>3. UNCHANGED Value
    BY <1>1, <2>1, <2>2, StageShows
  <2>4. stage'[e] = "idle" /\ \A x \in Objects \ {e} : Apart(x)
    BY <1>2, <2>1, <2>2 DEF IInv, TypeOK, Apart
  <2>5. ~Changing(e)' /\ role'[e] # "temp"
    BY <1>4, <2>2, <2>4 DEF Changing, Committed, Dropping
  <2>6. QED BY <2>3, <2>4, <2>5, HiddenObeys
<1>5. QED BY <1>3, <1>4
-----------------------------------------------------------------------------
LEMMA RethrowInductive == IInv /\ RethrowInv /\ [Next]_vars => RethrowInv'
<1>1. SUFFICES ASSUME IInv, RethrowInv, [Next]_vars PROVE RethrowInv'
  OBVIOUS
<1>2. CASE UNCHANGED vars
  <2>1. Live' = Live /\ \A x \in Live : Val(x)' = Val(x)
    BY <1>2 DEF vars, Live, Gone, Val, Carries
  <2>2. \A x \in Objects : Apart(x)
    BY <1>2 DEF vars, Apart
  <2>3. QED BY <1>1, <2>1, <2>2, ApartObeys DEF RethrowInv
<1>3. ASSUME NEW e \in Objects, Use(e) PROVE RethrowInv'
  <2>1. ASSUME NEW c \in Thrown, ThrowForeign(e, c) PROVE RethrowInv'
    <3>1. New(e, [name |-> c, own |-> FALSE], "kept", None, "idle")
      BY <2>1 DEF ThrowForeign
    <3>2. [name |-> c, own |-> FALSE] \in Class
      BY ThrownClasses, ExceptionInfoAssumption
    <3>3. QED BY <1>1, <3>1, <3>2, NewObeys
  <2>2. ASSUME NEW c \in Thrown, NEW p \in Places, GetException(e, c, p) PROVE RethrowInv'
    <3>1. New(e, [name |-> c, own |-> TRUE], "made", p, "ensure")
      BY <2>2 DEF GetException
    <3>2. [name |-> c, own |-> TRUE] \in Class
      BY ThrownClasses, ExceptionInfoAssumption
    <3>3. QED BY <1>1, <3>1, <3>2, NewObeys
  <2>3. ASSUME NEW what \in Infos \cup Places, Start(e, what) PROVE RethrowInv'
    BY <1>1, <2>3, StartObeys
  <2>4. ASSUME Destroy(e) PROVE RethrowInv'
    BY <1>1, <2>4, EndsObeys DEF Destroy
  <2>5. QED BY <1>3, <2>1, <2>2, <2>3, <2>4 DEF Use, AddInfo, AddLocation
<1>4. ASSUME NEW e \in Objects, NEW f \in Objects, Exchange(e, f) PROVE RethrowInv'
  <2>1. ASSUME Copy(e, f) PROVE RethrowInv'
    <3>1. /\ CopyTo(e, f) /\ stage[e] = "idle" /\ UNCHANGED <<after, todo, old, heap, block>>
          /\ stage' = [stage EXCEPT ![e] = "idle", ![f] = "idle"]
      BY <1>1, <2>1 DEF Copy, IInv, TypeOK
    <3>2. QED BY <1>1, <3>1, CopyToObeys
  <2>2. ASSUME ThrowTemp(e, f) PROVE RethrowInv'
    BY <1>1, <2>2, CopyToObeys DEF ThrowTemp
  <2>3. ASSUME Rethrow(e, f) PROVE RethrowInv'
    <3>1. class[e].name \in Names
      BY <1>1 DEF IInv, TypeOK, Class
    <3>2. PICK c \in Caught(class[e].name) :
            New(f, [name |-> c, own |-> TRUE], "temp", class[e].name, "ensure")
      BY <2>3 DEF Rethrow
    <3>3. [name |-> c, own |-> TRUE] \in Class
      BY <3>1, CaughtAreNames DEF Class
    <3>4. Nearest(c, class[e].name)
      BY <3>1, CaughtIsNearest
    <3>5. QED BY <1>1, <3>1, <3>2, <3>3, <3>4, NewObeys
  <2>4. QED BY <1>1, <1>4, <2>1, <2>2, <2>3, AssignObeys DEF Exchange
<1>5. ASSUME NEW e \in Objects, Advance(e) PROVE RethrowInv'
  <2>1. ASSUME DropTemp(e) PROVE RethrowInv'
    BY <1>1, <2>1, EndsObeys DEF DropTemp
  <2>2. QED BY <1>1, <1>5, <2>1, EnsureObeys, WriteObeys, FailObeys, ReleaseObeys DEF Advance
<1>6. QED BY <1>1, <1>2, <1>3, <1>4, <1>5 DEF Next

\* RethrowException() throws for each class of the standard library one of the nearest class
\* that the handlers list, and an exception that has the name of the original class as its
\* first info is of that class, however it was copied, assigned and changed since.
THEOREM RethrownRight == Spec => []RethrownAsNearest
<1>1. Init => RethrowInv
  BY DEF Init, RethrowInv, Obeys, Live, Gone
<1>2. RethrowInv => RethrownAsNearest
  <2>1. SUFFICES ASSUME RethrowInv, NEW e \in Objects, ~Gone(e)
                 PROVE  LET infos == Carries(e).infos IN
                          infos # <<>> /\ infos[1] \in Names =>
                            class[e].own /\ Nearest(class[e].name, infos[1])
    BY CaughtIsNearest DEF RethrownAsNearest
  <2>2. NamedRight(Val(e)) /\ Val(e).class = class[e] /\ Val(e).carries = Carries(e)
    BY <2>1 DEF RethrowInv, Obeys, Live, Val
  <2>3. QED BY <2>2 DEF NamedRight
<1>3. QED BY <1>1, <1>2, RethrowInductive, Inductive, PTL DEF Spec
=============================================================================
