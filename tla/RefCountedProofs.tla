-------------------------- MODULE RefCountedProofs --------------------------
(***************************************************************************)
(* The counters of RefCounted are right for any number of threads, objects *)
(* and handles.  IInv is the inductive invariant: the counts, who may      *)
(* still be pointed at, and what a LockWeak in progress may rely on.       *)
(***************************************************************************)
EXTENDS RefCountedProps, FiniteSetTheorems, TLAPS

\* A LockWeak in progress owns the weak pointer it works on and the variable
\* its result goes to, which no other LockWeak has.
LockInv ==
  \A t \in Threads : lock[t] # Null =>
    /\ OwnsWeak(t, lock[t].from)
    /\ ref[lock[t].to] = Null
    /\ \A u \in Threads \ {t} : lock[u] # Null => lock[u].to # lock[t].to

\* Only the payload of a dying stack object may still point at it.
StackHolderInv ==
  \A o \in Objects : phase[o] = "stack_disposing" =>
    \A w \in WeakHandles(o) : ref[w].owner = o /\ o \in Contained

IInv == TypeOK /\ CountsMatch /\ AliveWhileHeld /\ LockInv /\ StackHolderInv

\* The handles of an object are finitely many: their number is a counter value.
LEMMA CountsAreNat ==
  ASSUME NEW o \in Objects
  PROVE  /\ IsFiniteSet(StrongHandles(o)) /\ Cardinality(StrongHandles(o)) \in Nat
         /\ IsFiniteSet(WeakHandles(o)) /\ Cardinality(WeakHandles(o)) \in Nat
<1>1. StrongHandles(o) \in SUBSET Handles /\ WeakHandles(o) \in SUBSET Handles
  BY DEF StrongHandles, WeakHandles
<1>2. IsFiniteSet(StrongHandles(o)) /\ IsFiniteSet(WeakHandles(o))
  BY <1>1, FS_Subset, ConstantsAssumption
<1>3. QED BY <1>2, FS_CardinalityType

\* A pointer that is set counts one more for its object and kind, none elsewhere.
LEMMA SetHandle ==
  ASSUME NEW h \in Handles, NEW kind \in {"strong", "weak", "stack"},
         NEW obj \in Objects, NEW owner \in Owners, TypeOK, ref[h] = Null,
         ref' = [ref EXCEPT ![h] = [kind |-> kind, obj |-> obj, owner |-> owner]]
  PROVE  \A o \in Objects :
           /\ Cardinality(StrongHandles(o))' = Cardinality(StrongHandles(o))
                + (IF kind # "weak" /\ obj = o THEN 1 ELSE 0)
           /\ Cardinality(WeakHandles(o))' = Cardinality(WeakHandles(o))
                + (IF kind = "weak" /\ obj = o THEN 1 ELSE 0)
<1> SUFFICES ASSUME NEW o \in Objects
             PROVE  /\ Cardinality(StrongHandles(o))' = Cardinality(StrongHandles(o))
                         + (IF kind # "weak" /\ obj = o THEN 1 ELSE 0)
                    /\ Cardinality(WeakHandles(o))' = Cardinality(WeakHandles(o))
                         + (IF kind = "weak" /\ obj = o THEN 1 ELSE 0)
  OBVIOUS
<1>0. [kind |-> kind, obj |-> obj, owner |-> owner] # Null
  BY ConstantsAssumption DEF Owners
<1>1. StrongHandles(o)' = IF kind # "weak" /\ obj = o
                          THEN StrongHandles(o) \cup {h} ELSE StrongHandles(o)
  BY <1>0 DEF StrongHandles, TypeOK
<1>2. WeakHandles(o)' = IF kind = "weak" /\ obj = o
                        THEN WeakHandles(o) \cup {h} ELSE WeakHandles(o)
  BY <1>0 DEF WeakHandles, TypeOK
<1>3. h \notin StrongHandles(o) /\ h \notin WeakHandles(o)
  BY DEF StrongHandles, WeakHandles
<1>4. /\ Cardinality(StrongHandles(o) \cup {h}) = Cardinality(StrongHandles(o)) + 1
      /\ Cardinality(WeakHandles(o) \cup {h}) = Cardinality(WeakHandles(o)) + 1
  BY <1>3, CountsAreNat, FS_AddElement
<1>5. QED BY <1>1, <1>2, <1>4, CountsAreNat

\* A pointer that is emptied counts one less for its object and kind.
LEMMA ClearHandle ==
  ASSUME NEW h \in Handles, TypeOK,
         ref[h] # Null, ref' = [ref EXCEPT ![h] = Null]
  PROVE  \A o \in Objects :
           /\ Cardinality(StrongHandles(o))' = Cardinality(StrongHandles(o))
                - (IF ref[h].kind # "weak" /\ ref[h].obj = o THEN 1 ELSE 0)
           /\ Cardinality(WeakHandles(o))' = Cardinality(WeakHandles(o))
                - (IF ref[h].kind = "weak" /\ ref[h].obj = o THEN 1 ELSE 0)
<1> SUFFICES ASSUME NEW o \in Objects
             PROVE  /\ Cardinality(StrongHandles(o))' = Cardinality(StrongHandles(o))
                         - (IF ref[h].kind # "weak" /\ ref[h].obj = o THEN 1 ELSE 0)
                    /\ Cardinality(WeakHandles(o))' = Cardinality(WeakHandles(o))
                         - (IF ref[h].kind = "weak" /\ ref[h].obj = o THEN 1 ELSE 0)
  OBVIOUS
<1>1. StrongHandles(o)' = StrongHandles(o) \ {h} /\ WeakHandles(o)' = WeakHandles(o) \ {h}
  BY DEF StrongHandles, WeakHandles, TypeOK
<1>2. /\ h \in StrongHandles(o) <=> ref[h].kind # "weak" /\ ref[h].obj = o
      /\ h \in WeakHandles(o) <=> ref[h].kind = "weak" /\ ref[h].obj = o
  BY DEF StrongHandles, WeakHandles
<1>3. /\ Cardinality(StrongHandles(o) \ {h})
           = IF h \in StrongHandles(o) THEN Cardinality(StrongHandles(o)) - 1
                                       ELSE Cardinality(StrongHandles(o))
      /\ Cardinality(WeakHandles(o) \ {h})
           = IF h \in WeakHandles(o) THEN Cardinality(WeakHandles(o)) - 1
                                     ELSE Cardinality(WeakHandles(o))
  BY CountsAreNat, FS_RemoveElement
<1>4. QED BY <1>1, <1>2, <1>3, CountsAreNat

\* What a handle in use tells about its object: the counts are current, the
\* handle is among those counted, and it is the only one if the count is one.
LEMMA HandleCounts ==
  ASSUME IInv, NEW h \in Handles, ref[h] # Null
  PROVE  LET o == ref[h].obj IN
         /\ o \in Objects
         /\ strong[o] = Cardinality(StrongHandles(o))
         /\ weak[o] = Cardinality(WeakHandles(o)) + ImplicitWeak(o)
         /\ ref[h].kind # "weak" => strong[o] >= 1 /\ (strong[o] = 1 => StrongHandles(o) = {h})
         /\ ref[h].kind = "weak" =>
              /\ Cardinality(WeakHandles(o)) >= 1
              /\ Cardinality(WeakHandles(o)) = 1 => WeakHandles(o) = {h}
<1> DEFINE o == ref[h].obj
<1>1. o \in Objects
  BY DEF IInv, TypeOK, Refs
<1>2. phase[o] \notin {"deleting", "freed"}
  BY DEF IInv, AliveWhileHeld
<1>3. strong[o] = Cardinality(StrongHandles(o)) /\ weak[o] = Cardinality(WeakHandles(o)) + ImplicitWeak(o)
  BY <1>1, <1>2 DEF IInv, CountsMatch
<1>4. /\ ref[h].kind # "weak" => h \in StrongHandles(o)
      /\ ref[h].kind = "weak" => h \in WeakHandles(o)
  BY DEF StrongHandles, WeakHandles
<1>5. \A S : IsFiniteSet(S) /\ h \in S => Cardinality(S) >= 1 /\ (Cardinality(S) = 1 => S = {h})
  <2> SUFFICES ASSUME NEW S, IsFiniteSet(S), h \in S
               PROVE  Cardinality(S) >= 1 /\ (Cardinality(S) = 1 => S = {h})
    OBVIOUS
  <2>1. Cardinality(S) \in Nat /\ Cardinality(S) # 0
    BY FS_CardinalityType, FS_EmptySet
  <2>2. Cardinality(S) = 1 => \E x : S = {x}
    BY FS_Singleton
  <2>3. QED BY <2>1, <2>2
<1>6. QED BY <1>1, <1>3, <1>4, <1>5, CountsAreNat
-----------------------------------------------------------------------------
\* The inductive step, one lemma for each action that sets or clears a pointer.
LEMMA MakeStep ==
  ASSUME IInv, NEW t \in Threads, NEW o \in Objects, NEW h \in Handles,
         NEW kind \in {"strong", "stack"}, Make(t, o, h, kind)
  PROVE  IInv'
<1> DEFINE r == [kind |-> kind, obj |-> o, owner |-> t]
<1>0. r \in Refs /\ r # Null
  BY ConstantsAssumption DEF Refs, Owners
<1>1. \A x \in Objects :
        /\ Cardinality(StrongHandles(x))' = Cardinality(StrongHandles(x)) + (IF x = o THEN 1 ELSE 0)
        /\ Cardinality(WeakHandles(x))' = Cardinality(WeakHandles(x))
  <2>1. ref[h] = Null /\ ref' = [ref EXCEPT ![h] = r] /\ TypeOK /\ t \in Owners /\ kind # "weak"
    BY DEF Make, IsFree, IInv, Owners
  <2>2. \A x \in Objects :
          /\ Cardinality(StrongHandles(x))' = Cardinality(StrongHandles(x))
               + (IF kind # "weak" /\ o = x THEN 1 ELSE 0)
          /\ Cardinality(WeakHandles(x))' = Cardinality(WeakHandles(x))
               + (IF kind = "weak" /\ o = x THEN 1 ELSE 0)
    BY <2>1, SetHandle
  <2>3. QED BY <2>1, <2>2, CountsAreNat
<1>2. TypeOK'
  BY <1>0 DEF IInv, TypeOK, Make, Phases
<1>3. Cardinality(StrongHandles(o)) = 0 /\ Cardinality(WeakHandles(o)) = 0
  <2>1. StrongHandles(o) = {} /\ WeakHandles(o) = {}
    BY DEF IInv, AliveWhileHeld, Make, StrongHandles, WeakHandles
  <2>2. QED BY <2>1, FS_EmptySet
<1>4. CountsMatch'
  <2> SUFFICES ASSUME NEW x \in Objects, phase'[x] \notin {"deleting", "freed"}
               PROVE  /\ strong'[x] = Cardinality(StrongHandles(x))'
                      /\ weak'[x] = Cardinality(WeakHandles(x))' + ImplicitWeak(x)'
    BY DEF CountsMatch
  <2>1. CASE x = o
    BY <2>1, <1>1, <1>3 DEF IInv, TypeOK, Make, ImplicitWeak
  <2>2. CASE x # o
    BY <2>2, <1>1 DEF IInv, TypeOK, CountsMatch, Make, ImplicitWeak
  <2>3. QED BY <2>1, <2>2
<1>5. AliveWhileHeld'
  BY <1>0 DEF IInv, TypeOK, AliveWhileHeld, Make
<1>6. LockInv'
  BY <1>0 DEF IInv, TypeOK, LockInv, Make, IsFree, OwnsWeak, Owns, Idle, Locks
<1>7. StackHolderInv'
  BY <1>0 DEF IInv, TypeOK, StackHolderInv, Make, WeakHandles
<1>8. QED BY <1>2, <1>4, <1>5, <1>6, <1>7 DEF IInv

LEMMA CopyStep ==
  ASSUME IInv, NEW t \in Threads, NEW g \in Handles, NEW h \in Handles, Copy(t, g, h)
  PROVE  IInv'
<1> DEFINE o == ref[g].obj
           r == [kind |-> "strong", obj |-> o, owner |-> t]
<1>0. o \in Objects /\ r \in Refs /\ r # Null /\ phase[o] = "live" /\ ref[h] = Null /\ TypeOK
  BY ConstantsAssumption DEF IInv, TypeOK, AliveWhileHeld, Copy, OwnsStrong, Owns, IsFree, Refs, Owners
<1>1. \A x \in Objects :
        /\ Cardinality(StrongHandles(x))' = Cardinality(StrongHandles(x)) + (IF x = o THEN 1 ELSE 0)
        /\ Cardinality(WeakHandles(x))' = Cardinality(WeakHandles(x))
  <2>1. ref' = [ref EXCEPT ![h] = [kind |-> "strong", obj |-> o, owner |-> t]] /\ t \in Owners
    BY DEF Copy, Owners
  <2>2. \A x \in Objects :
          /\ Cardinality(StrongHandles(x))' = Cardinality(StrongHandles(x)) + (IF o = x THEN 1 ELSE 0)
          /\ Cardinality(WeakHandles(x))' = Cardinality(WeakHandles(x)) + 0
    BY <1>0, <2>1, SetHandle, ZenonT(40)
  <2>3. QED BY <2>2, CountsAreNat
<1>2. TypeOK'
  BY <1>0 DEF TypeOK, Copy
<1>3. CountsMatch'
  BY <1>0, <1>1, CountsAreNat DEF IInv, TypeOK, CountsMatch, Copy, ImplicitWeak
<1>4. AliveWhileHeld'
  BY <1>0 DEF IInv, TypeOK, AliveWhileHeld, Copy
<1>5. LockInv'
  BY <1>0 DEF IInv, TypeOK, LockInv, Copy, IsFree, OwnsWeak, Owns, Idle, Locks
<1>6. StackHolderInv'
  BY <1>0 DEF IInv, TypeOK, StackHolderInv, Copy, WeakHandles
<1>7. QED BY <1>2, <1>3, <1>4, <1>5, <1>6 DEF IInv

LEMMA MakeWeakStep ==
  ASSUME IInv, NEW t \in Threads, NEW g \in Handles, NEW h \in Handles, MakeWeak(t, g, h)
  PROVE  IInv'
<1> DEFINE o == ref[g].obj
           r == [kind |-> "weak", obj |-> o, owner |-> t]
<1>0. o \in Objects /\ r \in Refs /\ r # Null /\ ref[h] = Null /\ TypeOK
  BY ConstantsAssumption DEF IInv, TypeOK, MakeWeak, Owns, IsFree, Refs, Owners
<1>a. phase[o] \notin {"none", "deleting", "freed", "stack_disposing"}
  \* the payload of a dying stack object belongs to the object, not to a thread
  BY <1>0, ConstantsAssumption DEF IInv, AliveWhileHeld, StackHolderInv, MakeWeak, Owns, WeakHandles
<1>1. \A x \in Objects :
        /\ Cardinality(StrongHandles(x))' = Cardinality(StrongHandles(x))
        /\ Cardinality(WeakHandles(x))' = Cardinality(WeakHandles(x)) + (IF x = o THEN 1 ELSE 0)
  <2>1. ref' = [ref EXCEPT ![h] = [kind |-> "weak", obj |-> o, owner |-> t]] /\ t \in Owners
    BY DEF MakeWeak, Owners
  <2>2. \A x \in Objects :
          /\ Cardinality(StrongHandles(x))' = Cardinality(StrongHandles(x)) + 0
          /\ Cardinality(WeakHandles(x))' = Cardinality(WeakHandles(x)) + (IF o = x THEN 1 ELSE 0)
    BY <1>0, <2>1, SetHandle
  <2>3. QED BY <2>2, CountsAreNat
<1>2. TypeOK'
  BY <1>0 DEF TypeOK, MakeWeak
<1>3. CountsMatch'
  BY <1>0, <1>1, CountsAreNat DEF IInv, TypeOK, CountsMatch, MakeWeak, ImplicitWeak
<1>4. AliveWhileHeld'
  BY <1>0, <1>a DEF IInv, TypeOK, AliveWhileHeld, MakeWeak
<1>5. LockInv'
  BY <1>0 DEF IInv, TypeOK, LockInv, MakeWeak, IsFree, OwnsWeak, Owns, Idle, Locks
<1>6. StackHolderInv'
  BY <1>0, <1>a DEF IInv, TypeOK, StackHolderInv, MakeWeak, WeakHandles
<1>7. QED BY <1>2, <1>3, <1>4, <1>5, <1>6 DEF IInv

LEMMA MoveStep ==
  ASSUME IInv, NEW t \in Threads, NEW h \in Handles, NEW new \in Owners, Move(t, h, new)
  PROVE  IInv'
<1>0. /\ TypeOK /\ ref[h] \in Refs /\ ref[h] # Null /\ ref[h].owner = t
      /\ ref' = [ref EXCEPT ![h] = [ref[h] EXCEPT !.owner = new]]
  BY DEF IInv, TypeOK, Move, Owns
<1>a. ref'[h] \in Refs /\ ref'[h] # Null /\ ref'[h].kind = ref[h].kind /\ ref'[h].obj = ref[h].obj
  BY <1>0, ConstantsAssumption DEF Refs, Owners, TypeOK
<1>1. \A x \in Objects : StrongHandles(x)' = StrongHandles(x) /\ WeakHandles(x)' = WeakHandles(x)
  BY <1>0, <1>a DEF TypeOK, StrongHandles, WeakHandles
<1>2. TypeOK'
  BY <1>0, <1>a DEF TypeOK, Move
<1>3. CountsMatch'
  BY <1>0, <1>1 DEF IInv, CountsMatch, Move, ImplicitWeak
<1>4. AliveWhileHeld'
  BY <1>0, <1>a DEF IInv, TypeOK, AliveWhileHeld, Move
<1>5. LockInv'
  BY <1>0, <1>a DEF IInv, TypeOK, LockInv, Move, OwnsWeak, Owns, Idle, Locks
<1>6. StackHolderInv'
  <2>1. \A o \in Objects : phase[o] = "stack_disposing" => h \notin WeakHandles(o)
    BY <1>0, ConstantsAssumption DEF IInv, StackHolderInv
  <2>2. QED BY <1>0, <1>1, <2>1 DEF IInv, TypeOK, StackHolderInv, Move, WeakHandles
<1>7. QED BY <1>2, <1>3, <1>4, <1>5, <1>6 DEF IInv

\* The release of a pointer that no LockWeak is working on.
LEMMA ReleaseStep ==
  ASSUME IInv, NEW t \in Threads, NEW h \in Handles, ref[h] # Null, Release(t, h),
         \A u \in Threads : lock[u] # Null => lock[u].from # h
  PROVE  IInv'
<1> DEFINE o == ref[h].obj
<1>0. /\ TypeOK /\ o \in Objects /\ ref[h] \in Refs
      /\ ref' = [ref EXCEPT ![h] = Null] /\ lock' = lock
  BY DEF IInv, TypeOK, Release, Refs
<1>1. \A x \in Objects :
        /\ Cardinality(StrongHandles(x))' = Cardinality(StrongHandles(x))
             - (IF ref[h].kind # "weak" /\ x = o THEN 1 ELSE 0)
        /\ Cardinality(WeakHandles(x))' = Cardinality(WeakHandles(x))
             - (IF ref[h].kind = "weak" /\ x = o THEN 1 ELSE 0)
  BY <1>0, ClearHandle
<1>a. /\ strong[o] = Cardinality(StrongHandles(o))
      /\ weak[o] = Cardinality(WeakHandles(o)) + ImplicitWeak(o)
      /\ ref[h].kind # "weak" => strong[o] >= 1 /\ (strong[o] = 1 => StrongHandles(o) = {h})
      /\ ref[h].kind = "weak" =>
           /\ Cardinality(WeakHandles(o)) >= 1
           /\ Cardinality(WeakHandles(o)) = 1 => WeakHandles(o) = {h}
  BY HandleCounts
<1>b. LockInv'
  BY <1>0 DEF IInv, TypeOK, LockInv, OwnsWeak, Owns, Locks
<1>c. <<o>> \o stack[t] \in Seq(Objects)
  BY <1>0 DEF TypeOK
<1>2. CASE ref[h].kind = "strong" /\ RemoveRef(t, o)
  <2>0. phase[o] = "live" /\ strong[o] \in Nat
    BY <1>0, <1>2 DEF IInv, AliveWhileHeld, TypeOK
  <2>1. TypeOK'
    <3>1. strong' \in [Objects -> Nat] /\ weak' = weak
      BY <1>0, <1>2, <1>a, <2>0 DEF TypeOK, RemoveRef
    <3>2. phase' \in [Objects -> Phases]
      BY <1>0, <1>2 DEF TypeOK, RemoveRef, Phases
    <3>3. stack' \in [Threads -> Seq(Objects)]
      <4> DEFINE s == <<o>> \o stack[t]
      <4>1. stack' = [stack EXCEPT ![t] = s] \/ stack' = stack
        BY <1>2 DEF RemoveRef
      <4>2. s \in Seq(Objects)
        BY <1>c
      <4> HIDE DEF s
      <4>3. QED BY <1>0, <4>1, <4>2 DEF TypeOK
    <3>4. QED BY <1>0, <3>1, <3>2, <3>3 DEF TypeOK
  <2>2. CountsMatch'
    BY <1>0, <1>1, <1>2, <1>a, <2>0, CountsAreNat
       DEF IInv, TypeOK, CountsMatch, RemoveRef, ImplicitWeak
  <2>3. AliveWhileHeld'
    <3>1. strong[o] = 1 => \A g \in Handles \ {h} :
            ref[g] # Null /\ ref[g].obj = o => ref[g].kind = "weak"
      BY <1>2, <1>a DEF StrongHandles
    <3>2. phase' = IF strong[o] = 1 THEN [phase EXCEPT ![o] = "disposing"] ELSE phase
      BY <1>2 DEF RemoveRef
    <3>3. QED BY <1>0, <2>0, <3>1, <3>2 DEF IInv, TypeOK, AliveWhileHeld
  <2>4. StackHolderInv'
    BY <1>0, <1>2 DEF IInv, TypeOK, StackHolderInv, RemoveRef, WeakHandles
  <2>5. QED BY <1>b, <2>1, <2>2, <2>3, <2>4 DEF IInv
<1>3. CASE ref[h].kind = "weak" /\ RemoveWeakRef(t, o)
  <2>0. /\ phase[o] \notin {"none", "deleting", "freed"}
        /\ weak[o] \in Nat /\ weak[o] >= 1
        /\ weak[o] = 1 => ImplicitWeak(o) = 0 /\ WeakHandles(o) = {h}
    BY <1>0, <1>3, <1>a, CountsAreNat DEF IInv, AliveWhileHeld, TypeOK, ImplicitWeak
  <2>1. TypeOK'
    <3>1. weak' \in [Objects -> Nat] /\ strong' = strong
      BY <1>0, <1>3, <2>0 DEF TypeOK, RemoveWeakRef
    <3>2. phase' \in [Objects -> Phases]
      BY <1>0, <1>3 DEF TypeOK, RemoveWeakRef, Phases
    <3>3. stack' \in [Threads -> Seq(Objects)]
      <4> DEFINE s == <<o>> \o stack[t]
      <4>1. stack' = [stack EXCEPT ![t] = s] \/ stack' = stack
        BY <1>3 DEF RemoveWeakRef
      <4>2. s \in Seq(Objects)
        BY <1>c
      <4> HIDE DEF s
      <4>3. QED BY <1>0, <4>1, <4>2 DEF TypeOK
    <3>4. QED BY <1>0, <3>1, <3>2, <3>3 DEF TypeOK
  <2>2. CountsMatch'
    BY <1>0, <1>1, <1>3, <1>a, <2>0, CountsAreNat, SMTT(30)
       DEF IInv, TypeOK, CountsMatch, RemoveWeakRef, ImplicitWeak
  <2>3. AliveWhileHeld'
    <3>1. weak[o] = 1 => phase[o] = "disposed"
      BY <1>0, <2>0 DEF IInv, TypeOK, Phases, ImplicitWeak
    <3>2. weak[o] = 1 => \A g \in Handles \ {h} : ref[g] # Null => ref[g].obj # o
      BY <2>0, <3>1 DEF IInv, AliveWhileHeld, WeakHandles
    <3>3. phase' = IF weak[o] = 1 THEN [phase EXCEPT ![o] = "deleting"] ELSE phase
      BY <1>3 DEF RemoveWeakRef
    <3>4. QED BY <1>0, <2>0, <3>2, <3>3 DEF IInv, TypeOK, AliveWhileHeld
  <2>4. StackHolderInv'
    BY <1>0, <1>3 DEF IInv, TypeOK, StackHolderInv, RemoveWeakRef, WeakHandles
  <2>5. QED BY <1>b, <2>1, <2>2, <2>3, <2>4 DEF IInv
<1>4. QED BY <1>2, <1>3 DEF Release

LEMMA DropStep ==
  ASSUME IInv, NEW t \in Threads, NEW h \in Handles, Drop(t, h)
  PROVE  IInv'
<1>1. ref[h] # Null /\ \A u \in Threads : lock[u] # Null => lock[u].from # h
  BY DEF IInv, LockInv, Drop, Owns, OwnsWeak, Idle
<1>2. QED BY <1>1, ReleaseStep DEF Drop

LEMMA ReleaseMemberStep ==
  ASSUME IInv, NEW t \in Threads, ReleaseMember(t)
  PROVE  IInv'
<1>1. PICK h \in Members(Top(t)) : Release(t, h)
  BY DEF ReleaseMember
<1>2. h \in Handles /\ ref[h] # Null /\ ref[h].owner = Top(t)
  BY <1>1 DEF Members
<1>3. Top(t) \in Objects
  BY DEF ReleaseMember, Destroying, Top, IInv, TypeOK
<1>4. \A u \in Threads : lock[u] # Null => lock[u].from # h
  BY <1>2, <1>3, ConstantsAssumption DEF IInv, LockInv, OwnsWeak, Owns
<1>5. QED BY <1>1, <1>2, <1>4, ReleaseStep

LEMMA DropStackHolderStep ==
  ASSUME IInv, NEW t \in Threads, NEW h \in Handles, DropStackHolder(t, h)
  PROVE  IInv'
<1> DEFINE o == ref[h].obj
<1>0. /\ TypeOK /\ o \in Objects /\ ref[h] \in Refs /\ ref[h] # Null /\ ref[h].kind = "stack"
      /\ ref' = [ref EXCEPT ![h] = Null] /\ phase[o] = "live" /\ strong[o] \in Nat
  BY DEF IInv, TypeOK, AliveWhileHeld, DropStackHolder, Owns, Refs
<1>1. \A x \in Objects :
        /\ Cardinality(StrongHandles(x))' = Cardinality(StrongHandles(x)) - (IF x = o THEN 1 ELSE 0)
        /\ Cardinality(WeakHandles(x))' = Cardinality(WeakHandles(x))
  <2>1. \A x \in Objects :
          /\ Cardinality(StrongHandles(x))' = Cardinality(StrongHandles(x)) - (IF o = x THEN 1 ELSE 0)
          /\ Cardinality(WeakHandles(x))' = Cardinality(WeakHandles(x)) - 0
    BY <1>0, ClearHandle
  <2>2. QED BY <2>1, CountsAreNat
<1>2. strong[o] = Cardinality(StrongHandles(o)) /\ strong[o] >= 1
  BY <1>0, HandleCounts
<1>3. TypeOK'
  BY <1>0, <1>2 DEF TypeOK, DropStackHolder, Phases
<1>4. CountsMatch'
  BY <1>0, <1>1, <1>2 DEF IInv, TypeOK, CountsMatch, DropStackHolder, ImplicitWeak
<1>5. AliveWhileHeld'
  <2>1. \A g \in Handles \ {h} : ref[g] # Null /\ ref[g].obj = o => ref[g].kind = "weak"
    BY DEF DropStackHolder, StrongHandles
  <2>2. QED BY <1>0, <2>1 DEF IInv, TypeOK, AliveWhileHeld, DropStackHolder
<1>6. LockInv'
  BY <1>0 DEF IInv, TypeOK, LockInv, DropStackHolder, OwnsWeak, Owns, Locks
<1>7. StackHolderInv'
  BY <1>0 DEF IInv, TypeOK, StackHolderInv, DropStackHolder, WeakHandles
<1>8. QED BY <1>3, <1>4, <1>5, <1>6, <1>7 DEF IInv

\* The steps of a teardown and of LockWeak that touch no pointer.
LEMMA DisposedStep ==
  ASSUME IInv, NEW t \in Threads, Disposed(t)
  PROVE  IInv'
<1> DEFINE o == Top(t)
           after == IF weak[o] = 1 THEN "deleting" ELSE "disposed"
<1>c. TypeOK /\ o \in Objects
  BY DEF IInv, TypeOK, Disposed, MembersDone, Destroying, Top
<1>d. /\ phase[o] = "disposing" /\ ref' = ref /\ lock' = lock /\ strong' = strong
      /\ weak' = [weak EXCEPT ![o] = weak[o] - 1]
      /\ phase' = [phase EXCEPT ![o] = after]
  BY <1>c DEF TypeOK, Disposed
<1>0. /\ TypeOK /\ o \in Objects /\ phase[o] = "disposing" /\ ref' = ref /\ lock' = lock
      /\ weak[o] = Cardinality(WeakHandles(o)) + 1 /\ strong' = strong
      /\ strong[o] = Cardinality(StrongHandles(o))
      /\ weak' = [weak EXCEPT ![o] = weak[o] - 1]
      /\ phase' = [phase EXCEPT ![o] = after]
  BY <1>c, <1>d DEF IInv, CountsMatch, ImplicitWeak
<1>a. weak[o] - 1 \in Nat /\ after \in {"deleting", "disposed"}
      /\ (after = "deleting" <=> weak[o] = 1)
  BY <1>0, CountsAreNat
<1>b. stack' \in [Threads -> Seq(Objects)]
  <2>1. Tail(stack[t]) \in Seq(Objects)
    BY DEF IInv, TypeOK, Disposed, MembersDone, Destroying
  <2>2. stack' = stack \/ stack' = [stack EXCEPT ![t] = Tail(stack[t])]
    BY DEF Disposed
  <2>3. QED BY <1>0, <2>1, <2>2 DEF TypeOK
<1> HIDE DEF o, after
<1>1. \A x \in Objects : StrongHandles(x)' = StrongHandles(x) /\ WeakHandles(x)' = WeakHandles(x)
  BY <1>0 DEF StrongHandles, WeakHandles
<1>2. TypeOK'
  BY <1>0, <1>a, <1>b DEF TypeOK, Phases
<1>3. CountsMatch'
  <2> SUFFICES ASSUME NEW x \in Objects, phase'[x] \notin {"deleting", "freed"}
               PROVE  /\ strong'[x] = Cardinality(StrongHandles(x))'
                      /\ weak'[x] = Cardinality(WeakHandles(x))' + ImplicitWeak(x)'
    BY DEF CountsMatch
  <2>1. CASE x = o
    <3>1. phase'[x] = after /\ after = "disposed" /\ weak'[x] = weak[x] - 1
      BY <2>1, <1>0, <1>a DEF TypeOK
    <3>2. ImplicitWeak(x)' = 0
      BY <3>1 DEF ImplicitWeak
    <3>3. QED BY <2>1, <3>1, <3>2, <1>0, <1>1, CountsAreNat
  <2>2. CASE x # o
    BY <2>2, <1>0, <1>1 DEF IInv, TypeOK, CountsMatch, ImplicitWeak
  <2>3. QED BY <2>1, <2>2
<1>4. AliveWhileHeld'
  <2>1. weak[o] = 1 => WeakHandles(o) = {}
    BY <1>0, CountsAreNat, FS_EmptySet
  <2>2. weak[o] = 1 => \A h \in Handles : ref[h] # Null => ref[h].obj # o
    BY <1>0, <2>1 DEF IInv, AliveWhileHeld, WeakHandles
  <2>3. \A h \in Handles : ref[h] # Null /\ ref[h].obj = o => ref[h].kind = "weak"
    BY <1>0 DEF IInv, AliveWhileHeld
  <2>4. QED BY <1>0, <1>a, <2>2, <2>3 DEF IInv, TypeOK, AliveWhileHeld
<1>5. LockInv'
  BY <1>0 DEF IInv, LockInv, OwnsWeak, Owns
<1>6. StackHolderInv'
  BY <1>0, <1>1, <1>a DEF IInv, TypeOK, StackHolderInv
<1>7. QED BY <1>2, <1>3, <1>4, <1>5, <1>6 DEF IInv

LEMMA StackHolderDone ==
  ASSUME IInv, NEW t \in Threads, MembersDone(t), phase[Top(t)] = "stack_disposing"
  PROVE  /\ Top(t) \in Objects
         /\ WeakHandles(Top(t)) = {}
         /\ weak[Top(t)] = 1
<1> DEFINE o == Top(t)
<1>1. o \in Objects
  BY DEF IInv, TypeOK, MembersDone, Destroying, Top
<1>2. WeakHandles(o) = {}
  BY <1>1 DEF IInv, StackHolderInv, MembersDone, LosesMembers, Members, WeakHandles
<1>3. weak[o] = Cardinality(WeakHandles(o)) + 1
  BY <1>1 DEF IInv, CountsMatch, ImplicitWeak
<1>4. QED BY <1>1, <1>2, <1>3, FS_EmptySet

LEMMA StackDisposedStep ==
  ASSUME IInv, NEW t \in Threads, StackDisposed(t)
  PROVE  IInv'
<1> DEFINE o == Top(t)
<1>0. /\ TypeOK /\ o \in Objects /\ WeakHandles(o) = {}
      /\ phase[o] = "stack_disposing" /\ phase' = [phase EXCEPT ![o] = "deleting"]
      /\ ref' = ref /\ lock' = lock /\ strong' = strong /\ weak' = weak /\ stack' = stack
  BY StackHolderDone DEF IInv, StackDisposed
<1>1. \A x \in Objects : StrongHandles(x)' = StrongHandles(x) /\ WeakHandles(x)' = WeakHandles(x)
  BY <1>0 DEF StrongHandles, WeakHandles
<1>2. TypeOK'
  BY <1>0 DEF TypeOK, Phases
<1>3. CountsMatch'
  BY <1>0, <1>1 DEF IInv, TypeOK, CountsMatch, ImplicitWeak
<1>4. AliveWhileHeld'
  <2>1. \A h \in Handles : ref[h] # Null => ref[h].obj # o
    BY <1>0 DEF IInv, AliveWhileHeld, WeakHandles
  <2>2. QED BY <1>0, <2>1 DEF IInv, TypeOK, AliveWhileHeld
<1>5. LockInv'
  BY <1>0 DEF IInv, LockInv, OwnsWeak, Owns
<1>6. StackHolderInv'
  BY <1>0, <1>1 DEF IInv, TypeOK, StackHolderInv
<1>7. QED BY <1>2, <1>3, <1>4, <1>5, <1>6 DEF IInv

LEMMA DeletedStep ==
  ASSUME IInv, NEW t \in Threads, Deleted(t)
  PROVE  IInv'
<1> DEFINE o == Top(t)
<1>0. /\ TypeOK /\ o \in Objects /\ phase[o] = "deleting" /\ ref' = ref /\ lock' = lock
      /\ phase' = [phase EXCEPT ![o] = "freed"] /\ strong' = strong /\ weak' = weak
  BY DEF IInv, TypeOK, Deleted, MembersDone, Destroying, Top
<1>1. \A x \in Objects : StrongHandles(x)' = StrongHandles(x) /\ WeakHandles(x)' = WeakHandles(x)
  BY <1>0 DEF StrongHandles, WeakHandles
<1>2. TypeOK'
  <2>1. stack' \in [Threads -> Seq(Objects)]
    BY <1>0 DEF TypeOK, Deleted, MembersDone, Destroying
  <2>2. QED BY <1>0, <2>1 DEF TypeOK, Phases
<1>3. CountsMatch'
  BY <1>0, <1>1 DEF IInv, TypeOK, CountsMatch, ImplicitWeak
<1>4. AliveWhileHeld'
  BY <1>0 DEF IInv, TypeOK, AliveWhileHeld
<1>5. LockInv'
  BY <1>0 DEF IInv, LockInv, OwnsWeak, Owns
<1>6. StackHolderInv'
  BY <1>0, <1>1 DEF IInv, TypeOK, StackHolderInv
<1>7. QED BY <1>2, <1>3, <1>4, <1>5, <1>6 DEF IInv

LEMMA LockLoadStep ==
  ASSUME IInv, NEW t \in Threads, NEW g \in Handles, NEW h \in Handles, LockLoad(t, g, h)
  PROVE  IInv'
<1> DEFINE l == [from |-> g, to |-> h, count |-> strong[ref[g].obj]]
<1>0. /\ TypeOK /\ ref' = ref /\ strong' = strong /\ weak' = weak /\ phase' = phase
      /\ stack' = stack /\ lock' = [lock EXCEPT ![t] = l] /\ l \in Locks /\ l # Null
  BY ConstantsAssumption DEF IInv, TypeOK, LockLoad, OwnsWeak, Owns, Locks, Refs
<1>1. \A x \in Objects : StrongHandles(x)' = StrongHandles(x) /\ WeakHandles(x)' = WeakHandles(x)
  BY <1>0 DEF StrongHandles, WeakHandles
<1>2. TypeOK'
  BY <1>0 DEF TypeOK
<1>3. CountsMatch' /\ AliveWhileHeld' /\ StackHolderInv'
  BY <1>0, <1>1 DEF IInv, CountsMatch, ImplicitWeak, AliveWhileHeld, StackHolderInv
<1>4. LockInv'
  BY <1>0 DEF IInv, TypeOK, LockInv, LockLoad, OwnsWeak, Owns, IsFree, Locks
<1>5. QED BY <1>2, <1>3, <1>4 DEF IInv

LEMMA LockEndStep ==
  ASSUME IInv, NEW t \in Threads, LockExpired(t) \/ LockRetry(t)
  PROVE  IInv'
<1>0. /\ TypeOK /\ ref' = ref /\ strong' = strong /\ weak' = weak /\ phase' = phase
      /\ stack' = stack /\ lock[t] # Null
      /\ \/ lock' = [lock EXCEPT ![t] = Null]
         \/ lock' = [lock EXCEPT ![t] = [lock[t] EXCEPT !.count = strong[Locked(t)]]]
  BY DEF IInv, LockExpired, LockRetry
<1>1. \A x \in Objects : StrongHandles(x)' = StrongHandles(x) /\ WeakHandles(x)' = WeakHandles(x)
  BY <1>0 DEF StrongHandles, WeakHandles
<1>2. strong[Locked(t)] \in Nat /\ lock[t] \in Locks
  BY <1>0 DEF IInv, TypeOK, LockInv, OwnsWeak, Owns, Locked, Locks, Refs
<1>3. TypeOK'
  <2>1. [lock[t] EXCEPT !.count = strong[Locked(t)]] \in Locks
    BY <1>2 DEF Locks
  <2>2. lock' \in [Threads -> Locks \cup {Null}]
    BY <1>0, <2>1 DEF TypeOK
  <2> QED BY <1>0, <2>2 DEF TypeOK
<1>4. CountsMatch' /\ AliveWhileHeld' /\ StackHolderInv'
  BY <1>0, <1>1 DEF IInv, CountsMatch, ImplicitWeak, AliveWhileHeld, StackHolderInv
<1>5. LockInv'
  <2>1. \A u \in Threads : lock'[u] # Null =>
          lock[u] # Null /\ lock'[u].from = lock[u].from /\ lock'[u].to = lock[u].to
    <3>1. CASE lock' = [lock EXCEPT ![t] = Null]
      BY <1>0, <3>1 DEF TypeOK
    <3>2. CASE lock' = [lock EXCEPT ![t] = [lock[t] EXCEPT !.count = strong[Locked(t)]]]
      <4>1. /\ lock'[t].from = lock[t].from /\ lock'[t].to = lock[t].to
            /\ \A u \in Threads \ {t} : lock'[u] = lock[u]
        BY <1>0, <1>2, <3>2 DEF TypeOK, Locks
      <4>2. QED BY <1>0, <4>1
    <3>3. QED BY <1>0, <3>1, <3>2
  <2>2. QED BY <1>0, <2>1 DEF IInv, LockInv, OwnsWeak, Owns
<1>6. QED BY <1>3, <1>4, <1>5 DEF IInv

\* An exchange that succeeds finds the object alive: the count it has just seen
\* unchanged is not zero, so some strong handle exists.
LEMMA LockExchangeAlive ==
  ASSUME IInv, NEW t \in Threads, LockExchange(t)
  PROVE  /\ Locked(t) \in Objects /\ phase[Locked(t)] = "live"
         /\ lock[t] \in Locks /\ ref[lock[t].to] = Null
<1> DEFINE g == lock[t].from
           o == Locked(t)
<1>0. /\ TypeOK /\ lock[t] \in Locks /\ ref[lock[t].to] = Null
      /\ g \in Handles /\ ref[g] # Null /\ o = ref[g].obj /\ strong[o] # 0
  BY DEF IInv, TypeOK, LockInv, LockExchange, OwnsWeak, Owns, Locks, Locked
<1>1. o \in Objects /\ strong[o] = Cardinality(StrongHandles(o))
  BY <1>0, HandleCounts
<1>2. StrongHandles(o) # {}
  BY <1>0, <1>1, FS_EmptySet
<1>3. PICK h \in StrongHandles(o) : TRUE
  BY <1>2
<1>4. phase[o] = "live"
  BY <1>3 DEF StrongHandles, IInv, AliveWhileHeld
<1>5. QED BY <1>0, <1>1, <1>4

LEMMA LockExchangeStep ==
  ASSUME IInv, NEW t \in Threads, LockExchange(t)
  PROVE  IInv'
<1> DEFINE o == Locked(t)
           h == lock[t].to
           r == [kind |-> "strong", obj |-> o, owner |-> t]
<1>a. /\ o \in Objects /\ phase[o] = "live" /\ lock[t] \in Locks /\ ref[h] = Null
  BY LockExchangeAlive
<1>b. h \in Handles /\ r \in Refs /\ r # Null /\ t \in Owners
  BY <1>a, ConstantsAssumption DEF Locks, Refs, Owners
<1>c. /\ ref' = [ref EXCEPT ![h] = r]
      /\ lock' = [lock EXCEPT ![t] = Null] /\ strong' = [strong EXCEPT ![o] = strong[o] + 1]
      /\ weak' = weak /\ phase' = phase /\ stack' = stack
  BY DEF LockExchange
<1>d. lock[t] # Null
  BY DEF LockExchange
<1>0. /\ TypeOK /\ o \in Objects /\ phase[o] = "live" /\ h \in Handles /\ ref[h] = Null
      /\ r \in Refs /\ r # Null /\ t \in Owners
      /\ ref' = [ref EXCEPT ![h] = r]
      /\ lock' = [lock EXCEPT ![t] = Null] /\ strong' = [strong EXCEPT ![o] = strong[o] + 1]
      /\ weak' = weak /\ phase' = phase /\ stack' = stack
  BY <1>a, <1>b, <1>c DEF IInv
<1>1. \A x \in Objects :
        /\ Cardinality(StrongHandles(x))' = Cardinality(StrongHandles(x)) + (IF x = o THEN 1 ELSE 0)
        /\ Cardinality(WeakHandles(x))' = Cardinality(WeakHandles(x))
  <2>1. \A x \in Objects :
          /\ Cardinality(StrongHandles(x))' = Cardinality(StrongHandles(x)) + (IF o = x THEN 1 ELSE 0)
          /\ Cardinality(WeakHandles(x))' = Cardinality(WeakHandles(x)) + 0
    BY <1>0, SetHandle, ZenonT(40)
  <2>2. QED BY <2>1, CountsAreNat
<1>2. TypeOK'
  BY <1>0 DEF TypeOK
<1>3. CountsMatch'
  BY <1>0, <1>1, CountsAreNat DEF IInv, TypeOK, CountsMatch, ImplicitWeak
<1>4. AliveWhileHeld'
  BY <1>0 DEF IInv, TypeOK, AliveWhileHeld
<1>5. LockInv'
  <2>1. \A u \in Threads : lock'[u] # Null =>
          /\ u # t /\ lock'[u] = lock[u] /\ lock[u] # Null
          /\ lock[u].to # h /\ lock[u].from # h
    BY <1>0, <1>d DEF IInv, TypeOK, LockInv, OwnsWeak, Owns
  <2>2. \A g \in Handles : g # h => ref'[g] = ref[g]
    BY <1>0 DEF TypeOK
  <2>3. \A u \in Threads : lock[u] # Null => lock[u].from \in Handles /\ lock[u].to \in Handles
    BY <1>0 DEF TypeOK, Locks
  <2>4. QED BY <2>1, <2>2, <2>3 DEF IInv, LockInv, OwnsWeak, Owns
<1>6. StackHolderInv'
  BY <1>0 DEF IInv, TypeOK, StackHolderInv, WeakHandles
<1>7. QED BY <1>2, <1>3, <1>4, <1>5, <1>6 DEF IInv
-----------------------------------------------------------------------------
LEMMA InitInv == Init => IInv
<1> SUFFICES ASSUME Init PROVE IInv
  OBVIOUS
<1>1. TypeOK
  BY DEF Init, TypeOK, Phases
<1>2. CountsMatch
  <2>1. \A o \in Objects : StrongHandles(o) = {} /\ WeakHandles(o) = {}
    BY DEF Init, StrongHandles, WeakHandles
  <2>2. Cardinality({}) = 0
    BY FS_EmptySet
  <2>3. \A o \in Objects : /\ strong[o] = 0 /\ weak[o] = 0 /\ ImplicitWeak(o) = 0
                           /\ Cardinality(StrongHandles(o)) = 0
                           /\ Cardinality(WeakHandles(o)) = 0
    BY <2>1, <2>2 DEF Init, ImplicitWeak
  <2>4. QED BY <2>3 DEF CountsMatch
<1>3. AliveWhileHeld /\ LockInv /\ StackHolderInv
  BY DEF Init, AliveWhileHeld, LockInv, StackHolderInv
<1>4. QED BY <1>1, <1>2, <1>3 DEF IInv

LEMMA NextInv == IInv /\ [Next]_vars => IInv'
<1> SUFFICES ASSUME IInv, [Next]_vars PROVE IInv'
  OBVIOUS
<1>1. CASE UNCHANGED vars
  <2>1. /\ strong' = strong /\ weak' = weak /\ phase' = phase
        /\ ref' = ref /\ lock' = lock /\ stack' = stack
    BY <1>1 DEF vars
  <2>2. \A o \in Objects : StrongHandles(o)' = StrongHandles(o) /\ WeakHandles(o)' = WeakHandles(o)
    BY <2>1 DEF StrongHandles, WeakHandles
  <2>3. TypeOK' /\ AliveWhileHeld' /\ LockInv'
    BY <2>1 DEF IInv, TypeOK, AliveWhileHeld, LockInv, OwnsWeak, Owns
  <2>4. CountsMatch' /\ StackHolderInv'
    BY <2>1, <2>2 DEF IInv, CountsMatch, StackHolderInv, ImplicitWeak
  <2>5. QED BY <2>3, <2>4 DEF IInv
<1>2. ASSUME NEW t \in Threads, Operation(t)
      PROVE  IInv'
  BY <1>2, MakeStep, CopyStep, MakeWeakStep, LockLoadStep, MoveStep, DropStep,
     DropStackHolderStep DEF Operation
<1>3. ASSUME NEW t \in Threads, LockStep(t)
      PROVE  IInv'
  BY <1>3, LockEndStep, LockExchangeStep DEF LockStep
<1>4. ASSUME NEW t \in Threads, Teardown(t)
      PROVE  IInv'
  BY <1>4, ReleaseMemberStep, DisposedStep, StackDisposedStep, DeletedStep DEF Teardown
<1>5. QED BY <1>1, <1>2, <1>3, <1>4 DEF Next

\* IInv holds in every state: what the theorems below rest on.
THEOREM Invariance == Spec => []IInv
BY InitInv, NextInv, PTL DEF Spec

\* The variables keep their types; in particular no counter goes below zero.
THEOREM TypeCorrect == Spec => []TypeOK
<1>1. IInv => TypeOK
  BY DEF IInv
<1>2. QED BY <1>1, Invariance, PTL

\* The counters of an object that is still in memory count its pointers.
THEOREM CountsAreExact == Spec => []CountsMatch
<1>1. IInv => CountsMatch
  BY DEF IInv
<1>2. QED BY <1>1, Invariance, PTL

\* No use after Dispose() through a strong pointer, none after delete at all; and the assertion at the end of StackUnref for callers that keep its contract.
THEOREM NoUseAfterFree == Spec => []NothingDangles
<1>1. IInv => StackHolderUnreferenced
  BY StackHolderDone DEF StackHolderUnreferenced
<1>2. IInv => NothingDangles
  BY <1>1 DEF IInv, NothingDangles
<1>3. QED BY <1>2, Invariance, PTL
-----------------------------------------------------------------------------
Dying == {"disposing", "stack_disposing", "deleting"}

\* A thread begins to destroy an object that nobody is destroying.
LEMMA DestroyerPush ==
  ASSUME TypeOK, OneDestroyer, NEW t \in Threads, NEW o \in Objects, NEW p \in Dying,
         phase[o] \notin Dying,
         stack' = [stack EXCEPT ![t] = <<o>> \o @], phase' = [phase EXCEPT ![o] = p]
  PROVE  OneDestroyer'
<1> DEFINE s == <<o>> \o stack[t]
<1>1. stack[t] \in Seq(Objects) /\ \A u \in Threads : stack[u] \in Seq(Objects)
  BY DEF TypeOK
<1>2. /\ s \in Seq(Objects) /\ DOMAIN s = 1..(Len(stack[t]) + 1) /\ s[1] = o
      /\ \A i \in DOMAIN s \ {1} : i - 1 \in DOMAIN stack[t] /\ s[i] = stack[t][i - 1]
  BY <1>1
<1>3. \A u \in Threads : stack'[u] = IF u = t THEN s ELSE stack[u]
  BY DEF TypeOK
<1> HIDE DEF s
<1>4. \A u \in Threads : \A i \in DOMAIN stack[u] : stack[u][i] # o /\ phase[stack[u][i]] \in Dying
  BY DEF OneDestroyer, Dying
<1>5. \A u \in Threads : \A i \in DOMAIN stack'[u] :
        \/ u = t /\ i = 1 /\ stack'[u][i] = o
        \/ u = t /\ i # 1 /\ i - 1 \in DOMAIN stack[t] /\ stack'[u][i] = stack[t][i - 1]
        \/ u # t /\ i \in DOMAIN stack[u] /\ stack'[u][i] = stack[u][i]
  BY <1>2, <1>3
<1>6. \A u \in Threads : \A i \in DOMAIN stack'[u] : phase'[stack'[u][i]] \in Dying
  <2> SUFFICES ASSUME NEW u \in Threads, NEW i \in DOMAIN stack'[u]
               PROVE  phase'[stack'[u][i]] \in Dying
    OBVIOUS
  <2>1. CASE stack'[u][i] = o
    BY <2>1 DEF TypeOK
  <2>2. ASSUME NEW v \in Threads, NEW j \in DOMAIN stack[v], stack'[u][i] = stack[v][j]
        PROVE  phase'[stack'[u][i]] \in Dying
    <3>1. stack[v][j] \in Objects /\ stack[v][j] # o /\ phase[stack[v][j]] \in Dying
      BY <1>1, <1>4
    <3>2. QED BY <2>2, <3>1 DEF TypeOK
  <2>3. QED BY <2>1, <2>2, <1>5
<1>7. \A u, v \in Threads : \A i \in DOMAIN stack'[u], j \in DOMAIN stack'[v] :
        stack'[u][i] = stack'[v][j] => u = v /\ i = j
  <2> SUFFICES ASSUME NEW u \in Threads, NEW v \in Threads, NEW i \in DOMAIN stack'[u],
                      NEW j \in DOMAIN stack'[v], stack'[u][i] = stack'[v][j]
               PROVE  u = v /\ i = j
    OBVIOUS
  <2>0. i \in Int /\ j \in Int
    <3>1. \A w \in Threads : \A k \in DOMAIN stack[w] : k \in Int
      BY <1>1
    <3>2. \A k \in DOMAIN s : k \in Int
      BY <1>1, <1>2
    <3>3. \A w \in Threads : \A k \in DOMAIN stack'[w] : k \in Int
      BY <1>3, <3>1, <3>2
    <3>4. QED BY <3>3
  <2>1. CASE u = t /\ i = 1
    BY <2>1, <1>4, <1>5
  <2>2. CASE v = t /\ j = 1
    BY <2>2, <1>4, <1>5
  <2>3. CASE ~(u = t /\ i = 1) /\ ~(v = t /\ j = 1)
    <3>1. u = t => i - 1 \in DOMAIN stack[u] /\ stack'[u][i] = stack[u][i - 1]
      BY <2>3, <1>5
    <3>2. u # t => i \in DOMAIN stack[u] /\ stack'[u][i] = stack[u][i]
      BY <1>5
    <3>3. v = t => j - 1 \in DOMAIN stack[v] /\ stack'[v][j] = stack[v][j - 1]
      BY <2>3, <1>5
    <3>4. v # t => j \in DOMAIN stack[v] /\ stack'[v][j] = stack[v][j]
      BY <1>5
    <3>5. QED BY <2>0, <3>1, <3>2, <3>3, <3>4 DEF OneDestroyer
  <2>4. QED BY <2>1, <2>2, <2>3
<1>8. QED BY <1>6, <1>7 DEF OneDestroyer, Dying

\* A thread has done with the object on top of its stack.
LEMMA DestroyerPop ==
  ASSUME TypeOK, OneDestroyer, NEW t \in Threads, Destroying(t), NEW p,
         stack' = [stack EXCEPT ![t] = Tail(@)], phase' = [phase EXCEPT ![Top(t)] = p]
  PROVE  OneDestroyer'
<1> DEFINE s == Tail(stack[t])
<1>1. stack[t] \in Seq(Objects) /\ stack[t] # <<>> /\ \A u \in Threads : stack[u] \in Seq(Objects)
  BY DEF TypeOK, Destroying
<1>2. \A i \in DOMAIN s : /\ i \in Int /\ i + 1 \in DOMAIN stack[t] /\ i + 1 # 1
                           /\ s[i] = stack[t][i + 1]
  BY <1>1
<1>a. 1 \in DOMAIN stack[t] /\ Top(t) = stack[t][1]
  BY <1>1 DEF Top
<1>3. \A u \in Threads : stack'[u] = IF u = t THEN s ELSE stack[u]
  BY DEF TypeOK
<1> HIDE DEF s
<1>4. \A u \in Threads : \A i \in DOMAIN stack'[u] :
        /\ u = t => /\ i \in Int /\ i + 1 \in DOMAIN stack[u] /\ i + 1 # 1
                    /\ stack'[u][i] = stack[u][i + 1]
        /\ u # t => i \in DOMAIN stack[u] /\ stack'[u][i] = stack[u][i]
  BY <1>2, <1>3
<1>5. \A u \in Threads : \A i \in DOMAIN stack'[u] :
        stack'[u][i] # Top(t) /\ stack'[u][i] \in Objects /\ phase[stack'[u][i]] \in Dying
  <2>1. \A u \in Threads : \A i \in DOMAIN stack[u] :
          /\ stack[u][i] \in Objects /\ phase[stack[u][i]] \in Dying
          /\ stack[u][i] = Top(t) => u = t /\ i = 1
    BY <1>1, <1>a DEF OneDestroyer, Dying
  <2> QED BY <1>4, <2>1
<1>6. \A u \in Threads : \A i \in DOMAIN stack'[u] : phase'[stack'[u][i]] \in Dying
  BY <1>5 DEF TypeOK
<1>7. \A u, v \in Threads : \A i \in DOMAIN stack'[u], j \in DOMAIN stack'[v] :
        stack'[u][i] = stack'[v][j] => u = v /\ i = j
  BY <1>4 DEF OneDestroyer
<1>8. QED BY <1>6, <1>7 DEF OneDestroyer, Dying

\* An object enters another phase, which is one of dying, or it was not dying at all.
LEMMA DestroyerStays ==
  ASSUME TypeOK, OneDestroyer, NEW o \in Objects, NEW p, phase[o] \in Dying => p \in Dying,
         stack' = stack, phase' = [phase EXCEPT ![o] = p]
  PROVE  OneDestroyer'
<1>1. \A u \in Threads : \A i \in DOMAIN stack[u] :
        stack[u][i] \in Objects /\ phase[stack[u][i]] \in Dying
  BY DEF OneDestroyer, TypeOK, Dying
<1>2. \A u \in Threads : \A i \in DOMAIN stack[u] : phase'[stack[u][i]] \in Dying
  BY <1>1 DEF TypeOK
<1>3. QED BY <1>2 DEF OneDestroyer, Dying

LEMMA DestroyerRelease ==
  ASSUME IInv, OneDestroyer, NEW t \in Threads, NEW h \in Handles, ref[h] # Null, Release(t, h)
  PROVE  OneDestroyer'
<1> DEFINE o == ref[h].obj
<1>0. TypeOK /\ o \in Objects
  BY DEF IInv, TypeOK, Refs
<1>1. CASE ref[h].kind = "strong" /\ RemoveRef(t, o)
  <2>1. phase[o] \notin Dying
    BY <1>1 DEF IInv, AliveWhileHeld, Dying
  <2>2. \/ stack' = stack /\ phase' = phase
        \/ /\ stack' = [stack EXCEPT ![t] = <<o>> \o @]
           /\ phase' = [phase EXCEPT ![o] = "disposing"]
    BY <1>1 DEF RemoveRef
  <2>3. CASE stack' = stack /\ phase' = phase
    BY <2>3 DEF OneDestroyer
  <2>4. QED BY <1>0, <2>1, <2>2, <2>3, DestroyerPush DEF Dying
<1>2. CASE ref[h].kind = "weak" /\ RemoveWeakRef(t, o)
  <2>2. \/ stack' = stack /\ phase' = phase
        \/ /\ weak[o] = 1 /\ stack' = [stack EXCEPT ![t] = <<o>> \o @]
           /\ phase' = [phase EXCEPT ![o] = "deleting"]
    BY <1>2 DEF RemoveWeakRef
  <2>1. weak[o] = 1 => phase[o] \notin Dying
    <3>1. /\ weak[o] = Cardinality(WeakHandles(o)) + ImplicitWeak(o)
          /\ Cardinality(WeakHandles(o)) >= 1 /\ Cardinality(WeakHandles(o)) \in Nat
      BY <1>0, <1>2, HandleCounts, CountsAreNat
    <3>2. weak[o] = 1 => ImplicitWeak(o) = 0
      BY <3>1 DEF ImplicitWeak
    <3>3. phase[o] # "deleting"
      BY DEF IInv, AliveWhileHeld
    <3>4. QED BY <3>2, <3>3 DEF ImplicitWeak, Dying
  <2>3. CASE stack' = stack /\ phase' = phase
    BY <2>3 DEF OneDestroyer
  <2>4. QED BY <1>0, <2>1, <2>2, <2>3, DestroyerPush DEF Dying
<1>3. QED BY <1>1, <1>2 DEF Release

LEMMA OneDestroyerStep == IInv /\ OneDestroyer /\ [Next]_vars => OneDestroyer'
<1> SUFFICES ASSUME IInv, OneDestroyer, [Next]_vars PROVE OneDestroyer'
  OBVIOUS
<1>0. TypeOK
  BY DEF IInv
<1>1. CASE stack' = stack /\ phase' = phase
  BY <1>1 DEF OneDestroyer
<1>2. ASSUME NEW t \in Threads, NEW o \in Objects, NEW h \in Handles,
             NEW kind \in {"strong", "stack"}, Make(t, o, h, kind)
      PROVE  OneDestroyer'
  BY <1>0, <1>2, DestroyerStays DEF Make, Dying
<1>3. ASSUME NEW t \in Threads, NEW h \in Handles, Drop(t, h)
      PROVE  OneDestroyer'
  BY <1>3, DestroyerRelease DEF Drop, Owns
<1>4. ASSUME NEW t \in Threads, NEW h \in Handles, DropStackHolder(t, h)
      PROVE  OneDestroyer'
  <2>1. ref[h].obj \in Objects /\ phase[ref[h].obj] = "live"
    BY <1>4 DEF IInv, TypeOK, Refs, AliveWhileHeld, DropStackHolder, Owns
  <2>2. /\ stack' = [stack EXCEPT ![t] = <<ref[h].obj>> \o @]
        /\ phase' = [phase EXCEPT ![ref[h].obj] = "stack_disposing"]
    BY <1>4 DEF DropStackHolder
  <2>3. QED BY <1>0, <2>1, <2>2, DestroyerPush DEF Dying
<1>5. ASSUME NEW t \in Threads, Operation(t)
      PROVE  OneDestroyer'
  BY <1>1, <1>2, <1>3, <1>4, <1>5 DEF Operation, Copy, MakeWeak, LockLoad, Move
<1>6. ASSUME NEW t \in Threads, LockStep(t)
      PROVE  OneDestroyer'
  BY <1>1, <1>6 DEF LockStep, LockExpired, LockExchange, LockRetry
<1>7. ASSUME NEW t \in Threads, ReleaseMember(t)
      PROVE  OneDestroyer'
  BY <1>7, DestroyerRelease DEF ReleaseMember, Members
<1>8. ASSUME NEW t \in Threads, Disposed(t) \/ StackDisposed(t) \/ Deleted(t)
      PROVE  OneDestroyer'
  <2>1. Destroying(t) /\ Top(t) \in Objects
    BY <1>0, <1>8 DEF TypeOK, Disposed, StackDisposed, Deleted, MembersDone, Destroying, Top
  <2>2. CASE stack' = stack
    <3>1. phase' = [phase EXCEPT ![Top(t)] = "deleting"]
      <4>1. Tail(stack[t]) # stack[t]
        BY <1>0, <2>1 DEF TypeOK, Destroying
      <4>2. [stack EXCEPT ![t] = Tail(@)] # stack
        BY <1>0, <4>1 DEF TypeOK
      <4>3. QED BY <1>8, <2>2, <4>2 DEF Disposed, StackDisposed, Deleted
    <3>2. QED BY <1>0, <2>1, <2>2, <3>1, DestroyerStays DEF Dying
  <2>3. CASE stack' = [stack EXCEPT ![t] = Tail(@)]
    <3>1. \E p \in {"deleting", "disposed", "freed"} : phase' = [phase EXCEPT ![Top(t)] = p]
      BY <1>8 DEF Disposed, StackDisposed, Deleted
    <3>2. QED BY <1>0, <2>1, <2>3, <3>1, DestroyerPop
  <2>4. QED BY <1>8, <2>2, <2>3 DEF Disposed, StackDisposed, Deleted
<1>9. CASE UNCHANGED vars
  BY <1>1, <1>9 DEF vars
<1>10. QED BY <1>5, <1>6, <1>7, <1>8, <1>9 DEF Next, Teardown

\* Whoever drops references at once: one thread runs Dispose() of an object and one
\* deletes it, and no object is twice on the stacks of destructors.
THEOREM OnlyOneDestroyer == Spec => []OneDestroyer
<1>1. Init => OneDestroyer
  BY DEF Init, OneDestroyer
<1>2. QED BY <1>1, Invariance, OneDestroyerStep, PTL DEF Spec
-----------------------------------------------------------------------------
\* What a step may do to the strong count of an object whose last strong
\* reference is gone: nothing.
LEMMA NoResurrectionStep ==
  ASSUME IInv, [Next]_vars, NEW o \in Objects, phase[o] # "none", strong[o] = 0
  PROVE  strong'[o] = 0
<1>a. TypeOK
  BY DEF IInv
<1>1. CASE UNCHANGED vars
  BY <1>1 DEF vars
<1>2. ASSUME NEW t \in Threads, NEW x \in Objects, NEW h \in Handles,
             NEW kind \in {"strong", "stack"}, Make(t, x, h, kind)
      PROVE  strong'[o] = 0
  BY <1>2, <1>a DEF Make, TypeOK
<1>3. ASSUME NEW t \in Threads, NEW g \in Handles, NEW h \in Handles, Copy(t, g, h)
      PROVE  strong'[o] = 0
  <2>1. ref[g].obj # o
    BY <1>3, HandleCounts DEF Copy, OwnsStrong, Owns
  <2>2. QED BY <1>3, <2>1, <1>a DEF Copy, TypeOK
<1>4. ASSUME NEW t \in Threads, NEW h \in Handles, ref[h] # Null, Release(t, h)
      PROVE  strong'[o] = 0
  <2>1. ref[h].kind = "strong" => ref[h].obj # o
    BY <1>4, HandleCounts
  <2>2. CASE ref[h].kind = "strong" /\ RemoveRef(t, ref[h].obj)
    <3>1. strong' = [strong EXCEPT ![ref[h].obj] = strong[ref[h].obj] - 1]
      BY <2>2 DEF RemoveRef
    <3>2. QED BY <3>1, <2>1, <2>2, <1>a DEF TypeOK
  <2>3. CASE RemoveWeakRef(t, ref[h].obj)
    BY <2>3 DEF RemoveWeakRef
  <2>4. QED BY <1>4, <2>2, <2>3 DEF Release
<1>5. ASSUME NEW t \in Threads, NEW h \in Handles, DropStackHolder(t, h)
      PROVE  strong'[o] = 0
  <2>1. ref[h].obj # o
    BY <1>5, HandleCounts DEF DropStackHolder, Owns
  <2>2. QED BY <1>5, <2>1, <1>a DEF DropStackHolder, TypeOK
<1>6. ASSUME NEW t \in Threads, LockExchange(t)
      PROVE  strong'[o] = 0
  <2>1. strong[Locked(t)] # 0 /\ strong' = [strong EXCEPT ![Locked(t)] = lock[t].count + 1]
    BY <1>6 DEF LockExchange
  <2>2. QED BY <2>1, <1>a DEF TypeOK
<1>7. ASSUME NEW t \in Threads, Operation(t)
      PROVE  strong'[o] = 0
  <2>1. ASSUME NEW g \in Handles, NEW h \in Handles, MakeWeak(t, g, h) \/ LockLoad(t, g, h)
        PROVE  strong'[o] = 0
    BY <2>1 DEF MakeWeak, LockLoad
  <2>2. ASSUME NEW h \in Handles, NEW new \in Owners, Move(t, h, new)
        PROVE  strong'[o] = 0
    BY <2>2 DEF Move
  <2>3. ASSUME NEW h \in Handles, Drop(t, h)
        PROVE  strong'[o] = 0
    BY <2>3, <1>4 DEF Drop, Owns
  <2>4. QED BY <1>2, <1>3, <1>5, <1>7, <2>1, <2>2, <2>3 DEF Operation
<1>8. ASSUME NEW t \in Threads, LockStep(t)
      PROVE  strong'[o] = 0
  BY <1>6, <1>8 DEF LockStep, LockExpired, LockRetry
<1>9. ASSUME NEW t \in Threads, Teardown(t)
      PROVE  strong'[o] = 0
  <2>1. ASSUME ReleaseMember(t)
        PROVE  strong'[o] = 0
    BY <2>1, <1>4 DEF ReleaseMember, Members
  <2>2. QED BY <1>9, <2>1 DEF Teardown, Disposed, StackDisposed, Deleted
<1>10. QED BY <1>1, <1>7, <1>8, <1>9 DEF Next

\* An object whose last strong reference is gone never gets another one.
LEMMA ResurrectionImpossible == Spec => [][StaysDead]_vars
<1>1. IInv /\ [Next]_vars => [StaysDead]_vars
  BY NoResurrectionStep DEF StaysDead
<1>2. QED BY <1>1, Invariance, PTL DEF Spec
-----------------------------------------------------------------------------
\* A LockWeak that has read a zero count works on an object that has come and
\* gone: with NoResurrectionStep, its strong count is zero for good.
ExpiredInv ==
  \A t \in Threads : lock[t] # Null /\ lock[t].count = 0 =>
    phase[Locked(t)] # "none" /\ strong[Locked(t)] = 0

LEMMA ExpiredStep ==
  ASSUME IInv, ExpiredInv, [Next]_vars
  PROVE  ExpiredInv'
<1> SUFFICES ASSUME NEW t \in Threads, lock'[t] # Null, lock'[t].count = 0
             PROVE  phase'[Locked(t)'] # "none" /\ strong'[Locked(t)'] = 0
  BY DEF ExpiredInv
<1>a. TypeOK /\ IInv'
  BY NextInv DEF IInv
<1>1. /\ lock'[t] \in Locks /\ lock'[t].from \in Handles
      /\ ref'[lock'[t].from] # Null /\ Locked(t)' = ref'[lock'[t].from].obj
      /\ Locked(t)' \in Objects /\ phase'[Locked(t)'] # "none"
  BY <1>a DEF IInv, TypeOK, LockInv, AliveWhileHeld, OwnsWeak, Owns, Locks, Refs, Locked
<1>2. CASE lock'[t] = lock[t]
  <2>1. ref'[lock[t].from] = ref[lock[t].from]
    <3>1. lock[t] # Null /\ lock[t].from \in Handles /\ Owns(t, lock[t].from)
          /\ ref[lock[t].to] = Null /\ ~Idle(t)
      BY <1>1, <1>2 DEF IInv, LockInv, OwnsWeak, Idle
    <3> DEFINE g == lock[t].from
    <3>2. ASSUME NEW u \in Threads, NEW h \in Handles, ref[h] # Null, Release(u, h), h # g
          PROVE  ref'[g] = ref[g]
      BY <3>1, <3>2, <1>a DEF Release, TypeOK
    <3>3. ASSUME NEW u \in Threads, Operation(u)
          PROVE  ref'[g] = ref[g]
      <4>1. \A o \in Objects, h \in Handles, kind \in {"strong", "stack"} :
              Make(u, o, h, kind) => ref'[g] = ref[g]
        BY <3>1, <1>a DEF Make, IsFree, Owns, TypeOK
      <4>2. \A x, h \in Handles : Copy(u, x, h) \/ MakeWeak(u, x, h) \/ LockLoad(u, x, h)
              => ref'[g] = ref[g]
        BY <3>1, <1>a DEF Copy, MakeWeak, LockLoad, IsFree, Owns, TypeOK
      <4>3. \A h \in Handles, new \in Owners : Move(u, h, new) => ref'[g] = ref[g]
        BY <3>1, <1>a DEF Move, Owns, Idle, TypeOK
      <4>4. \A h \in Handles : Drop(u, h) => ref'[g] = ref[g]
        BY <3>1, <3>2 DEF Drop, Owns, Idle
      <4>5. \A h \in Handles : DropStackHolder(u, h) => ref'[g] = ref[g]
        BY <3>1, <1>a DEF DropStackHolder, Owns, Idle, TypeOK
      <4>6. QED BY <3>3, <4>1, <4>2, <4>3, <4>4, <4>5 DEF Operation
    <3>4. ASSUME NEW u \in Threads, LockStep(u)
          PROVE  ref'[g] = ref[g]
      <4>1. CASE LockExchange(u)
        BY <4>1, <3>1, <1>a DEF LockExchange, Owns, IInv, LockInv, TypeOK
      <4>2. QED BY <3>4, <4>1 DEF LockStep, LockExpired, LockRetry
    <3>5. ASSUME NEW u \in Threads, Teardown(u)
          PROVE  ref'[g] = ref[g]
      <4>1. CASE ReleaseMember(u)
        <5>1. PICK h \in Members(Top(u)) : Release(u, h)
          BY <4>1 DEF ReleaseMember
        <5>2. Top(u) \in Objects
          BY <4>1, <1>a DEF ReleaseMember, Destroying, Top, TypeOK
        <5>3. h \in Handles /\ ref[h] # Null /\ h # g
          BY <5>1, <5>2, <3>1, ConstantsAssumption DEF Members, Owns
        <5>4. QED BY <5>1, <5>3, <3>2
      <4>2. QED BY <3>5, <4>1 DEF Teardown, Disposed, StackDisposed, Deleted
    <3>6. QED BY <3>3, <3>4, <3>5 DEF Next, vars
  <2>2. Locked(t)' = Locked(t)
    BY <2>1, <1>2 DEF Locked
  <2>3. phase[Locked(t)] # "none" /\ strong[Locked(t)] = 0
    BY <1>2 DEF ExpiredInv
  <2>4. QED BY <1>1, <2>2, <2>3, NoResurrectionStep
<1>3. CASE lock'[t] # lock[t]
  \* only a load has set the count: it read the zero in this very step
  <2>1. PICK u \in Threads : Operation(u) \/ LockStep(u) \/ Teardown(u)
    BY <1>3 DEF Next, vars
  <2>2. CASE \E g, h \in Handles : LockLoad(u, g, h)
    <3>1. PICK g \in Handles, h \in Handles : LockLoad(u, g, h)
      BY <2>2
    <3>2. u = t /\ lock'[t] = [from |-> g, to |-> h, count |-> strong[ref[g].obj]]
          /\ ref' = ref /\ strong' = strong
      BY <3>1, <1>3, <1>a DEF LockLoad, TypeOK
    <3>3. QED BY <1>1, <3>2 DEF Locked
  <2>3. CASE LockRetry(u)
    <3>1. u = t /\ lock'[t] = [lock[t] EXCEPT !.count = strong[Locked(t)]]
          /\ ref' = ref /\ strong' = strong /\ lock[t] \in Locks
      BY <2>3, <1>3, <1>a DEF LockRetry, TypeOK
    <3>2. lock'[t].from = lock[t].from /\ lock'[t].count = strong[Locked(t)]
      BY <3>1 DEF Locks
    <3>3. Locked(t)' = Locked(t)
      BY <3>1, <3>2 DEF Locked
    <3>4. QED BY <1>1, <3>1, <3>2, <3>3
  <2>4. CASE LockExpired(u) \/ LockExchange(u)
    BY <2>4, <1>3, <1>a DEF LockExpired, LockExchange, TypeOK
  <2>5. CASE lock' = lock
    BY <2>5, <1>3
  <2>6. QED BY <2>1, <2>2, <2>3, <2>4, <2>5
       DEF Operation, LockStep, Teardown, Make, Copy, MakeWeak, Move, Drop, Release,
           DropStackHolder, ReleaseMember, Disposed, StackDisposed, Deleted
<1>4. QED BY <1>2, <1>3

\* lock() comes back empty only for an object that is gone.
LEMMA EmptyLockIsHonest == Spec => [][EmptyOnlyIfExpired]_vars
<1>1. Init => ExpiredInv
  BY DEF Init, ExpiredInv
<1>2. IInv /\ ExpiredInv /\ [Next]_vars => ExpiredInv'
  BY ExpiredStep
<1>3. IInv /\ ExpiredInv /\ [Next]_vars => [EmptyOnlyIfExpired]_vars
  <2> SUFFICES ASSUME IInv, ExpiredInv, Next, NEW t \in Threads,
                      lock[t] # Null, lock'[t] = Null, ref'[lock[t].to] = Null
               PROVE  strong[Locked(t)] = 0
    BY DEF EmptyOnlyIfExpired
  <2>a. TypeOK
    BY DEF IInv
  <2>1. PICK u \in Threads : Operation(u) \/ LockStep(u) \/ Teardown(u)
    BY DEF Next
  <2>2. CASE LockExpired(u)
    BY <2>2, <2>a DEF LockExpired, TypeOK, ExpiredInv
  <2>3. CASE LockExchange(u)
    <3>1. u = t
      BY <2>3, <2>a DEF LockExchange, TypeOK
    <3>2. lock[t].to \in Handles /\ t \in Owners /\ Locked(t) \in Objects
      BY <2>3, <3>1, LockExchangeAlive DEF Locks, Owners
    <3>3. ref'[lock[t].to] = [kind |-> "strong", obj |-> Locked(t), owner |-> t]
      BY <2>3, <2>a, <3>1, <3>2 DEF LockExchange, TypeOK
    <3>4. QED BY <3>2, <3>3, ConstantsAssumption DEF Owners
  <2>4. CASE LockRetry(u)
    <3>1. lock[u] \in Locks /\ strong[Locked(u)] \in Nat
      BY <2>4, <2>a DEF LockRetry, TypeOK, IInv, LockInv, OwnsWeak, Owns, Locked, Locks, Refs
    <3>2. [lock[u] EXCEPT !.count = strong[Locked(u)]] \in Locks
      BY <3>1 DEF Locks
    <3>3. QED BY <2>4, <2>a, <3>2, ConstantsAssumption DEF LockRetry, TypeOK, Locks
  <2>5. CASE \E g, h \in Handles : LockLoad(u, g, h)
    BY <2>5, <2>a DEF LockLoad, Idle, TypeOK
  <2>6. CASE lock' = lock
    BY <2>6
  <2>7. QED BY <2>1, <2>2, <2>3, <2>4, <2>5, <2>6
       DEF Operation, LockStep, Teardown, Make, Copy, MakeWeak, Move, Drop, Release,
           DropStackHolder, ReleaseMember, Disposed, StackDisposed, Deleted
<1>4. QED BY <1>1, <1>2, <1>3, Invariance, PTL DEF Spec

\* lock() brings nothing back, and comes back empty only for an object that is gone.
THEOREM LockingIsHonest == Spec => LocksHonest
BY ResurrectionImpossible, EmptyLockIsHonest, PTL DEF LocksHonest
-----------------------------------------------------------------------------
\* The refinement: the abstract state seen through StateOf and PointsOf.
AState == [o \in Objects |-> StateOf(o)]
APoints == [h \in Handles |-> PointsOf(h)]

LEMMA AbstractPointers ==
  ASSUME TypeOK
  PROVE  /\ \A h \in Handles : APoints[h] = Null <=> ref[h] = Null
         /\ \A h \in Handles : ref[h] # Null =>
              /\ APoints[h].obj = ref[h].obj
              /\ APoints[h] = [kind |-> IF ref[h].kind = "weak" THEN "weak" ELSE "strong",
                               obj |-> ref[h].obj]
         /\ \A o \in Objects : Ownership!StrongTo(o) = StrongHandles(o)
<1>1. \A h \in Handles : ref[h] # Null =>
        [kind |-> IF ref[h].kind = "weak" THEN "weak" ELSE "strong", obj |-> ref[h].obj] # Null
  BY ConstantsAssumption DEF TypeOK, Refs
<1>2. /\ \A h \in Handles : APoints[h] = Null <=> ref[h] = Null
      /\ \A h \in Handles : ref[h] # Null =>
           APoints[h] = [kind |-> IF ref[h].kind = "weak" THEN "weak" ELSE "strong",
                         obj |-> ref[h].obj]
  BY <1>1 DEF APoints, PointsOf
<1>3. \A o \in Objects : Ownership!StrongTo(o) = StrongHandles(o)
  <2> SUFFICES ASSUME NEW o \in Objects, NEW h \in Handles
               PROVE  APoints[h] = [kind |-> "strong", obj |-> o]
                        <=> ref[h] # Null /\ ref[h].kind # "weak" /\ ref[h].obj = o
    BY DEF Ownership!StrongTo, StrongHandles, APoints
  <2>1. [kind |-> "strong", obj |-> o] # Null
    BY ConstantsAssumption
  <2>2. CASE ref[h] = Null
    BY <1>2, <2>1, <2>2
  <2>3. CASE ref[h] # Null
    <3>1. CASE ref[h].kind = "weak"
      <4>1. APoints[h] = [kind |-> "weak", obj |-> ref[h].obj]
        BY <1>2, <2>3, <3>1
      <4>2. QED BY <3>1, <4>1
    <3>2. CASE ref[h].kind # "weak"
      <4>1. APoints[h] = [kind |-> "strong", obj |-> ref[h].obj]
        BY <1>2, <2>3, <3>2
      <4>2. QED BY <2>3, <3>2, <4>1
    <3>3. QED BY <3>1, <3>2
  <2>4. QED BY <2>2, <2>3
<1>4. QED BY <1>2, <1>3

\* A pointer that is set or cleared is set or cleared in the abstract state.
LEMMA AbstractUpdate ==
  ASSUME TypeOK, NEW h \in Handles, NEW v, ref' = [ref EXCEPT ![h] = v]
  PROVE  APoints' = [APoints EXCEPT ![h] = PointsOf(h)']
BY DEF TypeOK, APoints, PointsOf

LEMMA AbstractPhase ==
  ASSUME TypeOK, NEW o \in Objects, NEW p, phase' = [phase EXCEPT ![o] = p]
  PROVE  AState' = [AState EXCEPT ![o] = StateIn(p)]
<1>1. \A x \in Objects : StateOf(x)' = IF x = o THEN StateIn(p) ELSE StateOf(x)
  BY DEF TypeOK, StateOf
<1>2. QED BY <1>1 DEF AState

LEMMA AbstractRelease ==
  ASSUME IInv, NEW t \in Threads, NEW h \in Handles, ref[h] # Null, Release(t, h)
  PROVE  Ownership!Drop(h)
<1> DEFINE o == ref[h].obj
<1>0. TypeOK /\ o \in Objects
  BY DEF IInv, TypeOK, Refs
<1>1. APoints' = [APoints EXCEPT ![h] = Null]
  BY <1>0, AbstractUpdate DEF Release, TypeOK, PointsOf
<1>2. APoints[h] # Null /\ APoints[h].obj = o /\ Ownership!StrongTo(o) = StrongHandles(o)
  BY <1>0, AbstractPointers
<1>3. AState' = IF StrongHandles(o) = {h} THEN [AState EXCEPT ![o] = "dying"] ELSE AState
  <2>1. CASE ref[h].kind = "strong" /\ RemoveRef(t, o)
    <3>1. strong[o] = 1 <=> StrongHandles(o) = {h}
      <4>1. strong[o] = Cardinality(StrongHandles(o)) /\ (strong[o] = 1 => StrongHandles(o) = {h})
        BY <2>1, HandleCounts
      <4>2. Cardinality({h}) = 1
        BY FS_Singleton
      <4>3. QED BY <4>1, <4>2
    <3>2. CASE strong[o] = 1
      <4>1. phase' = [phase EXCEPT ![o] = "disposing"]
        BY <2>1, <3>2 DEF RemoveRef
      <4>2. AState' = [AState EXCEPT ![o] = StateIn("disposing")]
        BY <1>0, <4>1, AbstractPhase
      <4>3. QED BY <3>1, <3>2, <4>2 DEF StateIn
    <3>3. CASE strong[o] # 1
      BY <2>1, <3>1, <3>3 DEF RemoveRef, AState, StateOf
    <3>4. QED BY <3>2, <3>3
  <2>2. CASE ref[h].kind = "weak" /\ RemoveWeakRef(t, o)
    <3>1. StrongHandles(o) # {h}
      BY <2>2 DEF StrongHandles
    <3>2. weak[o] = 1 => phase[o] = "disposed"
      <4>1. /\ weak[o] = Cardinality(WeakHandles(o)) + ImplicitWeak(o)
            /\ Cardinality(WeakHandles(o)) >= 1 /\ Cardinality(WeakHandles(o)) \in Nat
        BY <1>0, <2>2, HandleCounts, CountsAreNat
      <4>2. weak[o] = 1 => ImplicitWeak(o) = 0
        BY <4>1 DEF ImplicitWeak
      <4>3. phase[o] \in Phases \ {"none", "deleting", "freed"}
        BY <1>0 DEF IInv, TypeOK, AliveWhileHeld
      <4>4. QED BY <4>2, <4>3 DEF ImplicitWeak, Phases
    <3>3. \A x \in Objects :
            phase'[x] = phase[x] \/ (phase[x] = "disposed" /\ phase'[x] = "deleting")
      BY <1>0, <2>2, <3>2 DEF RemoveWeakRef, TypeOK
    <3>4. AState' = AState
      <4>1. \A x \in Objects : StateOf(x)' = StateOf(x)
        BY <3>3 DEF StateOf, StateIn
      <4>2. QED BY <4>1 DEF AState
    <3>5. QED BY <3>1, <3>4
  <2>3. QED BY <2>1, <2>2 DEF Release
<1>4. QED BY <1>1, <1>2, <1>3 DEF Ownership!Drop, AState, APoints

\* Every step of the counters is a step of shared ownership, or none of its business.
LEMMA AbstractStep ==
  ASSUME IInv, [Next]_vars
  PROVE  [Ownership!Next]_<<AState, APoints>>
<1>a. TypeOK
  BY DEF IInv
<1>1. CASE UNCHANGED vars
  BY <1>1 DEF vars, AState, APoints, StateOf, PointsOf
<1>2. ASSUME NEW t \in Threads, NEW o \in Objects, NEW h \in Handles,
             NEW kind \in {"strong", "stack"}, Make(t, o, h, kind)
      PROVE  Ownership!Create(o, h)
  <2>1. APoints' = [APoints EXCEPT ![h] = [kind |-> "strong", obj |-> o]]
    <3>1. ref' = [ref EXCEPT ![h] = [kind |-> kind, obj |-> o, owner |-> t]]
      BY <1>2 DEF Make
    <3>2. PointsOf(h)' = [kind |-> "strong", obj |-> o]
      BY <3>1, <1>a, ConstantsAssumption DEF PointsOf, TypeOK
    <3>3. QED BY <3>1, <3>2, <1>a, AbstractUpdate
  <2>2. AState' = [AState EXCEPT ![o] = "alive"]
    <3>1. AState' = [AState EXCEPT ![o] = StateIn("live")]
      BY <1>2, <1>a, AbstractPhase DEF Make
    <3>2. QED BY <3>1 DEF StateIn
  <2>3. AState[o] = "none" /\ APoints[h] = Null
    BY <1>2, <1>a, AbstractPointers DEF Make, IsFree, AState, StateOf, StateIn
  <2>4. QED BY <2>1, <2>2, <2>3 DEF Ownership!Create, AState, APoints
<1>3. ASSUME NEW t \in Threads, NEW g \in Handles, NEW h \in Handles, ref[g] # Null,
             ref[h] = Null, phase' = phase, NEW kind \in {"strong", "weak"},
             kind = "strong" => phase[ref[g].obj] = "live",
             ref' = [ref EXCEPT ![h] = [kind |-> kind, obj |-> ref[g].obj, owner |-> t]]
      PROVE  Ownership!Share(g, h) \/ Ownership!Observe(g, h)
  <2>0. ref[g].obj \in Objects
    BY <1>3, <1>a DEF TypeOK, Refs
  <2>1. APoints' = [APoints EXCEPT ![h] = [kind |-> kind, obj |-> ref[g].obj]]
    <3>1. PointsOf(h)' = [kind |-> kind, obj |-> ref[g].obj]
      BY <1>3, <2>0, <1>a, ConstantsAssumption DEF PointsOf, TypeOK
    <3>2. QED BY <1>3, <3>1, <1>a, AbstractUpdate
  <2>2. AState' = AState
    BY <1>3 DEF AState, StateOf
  <2>3. APoints[g] # Null /\ APoints[h] = Null /\ APoints[g].obj = ref[g].obj
    BY <1>3, <1>a, AbstractPointers
  <2>4. kind = "strong" => AState[ref[g].obj] = "alive"
    BY <1>3, <2>0 DEF AState, StateOf, StateIn
  <2>5. QED BY <2>1, <2>2, <2>3, <2>4 DEF Ownership!Share, Ownership!Observe, AState, APoints
<1>4. ASSUME NEW t \in Threads, NEW h \in Handles, DropStackHolder(t, h)
      PROVE  Ownership!Drop(h)
  <2> DEFINE o == ref[h].obj
  <2>0. o \in Objects /\ ref[h] # Null /\ ref' = [ref EXCEPT ![h] = Null]
        /\ StrongHandles(o) = {h} /\ phase' = [phase EXCEPT ![o] = "stack_disposing"]
    BY <1>4, <1>a DEF DropStackHolder, Owns, TypeOK, Refs
  <2>1. APoints' = [APoints EXCEPT ![h] = Null]
    BY <2>0, <1>a, AbstractUpdate DEF TypeOK, PointsOf
  <2>2. AState' = [AState EXCEPT ![o] = "dying"]
    <3>1. AState' = [AState EXCEPT ![o] = StateIn("stack_disposing")]
      BY <2>0, <1>a, AbstractPhase
    <3>2. QED BY <3>1 DEF StateIn
  <2>3. APoints[h] # Null /\ APoints[h].obj = o /\ Ownership!StrongTo(o) = {h}
    BY <2>0, <1>a, AbstractPointers
  <2>4. QED BY <2>1, <2>2, <2>3 DEF Ownership!Drop, AState, APoints
<1>5. ASSUME NEW t \in Threads, Disposed(t) \/ StackDisposed(t)
      PROVE  Ownership!Die(Top(t)) /\ Top(t) \in Objects
  <2> DEFINE o == Top(t)
  <2>1. o \in Objects /\ phase[o] \in {"disposing", "stack_disposing"} /\ ref' = ref
    BY <1>5, <1>a DEF Disposed, StackDisposed, MembersDone, Destroying, Top, TypeOK
  <2>2. PICK p \in {"disposed", "deleting"} : phase' = [phase EXCEPT ![o] = p]
    BY <1>5 DEF Disposed, StackDisposed
  <2>3. AState' = [AState EXCEPT ![o] = StateIn(p)]
    BY <2>1, <2>2, <1>a, AbstractPhase
  <2>4. AState' = [AState EXCEPT ![o] = "dead"] /\ AState[o] = "dying"
    BY <2>1, <2>3 DEF AState, StateOf, StateIn
  <2>5. APoints' = APoints
    BY <2>1 DEF APoints, PointsOf
  <2>6. QED BY <2>1, <2>4, <2>5 DEF Ownership!Die, AState, APoints
<1>6. ASSUME NEW t \in Threads, Deleted(t)
      PROVE  Ownership!Vanish(Top(t)) /\ Top(t) \in Objects
  <2> DEFINE o == Top(t)
  <2>1. o \in Objects /\ phase[o] = "deleting" /\ ref' = ref /\ phase' = [phase EXCEPT ![o] = "freed"]
    BY <1>6, <1>a DEF Deleted, MembersDone, Destroying, Top, TypeOK
  <2>2. AState' = [AState EXCEPT ![o] = StateIn("freed")]
    BY <2>1, <1>a, AbstractPhase
  <2>3. AState' = [AState EXCEPT ![o] = "gone"] /\ AState[o] = "dead"
    BY <2>1, <2>2 DEF AState, StateOf, StateIn
  <2>4. APoints' = APoints
    BY <2>1 DEF APoints, PointsOf
  <2>5. \A h \in Handles : ref[h] # Null => ref[h].obj # o
    BY <2>1 DEF IInv, AliveWhileHeld
  <2>6. Ownership!PointingAt(o) = {}
    BY <2>5, <1>a, AbstractPointers DEF Ownership!PointingAt, APoints
  <2>7. QED BY <2>1, <2>3, <2>4, <2>6 DEF Ownership!Vanish, AState, APoints
<1>7. ASSUME NEW t \in Threads, NEW h \in Handles, NEW new \in Owners, Move(t, h, new)
      PROVE  UNCHANGED <<AState, APoints>>
  <2>1. /\ ref[h] \in Refs /\ ref[h] # Null
        /\ ref' = [ref EXCEPT ![h] = [ref[h] EXCEPT !.owner = new]] /\ phase' = phase
    BY <1>7, <1>a DEF Move, Owns, TypeOK
  <2>2. ref'[h] # Null /\ ref'[h].kind = ref[h].kind /\ ref'[h].obj = ref[h].obj
    BY <2>1, <1>a, ConstantsAssumption DEF TypeOK, Refs, Owners
  <2>3. \A x \in Handles : PointsOf(x)' = PointsOf(x)
    BY <2>1, <2>2, <1>a DEF PointsOf, TypeOK
  <2>4. QED BY <2>1, <2>3 DEF AState, APoints, StateOf
<1>8. ASSUME ref' = ref, phase' = phase
      PROVE  UNCHANGED <<AState, APoints>>
  BY <1>8 DEF AState, APoints, StateOf, PointsOf
<1>9. ASSUME NEW t \in Threads, Operation(t)
      PROVE  Ownership!Next \/ UNCHANGED <<AState, APoints>>
  <2>1. ASSUME NEW g \in Handles, NEW h \in Handles, Copy(t, g, h)
        PROVE  Ownership!Next
    <3>1. /\ ref[g] # Null /\ ref[h] = Null /\ phase' = phase /\ phase[ref[g].obj] = "live"
          /\ ref' = [ref EXCEPT ![h] = [kind |-> "strong", obj |-> ref[g].obj, owner |-> t]]
      BY <2>1 DEF Copy, OwnsStrong, Owns, IsFree, IInv, AliveWhileHeld
    <3>2. Ownership!Share(g, h) \/ Ownership!Observe(g, h)
      BY <1>3, <3>1
    <3>3. QED BY <3>2 DEF Ownership!Next
  <2>2. ASSUME NEW g \in Handles, NEW h \in Handles, MakeWeak(t, g, h)
        PROVE  Ownership!Next
    <3>1. /\ ref[g] # Null /\ ref[h] = Null /\ phase' = phase
          /\ ref' = [ref EXCEPT ![h] = [kind |-> "weak", obj |-> ref[g].obj, owner |-> t]]
      BY <2>2 DEF MakeWeak, Owns, IsFree
    <3>2. Ownership!Share(g, h) \/ Ownership!Observe(g, h)
      BY <1>3, <3>1
    <3>3. QED BY <3>2 DEF Ownership!Next
  <2>3. ASSUME NEW g \in Handles, NEW h \in Handles, LockLoad(t, g, h)
        PROVE  UNCHANGED <<AState, APoints>>
    BY <2>3, <1>8 DEF LockLoad
  <2>4. ASSUME NEW h \in Handles, Drop(t, h)
        PROVE  Ownership!Next
    BY <2>4, AbstractRelease DEF Drop, Owns, Ownership!Next
  <2>5. ASSUME NEW h \in Handles, DropStackHolder(t, h)
        PROVE  Ownership!Next
    BY <2>5, <1>4 DEF Ownership!Next
  <2>6. ASSUME NEW o \in Objects, NEW h \in Handles, NEW kind \in {"strong", "stack"},
               Make(t, o, h, kind)
        PROVE  Ownership!Next
    BY <2>6, <1>2 DEF Ownership!Next
  <2>7. QED BY <1>9, <2>1, <2>2, <2>3, <2>4, <2>5, <2>6, <1>7 DEF Operation
<1>10. ASSUME NEW t \in Threads, LockStep(t)
       PROVE  Ownership!Next \/ UNCHANGED <<AState, APoints>>
  <2>1. CASE LockExchange(t)
    <3> DEFINE g == lock[t].from
               h == lock[t].to
    <3>1. /\ lock[t] \in Locks /\ ref[h] = Null /\ phase[ref[g].obj] = "live"
          /\ ref[g] # Null /\ phase' = phase
          /\ ref' = [ref EXCEPT ![h] = [kind |-> "strong", obj |-> ref[g].obj, owner |-> t]]
      BY <2>1, LockExchangeAlive DEF LockExchange, Locked, IInv, LockInv, OwnsWeak, Owns
    <3>2. g \in Handles /\ h \in Handles
      BY <3>1 DEF Locks
    <3>3. Ownership!Share(g, h) \/ Ownership!Observe(g, h)
      BY <1>3, <3>1, <3>2
    <3>4. QED BY <3>2, <3>3 DEF Ownership!Next
  <2>2. QED BY <1>10, <2>1, <1>8 DEF LockStep, LockExpired, LockRetry
<1>11. ASSUME NEW t \in Threads, Teardown(t)
       PROVE  Ownership!Next
  <2>1. CASE ReleaseMember(t)
    <3>1. PICK h \in Members(Top(t)) : Release(t, h)
      BY <2>1 DEF ReleaseMember
    <3>2. h \in Handles /\ ref[h] # Null
      BY <3>1 DEF Members
    <3>3. QED BY <3>1, <3>2, AbstractRelease DEF Ownership!Next
  <2>2. QED BY <1>11, <2>1, <1>5, <1>6 DEF Teardown, Ownership!Next
<1>12. QED BY <1>1, <1>9, <1>10, <1>11 DEF Next

\* The counters implement shared ownership for any number of threads and handles.
THEOREM CountersImplementOwnership == Spec => ImplementsSharedOwnership
<1>1. Init => Ownership!Init
  BY DEF Init, Ownership!Init, StateOf, StateIn, PointsOf
<1>2. IInv /\ [Next]_vars => [Ownership!Next]_(Ownership!vars)
  BY AbstractStep DEF Ownership!vars, AState, APoints
<1>3. QED BY <1>1, <1>2, Invariance, PTL DEF Spec, Ownership!Spec, ImplementsSharedOwnership
=============================================================================
