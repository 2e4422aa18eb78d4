--------------------------- MODULE LuaCacheProofs ---------------------------
(***************************************************************************)
(* The references between C++ and Lua are exact for any number of objects, *)
(* pointers and userdata, whatever finalizers do.  IInv is the inductive   *)
(* invariant: the counts, whose entry reftbl has, what the calls of        *)
(* Cached::Create() rely on across lua_newuserdata(), and whom the         *)
(* collector still owes a finalizer.                                       *)
(***************************************************************************)
EXTENDS LuaCacheProps, FiniteSetTheorems, SequenceTheorems, TLAPS

\* What has left finobj for tobefnz does not return.
ListsApart == finobj \cap tobefnz = {}

\* Each call of Cached::Create() is given a reference that C++ keeps, or the T& out of
\* a userdata on the stack; if the pointer has an entry by now, a call inside it made it.
FrameInv(f) ==
  /\ f.from = Null => held[Ctrl[f.ptr]] > 0
  /\ f.from # Null => /\ f.from \in reached
                      /\ Usable(f.from) => Ctrl[pointer[f.from]] = Ctrl[f.ptr]
  /\ reftbl[f.ptr] # Null => f.ptr \in reentered

PushInv == \A i \in DOMAIN pushing : FrameInv(pushing[i])

\* A userdata that Lua has and that is marked for finalization is the one in the cache,
\* but for pointers that were overtaken or pushed inside lua_newuserdata().
EntryInv ==
  \A u \in reached \cap finobj : pointer[u] \notin overtaken \cup reentered => reftbl[pointer[u]] = u

\* A finalizer is owed to each userdata that has a reference, but for what is forsaken; once the
\* state closes, to what is pending only, and once it is closed, to none.
Owed(u) == u \in tobefnz \/ (u \in finobj /\ status \notin {"closing", "closed"})

OwedInv ==
  /\ \A u \in forsaken : Usable(u)
  /\ \A u \in Userdata : Usable(u) /\ u \notin forsaken => Owed(u)
  /\ status = "closed" => pushing = <<>> /\ tobefnz = {}

IInv == TypeOK /\ HeldExactly /\ HitsUsable /\ ListsApart /\ PushInv /\ EntryInv /\ OwedInv

\* A userdata is finitely often there to be counted.
LEMMA HoldersAreNat ==
  ASSUME NEW o \in Objects
  PROVE  /\ IsFiniteSet(Holders(o)) /\ Cardinality(Holders(o)) \in Nat
         /\ IsFiniteSet(Holders(o))' /\ Cardinality(Holders(o))' \in Nat
<1>1. Holders(o) \in SUBSET Userdata /\ Holders(o)' \in SUBSET Userdata
  BY DEF Holders
<1>2. IsFiniteSet(Holders(o)) /\ IsFiniteSet(Holders(o)')
  BY <1>1, FS_Subset, LuaCacheAssumption
<1>3. QED BY <1>2, FS_CardinalityType

\* A userdata that is filled holds one more reference to its object, none to others.
LEMMA FillUserdata ==
  ASSUME NEW u \in Userdata, NEW p \in Pointers, TypeOK, ~Usable(u),
         pointer' = [pointer EXCEPT ![u] = p]
  PROVE  \A o \in Objects : Cardinality(Holders(o))'
           = Cardinality(Holders(o)) + (IF Ctrl[p] = o THEN 1 ELSE 0)
<1> SUFFICES ASSUME NEW o \in Objects
             PROVE  Cardinality(Holders(o))'
                      = Cardinality(Holders(o)) + (IF Ctrl[p] = o THEN 1 ELSE 0)
  OBVIOUS
<1>1. Holders(o)' = IF Ctrl[p] = o THEN Holders(o) \cup {u} ELSE Holders(o)
  BY LuaCacheAssumption DEF Holders, Usable, TypeOK
<1>2. u \notin Holders(o)
  BY DEF Holders
<1>3. Cardinality(Holders(o) \cup {u}) = Cardinality(Holders(o)) + 1
  BY <1>2, HoldersAreNat, FS_AddElement
<1>4. QED BY <1>1, <1>3, HoldersAreNat

\* One that is finalized gives back one.
LEMMA EmptyUserdata ==
  ASSUME NEW u \in Userdata, TypeOK, Usable(u), pointer' = [pointer EXCEPT ![u] = Null]
  PROVE  /\ \A o \in Objects : Cardinality(Holders(o))'
              = Cardinality(Holders(o)) - (IF Ctrl[pointer[u]] = o THEN 1 ELSE 0)
         /\ Cardinality(Holders(Ctrl[pointer[u]])) >= 1
<1>0. Ctrl[pointer[u]] \in Objects
  BY LuaCacheAssumption DEF TypeOK, Usable
<1>1. ASSUME NEW o \in Objects
      PROVE  /\ Cardinality(Holders(o))'
                  = Cardinality(Holders(o)) - (IF Ctrl[pointer[u]] = o THEN 1 ELSE 0)
             /\ Ctrl[pointer[u]] = o => Cardinality(Holders(o)) >= 1
  <2>1. Holders(o)' = Holders(o) \ {u}
    BY DEF Holders, Usable, TypeOK
  <2>2. u \in Holders(o) <=> Ctrl[pointer[u]] = o
    BY DEF Holders
  <2>3. Cardinality(Holders(o) \ {u})
          = IF u \in Holders(o) THEN Cardinality(Holders(o)) - 1 ELSE Cardinality(Holders(o))
    BY HoldersAreNat, FS_RemoveElement
  <2>4. u \in Holders(o) => Cardinality(Holders(o)) # 0
    BY HoldersAreNat, FS_EmptySet
  <2>5. QED BY <2>1, <2>2, <2>3, <2>4, HoldersAreNat
<1>2. QED BY <1>0, <1>1

\* Where no userdata changes, their counts do not.
LEMMA SameUserdata ==
  ASSUME pointer' = pointer
  PROVE  \A o \in Objects : Cardinality(Holders(o))' = Cardinality(Holders(o))
<1>1. \A o \in Objects : Holders(o)' = Holders(o)
  BY DEF Holders, Usable
<1>2. QED BY <1>1

\* Objects whose counters are left alone keep their references.
LEMMA CountsKept ==
  ASSUME HeldExactly, UNCHANGED <<phase, held, strong, pointer>>,
         finobj' \cup tobefnz' \subseteq finobj \cup tobefnz
  PROVE  HeldExactly'
<1>1. \A o \in Objects : Cardinality(Holders(o))' = Cardinality(Holders(o))
  BY SameUserdata
<1>2. QED BY <1>1 DEF HeldExactly, Usable

\* Something that a userdata holds is alive.
LEMMA HeldIsLive ==
  ASSUME TypeOK, HeldExactly, NEW u \in Userdata, Usable(u)
  PROVE  Ctrl[pointer[u]] \in Objects /\ phase[Ctrl[pointer[u]]] = "live"
<1> DEFINE o == Ctrl[pointer[u]]
<1>1. o \in Objects /\ u \in Holders(o)
  BY LuaCacheAssumption DEF TypeOK, Usable, Holders
<1>2. Cardinality(Holders(o)) # 0
  BY <1>1, HoldersAreNat, FS_EmptySet
<1>3. QED BY <1>1, <1>2, HoldersAreNat DEF TypeOK, HeldExactly
-----------------------------------------------------------------------------
Frames == [ptr : Pointers, from : Userdata \cup {Null}]

\* A call of Cached::Create() leaves those that it is in as they are.
LEMMA ReturnKeeps ==
  ASSUME TypeOK, pushing # <<>>, Return
  PROVE  /\ pushing' \in Seq(Frames) /\ Len(pushing) \in DOMAIN pushing
         /\ DOMAIN pushing' \subseteq DOMAIN pushing /\ DOMAIN pushing' = 1..Len(pushing) - 1
         /\ \A i \in DOMAIN pushing' : pushing'[i] = pushing[i]
<1>0. pushing \in Seq(Frames) /\ Len(pushing) \in Nat /\ DOMAIN pushing = 1..Len(pushing)
  BY LenProperties DEF TypeOK, Frames
<1>1. Len(pushing) >= 1
  BY <1>0, EmptySeq
<1> DEFINE n == Len(pushing) - 1
<1>2. n \in Nat /\ n \in Int /\ 1 \in Int /\ \A i \in 1..n : pushing[i] \in Frames
  BY <1>0, <1>1, ElementOfSeq
<1>3. /\ SubSeq(pushing, 1, n) \in Seq(Frames)
      /\ Len(SubSeq(pushing, 1, n)) = IF 1 <= n THEN n - 1 + 1 ELSE 0
      /\ \A i \in 1..n - 1 + 1 : SubSeq(pushing, 1, n)[i] = pushing[1 + i - 1]
  BY <1>2, SubSeqProperties
<1>4. DOMAIN SubSeq(pushing, 1, n) = 1..n
  BY <1>2, <1>3, LenProperties
<1>5. QED BY <1>0, <1>1, <1>2, <1>3, <1>4 DEF Return

\* What is pushed next is on top.
LEMMA EnterKeeps ==
  ASSUME TypeOK, NEW f \in Frames, pushing' = Append(pushing, f)
  PROVE  /\ pushing' \in Seq(Frames)
         /\ \A i \in DOMAIN pushing' : (i \in DOMAIN pushing /\ pushing'[i] = pushing[i])
                                       \/ pushing'[i] = f
<1>0. pushing \in Seq(Frames) /\ Len(pushing) \in Nat /\ DOMAIN pushing = 1..Len(pushing)
  BY LenProperties DEF TypeOK, Frames
<1>1. /\ pushing' \in Seq(Frames) /\ Len(pushing') = Len(pushing) + 1
      /\ \A i \in 1..Len(pushing) : pushing'[i] = pushing[i]
      /\ pushing'[Len(pushing) + 1] = f
  BY <1>0, AppendProperties
<1>2. DOMAIN pushing' = 1..Len(pushing) + 1
  BY <1>1, LenProperties
<1>3. QED BY <1>0, <1>1, <1>2

LEMMA FramesTyped ==
  ASSUME TypeOK
  PROVE  \A i \in DOMAIN pushing :
           /\ pushing[i] \in Frames /\ pushing[i].ptr \in Pointers
           /\ Ctrl[pushing[i].ptr] \in Objects /\ pushing[i].from \in Userdata \cup {Null}
<1>1. pushing \in Seq(Frames) /\ DOMAIN pushing = 1..Len(pushing)
  BY LenProperties DEF TypeOK, Frames
<1>2. \A i \in DOMAIN pushing : pushing[i] \in Frames
  BY <1>1, ElementOfSeq
<1>3. QED BY <1>2, LuaCacheAssumption DEF Frames
-----------------------------------------------------------------------------
\* The inductive step, one lemma for each action or group of alike ones.
LEMMA MakeStep ==
  ASSUME IInv, NEW o \in Objects, Make(o)
  PROVE  IInv'
<1>0. UNCHANGED <<pointer, reached, finobj, tobefnz, reftbl, pushing, status,
                  overtaken, reentered, forsaken>>
  BY DEF Make, userdata, history
<1>1. TypeOK'
  <2>1. /\ held' \in [Objects -> 0..MaxHeld] /\ strong' \in [Objects -> Nat]
        /\ phase' \in [Objects -> {"none", "live", "gone"}]
    BY LuaCacheAssumption DEF IInv, TypeOK, Make
  <2>2. QED BY <1>0, <2>1 DEF IInv, TypeOK
<1>2. HeldExactly'
  <2>1. held[o] = 0 /\ Cardinality(Holders(o)) = 0
    BY HoldersAreNat DEF IInv, TypeOK, HeldExactly, Make
  <2>2. \A x \in Objects : Cardinality(Holders(x))' = Cardinality(Holders(x))
    BY <1>0, SameUserdata
  <2>3. \A x \in Objects : strong'[x] = held'[x] + Cardinality(Holders(x))'
    BY <2>1, <2>2 DEF IInv, TypeOK, HeldExactly, Make
  <2>4. \A x \in Objects : phase'[x] = "live" <=> strong'[x] > 0
    BY DEF IInv, TypeOK, HeldExactly, Make
  <2>5. QED BY <1>0, <2>3, <2>4 DEF IInv, HeldExactly, Usable
<1>3. PushInv'
  <2>1. \A x \in Objects : held[x] > 0 => held'[x] > 0
    BY DEF IInv, TypeOK, Make
  <2>2. QED BY <1>0, <2>1, FramesTyped DEF IInv, PushInv, FrameInv, Usable
<1>4. HitsUsable' /\ ListsApart' /\ EntryInv'
  BY <1>0 DEF IInv, HitsUsable, ListsApart, EntryInv
<1>5. OwedInv'
  BY <1>0 DEF IInv, OwedInv, Owed, Usable
<1>6. QED BY <1>1, <1>2, <1>3, <1>4, <1>5 DEF IInv

\* C++ keeps the references that calls of Cached::Create() were given.
LEMMA DropStep ==
  ASSUME IInv, NEW o \in Objects, Drop(o)
  PROVE  IInv'
<1>0. UNCHANGED <<pointer, reached, finobj, tobefnz, reftbl, pushing, status,
                  overtaken, reentered, forsaken>>
  BY DEF Drop, userdata, history
<1>a. strong[o] >= 1
  BY HoldersAreNat DEF IInv, TypeOK, HeldExactly, Drop
<1>1. TypeOK'
  <2>1. held' \in [Objects -> 0..MaxHeld]
    BY LuaCacheAssumption DEF IInv, TypeOK, Drop
  <2>2. strong' \in [Objects -> Nat] /\ phase' \in [Objects -> {"none", "live", "gone"}]
    BY <1>a DEF IInv, TypeOK, Drop, RemoveRef
  <2>3. QED BY <1>0, <2>1, <2>2 DEF IInv, TypeOK
<1>2. HeldExactly'
  <2>1. \A x \in Objects : Cardinality(Holders(x))' = Cardinality(Holders(x))
    BY <1>0, SameUserdata
  <2>2. \A x \in Objects : strong'[x] = held'[x] + Cardinality(Holders(x))'
    BY <2>1, HoldersAreNat DEF IInv, TypeOK, HeldExactly, Drop, RemoveRef
  <2>3. \A x \in Objects : phase'[x] = "live" <=> strong'[x] > 0
    BY <1>a DEF IInv, TypeOK, HeldExactly, Drop, RemoveRef
  <2>4. QED BY <1>0, <2>2, <2>3 DEF IInv, HeldExactly, Usable
<1>3. PushInv'
  <2> SUFFICES ASSUME NEW i \in DOMAIN pushing
               PROVE  FrameInv(pushing[i])'
    BY <1>0 DEF PushInv
  <2> DEFINE f == pushing[i]
  <2>1. FrameInv(f) /\ Ctrl[f.ptr] \in Objects
    BY FramesTyped DEF IInv, PushInv
  <2>2. ASSUME f.from = Null
        PROVE  held'[Ctrl[f.ptr]] > 0
    <3>1. CASE Ctrl[f.ptr] = o
      <4>1. Kept(o)
        BY <2>2, <3>1 DEF Kept
      <4>2. QED BY <3>1, <4>1 DEF IInv, TypeOK, Drop
    <3>2. CASE Ctrl[f.ptr] # o
      BY <2>1, <2>2, <3>2 DEF IInv, TypeOK, Drop, FrameInv
    <3>3. QED BY <3>1, <3>2
  <2>3. QED BY <1>0, <2>1, <2>2 DEF FrameInv, Usable
<1>4. HitsUsable' /\ ListsApart' /\ EntryInv'
  BY <1>0 DEF IInv, HitsUsable, ListsApart, EntryInv
<1>5. OwedInv'
  BY <1>0 DEF IInv, OwedInv, Owed, Usable
<1>6. QED BY <1>1, <1>2, <1>3, <1>4, <1>5 DEF IInv

LEMMA GetStep ==
  ASSUME IInv, NEW u \in Userdata, Get(u)
  PROVE  IInv'
<1> DEFINE o == Ctrl[pointer[u]]
<1>0. o \in Objects /\ phase[o] = "live" /\ held[o] < MaxHeld
  BY HeldIsLive DEF IInv, Get
<1>00. /\ held' = [held EXCEPT ![o] = @ + 1] /\ strong' = [strong EXCEPT ![o] = @ + 1]
       /\ UNCHANGED <<phase, pointer, reached, finobj, tobefnz, reftbl, pushing, status,
                      overtaken, reentered, forsaken>>
  BY DEF Get, AddRef, userdata, history
<1> HIDE DEF o
<1>1. TypeOK'
  <2>1. held' \in [Objects -> 0..MaxHeld] /\ strong' \in [Objects -> Nat]
    BY <1>0, <1>00, LuaCacheAssumption DEF IInv, TypeOK
  <2>2. QED BY <1>00, <2>1 DEF IInv, TypeOK
<1>2. HeldExactly'
  <2>1. \A x \in Objects : Cardinality(Holders(x))' = Cardinality(Holders(x))
    BY <1>00, SameUserdata
  <2>2. \A x \in Objects : strong'[x] = held'[x] + Cardinality(Holders(x))'
    BY <1>0, <1>00, <2>1, HoldersAreNat DEF IInv, TypeOK, HeldExactly
  <2>3. \A x \in Objects : phase'[x] = "live" <=> strong'[x] > 0
    BY <1>0, <1>00 DEF IInv, TypeOK, HeldExactly
  <2>4. QED BY <1>00, <2>2, <2>3 DEF IInv, HeldExactly, Usable
<1>3. PushInv'
  <2>1. \A x \in Objects : held[x] > 0 => held'[x] > 0
    BY <1>0, <1>00 DEF IInv, TypeOK
  <2>2. QED BY <1>00, <2>1, FramesTyped DEF IInv, PushInv, FrameInv, Usable
<1>4. HitsUsable' /\ ListsApart' /\ EntryInv'
  BY <1>00 DEF IInv, HitsUsable, ListsApart, EntryInv
<1>5. OwedInv'
  BY <1>00 DEF IInv, OwedInv, Owed, Usable
<1>6. QED BY <1>1, <1>2, <1>3, <1>4, <1>5 DEF IInv

LEMMA PushHitStep ==
  ASSUME IInv, NEW p \in Pointers, PushHit(p)
  PROVE  IInv'
<1> DEFINE u == reftbl[p]
<1>0. u \in Userdata /\ pointer[u] = p /\ reached' = reached \cup {u}
  BY DEF IInv, TypeOK, HitsUsable, PushHit
<1>00. UNCHANGED <<phase, held, strong, pointer, finobj, tobefnz, reftbl, pushing, status,
                   overtaken, reentered, forsaken>>
  BY DEF PushHit, counts, history
<1>1. TypeOK'
  BY <1>0, <1>00 DEF IInv, TypeOK
<1>2. HeldExactly'
  BY <1>00, CountsKept DEF IInv
<1>3. PushInv'
  BY <1>0, <1>00 DEF IInv, PushInv, FrameInv, Usable
<1>4. EntryInv'
  BY <1>0, <1>00 DEF IInv, EntryInv
<1>5. HitsUsable' /\ ListsApart' /\ OwedInv'
  BY <1>00 DEF IInv, HitsUsable, ListsApart, OwedInv, Owed, Usable
<1>6. QED BY <1>1, <1>2, <1>3, <1>4, <1>5 DEF IInv

LEMMA PushMissStep ==
  ASSUME IInv, NEW p \in Pointers, PushMiss(p)
  PROVE  IInv'
<1>0. UNCHANGED <<phase, held, strong, pointer, reached, finobj, tobefnz, reftbl, status,
                  overtaken, reentered, forsaken>> /\ Running
  BY DEF PushMiss, Enter, counts, history
<1>a. PICK from \in Userdata \cup {Null} :
        Has(p, from) /\ pushing' = Append(pushing, [ptr |-> p, from |-> from])
  BY DEF PushMiss, Enter
<1> DEFINE f == [ptr |-> p, from |-> from]
<1>b. f \in Frames /\ FrameInv(f)'
  BY <1>0, <1>a DEF PushMiss, Has, FrameInv, Frames, Usable
<1>c. /\ pushing' \in Seq(Frames)
      /\ \A i \in DOMAIN pushing' : (i \in DOMAIN pushing /\ pushing'[i] = pushing[i])
                                    \/ pushing'[i] = f
  BY <1>a, <1>b, EnterKeeps DEF IInv
<1> HIDE DEF f
<1>1. TypeOK'
  BY <1>0, <1>c DEF IInv, TypeOK, Frames
<1>2. HeldExactly'
  BY <1>0, CountsKept DEF IInv
<1>3. PushInv'
  <2> SUFFICES ASSUME NEW i \in DOMAIN pushing'
               PROVE  FrameInv(pushing[i])'
    BY DEF PushInv
  <2>1. CASE pushing'[i] = f
    BY <1>b, <2>1 DEF FrameInv, Usable
  <2>2. CASE i \in DOMAIN pushing /\ pushing'[i] = pushing[i]
    BY <1>0, <2>2 DEF IInv, PushInv, FrameInv, Usable
  <2>3. QED BY <1>c, <2>1, <2>2
<1>4. HitsUsable' /\ ListsApart' /\ EntryInv'
  BY <1>0 DEF IInv, HitsUsable, ListsApart, EntryInv
<1>5. OwedInv'
  BY <1>0 DEF IInv, OwedInv, Owed, Usable, Running
<1>6. QED BY <1>1, <1>2, <1>3, <1>4, <1>5 DEF IInv

\* An entry is replaced only if a push inside lua_newuserdata() has made it, which is noted
\* in reentered; a new userdata that reftbl does not get is not in Lua's reach.
LEMMA PushCreateStep ==
  ASSUME IInv, NEW u \in Userdata, PushCreate(u)
  PROVE  IInv'
<1> DEFINE p == Top.ptr
           o == Ctrl[p]
<1>0. /\ p \in Pointers /\ p # Null /\ o \in Objects /\ phase[o] = "live"
      /\ ~Usable(u) /\ u \notin reached /\ u \notin finobj \cup tobefnz
      /\ status \in {"open", "closing"}
  <2>1. Len(pushing) \in DOMAIN pushing
    BY ReturnKeeps DEF IInv, PushCreate
  <2>2. QED BY <2>1, FramesTyped, LuaCacheAssumption
        DEF IInv, TypeOK, HeldExactly, PushCreate, Fresh, Running, Top
<1>00. /\ pointer' = [pointer EXCEPT ![u] = p] /\ strong' = [strong EXCEPT ![o] = @ + 1]
       /\ finobj' = finobj \cup {u}
       /\ UNCHANGED <<phase, held, tobefnz, status, overtaken>>
       /\ \/ /\ reftbl' = [reftbl EXCEPT ![p] = u] /\ reached' = reached \cup {u}
             /\ reentered' = IF \E i \in 1..Len(pushing) - 1 : pushing[i].ptr = p
                             THEN reentered \cup {p} ELSE reentered
          \/ reftbl' = reftbl /\ reached' = reached /\ reentered' = reentered
       /\ forsaken' = IF status = "closing" THEN forsaken \cup {u} ELSE forsaken
  BY DEF PushCreate, AddRef
<1>c. /\ pushing' \in Seq(Frames) /\ DOMAIN pushing' \subseteq DOMAIN pushing
      /\ DOMAIN pushing' = 1..Len(pushing) - 1
      /\ \A i \in DOMAIN pushing' : pushing'[i] = pushing[i]
  BY ReturnKeeps DEF IInv, PushCreate
<1>d. reftbl[p] # Null => p \in reentered
  BY ReturnKeeps DEF IInv, PushCreate, PushInv, FrameInv, Top
<1> HIDE DEF p, o
<1>1. TypeOK'
  <2>1. strong' \in [Objects -> Nat] /\ pointer' \in [Userdata -> Pointers \cup {Null}]
    BY <1>0, <1>00 DEF IInv, TypeOK
  <2>2. reftbl' \in [Pointers -> Userdata \cup {Null}] /\ reached' \subseteq Userdata
    BY <1>0, <1>00 DEF IInv, TypeOK
  <2>3. reentered' \subseteq Pointers /\ forsaken' \subseteq Userdata
    BY <1>0, <1>00 DEF IInv, TypeOK
  <2>4. QED BY <1>00, <1>c, <2>1, <2>2, <2>3 DEF IInv, TypeOK, Frames
<1>2. HeldExactly'
  <2>1. \A x \in Objects : Cardinality(Holders(x))'
          = Cardinality(Holders(x)) + (IF o = x THEN 1 ELSE 0)
    BY <1>0, <1>00, FillUserdata DEF IInv, o
  <2>2. \A x \in Objects : strong'[x] = held'[x] + Cardinality(Holders(x))'
    BY <1>0, <1>00, <2>1, HoldersAreNat DEF IInv, TypeOK, HeldExactly
  <2>3. \A x \in Objects : phase'[x] = "live" <=> strong'[x] > 0
    BY <1>0, <1>00 DEF IInv, TypeOK, HeldExactly
  <2>4. \A v \in finobj' \cup tobefnz' : Usable(v)'
    BY <1>0, <1>00 DEF IInv, TypeOK, HeldExactly, Usable
  <2>5. QED BY <2>2, <2>3, <2>4 DEF HeldExactly
<1>3. HitsUsable'
  <2> SUFFICES ASSUME NEW q \in Pointers, reftbl'[q] # Null
               PROVE  /\ pointer'[reftbl'[q]] = q
                      /\ reftbl'[q] \in IF status' = "open" THEN finobj' ELSE finobj' \cup tobefnz'
    BY DEF HitsUsable
  <2>1. CASE reftbl'[q] = reftbl[q]
    <3>1. /\ pointer[reftbl[q]] = q /\ reftbl[q] \in Userdata
          /\ reftbl[q] \in IF status = "open" THEN finobj ELSE finobj \cup tobefnz
      BY <2>1 DEF IInv, TypeOK, HitsUsable
    <3>2. reftbl[q] # u
      BY <1>0, <3>1
    <3>3. QED BY <2>1, <1>00, <3>1, <3>2 DEF IInv, TypeOK
  <2>2. CASE reftbl'[q] # reftbl[q]
    <3>1. q = p /\ reftbl'[q] = u
      BY <2>2, <1>0, <1>00 DEF IInv, TypeOK
    <3>2. QED BY <1>0, <1>00, <3>1 DEF IInv, TypeOK
  <2>3. QED BY <2>1, <2>2
<1>4. PushInv'
  <2> SUFFICES ASSUME NEW i \in DOMAIN pushing'
               PROVE  FrameInv(pushing[i])'
    BY DEF PushInv
  <2>1. /\ i \in DOMAIN pushing /\ pushing'[i] = pushing[i] /\ FrameInv(pushing[i])
        /\ pushing[i].from \in Userdata \cup {Null} /\ pushing[i].ptr \in Pointers
    BY <1>c, FramesTyped DEF IInv, PushInv
  <2>2. reftbl'[pushing[i].ptr] # Null => pushing[i].ptr \in reentered'
    <3>1. CASE reftbl' = reftbl \/ pushing[i].ptr # p
      BY <1>00, <2>1, <3>1 DEF IInv, TypeOK, FrameInv
    <3>2. CASE reftbl' # reftbl /\ pushing[i].ptr = p
      BY <1>00, <1>c, <3>2
    <3>3. QED BY <3>1, <3>2
  <2>3. QED BY <1>0, <1>00, <2>1, <2>2 DEF IInv, TypeOK, FrameInv, Usable
<1>5. EntryInv'
  <2> SUFFICES ASSUME NEW v \in reached' \cap finobj',
                      pointer'[v] \notin overtaken' \cup reentered'
               PROVE  reftbl'[pointer'[v]] = v
    BY DEF EntryInv
  <2>1. CASE v = u
    <3>1. pointer'[u] = p /\ reached' # reached
      BY <1>0, <1>00, <2>1 DEF IInv, TypeOK
    <3>2. QED BY <1>0, <1>00, <2>1, <3>1 DEF IInv, TypeOK
  <2>2. CASE v # u
    <3>1. /\ v \in reached \cap finobj /\ v \in Userdata
          /\ pointer'[v] = pointer[v] /\ pointer[v] \in Pointers
      BY <1>00, <2>2 DEF IInv, TypeOK, HeldExactly, Usable
    <3>2. pointer[v] \notin overtaken \cup reentered
      BY <1>00, <3>1
    <3>3. reftbl[pointer[v]] = v
      BY <3>1, <3>2 DEF IInv, EntryInv
    <3>4. pointer[v] # p
      BY <1>d, <3>1, <3>2, <3>3, LuaCacheAssumption
    <3>5. QED BY <1>00, <3>1, <3>3, <3>4, <1>0 DEF IInv, TypeOK
  <2>3. QED BY <2>1, <2>2
<1>6. ListsApart'
  BY <1>0, <1>00 DEF IInv, ListsApart
<1>7. OwedInv'
  <2>1. \A v \in forsaken' : Usable(v)'
    BY <1>0, <1>00 DEF IInv, TypeOK, OwedInv, Usable
  <2>2. ASSUME NEW v \in Userdata, Usable(v)', v \notin forsaken'
        PROVE  Owed(v)'
    BY <1>0, <1>00, <2>2 DEF IInv, TypeOK, OwedInv, Owed, Usable
  <2>3. QED BY <1>0, <1>00, <2>1, <2>2 DEF OwedInv
<1>8. QED BY <1>1, <1>2, <1>3, <1>4, <1>5, <1>6, <1>7 DEF IInv

LEMMA PushGoneStep ==
  ASSUME IInv, PushGone
  PROVE  IInv'
<1>0. UNCHANGED <<phase, held, strong, pointer, reached, finobj, tobefnz, reftbl, pushing,
                  overtaken, reentered, forsaken>> /\ status' = "undefined" /\ Running
  BY DEF PushGone, counts, history
<1>1. TypeOK'
  BY <1>0 DEF IInv, TypeOK
<1>2. HeldExactly'
  BY <1>0, CountsKept DEF IInv
<1>3. HitsUsable'
  BY <1>0 DEF IInv, HitsUsable
<1>4. OwedInv'
  BY <1>0 DEF IInv, OwedInv, Owed, Usable
<1>5. ListsApart' /\ PushInv' /\ EntryInv'
  BY <1>0 DEF IInv, ListsApart, PushInv, FrameInv, EntryInv, Usable
<1>6. QED BY <1>1, <1>2, <1>3, <1>4, <1>5 DEF IInv

LEMMA PushFailStep ==
  ASSUME IInv, PushFail
  PROVE  IInv'
<1>0. UNCHANGED <<phase, held, strong, pointer, reached, finobj, tobefnz, reftbl, status,
                  overtaken, reentered, forsaken>> /\ Running
  BY DEF PushFail, counts, history
<1>a. /\ pushing' \in Seq(Frames) /\ DOMAIN pushing' \subseteq DOMAIN pushing
      /\ \A i \in DOMAIN pushing' : pushing'[i] = pushing[i]
  BY ReturnKeeps DEF IInv, PushFail
<1>1. TypeOK'
  BY <1>0, <1>a DEF IInv, TypeOK, Frames
<1>2. HeldExactly'
  BY <1>0, CountsKept DEF IInv
<1>3. PushInv'
  BY <1>0, <1>a DEF IInv, PushInv, FrameInv, Usable
<1>4. OwedInv'
  BY <1>0 DEF IInv, OwedInv, Owed, Usable, Running
<1>5. HitsUsable' /\ ListsApart' /\ EntryInv'
  BY <1>0 DEF IInv, HitsUsable, ListsApart, EntryInv
<1>6. QED BY <1>1, <1>2, <1>3, <1>4, <1>5 DEF IInv

\* What the C++ code has a T& out of stays on the stack.
LEMMA ForgetStep ==
  ASSUME IInv, NEW u \in Userdata, Forget(u)
  PROVE  IInv'
<1>0. /\ UNCHANGED <<phase, held, strong, pointer, finobj, tobefnz, reftbl, pushing, status,
                     overtaken, reentered, forsaken>>
      /\ reached' = reached \ {u} /\ \A i \in DOMAIN pushing : pushing[i].from # u
  BY DEF Forget, counts, history
<1>1. TypeOK'
  BY <1>0 DEF IInv, TypeOK
<1>2. HeldExactly'
  BY <1>0, CountsKept DEF IInv
<1>3. PushInv'
  BY <1>0 DEF IInv, PushInv, FrameInv, Usable
<1>4. HitsUsable' /\ ListsApart' /\ EntryInv' /\ OwedInv'
  BY <1>0 DEF IInv, HitsUsable, ListsApart, EntryInv, OwedInv, Owed, Usable
<1>5. QED BY <1>1, <1>2, <1>3, <1>4 DEF IInv

\* The collector takes what Lua does not reach: no entry that is still needed.
LEMMA CollectStep ==
  ASSUME IInv, Collect
  PROVE  IInv'
<1>0. PICK S \in SUBSET {u \in Userdata \ reached : Usable(u)} :
        /\ tobefnz' = tobefnz \cup (S \cap finobj) /\ finobj' = finobj \ S /\ Running
        /\ reftbl' = [p \in Pointers |-> IF reftbl[p] \in S THEN Null ELSE reftbl[p]]
        /\ UNCHANGED <<phase, held, strong, pointer, reached, pushing, status,
                       overtaken, reentered, forsaken>>
  BY DEF Collect, counts, history
<1>1. TypeOK'
  BY <1>0 DEF IInv, TypeOK
<1>2. HeldExactly'
  <2>1. finobj' \cup tobefnz' \subseteq finobj \cup tobefnz
    BY <1>0
  <2>2. QED BY <1>0, <2>1, CountsKept DEF IInv
<1>3. HitsUsable'
  <2> SUFFICES ASSUME NEW q \in Pointers, reftbl'[q] # Null
               PROVE  /\ pointer'[reftbl'[q]] = q
                      /\ reftbl'[q] \in IF status' = "open" THEN finobj' ELSE finobj' \cup tobefnz'
    BY DEF HitsUsable
  <2>1. reftbl[q] # Null /\ reftbl[q] \notin S /\ reftbl'[q] = reftbl[q]
    BY <1>0
  <2>2. QED BY <1>0, <2>1 DEF IInv, HitsUsable
<1>4. ListsApart'
  BY <1>0 DEF IInv, ListsApart
<1>5. PushInv'
  <2>1. \A p \in Pointers : reftbl'[p] # Null => reftbl[p] # Null
    BY <1>0
  <2>2. QED BY <1>0, <2>1, FramesTyped DEF IInv, PushInv, FrameInv, Usable
<1>6. EntryInv'
  <2> SUFFICES ASSUME NEW v \in reached \cap finobj, v \notin S,
                      pointer[v] \notin overtaken \cup reentered
               PROVE  reftbl'[pointer[v]] = v
    BY <1>0 DEF EntryInv
  <2>1. pointer[v] \in Pointers /\ reftbl[pointer[v]] = v
    BY DEF IInv, TypeOK, HeldExactly, Usable, EntryInv
  <2>2. QED BY <1>0, <2>1
<1>7. OwedInv'
  BY <1>0 DEF IInv, TypeOK, OwedInv, Owed, Usable, Running
<1>8. QED BY <1>1, <1>2, <1>3, <1>4, <1>5, <1>6, <1>7 DEF IInv

LEMMA ResurrectStep ==
  ASSUME IInv, NEW u \in Userdata, Resurrect(u)
  PROVE  IInv'
<1>0. /\ UNCHANGED <<phase, held, strong, pointer, finobj, tobefnz, reftbl, pushing, status,
                     overtaken, reentered, forsaken>>
      /\ reached' = reached \cup {u} /\ u \in tobefnz
  BY DEF Resurrect, counts, history
<1>1. TypeOK'
  BY <1>0 DEF IInv, TypeOK
<1>2. HeldExactly'
  BY <1>0, CountsKept DEF IInv
<1>3. PushInv'
  BY <1>0 DEF IInv, PushInv, FrameInv, Usable
<1>4. EntryInv'
  BY <1>0 DEF IInv, ListsApart, EntryInv
<1>5. HitsUsable' /\ ListsApart' /\ OwedInv'
  BY <1>0 DEF IInv, HitsUsable, ListsApart, OwedInv, Owed, Usable
<1>6. QED BY <1>1, <1>2, <1>3, <1>4, <1>5 DEF IInv

\* Whoever calls GcFun, a T& out of its userdata is no longer counted.
LEMMA GcFunStep ==
  ASSUME IInv, NEW u \in Userdata, Usable(u), GcFun(u), Running
  PROVE  IInv'
<1> DEFINE p == pointer[u]
           o == Ctrl[p]
<1>0. p \in Pointers /\ p # Null /\ o \in Objects
  BY LuaCacheAssumption DEF IInv, TypeOK, Usable
<1>00. /\ reftbl' = [reftbl EXCEPT ![p] = Null]
       /\ overtaken' = IF reftbl[p] \in {u, Null} THEN overtaken ELSE overtaken \cup {p}
       /\ strong' = [strong EXCEPT ![o] = @ - 1]
       /\ phase' = IF strong[o] = 1 THEN [phase EXCEPT ![o] = "gone"] ELSE phase
       /\ pointer' = [pointer EXCEPT ![u] = Null]
       /\ finobj' = finobj \ {u} /\ tobefnz' = tobefnz \ {u} /\ forsaken' = forsaken \ {u}
       /\ UNCHANGED <<held, reached, pushing, status, reentered>>
  BY DEF GcFun, Clear, RemoveRef
<1>a. /\ \A x \in Objects : Cardinality(Holders(x))'
            = Cardinality(Holders(x)) - (IF o = x THEN 1 ELSE 0)
      /\ Cardinality(Holders(o)) >= 1
  BY <1>00, EmptyUserdata DEF IInv
<1> HIDE DEF o
<1>b. strong[o] >= 1
  BY <1>0, <1>a, HoldersAreNat DEF IInv, TypeOK, HeldExactly
<1> HIDE DEF p
<1>1. TypeOK'
  <2>1. strong' \in [Objects -> Nat] /\ phase' \in [Objects -> {"none", "live", "gone"}]
    BY <1>0, <1>00, <1>b DEF IInv, TypeOK
  <2>2. /\ pointer' \in [Userdata -> Pointers \cup {Null}]
        /\ reftbl' \in [Pointers -> Userdata \cup {Null}]
        /\ overtaken' \subseteq Pointers
    BY <1>0, <1>00 DEF IInv, TypeOK
  <2>3. QED BY <1>00, <2>1, <2>2 DEF IInv, TypeOK
<1>2. HeldExactly'
  <2>1. \A x \in Objects : strong'[x] = held'[x] + Cardinality(Holders(x))'
    BY <1>0, <1>00, <1>a, HoldersAreNat DEF IInv, TypeOK, HeldExactly
  <2>2. \A x \in Objects : phase'[x] = "live" <=> strong'[x] > 0
    BY <1>0, <1>00, <1>b DEF IInv, TypeOK, HeldExactly
  <2>3. \A v \in finobj' \cup tobefnz' : Usable(v)'
    BY <1>00 DEF IInv, TypeOK, HeldExactly, Usable
  <2>4. QED BY <2>1, <2>2, <2>3 DEF HeldExactly
<1>3. HitsUsable'
  <2> SUFFICES ASSUME NEW q \in Pointers, reftbl'[q] # Null
               PROVE  /\ pointer'[reftbl'[q]] = q
                      /\ reftbl'[q] \in IF status' = "open" THEN finobj' ELSE finobj' \cup tobefnz'
    BY DEF HitsUsable
  <2>1. q # p /\ reftbl'[q] = reftbl[q] /\ reftbl[q] \in Userdata
    BY <1>0, <1>00 DEF IInv, TypeOK
  <2>2. /\ pointer[reftbl[q]] = q
        /\ reftbl[q] \in IF status = "open" THEN finobj ELSE finobj \cup tobefnz
    BY <2>1, <1>00 DEF IInv, HitsUsable
  <2>3. reftbl[q] # u
    BY <2>1, <2>2 DEF p
  <2>4. QED BY <1>00, <2>1, <2>2, <2>3 DEF IInv, TypeOK
<1>4. PushInv'
  <2> SUFFICES ASSUME NEW i \in DOMAIN pushing
               PROVE  FrameInv(pushing[i])'
    BY <1>00 DEF PushInv
  <2>1. FrameInv(pushing[i]) /\ pushing[i].from \in Userdata \cup {Null}
    BY FramesTyped DEF IInv, PushInv
  <2>2. QED BY <1>00, <2>1 DEF IInv, TypeOK, FrameInv, Usable
<1>5. EntryInv'
  <2> SUFFICES ASSUME NEW v \in reached' \cap finobj',
                      pointer'[v] \notin overtaken' \cup reentered'
               PROVE  reftbl'[pointer'[v]] = v
    BY DEF EntryInv
  <2>1. /\ v # u /\ v \in reached \cap finobj /\ v \in Userdata
        /\ pointer'[v] = pointer[v] /\ pointer[v] \in Pointers
    BY <1>00 DEF IInv, TypeOK, HeldExactly, Usable
  <2>2. reftbl[pointer[v]] = v
    BY <1>00, <2>1 DEF IInv, EntryInv
  <2>3. pointer[v] # p
    BY <1>00, <2>1, <2>2, LuaCacheAssumption
  <2>4. QED BY <1>0, <1>00, <2>1, <2>2, <2>3 DEF IInv, TypeOK
<1>6. ListsApart'
  BY <1>00 DEF IInv, ListsApart
<1>7. OwedInv'
  <2>1. \A v \in forsaken' : Usable(v)'
    BY <1>00 DEF IInv, TypeOK, OwedInv, Usable
  <2>2. ASSUME NEW v \in Userdata, Usable(v)', v \notin forsaken'
        PROVE  Owed(v)'
    BY <1>00, <2>2 DEF IInv, TypeOK, OwedInv, Owed, Usable
  <2>3. QED BY <1>00, <2>1, <2>2 DEF OwedInv, Running
<1>8. QED BY <1>1, <1>2, <1>3, <1>4, <1>5, <1>6, <1>7 DEF IInv

\* A finalizer that fails has not touched the entry: there was none.
LEMMA ClearThrowsStep ==
  ASSUME IInv, NEW u \in tobefnz, ClearThrows(u), Running
  PROVE  IInv'
<1>0. /\ UNCHANGED <<phase, held, strong, pointer, reached, finobj, reftbl, pushing, status,
                     overtaken, reentered>>
      /\ tobefnz' = tobefnz \ {u} /\ forsaken' = forsaken \cup {u}
      /\ reftbl[pointer[u]] = Null
  BY DEF ClearThrows, counts
<1>1. TypeOK'
  BY <1>0 DEF IInv, TypeOK
<1>2. HeldExactly'
  <2>1. finobj' \cup tobefnz' \subseteq finobj \cup tobefnz
    BY <1>0
  <2>2. QED BY <1>0, <2>1, CountsKept DEF IInv
<1>3. HitsUsable'
  BY <1>0 DEF IInv, TypeOK, HitsUsable
<1>4. OwedInv'
  BY <1>0 DEF IInv, TypeOK, HeldExactly, OwedInv, Owed, Usable, Running
<1>5. ListsApart' /\ PushInv' /\ EntryInv'
  BY <1>0 DEF IInv, ListsApart, PushInv, FrameInv, EntryInv, Usable
<1>6. QED BY <1>1, <1>2, <1>3, <1>4, <1>5 DEF IInv

\* The finalizer is run on what is pending, or by hand on what Lua has.
LEMMA FinalizersStep ==
  ASSUME IInv, NEW u \in Userdata, Finalize(u) \/ ExplicitGc(u)
  PROVE  IInv'
<1>1. CASE Finalize(u)
  <2>1. Usable(u)
    BY <1>1 DEF Finalize, IInv, HeldExactly
  <2>2. QED BY <1>1, <2>1, GcFunStep, ClearThrowsStep DEF Finalize
<1>2. CASE ExplicitGc(u)
  BY <1>2, GcFunStep DEF ExplicitGc
<1>3. QED BY <1>1, <1>2

\* All that is marked for finalization becomes pending.
LEMMA CloseStep ==
  ASSUME IInv, Close
  PROVE  IInv'
<1>0. /\ UNCHANGED <<phase, held, strong, pointer, reached, reftbl, pushing,
                     overtaken, reentered, forsaken>>
      /\ status = "open" /\ status' = "closing" /\ pushing = <<>>
      /\ tobefnz' = tobefnz \cup finobj /\ finobj' = {}
  BY DEF Close, counts, history
<1>1. TypeOK'
  BY <1>0 DEF IInv, TypeOK
<1>2. HeldExactly'
  <2>1. finobj' \cup tobefnz' \subseteq finobj \cup tobefnz
    BY <1>0
  <2>2. QED BY <1>0, <2>1, CountsKept DEF IInv
<1>3. HitsUsable'
  BY <1>0 DEF IInv, HitsUsable
<1>4. OwedInv'
  BY <1>0 DEF IInv, OwedInv, Owed, Usable
<1>5. ListsApart' /\ PushInv' /\ EntryInv'
  BY <1>0 DEF IInv, ListsApart, PushInv, FrameInv, EntryInv, Usable
<1>6. QED BY <1>1, <1>2, <1>3, <1>4, <1>5 DEF IInv

\* What is freed without its finalizer was forsaken.
LEMMA FreeAllStep ==
  ASSUME IInv, FreeAll
  PROVE  IInv'
<1>0. /\ UNCHANGED <<phase, held, strong, pointer, tobefnz, pushing,
                     overtaken, reentered, forsaken>>
      /\ status = "closing" /\ status' = "closed" /\ pushing = <<>> /\ tobefnz = {}
      /\ reached' = {} /\ finobj' = {} /\ reftbl' = [p \in Pointers |-> Null]
  BY DEF FreeAll, counts, history
<1>1. TypeOK'
  BY <1>0 DEF IInv, TypeOK
<1>2. HeldExactly'
  BY <1>0, CountsKept DEF IInv
<1>3. HitsUsable'
  BY <1>0 DEF HitsUsable
<1>4. OwedInv'
  BY <1>0 DEF IInv, OwedInv, Owed, Usable
<1>5. PushInv'
  BY <1>0 DEF PushInv
<1>6. ListsApart' /\ EntryInv'
  BY <1>0 DEF ListsApart, EntryInv
<1>7. QED BY <1>1, <1>2, <1>3, <1>4, <1>5, <1>6 DEF IInv
-----------------------------------------------------------------------------
LEMMA Start ==
  ASSUME Init
  PROVE  IInv
<1>1. TypeOK
  <2>1. held \in [Objects -> 0..MaxHeld]
    BY LuaCacheAssumption DEF Init
  <2>2. pushing \in Seq([ptr : Pointers, from : Userdata \cup {Null}])
    BY EmptySeq DEF Init
  <2>3. QED BY <2>1, <2>2 DEF Init, TypeOK
<1>2. HeldExactly
  <2>1. \A o \in Objects : Holders(o) = {}
    BY DEF Init, Holders, Usable
  <2>2. \A o \in Objects : Cardinality(Holders(o)) = 0
    BY <2>1, FS_EmptySet
  <2>3. QED BY <2>2 DEF Init, HeldExactly
<1>3. PushInv
  BY EmptySeq DEF Init, PushInv
<1>4. QED BY <1>1, <1>2, <1>3
  DEF Init, IInv, HitsUsable, ListsApart, EntryInv, OwedInv, Usable

LEMMA Stutter ==
  ASSUME IInv, UNCHANGED vars
  PROVE  IInv'
<1>0. UNCHANGED <<phase, held, strong, pointer, reached, finobj, tobefnz, reftbl, pushing,
                  status, overtaken, reentered, forsaken>>
  BY DEF vars, counts, history
<1>1. HeldExactly'
  BY <1>0, CountsKept DEF IInv
<1>2. PushInv'
  BY <1>0 DEF IInv, PushInv, FrameInv, Usable
<1>3. QED BY <1>0, <1>1, <1>2
  DEF IInv, TypeOK, HitsUsable, ListsApart, EntryInv, OwedInv, Owed, Usable

\* Every step of C++, of Lua and of the collector keeps IInv.
LEMMA Step ==
  ASSUME IInv, [Next]_vars
  PROVE  IInv'
<1>1. ASSUME NEW o \in Objects, Make(o) \/ Drop(o)
      PROVE  IInv'
  BY <1>1, MakeStep, DropStep
<1>2. ASSUME NEW p \in Pointers, PushHit(p) \/ PushMiss(p)
      PROVE  IInv'
  BY <1>2, PushHitStep, PushMissStep
<1>3. ASSUME NEW u \in Userdata,
             \/ Get(u) \/ PushCreate(u) \/ Forget(u) \/ Resurrect(u)
             \/ Finalize(u) \/ ExplicitGc(u)
      PROVE  IInv'
  BY <1>3, GetStep, PushCreateStep, ForgetStep, ResurrectStep, FinalizersStep
<1>4. CASE PushGone \/ PushFail \/ Collect \/ Close \/ FreeAll
  BY <1>4, PushGoneStep, PushFailStep, CollectStep, CloseStep, FreeAllStep
<1>5. CASE UNCHANGED vars
  BY <1>5, Stutter
<1>6. QED BY <1>1, <1>2, <1>3, <1>4, <1>5 DEF Next

\* The invariant holds in every state the program reaches.
THEOREM Inductive == Spec => []IInv
<1>1. Init => IInv
  BY Start
<1>2. IInv /\ [Next]_vars => IInv'
  BY Step
<1>3. QED BY <1>1, <1>2, PTL DEF Spec

\* Every counter and every table entry is what its type says: no strong_count goes
\* below zero, whichever finalizers run.
THEOREM TypeCorrect == Spec => []TypeOK
<1>1. IInv => TypeOK
  BY DEF IInv
<1>2. QED BY <1>1, Inductive, PTL

\* An object is alive exactly as long as C++ or a userdata that is not yet finalized
\* has a reference to it, and its counter is the number of these.
THEOREM ReferencesExact == Spec => []HeldExactly
<1>1. IInv => HeldExactly
  BY DEF IInv
<1>2. QED BY <1>1, Inductive, PTL

\* Whatever finalizers do in lua_newuserdata(), an object that is being pushed outlives it,
\* but for a T& out of a userdata that has been finalized.
THEOREM PushesAlive == Spec => []PushedAlive
<1>1. IInv => PushedAlive
  <2> SUFFICES ASSUME IInv, NEW i \in DOMAIN pushing,
                      pushing[i].from = Null \/ Usable(pushing[i].from)
               PROVE  phase[Ctrl[pushing[i].ptr]] = "live"
    BY DEF PushedAlive
  <2> DEFINE f == pushing[i]
             o == Ctrl[f.ptr]
  <2>1. FrameInv(f) /\ o \in Objects /\ f.from \in Userdata \cup {Null}
    BY FramesTyped DEF IInv, PushInv
  <2>2. CASE f.from = Null
    <3>1. held[o] > 0
      BY <2>1, <2>2 DEF FrameInv
    <3>2. strong[o] > 0
      BY <2>1, <3>1, HoldersAreNat DEF IInv, TypeOK, HeldExactly
    <3>3. QED BY <2>1, <3>2 DEF IInv, HeldExactly
  <2>3. CASE f.from # Null
    <3>1. f.from \in Userdata /\ Usable(f.from) /\ Ctrl[pointer[f.from]] = o
      BY <2>1, <2>3 DEF FrameInv
    <3>2. QED BY <3>1, HeldIsLive DEF IInv
  <2>4. QED BY <2>2, <2>3
<1>2. QED BY <1>1, Inductive, PTL

\* Two userdata of one pointer are in Lua's reach only after the finalizer of an
\* earlier one has taken a younger one's entry, or after a push inside lua_newuserdata().
LEMMA TwinsAlwaysExplained == Spec => []TwinsExplained
<1>1. IInv => TwinsExplained
  <2> SUFFICES ASSUME EntryInv, NEW p \in Pointers,
                      NEW u \in reached \cap finobj, NEW v \in reached \cap finobj,
                      u # v, pointer[u] = p, pointer[v] = p
               PROVE  p \in overtaken \cup reentered
    BY DEF TwinsExplained, Twins, IInv
  <2>1. QED BY DEF EntryInv
<1>2. QED BY <1>1, Inductive, PTL

\* Pushing an object whose pointer is in reftbl gives a userdata that is neither finalized
\* nor about to be, and the only such one, unless an entry was overtaken or a finalizer
\* pushed the same pointer inside lua_newuserdata().
THEOREM CacheAlwaysSound == Spec => []CacheSound
<1>1. IInv => HitsUsable
  BY DEF IInv
<1>2. QED BY <1>1, Inductive, TwinsAlwaysExplained, PTL DEF CacheSound

\* Once lua_close() has returned, every userdata that still has its reference has a finalizer
\* that failed or was filled by a finalizer during lua_close(): nothing else is lost.
THEOREM OnlyForsakenLost ==
  Spec => [](status = "closed" => \A u \in Userdata : Usable(u) => u \in forsaken)
<1>1. IInv => (status = "closed" => \A u \in Userdata : Usable(u) => u \in forsaken)
  BY DEF IInv, OwedInv, Owed
<1>2. QED BY <1>1, Inductive, PTL
=============================================================================
