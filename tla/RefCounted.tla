----------------------------- MODULE RefCounted -----------------------------
(***************************************************************************)
(* The intrusive reference counts of ref_counted.hpp and the smart         *)
(* pointers of shared_ptr.hpp that drive them.  Every atomic operation on  *)
(* a counter is one step, so that the steps of different threads           *)
(* interleave as the hardware lets them; the destruction of an object runs *)
(* member by member on the stack of the thread that dropped the last       *)
(* reference.                                                              *)
(*                                                                         *)
(* A handle is a variable of type SmartPtr, WeakSmartPtr or                *)
(* RefCountedStackHolder.  Handles belong to a thread or are members of an *)
(* object, and only their owner touches them: the library, like            *)
(* std::shared_ptr, does not synchronise access to one pointer variable.   *)
(* operator= (copy and swap) is Copy into its by-value parameter followed  *)
(* by the drop of what the left side held, so it is not an action.         *)
(***************************************************************************)
EXTENDS Naturals, Sequences, FiniteSets

CONSTANTS Threads, Objects, Handles, Null,
          Contained  \* the objects whose Dispose() destroys the payload, members
                     \* included (RefCountedContainer, RefCountedPtrContainer);
                     \* the others inherit the empty Dispose() and lose their
                     \* members when they are deleted

ASSUME ConstantsAssumption ==
  /\ IsFiniteSet(Handles)
  /\ Contained \subseteq Objects
  /\ Threads \cap Objects = {}
  /\ Null \notin [kind: {"strong", "weak", "stack"}, obj: Objects,
                  owner: Threads \cup Objects]
  /\ Null \notin [from: Handles, to: Handles, count: Nat]
  /\ Null \notin [kind: {"strong", "weak"}, obj: Objects]

VARIABLES strong,  \* strong[o]: o.strong_count
          weak,    \* weak[o]: o.weak_count, the implicit reference included
          phase,   \* phase[o]: how far o's life has come
          ref,     \* ref[h]: Null, or what handle h is, points at and belongs to
          lock,    \* lock[t]: Null, or thread t's LockWeak() in progress
          stack    \* stack[t]: the objects t is destroying, innermost first

vars == <<strong, weak, phase, ref, lock, stack>>

Owners == Threads \cup Objects
Refs == [kind: {"strong", "weak", "stack"}, obj: Objects, owner: Owners]
Locks == [from: Handles, to: Handles, count: Nat]
Phases == {"none", "live", "disposing", "stack_disposing", "disposed",
           "deleting", "freed"}

\* A stack holder owns one strong reference like a pointer does.
StrongHandles(o) == {h \in Handles : ref[h] # Null /\ ref[h].kind # "weak"
                                                   /\ ref[h].obj = o}
WeakHandles(o) == {h \in Handles : ref[h] # Null /\ ref[h].kind = "weak"
                                                 /\ ref[h].obj = o}
Members(o) == {h \in Handles : ref[h] # Null /\ ref[h].owner = o}

IsFree(h) == /\ ref[h] = Null
             /\ \A t \in Threads : lock[t] # Null => lock[t].to # h
Idle(t) == stack[t] = <<>> /\ lock[t] = Null
Owns(t, h) == ref[h] # Null /\ ref[h].owner = t
OwnsStrong(t, h) == Owns(t, h) /\ ref[h].kind # "weak"
OwnsWeak(t, h) == Owns(t, h) /\ ref[h].kind = "weak"

Init == /\ strong = [o \in Objects |-> 0]
        /\ weak = [o \in Objects |-> 0]
        /\ phase = [o \in Objects |-> "none"]
        /\ ref = [h \in Handles |-> Null]
        /\ lock = [t \in Threads |-> Null]
        /\ stack = [t \in Threads |-> <<>>]
-----------------------------------------------------------------------------
\* MakeSmart, or the construction of a RefCountedStackHolder: both counters
\* start at one and the new handle takes that reference over (add_ref = false).
Make(t, o, h, kind) ==
  /\ Idle(t) /\ phase[o] = "none" /\ IsFree(h)
  /\ strong' = [strong EXCEPT ![o] = 1]
  /\ weak' = [weak EXCEPT ![o] = 1]
  /\ phase' = [phase EXCEPT ![o] = "live"]
  /\ ref' = [ref EXCEPT ![h] = [kind |-> kind, obj |-> o, owner |-> t]]
  /\ UNCHANGED <<lock, stack>>

\* AddRef: the copy of a strong pointer, ToRefCountedPtr(this) under a strong
\* reference, unsafe_lock of a weak pointer the caller knows to be alive.
Copy(t, g, h) ==
  /\ Idle(t) /\ OwnsStrong(t, g) /\ IsFree(h)
  /\ strong' = [strong EXCEPT ![ref[g].obj] = @ + 1]
  /\ ref' = [ref EXCEPT ![h] = [kind |-> "strong", obj |-> ref[g].obj, owner |-> t]]
  /\ UNCHANGED <<weak, phase, lock, stack>>

\* A mutant of MakeWeak: the weak pointer is made without AddWeakRef.
MakeWeakUncounted(t, g, h) ==
  /\ Idle(t) /\ Owns(t, g) /\ IsFree(h)
  /\ ref' = [ref EXCEPT ![h] = [kind |-> "weak", obj |-> ref[g].obj, owner |-> t]]
  /\ UNCHANGED <<strong, weak, phase, lock, stack>>

\* AddWeakRef: a weak pointer from a strong one, or the copy of a weak one.
MakeWeak(t, g, h) ==
  /\ Idle(t) /\ Owns(t, g) /\ IsFree(h)
  /\ weak' = [weak EXCEPT ![ref[g].obj] = @ + 1]
  /\ ref' = [ref EXCEPT ![h] = [kind |-> "weak", obj |-> ref[g].obj, owner |-> t]]
  /\ UNCHANGED <<strong, phase, lock, stack>>

\* The move constructor: another thread, or an object t can reach by a strong
\* pointer of its own, becomes the owner of the handle; the counters stay.
Move(t, h, new) ==
  /\ Idle(t) /\ Owns(t, h) /\ ref[h].kind # "stack"
  /\ \/ new \in Threads \ {t}
     \/ \E g \in Handles \ {h} : OwnsStrong(t, g) /\ ref[g].obj = new
  /\ ref' = [ref EXCEPT ![h].owner = new]
  /\ UNCHANGED <<strong, weak, phase, lock, stack>>
-----------------------------------------------------------------------------
\* A mutant of RemoveRef: the value after the decrement is compared with one.
RemoveRefEarly(t, o) ==
  /\ strong' = [strong EXCEPT ![o] = @ - 1]
  /\ UNCHANGED weak
  /\ IF strong[o] - 1 = 1
     THEN /\ phase' = [phase EXCEPT ![o] = "disposing"]
          /\ stack' = [stack EXCEPT ![t] = <<o>> \o @]
     ELSE UNCHANGED <<phase, stack>>

\* RemoveRef up to the call of Dispose(): the thread whose decrement took the
\* last reference goes on to destroy the object.
RemoveRef(t, o) ==
  /\ strong' = [strong EXCEPT ![o] = @ - 1]
  /\ UNCHANGED weak
  /\ IF strong[o] = 1
     THEN /\ phase' = [phase EXCEPT ![o] = "disposing"]
          /\ stack' = [stack EXCEPT ![t] = <<o>> \o @]
     ELSE UNCHANGED <<phase, stack>>

\* RemoveWeakRef: the last weak reference, the implicit one included, deletes.
RemoveWeakRef(t, o) ==
  /\ weak' = [weak EXCEPT ![o] = @ - 1]
  /\ UNCHANGED strong
  /\ IF weak[o] = 1
     THEN /\ phase' = [phase EXCEPT ![o] = "deleting"]
          /\ stack' = [stack EXCEPT ![t] = <<o>> \o @]
     ELSE UNCHANGED <<phase, stack>>

\* The destructor of a pointer, reset(), or the old value in operator=.
Release(t, h) ==
  /\ ref' = [ref EXCEPT ![h] = Null]
  /\ \/ ref[h].kind = "strong" /\ RemoveRef(t, ref[h].obj)
     \/ ref[h].kind = "weak" /\ RemoveWeakRef(t, ref[h].obj)
  /\ UNCHANGED lock

Drop(t, h) == Idle(t) /\ Owns(t, h) /\ ref[h].kind # "stack" /\ Release(t, h)

\* ~RefCountedStackHolder up to Dispose().  Its contract: no other strong
\* pointer is left (asserted before Dispose) and no weak one (asserted after),
\* except those the payload itself drops in Dispose().
DropStackHolder(t, h) ==
  /\ Idle(t) /\ Owns(t, h) /\ ref[h].kind = "stack"
  /\ LET o == ref[h].obj IN
     /\ StrongHandles(o) = {h}
     /\ \A w \in WeakHandles(o) : ref[w].owner = o /\ o \in Contained
     /\ ref' = [ref EXCEPT ![h] = Null]
     /\ strong' = [strong EXCEPT ![o] = @ - 1]
     /\ phase' = [phase EXCEPT ![o] = "stack_disposing"]
     /\ stack' = [stack EXCEPT ![t] = <<o>> \o @]
  /\ UNCHANGED <<weak, lock>>
-----------------------------------------------------------------------------
Top(t) == Head(stack[t])
Destroying(t) == stack[t] # <<>>

\* A mutant of LosesMembers: Dispose() leaves the payload to the destructor.
LosesMembersLate(o) == phase[o] = "deleting"

\* The members a running Dispose() or destructor still has to release.
LosesMembers(o) ==
  \/ phase[o] = "deleting"
  \/ phase[o] \in {"disposing", "stack_disposing"} /\ o \in Contained

ReleaseMember(t) ==
  /\ Destroying(t) /\ LosesMembers(Top(t))
  /\ \E h \in Members(Top(t)) : Release(t, h)

MembersDone(t) == Destroying(t) /\ (LosesMembers(Top(t)) => Members(Top(t)) = {})

\* A mutant of Disposed: the implicit weak reference is never given up.
DisposedKeepingWeak(t) ==
  /\ MembersDone(t) /\ phase[Top(t)] = "disposing"
  /\ stack' = [stack EXCEPT ![t] = Tail(@)]
  /\ phase' = [phase EXCEPT ![Top(t)] = "disposed"]
  /\ UNCHANGED <<strong, weak, ref, lock>>

\* Dispose() has returned into RemoveRef, which gives up the implicit weak
\* reference; if no weak pointer is left this thread also deletes the object.
Disposed(t) ==
  /\ MembersDone(t) /\ phase[Top(t)] = "disposing"
  /\ weak' = [weak EXCEPT ![Top(t)] = @ - 1]
  /\ IF weak[Top(t)] = 1
     THEN /\ phase' = [phase EXCEPT ![Top(t)] = "deleting"]
          /\ UNCHANGED stack
     ELSE /\ phase' = [phase EXCEPT ![Top(t)] = "disposed"]
          /\ stack' = [stack EXCEPT ![t] = Tail(@)]
  /\ UNCHANGED <<strong, ref, lock>>

\* StackUnref after Dispose(): the weak count is left alone and the destructor
\* of the embedded object runs.
StackDisposed(t) ==
  /\ MembersDone(t) /\ phase[Top(t)] = "stack_disposing"
  /\ phase' = [phase EXCEPT ![Top(t)] = "deleting"]
  /\ UNCHANGED <<strong, weak, ref, lock, stack>>

\* The destructor is through and the memory is gone.
Deleted(t) ==
  /\ MembersDone(t) /\ phase[Top(t)] = "deleting"
  /\ phase' = [phase EXCEPT ![Top(t)] = "freed"]
  /\ stack' = [stack EXCEPT ![t] = Tail(@)]
  /\ UNCHANGED <<strong, weak, ref, lock>>

Teardown(t) == ReleaseMember(t) \/ Disposed(t) \/ StackDisposed(t) \/ Deleted(t)
-----------------------------------------------------------------------------
\* LockWeak: the first load of strong_count.
LockLoad(t, g, h) ==
  /\ Idle(t) /\ OwnsWeak(t, g) /\ IsFree(h)
  /\ lock' = [lock EXCEPT
       ![t] = [from |-> g, to |-> h, count |-> strong[ref[g].obj]]]
  /\ UNCHANGED <<strong, weak, phase, ref, stack>>

Locked(t) == ref[lock[t].from].obj

\* The count was zero: lock() returns an empty pointer.
LockExpired(t) ==
  /\ lock[t] # Null /\ lock[t].count = 0
  /\ lock' = [lock EXCEPT ![t] = Null]
  /\ UNCHANGED <<strong, weak, phase, ref, stack>>

\* A mutant of LockExchange: an unconditional increment after the test.
LockIncrement(t) ==
  /\ lock[t] # Null /\ lock[t].count # 0
  /\ strong' = [strong EXCEPT ![Locked(t)] = @ + 1]
  /\ ref' = [ref EXCEPT
       ![lock[t].to] = [kind |-> "strong", obj |-> Locked(t), owner |-> t]]
  /\ lock' = [lock EXCEPT ![t] = Null]
  /\ UNCHANGED <<weak, phase, stack>>

\* compare_exchange_weak succeeds: lock() returns a strong pointer.
LockExchange(t) ==
  /\ lock[t] # Null /\ lock[t].count # 0 /\ lock[t].count = strong[Locked(t)]
  /\ strong' = [strong EXCEPT ![Locked(t)] = lock[t].count + 1]
  /\ ref' = [ref EXCEPT
       ![lock[t].to] = [kind |-> "strong", obj |-> Locked(t), owner |-> t]]
  /\ lock' = [lock EXCEPT ![t] = Null]
  /\ UNCHANGED <<weak, phase, stack>>

\* A mutant of LockRetry: a failed exchange gives up instead of looping.
LockGiveUp(t) ==
  /\ lock[t] # Null /\ lock[t].count # 0
  /\ lock' = [lock EXCEPT ![t] = Null]
  /\ UNCHANGED <<strong, weak, phase, ref, stack>>

\* compare_exchange_weak fails, because the count moved or for no reason at
\* all, and leaves the current count for the next round of the loop.
LockRetry(t) ==
  /\ lock[t] # Null /\ lock[t].count # 0
  /\ lock' = [lock EXCEPT ![t].count = strong[Locked(t)]]
  /\ UNCHANGED <<strong, weak, phase, ref, stack>>
-----------------------------------------------------------------------------
Operation(t) ==
  \/ \E o \in Objects, h \in Handles, kind \in {"strong", "stack"} : Make(t, o, h, kind)
  \/ \E g, h \in Handles : Copy(t, g, h) \/ MakeWeak(t, g, h) \/ LockLoad(t, g, h)
  \/ \E h \in Handles, new \in Owners : Move(t, h, new)
  \/ \E h \in Handles : Drop(t, h) \/ DropStackHolder(t, h)

LockStep(t) == LockExpired(t) \/ LockExchange(t) \/ LockRetry(t)

Next == \E t \in Threads : Operation(t) \/ LockStep(t) \/ Teardown(t)

Spec == Init /\ [][Next]_vars

\* A destructor that has begun runs to its end; nobody has to drop a pointer.
FairSpec == Spec /\ \A t \in Threads : WF_vars(Teardown(t))
=============================================================================
