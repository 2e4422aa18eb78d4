-------------------------- MODULE RefCountedProps --------------------------
(* What the counters of RefCounted guarantee. *)
EXTENDS RefCounted

TypeOK == /\ strong \in [Objects -> Nat]
          /\ weak \in [Objects -> Nat]
          /\ phase \in [Objects -> Phases]
          /\ ref \in [Handles -> Refs \cup {Null}]
          /\ lock \in [Threads -> Locks \cup {Null}]
          /\ stack \in [Threads -> Seq(Objects)]

\* The weak reference every object holds on itself until RemoveRef gives it up
\* (a stack object never does: it dies with its count at one).
ImplicitWeak(o) == IF phase[o] \in {"live", "disposing", "stack_disposing"} THEN 1 ELSE 0

\* While an object's memory exists its counters tell exactly how many pointers
\* there are, whatever the threads are in the middle of (AddRef, RemoveRef,
\* AddWeakRef, RemoveWeakRef, LockWeak).
CountsMatch ==
  \A o \in Objects : phase[o] \notin {"deleting", "freed"} =>
    /\ strong[o] = Cardinality(StrongHandles(o))
    /\ weak[o] = Cardinality(WeakHandles(o)) + ImplicitWeak(o)

\* No pointer outlives what it may use: the object under a strong pointer has
\* not begun Dispose(), the counters under a weak pointer are still there (so
\* LockWeak never reads freed memory, and AddRef's assertion never fires).
AliveWhileHeld ==
  \A h \in Handles : ref[h] # Null =>
    /\ ref[h].kind # "weak" => phase[ref[h].obj] = "live"
    /\ phase[ref[h].obj] \notin {"none", "deleting", "freed"}

\* RefCountedStackHolder's assertion after Dispose().
StackHolderUnreferenced ==
  \A t \in Threads :
    MembersDone(t) /\ phase[Top(t)] = "stack_disposing" => weak[Top(t)] = 1

\* Nothing is used after it is gone; and under the contract that the destructor of
\* RefCountedStackHolder asks for, no weak reference remains when its object goes.
NothingDangles == AliveWhileHeld /\ StackHolderUnreferenced

\* An object is on one stack at most and at one place: of two threads that drop
\* references at once, exactly one runs Dispose() and exactly one deletes.
OneDestroyer ==
  \A t, u \in Threads :
    \A i \in DOMAIN stack[t], j \in DOMAIN stack[u] :
      /\ stack[t][i] = stack[u][j] => t = u /\ i = j
      /\ phase[stack[t][i]] \in {"disposing", "stack_disposing", "deleting"}

\* A strong count that came down to zero stays there.
StaysDead == \A o \in Objects : phase[o] # "none" /\ strong[o] = 0 => strong'[o] = 0

\* lock() returns an empty pointer only if the object is really gone.
EmptyOnlyIfExpired ==
  \A t \in Threads :
    lock[t] # Null /\ lock'[t] = Null /\ ref'[lock[t].to] = Null => strong[Locked(t)] = 0

\* LockWeak decides rightly in both directions, whatever other threads do between
\* its load and its exchange: it never brings back an object whose Dispose() has
\* begun, and a failed exchange, spurious or not, is never taken for expiry.
LocksHonest == [][StaysDead /\ EmptyOnlyIfExpired]_vars

\* An object that nothing points at any more is eventually freed.
UnreferencedIsFreed ==
  \A o \in Objects :
    (phase[o] # "none" /\ StrongHandles(o) = {} /\ WeakHandles(o) = {})
      ~> phase[o] = "freed"
-----------------------------------------------------------------------------
\* What is left of an object's phase when the steps of its destruction are not told apart.
StateIn(p) == IF p \in {"disposing", "stack_disposing"} THEN "dying"
              ELSE IF p \in {"disposed", "deleting"} THEN "dead"
              ELSE IF p = "live" THEN "alive"
              ELSE IF p = "freed" THEN "gone"
              ELSE "none"

StateOf(o) == StateIn(phase[o])

PointsOf(h) == IF ref[h] = Null THEN Null
               ELSE [kind |-> IF ref[h].kind = "weak" THEN "weak" ELSE "strong",
                     obj |-> ref[h].obj]

Ownership == INSTANCE SharedOwnership
  WITH state <- [o \in Objects |-> StateOf(o)],
       points <- [h \in Handles |-> PointsOf(h)]

\* The counters implement shared ownership.
ImplementsSharedOwnership == Ownership!Spec
=============================================================================
