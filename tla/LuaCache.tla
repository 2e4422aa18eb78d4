------------------------------- MODULE LuaCache -------------------------------
(***************************************************************************)
(* lua/userdata.hpp and lua/dynamic_object.hpp: counted C++ objects in Lua. *)
(* A userdata holds a SharedPtr, one strong reference.  reftbl, a table with *)
(* weak values, has the userdata of each pointer, so that pushing a pointer  *)
(* again gives the same userdata.                                           *)
(*                                                                         *)
(* lua_newuserdata(), which Cached::Create() calls between its look into    *)
(* reftbl and its entry there, may run the collector, and with it finalizers *)
(* written in Lua, which may do what any program may: push objects, call     *)
(* __gc by hand, and collect.  So do those that run while the state closes.  *)
(* Wherever the code runs Lua, the model lets the program take a step.       *)
(*                                                                         *)
(* Pointers stand for addresses: an object is one, and a member that is     *)
(* pushed with the counter of the object it is in is another.               *)
(***************************************************************************)
EXTENDS Naturals, FiniteSets, Sequences

CONSTANTS Objects, Pointers, Userdata,
          Ctrl,     \* Ctrl[p]: the object whose counter a SharedPtr to p uses
          Null,
          MaxHeld,  \* bound: references that C++ has to one object
          MaxDepth  \* bound: calls of Cached::Create() inside each other

ASSUME LuaCacheAssumption ==
  /\ IsFiniteSet(Userdata) /\ Null \notin Userdata \cup Pointers
  /\ Ctrl \in [Pointers -> Objects] /\ MaxHeld \in Nat \ {0} /\ MaxDepth \in Nat \ {0}

VARIABLES phase,      \* of an object: "none", "live" or "gone"
          held,       \* how many references C++ has
          strong,     \* strong_count
          pointer,    \* what the SharedPtr in a userdata points at, Null if it has none
          reached,    \* the userdata that Lua has, weak tables of the program included
          finobj,     \* those marked for finalization
          tobefnz,    \* those whose finalizer the collector is going to run
          reftbl,     \* of a pointer: its userdata, or Null
          pushing,    \* the calls of Cached::Create() that are in lua_newuserdata(),
                      \* innermost last: the pointer, and where the C++ code has it from
          status,     \* of the lua_State: "open", "closing", "closed", or "undefined"
          overtaken,  \* history: pointers whose entry a finalizer of another userdata
                      \* has cleared
          reentered,  \* history: pointers that were entered while they were being pushed
          forsaken    \* history: userdata whose finalizer nothing obliges Lua to run:
                      \* it has failed, or they were filled while the state closed

counts == <<phase, held, strong>>
history == <<overtaken, reentered, forsaken>>
vars == <<counts, pointer, reached, finobj, tobefnz, reftbl, pushing, status, history>>

Init == /\ phase = [o \in Objects |-> "none"]
        /\ held = [o \in Objects |-> 0]
        /\ strong = [o \in Objects |-> 0]
        /\ pointer = [u \in Userdata |-> Null]
        /\ reached = {} /\ finobj = {} /\ tobefnz = {}
        /\ reftbl = [p \in Pointers |-> Null]
        /\ pushing = <<>> /\ status = "open"
        /\ overtaken = {} /\ reentered = {} /\ forsaken = {}
-----------------------------------------------------------------------------
(* The counter, as RefCounted has it: the last RemoveRef() disposes.       *)

\* A mutant of AddRef: the SharedPtr is told that the reference is counted already.
AddRefNot(o) == UNCHANGED <<strong, phase>>

AddRef(o) == strong' = [strong EXCEPT ![o] = @ + 1] /\ UNCHANGED phase

RemoveRef(o) == /\ strong' = [strong EXCEPT ![o] = @ - 1]
                /\ phase' = IF strong[o] = 1 THEN [phase EXCEPT ![o] = "gone"] ELSE phase

userdata == <<pointer, reached, finobj, tobefnz, reftbl, pushing, status, history>>

\* MakeSmart().
Make(o) == /\ phase[o] = "none"
           /\ phase' = [phase EXCEPT ![o] = "live"]
           /\ strong' = [strong EXCEPT ![o] = 1]
           /\ held' = [held EXCEPT ![o] = 1]
           /\ UNCHANGED userdata

\* A function that pushes an object it has a SharedPtr to keeps that until it returns.
Kept(o) == \E i \in DOMAIN pushing : pushing[i].from = Null /\ Ctrl[pushing[i].ptr] = o

Drop(o) == /\ held[o] > 0
           /\ Kept(o) => held[o] > 1
           /\ held' = [held EXCEPT ![o] = @ - 1]
           /\ RemoveRef(o)
           /\ UNCHANGED userdata
-----------------------------------------------------------------------------
(* What the program does in Lua, in the main program or in a finalizer.    *)

Running == status \in {"open", "closing"}

Usable(u) == pointer[u] # Null

\* C++ code has p: by a SharedPtr, or only as the T& that it got from u.
Has(p, from) == IF from = Null THEN held[Ctrl[p]] > 0
                ELSE from \in reached /\ Usable(from) /\ Ctrl[pointer[from]] = Ctrl[p]

\* A mutant of Get: the SharedPtr is made without a reference of its own.
GetUncounted(u) == /\ Running /\ u \in reached /\ Usable(u)
                   /\ held[Ctrl[pointer[u]]] < MaxHeld
                   /\ held' = [held EXCEPT ![Ctrl[pointer[u]]] = @ + 1]
                   /\ UNCHANGED <<phase, strong, userdata>>

\* TypeTraits<SharedPtr>::Get: C++ takes a reference out of a userdata.
Get(u) == /\ Running /\ u \in reached /\ Usable(u)
          /\ held[Ctrl[pointer[u]]] < MaxHeld
          /\ held' = [held EXCEPT ![Ctrl[pointer[u]]] = @ + 1]
          /\ AddRef(Ctrl[pointer[u]])
          /\ UNCHANGED userdata

\* Cached::Create() with a hit.
PushHit(p) == /\ Running /\ reftbl[p] # Null
              /\ \E from \in Userdata \cup {Null} : Has(p, from)
              /\ reached' = reached \cup {reftbl[p]}
              /\ UNCHANGED <<counts, pointer, finobj, tobefnz, reftbl, pushing, status, history>>

Enter(p) == /\ Running /\ Len(pushing) < MaxDepth
            /\ \E from \in Userdata \cup {Null} :
                 /\ Has(p, from)
                 /\ pushing' = Append(pushing, [ptr |-> p, from |-> from])
            /\ UNCHANGED <<counts, pointer, reached, finobj, tobefnz, reftbl, status, history>>

\* A mutant of PushMiss: the cache is not asked.
PushMissAlways(p) == Enter(p)

\* Without: lua_newuserdata() is called.
PushMiss(p) == reftbl[p] = Null /\ Enter(p)

Top == pushing[Len(pushing)]
Return == pushing' = SubSeq(pushing, 1, Len(pushing) - 1)

Fresh(u) == ~Usable(u) /\ u \notin reached

\* It returns; the userdata is filled, gets its metatable, which marks it for
\* finalization, and is entered.
PushCreate(u) ==
  /\ pushing # <<>> /\ Running /\ Fresh(u) /\ phase[Ctrl[Top.ptr]] = "live"
  /\ pointer' = [pointer EXCEPT ![u] = Top.ptr]
  /\ AddRef(Ctrl[Top.ptr])
  /\ finobj' = finobj \cup {u}
  /\ \/ /\ reftbl' = [reftbl EXCEPT ![Top.ptr] = u]
        /\ reached' = reached \cup {u}
        /\ reentered' = IF \E i \in 1..Len(pushing) - 1 : pushing[i].ptr = Top.ptr
                        THEN reentered \cup {Top.ptr} ELSE reentered
     \/ /\ reftbl[Top.ptr] = Null   \* lua_rawsetp() throws for want of memory
        /\ UNCHANGED <<reftbl, reached, reentered>>
  /\ forsaken' = IF status = "closing" THEN forsaken \cup {u} ELSE forsaken
  /\ Return
  /\ UNCHANGED <<held, tobefnz, status, overtaken>>

\* The object of a T& has been destroyed meanwhile: AddRef() finds no reference.
PushGone == /\ pushing # <<>> /\ Running /\ phase[Ctrl[Top.ptr]] # "live"
            /\ status' = "undefined"
            /\ UNCHANGED <<counts, pointer, reached, finobj, tobefnz, reftbl, pushing, history>>

\* It throws, for want of memory or with the error of a finalizer.
PushFail == /\ pushing # <<>> /\ Running
            /\ Return
            /\ UNCHANGED <<counts, pointer, reached, finobj, tobefnz, reftbl, status, history>>

\* Lua has u no more; arguments of a function stay on the stack until it returns.
Forget(u) == /\ Running /\ u \in reached
             /\ \A i \in DOMAIN pushing : pushing[i].from # u
             /\ reached' = reached \ {u}
             /\ UNCHANGED <<counts, pointer, finobj, tobefnz, reftbl, pushing, status, history>>
-----------------------------------------------------------------------------
(* The collector.                                                          *)

\* atomic(): what is not reached leaves reftbl, also what is in tobefnz already, and finobj
\* for tobefnz.  (What has become unreachable since it was marked is left for the next time.)
Collect ==
  \E S \in SUBSET {u \in Userdata \ reached : Usable(u)} :
    /\ S # {} /\ Running
    /\ tobefnz' = tobefnz \cup (S \cap finobj)
    /\ finobj' = finobj \ S
    /\ reftbl' = [p \in Pointers |-> IF reftbl[p] \in S THEN Null ELSE reftbl[p]]
    /\ UNCHANGED <<counts, pointer, reached, pushing, status, history>>

\* What is to be finalized is marked with all that it refers to, so the finalizer
\* of another object may have u again.
Resurrect(u) == /\ Running /\ u \in tobefnz /\ u \notin reached
                /\ reached' = reached \cup {u}
                /\ UNCHANGED <<counts, pointer, finobj, tobefnz, reftbl, pushing, status, history>>

\* Cached::Clear(): the entry of the pointer goes, whosever it is.
Clear(u) ==
  /\ reftbl' = [reftbl EXCEPT ![pointer[u]] = Null]
  /\ overtaken' = IF reftbl[pointer[u]] \in {u, Null} THEN overtaken
                  ELSE overtaken \cup {pointer[u]}

\* A mutant of GcFun: the metatable stays, so the finalizer can run again.
GcFunAgain(u) ==
  /\ Clear(u)
  /\ RemoveRef(Ctrl[pointer[u]])
  /\ finobj' = finobj \ {u} /\ tobefnz' = tobefnz \ {u} /\ forsaken' = forsaken \ {u}
  /\ UNCHANGED <<pointer, held, reached, pushing, status, reentered>>

\* The entry is cleared, the metatable unset, the SharedPtr destroyed.  For what has no
\* metatable the collector calls nothing: it may as well be in neither list.
GcFun(u) ==
  /\ Clear(u)
  /\ RemoveRef(Ctrl[pointer[u]])
  /\ pointer' = [pointer EXCEPT ![u] = Null]
  /\ finobj' = finobj \ {u} /\ tobefnz' = tobefnz \ {u} /\ forsaken' = forsaken \ {u}
  /\ UNCHANGED <<held, reached, pushing, status, reentered>>

\* "if this throws we're screwed": lua_rawsetp() needs memory if the pointer is not a
\* key.  The error ends the finalizer, which is not called again.
ClearThrows(u) ==
  /\ reftbl[pointer[u]] = Null
  /\ tobefnz' = tobefnz \ {u} /\ forsaken' = forsaken \cup {u}
  /\ UNCHANGED <<counts, pointer, reached, finobj, reftbl, pushing, status, overtaken, reentered>>

\* GCTM().
Finalize(u) == /\ Running /\ u \in tobefnz
               /\ GcFun(u) \/ ClearThrows(u)

\* The program calls u:__gc() itself.  A userdata that has lost its metatable has
\* no such method.
ExplicitGc(u) == /\ Running /\ u \in reached /\ Usable(u)
                 /\ GcFun(u)

\* A mutant of Close: only what Lua does not reach is to be finalized.
CloseUnreached == /\ status = "open" /\ pushing = <<>>
                  /\ status' = "closing"
                  /\ tobefnz' = tobefnz \cup (finobj \ reached)
                  /\ finobj' = finobj \cap reached
                  /\ UNCHANGED <<counts, pointer, reached, reftbl, pushing, history>>

\* lua_close(), which no function that Lua calls may call: luaC_freeallobjects() begins.
Close == /\ status = "open" /\ pushing = <<>>
         /\ status' = "closing"
         /\ tobefnz' = tobefnz \cup finobj
         /\ finobj' = {}
         /\ UNCHANGED <<counts, pointer, reached, reftbl, pushing, history>>

\* All pending finalizers have been called: what is left is freed without.
FreeAll == /\ status = "closing" /\ pushing = <<>> /\ tobefnz = {}
           /\ status' = "closed"
           /\ reached' = {} /\ finobj' = {}
           /\ reftbl' = [p \in Pointers |-> Null]
           /\ UNCHANGED <<counts, pointer, tobefnz, pushing, history>>
-----------------------------------------------------------------------------
Next == \/ \E o \in Objects : Make(o) \/ Drop(o)
        \/ \E p \in Pointers : PushHit(p) \/ PushMiss(p)
        \/ \E u \in Userdata : \/ Get(u) \/ PushCreate(u) \/ Forget(u) \/ Resurrect(u)
                               \/ Finalize(u) \/ ExplicitGc(u)
        \/ PushGone \/ PushFail \/ Collect \/ Close \/ FreeAll

Spec == Init /\ [][Next]_vars

\* lua_close() runs the finalizers that are pending, one after the other.
FairSpec == Spec /\ \A u \in Userdata : WF_vars(status = "closing" /\ Finalize(u))
=============================================================================
