----------------------------- MODULE LuaCacheProps -----------------------------
(* What C++ and Lua may rely on when both hold the same objects. *)
EXTENDS LuaCache

TypeOK == /\ phase \in [Objects -> {"none", "live", "gone"}]
          /\ held \in [Objects -> 0..MaxHeld] /\ strong \in [Objects -> Nat]
          /\ pointer \in [Userdata -> Pointers \cup {Null}]
          /\ reached \subseteq Userdata /\ finobj \subseteq Userdata /\ tobefnz \subseteq Userdata
          /\ reftbl \in [Pointers -> Userdata \cup {Null}]
          /\ pushing \in Seq([ptr : Pointers, from : Userdata \cup {Null}])
          /\ status \in {"open", "closing", "closed", "undefined"}
          /\ overtaken \subseteq Pointers /\ reentered \subseteq Pointers
          /\ forsaken \subseteq Userdata

\* The userdata with a reference to o, those included that Lua has freed without
\* having called their finalizer.
Holders(o) == {u \in Userdata : Usable(u) /\ Ctrl[pointer[u]] = o}

\* An object has one reference for each that C++ holds and one for each userdata
\* that is not yet finalized, by the collector or by hand; it is alive exactly as
\* long as there is one, so no userdata, not even one that waits for its
\* finalizer, has a dangling pointer, and no finalizer gives back a reference twice.
HeldExactly ==
  /\ \A o \in Objects :
       /\ strong[o] = held[o] + Cardinality(Holders(o))
       /\ phase[o] = "live" <=> strong[o] > 0
  /\ \A u \in finobj \cup tobefnz : Usable(u)

\* What Cached::Create() is given is still alive when lua_newuserdata() returns, whatever
\* finalizers have run in it, except a T& out of a userdata that one of them has
\* finalized: nobody has counted that reference (dynamic_object.hpp:129).
PushedAlive ==
  \A i \in DOMAIN pushing :
    \/ phase[Ctrl[pushing[i].ptr]] = "live"
    \/ pushing[i].from # Null /\ ~Usable(pushing[i].from)

\* A hit in reftbl is a userdata for this pointer that has its metatable ("Pointer
\* aliasing?", userdata.hpp:98) and whose finalizer is to come, and is not even pending as
\* long as the state is open.
HitsUsable ==
  \A p \in Pointers : reftbl[p] # Null =>
    /\ pointer[reftbl[p]] = p
    /\ reftbl[p] \in IF status = "open" THEN finobj ELSE finobj \cup tobefnz

\* Lua has two userdata for p whose finalizers are not pending.
Twins(p) == \E u, v \in reached \cap finobj : u # v /\ pointer[u] = p /\ pointer[v] = p

\* An object has one identity in Lua, with two exceptions: the finalizer of another userdata
\* has run after the pointer was pushed again; or a finalizer written in Lua pushed
\* the same pointer while lua_newuserdata() made the userdata for it.  Allocations and
\* finalizers that fail, finalizers called by hand, also inside lua_newuserdata(), and
\* what is resurrected do not give it two.
TwinsExplained == \A p \in Pointers : Twins(p) => p \in overtaken \cup reentered

\* The cache answers with the one userdata of an object that can be used.
CacheSound == HitsUsable /\ TwinsExplained

\* When the state is closed Lua gives back the references it has, but for those of
\* finalizers that have failed and of what finalizers push meanwhile, which may be lost
\* (manual.html:816).  (PushGone is undefined behaviour: nothing is said of what follows.)
CloseReleases ==
  \A u \in Userdata :
    status = "closing" /\ Usable(u) /\ u \notin forsaken
      ~> ~Usable(u) \/ u \in forsaken \/ status = "undefined"
=============================================================================
