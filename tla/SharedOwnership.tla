--------------------------- MODULE SharedOwnership ---------------------------
(***************************************************************************)
(* What shared ownership promises, without counters, threads or teardown   *)
(* steps: an object is alive as long as a strong reference to it exists,   *)
(* it starts dying when the last one goes, and its memory goes when it is  *)
(* dead and nothing, weak references included, points at it any more.      *)
(* RefCounted shows that the two counters of libshit's RefCounted          *)
(* implement this.                                                         *)
(***************************************************************************)
CONSTANTS Objects,  \* the objects that may be created
          Handles,  \* the smart pointer variables of the program
          Null      \* an empty smart pointer

VARIABLES state,    \* state[o]: where in its life object o is
          points    \* points[h]: Null, or the kind and the object of pointer h

vars == <<state, points>>

Pointers == [kind: {"strong", "weak"}, obj: Objects]

StrongTo(o) == {h \in Handles : points[h] = [kind |-> "strong", obj |-> o]}
PointingAt(o) == {h \in Handles : points[h] # Null /\ points[h].obj = o}

Init == /\ state = [o \in Objects |-> "none"]
        /\ points = [h \in Handles |-> Null]

\* A new object comes with its first strong reference.
Create(o, h) == /\ state[o] = "none"
                /\ points[h] = Null
                /\ state' = [state EXCEPT ![o] = "alive"]
                /\ points' = [points EXCEPT ![h] = [kind |-> "strong", obj |-> o]]

\* A strong reference is only made to an object that is alive: from a strong
\* reference, or from a weak one that is locked in time.
Share(g, h) == /\ points[g] # Null
               /\ state[points[g].obj] = "alive"
               /\ points[h] = Null
               /\ points' = [points EXCEPT
                    ![h] = [kind |-> "strong", obj |-> points[g].obj]]
               /\ UNCHANGED state

\* A weak reference is made from any reference.
Observe(g, h) == /\ points[g] # Null
                 /\ points[h] = Null
                 /\ points' = [points EXCEPT
                      ![h] = [kind |-> "weak", obj |-> points[g].obj]]
                 /\ UNCHANGED state

\* The end of a reference; the end of the last strong one kills the object.
Drop(h) == /\ points[h] # Null
           /\ points' = [points EXCEPT ![h] = Null]
           /\ state' = IF StrongTo(points[h].obj) = {h}
                       THEN [state EXCEPT ![points[h].obj] = "dying"]
                       ELSE state

Die(o) == /\ state[o] = "dying"
          /\ state' = [state EXCEPT ![o] = "dead"]
          /\ UNCHANGED points

Vanish(o) == /\ state[o] = "dead"
             /\ PointingAt(o) = {}
             /\ state' = [state EXCEPT ![o] = "gone"]
             /\ UNCHANGED points

Next == \/ \E o \in Objects, h \in Handles : Create(o, h)
        \/ \E g, h \in Handles : Share(g, h) \/ Observe(g, h)
        \/ \E h \in Handles : Drop(h)
        \/ \E o \in Objects : Die(o) \/ Vanish(o)

Spec == Init /\ [][Next]_vars
=============================================================================
