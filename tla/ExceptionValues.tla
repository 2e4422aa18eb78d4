--------------------------- MODULE ExceptionValues ---------------------------
(***************************************************************************)
(* What except.hpp promises: an exception is a value.  It carries a place   *)
(* and pieces of information of its own, a copy starts with those of the    *)
(* original, and from then on nothing that is done to one of the two shows  *)
(* in the other.                                                           *)
(***************************************************************************)
EXTENDS Sequences

CONSTANTS Objects,   \* storage for exceptions
          Classes,   \* what they can be
          Notes,     \* what AddInfo() can add
          Places,    \* what AddLocation() can set
          None

VARIABLE value       \* of each exception there is: its class and what it carries

Blank == [place |-> None, infos |-> <<>>]

Init == value = [e \in {} |-> Blank]

Alive(e) == e \in DOMAIN value

Put(e, v) == value' = [x \in DOMAIN value \cup {e} |-> IF x = e THEN v ELSE value[x]]

Make(e, c) == ~Alive(e) /\ Put(e, [class |-> c, carries |-> Blank])

Copy(e, f) == Alive(e) /\ ~Alive(f) /\ Put(f, value[e])

Assign(e, f) == /\ Alive(e) /\ Alive(f)
                /\ Put(f, [class |-> value[f].class, carries |-> value[e].carries])

AddInfo(e, note) ==
  LET v == value[e] IN
    /\ Alive(e)
    /\ Put(e, [class |-> v.class,
               carries |-> [place |-> v.carries.place, infos |-> Append(v.carries.infos, note)]])

AddLocation(e, place) ==
  LET v == value[e] IN
    /\ Alive(e)
    /\ Put(e, [class |-> v.class, carries |-> [place |-> place, infos |-> v.carries.infos]])

Destroy(e) == Alive(e) /\ value' = [x \in DOMAIN value \ {e} |-> value[x]]

Next == \E e \in Objects :
          \/ \E c \in Classes : Make(e, c)
          \/ \E f \in Objects : Copy(e, f) \/ Assign(e, f)
          \/ \E note \in Notes : AddInfo(e, note)
          \/ \E place \in Places : AddLocation(e, place)
          \/ Destroy(e)

Spec == Init /\ [][Next]_value
=============================================================================
