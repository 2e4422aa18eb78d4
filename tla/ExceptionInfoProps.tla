-------------------------- MODULE ExceptionInfoProps --------------------------
(* What sharing the information must not show. *)
EXTENDS ExceptionInfo

Stages == {"none", "idle", "ensure", "clone", "write", "release", "delete", "throw", "leave"}

Notes == Infos \cup Names

Content == [place : Places \cup {None}, infos : Seq(Notes)]

TypeOK == /\ stage \in [Objects -> Stages] /\ after \in [Objects -> {"none", "idle", "write"}]
          /\ role \in [Objects -> {"kept", "made", "temp"}] /\ class \in [Objects -> Class]
          /\ todo \in [Objects -> Notes \cup Places \cup {None}]
          /\ info \in [Objects -> Blocks \cup {None}] /\ old \in [Objects -> Blocks \cup {None}]
          /\ heap \subseteq Blocks /\ block \in [Blocks -> Content] /\ refcount \in [Blocks -> Nat]

\* The intrusive_ptrs to a block, in exceptions and on the stack of a thread that
\* gives up a block, and the threads that delete it.
Holding(b) == {e \in Objects : info[e] = b}
Leaving(b) == {e \in Objects : stage[e] = "release" /\ old[e] = b}
Deleting(b) == {e \in Objects : stage[e] = "delete" /\ old[e] = b}

\* The counter of a block is the number of its holders, whichever threads copy,
\* change and destroy exceptions at the same time and whichever allocation fails;
\* so nobody has a block that is not allocated.  A block that nobody has any more
\* is deleted, by one thread.
BlocksCounted ==
  \A b \in Blocks :
    /\ refcount[b] = Cardinality(Holding(b)) + Cardinality(Leaving(b))
    /\ b \notin heap => refcount[b] = 0
    /\ Cardinality(Deleting(b)) = IF b \in heap /\ refcount[b] = 0 THEN 1 ELSE 0

\* e is destroyed, or its destructor has begun.
Gone(e) == \/ stage[e] = "none"
           \/ stage[e] \in {"release", "delete"} /\ after[e] = "none"

Listed == {Handlers[i] : i \in DOMAIN Handlers}

\* c is what RethrowException() makes of d: the most derived class listed there
\* that d has as a base.
Nearest(c, d) == c \in Listed \cap Bases(d) /\ Listed \cap Bases(d) \subseteq Bases(c)

\* An exception that was rethrown, which has the name of the original class as its
\* first info, is of the nearest class, also after it was copied, assigned and
\* changed; and so it would be for each class of the standard library.
RethrownAsNearest ==
  /\ \A d \in Names : \A c \in Caught(d) : Nearest(c, d)
  /\ \A e \in Objects :
       LET infos == Carries(e).infos IN
         ~Gone(e) /\ infos # <<>> /\ infos[1] \in Names =>
           class[e].own /\ Nearest(class[e].name, infos[1])

Live == {e \in Objects : ~Gone(e)}

Val(e) == [class |-> class[e], carries |-> Carries(e)]

Values == INSTANCE ExceptionValues WITH Classes <- Class, value <- [e \in Live |-> Val(e)]

\* Exceptions are values: that they share blocks does not show, also not to a
\* thread that has a copy of an exception which another thread adds information to.
ImplementsValues == Values!Spec
=============================================================================
