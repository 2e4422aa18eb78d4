---------------------------- MODULE ExceptionInfo ----------------------------
(***************************************************************************)
(* except.hpp and except.cpp: exceptions that carry information.            *)
(* What an exception carries is in an ExceptionInfo that its copies share,  *)
(* with a counter in it.  EnsureInfo() looks at the counter before anything *)
(* is written: who is the only holder writes in place, who is not gets a    *)
(* block of its own.                                                       *)
(*                                                                         *)
(* Exception objects are used by one thread at a time, blocks by all the    *)
(* threads that have a copy: each access to a counter is a step, and steps  *)
(* on different objects interleave.  Every allocation can fail.            *)
(*                                                                         *)
(* An object whose class does not derive from Exception is foreign: it      *)
(* carries nothing until RethrowException() throws another one for it.      *)
(***************************************************************************)
EXTENDS Naturals, Sequences, FiniteSets

CONSTANTS Objects, Blocks,
          Infos,      \* pairs of a key and a value
          Places,     \* a file, line and function
          Thrown,     \* names of the classes that are thrown
          None,
          MaxInfos    \* bound: infos of one exception

\* The parent of each class of the standard library (of int for the rest).
Parent == [exception |-> "exception", int |-> "int",
  logic_error |-> "exception", domain_error |-> "logic_error", invalid_argument |-> "logic_error",
  length_error |-> "logic_error", out_of_range |-> "logic_error", future_error |-> "logic_error",
  runtime_error |-> "exception", range_error |-> "runtime_error", overflow_error |-> "runtime_error",
  underflow_error |-> "runtime_error", regex_error |-> "runtime_error",
  system_error |-> "runtime_error", failure |-> "system_error", filesystem_error |-> "system_error",
  bad_optional_access |-> "exception", bad_typeid |-> "exception", bad_cast |-> "exception",
  bad_any_cast |-> "bad_cast", bad_weak_ptr |-> "exception", bad_function_call |-> "exception",
  bad_alloc |-> "exception", bad_array_new_length |-> "bad_alloc", bad_exception |-> "exception",
  bad_variant_access |-> "exception"]

Names == DOMAIN Parent

Bases(c) == {c, Parent[c], Parent[Parent[c]], Parent[Parent[Parent[c]]]}

Class == [name : Names, own : BOOLEAN]   \* own: derives from Exception, too

NoClass == [name |-> "int", own |-> FALSE]   \* where there is no object

ASSUME ExceptionInfoAssumption ==
  /\ IsFiniteSet(Objects) /\ None \notin Objects \cup Blocks \cup Infos \cup Places
  /\ Infos \cap Names = {}   \* only RethrowException() adds the name of a class
  /\ Thrown \subseteq Names /\ MaxInfos \in Nat

VARIABLES stage,     \* how far the call on an object has come; "none": no object
          after,     \* the stage that follows when the old block is given up
          role,      \* "kept", "made" by GetException(), "temp" of RethrowException()
          class,
          todo,      \* what is to be added
          info,      \* the block of an object
          old,       \* the block that an intrusive_ptr on the stack gives up
          heap,      \* the blocks that are allocated
          block,     \* what is in a block
          refcount

vars == <<stage, after, role, class, todo, info, old, heap, block, refcount>>

Blank == [place |-> None, infos |-> <<>>]

Init == /\ stage = [e \in Objects |-> "none"]
        /\ after = [e \in Objects |-> "none"]
        /\ role = [e \in Objects |-> "kept"]
        /\ class = [e \in Objects |-> NoClass]
        /\ todo = [e \in Objects |-> None]
        /\ info = [e \in Objects |-> None]
        /\ old = [e \in Objects |-> None]
        /\ heap = {}
        /\ block = [b \in Blocks |-> Blank]
        /\ refcount = [b \in Blocks |-> 0]

Carries(e) == IF info[e] = None THEN Blank ELSE block[info[e]]
-----------------------------------------------------------------------------
(* Objects.                                                                *)

New(e, c, r, what, first) ==
  /\ stage[e] = "none"
  /\ stage' = [stage EXCEPT ![e] = first]
  /\ class' = [class EXCEPT ![e] = c]
  /\ role' = [role EXCEPT ![e] = r]
  /\ todo' = [todo EXCEPT ![e] = what]
  /\ UNCHANGED <<after, info, old, heap, block, refcount>>

\* LIBSHIT_THROW: the exception gets its place before it is thrown.
GetException(e, c, place) == New(e, [name |-> c, own |-> TRUE], "made", place, "ensure")

\* Someone else throws.
ThrowForeign(e, c) == New(e, [name |-> c, own |-> FALSE], "kept", None, "idle")

\* A mutant of AddRef: a copy takes the pointer only.
AddRefNot(e) == UNCHANGED refcount

AddRef(e) == refcount' = IF info[e] = None THEN refcount
                         ELSE [refcount EXCEPT ![info[e]] = @ + 1]

CopyTo(e, f) == /\ stage[f] = "none"
                /\ AddRef(e)
                /\ info' = [info EXCEPT ![f] = info[e]]
                /\ class' = [class EXCEPT ![f] = class[e]]
                /\ role' = [role EXCEPT ![f] = "kept"]

Copy(e, f) == /\ stage[e] = "idle" /\ CopyTo(e, f)
              /\ stage' = [stage EXCEPT ![f] = "idle"]
              /\ UNCHANGED <<after, todo, old, heap, block>>

\* *f = *e: intrusive_ptr takes the new block before it gives up the old one.
Assign(e, f) ==
  /\ stage[e] = "idle" /\ stage[f] = "idle"
  /\ class[e] = class[f] /\ class[e].own
  /\ AddRef(e)
  /\ info' = [info EXCEPT ![f] = info[e]]
  /\ old' = [old EXCEPT ![f] = info[f]]
  /\ IF info[f] = None THEN UNCHANGED <<stage, after>>
     ELSE /\ stage' = [stage EXCEPT ![f] = "release"]
          /\ after' = [after EXCEPT ![f] = "idle"]
  /\ UNCHANGED <<role, class, todo, heap, block>>

\* The next stage of e, the last of which is that there is no object any more.
Become(e, s) == /\ stage' = [stage EXCEPT ![e] = s]
                /\ class' = [class EXCEPT ![e] = IF s = "none" THEN NoClass ELSE @]
                /\ role' = [role EXCEPT ![e] = IF s = "none" THEN "kept" ELSE @]

\* The destructor of e, which gives up the block if there is one.
Ends(e) == /\ Become(e, IF info[e] = None THEN "none" ELSE "release")
           /\ after' = [after EXCEPT ![e] = "none"]
           /\ old' = [old EXCEPT ![e] = info[e]]
           /\ info' = [info EXCEPT ![e] = None]

Destroy(e) == /\ stage[e] = "idle" /\ Ends(e)
              /\ UNCHANGED <<todo, heap, block, refcount>>
-----------------------------------------------------------------------------
(* AddInfo() and AddLocation(): EnsureInfo(), then the change.              *)

Start(e, what) == /\ stage[e] = "idle" /\ class[e].own
                  /\ stage' = [stage EXCEPT ![e] = "ensure"]
                  /\ todo' = [todo EXCEPT ![e] = what]
                  /\ UNCHANGED <<after, role, class, info, old, heap, block, refcount>>

AddInfo(e, note) == Len(Carries(e).infos) < MaxInfos /\ Start(e, note)

AddLocation(e, place) == Start(e, place)

\* new ExceptionInfo, with this content.
NewBlock(e, b, content) == /\ b \notin heap
                           /\ heap' = heap \cup {b}
                           /\ block' = [block EXCEPT ![b] = content]
                           /\ refcount' = [refcount EXCEPT ![b] = 1]
                           /\ info' = [info EXCEPT ![e] = b]

EnsureNew(e) == /\ stage[e] = "ensure" /\ info[e] = None
                /\ \E b \in Blocks : NewBlock(e, b, Blank)
                /\ stage' = [stage EXCEPT ![e] = "write"]
                /\ UNCHANGED <<after, role, class, todo, old>>

\* A mutant of Shared: a block is taken for the object's own as long as it has one other holder.
SharedByMany(b) == refcount[b] > 2

Shared(b) == refcount[b] # 1

\* if (info->refcount != 1).
EnsureLook(e) == /\ stage[e] = "ensure" /\ info[e] # None
                 /\ stage' = [stage EXCEPT ![e] = IF Shared(info[e]) THEN "clone" ELSE "write"]
                 /\ UNCHANGED <<after, role, class, todo, info, old, heap, block, refcount>>

\* info.reset(new ExceptionInfo{*info}).
EnsureClone(e) == /\ stage[e] = "clone"
                  /\ \E b \in Blocks : NewBlock(e, b, block[info[e]])
                  /\ old' = [old EXCEPT ![e] = info[e]]
                  /\ after' = [after EXCEPT ![e] = "write"]
                  /\ stage' = [stage EXCEPT ![e] = "release"]
                  /\ UNCHANGED <<role, class, todo>>

Put(content, what) == IF what \in Places THEN [content EXCEPT !.place = what]
                      ELSE [content EXCEPT !.infos = Append(@, what)]

Write(e) == /\ stage[e] = "write"
            /\ block' = [block EXCEPT ![info[e]] = Put(@, todo[e])]
            /\ stage' = [stage EXCEPT ![e] = IF role[e] = "temp" THEN "throw" ELSE "idle"]
            /\ role' = [role EXCEPT ![e] = IF @ = "made" THEN "kept" ELSE @]
            /\ todo' = [todo EXCEPT ![e] = None]
            /\ UNCHANGED <<after, class, info, old, heap, refcount>>

\* An allocation fails: of a block, or of a node of the multimap.  What is not yet
\* thrown is destroyed.
Fail(e) == /\ \/ stage[e] = "ensure" /\ info[e] = None
              \/ stage[e] = "clone"
              \/ stage[e] = "write" /\ todo[e] \notin Places
           /\ \/ /\ role[e] = "kept"
                 /\ Become(e, "idle")
                 /\ UNCHANGED <<after, old, info>>
              \/ role[e] # "kept" /\ Ends(e)
           /\ todo' = [todo EXCEPT ![e] = None]
           /\ UNCHANGED <<heap, block, refcount>>
-----------------------------------------------------------------------------
(* intrusive_ptr_release().                                                *)

Done(e) == /\ Become(e, after[e])
           /\ after' = [after EXCEPT ![e] = "none"]
           /\ old' = [old EXCEPT ![e] = None]

Release(e) == /\ stage[e] = "release"
              /\ refcount' = [refcount EXCEPT ![old[e]] = @ - 1]
              /\ \/ /\ refcount[old[e]] = 1
                    /\ Become(e, "delete")
                    /\ UNCHANGED <<after, old>>
                 \/ refcount[old[e]] # 1 /\ Done(e)
              /\ UNCHANGED <<todo, info, heap, block>>

Delete(e) == /\ stage[e] = "delete" /\ Done(e)
             /\ heap' = heap \ {old[e]}
             /\ block' = [block EXCEPT ![old[e]] = Blank]
             /\ UNCHANGED <<todo, info, refcount>>
-----------------------------------------------------------------------------
(* RethrowException().                                                     *)

\* A mutant of Handlers: the general classes come first.
HandlersReversed == <<"runtime_error", "logic_error", "system_error", "failure", "bad_alloc">>

Handlers == <<"range_error", "overflow_error", "underflow_error", "failure", "system_error",
  "runtime_error", "bad_optional_access", "domain_error", "invalid_argument", "length_error",
  "out_of_range", "logic_error", "bad_typeid", "bad_cast", "bad_weak_ptr", "bad_function_call",
  "bad_alloc", "bad_exception", "bad_variant_access">>

Matching(c) == {i \in DOMAIN Handlers : Handlers[i] \in Bases(c)}

\* The class of the first handler that matches, if there is one.
Caught(c) == {Handlers[i] : i \in {j \in Matching(c) : \A k \in Matching(c) : j <= k}}

\* It throws an EnableErrorInfo of its class, which has the name of the original
\* class as its first info.  An exception that no handler matches goes on as it is.
Rethrow(e, f) ==
  /\ stage[e] = "idle" /\ ~class[e].own
  /\ \E c \in Caught(class[e].name) :
       New(f, [name |-> c, own |-> TRUE], "temp", class[e].name, "ensure")

\* throw AddInfos(...): the object that flies is a copy of the temporary.
ThrowTemp(e, f) == /\ stage[e] = "throw" /\ CopyTo(e, f)
                   /\ stage' = [stage EXCEPT ![e] = "leave", ![f] = "idle"]
                   /\ UNCHANGED <<after, todo, old, heap, block>>

DropTemp(e) == /\ stage[e] = "leave" /\ Ends(e)
               /\ UNCHANGED <<todo, heap, block, refcount>>
-----------------------------------------------------------------------------
Use(e) == \/ \E c \in Thrown : ThrowForeign(e, c) \/ \E p \in Places : GetException(e, c, p)
          \/ \E note \in Infos : AddInfo(e, note)
          \/ \E p \in Places : AddLocation(e, p)
          \/ Destroy(e)

Exchange(e, f) == Copy(e, f) \/ Assign(e, f) \/ Rethrow(e, f) \/ ThrowTemp(e, f)

Advance(e) == \/ EnsureNew(e) \/ EnsureLook(e) \/ EnsureClone(e) \/ Write(e) \/ Fail(e)
              \/ Release(e) \/ Delete(e) \/ DropTemp(e)

Next == \E e \in Objects : Use(e) \/ Advance(e) \/ \E f \in Objects : Exchange(e, f)

Spec == Init /\ [][Next]_vars
=============================================================================
