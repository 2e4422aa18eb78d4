------------------------------- MODULE LuaGc -------------------------------
(***************************************************************************)
(* lgc.c, the garbage collector of the Lua that libshit embeds, with the    *)
(* operations of the API and of the interpreter that it has to keep up      *)
(* with: an incremental collector of three colours, with two whites,        *)
(* barriers that go forward and back, weak tables and ephemerons,           *)
(* finalizers that may resurrect, and upvalues that outlive their threads.  *)
(*                                                                         *)
(* g is the global_State with all objects in it; each operator of g is the  *)
(* function of its name and gives the global_State after it.  The program   *)
(* and the collector take turns: between any two single steps of the        *)
(* collector the program may do anything, so how much luaC_step() does at a *)
(* time (debt, pause and gcstepmul) and how many finalizers it runs         *)
(* (gcfinnum) are left open, and the length of a sweep step is one object.  *)
(*                                                                         *)
(* A table has one entry, a closure one upvalue, a thread a set of values   *)
(* on its stack and one local variable that closures capture.  Metatables   *)
(* are in the registry, where luaL_newmetatable() puts them: what an object *)
(* has of its own is only which one.  Prototypes, closures of C, the cache  *)
(* of strings and what is fixed for good are left out.                      *)
(***************************************************************************)
EXTENDS Integers, Sequences, FiniteSets, FiniteSetsExt

CONSTANTS Tables, Userdata, Strings, Closures, Threads, UpVals,
          Main,     \* the main thread
          Number,   \* a value that is not collectable
          Nil, Dead \* nil and NULL; the mark of a dead key

ASSUME LuaGcAssumption ==
  /\ Main \in Threads
  /\ IsFiniteSet(Tables) /\ IsFiniteSet(Userdata) /\ IsFiniteSet(Strings)
  /\ IsFiniteSet(Closures) /\ IsFiniteSet(Threads) /\ IsFiniteSet(UpVals)

Objects == Tables \cup Userdata \cup Strings \cup Closures \cup Threads

VARIABLES g,  \* the global_State
          L   \* the thread that runs

Headers == {"allgc", "finobj", "tobefnz"}
Other(white) == IF white = "white0" THEN "white1" ELSE "white0"

White(h, o) == h.marked[o] \in {"white0", "white1"}
WhiteValue(h, x) == x \in Objects /\ White(h, x)
IsDead(h, o) == h.marked[o] = Other(h.white)
KeepInvariant(h) == h.state \in {"propagate", "atomic"}
SweepPhase(h) == h.state \in {"swpallgc", "swpfinobj", "swptobefnz", "swpend"}
MakeWhite(h, o) == [h EXCEPT !.marked[o] = h.white]

\* The value of an upvalue, in the stack or in itself.
Value(h, uv) == IF h.open[uv] = Nil THEN h.value[uv] ELSE h.var[h.open[uv]]
OpenUpvals(h, th) == {uv \in UpVals : h.open[uv] = th}

Unused(h) == {o \in Objects : h.marked[o] = "free"}
Push(h, o) == [h EXCEPT !.stack[L] = @ \cup {o}]

Init ==
  /\ g = [state |-> "pause", white |-> "white0", sweepgc |-> Nil, closing |-> "no",
          allgc |-> <<>>, finobj |-> <<>>, tobefnz |-> <<>>,
          gray |-> {}, grayagain |-> {}, weak |-> {}, allweak |-> {}, ephemeron |-> {},
          twups |-> {}, finalized |-> {},
          marked |-> [o \in Objects |-> IF o = Main THEN "white0" ELSE "free"],
          meta |-> [o \in Tables \cup Userdata |-> "none"],
          key |-> [t \in Tables |-> Number], val |-> [t \in Tables |-> Nil],
          uservalue |-> [u \in Userdata |-> Nil],
          stack |-> [th \in Threads |-> {}], var |-> [th \in Threads |-> Nil],
          up |-> [f \in Closures |-> Nil],
          open |-> [uv \in UpVals |-> Nil], value |-> [uv \in UpVals |-> Nil],
          refcount |-> [uv \in UpVals |-> 0], touched |-> {}]
  /\ L = Main
-----------------------------------------------------------------------------
(* Marking.                                                                *)

\* A mutant of Mark: the user value is marked only if the userdata has it by itself.
MarkShallow(h, S) ==
  LET all == {o \in S \cap Objects : White(h, o)}
      leaves == all \cap (Strings \cup Userdata)
  IN  [h EXCEPT !.gray = @ \cup (all \ leaves),
                !.marked = [o \in Objects |-> IF o \in leaves THEN "black"
                                              ELSE IF o \in all THEN "gray" ELSE @[o]]]

\* reallymarkobject() of every white object of S.  Strings and userdata turn black at
\* once, the user values of userdata are marked with them.
Mark(h, S) ==
  LET white == {o \in Objects : White(h, o)}
      reached[n \in Nat] ==
        IF n = 0 THEN S \cap white
        ELSE LET r == reached[n - 1] IN r \cup ({h.uservalue[u] : u \in r \cap Userdata} \cap white)
      all == reached[Cardinality(Userdata)]
      leaves == all \cap (Strings \cup Userdata)
  IN  [h EXCEPT !.gray = @ \cup (all \ leaves),
                !.marked = [o \in Objects |-> IF o \in leaves THEN "black"
                                              ELSE IF o \in all THEN "gray" ELSE @[o]]]

\* iscleared(): strings are values, so they are marked instead.
MarkString(h, x) == Mark(h, {x} \cap Strings)
Cleared(h, x) == WhiteValue(h, x) /\ x \notin Strings

RemoveEntry(h, t) == IF WhiteValue(h, h.key[t]) THEN [h EXCEPT !.key[t] = Dead] ELSE h

TraverseStrongTable(h, t) == IF h.val[t] = Nil THEN RemoveEntry(h, t)
                             ELSE Mark(h, {h.key[t], h.val[t]})

TraverseWeakValue(h, t) ==
  LET i == IF h.val[t] = Nil THEN RemoveEntry(h, t)
           ELSE MarkString(Mark(h, {h.key[t]}), h.val[t])
  IN  IF h.state = "propagate" THEN [i EXCEPT !.grayagain = @ \cup {t}]
      ELSE IF Cleared(i, i.val[t]) THEN [i EXCEPT !.weak = @ \cup {t}] ELSE i

TraverseEphemeron(h, t) ==
  LET k == MarkString(h, h.key[t])
      clears == Cleared(k, h.key[t])
      i == IF h.val[t] = Nil THEN RemoveEntry(h, t)
           ELSE IF clears THEN k ELSE Mark(k, {h.val[t]})
  IN  IF h.state = "propagate" THEN [i EXCEPT !.grayagain = @ \cup {t}]
      ELSE IF h.val[t] = Nil \/ ~clears THEN i
      ELSE IF WhiteValue(i, i.val[t]) THEN [i EXCEPT !.ephemeron = @ \cup {t}]
      ELSE [i EXCEPT !.allweak = @ \cup {t}]

TraverseTable(h, t) == IF h.meta[t] = "v" THEN TraverseWeakValue(h, t)
                       ELSE IF h.meta[t] = "k" THEN TraverseEphemeron(h, t)
                       ELSE IF h.meta[t] = "kv" THEN [h EXCEPT !.allweak = @ \cup {t}]
                       ELSE TraverseStrongTable(h, t)

\* The value of an open upvalue is marked with its thread, or by RemarkUpvals.
TraverseClosure(h, f) ==
  LET uv == h.up[f] IN
    IF h.open[uv] # Nil /\ h.state # "insideatomic" THEN [h EXCEPT !.touched = @ \cup {uv}]
    ELSE Mark(h, {Value(h, uv)})

TraverseThread(h, th) ==
  LET i == Mark([h EXCEPT !.grayagain = @ \cup {th}], h.stack[th] \cup {h.var[th]})
  IN  IF h.state = "insideatomic" /\ OpenUpvals(h, th) # {}
      THEN [i EXCEPT !.twups = @ \cup {th}] ELSE i

\* Threads and weak tables stay gray.
PropagateMark(h, o) ==
  LET stays == o \in Threads \/ (o \in Tables /\ h.meta[o] \in {"k", "v", "kv"})
      i == [h EXCEPT !.gray = @ \ {o}, !.marked[o] = IF stays THEN "gray" ELSE "black"]
  IN  IF o \in Tables THEN TraverseTable(i, o)
      ELSE IF o \in Closures THEN TraverseClosure(i, o) ELSE TraverseThread(i, o)

\* Every object is white at most once: there are no more than that many to propagate.
PropagateAll(h) ==
  LET after[n \in Nat] ==
        IF n = 0 THEN h
        ELSE LET i == after[n - 1] IN
               IF i.gray = {} THEN i ELSE PropagateMark(i, CHOOSE o \in i.gray : TRUE)
  IN  after[Cardinality(Objects)]

\* All ephemerons in turn, again and again: more rounds than there are tables change nothing.
ConvergeEphemerons(h) ==
  LET round(i) == FoldSet(LAMBDA t, j : PropagateAll(TraverseEphemeron(j, t)),
                          [i EXCEPT !.ephemeron = {}], i.ephemeron)
      after[n \in Nat] == IF n = 0 THEN h ELSE round(after[n - 1])
  IN  after[Cardinality(Tables) + 1]

\* Threads that no collection will come to leave their upvalues to the closures.
RemarkUpvals(h) ==
  LET gone == {th \in h.twups : h.marked[th] # "gray" \/ OpenUpvals(h, th) = {}}
      left == {uv \in h.touched : h.open[uv] \in gone}
  IN  Mark([h EXCEPT !.twups = @ \ gone, !.touched = @ \ left], {Value(h, uv) : uv \in left})
-----------------------------------------------------------------------------
(* Freeing and sweeping.                                                   *)

ListOf(h, o) == CHOOSE l \in Headers : \E i \in DOMAIN h[l] : h[l][i] = o
Position(s, o) == CHOOSE i \in DOMAIN s : s[i] = o
Without(s, o) == SelectSeq(s, LAMBDA x : x # o)
Unlink(h, o) == LET l == ListOf(h, o) IN [h EXCEPT ![l] = Without(@, o)]

\* A mutant of UpvalBarrier: only while gray objects are left.
UpvalBarrierEarly(h, uv) ==
  IF h.open[uv] = Nil /\ h.state = "propagate" THEN Mark(h, {h.value[uv]}) ELSE h

\* luaC_upvalbarrier(), for an upvalue that has its value in itself.
UpvalBarrier(h, uv) == IF h.open[uv] = Nil /\ KeepInvariant(h) THEN Mark(h, {h.value[uv]}) ELSE h

\* An upvalue that is closed and that no closure has is freed.
UpvDecCount(h, uv) ==
  LET n == h.refcount[uv] - 1
  IN  [h EXCEPT !.refcount[uv] = n, !.value[uv] = IF n = 0 THEN Nil ELSE @]

\* luaF_close(): the value moves from the stack into the upvalue.
CloseUpvals(h, th) ==
  LET close(uv, i) ==
        LET j == [i EXCEPT !.open[uv] = Nil, !.touched = @ \ {uv}]
        IN  IF i.refcount[uv] = 0 THEN j
            ELSE UpvalBarrier([j EXCEPT !.value[uv] = i.var[th]], uv)
  IN  FoldSet(close, h, OpenUpvals(h, th))

FreeObj(h, o) ==
  LET i == IF o \in Closures THEN UpvDecCount(h, h.up[o])
           ELSE IF o \in Threads THEN CloseUpvals(h, o) ELSE h
      j == [Unlink(i, o) EXCEPT !.marked[o] = "free", !.finalized = @ \ {o}]
  IN  CASE o \in Tables   -> [j EXCEPT !.key[o] = Number, !.val[o] = Nil, !.meta[o] = "none"]
        [] o \in Userdata -> [j EXCEPT !.uservalue[o] = Nil, !.meta[o] = "none"]
        [] o \in Closures -> [j EXCEPT !.up[o] = Nil]
        [] o \in Threads  -> [j EXCEPT !.stack[o] = {}, !.var[o] = Nil]
        [] OTHER          -> j

\* What the sweep has still to see: sweepgc is a header or points into an object.
Unswept(h) == IF h.sweepgc \in Headers THEN h[h.sweepgc]
              ELSE LET l == h[ListOf(h, h.sweepgc)]
                   IN  SubSeq(l, Position(l, h.sweepgc) + 1, Len(l))

\* sweeplist() of one object.
SweepOne(h) ==
  LET o == Head(Unswept(h))
      i == IF IsDead(h, o) THEN FreeObj(h, o) ELSE [MakeWhite(h, o) EXCEPT !.sweepgc = o]
  IN  IF Unswept(h) = <<>> THEN [h EXCEPT !.sweepgc = Nil]
      ELSE IF Unswept(i) = <<>> THEN [i EXCEPT !.sweepgc = Nil] ELSE i

\* sweeptolive(): until an object stays or there is none.
SweepToLive(h) ==
  LET after[n \in Nat] ==
        IF n = 0 THEN SweepOne(h)
        ELSE LET i == after[n - 1] IN IF i.sweepgc = h.sweepgc THEN SweepOne(i) ELSE i
  IN  after[Cardinality(Objects)]

EnterSweep(h) == SweepOne([h EXCEPT !.state = "swpallgc", !.sweepgc = "allgc"])

ClearKeys(h, S) ==
  LET clear(t, i) ==
        LET j == IF i.val[t] = Nil THEN i ELSE MarkString(i, i.key[t])
            k == IF Cleared(j, j.key[t]) THEN [j EXCEPT !.val[t] = Nil] ELSE j
        IN  IF k.val[t] = Nil THEN RemoveEntry(k, t) ELSE k
  IN  FoldSet(clear, h, S)

ClearValues(h, S) ==
  LET clear(t, i) ==
        LET j == MarkString(i, i.val[t])
        IN  IF Cleared(j, j.val[t]) THEN RemoveEntry([j EXCEPT !.val[t] = Nil], t) ELSE j
  IN  FoldSet(clear, h, S)
-----------------------------------------------------------------------------
(* Finalization.                                                           *)

SeparateToBeFnz(h, all) ==
  LET out(o) == all \/ White(h, o)
  IN  [h EXCEPT !.finobj = SelectSeq(@, LAMBDA o : ~out(o)),
                !.tobefnz = @ \o SelectSeq(h.finobj, out)]

\* A mutant of CheckFinalizer: the sweep is not moved off the object.
CheckFinalizerInSweep(h, o) ==
  IF o \in h.finalized THEN h
  ELSE LET i == IF SweepPhase(h) THEN MakeWhite(h, o) ELSE h
       IN  [Unlink(i, o) EXCEPT !.finobj = <<o>> \o @, !.finalized = @ \cup {o}]

\* luaC_checkfinalizer() for an object whose metatable has __gc.
CheckFinalizer(h, o) ==
  IF o \in h.finalized THEN h
  ELSE LET i == IF SweepPhase(h) THEN MakeWhite(h, o) ELSE h
           j == IF SweepPhase(h) /\ i.sweepgc = o THEN SweepToLive(i) ELSE i
       IN  [Unlink(j, o) EXCEPT !.finobj = <<o>> \o @, !.finalized = @ \cup {o}]

\* A mutant of Udata2Finalize: the object stays marked for finalization.
Udata2FinalizeKeepingBit(h) ==
  LET o == Head(h.tobefnz)
      i == [h EXCEPT !.tobefnz = Tail(@), !.allgc = <<o>> \o @]
  IN  IF SweepPhase(h) THEN MakeWhite(i, o) ELSE i

\* udata2finalize(), of the first object in tobefnz.
Udata2Finalize(h) ==
  LET o == Head(h.tobefnz)
      i == [h EXCEPT !.tobefnz = Tail(@), !.allgc = <<o>> \o @, !.finalized = @ \ {o}]
  IN  IF SweepPhase(h) THEN MakeWhite(i, o) ELSE i
-----------------------------------------------------------------------------
(* The steps of the collector.                                             *)

RestartCollection == /\ g.state = "pause"
                     /\ g' = Mark([g EXCEPT !.state = "propagate", !.gray = {}, !.grayagain = {}],
                                  {Main} \cup Range(g.tobefnz))
                     /\ UNCHANGED L

\* Whichever gray object is first in the list.
Propagate == /\ g.state = "propagate"
             /\ \E o \in g.gray :
                  LET h == PropagateMark(g, o)
                  IN  g' = IF h.gray = {} THEN [h EXCEPT !.state = "atomic"] ELSE h
             /\ UNCHANGED L

\* The parts of atomic(): all that is alive is marked ...
Remark(h) == RemarkUpvals(Mark([h EXCEPT !.state = "insideatomic"], {L}))
MarkAlive(h) == ConvergeEphemerons(PropagateAll([PropagateAll(Remark(h)) EXCEPT !.gray = h.grayagain]))
ClearAlive(h) == ClearValues(h, h.weak \cup h.allweak)

\* ... what has to be finalized comes to life again ...
MarkBeingFnz(h) == Mark(h, Range(h.tobefnz))
Resurrect(h) == ConvergeEphemerons(PropagateAll(MarkBeingFnz(SeparateToBeFnz(h, FALSE))))

\* ... and weak tables lose what is dead for good, values only those that were not
\* cleared before.
ClearDeadKeys(h) == ClearKeys(h, h.ephemeron \cup h.allweak)
ClearRest(h, before) == ClearValues(h, (h.weak \ before.weak) \cup (h.allweak \ before.allweak))
ClearDead(h) == ClearRest(ClearDeadKeys(Resurrect(h)), h)

\* A mutant of Finished: weak tables are cleared only once, after the resurrection.
FinishedLate(h) == [ClearAlive(ClearDeadKeys(Resurrect(MarkAlive(h)))) EXCEPT
                      !.white = Other(@), !.grayagain = {},
                      !.weak = {}, !.allweak = {}, !.ephemeron = {}]

\* The gray lists mean nothing from then on, so they are empty here.
Finished(h) == [ClearDead(ClearAlive(MarkAlive(h))) EXCEPT
                  !.white = Other(@), !.grayagain = {},
                  !.weak = {}, !.allweak = {}, !.ephemeron = {}]

Atomic == /\ g.state = "atomic"
          /\ g' = EnterSweep(Finished(PropagateAll(g)))
          /\ UNCHANGED L

NextList == [swpallgc |-> "swpfinobj", swpfinobj |-> "swptobefnz", swptobefnz |-> "swpend"]
NextHeader == [swpallgc |-> "finobj", swpfinobj |-> "tobefnz", swptobefnz |-> Nil]

SweepStep == /\ g.state \in DOMAIN NextList
             /\ LET h == IF g.sweepgc # Nil THEN SweepOne(g) ELSE g
                IN  g' = IF h.sweepgc # Nil THEN h
                         ELSE [h EXCEPT !.state = NextList[@], !.sweepgc = NextHeader[h.state]]
             /\ UNCHANGED L

SweepEnd == /\ g.state = "swpend"
            /\ g' = [MakeWhite(g, Main) EXCEPT !.state = "callfin"]
            /\ UNCHANGED L

\* With objects left to finalize only after an emergency collection.
EndCycle == /\ g.state = "callfin"
            /\ g' = [g EXCEPT !.state = "pause"]
            /\ UNCHANGED L

\* luaC_fullgc() gives up a marking that is under way.
FullGc == /\ KeepInvariant(g)
          /\ g' = EnterSweep([g EXCEPT !.gray = {}, !.grayagain = {}, !.weak = {},
                                       !.allweak = {}, !.ephemeron = {}])
          /\ UNCHANGED L

\* GCTM(): the object is handed to the finalizer, if its metatable still has one.
Finalize == /\ g.tobefnz # <<>> /\ (g.state = "pause" => g.closing = "yes")
            /\ LET o == Head(g.tobefnz) IN
                 g' = IF g.meta[o] = "gc" THEN Push(Udata2Finalize(g), o) ELSE Udata2Finalize(g)
            /\ UNCHANGED L
=============================================================================
