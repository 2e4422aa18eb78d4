----------------------------- MODULE LuaProgram -----------------------------
(***************************************************************************)
(* What a program does to the heap that LuaGc collects: the operations of   *)
(* the API (lapi.c) and of the interpreter (lvm.c, lfunc.c, lstring.c) that *)
(* make objects and store references, with the barriers they owe to the     *)
(* collector.  They all work on the stack of the running thread L.          *)
(***************************************************************************)
EXTENDS LuaGc

CONSTANTS Weak,         \* bound: the tables that have an entry and may be weak
          Keys,         \* bound: the objects that are keys
          Values,       \* bound: the objects that are values in tables, not in themselves
          UserValues,   \* bound: the objects that are user values
          Locals,       \* bound: the objects that captured variables hold
          Finalizable   \* bound: the objects that may have a finalizer

vars == <<g, L>>

Has(o) == o \in g.stack[L]
Held(x) == Has(x) \/ x = Nil

Running == g.closing # "done"

\* luaC_barrier(): forward, or in a sweep the object turns white early.
Barrier(h, o, x) ==
  IF h.marked[o] = "black" /\ WhiteValue(h, x)
  THEN IF KeepInvariant(h) THEN Mark(h, {x}) ELSE MakeWhite(h, o)
  ELSE h

\* luaC_barrierback().  In a sweep the list means nothing.
BarrierBack(h, t, x) ==
  IF h.marked[t] = "black" /\ WhiteValue(h, x)
  THEN [h EXCEPT !.marked[t] = "gray", !.grayagain = IF KeepInvariant(h) THEN @ \cup {t} ELSE @]
  ELSE h
-----------------------------------------------------------------------------
(* Objects and the stack.                                                  *)

\* luaC_newobj(): white, at the head of allgc, and on the stack.
Created(h, o) == Push([h EXCEPT !.marked[o] = h.white, !.allgc = <<o>> \o @], o)

New(o) == /\ Running /\ o \in Unused(g) \cap (Tables \cup Userdata \cup Threads)
          /\ g' = Created(g, o)
          /\ UNCHANGED L

\* A mutant of Intern: a dead string is used as it is.
InternDead(s) == /\ Running
                 /\ g' = IF s \in Unused(g) THEN Created(g, s) ELSE Push(g, s)
                 /\ UNCHANGED L

\* internshrstr(): a string that is dead, but not yet swept, comes to life again.
Intern(s) == /\ Running
             /\ g' = IF s \in Unused(g) THEN Created(g, s)
                     ELSE Push(IF IsDead(g, s) THEN MakeWhite(g, s) ELSE g, s)
             /\ UNCHANGED L

Pop(o) == /\ Running /\ Has(o)
          /\ g' = [g EXCEPT !.stack[L] = @ \ {o}]
          /\ UNCHANGED L

\* Getters, and next() for keys.
Readable(o) == CASE o \in Tables   -> IF g.val[o] = Nil THEN {} ELSE {g.key[o], g.val[o]}
                 [] o \in Userdata -> {g.uservalue[o]}
                 [] o \in Closures -> {Value(g, g.up[o])}
                 [] OTHER          -> {}

Get(o, x) == /\ Running /\ Has(o) /\ x \in Readable(o) \cap Objects
             /\ g' = Push(g, x)
             /\ UNCHANGED L
-----------------------------------------------------------------------------
(* Tables, userdata and metatables.                                        *)

\* lua_rawset(): in a node that has the key, or a new one, when there is room for it.
SetEntry(t, k, v) ==
  /\ Running /\ Has(t) /\ (Has(k) \/ k = Number) /\ Held(v)
  /\ g.key[t] # k => g.val[t] = Nil
  /\ LET h == IF g.key[t] = k THEN g ELSE BarrierBack([g EXCEPT !.key[t] = k], t, k)
     IN  g' = BarrierBack([h EXCEPT !.val[t] = v], t, v)
  /\ UNCHANGED L

SetUserValue(u, x) == /\ Running /\ Has(u) /\ Held(x)
                      /\ g' = Barrier([g EXCEPT !.uservalue[u] = x], u, x)
                      /\ UNCHANGED L

\* lua_setmetatable(), with a metatable without consequence, one with __gc, or, for a
\* table, one of the three weak ones, which stays (a bound).
SetMetatable(o, m) == /\ Running /\ Has(o) /\ g.meta[o] \in {"none", "gc"}
                      /\ LET h == [g EXCEPT !.meta[o] = m]
                         IN  g' = IF m = "gc" THEN CheckFinalizer(h, o) ELSE h
                      /\ UNCHANGED L
-----------------------------------------------------------------------------
(* Coroutines and closures.                                                *)

SetLocal(x) == /\ Running /\ Held(x)
               /\ g' = [g EXCEPT !.var[L] = x]
               /\ UNCHANGED L

\* The local variable goes out of scope.
EndScope == /\ Running
            /\ g' = [CloseUpvals(g, L) EXCEPT !.var[L] = Nil]
            /\ UNCHANGED L

\* OP_CLOSURE: the upvalue that is open for the variable, or a new one.
MakeClosure(f, uv) ==
  /\ Running /\ f \in Unused(g)
  /\ IF OpenUpvals(g, L) = {} THEN g.refcount[uv] = 0 /\ g.open[uv] = Nil ELSE g.open[uv] = L
  /\ LET h == [g EXCEPT !.up[f] = uv, !.refcount[uv] = @ + 1, !.open[uv] = L,
                        !.touched = IF g.open[uv] = L THEN @ ELSE @ \cup {uv},
                        !.twups = IF g.open[uv] = L THEN @ ELSE @ \cup {L}]
     IN  g' = Created(h, f)
  /\ UNCHANGED L

\* OP_SETUPVAL, lua_setupvalue().
SetUpvalue(f, x) ==
  /\ Running /\ Has(f) /\ Held(x)
  /\ LET uv == g.up[f]
         th == g.open[uv]
     IN  g' = IF th = Nil THEN UpvalBarrier([g EXCEPT !.value[uv] = x], uv)
              ELSE [g EXCEPT !.var[th] = x]
  /\ UNCHANGED L

\* lua_xmove() to a thread that does not run.
XMove(th, x) == /\ Running /\ Has(th) /\ Has(x) /\ th # L
                /\ g' = [g EXCEPT !.stack = [@ EXCEPT ![L] = @ \ {x}, ![th] = @ \cup {x}]]
                /\ UNCHANGED L

\* Coroutines are resumed by the main thread and yield to it.
Resume(th) == /\ Running /\ L = Main /\ Has(th)
              /\ L' = th
              /\ UNCHANGED g

Yield == /\ Running /\ L # Main
         /\ L' = Main
         /\ UNCHANGED g
-----------------------------------------------------------------------------
(* The end.                                                                *)

\* lua_close(): what has a finalizer is called, whatever holds it, ...
Close == /\ g.closing = "no" /\ L = Main
         /\ g' = [SeparateToBeFnz(CloseUpvals(g, Main), TRUE) EXCEPT !.closing = "yes"]
         /\ UNCHANGED L

\* ... and then all is freed, what the finalizers made meanwhile too.
FreeAllObjects == /\ g.closing = "yes" /\ g.tobefnz = <<>> /\ L = Main
                  /\ LET after[n \in Nat] ==
                           IF n = 0 THEN g
                           ELSE LET h == after[n - 1]
                                    rest == h.finobj \o h.allgc
                                IN  IF rest = <<>> THEN h ELSE FreeObj(h, Head(rest))
                     IN  g' = [after[Cardinality(Objects)] EXCEPT !.closing = "done", !.sweepgc = Nil,
                                                                  !.stack[Main] = {}, !.var[Main] = Nil]
                  /\ UNCHANGED L
-----------------------------------------------------------------------------
Program ==
  \/ \E o \in Objects : New(o) \/ Pop(o)
  \/ \E s \in Strings : Intern(s)
  \/ \E o, x \in Objects : Get(o, x)
  \/ \E t \in Weak, k \in Keys \cup {Number} :
       \E v \in (Values \ {t}) \cup {Nil} : SetEntry(t, k, v)
  \/ \E u \in Userdata, x \in UserValues \cup {Nil} : SetUserValue(u, x)
  \/ \E t \in Weak : \E m \in {"k", "v", "kv"} : SetMetatable(t, m)
  \/ \E o \in Finalizable : \E m \in {"none", "gc"} : SetMetatable(o, m)
  \/ \E x \in Locals \cup {Nil} : SetLocal(x) \/ \E f \in Closures : SetUpvalue(f, x)
  \/ \E f \in Closures, uv \in UpVals : MakeClosure(f, uv)
  \/ \E th \in Threads : Resume(th) \/ \E x \in Objects : XMove(th, x)
  \/ EndScope \/ Yield
  \/ Close \/ FreeAllObjects

Collector == \/ RestartCollection \/ Propagate \/ Atomic
             \/ SweepStep \/ SweepEnd \/ EndCycle \/ FullGc

\* The finalizer of the very object on which the sweep of tobefnz stands: the sweep goes
\* on in allgc, where the object now is, and the rest of tobefnz keeps its colour.
Overtakes == /\ g.state = "swptobefnz" /\ g.sweepgc \in Objects
             /\ g.tobefnz # <<>> /\ g.sweepgc = Head(g.tobefnz)

\* What the collector is meant for, without that case, and what it really does.
Next == (g.closing = "no" /\ Collector) \/ (Running /\ ~Overtakes /\ Finalize) \/ Program
OvertakenNext == Next \/ (Running /\ Overtakes /\ Finalize)

Spec == Init /\ [][Next]_vars
OvertakenSpec == Init /\ [][OvertakenNext]_vars
=============================================================================
