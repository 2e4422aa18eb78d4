----------------------------- MODULE LuaGcProps -----------------------------
(* What the collector promises the program. *)
EXTENDS LuaProgram

Colours == {"white0", "white1", "gray", "black"}

\* Each object is in one of the lists and none is twice; the fields have their types.
TypeOK ==
  LET all == g.allgc \o g.finobj \o g.tobefnz IN
  /\ IsInjective(all) /\ Range(all) = Objects \ (Unused(g) \cup {Main})
  /\ g.marked \in [Objects -> Colours \cup {"free"}] /\ g.marked[Main] # "free"
  /\ g.finalized = Range(g.finobj) \cup Range(g.tobefnz)
  /\ g.gray \cup g.grayagain \subseteq Objects /\ L \in Threads

\* All that an object refers to, and what it keeps alive: a weak table its keys, or its
\* values, or neither, an ephemeron the values of the keys that are alive.  Strings are
\* values, which no table loses: but if its other half goes the entry goes.
References(o) == Objects \cap
  (CASE o \in Tables   -> {g.key[o], g.val[o]}
     [] o \in Userdata -> {g.uservalue[o]}
     [] o \in Closures -> {Value(g, g.up[o])}
     [] o \in Threads  -> g.stack[o] \cup {g.var[o]}
     [] OTHER          -> {})

KeptAlive(o, alive) ==
  IF o \in Tables /\ g.val[o] = Nil THEN {}
  ELSE IF o \in Tables /\ g.meta[o] \in {"k", "v", "kv"}
  THEN LET mode == g.meta[o]
       IN  {x \in References(o) :
              \/ x = g.key[o] /\ mode = "v"
              \/ x = g.key[o] /\ x \in Strings /\ (mode = "k" \/ g.val[o] \in Strings \cup {Number})
              \/ x = g.val[o] /\ x \in Strings /\ mode = "v"
              \/ x = g.val[o] /\ (mode = "k" \/ x \in Strings)
                 /\ g.key[o] \in alive \cup Strings \cup {Number}}
  ELSE References(o)

\* What is reached from S by references, and by those that keep alive.
ReachedFrom(S) ==
  LET r[n \in Nat] == IF n = 0 THEN S
                      ELSE LET s == r[n - 1] IN s \cup UNION {References(o) : o \in s}
  IN  r[Cardinality(Objects)]

Accessible(S) ==
  LET r[n \in Nat] == IF n = 0 THEN S
                      ELSE LET s == r[n - 1] IN s \cup UNION {KeptAlive(o, s) : o \in s}
  IN  r[Cardinality(Objects)]

Roots == {Main, L}

\* Nothing that the program or a finalizer can come to has been freed, and neither have
\* the threads whose upvalues the collector looks after.
NothingDangles ==
  /\ TypeOK
  /\ ReachedFrom(Roots \cup Range(g.tobefnz)) \cap Unused(g) = {}
  /\ g.closing # "done" => g.twups \cap Unused(g) = {}

\* While the collector marks, no black object refers to a white one, and whatever is gray
\* is in a list, to be visited again; when it has swept, all objects are white.
ColoursSound ==
  /\ KeepInvariant(g) =>
       \A o \in Objects :
         /\ g.marked[o] = "black" =>
              \A x \in References(o) :
                White(g, x) => \/ o \in Closures /\ g.open[g.up[o]] # Nil
                               \/ o \in Tables /\ g.val[o] = Nil
         /\ g.marked[o] = "gray" => o \in g.gray \cup g.grayagain \cup g.weak \cup g.allweak \cup g.ephemeron
  /\ g.state \in {"callfin", "pause"} =>
       \A o \in Objects : g.marked[o] \in {g.white, "free"}

\* The atomic step keeps what is accessible and what finalizers will get, separates only
\* what is not accessible, and leaves in each weak table that lives on just the entries
\* that refer to nothing dead, and no value that is about to be finalized.
AtomicExact ==
  [][g.state = "atomic" /\ g'.state = "swpallgc" /\ g'.white # g.white =>
       LET alive == Accessible(Roots)
           new == Range(g'.tobefnz) \ Range(g.tobefnz)
           kept == Accessible(Roots \cup Range(g'.tobefnz))
           gone(x) == x \in Objects /\ g'.marked[x] \in {"free", Other(g'.white)}
       IN  /\ new \cap alive = {}
           /\ \A o \in kept : ~gone(o)
           /\ \A o \in Range(g'.finobj) : ~gone(o)
           /\ \A t \in Tables \cap kept :
                /\ g'.val[t] # Nil => ~gone(g'.key[t]) /\ ~gone(g'.val[t])
                /\ g.meta[t] \in {"v", "kv"} /\ t \in alive => g'.val[t] \notin new
                /\ {g.key[t], g.val[t]} \cap (Objects \ Strings) \subseteq alive => g'.val[t] = g.val[t]]_g

\* An object is freed only when it owes no finalizer, until the state is closed.
FinalizersKept ==
  [][\A o \in g.finalized : o \in Unused(g') => g'.closing = "done"]_g

\* (of lgc.h)
AllWhiteAfterSweep == g.state = "callfin" => \A o \in Objects : g.marked[o] \in {g.white, "free"}
=============================================================================
