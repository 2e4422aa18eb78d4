# libshit, specified

TLA+ models of [libshit](../src), a C++17 utility library: intrusive shared
ownership, containers, a logger, an option parser, low-level files, exceptions,
character conversion and a binding layer for Lua, with the Lua 5.3 that it
embeds.  The repository is the reference; every definition that models code is listed in `PROJECT.json` with the
lines it translates (below, `src/libshit/...` means `src/src/libshit/...` and file names
of Lua are those of `src/ext/lua-5.3.5/src`).

The library has no scheduler and no network.  What is hard in it is of three
kinds: **counters and streams that several threads use at once** (reference
counts, the logger, the allocation tracer); **data structures that keep several
representations of one thing in step**, through callbacks, exceptions and partial
failures (parent lists, ordered maps, vectors, option tables, copy-on-write
exception information, file handles); and **objects with two owners**, C++ and
the Lua garbage collector, that each decide on their own when something dies; and the
collector itself, which works in small steps between those of the program.

## Components

| component | code | state | operations | what makes it correct |
|---|---|---|---|---|
| intrusive shared ownership | `ref_counted.hpp`, `shared_ptr.hpp` | two atomic counters per object, the pointer variables | `AddRef`, `RemoveRef`, `AddWeakRef`, `RemoveWeakRef`, `LockWeak`, `StackUnref`, and the constructors, casts, assignments and destructors of `SmartPtr` / `WeakSmartPtr` | counts exact at every step; disposed of exactly once, deleted exactly once, in this order; no use of an object that is gone; no resurrection through a weak pointer; no leak |
| logger, lines | `logger.cpp` | a buffer per thread, the process-wide recursive mutex, three column widths, `std::clog` | `Log`, `xsputn`, `WriteBegin`, `WriteEnd`, `sync`, `GetLogMutex` | lines whole, none lost or repeated, blocks unbroken, nobody waits for ever |
| logger, levels | `logger.cpp`, `logger.lua` | `level_map`, the packed copy of it, the global level | the `--log-level` option, `GetLogLevel`, `CheckLog` | the packed copy equals the map after every option that is accepted; a token with a bad level ends the callback: the tokens before it stay in the map, and the packed copy is not made again |
| option parser | `options.cpp`, `options.hpp` | the groups of options, the sorted tables built from them, `argv` | `Run`, `ParseShort`, `ParseLong`, the option callbacks, `--help` | each argument is used once, abbreviations are exact or unique or refused, what is left keeps its order |
| lists with a parent pointer | `container/parent_list.hpp`, `intrusive.hpp` | `next`, `prev` and `parent` of every node and of every root | push, pop, insert, erase, clear, assign, splice, sort, merge, reverse, remove_if, unique, shift, swap, move, `ParentListHook::unlink` | every list a ring through its root, every node on it has this root as its parent, `LifetimeTraits` told exactly once of every arrival and departure |
| ordered map | `container/ordered_map.hpp` | a vector of the items, a tree of them by key, the index stored in each item | insert, emplace, erase, `pop_back`, `key_change`, clear, swap, destruction | vector, tree and indices agree; keys unique; an item is in one map at most |
| vector | `container/simple_vector.hpp` | begin, end and the end of the storage | assign, insert, emplace, push_back, resize, erase, swap | the elements of a sequence, each constructed and destroyed once, also when a copy throws |
| intrusive list wrapper | `container/list.hpp` | as `boost::intrusive::list` | the same | the wrapped list |
| exceptions with information | `except.cpp`, `except.hpp` | a counted record of named values, shared by copies of an exception | `AddInfo`, copy, `GetInfo`, nesting | copy on write: a copy never sees what is added to another |
| low-level files | `low_io.cpp` | a descriptor, whether it is owned, a mapping | open, reset, read, write, map, move | a descriptor is closed exactly once, and only by its owner |
| character conversion | `wtf8.cpp` | the half of a surrogate pair that is waiting for the other | WTF-8 to WTF-16 and back, in pieces | the same result however the input is cut; the round trip is the identity |
| random numbers | `random.hpp` | the generator | `Gen` in a range | in range, every value from the same number of generator values |
| allocation tracing | `tracy_alloc.cpp` | the real functions, the table of ignored blocks | malloc, calloc, realloc, free | every block reported once as allocated and once as freed |
| Lua userdata cache | `lua/userdata.*`, `lua/dynamic_object.hpp`, `lua/user_type.*` | weak-valued table from object to userdata | push, get, the finalizer, closing | a reference is counted and given back once; what is pushed is alive; one object has one Lua identity, with two known exceptions |
| Lua garbage collector | `lgc.c`, with `lapi.c`, `lfunc.c`, `lstring.c`, `lstate.c` | the colours of all objects, the lists they are in, the gray lists, how far the sweep is | each single step of a collection, barriers, what creates objects and stores references, finalizers, closing | nothing that can be reached is freed; weak tables lose exactly what is dead; every finalizer is called before its object goes |
| Lua calls and values | `lua/base.*`, `lua/function_call.hpp` | the Lua stack | overload resolution, argument conversion | the stack is balanced, the first fitting overload is called |
| Lua bindings of containers, binding generator | `container/*.lua.hpp`, `src/gen_binding.lua` | none | argument translation, code generation at build time | |
| small utilities | `utils.hpp`, `function.hpp`, `strong.hpp`, ... | values | scope guards, spans, strings | |
| platform shims, vendored code | `vita_fixup.c`, `ext`, `msvc_include`, `vita_include` | | | |

How they meet: a parent list or an ordered map of reference-counted items calls
`AddRef` and `RemoveRef` from its `LifetimeTraits` or its vector; a Lua userdata of
such an item holds one strong reference, which its finalizer, called by Lua's collector,
gives back; the logger's levels are set from a callback
of the option parser; failed checks of every component throw exceptions with
information.  Behaviour of two threads at once exists in the counters, the logger,
the counter in shared exception information and the system's table of descriptors only: all containers are, like those of the standard
library, for one thread at a time.

The hazards of each component, with the line where each bites and the properties
that watch it (or why none does), are in `PROJECT.json` under `hazards`.

## Modules

| module | what it is |
|---|---|
| `SharedOwnership` | abstract specification: what shared ownership promises, without counters |
| `RefCounted` | the counters and the smart pointers, one atomic operation per step |
| `RefCountedProps` | its type invariant, properties, and the refinement of `SharedOwnership` |
| `RefCountedProofs` | the theorems about it |
| `MCRefCounted` | instance for TLC |
| `LogOutput` | threads that log, their buffers, the mutex, `max_name` and `std::clog` |
| `LogOutputProps`, `MCLogOutput` | its properties, and the instance for TLC |
| `LoggerProofs` | the theorems about it, and about `OptionParser` and `LogLevels` |
| `ListsOfNodes` | abstract specification: lists as sequences of nodes |
| `ParentList` | the rings of pointers, operation by operation, loops with a predicate turn by turn |
| `ParentListProps`, `MCParentList` | its properties and the refinement of `ListsOfNodes`; the instance |
| `ParentListProofs` | the theorems about it |
| `KeyedSequences` | abstract specification: sequences of items whose keys are distinct |
| `OrderedMap` | vector, tree and the index in each item |
| `OrderedMapProps`, `MCOrderedMap` | its properties and the refinement of `KeyedSequences`; the instance |
| `OrderedMapProofs` | the theorems about it |
| `LogLevels` | the tables that `--log-level` writes and `GetLogLevel` reads, token by token |
| `OptionParser` | `OptionParser::Run`, composed with `LogLevels` through the option's callback |
| `OptionParserProps`, `MCOptionParser` | properties of the two; the instance |
| `SimpleVector` | vectors, the memory they allocate, and what throws |
| `SimpleVectorProps`, `MCSimpleVector` | its properties; the instance |
| `SimpleVectorProofs` | the theorems about it |
| `LuaCache` | counted objects in userdata, `reftbl`, the collector and the finalizers |
| `LuaCacheProps`, `MCLuaCache` | its properties; the instance |
| `LuaCacheProofs` | the theorems about it |
| `ExceptionValues` | abstract specification: an exception is a value |
| `ExceptionInfo` | exceptions, the blocks of information they share, the counter in each |
| `ExceptionInfoProps`, `MCExceptionInfo` | its properties and the refinement of `ExceptionValues`; the instance |
| `ExceptionInfoProofs` | the theorems about it |
| `LowIo` | owners of descriptors and mappings, and the system's tables of both |
| `LowIoProps`, `MCLowIo` | its properties; the instance |
| `LowIoProofs` | the theorems about it |
| `LuaGc` | the collector: marking, the atomic step, sweeping, finalizers |
| `LuaProgram` | what a program does to the heap, with its barriers, interleaved with `LuaGc` |
| `LuaGcProps`, `MCLuaGc` | properties of the two; the module of the three runs |

### Shared ownership (`RefCounted`)

`strong` and `weak` are the two atomics of `RefCounted`.  `phase` is where in its
life an object is: `live`; inside `Dispose()` (`disposing`, or `stack_disposing`
under `RefCountedStackHolder`); `disposed`, with only weak pointers left;
`deleting`, inside its destructor; `freed`.  `ref[h]` is the value of a pointer
variable: what kind it is, the object, and who owns the variable, a thread or
another object.  `stack[t]` holds the destructions thread `t` is in the middle of,
since a member that is released may be the last pointer to another object.
`lock[t]` is a `LockWeak()` between its load and its exchange.

Every atomic operation is an action.  `RemoveRef` in the model ends where the code
calls `Dispose()`; `ReleaseMember` is one member pointer released inside it, and
`Disposed` is the return into `RemoveRef` with the `RemoveWeakRef` it goes on to.
`Contained` tells two real families apart: a `RefCountedContainer`, whose
`Dispose()` destroys the payload, and a class that inherits the empty `Dispose()`
and loses its members when it is deleted.

Assumed: the counters interleave sequentially.  The code uses
`memory_order_relaxed` to increment and `acq_rel` to decrement; each counter is a
single atomic, for which all orders give one modification order, so the values the
steps see are those of some interleaving.  What a weaker order on *other* memory
allows is not modelled.  A pointer variable is used by one thread at a time (its
owner); two threads that share one without a lock are outside the contract, as
with `std::shared_ptr`.  `unsafe_lock`, for callers that know the object to be
alive, is `Copy`.  A counter is a natural number: 2^32 simultaneous pointers are
not reached.

### Log lines (`LogOutput`)

A thread that inserts a text into its `ostream` runs through `xsputn`: `loop` is
the head of `while (n)`, `store` and `pad` are the points inside `WriteBegin`
between the load of `max_name`, its store and its use, `put` is the output of one
line to `std::clog` under the mutex, `sync` and `reset` are the flush that
`std::endl` asks for.  A text is abstracted to the number of its complete lines
and whether the beginning of another follows; a line to its header, texts and
end.  `max_name` stands for the three widths, which are used alike.
`held[t]` is the `unique_lock` of the running `xsputn`, `manual[t]` a lock of
`GetLogMutex()` that the program takes itself around several insertions.
`good[t]` is the state of the stream: an exception inside `xsputn` is caught by
`operator<<`, which sets `badbit`.

`max_name` and the flush of `std::clog` are accessed without the mutex, so these
accesses are data races; they are modelled as interleavings of loads and stores,
`filebuf::sync` as a write of the buffer and a reset of it.  `asked` and `handed`
are history variables that the properties use.

### Lists with a parent pointer (`ParentList`)

`next`, `prev` and `parent` are the pointers of the nodes and of the roots; the root
of a list stands for the list.  The algorithms of
`boost::intrusive::circular_list_algorithms` are operators on a pair of pointer maps
(`Join`, `Cut`, `Transfer`, `SwapNodes`, `Reversed`), so that what the code does
wrong with them would leave a ring broken and not an impossible sequence.  A node
that leaves its list gets `Null` pointers in the model and dangling ones in the code;
nothing may read them.  `traits` counts calls of `LifetimeTraits::add` less those of
`remove`, `unhooked` the departures by `ParentListHook::unlink`, which makes no call.

An operation without a predicate is one step.  `sort`, `merge`, `remove_if` and
`unique` are loops, with one step for each turn: `loop` holds their local variables
(`at`), what the lists were when the loop began (`before`, a history variable) and
whether the answers of the predicate have been those of `Key` so far (`lawful`).  At
every turn the predicate may answer as it should, answer wrongly, or throw;
`SortThrow` and `MergeThrow` are the exception paths.  During a loop no other
operation runs: a predicate that changes the list it is called for is outside the
contract.  `Assign`, `Insert` and `Splice` exclude calls whose preconditions the code
leaves to the caller: a range with one node twice, an empty range assigned to an empty
list, a range that does not lie in the list it is said to come from.

### Ordered map (`OrderedMap`)

`vect[m]` is the vector, `tree[m]` the intrusive set as the set of its items, with
`filed[x]` the key under which `x` was put there; `index[x]` is `vector_index`, and
`NoIndex`, a model value, is `NO_INDEX`, greater than every size.  `SetKey` is the
program that changes a key in place.  From then until `KeyChange` the red-black tree
is out of order and what a search finds depends on its shape; the operations that
search are therefore guarded by `InOrder`: calling them in between is outside the
contract of the tree.  `Erase`, `Clear`, `Swap` and `KeyChange` itself, which go
by iterator, are not guarded.  `InsertNew` has two outcomes, since `vect.insert` may throw
between `insert_check` and `insert_commit`.  `returned` is the result of the last
operation, for the abstract specification to judge.  The move constructor is `Swap`
with a map that is empty; `erase(key)` is `Find` and `Erase`.

### Options and log levels (`OptionParser`, `LogLevels`)

`words` are the arguments as they were given and `argv` numbers of words, as it is an
array of pointers to them: the parser moves pointers to the front (`endp`) and reads
on at `i`, in one array.  `<<k, from>>` is a pointer into the middle of word `k`,
which is what the value of `-ovalue` and of `--name=value` is.  Names are sequences of
letters, since `OptCmp`, `lower_bound` and `strncmp` are what the model is about;
`long_opts` is the sorted vector and `Key` what is looked up in it, the name with
`=` and what follows.  `GenOpts` is `gen_opts()`, which builds the tables again when the
number of groups has changed.  Each letter of a word of short options is a step
(`ptr`).  `Invoke` is the call of an option's function: one of the commands of the test
"command like usage" (`CommandTriggered`, which adds a group and may set the handler of
the other arguments), `--help`, `--log-level`, or one without effect here.
`InvalidParam` is caught by `Run`, which prints and throws `Exit` (`Refuse`).

While the function of `--log-level` runs, `tokens` is what it has still to do, and
each token is a step of `LogLevels`.  `strings` and `level_map` are vectors that move
when they grow (`strings_block` and `map_block` count how often), `levels` is the copy
of begin and size that `GetLogLevel` goes by, `Publish` the assignment of it at the
end.  A name that is `Short` fits into the `std::string` itself and moves with the
vector; its entry in `level_map` then points at freed memory, and the model reads
there either the old text or none (`Gone`, `readable`).  Texts of levels and the
layout of the help are left out.

### Vector (`SimpleVector`)

`vec[v]` is the three pointers of a vector, as a block and offsets; `heap[b]` a block
with its cells.  `Constructed`, `Assigned`, `Destroyed` and `Deallocated` are what the
code asks of its allocator and of `T`, and break a cell (`Broken`) that they are applied to
wrongly, in the way a sanitizer would see it.  Operations are put together from
private members (`Reset`, `Relocated`, `ClearToEnd`, ...), which take a vector with the
heap and give both back; an operation is one step, with one outcome for each point at
which a constructor or an assignment of `T` may throw in it.  `moves` is whether `T` has
a move constructor that does not throw (`move_if_noexcept`) or is copied.

`elements` is what a `std::vector` would hold after the same calls.  Three calls of which
the code makes something else than `std::vector` does are noted in `departed`, and nothing
follows them: `push_back(v[i])` of a full vector, which reads memory that was freed;
`erase(it, it)`, which moves elements onto themselves; `assign` of input iterators.

### Objects in Lua (`LuaCache`)

`pointer[u]` is what the `SharedPtr` in userdata `u` points at, `Ctrl[p]` the object
whose counter it uses: a member that is pushed with the counter of the object around
it is a pointer of its own, as in "aliased objects" of `test/lua/user_type.cpp`.
`reached` is what Lua has, `finobj` and `tobefnz` are the lists of the collector that
`LuaGc` has too.  A userdata without its metatable is not `Usable`, which is what
`IsSimple`, `IsInherited` and `GcFun` ask for.

`PushMiss` and `PushCreate` are the two sides of `lua_newuserdata` in `Cached::Create`.
Between them the collector may run, and with it finalizers, also those written in Lua; so
between them any action may happen, other calls of `Cached::Create` included, which are
inside the first and return before it (`pushing` is a stack of calls).  Each call has
the object from a `SharedPtr`, which C++ keeps until the call returns (`Kept`), or is
`Push(StateRef, T&)` with the `T&` out of a userdata `from` that is on the stack but may be
finalized there, by hand or by the collector if it was pending already: then `PushGone` is
undefined behaviour (`AddRef` asserts that there is a reference), of which nothing
more is said.

`Collect` is the end of the mark phase: what Lua does not have leaves `reftbl`, and goes to
`tobefnz` if it is marked for finalization.  `Finalize` is one call of `GCTM`, at any time,
and `ExplicitGc` `u:__gc()` from Lua code, at any time as well.  `Resurrect` is the finalizer of
another object that refers to `u`.  `Close` is `lua_close`, which makes all of `finobj`
pending, and `FreeAll` its end, when nothing is pending; between the two, finalizers do
what they like.  Allocations may fail: in `lua_newuserdata` (`PushFail`), in the
`lua_rawsetp` behind it (the second branch of `PushCreate`) and in that of `Cached::Clear`
(`ClearThrows`, "if this throws we're screwed").

`overtaken`, `reentered` and `forsaken` are history variables: pointers whose entry the
finalizer of another userdata has cleared, pointers that a call of `Cached::Create` has
entered inside the `lua_newuserdata` of another call for the same pointer, and userdata whose
finalizer nothing obliges Lua to call, because it has failed or because they were
made while the state closed.

That values about to be finalized leave weak tables before anything is resurrected, and
nothing else does that is reachable, is what `AtomicExact` of `LuaGcProps` says of the real
collector.  The counter is `RefCounted`'s without weak pointers, one step for each `AddRef`
and `RemoveRef`.  The assertion "Pointer aliasing?" on a hit (`userdata.hpp:95`) compares the
type of the userdata with the one that is pushed; the model has the pointer and the
metatable (`HitsUsable`) and no types, so a member of another type at the address of its
object is not seen.

### Exceptions with information (`ExceptionInfo`)

`info[e]` is the block that exception `e` points at, `refcount[b]` the counter in a
block.  Each access to a counter is a step, because copies of an exception may be in
several threads: `EnsureLook` reads it, `EnsureClone` allocates a copy, `Release` gives up
the old block, and between them other holders of the block come and go.  `stage[e]` is how
far the call on `e` is, `old[e]` the pointer that an `intrusive_ptr` on its stack gives up.
`Fail` is every allocation that can fail.  `Rethrow` is `RethrowException()`, with its
list of handlers in their order; the parents of the standard classes are external.
Printing and error texts are left out, and so is the stack trace of debug builds, which
the copy constructor of `ExceptionInfo` does not copy.

### Low-level files (`LowIo`)

`table` is the process's table of descriptors and `mapped` its mappings, both shared by
all threads and used again at once: what the code stores after `close()` is therefore a
step of its own, and between the two another thread may be given the number.  Both halves
of `low_io.cpp` are modelled; `windows` says which is compiled.  `stage[o]` is how far
`Reset()` is, `kept[p]` the same for a `MmapPtr`.  `TryOpen` and `PrepareMmap` of an object
in use overwrite what they find, and the descriptor is `lost`; `TryOpen` of one that is
not an owner gives it a descriptor that nobody closes.  The program itself opens files,
lends descriptors and takes them over; it closes none that it has lent (the contract of a
`LowIo` that borrows).  Reading, writing and truncation change only the file, and are not
modelled; the calls of the system that change the tables may all fail.

### The collector of Lua (`LuaGc`, `LuaProgram`)

`g` is the `global_State` with the heap.  An operator such as `Mark(h, S)` is the function
of that name and gives the `global_State` after it, so that a step of the collector is a
composition in the order of the code: `Atomic` is `PropagateAll`, `Remark`, `MarkAlive`,
`ClearAlive`, `Resurrect`, `ClearDead` and `EnterSweep`.  Between any two single steps
(`singlestep()`) the program may do anything, for `luaC_step()` runs wherever an
allocation is made; how much it does at a time is left open, and finalizers are called in
every phase, as `luaC_step()` does.  `FullGc` is the begin of `luaC_fullgc()` in a
marking phase, which turns what was marked white by a sweep; an emergency collection is
one after which `tobefnz` still has objects (`EndCycle`).

`LuaProgram` is the program: the operations of the API and of the interpreter that make
objects or store references, with the barrier that each one owes, and the places where
none is owed (the stack, open upvalues) without one.  A string that is dead but not yet
swept comes to life again in `Intern`.

Abstracted: gray lists are sets, which leaves the order of marking open; a sweep step
sweeps one object (`GCSWEEPMAX` is 100); a table has one entry, a closure one upvalue,
a thread a set of values and one captured variable; metatables are held by the registry
and an object has only the kind of its own.  Prototypes, closures of C, the cache of
strings, `fixedgc`, `lua_upvaluejoin`, and pause, debt and speed of the collector are left
out.  While the state closes only finalizers and the program run, not the collector.

`Overtakes` is the one step that `Next` leaves out, since after it the invariants no
longer hold: see the finding.

## Runs

| run | bounds | shows |
|---|---|---|
| `refcounted` | 2 threads, 2 objects (one contained, one not), 3 pointer variables | all properties of `RefCountedProps`, the refinement of `SharedOwnership`, and that what nothing points at is freed |
| `log_output` | 2 threads, one that flushes; 2 + 1 insertions of 2 kinds of text; 2 name lengths; 1 manual lock each | lines whole, blocks unbroken, no line lost by a stream that is good, insertions return |
| `parent_list` | 2 lists, 4 nodes with 2 keys, 1 node that may leave by `unlink` once | rings whole in the middle of a loop too, traits told once of everything, sort, merge and unique stable, the refinement of `ListsOfNodes`, loops end |
| `ordered_map` | 2 maps, 4 items, 3 keys, items and keys interchangeable | vector, tree and indices agree, keys distinct, lookups exact, the refinement of `KeyedSequences` |
| `option_parser` | 3 arguments of 20 words, with and without `argv[0]`; 9 options in 3 groups, 2 commands; 3 modules | every argument goes one way once, the option meant is the one found, levels of modules with long names are in force |
| `simple_vector` | 2 vectors with 4 elements between them, 2 values, `ALIGN` 2, `max_size()` 7; vectors and values interchangeable | no object or memory lost, doubled or used when gone, elements those of a `std::vector`, whatever throws |
| `lua_cache` | 1 object with a member pushed by itself, 2 userdata, at most 2 references of C++ to an object, 2 calls of `Cached::Create` inside each other | references exact, what is pushed alive, hits usable, twins in two ways only, and closing gives back all references that are not forsaken |
| `exception_info` | 3 exceptions, 3 blocks, 1 piece of information, 1 place, one foreign class; at most 2 infos | counters exact, exceptions rethrown as the nearest class, the refinement of `ExceptionValues` |
| `low_io` | 3 descriptors, 3 objects and 3 `MmapPtr` of which 3 at once, 2 addresses, lengths up to 2, 1 call of several steps at a time, 1 lost descriptor; both systems | each descriptor and each mapping has one owner, that closes it once and none but it |
| `lua_gc` | a table that may be weak, a userdata whose user value is the table, each with a finalizer | nothing dangles, colours sound, the atomic step exact, no finalizer skipped |
| `lua_gc_coroutines` | the main thread and a coroutine, a closure with an upvalue, a string | the same for upvalues that are open, closed or left by a thread, and for strings |
| `lua_gc_overtaken` | 2 userdata with finalizers | `AllWhiteAfterSweep` is violated (the finding) |

Why these bounds are enough to meet the interesting cases.  *RefCounted*: three
pointers are the fewest with which a weak pointer is locked by one thread while
another drops the last strong one and a third still points weakly at the object;
two objects are what it takes for one to own the other, or for two to form a
cycle of weak and strong members.  Both threads can be in the middle of a
destruction or a `LockWeak` at once.  *LogOutput*:
`MaxInsertions` lets one thread put together a line from two insertions, or two
texts under one manual lock, while the other inserts one; of the two texts one has
two lines (the mutex is kept between them) and one ends in the middle of a line.
The names are one shorter and one longer than the initial width 16.  `MaxBlocks`
limits manual locks to one per thread; it also keeps a thread from relocking for
ever, which a mutex that is not fair would let happen.

*ParentList*: four nodes are the fewest for which `sort` merges two runs of two,
with equal nodes in both; two lists are what splice, swap and merge need.
`Unhookable` lets one node leave by its own `unlink`, once, so that `unhooked` stays
finite.  *OrderedMap*: fewer keys than items make insertions collide; three keys let
two items of one map trade keys by way of a third.  Symmetry is sound because the
one `CHOOSE` on items picks from a set that the invariants show to have at most one
element, and no property is a liveness property.

*OptionParser*: three arguments are an option, its value and what is left, or a
command, an option that it adds, and a repetition; the words have every form (plain,
`--`, one and two short options with and without a value, exact, abbreviated,
ambiguous and unknown long names with and without `=`) and every kind of option.
Adding a second short name moves `strings`.
*SimpleVector*: with `max_size()` 7 both branches of `get_grow_size()` and of
`resize_common()` are taken, and four elements are the least with which a
`move_backward` moves two and an `erase` of a range in the middle leaves some on either
side.  Symmetry is sound: the one `CHOOSE` picks a free block, and free blocks are alike.
*LuaCache*: two userdata are the old one that waits for its finalizer and the one made
after it, twins, or one that a `T&` comes from and the one that is made for it; `MaxDepth` 2
is a push inside `lua_newuserdata`, `MaxHeld` bounds the references that C++ takes out of Lua.
The invariants were checked with three interchangeable userdata too (`MaxHeld` 1,
1.5 million states), and all properties with two objects (`MaxHeld` 1).

*ExceptionInfo*: three exceptions are two that share a block and a third that takes or
leaves it between the look at the counter and the copy; three blocks are one for each, so
allocation fails by choice and not for want of blocks.  *LowIo*: an assignment needs three
objects (the two and the argument between them), `MaxCalls` lets one of them be inside
`Reset()` while all others open, move, swap and borrow (with two inside at once it was checked
as well, 1.3 million states, and the theorems are for any number), and three descriptors are standard output and two to be confused.
*LuaGc*: with `lua_gc` the table and the userdata are each other's value, so a cycle
through a weak table is resurrected by either finalizer; the table may be emptied, filled,
made weak in each of the three ways and given a finalizer in every phase.  Instances with
a string in the weak table (as key and as value), and with a second table as the user
value, were checked too (0.7 to 1.6 million states, the same properties hold); they are
too long for a run that is repeated often.  The number of collections is not bounded.

Deadlock is checked for `ParentList` and `OrderedMap`, which can always go on.  It is
not for the others: in `RefCounted` a state in which every object has been
created and freed, in `LogOutput` one in which all insertions are made, in
`OptionParser` one in which `Run` has returned or thrown, and in `LuaCache` one in which
the Lua state is closed, is the end of the program; in `SimpleVector` nothing follows a
call that departs from `std::vector`.  In `ExceptionInfo`, `LowIo` and `LuaGc` it is off as
well: where all memory of the bounds is in use a call may have nowhere to go, and a closed
Lua state is the end.  That nobody is stuck earlier is `InsertionReturns` and
`UnreferencedIsFreed`.

Every property has a mutant in `PROJECT.json`: a variant of a definition with a
plausible bug, under which TLC finds the property violated.

## Fairness

`RefCounted`: a destruction that has begun goes on (`WF(Teardown(t))`): it is
straight-line code without waiting.  Nothing obliges a thread to drop a pointer or
to lock one.  `LogOutput`: an insertion that has begun goes on, and who has locked
the mutex unlocks it (`WF(Step(t))`, `WF(Unlock(t))`).  Weak fairness suffices for
the mutex because the number of times it is taken is bounded; `std::recursive_mutex`
promises no more.  `ParentList`: a loop whose predicate returns or throws takes its
next turn (`WF(Turn)`); a predicate that does neither never lets the code go on.
`LuaCache`: once `lua_close` has begun, every finalizer runs
or fails (`WF(status = "closing" /\ Finalize(u))`), because `callallpendingfinalizers` is a
loop over `tobefnz`; that the finalizers written in Lua return is part of it.  Nothing obliges the collector to run before.
`OptionParser`, `OrderedMap`, `SimpleVector`, `ExceptionInfo` and `LowIo` have no liveness
property; nor has `LuaGc`, whose steps only run when the program allocates.

## Proofs

`RefCountedProofs`, for every number of threads, objects and handles (of which the
proof assumes that the handles are finitely many, that threads are no objects, and
that `Null` is no record):

- the inductive invariant `IInv` is `TypeOK`, `CountsMatch`, `AliveWhileHeld`, and
  two parts that no run lists: `LockInv`, that a `LockWeak` in progress still owns
  the weak pointer it reads through and a variable for its result that nobody else
  fills, and `StackHolderInv`, that only members of a dying stack object point at
  it.  Without the first the successful exchange could not be shown to work on
  memory that exists.  One lemma per action shows that it preserves `IInv`;
  `SetHandle`, `ClearHandle` and `HandleCounts` relate a change of one pointer to
  the cardinalities that `CountsMatch` speaks of;
- `TypeCorrect`, `CountsAreExact` and `NoUseAfterFree` follow from it;
- `OnlyOneDestroyer` adds `OneDestroyer` to the invariant: an object is pushed on a stack
  only by the step that takes it out of `live` or out of `disposed`, and whatever is on a stack is
  in neither (`DestroyerPush`, `DestroyerPop`, `DestroyerRelease`);
- `LockingIsHonest` is the two action properties of `LockWeak`;
- `CountersImplementOwnership`: every step of the counters is a step of
  `SharedOwnership` or leaves it alone, with the mapping of `RefCountedProps`.  The
  key is that by `CountsMatch` a count of one in `RemoveRef` means the pointer
  being released is the only one.

`OrderedMapProofs`, for every set of maps, items and keys (assuming only that
`NoIndex` is no number and `Null` no key):

- `IInv` is the conjunction of `TypeOK`, `IndicesAgree`, `TreeMatchesVector` and
  `KeysDistinct`; none of the last three is inductive alone: that `insert` adds to
  one map only rests on the index, that `pop_back` removes from the tree the item it
  removes from the vector rests on distinct keys, that `FixupIndex` gives each item
  one index rests on vectors without repetition, which is where the tree matters;
- the lemmas on `Before`, `Without` and `FixupIndex` say what an insertion or an
  erasure in the middle does to every position; `Rebuild` is the step they share: a
  map whose items are told their places again agrees again;
- `TypeCorrect` (which no run repeats), `RepresentationsAlwaysAgree` and
  `LookupsAlwaysExact` follow, and `MapsAreKeyedSequences` maps every step to one of `KeyedSequences`.

`LuaCacheProofs`, for every set of objects, pointers and userdata and any depth of calls
(assuming that the userdata are finitely many, and that `Null` is neither a userdata nor a
pointer):

- `IInv` is `TypeOK`, `HeldExactly` and `HitsUsable` with four parts that no run
  lists: `ListsApart`, that nothing is in both lists of the collector; `PushInv`, that each
  call of `Cached::Create` has a reference that C++ keeps or a `T&` out of a userdata that is
  reached, whatever runs in `lua_newuserdata`, and still finds no entry for its pointer unless
  a call inside it made one; `EntryInv`, that a userdata which Lua has and whose finalizer is
  not pending is the one in `reftbl`, unless the pointer was overtaken or pushed inside a push; and `OwedInv`, who has still to be finalized;
- `FillUserdata`, `EmptyUserdata` and `SameUserdata` relate a change of one userdata to
  the cardinality in `HeldExactly`; `EnterKeeps` and `ReturnKeeps` say that a call leaves those
  around it alone; `GcFunStep` is the step that both ways to run a finalizer share;
- `TypeCorrect`, `ReferencesExact`, `PushesAlive` and `CacheAlwaysSound` follow.  The last says
  also that twins have the two causes that `overtaken` and `reentered` record, and no other.
  `OnlyForsakenLost` is the safety half of `CloseReleases`: when the state is closed, what was
  not given back is forsaken.

`ExceptionInfoProofs`, for every number of objects, blocks, infos and places (assuming that
the objects are finitely many, that `None` is none of these, and that infos are not class
names):

- `IInv` is `TypeOK` and `BlocksCounted` with `StageInv`, what holds at each point of a call,
  and `WritesAlone`, that a block about to be written has one holder.  The second is the
  heart of it: after `EnsureLook` has seen a count of one nobody else can raise it, for
  whoever raises it must hold the block, and the only holder is in the middle of a call;
- `TypeCorrect`, `CountersExact` and `NoSharedWrites` follow, and `SharingNeverShows` maps
  every step to one of `ExceptionValues`, where objects share nothing;
- `RethrownRight` states `RethrownAsNearest`.  The bases of a class form a chain and the
  handlers name derived classes first, so the first handler that matches is the nearest
  class.  `RethrowInv` carries through every call what an object was thrown as; that sharing
  does not disturb it is the refinement above, used once more.

`LoggerProofs`, first of `LogOutput`, for all threads, texts, sizes of names and bounds
(assuming only that each is of its kind):

- `OpenInv` is the heart of `IInv`: while one line of a text or of a block has gone out and
  another may follow, its thread holds the mutex, and what went out since then is all its
  own.  `LockInv` says who owns the mutex, `Numbered` that the numbers which tell texts and
  blocks apart in the log are used once, `Counted` that the lines gone out and those to come
  are together the lines of the text, and `Shaped` what the buffers hold between calls;
- most steps hand nothing to `std::clog`; they share the lemma `QuietStep`;
- `BlocksNeverBroken` and `LinesAlwaysIntact` follow.

`LoggerProofs`, then of `OptionParser` and `LogLevels`, for all options, groups, letters,
levels, names and command lines of any length (assuming that the options are finitely many,
that their names are texts without `=` and that `--log-level` takes one argument; that
`AllArgs` is no number, `NoName` neither a name nor a level, and `Idle` no sequence of tokens):

- `TypesInv` has, besides types, what `Run` goes by as long as it goes on (`Running`: what is
  kept lies before `i`, and `argv` from `i` on is as it was given) and what the table is
  (`TableInv`: unless a group was added since, `long_opts` has the enabled options of all
  groups, and their names differ);
- `OptionsAlwaysResolved` is a fact about that table.  `OptCmp` is a strict total order of the names
  (`LessTransitive`, `LessTotal`), and comparing with a word that goes on with `=` is
  comparing with the name in it (`CmpIsLess`); so the table has each option once, in order
  (`TableIs`), the names that begin with a word are together in it (`PrefixBetween`), right
  behind what `LowerBound` passes (`PassedIs`), with the word itself first.  What is there
  and what is behind it decides whether none, one or several are meant (`MeantFound`);
- `Accounted` is the strengthening for `WordsAlwaysOnce`: what has been read is what is kept, what
  calls have consumed and what was handed over, which have nothing in common, and at
  most one `--`, behind which everything is at its end.  A word of several short options is
  consumed by more than one call, so `ReadIs` says when the word at `i` is among what has
  been read.  Each step adds the words from `i` on to one of the three (`GoesAccounts`,
  `MovesAccount`);
- `LevelsInv` is behind `LongNamesAlwaysAnswered`: the first entry of a long name has the level last
  given for it (`Recorded`), and outside of the callback `levels` is the whole of
  `level_map` (`Published`).  Names that are short are out of it, as they may dangle: see
  the findings.

`ParentListProofs`, for every number of lists and nodes (assuming both finite and disjoint,
that `Null` is none of them and no loop record, and that keys are numbers):

- the difficulty is to say that pointers form a ring without following them.  `Ring` says
  that each pointer has its inverse, and that no proper part of the ring is closed under
  `prev`.  What an operation does to a ring is then a statement about sets: `RingCut`,
  `RingLink` and `Relinked` and those on segments and lines, and the operations are
  compositions of them, without sequences and without an induction each;
- `IInv` is `TypeOK`, `Rooted` (a node knows the list it is on), `LifetimeBalanced`, `LoopOK`
  (the cursors of a loop are on the lists it walks) and `RingsOK`.  The last is the
  strengthening: every list is a ring, except the one `sort()` works on, which is the ring
  of what was put back and two chains of what is still to be merged (`Halfway`);
- what `Path` computes is the only induction, a well-founded one over sets of numbers: it
  comes round a ring (`RingPath`, `RingRound`) and follows a chain to its end (`PathIs`,
  `PathPrefix`);
- `Invariant`, `ListsAlwaysWhole` and `TraitsBalanced` follow;
- that the pointers implement `ListsOfNodes` (`ListsAreSequences`) needs the order of the nodes
  too.  `Yields(next, l, s)` says that the pointers lead from the root through `s` and back:
  what an operation does to the sequence is a statement about places in it
  (`YieldsSpliced`, `YieldsWithout`, `YieldsTraded`), and `LinkSeen`, `CutSeen` and
  `TransferSeen` lift that to the operations.  `reverse()`, the shifts, moves within a
  list, and `sort()` need no more than that the nodes stay the same.  `Kept` is the
  strengthening for `sort()`, in the middle of which a list is seen as it was: what it was
  has the nodes that it still has, each once;
- that `sort()`, `merge()` and `unique()` leave the right order (`OrderAlwaysStable`) needs an
  invariant of each loop, with the keys in it.  `SortOrder`: what `sort()` has put back and
  what is left of the two runs are together one sequence (`Merging`), in which no node has
  left the run of `2 * k` it started in (`Fenced`), and nodes of one run of `k`, or of one pair
  of runs that is merged already, `Precede` each other by their keys and, with equal
  keys, by where they were to begin with.  Taking the first node of the right run moves it
  over what is left of the left run (`MovedUp`, `TakeRightMerges`); at the end of a pass no
  run of `2 * k` is out of order, and a pass of one merge has one run, the list.
  `MergeOrder`: the list holds its own nodes and those that are taken so far, in order, and
  what is passed comes before what is left of the other list (`Sifted`).  `UniqueOrder`:
  what is left of the nodes looked at are the first ones of their groups (`Grouped`).

`LowIoProofs`, for every number of objects, pointers, threads, descriptors and addresses
(assuming that `INVALID_FD` is no descriptor and `nullptr` neither a descriptor nor an
address):

- the invariant has two halves, for the two kinds of owner, and each action works on one of
  them.  `FdInv` says without counting that no two objects are about to close one
  descriptor (`OneOwner`), and that what an object borrows belongs to the program or is lost
  (`Borrowed`): without the second, a descriptor that the system hands out again could be
  one that somebody still uses.  `ViewInv` says the same of mappings, and that owner and
  system agree on the length, so that `munmap()` leaves nothing;
- moving, swapping and assigning are one lemma, `OwnersMoved`: the owners are renamed
  one to one;
- `DescriptorsAlwaysOwned` and `MappingsAlwaysOwned` count the owners.

`SimpleVectorProofs`, for all vectors, blocks, values, alignments and sizes (assuming
vectors and blocks finite, with more blocks than vectors, so that a vector that moves finds
one; that values, `Raw` and `Broken` differ; and that `Null` is neither a block nor one of
the names in `Departures`):

- `IInv` is `TypeOK`, `ElementsKept` and `Layout`, which is the strengthening: each vector has
  the block it says, of the room it says, with objects up to its size and raw memory behind
  them; no two have the same; all other blocks are free.  `MemoryClean` counts objects and
  blocks, and follows (`MemoryIsClean`);
- an operation is a composition of private members, in the middle of which `Layout` does
  not hold.  `Holds` and `Keeps` are what does: the blocks of the other vectors are as they
  were, and the one vector holds what a function `f` says, for each size in between and each
  point of a throw.  `ResizedHolds`, `PatchKeeps`, `AppendedKeeps`, `ClearedHolds` and the like
  say how each member changes `f`, and each action ends with `DoneKeeps`, which goes back
  to `IInv`, or, for the two that work on two vectors, with `ExchangedKeeps`;
- what remains for an operation is that its `f` is the sequence a `std::vector` would
  hold, which the lemmas on `Front`, `InsertAt` and `Without` do;
- `assign()` of input iterators is a recursion over its input; what it keeps is shown by
  well-founded induction on the numbers, for the one predicate that is needed;
- `Invariant`, `MemoryAlwaysClean` and `ElementsAlwaysKept` follow.

Model-checked only: liveness (`UnreferencedIsFreed`, `InsertionReturns`, `LoopsEnd`,
`CloseReleases`), which the prover does not do; and the algorithms of `LuaGc`, whose marking
and clearing are recursive functions and folds over sets, so that what they compute would
have to be shown by an induction over data for each of them.

## Findings

`lua_gc_overtaken`: the comment on `keepinvariant()` (lgc.h:57) says "The invariant is
restored when sweep ends and all objects are white again".  While `tobefnz` is swept,
`sweepgc` points into the object that was swept last (lgc.c:751); if a finalizer step then
takes this object, the first of the list, to `allgc` (lgc.c:788), the sweep goes on in
`allgc` and ends there, and the rest of `tobefnz` stays black into the next cycle.
`luaC_checkfinalizer` moves `sweepgc` away in the same situation (lgc.c:911).  In practice
it takes more than `GCSWEEPMAX` objects that wait for finalizers.

Seen while modelling, without a run:

- `lua/userdata.hpp:82`: `Cached::Create` looks into `reftbl` before it calls
  `lua_newuserdata` (`76`) and does not look again.  If a finalizer that runs in there
  pushes the same pointer, the second entry replaces the first, and Lua has two unequal
  userdata for one object (`reentered`); the test "aliased objects" asserts that `f.smart`
  is equal to itself (`test/lua/user_type.cpp:172`).  TLC finds it in six states.
- `shared_ptr.hpp:214`: `DynamicPointerCast` of a `RefCountedPtr` that fails has taken a
  reference, but keeps only the null pointer; the reference is nobody's, and the object
  is never disposed of.
- `logger.cpp:485`: `WriteBegin` reads and writes the column widths outside the mutex.  If
  another thread raises a width between the two, a difference of unsigned numbers wraps,
  `append` throws, `badbit` stays set, and the rest of the block and all later lines of
  the thread are lost, against what `logger.hpp:60` says of blocks under `GetLogMutex()`.
- `logger.cpp:172`: `level_map` keeps `c_str()` of strings in a vector that moves when it
  grows; names short enough to be inside the `std::string` dangle.
- `lua/userdata.cpp:52`: `Cached::Clear` removes the entry of a pointer even if it belongs to
  a later userdata; the object then gets a second, unequal one (`overtaken`).  If
  `lua_rawsetp` throws here for want of memory, which takes an absent key, a finalizer that the
  collector called is not called again, and the reference is lost.
- `lua/dynamic_object.hpp:129`: `Push(StateRef, T&)` takes no reference before
  `lua_newuserdata`; a finalizer that calls `__gc` of the userdata the `T&` is from destroys the
  object before it is pushed (`PushGone`).
- `lua/userdata.hpp:82`: a userdata that a finalizer written in Lua has made while `lua_close`
  runs is freed without its own finalizer, as manual.html:816 has it; its
  reference is never given back.
- `container/simple_vector.hpp:182`: `assign()` of input iterators writes `*begin_ptr`, not
  `*beg_it`, so the elements that are there get the value of the first of them.
- `container/simple_vector.hpp`: `push_back(v[i])` of a full vector reads memory that was freed,
  `erase(it, it)` moves elements onto themselves, and `resize_capacity` (line 475) returns
  without room when the rounded size equals the capacity.
- `container/parent_list.hpp`: `assign` of an empty range to an empty list erases from the
  root (382); `insert` of a range with one node twice passes its check (363).
- `container/ordered_map.hpp`: `index_of(t)` of an item of another map is that map's index.
- `shared_ptr.hpp:386`: `unsafe_lock` checks and then adds a reference, which is right only for callers that
  know the object to be alive.
- `low_io.cpp:255`, `358`: `TryOpen` does not close what it overwrites, nor make the object an
  owner again; a short read or write is reported with the `errno` of an earlier call.
- `utils.hpp:110`: the assignment of an `AtScopeExitC` would run the function twice; nothing
  assigns one.
- `lgc.c:987`: the assertion that the weak lists are empty when `atomic` begins can fail, if
  a forward barrier greys a weak table between the last `propagate` and `atomic`; what
  follows copes with it.

## Plan

What is left: `ColoursSound` of `LuaGc` for the steps of the program, with `Mark` as a
lemma.

Not modelled, and why:

- the rest of Lua (parser, code generator, interpreter loop, string library): vendored,
  sequential translations of their input;
- `wtf8.cpp`: the converters are functions of their input and of at most three characters
  they keep, and the tests cover them by tables;
- `random.hpp`: one expression without state (its rejection bound wraps where the range
  divides that of the generator, to the value that is wanted);
- `tracy_alloc.cpp`: `malloc` is overridden only with `LIBSHIT_TRY_OVERRIDE_MALLOC`, which
  `tracy_alloc.hpp` sets to 0, and `operator new` and `delete` keep no state;
- the intrusive list wrapper: its hooks are those of `ParentList`;
- Lua calls and values, the bindings of the containers: argument conversion, delegated to
  the API of Lua;
- the binding generator (a build-time tool over libclang), value types without a protocol,
  `mpark::variant` and the platform shims.
