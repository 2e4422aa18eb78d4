------------------------------ MODULE LogOutput ------------------------------
(***************************************************************************)
(* How log lines get from the threads of a program to standard error       *)
(* (logger.cpp).  Every thread has a LogBuffer of its own that collects a  *)
(* line behind a header; complete lines go, under the process-wide         *)
(* log_mutex, to std::clog, which all threads share.  Two things are       *)
(* shared without the mutex: the column widths the header is padded to     *)
(* (max_name stands for the three of them) and the flush of std::clog.     *)
(***************************************************************************)
EXTENDS Naturals, Sequences, FiniteSets

CONSTANTS Threads,
          Flushers,      \* the threads that end lines with std::endl, not '\n'
          NameSizes,     \* the lengths of the module names threads log under
          FirstMaxName,  \* the initial value of max_name
          Texts,         \* the texts they insert: so many complete lines, and
                         \* whether the beginning of another follows
          MaxInsertions, \* bound: the insertions (<<) each thread makes
          MaxBlocks      \* bound: how often a thread takes the mutex by hand

ASSUME LogAssumption ==
  /\ Flushers \subseteq Threads
  /\ NameSizes \subseteq Nat
  /\ Texts \subseteq [lines: Nat, tail: BOOLEAN]
  /\ MaxInsertions \in [Threads -> Nat]
  /\ FirstMaxName \in Nat /\ MaxBlocks \in Nat

VARIABLES pc,       \* pc[t]: where t is in xsputn() or sync(), or "idle"
          todo,     \* todo[t]: what is left of the text being inserted, and the
                    \* size of the name that Log() left in t's LogBuffer for it
          buf,      \* buf[t]: LogBuffer::buf, the parts of an unfinished line
          good,     \* good[t]: t's log_os has not seen an exception
          held,     \* held[t]: the unique_lock of t's xsputn() owns log_mutex
          manual,   \* manual[t]: t has locked GetLogMutex() itself
          block,    \* block[t]: how often it has
          max_name, \* the static variable
          seen,     \* seen[t]: std::max(max_name, name.size()) before its store
          stream,   \* what is in the buffer of std::clog
          disk,     \* what has been written to standard error
          asked,    \* history: the insertions of each thread
          handed    \* history: everything handed to std::clog

mutex == <<held, manual, block>>
sinks == <<stream, disk>>
vars == <<pc, todo, buf, good, held, manual, block, max_name, seen,
          stream, disk, asked, handed>>

Steps == {"idle", "loop", "store", "pad", "put", "sync", "reset"}
Parts == {"head", "text", "end"}
Nothing == [name |-> 0, lines |-> 0, tail |-> FALSE]
Pieces == [by: Threads, insertion: Nat, block: Nat, part: Parts]

BlockOf(t) == IF manual[t] THEN block[t] ELSE 0

Init == /\ pc = [t \in Threads |-> "idle"]
        /\ todo = [t \in Threads |-> Nothing]
        /\ buf = [t \in Threads |-> <<>>]
        /\ good = [t \in Threads |-> TRUE]
        /\ held = [t \in Threads |-> FALSE]
        /\ manual = [t \in Threads |-> FALSE]
        /\ block = [t \in Threads |-> 0]
        /\ max_name = FirstMaxName
        /\ seen = [t \in Threads |-> 0]
        /\ stream = <<>> /\ disk = <<>> /\ handed = <<>>
        /\ asked = [t \in Threads |-> <<>>]

Goto(t, step) == pc' = [pc EXCEPT ![t] = step]
Rest(t) == todo[t].lines > 0 \/ todo[t].tail
-----------------------------------------------------------------------------
\* A mutant of Available: the mutex is not recursive.
AvailableOnce(t) == \A u \in Threads : ~held[u] /\ ~manual[u]

\* std::recursive_mutex: free for the thread that has it already.
Available(t) == \A u \in Threads \ {t} : ~held[u] /\ ~manual[u]

\* Code that wants a block of lines to itself locks GetLogMutex().
Lock(t) == /\ pc[t] = "idle" /\ ~manual[t] /\ block[t] < MaxBlocks
           /\ Available(t)
           /\ manual' = [manual EXCEPT ![t] = TRUE]
           /\ block' = [block EXCEPT ![t] = @ + 1]
           /\ UNCHANGED <<pc, todo, buf, good, held, max_name, seen,
                          sinks, asked, handed>>

Unlock(t) == /\ pc[t] = "idle" /\ manual[t]
             /\ manual' = [manual EXCEPT ![t] = FALSE]
             /\ UNCHANGED <<pc, todo, buf, good, held, block, max_name,
                            seen, sinks, asked, handed>>

\* Log(...) << text.  An ostream that has caught an exception ignores it.
Insert(t, size, text) ==
  /\ pc[t] = "idle" /\ Len(asked[t]) < MaxInsertions[t]
  /\ asked' = [asked EXCEPT ![t] = Append(@, [text |-> text, block |-> BlockOf(t)])]
  /\ IF good[t]
     THEN /\ Goto(t, "loop")
          /\ todo' = [todo EXCEPT ![t] = [name |-> size, lines |-> text.lines,
                                          tail |-> text.tail]]
     ELSE UNCHANGED <<pc, todo>>
  /\ UNCHANGED <<buf, good, mutex, max_name, seen, sinks, handed>>
-----------------------------------------------------------------------------
\* xsputn returns: the unique_lock goes, and std::endl goes on to flush.
Leave(t) == /\ Goto(t, IF t \in Flushers THEN "sync" ELSE "idle")
            /\ held' = [held EXCEPT ![t] = FALSE]
            /\ todo' = [todo EXCEPT ![t] = Nothing]

\* `while (n)` ends.
Return(t) ==
  /\ pc[t] = "loop" /\ ~Rest(t)
  /\ Leave(t)
  /\ UNCHANGED <<buf, good, manual, block, max_name, seen, sinks, asked, handed>>

\* WriteBegin: the load of max_name ...
BeginLoad(t) ==
  /\ pc[t] = "loop" /\ Rest(t) /\ buf[t] = <<>>
  /\ seen' = [seen EXCEPT ![t] = IF max_name < todo[t].name THEN todo[t].name ELSE max_name]
  /\ Goto(t, "store")
  /\ UNCHANGED <<todo, buf, good, mutex, max_name, sinks, asked, handed>>

\* ... its store ...
BeginStore(t) ==
  /\ pc[t] = "store"
  /\ max_name' = seen[t]
  /\ seen' = [seen EXCEPT ![t] = 0]
  /\ Goto(t, "pad")
  /\ UNCHANGED <<todo, buf, good, mutex, sinks, asked, handed>>

\* ... and buf.append(max_name - name.size(), ' '), which throws length_error
\* if the unsigned difference wraps around; operator<< catches it and the
\* stream is bad from then on, the header left half written.
BeginPad(t) ==
  /\ pc[t] = "pad"
  /\ buf' = [buf EXCEPT ![t] = <<"head">>]
  /\ IF max_name >= todo[t].name
     THEN Goto(t, "loop") /\ UNCHANGED <<todo, good, held>>
     ELSE Leave(t) /\ good' = [good EXCEPT ![t] = FALSE]
  /\ UNCHANGED <<manual, block, max_name, seen, sinks, asked, handed>>

\* No newline in what is left: it stays in the buffer, the lock is given up.
KeepTail(t) ==
  /\ pc[t] = "loop" /\ buf[t] # <<>> /\ todo[t].lines = 0 /\ todo[t].tail
  /\ buf' = [buf EXCEPT ![t] = Append(@, "text")]
  /\ Leave(t)
  /\ UNCHANGED <<good, manual, block, max_name, seen, sinks, asked, handed>>

\* A mutant of EndLine: the mutex is not taken.
EndLineUnlocked(t) ==
  /\ pc[t] = "loop" /\ buf[t] # <<>> /\ todo[t].lines > 0
  /\ buf' = [buf EXCEPT ![t] = Append(@, "end")]
  /\ Goto(t, "put")
  /\ UNCHANGED <<todo, good, mutex, max_name, seen, sinks, asked, handed>>

\* The rest of the line and WriteEnd, then `if (!lock.owns_lock()) lock.lock();`
\* (what precedes the lock touches nothing but the thread's own buffer).
EndLine(t) ==
  /\ pc[t] = "loop" /\ buf[t] # <<>> /\ todo[t].lines > 0
  /\ held[t] \/ Available(t)
  /\ held' = [held EXCEPT ![t] = TRUE]
  /\ buf' = [buf EXCEPT ![t] = Append(@, "end")]
  /\ Goto(t, "put")
  /\ UNCHANGED <<todo, good, manual, block, max_name, seen, sinks, asked, handed>>

Piece(t, part) == [by |-> t, insertion |-> Len(asked[t]), block |-> BlockOf(t),
                   part |-> part]

\* A mutant of Put: buf.clear() is forgotten.
PutKeeping(t) ==
  /\ pc[t] = "put"
  /\ stream' = stream \o [i \in DOMAIN buf[t] |-> Piece(t, buf[t][i])]
  /\ handed' = handed \o [i \in DOMAIN buf[t] |-> Piece(t, buf[t][i])]
  /\ Goto(t, "loop") /\ todo' = [todo EXCEPT ![t].lines = @ - 1]
  /\ UNCHANGED <<buf, good, mutex, max_name, seen, disk, asked>>

\* os.write, or the os.put calls of StripFormat, one part of the line at a time;
\* then buf.clear() and on to the next line.
Put(t) ==
  /\ pc[t] = "put"
  /\ stream' = Append(stream, Piece(t, Head(buf[t])))
  /\ handed' = Append(handed, Piece(t, Head(buf[t])))
  /\ buf' = [buf EXCEPT ![t] = Tail(@)]
  /\ IF Len(buf[t]) = 1
     THEN Goto(t, "loop") /\ todo' = [todo EXCEPT ![t].lines = @ - 1]
     ELSE UNCHANGED <<pc, todo>>
  /\ UNCHANGED <<good, mutex, max_name, seen, disk, asked>>
-----------------------------------------------------------------------------
\* sync(): os.flush() without the mutex.  basic_filebuf first writes out what
\* is in the buffer ...
Flush(t) ==
  /\ pc[t] = "sync"
  /\ disk' = disk \o stream
  /\ Goto(t, "reset")
  /\ UNCHANGED <<todo, buf, good, mutex, max_name, seen, stream, asked, handed>>

\* ... then sets it to empty.
FlushReset(t) ==
  /\ pc[t] = "reset"
  /\ stream' = <<>>
  /\ Goto(t, "idle")
  /\ UNCHANGED <<todo, buf, good, mutex, max_name, seen, disk, asked, handed>>
-----------------------------------------------------------------------------
Step(t) == \/ Return(t) \/ KeepTail(t) \/ EndLine(t) \/ Put(t)
           \/ BeginLoad(t) \/ BeginStore(t) \/ BeginPad(t)
           \/ Flush(t) \/ FlushReset(t)

Call(t) == \/ \E size \in NameSizes, text \in Texts : Insert(t, size, text)
           \/ Lock(t) \/ Unlock(t)

Next == \E t \in Threads : Call(t) \/ Step(t)

Spec == Init /\ [][Next]_vars

\* A call that has begun goes on, and who locked the mutex by hand unlocks it.
FairSpec == Spec /\ \A t \in Threads : WF_vars(Step(t)) /\ WF_vars(Unlock(t))
=============================================================================
