----------------------------- MODULE LoggerProofs -----------------------------
(***************************************************************************)
(* The logger, and the options that it is set up with.  First the lines:    *)
(* those of a text, and those of a manual lock, reach std::clog in one      *)
(* piece, whole and once, for any number of threads, texts and insertions.  *)
(* Then the levels: the one last given for a long name is in force.  Then   *)
(* OptionParser, for any options, groups and arguments: a word calls the    *)
(* option that it means, and each argument goes one way.                    *)
(***************************************************************************)
EXTENDS LogOutputProps, OptionParserProps, FiniteSetTheorems, SequenceTheorems, TLAPS

\* In xsputn().
Inside(t) == pc[t] \in {"loop", "store", "pad", "put"}

\* log_mutex has one owner, who has it when a line goes out.
Owner(t) == held[t] \/ manual[t]
LockInv ==
  /\ \A t, u \in Threads : Owner(t) /\ Owner(u) => t = u
  /\ \A t \in Threads : (held[t] => Inside(t)) /\ (pc[t] = "put" => held[t])

\* Insertions and blocks have numbers that are not used again.
Numbered ==
  \A k \in DOMAIN handed : /\ handed[k].insertion <= Len(asked[handed[k].by])
                           /\ handed[k].block <= block[handed[k].by]

\* A text or a block of which a line went out and another may follow: its thread has the
\* mutex, and what went out since is its own.
Open(t, k) == \/ Inside(t) /\ handed[k].insertion = Len(asked[t])
              \/ manual[t] /\ handed[k].block = block[t]
OpenInv ==
  \A t \in Threads : \A k \in DOMAIN handed :
    handed[k].by = t /\ Open(t, k) =>
      Owner(t) /\ \A j \in k..Len(handed) : handed[j].by = t

\* A buffer ends with the end of its line if it is on its way out, and has none if not.
Shaped(t) ==
  /\ \A k \in DOMAIN buf[t] : buf[t][k] = "end" => pc[t] = "put" /\ k = Len(buf[t])
  /\ pc[t] = "put" => buf[t] # <<>> /\ buf[t][Len(buf[t])] = "end"
  /\ pc[t] \in {"store", "pad"} => buf[t] = <<>>
  /\ buf[t] = <<>> => LineBegins(t, Len(handed) + 1)

\* What has gone out of each text, and what is still to come of the last one.
ToCome(t, e) == IF e = Len(asked[t]) THEN todo[t].lines ELSE 0
Counted(t) ==
  /\ ~Inside(t) => todo[t].lines = 0
  /\ pc[t] = "put" => todo[t].lines > 0
  /\ good[t] => \A e \in DOMAIN asked[t] :
                  Cardinality(Ended(t, e)) + ToCome(t, e) = asked[t][e].text.lines

IInv == /\ TypeOK /\ LockInv /\ Numbered /\ OpenInv /\ BlocksUnbroken
        /\ LinesWhole
        /\ \A t \in Threads : Shaped(t) /\ Counted(t)
-----------------------------------------------------------------------------
(* Types.                                                                  *)

LEMMA HandedTyped ==
  ASSUME TypeOK
  PROVE  /\ Len(handed) \in Nat /\ DOMAIN handed = 1..Len(handed)
         /\ \A k \in DOMAIN handed : /\ handed[k].by \in Threads /\ handed[k].part \in Parts
                                     /\ handed[k].insertion \in Nat /\ handed[k].block \in Nat
<1>1. handed \in Seq(Pieces)
  BY DEF TypeOK
<1>2. \A k \in DOMAIN handed : handed[k] \in Pieces
  BY <1>1
<1>3. QED BY <1>1, <1>2 DEF Pieces

\* The parts of a line are pieces of it.
LEMMA PiecesTyped ==
  ASSUME TypeOK, NEW t \in Threads, NEW part \in Parts
  PROVE  Piece(t, part) \in Pieces
BY DEF TypeOK, Piece, Pieces, BlockOf

\* A thread that leaves xsputn() or not.
LEMMA LeaveTyped ==
  ASSUME TypeOK, NEW t \in Threads, Leave(t)
  PROVE  /\ pc' \in [Threads -> Steps] /\ held' \in [Threads -> BOOLEAN]
         /\ todo' \in [Threads -> [name: Nat, lines: Nat, tail: BOOLEAN]]
BY DEF TypeOK, Leave, Goto, Steps, Nothing

LEMMA CallTyped ==
  ASSUME TypeOK, NEW t \in Threads, Call(t)
  PROVE  TypeOK'
<1>1. CASE Lock(t)
  <2>1. block' \in [Threads -> Nat] /\ manual' \in [Threads -> BOOLEAN]
    BY <1>1 DEF Lock, TypeOK
  <2>2. QED BY <1>1, <2>1 DEF Lock, TypeOK, sinks
<1>2. CASE Unlock(t)
  BY <1>2 DEF Unlock, TypeOK, sinks
<1>3. ASSUME NEW size \in NameSizes, NEW text \in Texts, Insert(t, size, text) PROVE TypeOK'
  <2>1. [text |-> text, block |-> BlockOf(t)] \in [text: Texts, block: Nat]
    BY DEF TypeOK, BlockOf
  <2>2. asked' \in [Threads -> Seq([text: Texts, block: Nat])]
    <3>1. asked' = [asked EXCEPT ![t] = Append(@, [text |-> text, block |-> BlockOf(t)])]
      BY <1>3 DEF Insert
    <3>a. asked[t] \in Seq([text: Texts, block: Nat])
      BY DEF TypeOK
    <3>2. Append(asked[t], [text |-> text, block |-> BlockOf(t)]) \in Seq([text: Texts, block: Nat])
      BY <2>1, <3>a
    <3>3. QED BY <3>1, <3>2 DEF TypeOK
  <2>3. [name |-> size, lines |-> text.lines, tail |-> text.tail]
          \in [name: Nat, lines: Nat, tail: BOOLEAN]
    BY LogAssumption
  <2>4. pc' \in [Threads -> Steps]
    <3>1. pc' = [pc EXCEPT ![t] = "loop"] \/ pc' = pc
      BY <1>3 DEF Insert, Goto
    <3>2. QED BY <3>1 DEF TypeOK, Steps
  <2>5. todo' \in [Threads -> [name: Nat, lines: Nat, tail: BOOLEAN]]
    BY <1>3, <2>3 DEF Insert, TypeOK
  <2>6. UNCHANGED <<buf, good, mutex, max_name, seen, sinks, handed>>
    BY <1>3 DEF Insert
  <2>7. QED BY <2>2, <2>4, <2>5, <2>6 DEF TypeOK, mutex, sinks
<1>4. QED BY <1>1, <1>2, <1>3 DEF Call

LEMMA StepTyped ==
  ASSUME TypeOK, NEW t \in Threads, Step(t), pc[t] = "put" => buf[t] # <<>> /\ todo[t].lines > 0
  PROVE  TypeOK'
<1>0. Put(t) => buf[t] # <<>> /\ todo[t].lines > 0
  BY DEF Put
<1>1. CASE Return(t)
  BY <1>1, LeaveTyped DEF Return, TypeOK, sinks
<1>2. CASE BeginLoad(t)
  BY <1>2 DEF BeginLoad, Goto, TypeOK, Steps, mutex, sinks
<1>3. CASE BeginStore(t)
  BY <1>3 DEF BeginStore, Goto, TypeOK, Steps, mutex, sinks
<1>4. CASE BeginPad(t)
  <2>1. buf' \in [Threads -> Seq(Parts)]
    BY <1>4 DEF BeginPad, TypeOK, Parts
  <2>2. good' \in [Threads -> BOOLEAN]
    BY <1>4 DEF BeginPad, TypeOK
  <2>3. CASE max_name >= todo[t].name
    BY <1>4, <2>1, <2>2, <2>3 DEF BeginPad, Goto, TypeOK, Steps, sinks
  <2>4. CASE ~(max_name >= todo[t].name)
    BY <1>4, <2>1, <2>2, <2>4, LeaveTyped DEF BeginPad, TypeOK, sinks
  <2>5. QED BY <2>3, <2>4
<1>5. CASE KeepTail(t)
  <2>1. buf' \in [Threads -> Seq(Parts)]
    BY <1>5 DEF KeepTail, TypeOK, Parts
  <2>2. QED BY <1>5, <2>1, LeaveTyped DEF KeepTail, TypeOK, sinks
<1>6. CASE EndLine(t)
  <2>1. buf' \in [Threads -> Seq(Parts)]
    BY <1>6 DEF EndLine, TypeOK, Parts
  <2>2. QED BY <1>6, <2>1 DEF EndLine, Goto, TypeOK, Steps, sinks
<1>7. CASE Put(t) /\ buf[t] # <<>> /\ todo[t].lines > 0
  <2>1. Head(buf[t]) \in Parts /\ Tail(buf[t]) \in Seq(Parts)
    BY <1>7 DEF TypeOK
  <2>2. Piece(t, Head(buf[t])) \in Pieces
    BY <2>1, PiecesTyped
  <2>3. stream' \in Seq(Pieces) /\ handed' \in Seq(Pieces)
    BY <1>7, <2>2 DEF Put, TypeOK
  <2>4. buf' \in [Threads -> Seq(Parts)]
    BY <1>7, <2>1 DEF Put, TypeOK
  <2>5. pc' \in [Threads -> Steps]
    <3>1. pc' = [pc EXCEPT ![t] = "loop"] \/ pc' = pc
      BY <1>7 DEF Put, Goto
    <3>2. QED BY <3>1 DEF TypeOK, Steps
  <2>6. todo' \in [Threads -> [name: Nat, lines: Nat, tail: BOOLEAN]]
    <3>1. todo[t] \in [name: Nat, lines: Nat, tail: BOOLEAN]
      BY DEF TypeOK
    <3>2. [todo[t] EXCEPT !.lines = @ - 1] \in [name: Nat, lines: Nat, tail: BOOLEAN]
      BY <1>7, <3>1
    <3>3. todo' = [todo EXCEPT ![t] = [todo[t] EXCEPT !.lines = @ - 1]] \/ todo' = todo
      BY <1>7 DEF Put
    <3>4. QED BY <3>2, <3>3 DEF TypeOK
  <2>7. UNCHANGED <<good, mutex, max_name, seen, disk, asked>>
    BY <1>7 DEF Put
  <2>8. QED BY <2>3, <2>4, <2>5, <2>6, <2>7 DEF TypeOK, mutex
<1>8. CASE Flush(t)
  <2>1. disk' \in Seq(Pieces)
    BY <1>8 DEF Flush, TypeOK
  <2>2. QED BY <1>8, <2>1 DEF Flush, Goto, TypeOK, Steps, mutex
<1>9. CASE FlushReset(t)
  <2>1. stream' = <<>> /\ <<>> \in Seq(Pieces)
    BY <1>9 DEF FlushReset
  <2>2. QED BY <1>9, <2>1 DEF FlushReset, Goto, TypeOK, Steps, mutex
<1>10. QED BY <1>0, <1>1, <1>2, <1>3, <1>4, <1>5, <1>6, <1>7, <1>8, <1>9 DEF Step
-----------------------------------------------------------------------------
(* Steps that hand nothing over.                                           *)

\* The buffer of t goes on with whole lines.
BufWhole(t) == \A k \in DOMAIN buf[t] :
  /\ k = 1 => (buf[t][1] = "head" <=> LineBegins(t, Len(handed) + 1))
  /\ k # 1 => (buf[t][k] = "head" <=> buf[t][k - 1] = "end")

\* A step of t is its own affair.
Own(t) == \A u \in Threads \ {t} :
  /\ pc'[u] = pc[u] /\ todo'[u] = todo[u] /\ buf'[u] = buf[u]
  /\ good'[u] = good[u] /\ held'[u] = held[u]

\* A step that touches no text and no buffer.
LEMMA Unmoved ==
  ASSUME UNCHANGED <<pc, todo, buf, good, handed, asked>>,
         NEW t \in Threads, Shaped(t), Counted(t)
  PROVE  Shaped(t)' /\ Counted(t)'
<1>1. \A e : Ended(t, e)' = Ended(t, e) /\ ToCome(t, e)' = ToCome(t, e)
  BY DEF Ended, ToCome
<1>2. LineBegins(t, Len(handed) + 1)' <=> LineBegins(t, Len(handed) + 1)
  BY DEF LineBegins
<1>3. Shaped(t)'
  BY <1>2 DEF Shaped
<1>4. Counted(t)'
  BY <1>1 DEF Counted, Inside
<1>5. QED BY <1>3, <1>4

\* What the other threads know of themselves stays so.
LEMMA OthersKeep ==
  ASSUME NEW t \in Threads, Own(t), UNCHANGED <<handed, asked>>,
         NEW u \in Threads \ {t}, Shaped(u), Counted(u), BufWhole(u)
  PROVE  Shaped(u)' /\ Counted(u)' /\ BufWhole(u)'
<1>1. pc'[u] = pc[u] /\ todo'[u] = todo[u] /\ buf'[u] = buf[u] /\ good'[u] = good[u]
  BY DEF Own
<1>2. \A k : LineBegins(u, k)' <=> LineBegins(u, k)
  BY DEF LineBegins
<1>3. \A e : Ended(u, e)' = Ended(u, e)
  BY DEF Ended
<1>4. Shaped(u)'
  BY <1>1, <1>2 DEF Shaped
<1>5. Counted(u)'
  BY <1>1, <1>3 DEF Counted, ToCome, Inside
<1>6. BufWhole(u)'
  BY <1>1, <1>2 DEF BufWhole
<1>7. QED BY <1>4, <1>5, <1>6

\* A step that hands nothing over keeps the invariant if its thread takes the mutex as it
\* may, keeps it in xsputn(), and leaves its own buffer and text in order.
LEMMA QuietStep ==
  ASSUME IInv, NEW t \in Threads, TypeOK', Own(t), UNCHANGED <<handed, asked, manual, block>>,
         Inside(t)' => Inside(t),
         held'[t] => Inside(t)' /\ (held[t] \/ Available(t)),
         held[t] /\ Inside(t)' => held'[t],
         pc'[t] = "put" => held'[t],
         Shaped(t)', Counted(t)', BufWhole(t)'
  PROVE  IInv'
<1>1. \A u \in Threads \ {t} : Owner(u)' <=> Owner(u)
  BY DEF Own, Owner
<1>2. \A u \in Threads \ {t} : Inside(u)' <=> Inside(u)
  BY DEF Own, Inside
<1>3. LockInv'
  <2>1. \A u \in Threads \ {t} : Owner(u)' /\ Owner(t)' => FALSE
    <3>1. SUFFICES ASSUME NEW u \in Threads \ {t}, Owner(u), Owner(t)' PROVE FALSE
      BY <1>1
    <3>2. CASE Owner(t)
      BY <3>1, <3>2 DEF IInv, LockInv
    <3>3. CASE ~Owner(t)
      <4>1. Available(t)
        BY <3>1, <3>3 DEF Owner
      <4>2. QED BY <3>1, <4>1 DEF Available, Owner
    <3>4. QED BY <3>2, <3>3
  <2>2. \A u, v \in Threads : Owner(u)' /\ Owner(v)' => u = v
    BY <1>1, <2>1 DEF IInv, LockInv
  <2>3. \A u \in Threads : (held'[u] => Inside(u)') /\ (pc'[u] = "put" => held'[u])
    BY <1>2 DEF IInv, LockInv, Own
  <2>4. QED BY <2>2, <2>3 DEF LockInv, Owner
<1>4. Numbered'
  BY DEF IInv, Numbered
<1>5. OpenInv'
  <2>1. SUFFICES ASSUME NEW u \in Threads, NEW k \in DOMAIN handed, handed[k].by = u, Open(u, k)'
                 PROVE  Owner(u)' /\ \A j \in k..Len(handed) : handed[j].by = u
    BY DEF OpenInv
  <2>2. Open(u, k)
    BY <1>2, <2>1 DEF Open
  <2>3. Owner(u) /\ \A j \in k..Len(handed) : handed[j].by = u
    BY <2>1, <2>2 DEF IInv, OpenInv
  <2>4. Owner(u)'
    BY <1>1, <2>1, <2>3 DEF Owner, Open
  <2>5. QED BY <2>3, <2>4
<1>6. BlocksUnbroken'
  BY DEF IInv, BlocksUnbroken
<1>7. \A u \in Threads : BufWhole(u)
  BY DEF IInv, LinesWhole, BufWhole
<1>8. \A u \in Threads : Shaped(u)' /\ Counted(u)' /\ BufWhole(u)'
  BY <1>7, OthersKeep DEF IInv
<1>9. LinesWhole'
  <2>1. \A u, k : LineBegins(u, k)' <=> LineBegins(u, k)
    BY DEF LineBegins
  <2>2. \A k \in DOMAIN handed' : handed'[k].part = "head" <=> LineBegins(handed[k].by, k)'
    BY <2>1 DEF IInv, LinesWhole
  <2>3. QED BY <1>8, <2>2 DEF LinesWhole, BufWhole
<1>10. QED BY <1>3, <1>4, <1>5, <1>6, <1>8, <1>9 DEF IInv

\* A step after which as many lines are to come as before.
LEMMA CountKept ==
  ASSUME NEW t \in Threads, Counted(t), UNCHANGED <<handed, asked>>,
         good'[t] => good[t] /\ todo'[t].lines = todo[t].lines,
         ~Inside(t)' => todo'[t].lines = 0,
         pc'[t] = "put" => todo'[t].lines > 0
  PROVE  Counted(t)'
<1>1. \A e : Ended(t, e)' = Ended(t, e)
  BY DEF Ended
<1>2. good'[t] => \A e : ToCome(t, e)' = ToCome(t, e)
  BY DEF ToCome
<1>3. QED BY <1>1, <1>2 DEF Counted

\* A thread that leaves xsputn() is outside, without the lock, with nothing to come.
LEMMA LeaveMeans ==
  ASSUME TypeOK, NEW t \in Threads, Leave(t)
  PROVE  /\ pc'[t] \in {"sync", "idle"} /\ held'[t] = FALSE /\ todo'[t] = Nothing
         /\ \A u \in Threads \ {t} : pc'[u] = pc[u] /\ todo'[u] = todo[u] /\ held'[u] = held[u]
BY DEF TypeOK, Leave, Goto

LEMMA ReturnKeeps ==
  ASSUME IInv, NEW t \in Threads, Return(t)
  PROVE  IInv'
<1>1. TypeOK /\ Shaped(t) /\ Counted(t) /\ BufWhole(t)
  BY DEF IInv, LinesWhole, BufWhole
<1>2. TypeOK'
  BY <1>1, StepTyped DEF Step, Return
<1>3. pc'[t] \in {"sync", "idle"} /\ held'[t] = FALSE /\ todo'[t] = Nothing
  BY <1>1, LeaveMeans DEF Return
<1>4. Own(t)
  BY <1>1, LeaveMeans DEF Return, Own
<1>5. pc[t] = "loop" /\ todo[t].lines = 0
  BY <1>1 DEF Return, Rest, TypeOK
<1>6. UNCHANGED <<handed, asked, manual, block, buf, good>>
  BY DEF Return
<1>7. Counted(t)'
  BY <1>1, <1>3, <1>5, <1>6, CountKept DEF Nothing
<1>8. Shaped(t)'
  BY <1>1, <1>3, <1>5, <1>6 DEF Shaped, LineBegins
<1>9. BufWhole(t)'
  BY <1>1, <1>6 DEF BufWhole, LineBegins
<1>10. QED BY <1>2, <1>3, <1>4, <1>5, <1>6, <1>7, <1>8, <1>9, QuietStep DEF Inside

LEMMA BeginLoadKeeps ==
  ASSUME IInv, NEW t \in Threads, BeginLoad(t)
  PROVE  IInv'
<1>1. TypeOK /\ Shaped(t) /\ Counted(t) /\ BufWhole(t)
  BY DEF IInv, LinesWhole, BufWhole
<1>2. TypeOK'
  BY <1>1, StepTyped DEF Step, BeginLoad
<1>3. pc[t] = "loop" /\ pc'[t] = "store" /\ buf[t] = <<>>
  BY <1>1 DEF BeginLoad, Goto, TypeOK
<1>4. UNCHANGED <<handed, asked, manual, block, buf, good, todo, held>>
  BY DEF BeginLoad, mutex
<1>5. Own(t)
  BY <1>1, <1>4 DEF BeginLoad, Own, Goto, TypeOK
<1>6. Counted(t)'
  BY <1>1, <1>3, <1>4, CountKept DEF Inside
<1>7. Shaped(t)'
  BY <1>1, <1>3, <1>4 DEF Shaped, LineBegins
<1>8. BufWhole(t)'
  BY <1>1, <1>4 DEF BufWhole, LineBegins
<1>9. QED BY <1>2, <1>3, <1>4, <1>5, <1>6, <1>7, <1>8, QuietStep DEF Inside

LEMMA BeginStoreKeeps ==
  ASSUME IInv, NEW t \in Threads, BeginStore(t)
  PROVE  IInv'
<1>1. TypeOK /\ Shaped(t) /\ Counted(t) /\ BufWhole(t)
  BY DEF IInv, LinesWhole, BufWhole
<1>2. TypeOK'
  BY <1>1, StepTyped DEF Step, BeginStore
<1>3. pc[t] = "store" /\ pc'[t] = "pad"
  BY <1>1 DEF BeginStore, Goto, TypeOK
<1>4. UNCHANGED <<handed, asked, manual, block, buf, good, todo, held>>
  BY DEF BeginStore, mutex
<1>5. Own(t)
  BY <1>1, <1>4 DEF BeginStore, Own, Goto, TypeOK
<1>6. Counted(t)'
  BY <1>1, <1>3, <1>4, CountKept DEF Inside
<1>7. Shaped(t)'
  BY <1>1, <1>3, <1>4 DEF Shaped, LineBegins
<1>8. BufWhole(t)'
  BY <1>1, <1>4 DEF BufWhole, LineBegins
<1>9. QED BY <1>2, <1>3, <1>4, <1>5, <1>6, <1>7, <1>8, QuietStep DEF Inside

\* The header, half or whole, is the beginning of a line.
LEMMA BeginPadKeeps ==
  ASSUME IInv, NEW t \in Threads, BeginPad(t)
  PROVE  IInv'
<1>1. TypeOK /\ Shaped(t) /\ Counted(t)
  BY DEF IInv
<1>2. TypeOK'
  BY <1>1, StepTyped DEF Step, BeginPad
<1>3. pc[t] = "pad" /\ buf[t] = <<>> /\ buf'[t] = <<"head">>
  BY <1>1 DEF BeginPad, Shaped, TypeOK
<1>4. UNCHANGED <<handed, asked, manual, block>>
  BY DEF BeginPad
<1>5. LineBegins(t, Len(handed) + 1)'
  BY <1>1, <1>3, <1>4 DEF Shaped, LineBegins
<1>6. BufWhole(t)'
  BY <1>3, <1>5 DEF BufWhole
<1>7. CASE max_name >= todo[t].name
  <2>1. pc'[t] = "loop" /\ UNCHANGED <<good, todo, held>>
    BY <1>1, <1>7 DEF BeginPad, Goto, TypeOK
  <2>2. Own(t)
    BY <1>1, <1>7, <2>1 DEF BeginPad, Own, Goto, TypeOK
  <2>3. Counted(t)'
    BY <1>1, <1>3, <1>4, <2>1, CountKept DEF Inside
  <2>4. Shaped(t)'
    BY <1>3, <1>5, <2>1 DEF Shaped
  <2>5. QED BY <1>2, <1>3, <1>4, <1>6, <2>1, <2>2, <2>3, <2>4, QuietStep DEF Inside
<1>8. CASE ~(max_name >= todo[t].name)
  <2>1. Leave(t) /\ good' = [good EXCEPT ![t] = FALSE]
    BY <1>8 DEF BeginPad
  <2>2. pc'[t] \in {"sync", "idle"} /\ held'[t] = FALSE /\ todo'[t] = Nothing /\ good'[t] = FALSE
    BY <1>1, <2>1, LeaveMeans DEF TypeOK
  <2>3. Own(t)
    BY <1>1, <2>1, LeaveMeans DEF BeginPad, Own, TypeOK
  <2>4. Counted(t)'
    BY <1>1, <1>4, <2>2, CountKept DEF Nothing
  <2>5. Shaped(t)'
    BY <1>3, <1>5, <2>2 DEF Shaped
  <2>6. QED BY <1>2, <1>3, <1>4, <1>6, <2>2, <2>3, <2>4, <2>5, QuietStep DEF Inside
<1>9. QED BY <1>7, <1>8

LEMMA KeepTailKeeps ==
  ASSUME IInv, NEW t \in Threads, KeepTail(t)
  PROVE  IInv'
<1>1. TypeOK /\ Shaped(t) /\ Counted(t) /\ BufWhole(t)
  BY DEF IInv, LinesWhole, BufWhole
<1>2. TypeOK'
  BY <1>1, StepTyped DEF Step, KeepTail
<1>3. pc'[t] \in {"sync", "idle"} /\ held'[t] = FALSE /\ todo'[t] = Nothing
  BY <1>1, LeaveMeans DEF KeepTail
<1>4. Own(t)
  BY <1>1, LeaveMeans DEF KeepTail, Own, TypeOK
<1>5. pc[t] = "loop" /\ todo[t].lines = 0 /\ buf[t] # <<>> /\ buf'[t] = Append(buf[t], "text")
  BY <1>1 DEF KeepTail, TypeOK
<1>6. UNCHANGED <<handed, asked, manual, block, good>>
  BY DEF KeepTail
<1>7. Counted(t)'
  BY <1>1, <1>3, <1>5, <1>6, CountKept DEF Nothing
<1>b. buf[t] \in Seq(Parts)
  BY <1>1 DEF TypeOK
<1>8. /\ Len(buf[t]) > 0 /\ DOMAIN buf'[t] = 1..(Len(buf[t]) + 1)
      /\ \A k \in DOMAIN buf[t] : buf'[t][k] = buf[t][k]
      /\ buf'[t][Len(buf[t]) + 1] = "text"
  BY <1>5, <1>b
<1>9. Shaped(t)'
  BY <1>1, <1>3, <1>5, <1>8, <1>b DEF Shaped
<1>10. BufWhole(t)'
  <2>1. LineBegins(t, Len(handed) + 1)' <=> LineBegins(t, Len(handed) + 1)
    BY <1>6 DEF LineBegins
  <2>2. \A k \in DOMAIN buf[t] : buf[t][k] # "end"
    BY <1>1, <1>5 DEF Shaped
  <2>3. \A k \in DOMAIN buf'[t] : k # 1 => k - 1 \in DOMAIN buf[t]
    BY <1>8, <1>b
  <2>4. 1 \in DOMAIN buf[t] /\ \A k \in DOMAIN buf'[t] : k \in DOMAIN buf[t] \/ k = Len(buf[t]) + 1
    BY <1>8, <1>b
  <2>5. \A k \in DOMAIN buf[t] : k = 1 => (buf'[t][1] = "head" <=> LineBegins(t, Len(handed) + 1)')
    BY <1>1, <1>8, <2>1, <2>4 DEF BufWhole
  <2>6. \A k \in DOMAIN buf'[t] : k # 1 => (buf'[t][k] = "head" <=> buf'[t][k - 1] = "end")
    BY <1>1, <1>8, <2>2, <2>3, <2>4 DEF BufWhole
  <2>7. QED BY <2>4, <2>5, <2>6 DEF BufWhole
<1>11. QED BY <1>2, <1>3, <1>4, <1>5, <1>6, <1>7, <1>9, <1>10, QuietStep DEF Inside

\* The end is the last part of its line; the mutex was free for t.
LEMMA EndLineKeeps ==
  ASSUME IInv, NEW t \in Threads, EndLine(t)
  PROVE  IInv'
<1>1. TypeOK /\ Shaped(t) /\ Counted(t) /\ BufWhole(t)
  BY DEF IInv, LinesWhole, BufWhole
<1>2. TypeOK'
  BY <1>1, StepTyped DEF Step, EndLine
<1>3. /\ pc[t] = "loop" /\ pc'[t] = "put" /\ held'[t] = TRUE /\ (held[t] \/ Available(t))
      /\ todo[t].lines > 0 /\ buf[t] # <<>> /\ buf'[t] = Append(buf[t], "end")
  BY <1>1 DEF EndLine, Goto, TypeOK
<1>4. Own(t)
  BY <1>1 DEF EndLine, Own, Goto, TypeOK
<1>5. UNCHANGED <<handed, asked, manual, block, good, todo>>
  BY DEF EndLine
<1>6. Counted(t)'
  BY <1>1, <1>3, <1>5, CountKept DEF Inside
<1>b. buf[t] \in Seq(Parts)
  BY <1>1 DEF TypeOK
<1>7. /\ Len(buf[t]) > 0 /\ DOMAIN buf'[t] = 1..(Len(buf[t]) + 1) /\ Len(buf'[t]) = Len(buf[t]) + 1
      /\ \A k \in DOMAIN buf[t] : buf'[t][k] = buf[t][k]
      /\ buf'[t][Len(buf[t]) + 1] = "end"
  BY <1>3, <1>b
<1>8. \A k \in DOMAIN buf[t] : buf[t][k] # "end"
  BY <1>1, <1>3 DEF Shaped
<1>9. Shaped(t)'
  <2>1. \A k \in DOMAIN buf'[t] : buf'[t][k] = "end" => k = Len(buf'[t])
    BY <1>7, <1>8, <1>b
  <2>2. buf'[t] # <<>>
    BY <1>7, <1>b
  <2>3. QED BY <1>3, <1>7, <2>1, <2>2 DEF Shaped
<1>10. BufWhole(t)'
  <2>1. LineBegins(t, Len(handed) + 1)' <=> LineBegins(t, Len(handed) + 1)
    BY <1>5 DEF LineBegins
  <2>2. \A k \in DOMAIN buf'[t] : k # 1 => k - 1 \in DOMAIN buf[t]
    BY <1>7, <1>b
  <2>3. 1 \in DOMAIN buf[t] /\ \A k \in DOMAIN buf'[t] : k \in DOMAIN buf[t] \/ k = Len(buf[t]) + 1
    BY <1>7, <1>b
  <2>4. \A k \in DOMAIN buf[t] : k = 1 => (buf'[t][1] = "head" <=> LineBegins(t, Len(handed) + 1)')
    BY <1>1, <1>7, <2>1, <2>3 DEF BufWhole
  <2>5. \A k \in DOMAIN buf'[t] : k # 1 => (buf'[t][k] = "head" <=> buf'[t][k - 1] = "end")
    BY <1>1, <1>7, <1>8, <2>2, <2>3 DEF BufWhole
  <2>6. QED BY <2>3, <2>4, <2>5 DEF BufWhole
<1>11. QED BY <1>2, <1>3, <1>4, <1>5, <1>6, <1>9, <1>10, QuietStep DEF Inside

LEMMA FlushKeeps ==
  ASSUME IInv, NEW t \in Threads, Flush(t) \/ FlushReset(t)
  PROVE  IInv'
<1>1. TypeOK /\ Shaped(t) /\ Counted(t) /\ BufWhole(t)
  BY DEF IInv, LinesWhole, BufWhole
<1>2. TypeOK'
  BY <1>1, StepTyped DEF Step, Flush, FlushReset
<1>3. pc[t] \in {"sync", "reset"} /\ pc'[t] \in {"reset", "idle"}
  BY <1>1 DEF Flush, FlushReset, Goto, TypeOK
<1>4. UNCHANGED <<handed, asked, manual, block, buf, good, todo, held>>
  BY DEF Flush, FlushReset, mutex
<1>5. Own(t)
  BY <1>1, <1>4 DEF Flush, FlushReset, Own, Goto, TypeOK
<1>6. Counted(t)'
  BY <1>1, <1>3, <1>4, CountKept DEF Inside, Counted
<1>7. Shaped(t)'
  BY <1>1, <1>3, <1>4 DEF Shaped, LineBegins
<1>8. BufWhole(t)'
  BY <1>1, <1>4 DEF BufWhole, LineBegins
<1>9. held[t] = FALSE
  BY <1>1, <1>3 DEF IInv, LockInv, Inside, TypeOK
<1>10. QED BY <1>2, <1>3, <1>4, <1>5, <1>6, <1>7, <1>8, <1>9, QuietStep DEF Inside
-----------------------------------------------------------------------------
(* Taking the mutex by hand, and a new insertion, whose numbers are new.    *)

LEMMA LockKeeps ==
  ASSUME IInv, NEW t \in Threads, Lock(t)
  PROVE  IInv'
<1>1. TypeOK /\ LockInv
  BY DEF IInv
<1>2. TypeOK'
  BY <1>1, CallTyped DEF Call
<1>3. /\ pc[t] = "idle" /\ Available(t) /\ manual'[t] = TRUE /\ block'[t] = block[t] + 1
      /\ \A u \in Threads \ {t} : manual'[u] = manual[u] /\ block'[u] = block[u]
  BY <1>1 DEF Lock, TypeOK
<1>4. UNCHANGED <<pc, todo, buf, good, held, handed, asked>>
  BY DEF Lock
<1>5. LockInv'
  <2>1. \A u \in Threads \ {t} : ~Owner(u)'
    BY <1>3, <1>4 DEF Available, Owner
  <2>2. \A u, v \in Threads : Owner(u)' /\ Owner(v)' => u = v
    BY <2>1
  <2>3. \A u \in Threads : (held'[u] => Inside(u)') /\ (pc'[u] = "put" => held'[u])
    BY <1>1, <1>4 DEF LockInv, Inside
  <2>4. QED BY <2>2, <2>3 DEF LockInv, Owner
<1>6. \A k \in DOMAIN handed : handed[k].by \in Threads /\ handed[k].block \in Nat
  BY <1>1, HandedTyped
<1>7. \A u \in Threads : block[u] \in Nat
  BY <1>1 DEF TypeOK
<1>8. Numbered'
  <2>1. \A u \in Threads : block[u] <= block'[u]
    BY <1>3, <1>7
  <2>2. \A k \in DOMAIN handed : handed[k].block <= block'[handed[k].by]
    <3>1. TAKE k \in DOMAIN handed
    <3>2. handed[k].block <= block[handed[k].by]
      BY DEF IInv, Numbered
    <3>3. block'[handed[k].by] \in Nat
      BY <1>2, <1>6 DEF TypeOK
    <3>4. QED BY <1>6, <1>7, <2>1, <3>2, <3>3
  <2>3. QED BY <1>4, <2>2 DEF IInv, Numbered
<1>9. OpenInv'
  <2>1. SUFFICES ASSUME NEW u \in Threads, NEW k \in DOMAIN handed, handed[k].by = u, Open(u, k)'
                 PROVE  Owner(u)' /\ \A j \in k..Len(handed) : handed[j].by = u
    BY <1>4 DEF OpenInv
  <2>2. u # t
    <3>1. handed[k].block <= block[handed[k].by]
      BY DEF IInv, Numbered
    <3>2. u = t => handed[k].block # block'[t]
      BY <1>3, <1>6, <1>7, <2>1, <3>1
    <3>3. QED BY <1>3, <1>4, <2>1, <3>2 DEF Open, Inside
  <2>3. Open(u, k)
    BY <1>3, <1>4, <2>1, <2>2 DEF Open, Inside
  <2>4. QED BY <1>3, <1>4, <2>1, <2>2, <2>3 DEF IInv, OpenInv, Owner
<1>10. BlocksUnbroken'
  BY <1>4 DEF IInv, BlocksUnbroken
<1>11. LinesWhole'
  BY <1>4 DEF IInv, LinesWhole, LineBegins
<1>12. \A u \in Threads : Shaped(u)' /\ Counted(u)'
  BY <1>4, Unmoved DEF IInv
<1>13. QED BY <1>2, <1>5, <1>8, <1>9, <1>10, <1>11, <1>12 DEF IInv

LEMMA UnlockKeeps ==
  ASSUME IInv, NEW t \in Threads, Unlock(t)
  PROVE  IInv'
<1>1. TypeOK /\ LockInv
  BY DEF IInv
<1>2. TypeOK'
  BY <1>1, CallTyped DEF Call
<1>3. /\ pc[t] = "idle" /\ manual'[t] = FALSE
      /\ \A u \in Threads \ {t} : manual'[u] = manual[u]
  BY <1>1 DEF Unlock, TypeOK
<1>4. UNCHANGED <<pc, todo, buf, good, held, block, handed, asked>>
  BY DEF Unlock
<1>5. LockInv'
  <2>1. \A u \in Threads : Owner(u)' => Owner(u)
    BY <1>3, <1>4 DEF Owner
  <2>2. \A u, v \in Threads : Owner(u)' /\ Owner(v)' => u = v
    BY <1>1, <2>1 DEF LockInv
  <2>3. \A u \in Threads : (held'[u] => Inside(u)') /\ (pc'[u] = "put" => held'[u])
    BY <1>1, <1>4 DEF LockInv, Inside
  <2>4. QED BY <2>2, <2>3 DEF LockInv, Owner
<1>6. Numbered'
  BY <1>4 DEF IInv, Numbered
<1>7. OpenInv'
  <2>1. SUFFICES ASSUME NEW u \in Threads, NEW k \in DOMAIN handed, handed[k].by = u, Open(u, k)'
                 PROVE  Owner(u)' /\ \A j \in k..Len(handed) : handed[j].by = u
    BY <1>4 DEF OpenInv
  <2>2. u # t
    BY <1>3, <1>4, <2>1 DEF Open, Inside
  <2>3. Open(u, k)
    BY <1>3, <1>4, <2>1, <2>2 DEF Open, Inside
  <2>4. QED BY <1>3, <1>4, <2>1, <2>2, <2>3 DEF IInv, OpenInv, Owner
<1>8. BlocksUnbroken'
  BY <1>4 DEF IInv, BlocksUnbroken
<1>9. LinesWhole'
  BY <1>4 DEF IInv, LinesWhole, LineBegins
<1>10. \A u \in Threads : Shaped(u)' /\ Counted(u)'
  BY <1>4, Unmoved DEF IInv
<1>11. QED BY <1>2, <1>5, <1>6, <1>7, <1>8, <1>9, <1>10 DEF IInv

\* Nothing has gone out of a text that has just come in.
LEMMA InsertCounted ==
  ASSUME IInv, NEW t \in Threads, NEW size \in NameSizes, NEW text \in Texts,
         Insert(t, size, text)
  PROVE  Counted(t)'
<1>1. TypeOK /\ Counted(t) /\ Numbered
  BY DEF IInv
<1>2. pc[t] = "idle" /\ todo[t].lines = 0 /\ UNCHANGED <<good, handed>>
  BY <1>1 DEF Insert, Counted, Inside
<1>s. asked[t] \in Seq([text: Texts, block: Nat])
  BY <1>1 DEF TypeOK
<1>3. asked'[t] = Append(asked[t], [text |-> text, block |-> BlockOf(t)])
  BY <1>1 DEF Insert, TypeOK
<1>4. /\ Len(asked'[t]) = Len(asked[t]) + 1 /\ DOMAIN asked'[t] = 1..(Len(asked[t]) + 1)
      /\ asked'[t][Len(asked[t]) + 1] = [text |-> text, block |-> BlockOf(t)]
      /\ \A e \in DOMAIN asked[t] : asked'[t][e] = asked[t][e]
      /\ DOMAIN asked[t] = 1..Len(asked[t]) /\ Len(asked[t]) \in Nat
  BY <1>3, <1>s
<1>5. CASE good[t]
  <2>1. pc'[t] = "loop" /\ todo'[t].lines = text.lines
    BY <1>1, <1>5 DEF Insert, Goto, TypeOK
  <2>2. \A e : Ended(t, e)' = Ended(t, e)
    BY <1>2 DEF Ended
  <2>3. Ended(t, Len(asked[t]) + 1) = {}
    <3>1. \A k \in DOMAIN handed : handed[k].by = t => handed[k].insertion <= Len(asked[t])
      BY <1>1 DEF Numbered
    <3>2. QED BY <1>4, <3>1 DEF Ended
  <2>4. \A e \in DOMAIN asked[t] : Cardinality(Ended(t, e)) + 0 = asked[t][e].text.lines
    BY <1>1, <1>2, <1>5 DEF Counted, ToCome
  <2>5. \A e \in DOMAIN asked'[t] :
          Cardinality(Ended(t, e)') + ToCome(t, e)' = asked'[t][e].text.lines
    <3>1. SUFFICES ASSUME NEW e \in DOMAIN asked'[t]
                   PROVE  Cardinality(Ended(t, e)') + ToCome(t, e)' = asked'[t][e].text.lines
      OBVIOUS
    <3>2. CASE e = Len(asked[t]) + 1
      <4>1. Cardinality(Ended(t, e)') = 0
        BY <2>2, <2>3, <3>2, FS_EmptySet
      <4>2. ToCome(t, e)' = text.lines
        BY <1>4, <2>1, <3>2 DEF ToCome
      <4>3. text.lines \in Nat
        BY LogAssumption
      <4>4. QED BY <1>4, <3>2, <4>1, <4>2, <4>3
    <3>3. CASE e # Len(asked[t]) + 1
      <4>1. e \in DOMAIN asked[t]
        BY <1>4, <3>1, <3>3
      <4>2. ToCome(t, e)' = 0
        BY <1>4, <3>3 DEF ToCome
      <4>3. QED BY <1>4, <2>2, <2>4, <4>1, <4>2
    <3>4. QED BY <3>2, <3>3
  <2>6. QED BY <2>1, <2>5 DEF Counted, Inside
<1>6. CASE ~good[t]
  <2>1. UNCHANGED <<pc, todo>>
    BY <1>6 DEF Insert
  <2>2. QED BY <1>1, <1>2, <1>6, <2>1 DEF Counted, Inside
<1>7. QED BY <1>5, <1>6

LEMMA InsertKeeps ==
  ASSUME IInv, NEW t \in Threads, NEW size \in NameSizes, NEW text \in Texts,
         Insert(t, size, text)
  PROVE  IInv'
<1>1. TypeOK /\ LockInv /\ Numbered
  BY DEF IInv
<1>2. TypeOK'
  BY <1>1, CallTyped DEF Call
<1>3. /\ pc[t] = "idle" /\ pc'[t] \in {"idle", "loop"}
      /\ UNCHANGED <<buf, good, held, manual, block, handed>>
  BY <1>1 DEF Insert, Goto, TypeOK, mutex
<1>s. \A u \in Threads : asked[u] \in Seq([text: Texts, block: Nat])
  BY <1>1 DEF TypeOK
<1>4. Len(asked'[t]) = Len(asked[t]) + 1 /\ Len(asked[t]) \in Nat
  <2>1. asked'[t] = Append(asked[t], [text |-> text, block |-> BlockOf(t)])
    BY <1>1 DEF Insert, TypeOK
  <2>2. QED BY <1>s, <2>1
<1>5. \A u \in Threads \ {t} : pc'[u] = pc[u] /\ todo'[u] = todo[u] /\ asked'[u] = asked[u]
  BY <1>1 DEF Insert, Goto, TypeOK
<1>6. LockInv'
  BY <1>1, <1>3, <1>5 DEF LockInv, Inside, Owner
<1>7. \A k \in DOMAIN handed :
        handed[k].by \in Threads /\ handed[k].insertion \in Nat /\ handed[k].block \in Nat
  BY <1>1, HandedTyped
<1>8. Numbered'
  <2>1. \A u \in Threads : Len(asked[u]) <= Len(asked'[u]) /\ Len(asked[u]) \in Nat
    BY <1>4, <1>5, <1>s
  <2>2. \A k \in DOMAIN handed : handed[k].insertion <= Len(asked'[handed[k].by])
    <3>1. TAKE k \in DOMAIN handed
    <3>2. handed[k].insertion <= Len(asked[handed[k].by])
      BY <1>1 DEF Numbered
    <3>3. Len(asked'[handed[k].by]) \in Nat
      BY <1>4, <1>5, <1>7, <1>s
    <3>4. QED BY <1>7, <2>1, <3>2, <3>3
  <2>3. QED BY <1>1, <1>3, <2>2 DEF Numbered
<1>9. OpenInv'
  <2>1. SUFFICES ASSUME NEW u \in Threads, NEW k \in DOMAIN handed, handed[k].by = u, Open(u, k)'
                 PROVE  Owner(u) /\ \A j \in k..Len(handed) : handed[j].by = u
    BY <1>3 DEF OpenInv, Owner
  <2>2. handed[k].insertion <= Len(asked[u])
    BY <1>1, <2>1 DEF Numbered
  <2>3. Open(u, k)
    <3>1. CASE u = t
      <4>1. handed[k].insertion # Len(asked'[t])
        BY <1>4, <1>7, <2>2, <3>1
      <4>2. QED BY <1>3, <2>1, <3>1, <4>1 DEF Open
    <3>2. CASE u # t
      BY <1>3, <1>5, <2>1, <3>2 DEF Open, Inside
    <3>3. QED BY <3>1, <3>2
  <2>4. QED BY <2>1, <2>3 DEF IInv, OpenInv
<1>10. BlocksUnbroken'
  BY <1>3 DEF IInv, BlocksUnbroken
<1>a. LinesWhole'
  BY <1>3 DEF IInv, LinesWhole, LineBegins
<1>11. \A u \in Threads : Shaped(u)'
  <2>1. \A u, k : LineBegins(u, k)' <=> LineBegins(u, k)
    BY <1>3 DEF LineBegins
  <2>2. TAKE u \in Threads
  <2>3. Shaped(u)
    BY DEF IInv
  <2>4. QED BY <1>3, <1>5, <2>1, <2>3 DEF Shaped
<1>12. \A u \in Threads \ {t} : Counted(u)'
  <2>1. TAKE u \in Threads \ {t}
  <2>2. Counted(u) /\ \A e : Ended(u, e)' = Ended(u, e) /\ ToCome(u, e)' = ToCome(u, e)
    BY <1>3, <1>5 DEF IInv, Ended, ToCome
  <2>3. QED BY <1>3, <1>5, <2>2 DEF Counted, Inside
<1>13. Counted(t)'
  BY InsertCounted
<1>14. QED BY <1>2, <1>6, <1>8, <1>9, <1>10, <1>a, <1>11, <1>12, <1>13 DEF IInv
-----------------------------------------------------------------------------
(* Handing over a part of a line.                                          *)

\* What Put does, with the piece p it hands over behind n others.
Hands(t, p, n) ==
  /\ n = Len(handed) /\ handed \in Seq(Pieces) /\ p \in Pieces
  /\ p.by = t /\ p.insertion = Len(asked[t]) /\ p.block = BlockOf(t) /\ p.part = buf[t][1]
  /\ Len(handed') = n + 1 /\ handed'[n + 1] = p
  /\ \A k \in 1..n : handed'[k] = handed[k]
  /\ DOMAIN handed = 1..n /\ DOMAIN handed' = 1..(n + 1)

\* Put's thread is inside with the mutex; if it was the last part of the line, that was
\* its end.
LEMMA PutMeans ==
  ASSUME IInv, NEW t \in Threads, Put(t)
  PROVE  /\ \E p \in Pieces, n \in Nat : Hands(t, p, n)
         /\ pc[t] = "put" /\ Inside(t) /\ held[t] /\ todo[t].lines > 0
         /\ buf[t] \in Seq(Parts) /\ Len(buf[t]) >= 1 /\ buf'[t] = Tail(buf[t])
         /\ buf[t][1] = "end" <=> Len(buf[t]) = 1
         /\ UNCHANGED <<good, held, manual, block, asked>> /\ Own(t)
<1>1. TypeOK /\ Shaped(t) /\ Counted(t) /\ LockInv
  BY DEF IInv
<1>2. pc[t] = "put" /\ Inside(t) /\ held[t] /\ todo[t].lines > 0
  BY <1>1 DEF Put, LockInv, Counted, Inside
<1>3. buf[t] \in Seq(Parts) /\ buf[t] # <<>>
  BY <1>1, <1>2 DEF TypeOK, Shaped
<1>4. Len(buf[t]) >= 1 /\ Len(buf[t]) \in Nat /\ DOMAIN buf[t] = 1..Len(buf[t])
  BY <1>3
<1>5. buf[t][1] = "end" <=> Len(buf[t]) = 1
  <2>a. 1 \in DOMAIN buf[t]
    BY <1>4
  <2>1. buf[t][1] = "end" => 1 = Len(buf[t])
    BY <1>1, <2>a DEF Shaped
  <2>2. buf[t][Len(buf[t])] = "end"
    BY <1>1, <1>2 DEF Shaped
  <2>3. QED BY <2>1, <2>2
<1>6. buf'[t] = Tail(buf[t]) /\ Own(t) /\ UNCHANGED <<good, held, manual, block, asked>>
  BY <1>1 DEF Put, Own, Goto, TypeOK, mutex
<1>7. Head(buf[t]) = buf[t][1] /\ Head(buf[t]) \in Parts
  BY <1>3, <1>4
<1>8. PICK p \in Pieces : p = Piece(t, Head(buf[t]))
  BY <1>1, <1>7, PiecesTyped
<1>9. p.by = t /\ p.insertion = Len(asked[t]) /\ p.block = BlockOf(t) /\ p.part = buf[t][1]
  BY <1>7, <1>8 DEF Piece
<1>10. handed' = Append(handed, p) /\ handed \in Seq(Pieces)
  BY <1>1, <1>8 DEF Put, TypeOK
<1>11. Hands(t, p, Len(handed)) /\ Len(handed) \in Nat
  BY <1>9, <1>10 DEF Hands
<1>12. QED BY <1>2, <1>3, <1>4, <1>5, <1>6, <1>11

\* The next piece of t begins a line if the one it has just handed over ended one; for
\* the others, and for the slots before, nothing has changed.
LEMMA HandsBegin ==
  ASSUME NEW t \in Threads, NEW p \in Pieces, NEW n \in Nat, Hands(t, p, n)
  PROVE  /\ LineBegins(t, n + 2)' <=> p.part = "end"
         /\ \A u \in Threads \ {t} : LineBegins(u, n + 2)' <=> LineBegins(u, n + 1)
         /\ \A u \in Threads : \A k \in 1..(n + 1) : LineBegins(u, k)' <=> LineBegins(u, k)
<1>1. /\ handed'[n + 1] = p /\ p.by = t /\ \A k \in 1..n : handed'[k] = handed[k]
      /\ 1..((n + 2) - 1) = 1..n \cup {n + 1} /\ 1..((n + 1) - 1) = 1..n
  BY DEF Hands
<1>2. LineBegins(t, n + 2)' <=> p.part = "end"
  <2>1. \A e \in 1..n : n + 1 \in (e + 1)..((n + 2) - 1)
    OBVIOUS
  <2>2. \A j \in ((n + 1) + 1)..((n + 2) - 1) : handed'[j].by # t
    OBVIOUS
  <2>3. QED BY <1>1, <2>1, <2>2 DEF LineBegins
<1>3. \A u \in Threads : \A k \in 1..(n + 1) : LineBegins(u, k)' <=> LineBegins(u, k)
  <2>1. TAKE u \in Threads
  <2>2. TAKE k \in 1..(n + 1)
  <2>3. \A e \in 1..(k - 1) : handed'[e] = handed[e]
    BY <1>1
  <2>4. \A e \in 1..(k - 1) : \A j \in (e + 1)..(k - 1) : handed'[j] = handed[j]
    BY <1>1
  <2>5. QED BY <2>3, <2>4 DEF LineBegins
<1>4. \A u \in Threads \ {t} : LineBegins(u, n + 2)' <=> LineBegins(u, n + 1)
  <2>1. TAKE u \in Threads \ {t}
  <2>2. \A e \in 1..n : (\A j \in (e + 1)..((n + 2) - 1) : handed'[j].by # u)
                          <=> (\A j \in (e + 1)..((n + 1) - 1) : handed[j].by # u)
    <3>1. TAKE e \in 1..n
    <3>2. (e + 1)..((n + 2) - 1) = (e + 1)..((n + 1) - 1) \cup {n + 1}
      OBVIOUS
    <3>3. \A j \in (e + 1)..((n + 1) - 1) : handed'[j] = handed[j]
      BY <1>1
    <3>4. QED BY <1>1, <2>1, <3>2, <3>3
  <2>3. QED BY <1>1, <2>1, <2>2 DEF LineBegins
<1>5. QED BY <1>2, <1>3, <1>4

\* The mutex is in one hand, so a piece goes behind the pieces of its own text and block.
LEMMA PutUnbroken ==
  ASSUME IInv, NEW t \in Threads, Put(t)
  PROVE  LockInv' /\ Numbered' /\ OpenInv' /\ BlocksUnbroken'
<1>1. PICK p \in Pieces, n \in Nat : Hands(t, p, n)
  BY PutMeans
<1>2. /\ pc[t] = "put" /\ Inside(t) /\ held[t] /\ Own(t)
      /\ UNCHANGED <<held, manual, block, asked>>
  BY PutMeans
<1>3. TypeOK /\ LockInv /\ Numbered /\ OpenInv /\ BlocksUnbroken
  BY DEF IInv
<1>4. Inside(t)' /\ \A u \in Threads \ {t} : pc'[u] = pc[u]
  BY <1>2, <1>3 DEF Put, Goto, Inside, TypeOK, Own
<1>5. LockInv'
  BY <1>2, <1>3, <1>4 DEF LockInv, Inside, Owner
<1>6. /\ p.by = t /\ p.insertion = Len(asked[t]) /\ p.block = BlockOf(t)
      /\ handed'[n + 1] = p /\ \A k \in 1..n : handed'[k] = handed[k]
      /\ DOMAIN handed = 1..n /\ DOMAIN handed' = 1..n \cup {n + 1}
      /\ Len(handed) = n /\ Len(handed') = n + 1
  BY <1>1 DEF Hands
<1>7. Len(asked[t]) \in Nat /\ block[t] \in Nat
  BY <1>3 DEF TypeOK
<1>8. Numbered'
  BY <1>2, <1>3, <1>6, <1>7 DEF Numbered, BlockOf
<1>9. ASSUME NEW e \in 1..n, handed[e].by = t, Open(t, e)
      PROVE  \A j \in e..(n + 1) : handed'[j].by = t
  <2>1. \A j \in e..n : handed[j].by = t
    BY <1>3, <1>6, <1>9 DEF OpenInv
  <2>2. QED BY <1>6, <2>1
<1>10. OpenInv'
  <2>1. SUFFICES ASSUME NEW u \in Threads, NEW k \in DOMAIN handed', handed'[k].by = u, Open(u, k)'
                 PROVE  Owner(u)' /\ \A j \in k..(n + 1) : handed'[j].by = u
    BY <1>6 DEF OpenInv
  <2>2. CASE k = n + 1
    BY <1>2, <1>6, <2>1, <2>2 DEF Owner
  <2>3. CASE k \in 1..n
    <3>1. handed[k].by = u /\ Open(u, k)
      BY <1>2, <1>4, <1>6, <2>1, <2>3 DEF Open, Inside
    <3>2. Owner(u)
      BY <1>3, <1>6, <2>3, <3>1 DEF OpenInv
    <3>3. u = t
      BY <1>2, <1>3, <3>2 DEF LockInv, Owner
    <3>4. QED BY <1>2, <1>9, <2>3, <3>1, <3>3 DEF Owner
  <2>4. QED BY <1>6, <2>2, <2>3
<1>11. BlocksUnbroken'
  <2>1. SUFFICES ASSUME NEW e \in DOMAIN handed', NEW k \in DOMAIN handed', e < k,
                        Together(handed'[e], handed'[k])
                 PROVE  \A j \in e..k : handed'[j].by = handed'[e].by
    BY DEF BlocksUnbroken, Together
  <2>2. CASE k \in 1..n
    <3>1. e \in 1..n /\ handed'[e] = handed[e] /\ handed'[k] = handed[k]
      BY <1>6, <2>1, <2>2
    <3>2. \A j \in e..k : handed[j].by = handed[e].by
      BY <1>3, <1>6, <2>1, <2>2, <3>1 DEF BlocksUnbroken
    <3>3. \A j \in e..k : handed'[j] = handed[j]
      BY <1>6, <2>2, <3>1
    <3>4. QED BY <3>1, <3>2, <3>3
  <2>3. CASE k = n + 1
    <3>1. e \in 1..n /\ handed'[e] = handed[e] /\ handed[e].by = t
      BY <1>6, <2>1, <2>3 DEF Together
    <3>2. Open(t, e)
      BY <1>2, <1>6, <2>1, <2>3, <3>1 DEF Together, Open, BlockOf
    <3>3. QED BY <1>9, <2>3, <3>1, <3>2
  <2>4. QED BY <1>6, <2>2, <2>3
<1>12. QED BY <1>5, <1>8, <1>10, <1>11

\* The first part of a buffer goes on with the line that std::clog is in, and the rest of
\* the buffer goes on with that part.
LEMMA PutWhole ==
  ASSUME IInv, NEW t \in Threads, Put(t)
  PROVE  LinesWhole' /\ \A u \in Threads : Shaped(u)'
<1>1. PICK p \in Pieces, n \in Nat : Hands(t, p, n)
  BY PutMeans
<1>2. /\ pc[t] = "put" /\ buf[t] \in Seq(Parts) /\ Len(buf[t]) >= 1 /\ buf'[t] = Tail(buf[t])
      /\ buf[t][1] = "end" <=> Len(buf[t]) = 1
      /\ Own(t)
  BY PutMeans
<1>3. TypeOK /\ LinesWhole /\ Shaped(t)
  BY DEF IInv
<1>4. /\ p.by = t /\ p.part = buf[t][1]
      /\ handed'[n + 1] = p /\ \A k \in 1..n : handed'[k] = handed[k]
      /\ DOMAIN handed = 1..n /\ DOMAIN handed' = 1..n \cup {n + 1}
      /\ Len(handed) = n /\ Len(handed') = n + 1 /\ (n + 1) + 1 = n + 2
  BY <1>1 DEF Hands
<1>5. \A u \in Threads : BufWhole(u)
  BY <1>3 DEF LinesWhole, BufWhole
<1>6. /\ DOMAIN buf[t] = 1..Len(buf[t]) /\ DOMAIN buf'[t] = 1..(Len(buf[t]) - 1)
      /\ Len(buf'[t]) = Len(buf[t]) - 1 /\ Len(buf[t]) \in Nat
      /\ \A k \in DOMAIN buf'[t] : buf'[t][k] = buf[t][k + 1]
      /\ buf'[t] = <<>> <=> Len(buf[t]) = 1
  <2>1. Len(buf[t]) \in Nat /\ DOMAIN buf[t] = 1..Len(buf[t]) /\ buf[t] # <<>>
    BY <1>2
  <2>2. /\ Len(buf'[t]) = Len(buf[t]) - 1 /\ DOMAIN buf'[t] = 1..(Len(buf[t]) - 1)
        /\ \A k \in DOMAIN buf'[t] : buf'[t][k] = buf[t][k + 1]
    BY <1>2, <2>1
  <2>3. buf'[t] \in Seq(Parts)
    BY <1>2, <2>1
  <2>4. buf'[t] = <<>> <=> Len(buf'[t]) = 0
    BY <2>3
  <2>5. QED BY <2>1, <2>2, <2>4
<1>7. \A u \in Threads : \A k \in DOMAIN handed' :
        handed'[k].by = u => (handed'[k].part = "head" <=> LineBegins(u, k)')
  <2>1. SUFFICES ASSUME NEW u \in Threads, NEW k \in DOMAIN handed', handed'[k].by = u
                 PROVE  handed'[k].part = "head" <=> LineBegins(u, k)'
    OBVIOUS
  <2>2. LineBegins(u, k)' <=> LineBegins(u, k)
    BY <1>1, <1>4, HandsBegin
  <2>3. CASE k \in 1..n
    BY <1>3, <1>4, <2>1, <2>2, <2>3 DEF LinesWhole
  <2>4. CASE k = n + 1
    <3>1. p.part = "head" <=> LineBegins(t, n + 1)
      <4>1. 1 \in DOMAIN buf[t]
        BY <1>2, <1>6
      <4>2. QED BY <1>4, <1>5, <4>1 DEF BufWhole
    <3>2. u = t
      BY <1>4, <2>1, <2>4
    <3>3. QED BY <1>4, <2>2, <2>4, <3>1, <3>2
  <2>5. QED BY <1>4, <2>3, <2>4
<1>8. \A k \in DOMAIN handed' : handed'[k].by \in Threads
  BY <1>3, <1>4, HandedTyped
<1>9. LineBegins(t, n + 2)' <=> p.part = "end"
  BY <1>1, HandsBegin
<1>10. ASSUME NEW u \in Threads \ {t} PROVE Shaped(u)' /\ BufWhole(u)'
  <2>1. pc'[u] = pc[u] /\ buf'[u] = buf[u]
    BY <1>2 DEF Own
  <2>2. LineBegins(u, n + 2)' <=> LineBegins(u, n + 1)
    BY <1>1, HandsBegin
  <2>3. LineBegins(u, Len(handed) + 1)' <=> LineBegins(u, Len(handed) + 1)
    BY <1>4, <2>2
  <2>4. Shaped(u) /\ BufWhole(u)
    BY <1>5 DEF IInv
  <2>5. Shaped(u)'
    BY <2>1, <2>3, <2>4 DEF Shaped
  <2>6. BufWhole(u)'
    BY <2>1, <2>3, <2>4 DEF BufWhole
  <2>7. QED BY <2>5, <2>6
<1>11. Shaped(t)'
  <2>1. ASSUME NEW k \in DOMAIN buf'[t], buf'[t][k] = "end"
        PROVE  pc'[t] = "put" /\ k = Len(buf'[t])
    <3>1. k + 1 = Len(buf[t])
      BY <1>3, <1>6, <2>1 DEF Shaped
    <3>2. Len(buf[t]) # 1
      BY <1>6, <2>1, <3>1
    <3>3. pc' = pc
      BY <3>2 DEF Put
    <3>4. QED BY <1>2, <1>6, <3>1, <3>3
  <2>2. pc'[t] = "put" => buf'[t] # <<>> /\ buf'[t][Len(buf'[t])] = "end"
    <3>1. SUFFICES ASSUME pc'[t] = "put" PROVE buf'[t] # <<>> /\ buf'[t][Len(buf'[t])] = "end"
      OBVIOUS
    <3>2. Len(buf[t]) # 1
      BY <1>3, <3>1 DEF Put, Goto, TypeOK
    <3>3. Len(buf'[t]) \in DOMAIN buf'[t] /\ buf'[t][Len(buf'[t])] = buf[t][Len(buf[t])]
      BY <1>2, <1>6, <3>2
    <3>4. QED BY <1>2, <1>3, <1>6, <3>2, <3>3 DEF Shaped
  <2>3. pc'[t] \in {"loop", "put"}
    BY <1>2, <1>3 DEF Put, Goto, TypeOK
  <2>4. buf'[t] = <<>> => LineBegins(t, Len(handed) + 1)'
    BY <1>2, <1>4, <1>6, <1>9
  <2>5. QED BY <2>1, <2>2, <2>3, <2>4 DEF Shaped
<1>12. BufWhole(t)'
  <2>1. ASSUME NEW k \in DOMAIN buf'[t] PROVE buf'[t][k] = "head" <=> buf[t][k] = "end"
    <3>1. /\ k \in Nat /\ k + 1 \in DOMAIN buf[t] /\ k + 1 # 1 /\ (k + 1) - 1 = k
          /\ buf'[t][k] = buf[t][k + 1]
      BY <1>6, <2>1
    <3>2. buf[t][k + 1] = "head" <=> buf[t][(k + 1) - 1] = "end"
      BY <1>5, <3>1 DEF BufWhole
    <3>3. QED BY <3>1, <3>2
  <2>2. LineBegins(t, Len(handed) + 1)' <=> buf[t][1] = "end"
    BY <1>4, <1>9
  <2>3. ASSUME NEW k \in DOMAIN buf'[t], k # 1 PROVE buf[t][k] = buf'[t][k - 1]
    <3>1. k - 1 \in DOMAIN buf'[t] /\ (k - 1) + 1 = k
      BY <1>6, <2>3
    <3>2. QED BY <1>6, <3>1
  <2>4. QED BY <2>1, <2>2, <2>3 DEF BufWhole
<1>13. \A u \in Threads : Shaped(u)' /\ BufWhole(u)'
  BY <1>10, <1>11, <1>12
<1>14. LinesWhole'
  <2>1. \A k \in DOMAIN handed' : handed'[k].part = "head" <=> LineBegins(handed[k].by, k)'
    BY <1>7, <1>8 DEF LineBegins
  <2>2. QED BY <1>13, <2>1 DEF LinesWhole, BufWhole
<1>15. QED BY <1>13, <1>14

\* The end of a line is counted when it goes out.
LEMMA PutCounted ==
  ASSUME IInv, NEW t \in Threads, Put(t), TypeOK', NEW u \in Threads
  PROVE  Counted(u)'
<1>1. PICK p \in Pieces, n \in Nat : Hands(t, p, n)
  BY PutMeans
<1>2. /\ pc[t] = "put" /\ Inside(t) /\ todo[t].lines > 0
      /\ buf[t][1] = "end" <=> Len(buf[t]) = 1
      /\ UNCHANGED <<good, asked>> /\ Own(t)
  BY PutMeans
<1>3. TypeOK /\ Counted(u)
  BY DEF IInv
<1>4. /\ p.by = t /\ p.insertion = Len(asked[t]) /\ p.part = buf[t][1]
      /\ handed'[n + 1] = p /\ \A k \in 1..n : handed'[k] = handed[k]
      /\ DOMAIN handed = 1..n /\ DOMAIN handed' = 1..n \cup {n + 1}
  BY <1>1 DEF Hands
<1>5. ASSUME NEW e PROVE
        Ended(u, e)' = IF u = t /\ e = Len(asked[t]) /\ p.part = "end"
                       THEN Ended(u, e) \cup {n + 1} ELSE Ended(u, e)
  BY <1>4 DEF Ended
<1>6. CASE u # t
  <2>1. \A e : Ended(u, e)' = Ended(u, e)
    BY <1>5, <1>6
  <2>2. pc'[u] = pc[u] /\ todo'[u] = todo[u] /\ good'[u] = good[u] /\ asked'[u] = asked[u]
    BY <1>2, <1>6 DEF Own
  <2>3. QED BY <1>3, <2>1, <2>2 DEF Counted, ToCome, Inside
<1>7. CASE u = t /\ Len(buf[t]) # 1
  <2>1. UNCHANGED <<pc, todo>>
    BY <1>7 DEF Put
  <2>2. \A e : Ended(u, e)' = Ended(u, e)
    BY <1>2, <1>4, <1>5, <1>7
  <2>3. QED BY <1>2, <1>3, <2>1, <2>2 DEF Counted, ToCome, Inside
<1>8. CASE u = t /\ Len(buf[t]) = 1
  <2>1. todo[t].lines \in Nat /\ todo[t] \in [name: Nat, lines: Nat, tail: BOOLEAN]
    BY <1>3 DEF TypeOK
  <2>2. pc'[t] = "loop" /\ todo'[t].lines = todo[t].lines - 1
    BY <1>3, <1>8, <2>1 DEF Put, Goto, TypeOK
  <2>3. good[t] => \A e \in DOMAIN asked[t] :
          Cardinality(Ended(t, e)') + ToCome(t, e)' = asked[t][e].text.lines
    <3>1. SUFFICES ASSUME good[t], NEW e \in DOMAIN asked[t]
                   PROVE  Cardinality(Ended(t, e)') + ToCome(t, e)' = asked[t][e].text.lines
      OBVIOUS
    <3>2. Cardinality(Ended(t, e)) + ToCome(t, e) = asked[t][e].text.lines
      BY <1>3, <1>8, <3>1 DEF Counted
    <3>3. CASE e = Len(asked[t])
      <4>1. Ended(t, e)' = Ended(t, e) \cup {n + 1}
        BY <1>2, <1>4, <1>5, <1>8, <3>3
      <4>2. IsFiniteSet(Ended(t, e)) /\ n + 1 \notin Ended(t, e)
        <5>1. Ended(t, e) \subseteq 1..n
          BY <1>4 DEF Ended
        <5>2. IsFiniteSet(1..n)
          BY FS_Interval
        <5>3. QED BY <5>1, <5>2, FS_Subset
      <4>3. Cardinality(Ended(t, e)') = Cardinality(Ended(t, e)) + 1
        BY <4>1, <4>2, FS_AddElement
      <4>4. Cardinality(Ended(t, e)) \in Nat
        BY <4>2, FS_CardinalityType
      <4>5. ToCome(t, e) = todo[t].lines /\ ToCome(t, e)' = todo[t].lines - 1
        BY <1>2, <2>2, <3>3 DEF ToCome
      <4>6. QED BY <2>1, <3>2, <4>3, <4>4, <4>5
    <3>4. CASE e # Len(asked[t])
      <4>1. Ended(t, e)' = Ended(t, e)
        BY <1>5, <1>8, <3>4
      <4>2. ToCome(t, e)' = ToCome(t, e)
        BY <1>2, <3>4 DEF ToCome
      <4>3. QED BY <3>2, <4>1, <4>2
    <3>5. QED BY <3>3, <3>4
  <2>4. QED BY <1>2, <1>8, <2>2, <2>3 DEF Counted, Inside
<1>9. QED BY <1>6, <1>7, <1>8

LEMMA PutKeeps ==
  ASSUME IInv, NEW t \in Threads, Put(t)
  PROVE  IInv'
<1>1. TypeOK'
  BY StepTyped DEF IInv, Shaped, Counted, Step
<1>2. QED BY <1>1, PutUnbroken, PutWhole, PutCounted DEF IInv
-----------------------------------------------------------------------------
(* The theorems.                                                           *)

LEMMA Starts == Init => IInv
<1>1. SUFFICES ASSUME Init PROVE IInv
  OBVIOUS
<1>2. TypeOK
  <2>1. <<>> \in Seq(Parts) /\ <<>> \in Seq(Pieces) /\ <<>> \in Seq([text: Texts, block: Nat])
    OBVIOUS
  <2>2. Nothing \in [name: Nat, lines: Nat, tail: BOOLEAN] /\ "idle" \in Steps
    BY DEF Nothing, Steps
  <2>3. QED BY <1>1, <2>1, <2>2, LogAssumption DEF Init, TypeOK
<1>3. \A t \in Threads : /\ pc[t] = "idle" /\ buf[t] = <<>> /\ asked[t] = <<>>
                         /\ held[t] = FALSE /\ manual[t] = FALSE /\ todo[t].lines = 0
  BY <1>1 DEF Init, Nothing
<1>4. DOMAIN handed = {} /\ Len(handed) = 0 /\ DOMAIN <<>> = {}
  BY <1>1 DEF Init
<1>5. LockInv /\ Numbered /\ OpenInv /\ BlocksUnbroken
  BY <1>3, <1>4 DEF LockInv, Numbered, OpenInv, BlocksUnbroken, Owner
<1>6. \A t \in Threads : LineBegins(t, Len(handed) + 1)
  BY <1>4 DEF LineBegins
<1>7. LinesWhole
  BY <1>3, <1>4 DEF LinesWhole
<1>8. \A t \in Threads : Shaped(t) /\ Counted(t)
  BY <1>3, <1>4, <1>6 DEF Shaped, Counted
<1>9. QED BY <1>2, <1>5, <1>7, <1>8 DEF IInv

LEMMA Inductive == IInv /\ [Next]_vars => IInv'
<1>1. SUFFICES ASSUME IInv, [Next]_vars PROVE IInv'
  OBVIOUS
<1>2. CASE UNCHANGED vars
  <2>1. UNCHANGED <<pc, todo, buf, good, held, manual, block, max_name, seen, stream, disk,
                    asked, handed>>
    BY <1>2 DEF vars
  <2>2. TypeOK' /\ LockInv' /\ Numbered'
    BY <1>1, <2>1 DEF IInv, TypeOK, LockInv, Owner, Inside, Numbered
  <2>c. BlocksUnbroken'
    BY <1>1, <2>1 DEF IInv, BlocksUnbroken
  <2>a. OpenInv'
    BY <1>1, <2>1 DEF IInv, OpenInv, Open, Owner, Inside
  <2>b. LinesWhole'
    BY <1>1, <2>1 DEF IInv, LinesWhole, LineBegins
  <2>3. \A t \in Threads : Shaped(t)' /\ Counted(t)'
    BY <1>1, <2>1, Unmoved DEF IInv
  <2>4. QED BY <2>2, <2>a, <2>b, <2>c, <2>3 DEF IInv
<1>3. ASSUME NEW t \in Threads, Call(t) PROVE IInv'
  BY <1>1, <1>3, LockKeeps, UnlockKeeps, InsertKeeps DEF Call
<1>4. ASSUME NEW t \in Threads, Step(t) PROVE IInv'
  BY <1>1, <1>4, ReturnKeeps, KeepTailKeeps, EndLineKeeps, PutKeeps, BeginLoadKeeps,
     BeginStoreKeeps, BeginPadKeeps, FlushKeeps DEF Step
<1>5. QED BY <1>1, <1>2, <1>3, <1>4 DEF Next

\* The inductive invariant holds in every state of every run.
THEOREM Invariant == Spec => []IInv
BY Starts, Inductive, PTL DEF Spec

\* The lines of one text, or of one manual lock, reach std::clog with nothing of another
\* thread between them, for any number of threads, texts and insertions (logger.cpp's use
\* of log_mutex in xsputn and of GetLogMutex by its callers).
THEOREM BlocksNeverBroken == Spec => []BlocksUnbroken
<1>1. IInv => BlocksUnbroken
  BY DEF IInv
<1>2. QED BY <1>1, Invariant, PTL

\* Each line reaches std::clog with its header first and its end last, and no complete
\* line of a text is lost or repeated by a stream that has not gone bad.
THEOREM LinesAlwaysIntact == Spec => []LinesIntact
<1>1. IInv => LinesIntact
  <2>1. SUFFICES ASSUME IInv PROVE LinesKept
    BY DEF IInv, LinesIntact
  <2>2. SUFFICES ASSUME NEW t \in Threads, pc[t] = "idle", good[t], NEW e \in DOMAIN asked[t]
                 PROVE  Cardinality(Ended(t, e)) = asked[t][e].text.lines
    BY DEF LinesKept
  <2>3. Cardinality(Ended(t, e)) + ToCome(t, e) = asked[t][e].text.lines /\ ToCome(t, e) = 0
    BY <2>1, <2>2 DEF IInv, Counted, ToCome, Inside
  <2>4. Cardinality(Ended(t, e)) \in Nat
    <3>1. Len(handed) \in Nat /\ DOMAIN handed = 1..Len(handed)
      BY <2>1, HandedTyped DEF IInv
    <3>2. Ended(t, e) \subseteq 1..Len(handed)
      BY <3>1 DEF Ended
    <3>3. IsFiniteSet(1..Len(handed))
      BY <3>1, FS_Interval
    <3>4. QED BY <3>2, <3>3, FS_Subset, FS_CardinalityType
  <2>5. QED BY <2>3, <2>4
<1>2. QED BY <1>1, Invariant, PTL

-----------------------------------------------------------------------------
(* The log levels.                                                          *)

LevelTokens == Seq([name : Names \cup {NoName}, level : Levels \cup {BadLevel}])
Entry == [first : [name : Names, block : Nat], level : Levels]
LevelsTyped ==
  /\ tokens = Idle \/ tokens \in LevelTokens
  /\ strings \in Seq(Names) /\ global_level \in Levels
  /\ level_map \in Seq(Entry)
  /\ strings_block \in Nat /\ latest \in [Names -> Levels \cup {NoName}]

\* The first entry of a name has the level that was last given for it.
Entries(n) == {p \in DOMAIN level_map : level_map[p].first.name = n}
Recorded(n) ==
  /\ latest[n] = NoName => Entries(n) = {}
  /\ latest[n] # NoName => Entries(n) # {} /\ level_map[FirstOf(Entries(n))].level = latest[n]

\* GetLogLevel() goes by the whole table, unless an option was refused half way.
Published == tokens = Idle /\ outcome # "exit_false" =>
               levels.block = map_block /\ levels.size = Len(level_map)

LevelsInv == LevelsTyped /\ Published /\ \A n \in Names \ Short : Recorded(n)

\* FirstOf() finds the least place, of any that there are.
LEMMA LeastExists ==
  ASSUME NEW S, S \subseteq Nat, S # {}
  PROVE  FirstOf(S) \in S /\ \A q \in S : FirstOf(S) <= q
<1>1. PICK m \in S : \A y \in S : ~(<<y, m>> \in OpToRel(<, Nat))
  BY NatLessThanWellFounded, WFMin, Zenon
<1>2. \A y \in S : ~(y < m)
  BY <1>1 DEF OpToRel
<1>3. \A y \in S : m <= y
  BY <1>2
<1> QED BY <1>3 DEF FirstOf

\* The text of a long name stays where it is, and is read.
LEMMA LongReads ==
  ASSUME LevelsTyped, NEW n \in Names \ Short, NEW readable
  PROVE  Reads(readable, n) = Entries(n)
BY DEF Reads, InPlace, Entries

\* The places of the table.
LEMMA MapTyped ==
  ASSUME LevelsTyped
  PROVE  /\ Len(level_map) \in Nat /\ DOMAIN level_map = 1..Len(level_map)
         /\ \A p \in DOMAIN level_map : level_map[p] \in Entry
         /\ \A n : Entries(n) \subseteq 1..Len(level_map) /\ Entries(n) \subseteq Nat
BY DEF LevelsTyped, Entries

\* The token that is done next.
LEMMA HeadTyped ==
  ASSUME LevelsTyped, tokens \notin {Idle, <<>>}
  PROVE  /\ Head(tokens).name \in Names \cup {NoName}
         /\ Head(tokens).level \in Levels \cup {BadLevel}
         /\ Tail(tokens) \in LevelTokens
<1>1. tokens \in LevelTokens
  BY DEF LevelsTyped
<1> DEFINE T == [name : Names \cup {NoName}, level : Levels \cup {BadLevel}]
<1>4. tokens \in Seq(T) /\ tokens # <<>>
  BY <1>1 DEF LevelTokens
<1> HIDE DEF T
<1>2. Head(tokens) \in T
  BY <1>4
<1>5. Tail(tokens) \in Seq(T)
  BY <1>4
<1> USE DEF T
<1>3. Tail(tokens) \in LevelTokens
  BY <1>5 DEF LevelTokens
<1> QED BY <1>2, <1>3

\* A callback that runs is not idle.
LEMMA NeverIdle == Idle \notin LevelTokens
BY LogLevelsAssumption DEF LevelTokens

\* An entry is changed, and the others are as they were.
LEMMA Replaced ==
  ASSUME NEW S, NEW s \in Seq(S), NEW p \in 1..Len(s), NEW e \in S
  PROVE  /\ [s EXCEPT ![p] = e] \in Seq(S) /\ Len([s EXCEPT ![p] = e]) = Len(s)
         /\ \A q \in 1..Len(s) : [s EXCEPT ![p] = e][q] = IF q = p THEN e ELSE s[q]
OBVIOUS

\* The level for all changes no entry.
LEMMA SetGlobalRecords ==
  ASSUME LevelsInv, SetGlobal
  PROVE  LevelsInv'
<1>1. LevelsTyped'
  BY HeadTyped DEF LevelsInv, LevelsTyped, SetGlobal, stringVars
<1>2. Published'
  BY HeadTyped, NeverIdle DEF LevelsInv, Published, SetGlobal
<1>3. \A n \in Names \ Short : Recorded(n)'
  BY DEF LevelsInv, SetGlobal, Recorded, Entries
<1> QED BY <1>1, <1>2, <1>3 DEF LevelsInv

\* The first entry of a long name gets the level; an entry of another name keeps its own.
LEMMA SetKnownRecords ==
  ASSUME LevelsInv, SetKnown
  PROVE  LevelsInv'
<1> DEFINE n == Head(tokens).name
           l == Head(tokens).level
<1>1. /\ LevelsTyped /\ tokens \notin {Idle, <<>>} /\ n # NoName /\ l # BadLevel
      /\ n \in Names /\ l \in Levels /\ Tail(tokens) \in LevelTokens
  BY HeadTyped DEF LevelsInv, SetKnown
<1>2. PICK readable \in SUBSET Gone :
        /\ Reads(readable, n) # {}
        /\ level_map' = [level_map EXCEPT ![FirstOf(Reads(readable, n))].level = l]
  BY DEF SetKnown
<1>3. PICK f : f = FirstOf(Reads(readable, n))
  OBVIOUS
<1>4. f \in 1..Len(level_map) /\ level_map[f].first.name = n /\ f \in Reads(readable, n)
  <2>1. Reads(readable, n) \subseteq Entries(n)
    BY DEF Reads, Entries
  <2>2. f \in Reads(readable, n)
    BY <1>1, <1>2, <1>3, <2>1, MapTyped, LeastExists
  <2> QED BY <1>1, <2>1, <2>2, MapTyped DEF Entries
<1>5. /\ level_map' \in Seq(Entry) /\ Len(level_map') = Len(level_map)
      /\ \A p \in 1..Len(level_map) : /\ level_map'[p].first = level_map[p].first
                                      /\ level_map'[p].level = IF p = f THEN l ELSE level_map[p].level
  <2>1. level_map \in Seq(Entry) /\ level_map[f] \in Entry
    BY <1>1, <1>4, MapTyped DEF LevelsTyped
  <2>2. level_map' = [level_map EXCEPT ![f] = [level_map[f] EXCEPT !.level = l]]
    BY <1>2, <1>3
  <2>3. \A p \in 1..Len(level_map) : level_map[p] \in Entry
    BY <2>1
  <2>4. [level_map[f] EXCEPT !.level = l] \in Entry
    <3>1. level_map[f] \in [first : [name : Names, block : Nat], level : Levels] /\ l \in Levels
      BY <1>1, <2>1 DEF Entry
    <3> QED BY <3>1 DEF Entry
  <2>5. /\ level_map' \in Seq(Entry) /\ Len(level_map') = Len(level_map)
        /\ \A p \in 1..Len(level_map) :
             level_map'[p] = IF p = f THEN [level_map[f] EXCEPT !.level = l] ELSE level_map[p]
    BY <1>4, <2>1, <2>2, <2>4, Replaced
  <2> QED BY <1>1, <2>1, <2>5 DEF Entry
<1>6. latest' = [latest EXCEPT ![n] = l] /\ tokens' = Tail(tokens)
      /\ UNCHANGED <<global_level, stringVars, map_block, levels>>
  BY DEF SetKnown
<1>7. LevelsTyped'
  BY <1>1, <1>5, <1>6 DEF LevelsTyped, stringVars
<1>8. Published'
  BY <1>1, <1>6, NeverIdle DEF Published
<1>9. ASSUME NEW m \in Names \ Short PROVE Recorded(m)'
  <2>1. Entries(m)' = Entries(m)
    BY <1>1, <1>5, <1>7, MapTyped DEF Entries, LevelsTyped
  <2>2. Recorded(m)
    BY DEF LevelsInv
  <2>3. CASE m = n
    <3>1. f = FirstOf(Entries(m)) /\ Entries(m) # {}
      BY <1>1, <1>2, <1>3, <2>3, LongReads
    <3>2. latest'[m] = l /\ l # NoName
      BY <1>1, <1>6, <2>3, LogLevelsAssumption DEF LevelsTyped
    <3> QED BY <1>4, <1>5, <2>1, <3>1, <3>2 DEF Recorded
  <2>4. CASE m # n
    <3>1. latest'[m] = latest[m]
      BY <1>1, <1>6, <2>4 DEF LevelsTyped
    <3>2. ASSUME Entries(m) # {}
          PROVE  level_map'[FirstOf(Entries(m))].level = level_map[FirstOf(Entries(m))].level
      <4>1. FirstOf(Entries(m)) \in Entries(m)
        BY <1>1, <3>2, MapTyped, LeastExists
      <4>2. FirstOf(Entries(m)) # f /\ FirstOf(Entries(m)) \in 1..Len(level_map)
        BY <1>1, <1>4, <2>4, <4>1, MapTyped DEF Entries
      <4> QED BY <1>5, <4>2
    <3> QED BY <2>1, <2>2, <3>1, <3>2 DEF Recorded
  <2> QED BY <2>3, <2>4
<1> QED BY <1>7, <1>8, <1>9 DEF LevelsInv

\* A long name without an entry gets its first; the entries before stay.
LEMMA SetNewRecords ==
  ASSUME LevelsInv, SetNew
  PROVE  LevelsInv'
<1> DEFINE n == Head(tokens).name
           l == Head(tokens).level
           e == [first |-> [name |-> n, block |-> strings_block'], level |-> l]
<1>1. /\ LevelsTyped /\ tokens \notin {Idle, <<>>} /\ n # NoName /\ l # BadLevel
      /\ n \in Names /\ l \in Levels /\ Tail(tokens) \in LevelTokens
  BY HeadTyped DEF LevelsInv, SetNew
<1>2. PICK readable \in SUBSET Gone : Reads(readable, n) = {}
  BY DEF SetNew
<1>3. /\ strings' = Append(strings, n) /\ strings_block' \in {strings_block, strings_block + 1}
      /\ level_map' = Append(level_map, e) /\ latest' = [latest EXCEPT ![n] = l]
      /\ tokens' = Tail(tokens) /\ UNCHANGED <<global_level, levels>>
  BY DEF SetNew
<1>4. strings_block' \in Nat
  BY <1>1, <1>3 DEF LevelsTyped
<1>5. e \in Entry
  BY <1>1, <1>4 DEF Entry
<1> HIDE DEF e
<1>6. /\ level_map' \in Seq(Entry) /\ Len(level_map') = Len(level_map) + 1
      /\ \A p \in 1..Len(level_map) : level_map'[p] = level_map[p]
      /\ level_map'[Len(level_map) + 1] = e
  BY <1>1, <1>3, <1>5 DEF LevelsTyped
<1>7. LevelsTyped'
  BY <1>1, <1>3, <1>4, <1>6 DEF LevelsTyped
<1>8. Published'
  BY <1>1, <1>3, NeverIdle DEF Published
<1>9. ASSUME NEW m \in Names \ Short PROVE Recorded(m)'
  <2>0. e.first.name = n /\ e.level = l
    BY DEF e
  <2>1. Len(level_map) \in Nat /\ DOMAIN level_map = 1..Len(level_map)
        /\ DOMAIN level_map' = 1..(Len(level_map) + 1)
    BY <1>1, <1>6, MapTyped
  <2>2. Recorded(m)
    BY DEF LevelsInv
  <2>3. CASE m = n
    <3>1. Entries(m) = {}
      BY <1>1, <1>2, <2>3, LongReads
    <3>2. Entries(m)' = {Len(level_map) + 1}
      BY <1>6, <2>0, <2>1, <2>3, <3>1 DEF Entries
    <3>3. FirstOf({Len(level_map) + 1}) = Len(level_map) + 1
      BY <2>1, LeastExists
    <3>4. latest'[m] = l /\ l # NoName
      BY <1>1, <1>3, <2>3, LogLevelsAssumption DEF LevelsTyped
    <3> QED BY <1>6, <2>0, <3>2, <3>3, <3>4 DEF Recorded
  <2>4. CASE m # n
    <3>1. latest'[m] = latest[m]
      BY <1>1, <1>3, <2>4 DEF LevelsTyped
    <3>2. Entries(m)' = Entries(m)
      BY <1>6, <2>0, <2>1, <2>4 DEF Entries
    <3>3. ASSUME Entries(m) # {}
          PROVE  level_map'[FirstOf(Entries(m))] = level_map[FirstOf(Entries(m))]
      <4>1. FirstOf(Entries(m)) \in Entries(m)
        BY <1>1, <3>3, MapTyped, LeastExists
      <4> QED BY <1>1, <1>6, <4>1, MapTyped
    <3> QED BY <2>2, <3>1, <3>2, <3>3 DEF Recorded
  <2> QED BY <2>3, <2>4
<1> QED BY <1>7, <1>8, <1>9 DEF LevelsInv

\* At the end of the callback GetLogLevel() has the whole table.
LEMMA PublishRecords ==
  ASSUME LevelsInv, Publish, levels' = [block |-> map_block, size |-> Len(level_map)]
  PROVE  LevelsInv'
<1>1. LevelsTyped'
  BY DEF LevelsInv, LevelsTyped, Publish, stringVars
<1>2. Published'
  BY DEF Published, Publish
<1>3. \A n \in Names \ Short : Recorded(n)'
  BY DEF LevelsInv, Publish, Recorded, Entries
<1> QED BY <1>1, <1>2, <1>3 DEF LevelsInv

\* What the parser does with its own variables.
LEMMA OthersRecord ==
  ASSUME LevelsInv,
         UNCHANGED <<global_level, stringVars, level_map, map_block, levels, latest>>,
         \/ tokens' = tokens /\ (outcome = "exit_false" => outcome' = "exit_false")
         \/ tokens' = tokens /\ tokens # Idle
         \/ tokens' \in LevelTokens
         \/ tokens' = Idle /\ outcome' = "exit_false"
  PROVE  LevelsInv'
<1>1. LevelsTyped'
  BY DEF LevelsInv, LevelsTyped, stringVars
<1>2. Published'
  BY NeverIdle DEF LevelsInv, Published
<1>3. \A n \in Names \ Short : Recorded(n)'
  BY DEF LevelsInv, Recorded, Entries
<1> QED BY <1>1, <1>2, <1>3 DEF LevelsInv

\* So GetLogLevel() answers what the first entry of a long name says.
LEMMA RecordedAnswers == LevelsInv => LongNamesAnswered
<1> SUFFICES ASSUME LevelsInv, tokens = Idle, outcome # "exit_false", NEW n \in Names \ Short
             PROVE  GetLogLevel(n) = {IF latest[n] = NoName THEN global_level ELSE latest[n]}
  BY DEF LongNamesAnswered, Answered
<1>1. LevelsTyped /\ Recorded(n) /\ levels.block = map_block /\ levels.size = Len(level_map)
  BY DEF LevelsInv, Published
<1>2. \A readable : Reads(readable, n) \cap (1..levels.size) = Entries(n)
  BY <1>1, LongReads, MapTyped
<1>3. GetLogLevel(n) = {IF Entries(n) = {} THEN global_level ELSE level_map[FirstOf(Entries(n))].level
                          : readable \in SUBSET Gone}
  BY <1>1, <1>2 DEF GetLogLevel
<1>4. GetLogLevel(n) = {IF Entries(n) = {} THEN global_level ELSE level_map[FirstOf(Entries(n))].level}
  BY <1>3
<1> QED BY <1>1, <1>4 DEF Recorded

-----------------------------------------------------------------------------
(* Names in order.                                                           *)

\* OptCmp(), of names without =.
Less(a, b) ==
  \E k \in 1..Len(b) : (\A j \in 1..(k - 1) : At(a, j) = At(b, j)) /\ At(a, k) < At(b, k)

Text == Seq(Letters)

\* A sequence is one of any set with more in it.
LEMMA WiderSeq ==
  ASSUME NEW S, NEW T, S \subseteq T, NEW s \in Seq(S)
  PROVE  s \in Seq(T)
<1>1. Len(s) \in Nat /\ s \in [1..Len(s) -> S]
  OBVIOUS
<1>2. s \in [1..Len(s) -> T]
  BY <1>1
<1> QED BY <1>1, <1>2

\* A text has a letter at each place up to its length, and 0 behind.
LEMMA AtIs ==
  ASSUME NEW s \in Text
  PROVE  /\ Len(s) \in Nat
         /\ \A k \in Nat \ {0} : At(s, k) \in Nat /\ At(s, k) # Equals /\ (At(s, k) = 0 <=> k > Len(s))
         /\ \A k \in 1..Len(s) : At(s, k) = s[k] /\ s[k] \in Letters
<1>1. /\ Len(s) \in Nat /\ \A k \in 1..Len(s) : s[k] \in Letters
  BY DEF Text
<1>2. Letters \subseteq Nat \ {0} /\ Equals \in Nat \ ({0} \cup Letters)
  BY OptionAssumption
<1>3. ASSUME NEW k \in Nat \ {0}
      PROVE  At(s, k) \in Nat /\ At(s, k) # Equals /\ (At(s, k) = 0 <=> k > Len(s))
  <2>1. CASE k <= Len(s)
    <3>1. k \in 1..Len(s) /\ At(s, k) = s[k] /\ ~(k > Len(s))
      BY <1>1, <2>1 DEF At
    <3>2. s[k] \in Nat \ {0} /\ s[k] # Equals
      BY <1>1, <1>2, <3>1
    <3> QED BY <3>1, <3>2
  <2>2. CASE ~(k <= Len(s))
    BY <1>1, <1>2, <2>2 DEF At
  <2> QED BY <2>1, <2>2
<1>4. \A k \in 1..Len(s) : At(s, k) = s[k]
  BY <1>1 DEF At
<1> QED BY <1>1, <1>3, <1>4

\* What follows an = is not compared.
LEMMA CmpIsLess ==
  ASSUME NEW a \in Text, NEW b \in Text, NEW eq \in BOOLEAN
  PROVE  OptCmp(a, b \o (IF eq THEN <<Equals>> ELSE <<>>)) <=> Less(a, b)
<1> DEFINE c == b \o (IF eq THEN <<Equals>> ELSE <<>>)
<1>1. /\ Len(b) \in Nat /\ Len(c) = Len(b) + (IF eq THEN 1 ELSE 0)
      /\ \A k \in 1..Len(b) : c[k] = b[k]
      /\ eq => c[Len(b) + 1] = Equals
  <2>1. b \in Seq(Nat)
    <3>1. Letters \subseteq Nat
      BY OptionAssumption
    <3> QED BY <3>1, WiderSeq DEF Text
  <2>2. <<Equals>> \in Seq(Nat) /\ <<>> \in Seq(Nat)
    BY OptionAssumption
  <2>3. CASE eq
    BY <2>1, <2>2, <2>3
  <2>4. CASE ~eq
    BY <2>1, <2>2, <2>4
  <2> QED BY <2>3, <2>4
<1> HIDE DEF c
<1>2. ASSUME NEW k \in 1..Len(c)
      PROVE  /\ (\A j \in 1..(k - 1) : At(a, j) = c[j]) /\ At(a, k) < c[k] /\ Equals \notin {At(a, k), c[k]}
             => k \in 1..Len(b) /\ (\A j \in 1..(k - 1) : At(a, j) = At(b, j)) /\ At(a, k) < At(b, k)
  <2> SUFFICES ASSUME \A j \in 1..(k - 1) : At(a, j) = c[j], At(a, k) < c[k], Equals \notin {At(a, k), c[k]}
               PROVE  k \in 1..Len(b) /\ (\A j \in 1..(k - 1) : At(a, j) = At(b, j)) /\ At(a, k) < At(b, k)
    OBVIOUS
  <2>1. k \in 1..Len(b)
    BY <1>1
  <2>2. \A j \in 1..k : c[j] = At(b, j)
    <3>1. \A j \in 1..k : j \in 1..Len(b)
      BY <1>1, <2>1
    <3> QED BY <1>1, <3>1, AtIs
  <2> QED BY <1>1, <2>1, <2>2
<1>3. ASSUME NEW k \in 1..Len(b), \A j \in 1..(k - 1) : At(a, j) = At(b, j), At(a, k) < At(b, k)
      PROVE  /\ k \in 1..Len(c) /\ (\A j \in 1..(k - 1) : At(a, j) = c[j])
             /\ At(a, k) < c[k] /\ Equals \notin {At(a, k), c[k]}
  <2>1. k \in 1..Len(c) /\ k \in Nat \ {0}
    BY <1>1
  <2>2. \A j \in 1..k : c[j] = At(b, j)
    <3>1. \A j \in 1..k : j \in 1..Len(b)
      BY <1>1
    <3> QED BY <1>1, <3>1, AtIs
  <2>3. At(a, k) # Equals /\ At(b, k) # Equals
    BY <2>1, AtIs
  <2> QED BY <1>1, <1>3, <2>1, <2>2, <2>3
<1>4. OptCmp(a, c) => Less(a, b)
  BY <1>2 DEF OptCmp, Less
<1>5. Less(a, b) => OptCmp(a, c)
  BY <1>3 DEF OptCmp, Less
<1> QED BY <1>4, <1>5 DEF c

\* The order of the names.
LEMMA CmpNames ==
  ASSUME NEW a \in Text, NEW b \in Text
  PROVE  OptCmp(a, b) <=> Less(a, b)
<1>1. b \o (IF FALSE THEN <<Equals>> ELSE <<>>) = b
  BY DEF Text
<1> QED BY <1>1, CmpIsLess

\* The first place at which two texts differ.
LEMMA FirstDifference ==
  ASSUME NEW a \in Text, NEW b \in Text, NEW m \in Nat \ {0}, At(a, m) # At(b, m)
  PROVE  \E k \in 1..m : At(a, k) # At(b, k) /\ \A j \in 1..(k - 1) : At(a, j) = At(b, j)
<1> DEFINE S == {k \in 1..m : At(a, k) # At(b, k)}
<1>1. S \subseteq Nat /\ S # {}
  BY m \in 1..m
<1>2. PICK k : k \in S /\ \A q \in S : k <= q
  BY <1>1, LeastExists
<1>3. \A j \in 1..(k - 1) : j \in 1..m /\ ~(k <= j)
  BY <1>2
<1> QED BY <1>2, <1>3

\* Two texts that agree at all places are one.
LEMMA TextsDiffer ==
  ASSUME NEW a \in Text, NEW b \in Text, \A k \in Nat \ {0} : At(a, k) = At(b, k)
  PROVE  a = b
<1>1. Len(a) \in Nat /\ Len(b) \in Nat
  BY AtIs
<1>2. ~(Len(a) < Len(b))
  <2> SUFFICES ASSUME Len(a) < Len(b) PROVE FALSE
    OBVIOUS
  <2>1. Len(b) \in Nat \ {0}
    BY <1>1
  <2> QED BY <1>1, <2>1, AtIs
<1>3. ~(Len(b) < Len(a))
  <2> SUFFICES ASSUME Len(b) < Len(a) PROVE FALSE
    OBVIOUS
  <2>1. Len(a) \in Nat \ {0}
    BY <1>1
  <2> QED BY <1>1, <2>1, AtIs
<1>4. Len(a) = Len(b)
  BY <1>1, <1>2, <1>3
<1>5. \A k \in 1..Len(a) : a[k] = b[k]
  <2> TAKE k \in 1..Len(a)
  <2>1. k \in Nat \ {0} /\ k \in 1..Len(b)
    BY <1>1, <1>4
  <2> QED BY <2>1, AtIs
<1>6. a \in Seq(Letters) /\ b \in Seq(Letters)
  BY DEF Text
<1> QED BY <1>4, <1>5, <1>6

\* A place at which two texts differ, with none before, orders them.
LEMMA LessByPlace ==
  ASSUME NEW a \in Text, NEW b \in Text, NEW k \in Nat \ {0},
         \A j \in 1..(k - 1) : At(a, j) = At(b, j), At(a, k) < At(b, k)
  PROVE  Less(a, b)
<1>1. k \in 1..Len(b)
  <2>1. Len(b) \in Nat /\ At(a, k) \in Nat /\ At(b, k) \in Nat /\ At(b, k) # 0
    BY AtIs
  <2>2. ~(k > Len(b))
    BY <2>1, AtIs
  <2> QED BY <2>1, <2>2
<1> QED BY <1>1 DEF Less

\* And there is one if they are ordered.
LEMMA LessMeans ==
  ASSUME NEW a \in Text, NEW b \in Text, Less(a, b)
  PROVE  \E k \in Nat \ {0} : k <= Len(b) /\ (\A j \in 1..(k - 1) : At(a, j) = At(b, j)) /\ At(a, k) < At(b, k)
<1>1. Len(b) \in Nat
  BY AtIs
<1> QED BY <1>1 DEF Less

\* The order is strict,
LEMMA LessIrreflexive ==
  ASSUME NEW a \in Text
  PROVE  ~Less(a, a)
<1> SUFFICES ASSUME Less(a, a) PROVE FALSE
  OBVIOUS
<1>1. PICK k \in Nat \ {0} : At(a, k) < At(a, k)
  BY LessMeans
<1> QED BY <1>1, AtIs

\* transitive,
LEMMA LessTransitive ==
  ASSUME NEW a \in Text, NEW b \in Text, NEW c \in Text, Less(a, b), Less(b, c)
  PROVE  Less(a, c)
<1>1. PICK k \in Nat \ {0} : (\A j \in 1..(k - 1) : At(a, j) = At(b, j)) /\ At(a, k) < At(b, k)
  BY LessMeans
<1>2. PICK m \in Nat \ {0} : (\A j \in 1..(m - 1) : At(b, j) = At(c, j)) /\ At(b, m) < At(c, m)
  BY LessMeans
<1>3. /\ At(a, k) \in Nat /\ At(b, k) \in Nat /\ At(c, k) \in Nat
      /\ At(a, m) \in Nat /\ At(b, m) \in Nat /\ At(c, m) \in Nat
  BY AtIs
<1>4. CASE k < m
  <2>1. k \in 1..(m - 1) /\ \A j \in 1..(k - 1) : j \in 1..(m - 1)
    BY <1>4
  <2>2. At(a, k) < At(c, k) /\ \A j \in 1..(k - 1) : At(a, j) = At(c, j)
    BY <1>1, <1>2, <2>1
  <2> QED BY <2>2, LessByPlace
<1>5. CASE k = m
  <2>1. At(a, k) < At(c, k)
    BY <1>1, <1>2, <1>3, <1>5
  <2>2. \A j \in 1..(k - 1) : At(a, j) = At(c, j)
    BY <1>1, <1>2, <1>5
  <2> QED BY <2>1, <2>2, LessByPlace
<1>6. CASE m < k
  <2>1. m \in 1..(k - 1) /\ \A j \in 1..(m - 1) : j \in 1..(k - 1)
    BY <1>6
  <2>2. At(a, m) < At(c, m) /\ \A j \in 1..(m - 1) : At(a, j) = At(c, j)
    BY <1>1, <1>2, <2>1
  <2> QED BY <2>2, LessByPlace
<1> QED BY <1>4, <1>5, <1>6

\* and total.
LEMMA LessTotal ==
  ASSUME NEW a \in Text, NEW b \in Text, a # b
  PROVE  Less(a, b) \/ Less(b, a)
<1>1. PICK m \in Nat \ {0} : At(a, m) # At(b, m)
  BY TextsDiffer
<1>2. PICK k \in 1..m : At(a, k) # At(b, k) /\ \A j \in 1..(k - 1) : At(a, j) = At(b, j)
  BY <1>1, FirstDifference
<1>3. k \in Nat \ {0} /\ At(a, k) \in Nat /\ At(b, k) \in Nat
  BY AtIs
<1>4. At(a, k) < At(b, k) \/ At(b, k) < At(a, k)
  BY <1>2, <1>3
<1> QED BY <1>2, <1>3, <1>4, LessByPlace

-----------------------------------------------------------------------------
(* What begins with a text comes behind it, together.                        *)

\* A text begins with w if it agrees with w as far as that goes.
LEMMA PrefixIs ==
  ASSUME NEW w \in Text, NEW a \in Text
  PROVE  IsPrefix(w, a) <=> \A k \in 1..Len(w) : At(a, k) = At(w, k)
<1>1. Len(w) \in Nat /\ Len(a) \in Nat /\ w \in Seq(Letters) /\ a \in Seq(Letters)
  BY DEF Text
<1>2. SubSeq(w, 1, Len(w)) = w
  BY <1>1
<1>3. ASSUME IsPrefix(w, a), NEW k \in 1..Len(w) PROVE At(a, k) = At(w, k)
  <2>1. Len(w) <= Len(a) /\ SubSeq(a, 1, Len(w)) = w
    BY <1>2, <1>3 DEF IsPrefix
  <2>2. k \in 1..Len(a) /\ SubSeq(a, 1, Len(w))[k] = a[k]
    BY <1>1, <2>1
  <2> QED BY <2>1, <2>2, AtIs
<1>4. ASSUME \A k \in 1..Len(w) : At(a, k) = At(w, k) PROVE IsPrefix(w, a)
  <2>1. Len(w) <= Len(a)
    <3> SUFFICES ASSUME Len(a) < Len(w) PROVE FALSE
      BY <1>1
    <3>1. Len(w) \in Nat \ {0} /\ Len(w) \in 1..Len(w)
      BY <1>1
    <3> QED BY <1>1, <1>4, <3>1, AtIs
  <2>2. \A k \in 1..Len(w) : k \in 1..Len(a) /\ a[k] = w[k]
    BY <1>1, <1>4, <2>1, AtIs
  <2>3. SubSeq(a, 1, Len(w)) = w
    <3> DEFINE t == SubSeq(a, 1, Len(w))
    <3>1. t \in Seq(Letters) /\ Len(t) = Len(w) /\ \A k \in 1..Len(w) : t[k] = a[k]
      BY <1>1, <2>1
    <3> HIDE DEF t
    <3>2. \A k \in 1..Len(w) : t[k] = w[k]
      BY <2>2, <3>1
    <3>3. t = w
      BY <1>1, <3>1, <3>2
    <3> QED BY <3>3 DEF t
  <2> QED BY <1>2, <2>1, <2>3 DEF IsPrefix
<1> QED BY <1>3, <1>4

\* What begins with w is not less than w.
LEMMA PrefixNotLess ==
  ASSUME NEW w \in Text, NEW a \in Text, IsPrefix(w, a)
  PROVE  ~Less(a, w)
<1> SUFFICES ASSUME Less(a, w) PROVE FALSE
  OBVIOUS
<1>1. PICK k \in Nat \ {0} : k <= Len(w) /\ At(a, k) < At(w, k)
  BY LessMeans
<1>2. Len(w) \in Nat /\ At(w, k) \in Nat
  BY AtIs
<1>3. k \in 1..Len(w)
  BY <1>1, <1>2
<1> QED BY <1>1, <1>2, <1>3, PrefixIs

\* Between w and what begins with it is only what begins with it.
LEMMA PrefixBetween ==
  ASSUME NEW w \in Text, NEW a \in Text, NEW b \in Text, IsPrefix(w, b), Less(a, b), ~Less(a, w)
  PROVE  IsPrefix(w, a)
<1> SUFFICES ASSUME NEW m \in 1..Len(w), At(a, m) # At(w, m) PROVE FALSE
  BY PrefixIs
<1>0. Len(w) \in Nat /\ m \in Nat \ {0}
  BY AtIs
<1>1. PICK k \in 1..m : At(a, k) # At(w, k) /\ \A j \in 1..(k - 1) : At(a, j) = At(w, j)
  BY <1>0, FirstDifference
<1>2. k \in Nat \ {0} /\ k \in 1..Len(w) /\ At(a, k) \in Nat /\ At(w, k) \in Nat
  BY <1>0, AtIs
<1>3. ~(At(a, k) < At(w, k))
  BY <1>1, <1>2, LessByPlace
<1>4. At(b, k) < At(a, k)
  BY <1>1, <1>2, <1>3, PrefixIs
<1>5. \A j \in 1..(k - 1) : At(b, j) = At(a, j)
  <2>1. \A j \in 1..(k - 1) : j \in 1..Len(w)
    BY <1>0, <1>2
  <2> QED BY <1>1, <2>1, PrefixIs
<1>6. Less(b, a)
  BY <1>2, <1>4, <1>5, LessByPlace
<1> QED BY <1>6, LessTransitive, LessIrreflexive

\* The text itself is the first of those.
LEMMA ExactFirst ==
  ASSUME NEW w \in Text, NEW a \in Text, IsPrefix(w, a), Len(a) = Len(w)
  PROVE  a = w
<1>1. a \in Seq(Letters) /\ w \in Seq(Letters)
  BY DEF Text
<1>2. SubSeq(w, 1, Len(w)) = w /\ SubSeq(a, 1, Len(a)) = a
  BY <1>1
<1> QED BY <1>2 DEF IsPrefix

-----------------------------------------------------------------------------
(* The table of names.                                                      *)

\* The options before o, of S.
Before(S, o) == {p \in S : OptCmp(Name[p], Name[o])}
Named(S) ==
  /\ S \subseteq Options
  /\ \A o, p \in S : Name[o] = Name[p] => o = p

\* Any options are finitely many, and have names.
LEMMA NamesAre ==
  ASSUME NEW S, S \subseteq Options
  PROVE  IsFiniteSet(S) /\ Cardinality(S) \in Nat /\ \A o \in S : Name[o] \in Text /\ Len(Name[o]) \in Nat
<1>1. IsFiniteSet(S)
  BY OptionAssumption, FS_Subset
<1>2. \A o \in S : Name[o] \in Text
  BY OptionAssumption DEF Text
<1> QED BY <1>1, <1>2, FS_CardinalityType, AtIs

\* Of options with different names, more come before the one that is greater.
LEMMA BeforeOrders ==
  ASSUME NEW S, Named(S), NEW o \in S, NEW p \in S
  PROVE  /\ o # p => OptCmp(Name[o], Name[p]) \/ OptCmp(Name[p], Name[o])
         /\ OptCmp(Name[o], Name[p]) =>
              Cardinality(Before(S, o)) < Cardinality(Before(S, p))
         /\ Cardinality(Before(S, o)) \in 0..(Cardinality(S) - 1)
<1>1. S \subseteq Options /\ IsFiniteSet(S) /\ Cardinality(S) \in Nat /\ \A q \in S : Name[q] \in Text
  BY NamesAre DEF Named
<1>2. /\ IsFiniteSet(Before(S, o)) /\ Before(S, o) \subseteq S
      /\ Cardinality(Before(S, o)) \in Nat
  <2>1. Before(S, o) \in SUBSET S
    BY DEF Before
  <2> QED BY <1>1, <2>1, FS_Subset, FS_CardinalityType
<1>3. o \notin Before(S, o)
  BY <1>1, CmpNames, LessIrreflexive DEF Before
<1>4. /\ IsFiniteSet(Before(S, o) \cup {o})
      /\ Cardinality(Before(S, o) \cup {o}) = Cardinality(Before(S, o)) + 1
  BY <1>2, <1>3, FS_AddElement
<1>5. Cardinality(Before(S, o)) + 1 <= Cardinality(S)
  <2>1. Before(S, o) \cup {o} \in SUBSET S
    BY <1>2
  <2> QED BY <1>1, <1>4, <2>1, FS_Subset
<1>6. ASSUME OptCmp(Name[o], Name[p])
      PROVE  Cardinality(Before(S, o)) < Cardinality(Before(S, p))
  <2>1. Before(S, o) \cup {o} \in SUBSET Before(S, p)
    <3>1. o \in Before(S, p)
      BY <1>6 DEF Before
    <3>2. ASSUME NEW q \in Before(S, o) PROVE q \in Before(S, p)
      <4>1. q \in S /\ Less(Name[q], Name[o]) /\ Less(Name[o], Name[p])
        BY <1>1, <1>6, <3>2, CmpNames DEF Before
      <4>2. Less(Name[q], Name[p])
        BY <1>1, <4>1, LessTransitive
      <4> QED BY <1>1, <4>1, <4>2, CmpNames DEF Before
    <3> QED BY <3>1, <3>2
  <2>2. Before(S, p) \in SUBSET S
    BY DEF Before
  <2>3. IsFiniteSet(Before(S, p)) /\ Cardinality(Before(S, p)) \in Nat
    BY <1>1, <2>2, FS_Subset, FS_CardinalityType
  <2>4. Cardinality(Before(S, o) \cup {o}) <= Cardinality(Before(S, p))
    BY <2>1, <2>3, FS_Subset
  <2> QED BY <1>2, <1>4, <2>3, <2>4
<1>7. o # p => OptCmp(Name[o], Name[p]) \/ OptCmp(Name[p], Name[o])
  BY <1>1, CmpNames, LessTotal DEF Named
<1> QED BY <1>1, <1>2, <1>5, <1>6, <1>7

\* Each option has a place of its own.
LEMMA PlacesTaken ==
  ASSUME NEW S, Named(S), NEW k \in 1..Cardinality(S)
  PROVE  \E o \in S : Cardinality(Before(S, o)) + 1 = k
<1> DEFINE n == Cardinality(S)
           f == [o \in S |-> Cardinality(Before(S, o)) + 1]
<1>1. IsFiniteSet(S) /\ n \in Nat
  BY NamesAre DEF Named
<1>2. \A o \in S : Cardinality(Before(S, o)) \in Nat /\ Cardinality(Before(S, o)) + 1 \in 1..n
  BY <1>1, BeforeOrders
<1>3. f \in Injection(S, 1..n)
  <2>1. f \in [S -> 1..n]
    BY <1>2
  <2>2. ASSUME NEW o \in S, NEW p \in S, f[o] = f[p] PROVE o = p
    <3>1. Cardinality(Before(S, o)) = Cardinality(Before(S, p))
      BY <1>2, <2>2
    <3>2. ~OptCmp(Name[o], Name[p]) /\ ~OptCmp(Name[p], Name[o])
      BY <1>2, <3>1, BeforeOrders
    <3> QED BY <3>2, BeforeOrders
  <2> QED BY <2>1, <2>2 DEF Injection, IsInjective
<1>4. IsFiniteSet(1..n) /\ Cardinality(1..n) = n
  BY <1>1, FS_Interval
<1>5. f \in Surjection(S, 1..n)
  BY <1>1, <1>3, <1>4, FS_Injection
<1>6. PICK o \in S : f[o] = k
  BY <1>5 DEF Surjection
<1> QED BY <1>6

\* The table has all of the options once, in the order of their names.
LEMMA TableIs ==
  ASSUME NEW s, Named(OptionsOf(s))
  PROVE  /\ LongTable(s) \in Seq(OptionsOf(s))
         /\ Len(LongTable(s)) = Cardinality(OptionsOf(s))
         /\ \A o \in OptionsOf(s) : \E k \in 1..Len(LongTable(s)) : LongTable(s)[k] = o
         /\ \A k, m \in 1..Len(LongTable(s)) :
              k < m => Less(Name[LongTable(s)[k]], Name[LongTable(s)[m]])
<1> PICK S : S = OptionsOf(s)
  OBVIOUS
<1> DEFINE n == Cardinality(S)
           t == LongTable(s)
           c(o) == Cardinality(Before(S, o)) + 1
<1>1. IsFiniteSet(S) /\ n \in Nat /\ Named(S) /\ \A o \in S : Name[o] \in Text
  BY NamesAre DEF Named
<1>2. t = [k \in 1..n |-> CHOOSE o \in S : c(o) = k]
  BY DEF LongTable, Before
<1> HIDE DEF t
<1>3. ASSUME NEW k \in 1..n PROVE t[k] \in S /\ c(t[k]) = k
  <2>1. \E o \in S : c(o) = k
    BY <1>1, PlacesTaken
  <2>2. t[k] = CHOOSE o \in S : c(o) = k
    BY <1>2
  <2> QED BY <2>1, <2>2
<1>4. DOMAIN t = 1..n
  BY <1>2
<1>5. t \in Seq(S) /\ Len(t) = n
  <2>1. t = [k \in 1..n |-> t[k]]
    BY <1>2
  <2>2. t \in [1..n -> S]
    BY <1>3, <1>4, <2>1
  <2> QED BY <1>1, <1>4, <2>2
<1>6. ASSUME NEW o \in S, NEW p \in S, c(o) = c(p) PROVE o = p
  <2>1. Cardinality(Before(S, o)) \in Nat /\ Cardinality(Before(S, p)) \in Nat
    BY <1>1, BeforeOrders
  <2>2. ~(Cardinality(Before(S, o)) < Cardinality(Before(S, p)))
        /\ ~(Cardinality(Before(S, p)) < Cardinality(Before(S, o)))
    BY <1>6, <2>1
  <2> QED BY <1>1, <2>2, BeforeOrders
<1>7. ASSUME NEW o \in S PROVE \E k \in 1..n : t[k] = o
  <2>1. c(o) \in 1..n
    BY <1>1, BeforeOrders
  <2> HIDE DEF c
  <2>2. t[c(o)] \in S /\ c(t[c(o)]) = c(o)
    BY <1>3, <2>1
  <2> QED BY <1>6, <2>1, <2>2
<1>8. ASSUME NEW k \in 1..n, NEW m \in 1..n, k < m PROVE Less(Name[t[k]], Name[t[m]])
  <2>1. t[k] \in S /\ t[m] \in S /\ c(t[k]) = k /\ c(t[m]) = m
    BY <1>3
  <2>2. Cardinality(Before(S, t[k])) \in Nat /\ Cardinality(Before(S, t[m])) \in Nat
    BY <1>1, <2>1, BeforeOrders
  <2>3. ~(Cardinality(Before(S, t[m])) < Cardinality(Before(S, t[k])))
    BY <1>8, <2>1, <2>2
  <2>4. t[k] # t[m]
    BY <1>8, <2>1
  <2>5. OptCmp(Name[t[k]], Name[t[m]])
    BY <1>1, <2>1, <2>3, <2>4, BeforeOrders
  <2> QED BY <1>1, <2>1, <2>5, CmpNames
<1> QED BY <1>5, <1>7, <1>8 DEF t

\* A part of 1..n that reaches down is 1..c, c how many it has.
LEMMA PartBelow ==
  ASSUME NEW n \in Nat, NEW P, P \subseteq 1..n, \A k \in P : \A m \in 1..n : m < k => m \in P
  PROVE  Cardinality(P) \in 0..n /\ P = 1..Cardinality(P)
<1>0. Cardinality(1..n) = n
  BY FS_Interval
<1>1. CASE P = 1..n
  BY <1>0, <1>1
<1>2. CASE P # 1..n
  <2> DEFINE Q == (1..n) \ P
  <2>1. Q \subseteq Nat /\ Q # {}
    <3>1. Q # {}
      BY <1>2, Zenon
    <3> QED BY <3>1
  <2>2. PICK q : q \in Q /\ \A m \in Q : q <= m
    BY <2>1, LeastExists
  <2>3. q \in 1..n /\ q - 1 \in 0..n
    BY <2>2
  <2>4. P = 1..(q - 1)
    <3>1. ASSUME NEW m \in P PROVE m \in 1..(q - 1)
      <4>1. m \in 1..n /\ q \notin P
        BY <2>2, <3>1
      <4>2. ~(q < m) /\ q # m
        BY <2>3, <4>1
      <4> QED BY <2>3, <4>1, <4>2
    <3>2. ASSUME NEW m \in 1..(q - 1) PROVE m \in P
      <4>1. m \in 1..n /\ ~(q <= m)
        BY <2>3
      <4> QED BY <2>2, <4>1
    <3> QED BY <3>1, <3>2
  <2>5. Cardinality(1..(q - 1)) = q - 1
    BY <2>3, FS_Interval
  <2> QED BY <2>3, <2>4, <2>5
<1> QED BY <1>1, <1>2

-----------------------------------------------------------------------------
(* lower_bound() in the table.                                              *)

Sorted(t) ==
  /\ t \in Seq(Options)
  /\ \A k, m \in 1..Len(t) : k < m => Less(Name[t[k]], Name[t[m]])

\* What begins with w, in the table t.
Candidates(t, w) == {p \in 1..Len(t) : IsPrefix(w, Name[t[p]])}
\* What is less than w.
Passed(t, w) == {p \in 1..Len(t) : Less(Name[t[p]], w)}

\* What is less than w is the beginning of the table; what begins with w is what follows.
LEMMA PassedIs ==
  ASSUME NEW t, Sorted(t), NEW w \in Text
  PROVE  LET c == Cardinality(Passed(t, w)) IN
         /\ c \in 0..Len(t) /\ Passed(t, w) = 1..c
         /\ \A p \in Candidates(t, w) : c + 1 <= p
         /\ \A p \in Candidates(t, w) : \A q \in (c + 1)..p : q \in Candidates(t, w)
         /\ \A p \in 1..Len(t) : Name[t[p]] = w => p = c + 1
<1> DEFINE c == Cardinality(Passed(t, w))
<1>1. /\ Len(t) \in Nat /\ \A p \in 1..Len(t) : t[p] \in Options /\ Name[t[p]] \in Text
  <2>1. t \in Seq(Options)
    BY DEF Sorted
  <2>2. \A p \in 1..Len(t) : t[p] \in Options
    BY <2>1
  <2> QED BY <2>1, <2>2, NamesAre
<1>2. Passed(t, w) \subseteq 1..Len(t)
  BY DEF Passed
<1>3. ASSUME NEW k \in Passed(t, w), NEW m \in 1..Len(t), m < k PROVE m \in Passed(t, w)
  <2>1. Less(Name[t[m]], Name[t[k]]) /\ Less(Name[t[k]], w) /\ k \in 1..Len(t)
    BY <1>3 DEF Passed, Sorted
  <2>2. Less(Name[t[m]], w)
    BY <1>1, <2>1, LessTransitive
  <2> QED BY <2>2 DEF Passed
<1>4. c \in 0..Len(t) /\ Passed(t, w) = 1..c
  BY <1>1, <1>2, <1>3, PartBelow
<1> HIDE DEF c
<1>5. ASSUME NEW p \in Candidates(t, w) PROVE c + 1 <= p
  <2>1. p \in 1..Len(t) /\ ~Less(Name[t[p]], w)
    BY <1>1, PrefixNotLess DEF Candidates
  <2>2. p \notin 1..c
    BY <1>4, <2>1 DEF Passed
  <2> QED BY <1>1, <1>4, <2>1, <2>2
<1>6. ASSUME NEW p \in Candidates(t, w), NEW q \in (c + 1)..p PROVE q \in Candidates(t, w)
  <2>1. p \in 1..Len(t) /\ q \in 1..Len(t) /\ q \notin 1..c /\ (q = p \/ q < p)
    BY <1>1, <1>4 DEF Candidates
  <2>2. ~Less(Name[t[q]], w)
    BY <1>4, <2>1 DEF Passed
  <2>3. CASE q < p
    <3>1. Less(Name[t[q]], Name[t[p]])
      BY <2>1, <2>3 DEF Sorted
    <3> QED BY <1>1, <2>1, <2>2, <3>1, PrefixBetween DEF Candidates
  <2> QED BY <1>6, <2>1, <2>3
<1>7. ASSUME NEW p \in 1..Len(t), Name[t[p]] = w PROVE p = c + 1
  <2>1. IsPrefix(w, Name[t[p]])
    BY <1>7, PrefixIs
  <2>2. c + 1 <= p
    BY <1>5, <2>1 DEF Candidates
  <2>3. ~(c + 1 < p)
    <3> SUFFICES ASSUME c + 1 < p PROVE FALSE
      OBVIOUS
    <3>1. c + 1 \in 1..Len(t) /\ c + 1 \notin 1..c
      BY <1>1, <1>4
    <3>2. Less(Name[t[c + 1]], w)
      BY <1>7, <3>1 DEF Sorted
    <3> QED BY <1>4, <3>1, <3>2 DEF Passed
  <2> QED BY <1>1, <1>4, <2>2, <2>3
<1> QED BY <1>4, <1>5, <1>6, <1>7 DEF c

\* The table that an option is looked up in is that of all groups.
TableInv ==
  /\ groups \in Seq(Groups) /\ groups # <<>> /\ old_len \in 0..Len(groups) /\ enabled \subseteq Options
  /\ outcome = "running" /\ ~Stale =>
       long_opts = LongTable(groups) /\ Named(OptionsOf(groups))

\* Without duplicates the names differ.
LEMMA TableTyped ==
  ASSUME NEW s, enabled \subseteq Options, ~Duplicates(s)
  PROVE  Named(OptionsOf(s))
BY DEF Duplicates, Named, OptionsOf

\* The word that is looked up.
LEMMA WordIs ==
  ASSUME InLong, Word \in Words
  PROVE  Word.text \in Text /\ Word.eq \in BOOLEAN
BY OptionAssumption DEF Text

\* LowerBound passes what is less than the word, and Fits() sees what begins with it.
LEMMA Found ==
  ASSUME TableInv, InLong, Word \in Words
  PROVE  LET t == long_opts
             w == Word.text
             c == Cardinality(Passed(t, w))
         IN  /\ Sorted(t) /\ LowerBound = c + 1 /\ c \in 0..Len(t)
             /\ \A p : Fits(p) <=> p \in Candidates(t, w)
             /\ {t[p] : p \in Candidates(t, w)} = {o \in OptionsOf(groups) : IsPrefix(w, Name[o])}
<1> DEFINE t == long_opts
           w == Word.text
           S == OptionsOf(groups)
<1>1. t = LongTable(groups) /\ Named(S) /\ S \subseteq Options
  BY DEF InLong, AtWord, TableInv, Named
<1>2. /\ t \in Seq(S) /\ \A o \in S : \E k \in 1..Len(t) : t[k] = o
      /\ \A k, m \in 1..Len(t) : k < m => Less(Name[t[k]], Name[t[m]])
  BY <1>1, TableIs
<1>3. Sorted(t)
  BY <1>1, <1>2, WiderSeq DEF Sorted
<1>4. w \in Text /\ Word.eq \in BOOLEAN
  BY WordIs
<1>5. Len(t) \in Nat /\ DOMAIN t = 1..Len(t) /\ \A p \in 1..Len(t) : t[p] \in S /\ Name[t[p]] \in Text
  <2> HIDE DEF S, t
  <2>1. Len(t) \in Nat /\ DOMAIN t = 1..Len(t) /\ \A p \in 1..Len(t) : t[p] \in S
    BY <1>2
  <2> QED BY <1>1, <2>1, NamesAre
<1>6. \A p \in 1..Len(t) : OptCmp(Name[t[p]], Key) <=> Less(Name[t[p]], w)
  BY <1>4, <1>5, CmpIsLess DEF Key
<1>7. LowerBound = Cardinality(Passed(t, w)) + 1
  <2>1. {p \in DOMAIN t : OptCmp(Name[t[p]], Key)} = Passed(t, w)
    BY <1>5, <1>6 DEF Passed
  <2> QED BY <2>1 DEF LowerBound
<1>8. Cardinality(Passed(t, w)) \in 0..Len(t)
  BY <1>3, <1>4, PassedIs
<1>9. \A p : Fits(p) <=> p \in Candidates(t, w)
  BY <1>5 DEF Fits, Candidates
<1>10. {t[p] : p \in Candidates(t, w)} = {o \in S : IsPrefix(w, Name[o])}
  BY <1>2, <1>5 DEF Candidates
<1> QED BY <1>3, <1>7, <1>8, <1>9, <1>10

\* The option that is called is the one that is meant.
LEMMA MeantFound ==
  ASSUME TableInv, InLong, Word \in Words
  PROVE  /\ Fits(LowerBound) /\ ~Ambiguous(LowerBound) => Meant(Word) = {long_opts[LowerBound]}
         /\ ~(Fits(LowerBound) /\ ~Ambiguous(LowerBound)) => Meant(Word) = {}
<1> DEFINE t == long_opts
           w == Word.text
           c == Cardinality(Passed(t, w))
           C == Candidates(t, w)
           S == {o \in OptionsOf(groups) : IsPrefix(w, Name[o])}
           E == {o \in S : Name[o] = w}
<1>1. /\ Sorted(t) /\ LowerBound = c + 1 /\ c \in 0..Len(t) /\ w \in Text
      /\ \A p : Fits(p) <=> p \in C
      /\ {t[p] : p \in C} = S
  BY Found, WordIs
<1>2. /\ \A p \in C : c + 1 <= p
      /\ \A p \in C : \A q \in (c + 1)..p : q \in C
      /\ \A p \in 1..Len(t) : Name[t[p]] = w => p = c + 1
      /\ C \subseteq 1..Len(t) /\ Len(t) \in Nat
  BY <1>1, PassedIs DEF Candidates, Sorted
<1>3. Meant(Word) = IF E # {} THEN E ELSE IF Cardinality(S) = 1 THEN S ELSE {}
  BY DEF Meant
<1>4. ASSUME NEW p \in 1..Len(t), NEW q \in 1..Len(t), p < q PROVE t[p] # t[q]
  <2>1. Less(Name[t[p]], Name[t[q]]) /\ t[p] \in Options /\ t[q] \in Options
    BY <1>1, <1>4 DEF Sorted
  <2>2. Name[t[p]] \in Text
    BY <2>1, NamesAre
  <2> QED BY <2>1, <2>2, LessIrreflexive
<1> HIDE DEF c, C, S, w, t
<1>5. CASE c + 1 \notin C
  <2>1. C = {}
    <3> SUFFICES ASSUME NEW p \in C PROVE FALSE
      OBVIOUS
    <3>1. c + 1 \in (c + 1)..p
      BY <1>1, <1>2
    <3> QED BY <1>2, <1>5, <3>1
  <2>2. S = {} /\ Cardinality(S) = 0
    BY <1>1, <2>1, FS_EmptySet
  <2> QED BY <1>1, <1>3, <1>5, <2>2
<1>6. CASE c + 1 \in C
  <2>1. t[c + 1] \in S /\ c + 1 \in 1..Len(t)
    BY <1>1, <1>2, <1>6
  <2>2. E \subseteq {t[c + 1]}
    <3> SUFFICES ASSUME NEW o \in E PROVE o = t[c + 1]
      OBVIOUS
    <3>1. PICK p \in C : o = t[p]
      BY <1>1
    <3> QED BY <1>2, <3>1
  <2>3. E # {} <=> Name[t[c + 1]] = w
    BY <2>1, <2>2
  <2>4. Name[t[c + 1]] \in Text /\ IsPrefix(w, Name[t[c + 1]])
    <3>1. t[c + 1] \in Options
      BY <1>1, <2>1 DEF Sorted
    <3> QED BY <1>6, <3>1, NamesAre DEF C, Candidates, t, w
  <2>5. Len(Name[t[c + 1]]) = Len(w) <=> Name[t[c + 1]] = w
    BY <1>1, <2>4, ExactFirst
  <2>6. CASE Name[t[c + 1]] = w
    <3>1. Meant(Word) = {t[c + 1]}
      BY <1>3, <2>2, <2>3, <2>6
    <3>2. ~Ambiguous(c + 1)
      BY <2>6 DEF Ambiguous, t, w
    <3> QED BY <1>1, <1>6, <3>1, <3>2 DEF t
  <2>7. CASE Name[t[c + 1]] # w /\ c + 2 \in C
    <3>1. Ambiguous(c + 1)
      <4>1. Fits((c + 1) + 1)
        BY <1>1, <2>7
      <4> QED BY <2>5, <2>7, <4>1 DEF Ambiguous, t, w
    <3>2. t[c + 1] \in S /\ t[c + 2] \in S /\ t[c + 1] # t[c + 2]
      BY <1>1, <1>2, <1>4, <2>1, <2>7
    <3>3. Cardinality(S) # 1
      <4> SUFFICES ASSUME Cardinality(S) = 1 PROVE FALSE
        OBVIOUS
      <4>1. IsFiniteSet(S)
        <5>1. S \subseteq Options
          BY DEF S, OptionsOf, TableInv
        <5> QED BY <5>1, NamesAre
      <4>2. PICK x : S = {x}
        BY <4>1, FS_Singleton
      <4> QED BY <3>2, <4>2
    <3> QED BY <1>1, <1>3, <2>3, <2>7, <3>1, <3>3
  <2>8. CASE Name[t[c + 1]] # w /\ c + 2 \notin C
    <3>1. ~Ambiguous(c + 1)
      <4>1. ~Fits((c + 1) + 1)
        BY <1>1, <2>8
      <4> QED BY <4>1 DEF Ambiguous
    <3>2. C = {c + 1}
      <4> SUFFICES ASSUME NEW p \in C, p # c + 1 PROVE FALSE
        BY <1>6
      <4>1. c + 2 \in (c + 1)..p
        BY <1>1, <1>2
      <4> QED BY <1>2, <2>8, <4>1
    <3>3. S = {t[c + 1]}
      BY <1>1, <3>2
    <3>4. Cardinality(S) = 1
      BY <3>3, FS_Singleton
    <3>5. Meant(Word) = {t[c + 1]}
      BY <1>3, <2>3, <2>8, <3>3, <3>4
    <3> QED BY <1>1, <1>6, <3>1, <3>5 DEF t
  <2> QED BY <2>6, <2>7, <2>8
<1> QED BY <1>5, <1>6

-----------------------------------------------------------------------------
(* Types.                                                                   *)

Count == Cardinality(DOMAIN words)

\* The arguments stay as they were given.
InputTyped ==
  /\ Count \in 0..(MaxWords + 1) /\ DOMAIN words = 0..(Count - 1)
  /\ first \in {0, 1} /\ first <= Count
  /\ \A k \in first..(Count - 1) : words[k] \in Words

Outcomes == {"running", "done", "exit_true", "exit_false", "logic_error"}
Calls == [opt : Options, word : Nat, args : Seq(Ends)]
ParserTyped ==
  /\ argc \in Slots /\ endp \in Slots /\ i \in Slots /\ ptr \in Nat
  /\ argv \in [0..Count -> DOMAIN words \cup {None}]
  /\ short_opts \in [Letters -> Options \cup {None}] /\ long_opts \in Seq(Options)
  /\ non_arg_fun \in {None, "fail", "take"} /\ was_command \in BOOLEAN
  /\ outcome \in Outcomes
  /\ calls \in Seq(Calls) /\ taken \in Seq(Nat)

\* What Run_() goes by as long as it goes on.
Running ==
  outcome = "running" =>
    /\ argc = Count /\ first <= endp /\ endp <= i /\ i <= argc
    /\ \A j \in i..(argc - 1) : argv[j] = j
    /\ ptr > 0 => /\ i < argc /\ words[i].kind = "short" /\ ptr < Len(words[i].text)
                  /\ \E k \in DOMAIN calls : calls[k].word = i

TypesInv == InputTyped /\ ParserTyped /\ TableInv /\ Running

\* The type invariant of the runs.
LEMMA TypesImply == TypesInv /\ LevelsTyped => ParserTypeOK
<1> SUFFICES ASSUME TypesInv, LevelsTyped PROVE ParserTypeOK
  OBVIOUS
<1>1. DOMAIN argv = 0..Cardinality(DOMAIN words) /\ \A j \in DOMAIN argv : argv[j] \in DOMAIN words \cup {None}
  BY DEF TypesInv, ParserTyped, Count
<1>2. /\ argc \in Slots /\ endp \in Slots /\ i \in Slots /\ ptr \in Nat
      /\ short_opts \in [Letters -> Options \cup {None}] /\ long_opts \in Seq(Options)
      /\ non_arg_fun \in {None, "fail", "take"} /\ was_command \in BOOLEAN
      /\ outcome \in {"running", "done", "exit_true", "exit_false", "logic_error"}
      /\ calls \in Seq([opt : Options, word : Nat, args : Seq(Ends)]) /\ taken \in Seq(Nat)
  BY DEF TypesInv, ParserTyped, Outcomes, Calls
<1>3. groups \in Seq(Groups) /\ old_len \in 0..Len(groups)
  BY DEF TypesInv, TableInv
<1>4. /\ tokens = Idle \/ tokens \in Seq([name : Names \cup {NoName}, level : Levels \cup {BadLevel}])
      /\ strings \in Seq(Names) /\ global_level \in Levels
      /\ level_map \in Seq([first : [name : Names, block : Nat], level : Levels])
  BY DEF LevelsTyped, LevelTokens, Entry
<1> QED BY <1>1, <1>2, <1>3, <1>4 DEF ParserTypeOK

\* Where the parser is.
LEMMA Within ==
  ASSUME TypesInv, outcome = "running"
  PROVE  /\ argc = Count /\ argc \in Nat /\ i \in Nat /\ endp \in Nat /\ first \in Nat /\ ptr \in Nat
         /\ first <= endp /\ endp <= i /\ i <= argc /\ argc <= MaxWords + 1 /\ MaxWords \in Nat
         /\ \A j \in i..(argc - 1) : argv[j] = j
         /\ \A k \in first..(argc - 1) : words[k] \in Words
         /\ i < argc => argv[i] = i /\ Word = words[i] /\ Word \in Words
<1>1. /\ argc = Count /\ argc \in Nat /\ i \in Nat /\ endp \in Nat /\ first \in Nat /\ ptr \in Nat
      /\ first <= endp /\ endp <= i /\ i <= argc /\ argc <= MaxWords + 1 /\ MaxWords \in Nat
  BY OptionAssumption DEF TypesInv, Running, ParserTyped, InputTyped, Slots
<1>2. /\ \A j \in i..(argc - 1) : argv[j] = j
      /\ \A k \in first..(argc - 1) : words[k] \in Words
  BY <1>1 DEF TypesInv, Running, InputTyped
<1>3. ASSUME i < argc PROVE argv[i] = i /\ Word = words[i] /\ Word \in Words
  <2>1. i \in i..(argc - 1) /\ i \in first..(argc - 1)
    BY <1>1, <1>3
  <2> QED BY <1>2, <2>1 DEF Word
<1> QED BY <1>1, <1>2, <1>3

\* The table is good as long as the groups are the same.
LEMMA TableKept ==
  ASSUME TableInv, outcome' = "running" => outcome = "running",
         UNCHANGED <<groups, enabled, old_len, long_opts>>
  PROVE  TableInv'
<1>1. OptionsOf(groups)' = OptionsOf(groups) /\ LongTable(groups)' = LongTable(groups) /\ Stale' = Stale
  BY DEF OptionsOf, LongTable, Stale
<1>2. Named(OptionsOf(groups))' <=> Named(OptionsOf(groups))
  BY <1>1 DEF Named
<1> QED BY <1>1, <1>2 DEF TableInv

\* A refusal changes nothing else.
LEMMA RefuseTyped ==
  ASSUME TypesInv, Refuse, outcome = "running"
  PROVE  TypesInv'
<1>1. InputTyped'
  BY DEF TypesInv, Refuse, InputTyped, input, Count
<1>2. ParserTyped'
  BY DEF TypesInv, Refuse, ParserTyped, Outcomes, Calls, input, program, tables, Count, Slots, Ends
<1>3. TableInv'
  BY TableKept DEF TypesInv, Refuse, input, program, tables
<1>4. Running'
  BY DEF Refuse, Running
<1> QED BY <1>1, <1>2, <1>3, <1>4 DEF TypesInv

-----------------------------------------------------------------------------
(* The arguments of an option.                                              *)

\* The end of a word is a pair.
LEMMA EndsAre ==
  ASSUME NEW k \in Nat, NEW m \in Nat
  PROVE  <<k, m>> \in Ends /\ <<k, m>>[1] = k /\ <<k, m>>[2] = m
BY DEF Ends

\* A value in the word itself, if it has one, then the words behind it.
Attachment(att) == att = <<>> \/ \E m \in Nat \ {0} : att = <<<<i, m>>>>

\* What an option is called with are the words behind it, as many as it wants.
LEMMA ArgsAre ==
  ASSUME TypesInv, outcome = "running", i < argc, NEW o \in Options, NEW att, Attachment(att),
         ArgsCount[o] # 0 \/ att = <<>>, Enough(o, att)
  PROVE  LET w == Wanted(o, att)
             args == Args(o, att)
         IN  /\ w \in Nat /\ i + w < argc
             /\ args \in Seq(Ends) /\ Len(args) = Len(att) + w
             /\ ArgsCount[o] \in {AllArgs, Len(args)}
             /\ Whole(args) = (i + 1)..(i + w) /\ Cardinality(Whole(args)) = w
             /\ \A k \in DOMAIN args : args[k][1] \in i..(i + w)
<1> DEFINE w == Wanted(o, att)
           args == Args(o, att)
           rest == [j \in 1..w |-> <<argv[i + j], 0>>]
<1>1. /\ argc \in Nat /\ i \in Nat /\ i < argc /\ \A j \in i..(argc - 1) : argv[j] = j
  BY Within
<1>2. /\ att \in Seq(Ends) /\ Len(att) \in {0, 1} /\ (Len(att) = 0 <=> att = <<>>)
      /\ \A k \in 1..Len(att) : att[k][1] = i /\ att[k][2] # 0
  <2>1. CASE att = <<>>
    BY <2>1
  <2>2. CASE \E m \in Nat \ {0} : att = <<<<i, m>>>>
    <3>1. PICK m \in Nat \ {0} : att = <<<<i, m>>>>
      BY <2>2
    <3>2. <<i, m>> \in Ends /\ <<i, m>>[1] = i /\ <<i, m>>[2] = m
      BY <1>1, EndsAre
    <3>3. PICK e \in Ends : e = <<i, m>>
      BY <3>2
    <3>4. att = <<e>>
      BY <3>1, <3>3
    <3>5. e[1] = i /\ e[2] # 0
      BY <3>2, <3>3
    <3> HIDE DEF Ends
    <3> QED BY <3>4, <3>5
  <2> QED BY <2>1, <2>2 DEF Attachment
<1>3. w \in Nat /\ (ArgsCount[o] # AllArgs => Len(att) + w = ArgsCount[o])
  <2>1. CASE ArgsCount[o] = AllArgs
    BY <1>1, <2>1 DEF Wanted
  <2>2. CASE ArgsCount[o] # AllArgs
    <3>1. ArgsCount[o] \in Nat /\ w = ArgsCount[o] - Len(att)
      BY <2>2, OptionAssumption DEF Wanted
    <3>2. ArgsCount[o] >= Len(att)
      BY <1>2, <3>1
    <3> QED BY <1>2, <3>1, <3>2
  <2> QED BY <2>1, <2>2
<1>4. i + w < argc
  BY <1>1, <1>3 DEF Enough
<1>5. args = att \o rest
  BY DEF Args
<1> HIDE DEF w, args
<1>6. ASSUME NEW j \in 1..w PROVE rest[j] = <<i + j, 0>> /\ <<i + j, 0>> \in Ends
  <2>1. i + j \in i..(argc - 1) /\ i + j \in Nat
    BY <1>1, <1>3, <1>4
  <2> QED BY <1>1, <2>1, EndsAre
<1>7. rest \in Seq(Ends) /\ Len(rest) = w
  <2>1. rest \in [1..w -> Ends]
    BY <1>6
  <2> QED BY <1>3, <2>1
<1> HIDE DEF rest
<1>8. /\ args \in Seq(Ends) /\ Len(args) = Len(att) + w
      /\ \A k \in 1..Len(att) : args[k] = att[k]
      /\ \A j \in 1..w : args[Len(att) + j] = rest[j]
  BY <1>2, <1>3, <1>5, <1>7
<1>9. ASSUME NEW j \in 1..w
      PROVE  args[Len(att) + j][1] = i + j /\ args[Len(att) + j][2] = 0
  <2>1. i + j \in Nat
    BY <1>1, <1>3
  <2>2. args[Len(att) + j] = <<i + j, 0>>
    BY <1>6, <1>8
  <2>3. <<i + j, 0>>[1] = i + j /\ <<i + j, 0>>[2] = 0
    OBVIOUS
  <2> QED BY <2>2, <2>3
<1>10. \A k \in DOMAIN args : k \in 1..Len(att) \/ (k - Len(att) \in 1..w /\ k = Len(att) + (k - Len(att)))
  BY <1>2, <1>3, <1>8
<1>11. \A j \in 1..w : Len(att) + j \in DOMAIN args
  BY <1>2, <1>3, <1>8
<1>12. Whole(args) = (i + 1)..(i + w)
  <2>1. ASSUME NEW k \in DOMAIN args, args[k][2] = 0 PROVE args[k][1] \in (i + 1)..(i + w)
    <3>1. k \notin 1..Len(att)
      BY <1>2, <1>8, <2>1
    <3>2. PICK j \in 1..w : k = Len(att) + j
      BY <1>10, <3>1
    <3>3. args[k][1] = i + j
      BY <1>9, <3>2
    <3> QED BY <1>1, <1>3, <3>3
  <2>2. ASSUME NEW x \in (i + 1)..(i + w)
        PROVE  \E k \in DOMAIN args : args[k][2] = 0 /\ args[k][1] = x
    <3>1. x - i \in 1..w /\ i + (x - i) = x
      BY <1>1, <1>3
    <3> QED BY <1>9, <1>11, <3>1
  <2> QED BY <2>1, <2>2 DEF Whole
<1>13. Cardinality(Whole(args)) = w
  <2>1. Cardinality((i + 1)..(i + w)) = w
    BY <1>1, <1>3, FS_Interval
  <2> QED BY <1>12, <2>1
<1>14. ASSUME NEW k \in DOMAIN args PROVE args[k][1] \in i..(i + w)
  <2>1. CASE k \in 1..Len(att)
    BY <1>1, <1>2, <1>3, <1>8, <2>1
  <2>2. CASE k \notin 1..Len(att)
    <3>1. PICK j \in 1..w : k = Len(att) + j
      BY <1>10, <2>2
    <3>2. args[k][1] = i + j
      BY <1>9, <3>1
    <3> QED BY <1>1, <1>3, <3>2
  <2> QED BY <2>1, <2>2
<1>15. ArgsCount[o] \in {AllArgs, Len(args)}
  BY <1>3, <1>8
<1> QED BY <1>3, <1>4, <1>8, <1>12, <1>13, <1>14, <1>15 DEF w, args

\* What --log-level is called with are tokens.
LEMMA TokensTyped ==
  ASSUME NEW arg, words[arg[1]] \in Words
  PROVE  TokensOf(arg) \in LevelTokens
<1>1. Tokens[words[arg[1]]] \in LevelTokens /\ WholeTokens[words[arg[1]]] \in LevelTokens
  BY OptionAssumption DEF LevelTokens
<1> QED BY <1>1 DEF TokensOf

\* The call of an option.
LEMMA Invoked ==
  ASSUME TypesInv, outcome = "running", i < argc, NEW o \in Options, NEW args \in Seq(Ends),
         Invoke(o, args),
         Kind[o] = "log_level" => args # <<>> /\ words[args[1][1]] \in Words
  PROVE  /\ UNCHANGED <<input, argv, argc, endp, tables, taken>>
         /\ calls' = Append(calls, [opt |-> o, word |-> i, args |-> args])
         /\ outcome' \in {"running", "exit_true", "exit_false"}
         /\ was_command' \in BOOLEAN /\ non_arg_fun' \in {non_arg_fun, None}
         /\ groups' = groups \/ \E g \in Groups : groups' = Append(groups, g)
         /\ UNCHANGED <<global_level, stringVars, level_map, map_block, levels, latest>>
         /\ tokens' = tokens \/ tokens' \in LevelTokens
<1>1. argv[i] = i /\ was_command \in BOOLEAN
  BY Within DEF TypesInv, ParserTyped
<1>2. UNCHANGED <<input, argv, argc, endp, tables, taken>> /\ calls' = Append(calls, [opt |-> o, word |-> i, args |-> args])
  BY <1>1 DEF Invoke
<1>3. Kind[o] \in {"plain", "help", "command", "log_level"}
  BY OptionAssumption, Zenon
<1>4. CASE Kind[o] = "plain"
  <2>1. UNCHANGED <<program, outcome, levelVars>>
    BY <1>4 DEF Invoke
  <2> QED BY <1>1, <1>2, <2>1 DEF program, levelVars, stringVars
<1>5. CASE Kind[o] = "help"
  <2>1. outcome' = "exit_true" /\ UNCHANGED <<program, levelVars>>
    BY <1>5 DEF Invoke
  <2> QED BY <1>1, <1>2, <2>1 DEF program, levelVars, stringVars
<1>6. CASE Kind[o] = "log_level"
  <2>1. TokensOf(args[1]) \in LevelTokens
    BY <1>6, TokensTyped
  <2>2. Begin(TokensOf(args[1])) /\ UNCHANGED <<program, outcome>>
    BY <1>6 DEF Invoke
  <2> QED BY <1>1, <1>2, <2>1, <2>2 DEF Begin, program, stringVars
<1>7. CASE Kind[o] = "command"
  <2>1. IF ~MayTrigger THEN outcome' = "exit_false" /\ UNCHANGED <<program, levelVars>>
        ELSE /\ was_command' = TRUE
             /\ groups' = Append(groups, AddedGroup[o])
             /\ non_arg_fun' \in {non_arg_fun, None}
             /\ UNCHANGED <<outcome, levelVars>>
    BY <1>7 DEF Invoke
  <2>2. AddedGroup[o] \in Groups
    BY <1>7, OptionAssumption
  <2> QED BY <1>1, <1>2, <2>1, <2>2 DEF program, levelVars, stringVars
<1> QED BY <1>3, <1>4, <1>5, <1>6, <1>7

-----------------------------------------------------------------------------
(* Calls of options.                                                        *)

\* The table is stale when a command has added a group.
LEMMA TablesGrow ==
  ASSUME TableInv, outcome = "running", UNCHANGED <<enabled, old_len, long_opts>>,
         groups' = groups \/ \E g \in Groups : groups' = Append(groups, g)
  PROVE  TableInv'
<1>1. CASE groups' = groups
  BY <1>1, TableKept
<1>2. CASE \E g \in Groups : groups' = Append(groups, g)
  <2>1. PICK g \in Groups : groups' = Append(groups, g)
    BY <1>2
  <2>2. /\ groups \in Seq(Groups) /\ old_len \in 0..Len(groups) /\ Len(groups) \in Nat
        /\ enabled \subseteq Options
    BY DEF TableInv
  <2>3. groups' \in Seq(Groups) /\ Len(groups') = Len(groups) + 1 /\ groups' # <<>>
    BY <2>1, <2>2
  <2>4. Stale'
    BY <2>2, <2>3 DEF Stale
  <2>5. old_len' \in 0..Len(groups')
    BY <2>2, <2>3
  <2> QED BY <2>2, <2>3, <2>4, <2>5 DEF TableInv
<1> QED BY <1>1, <1>2

\* An option is called, and the parser goes on behind its arguments, or with the next letter.
Goes(o, att) ==
  /\ outcome = "running" /\ i < argc /\ Attachment(att)
  /\ ArgsCount[o] # 0 \/ att = <<>>
  /\ Enough(o, att) /\ Invoke(o, Args(o, att))
  /\ \/ ptr' = 0 /\ i' = i + 1 + Wanted(o, att)
     \/ /\ Wanted(o, att) = 0 /\ i' = i /\ ptr' = ptr + 1
        /\ Word.kind = "short" /\ ptr + 1 < Len(Word.text)

\* What a call does to what the parser goes by.
LEMMA GoesOn ==
  ASSUME TypesInv, NEW o \in Options, NEW att, Goes(o, att)
  PROVE  LET w == Wanted(o, att)
             args == Args(o, att)
             c == [opt |-> o, word |-> i, args |-> args]
         IN  /\ w \in Nat /\ i + w < argc /\ c \in Calls
             /\ calls' = Append(calls, c)
             /\ UNCHANGED <<input, argv, argc, endp, tables, taken>>
             /\ outcome' \in {"running", "exit_true", "exit_false"}
             /\ was_command' \in BOOLEAN /\ non_arg_fun' \in {non_arg_fun, None}
             /\ groups' = groups \/ \E g \in Groups : groups' = Append(groups, g)
             /\ UNCHANGED <<global_level, stringVars, level_map, map_block, levels, latest>>
             /\ tokens' = tokens \/ tokens' \in LevelTokens
<1> DEFINE w == Wanted(o, att)
           args == Args(o, att)
<1>1. outcome = "running" /\ i < argc /\ Invoke(o, args)
  BY DEF Goes
<1>2. /\ w \in Nat /\ i + w < argc /\ args \in Seq(Ends)
      /\ ArgsCount[o] \in {AllArgs, Len(args)}
      /\ \A k \in DOMAIN args : args[k][1] \in i..(i + w)
  BY ArgsAre DEF Goes
<1>3. /\ i \in Nat /\ argc \in Nat /\ first <= i /\ first \in Nat
      /\ \A k \in first..(argc - 1) : words[k] \in Words
  BY <1>1, Within
<1> HIDE DEF w, args
<1>4. ASSUME Kind[o] = "log_level" PROVE args # <<>> /\ words[args[1][1]] \in Words
  <2>1. Len(args) = 1
    <3>1. (Kind[o] = "log_level" => ArgsCount[o] = 1) /\ AllArgs \notin Nat
      BY OptionAssumption, Zenon
    <3>2. ArgsCount[o] = 1 /\ AllArgs # 1
      BY <1>4, <3>1
    <3> QED BY <1>2, <3>2
  <2>2. args # <<>> /\ 1 \in DOMAIN args
    <3>1. args \in Seq(Ends)
      BY <1>2
    <3>2. ASSUME NEW S, NEW s \in Seq(S), Len(s) = 1 PROVE s # <<>> /\ 1 \in DOMAIN s
      BY <3>2
    <3> QED BY <2>1, <3>1, <3>2, Zenon
  <2>3. args[1][1] \in first..(argc - 1)
    BY <1>2, <1>3, <2>2
  <2> QED BY <1>3, <2>2, <2>3
<1>5. /\ UNCHANGED <<input, argv, argc, endp, tables, taken>>
      /\ calls' = Append(calls, [opt |-> o, word |-> i, args |-> args])
      /\ outcome' \in {"running", "exit_true", "exit_false"}
      /\ was_command' \in BOOLEAN /\ non_arg_fun' \in {non_arg_fun, None}
      /\ groups' = groups \/ \E g \in Groups : groups' = Append(groups, g)
      /\ UNCHANGED <<global_level, stringVars, level_map, map_block, levels, latest>>
      /\ tokens' = tokens \/ tokens' \in LevelTokens
  BY <1>1, <1>2, <1>4, Invoked
<1>6. [opt |-> o, word |-> i, args |-> args] \in Calls
  BY <1>2, <1>3 DEF Calls
<1> QED BY <1>2, <1>5, <1>6 DEF w, args

\* A call keeps the types, and the parser inside of the arguments.
LEMMA GoesTyped ==
  ASSUME TypesInv, NEW o \in Options, NEW att, Goes(o, att)
  PROVE  TypesInv'
<1> DEFINE w == Wanted(o, att)
           c == [opt |-> o, word |-> i, args |-> Args(o, att)]
<1>1. /\ w \in Nat /\ i + w < argc /\ c \in Calls /\ calls' = Append(calls, c)
      /\ UNCHANGED <<input, argv, argc, endp, tables, taken>>
      /\ outcome' \in {"running", "exit_true", "exit_false"}
      /\ was_command' \in BOOLEAN /\ non_arg_fun' \in {non_arg_fun, None}
      /\ groups' = groups \/ \E g \in Groups : groups' = Append(groups, g)
  BY GoesOn
<1>2. \/ ptr' = 0 /\ i' = i + 1 + w
      \/ w = 0 /\ i' = i /\ ptr' = ptr + 1 /\ Word.kind = "short" /\ ptr + 1 < Len(Word.text)
  BY DEF Goes
<1>3. c.word = i
  OBVIOUS
<1>4. outcome = "running" /\ i < argc
  BY DEF Goes
<1>5. /\ argc = Count /\ argc \in Nat /\ i \in Nat /\ endp \in Nat /\ first \in Nat /\ ptr \in Nat
      /\ first <= endp /\ endp <= i /\ argc <= MaxWords + 1 /\ MaxWords \in Nat
      /\ \A j \in i..(argc - 1) : argv[j] = j
      /\ Word = words[i]
  BY <1>4, Within
<1> HIDE DEF w, c
<1>6. i' \in Nat /\ i <= i' /\ i' <= argc /\ ptr' \in Nat /\ (ptr' > 0 => i' = i)
  BY <1>1, <1>2, <1>5
<1>7. InputTyped'
  BY <1>1 DEF TypesInv, InputTyped, input, Count
<1>8. calls' \in Seq(Calls) /\ \E k \in DOMAIN calls' : calls'[k].word = i
  <2>1. calls \in Seq(Calls)
    BY DEF TypesInv, ParserTyped
  <2>2. calls' \in Seq(Calls) /\ Len(calls) + 1 \in DOMAIN calls' /\ calls'[Len(calls) + 1] = c
    BY <1>1, <2>1
  <2> QED BY <1>3, <2>2
<1>9. ParserTyped'
  <2>1. i' \in Slots /\ Slots' = Slots
    BY <1>5, <1>6 DEF Slots
  <2>2. Calls' = Calls /\ Count' = Count /\ DOMAIN words' = DOMAIN words /\ Outcomes' = Outcomes
    BY <1>1 DEF Calls, Ends, Count, input, Outcomes
  <2>3. /\ argc \in Slots /\ endp \in Slots /\ argv \in [0..Count -> DOMAIN words \cup {None}]
        /\ short_opts \in [Letters -> Options \cup {None}] /\ long_opts \in Seq(Options)
        /\ non_arg_fun \in {None, "fail", "take"} /\ taken \in Seq(Nat)
    BY DEF TypesInv, ParserTyped
  <2>4. UNCHANGED <<argv, argc, endp, taken, short_opts, long_opts>>
    BY <1>1 DEF tables
  <2>5. non_arg_fun' \in {None, "fail", "take"} /\ outcome' \in Outcomes
    BY <1>1, <2>3 DEF Outcomes
  <2> QED BY <1>1, <1>6, <1>8, <2>1, <2>2, <2>3, <2>4, <2>5 DEF ParserTyped
<1>10. TableInv'
  <2>1. TableInv /\ outcome = "running" /\ UNCHANGED <<enabled, old_len, long_opts>>
    BY <1>1, <1>4 DEF TypesInv, input, tables
  <2> QED BY <1>1, <2>1, TablesGrow
<1>11. Running'
  <2>1. UNCHANGED <<argv, argc, endp, words, first>> /\ Count' = Count
    BY <1>1 DEF input, Count
  <2>2. \A j \in i'..(argc - 1) : argv[j] = j
    BY <1>5, <1>6
  <2>3. ASSUME ptr' > 0
        PROVE  i' < argc /\ words[i'].kind = "short" /\ ptr' < Len(words[i'].text)
    BY <1>2, <1>4, <1>5, <2>3
  <2> QED BY <1>5, <1>6, <1>8, <2>1, <2>2, <2>3 DEF Running
<1> QED BY <1>7, <1>9, <1>10, <1>11 DEF TypesInv

-----------------------------------------------------------------------------
(* The steps of Run().                                                      *)

\* The letter that is looked up.
LEMMA ShortIs ==
  ASSUME TypesInv, InShort
  PROVE  /\ outcome = "running" /\ i < argc /\ argv[i] = i /\ Word \in Words
         /\ Letter \in Letters /\ short_opts[Letter] \in Options \cup {None}
         /\ Attachment(Attached) /\ (Attached # <<>> => ptr + 1 < Len(Word.text))
<1>1. outcome = "running" /\ i < argc /\ Word.kind = "short"
  BY DEF InShort
<1>2. /\ argv[i] = i /\ Word = words[i] /\ Word \in Words /\ ptr \in Nat /\ i \in Nat
      /\ (ptr > 0 => ptr < Len(words[i].text))
  BY <1>1, Within DEF TypesInv, Running
<1>3. Word.text \in Seq(Letters) /\ Word.text # <<>>
  BY <1>1, <1>2, OptionAssumption
<1>4. Len(Word.text) \in Nat /\ ptr + 1 \in 1..Len(Word.text)
  BY <1>2, <1>3
<1>5. Letter \in Letters
  BY <1>3, <1>4 DEF Letter
<1>6. short_opts[Letter] \in Options \cup {None}
  BY <1>5 DEF TypesInv, ParserTyped
<1>7. Attachment(Attached)
  <2>1. ptr + 1 \in Nat \ {0}
    BY <1>2
  <2> QED BY <1>2, <2>1 DEF Attached, Attachment
<1>8. Attached # <<>> => ptr + 1 < Len(Word.text)
  BY DEF Attached
<1> QED BY <1>1, <1>2, <1>5, <1>6, <1>7, <1>8

\* The calls in a word of short options: without arguments,
LEMMA FlagGoes ==
  ASSUME TypesInv, ShortFlag
  PROVE  short_opts[Letter] \in Options /\ Goes(short_opts[Letter], <<>>)
<1> DEFINE o == short_opts[Letter]
<1>1. /\ InShort /\ o # None /\ ArgsCount[o] = 0 /\ Invoke(o, <<>>)
      /\ \/ Attached = <<>> /\ ptr' = 0 /\ i' = i + 1
         \/ Attached # <<>> /\ ptr' = ptr + 1 /\ i' = i
  BY DEF ShortFlag
<1>2. /\ outcome = "running" /\ i < argc /\ o \in Options
      /\ (Attached # <<>> => ptr + 1 < Len(Word.text)) /\ Word.kind = "short" /\ i \in Nat
  BY <1>1, ShortIs, Within DEF InShort
<1> HIDE DEF o
<1>3. AllArgs # 0
  <2>1. AllArgs \notin Nat
    BY OptionAssumption, Zenon
  <2> QED BY <2>1
<1>4. Wanted(o, <<>>) = 0
  <2>1. ArgsCount[o] # AllArgs
    BY <1>1, <1>3
  <2>2. Wanted(o, <<>>) = 0 - Len(<<>>)
    BY <1>1, <2>1 DEF Wanted, o
  <2> QED BY <2>2
<1>5. Enough(o, <<>>) /\ Args(o, <<>>) = <<>>
  BY <1>4 DEF Enough, Args
<1>6. Attachment(<<>>)
  BY DEF Attachment
<1>7. i + 1 + Wanted(o, <<>>) = i + 1
  BY <1>2, <1>4
<1>8. \/ ptr' = 0 /\ i' = i + 1 + Wanted(o, <<>>)
      \/ /\ Wanted(o, <<>>) = 0 /\ i' = i /\ ptr' = ptr + 1
         /\ Word.kind = "short" /\ ptr + 1 < Len(Word.text)
  BY <1>1, <1>2, <1>4, <1>7
<1>9. Invoke(o, Args(o, <<>>))
  BY <1>1, <1>5
<1> QED BY <1>1, <1>2, <1>5, <1>6, <1>8, <1>9 DEF Goes, o

\* and with them, in the word or behind it.
LEMMA ShortGoes ==
  ASSUME TypesInv, ShortWithArgs
  PROVE  \/ outcome = "running" /\ Refuse
         \/ short_opts[Letter] \in Options /\ Goes(short_opts[Letter], Attached)
<1> DEFINE o == short_opts[Letter]
<1>1. /\ InShort /\ o # None /\ ArgsCount[o] # 0
      /\ \/ ~Enough(o, Attached) /\ Refuse
         \/ /\ Enough(o, Attached)
            /\ Invoke(o, Args(o, Attached))
            /\ ptr' = 0 /\ i' = i + 1 + Wanted(o, Attached)
  BY DEF ShortWithArgs
<1>2. outcome = "running" /\ i < argc /\ o \in Options /\ Attachment(Attached)
  BY <1>1, ShortIs
<1> HIDE DEF o
<1>3. ASSUME ~Refuse PROVE Goes(o, Attached)
  BY <1>1, <1>2, <1>3 DEF Goes
<1> QED BY <1>2, <1>3 DEF o

\* The word of a long option.
LEMMA LongIs ==
  ASSUME TypesInv, InLong
  PROVE  /\ outcome = "running" /\ i < argc /\ argv[i] = i /\ Word \in Words /\ ptr = 0
         /\ \A p : Fits(p) => long_opts[p] \in Options
         /\ Attachment(Value) /\ (Value # <<>> => Word.eq)
<1>1. outcome = "running" /\ i < argc /\ ptr = 0
  BY DEF InLong, AtWord
<1>2. argv[i] = i /\ Word \in Words /\ i \in Nat
  BY <1>1, Within
<1>3. ASSUME NEW p, Fits(p) PROVE long_opts[p] \in Options
  BY <1>3 DEF Fits, TypesInv, ParserTyped
<1>4. Len(Word.text) + 1 \in Nat \ {0}
  BY <1>2, OptionAssumption
<1>5. Attachment(Value)
  BY <1>2, <1>4 DEF Value, Attachment
<1>6. Value # <<>> => Word.eq
  BY DEF Value
<1> QED BY <1>1, <1>2, <1>3, <1>5, <1>6

\* The call of a long option, or its refusal.
LEMMA LongGoes ==
  ASSUME TypesInv, LongOption
  PROVE  LET o == long_opts[LowerBound] IN
         \/ Refuse /\ (~Enough(o, Value) \/ (Word.eq /\ ArgsCount[o] = 0))
         \/ o \in Options /\ Goes(o, Value)
<1> DEFINE o == long_opts[LowerBound]
           refused == (Word.eq /\ ArgsCount[o] = 0) \/ ~Enough(o, Value)
<1>1. /\ InLong /\ Fits(LowerBound)
      /\ \/ refused /\ Refuse
         \/ /\ ~refused
            /\ Invoke(o, Args(o, Value))
            /\ i' = i + 1 + Wanted(o, Value)
            /\ UNCHANGED ptr
  BY DEF LongOption
<1>2. /\ outcome = "running" /\ i < argc /\ ptr = 0 /\ o \in Options
      /\ Attachment(Value) /\ (Value # <<>> => Word.eq)
  BY <1>1, LongIs
<1> HIDE DEF o
<1>3. ASSUME ~refused, Invoke(o, Args(o, Value)), i' = i + 1 + Wanted(o, Value), UNCHANGED ptr
      PROVE  Goes(o, Value)
  BY <1>2, <1>3 DEF Goes
<1> QED BY <1>1, <1>2, <1>3 DEF o

\* What the parser may do.
LEMMA StepsAre ==
  ASSUME TypesInv, ParserNext
  PROVE  \/ GenOpts \/ NonOption \/ EndOfOptions \/ Finish \/ LogLevelOption
         \/ outcome = "running" /\ Refuse
         \/ \E o \in Options : \E att : Goes(o, att)
<1>1. CASE UnknownShort
  BY <1>1 DEF UnknownShort, InShort
<1>2. CASE ShortFlag
  BY <1>2, FlagGoes
<1>3. CASE ShortWithArgs
  BY <1>3, ShortGoes
<1>4. CASE UnknownLong
  BY <1>4 DEF UnknownLong, InLong, AtWord
<1>5. CASE AmbiguousLong
  BY <1>5 DEF AmbiguousLong, InLong, AtWord
<1>6. CASE LongOption
  <2>1. outcome = "running"
    BY <1>6 DEF LongOption, InLong, AtWord
  <2> QED BY <1>6, <2>1, LongGoes
<1> QED BY <1>1, <1>2, <1>3, <1>4, <1>5, <1>6 DEF ParserNext

\* What is typed after a step that leaves the arguments and the options alone.
LEMMA MovesTyped ==
  ASSUME TypesInv, UNCHANGED <<input, program, tables, calls>>, outcome' \in Outcomes,
         argc' \in Slots, endp' \in Slots, i' \in Slots, ptr' \in Nat,
         argv' \in [0..Count -> DOMAIN words \cup {None}], taken' \in Seq(Nat),
         outcome = "running", Running'
  PROVE  TypesInv'
<1>1. InputTyped'
  BY DEF TypesInv, InputTyped, input, Count
<1>2. ParserTyped'
  <2>1. Slots' = Slots /\ Calls' = Calls /\ Count' = Count /\ words' = words /\ Outcomes' = Outcomes
    BY DEF Slots, Calls, Ends, Count, input, Outcomes
  <2>2. /\ short_opts \in [Letters -> Options \cup {None}] /\ long_opts \in Seq(Options)
        /\ non_arg_fun \in {None, "fail", "take"} /\ was_command \in BOOLEAN
        /\ calls \in Seq(Calls)
    BY DEF TypesInv, ParserTyped
  <2>3. UNCHANGED <<short_opts, long_opts, non_arg_fun, was_command, calls>>
    BY DEF program, tables
  <2> QED BY <2>1, <2>2, <2>3 DEF ParserTyped
<1>3. TableInv'
  BY TableKept DEF TypesInv, input, program, tables
<1> QED BY <1>1, <1>2, <1>3 DEF TypesInv

\* The places in argv.
LEMMA SlotsAre ==
  ASSUME TypesInv
  PROVE  /\ argc \in Slots /\ endp \in Slots /\ i \in Slots /\ ptr \in Nat /\ Slots = 0..(MaxWords + 1)
         /\ argv \in [0..Count -> DOMAIN words \cup {None}] /\ taken \in Seq(Nat)
         /\ Count \in Nat /\ DOMAIN words = 0..(Count - 1)
BY DEF TypesInv, ParserTyped, InputTyped, Slots

\* A word that is no option is moved, handed over or refused.
LEMMA NonOptionTyped ==
  ASSUME TypesInv, NonOption
  PROVE  TypesInv'
<1>1. /\ outcome = "running" /\ i < argc /\ ptr = 0
      /\ \/ argv' = [argv EXCEPT ![endp] = argv[i]] /\ endp' = endp + 1 /\ UNCHANGED <<taken, outcome>>
         \/ taken' = Append(taken, argv[i]) /\ UNCHANGED <<argv, endp, outcome>>
         \/ outcome' = "exit_false" /\ UNCHANGED <<argv, endp, taken>>
      /\ i' = i + 1
      /\ UNCHANGED <<input, argc, ptr, program, tables, calls>>
  BY DEF NonOption, AtWord
<1>2. /\ argc = Count /\ argc \in Nat /\ i \in Nat /\ endp \in Nat /\ first \in Nat
      /\ first <= endp /\ endp <= i /\ i <= argc /\ argc <= MaxWords + 1 /\ MaxWords \in Nat
      /\ \A j \in i..(argc - 1) : argv[j] = j
      /\ argv[i] = i
  BY <1>1, Within
<1>3. /\ argc \in Slots /\ endp \in Slots /\ i \in Slots /\ ptr \in Nat /\ Slots = 0..(MaxWords + 1)
      /\ argv \in [0..Count -> DOMAIN words \cup {None}] /\ taken \in Seq(Nat)
      /\ DOMAIN words = 0..(Count - 1)
  BY SlotsAre
<1>4. outcome' \in Outcomes
  BY <1>1 DEF Outcomes
<1>5. argc' \in Slots /\ endp' \in Slots /\ i' \in Slots /\ ptr' \in Nat
  BY <1>1, <1>2, <1>3
<1>6. argv' \in [0..Count -> DOMAIN words \cup {None}] /\ \A j \in (i + 1)..(argc - 1) : argv'[j] = j
  <2>1. i \in DOMAIN words /\ endp \in 0..Count
    BY <1>1, <1>2, <1>3
  <2>2. CASE argv' = [argv EXCEPT ![endp] = argv[i]]
    <3>1. argv' \in [0..Count -> DOMAIN words \cup {None}]
      BY <1>2, <1>3, <2>1, <2>2
    <3>2. ASSUME NEW j \in (i + 1)..(argc - 1) PROVE argv'[j] = j
      <4>1. j \in 0..Count /\ j # endp /\ argv[j] = j
        BY <1>2
      <4> QED BY <1>3, <2>2, <4>1
    <3> QED BY <3>1, <3>2
  <2>3. CASE argv' = argv
    BY <1>2, <1>3, <2>3
  <2> QED BY <1>1, <2>2, <2>3
<1>7. taken' \in Seq(Nat)
  <2>1. argv[i] \in Nat
    BY <1>2
  <2>2. taken' = taken \/ taken' = Append(taken, argv[i])
    BY <1>1
  <2>3. taken \in Seq(Nat)
    BY <1>3
  <2>4. Append(taken, argv[i]) \in Seq(Nat)
    BY <2>1, <2>3
  <2> QED BY <2>2, <2>3, <2>4
<1>8. Running'
  <2>1. Count' = Count /\ UNCHANGED <<first, argc, ptr>>
    BY <1>1 DEF Count, input
  <2>2. first <= endp' /\ endp' <= i' /\ i' <= argc
    BY <1>1, <1>2
  <2> QED BY <1>1, <1>2, <1>6, <2>1, <2>2 DEF Running
<1> QED BY <1>1, <1>3, <1>4, <1>5, <1>6, <1>7, <1>8, MovesTyped

\* What -- does.
LEMMA EndTyped ==
  ASSUME TypesInv, EndOfOptions
  PROVE  TypesInv'
<1> DEFINE n == argc - (i + 1)
           f == [j \in endp..(endp + argc - (i + 1) - 1) |-> argv[j - endp + (i + 1)]]
           t == [k \in 1..(argc - (i + 1)) |-> argv[(i + 1) + k - 1]]
<1>1. /\ outcome = "running" /\ i < argc /\ ptr = 0
      /\ \/ Rewrite(f) /\ endp' = endp + argc - (i + 1) /\ UNCHANGED <<taken, outcome>>
         \/ taken' = taken \o t /\ UNCHANGED <<argv, endp, outcome>>
         \/ outcome' = (IF i + 1 < argc THEN "exit_false" ELSE outcome) /\ UNCHANGED <<argv, endp, taken>>
      /\ i' = argc
      /\ UNCHANGED <<input, argc, ptr, program, tables, calls>>
  BY DEF EndOfOptions, AtWord, HandOver
<1>2. /\ argc = Count /\ argc \in Nat /\ i \in Nat /\ endp \in Nat /\ first \in Nat
      /\ first <= endp /\ endp <= i /\ i <= argc /\ argc <= MaxWords + 1 /\ MaxWords \in Nat
      /\ \A j \in i..(argc - 1) : argv[j] = j
  BY <1>1, Within
<1>3. /\ argc \in Slots /\ endp \in Slots /\ i \in Slots /\ ptr \in Nat /\ Slots = 0..(MaxWords + 1)
      /\ argv \in [0..Count -> DOMAIN words \cup {None}] /\ taken \in Seq(Nat)
      /\ DOMAIN words = 0..(Count - 1)
  BY SlotsAre
<1>4. outcome' \in Outcomes
  BY <1>1 DEF Outcomes
<1>5. argc' \in Slots /\ endp' \in Slots /\ i' \in Slots /\ ptr' \in Nat
  BY <1>1, <1>2, <1>3
<1>6. argv' \in [0..Count -> DOMAIN words \cup {None}]
  <2>1. CASE Rewrite(f)
    <3>1. argv' = [j \in DOMAIN argv |-> IF j \in DOMAIN f THEN f[j] ELSE argv[j]]
      BY <2>1 DEF Rewrite
    <3>2. ASSUME NEW j \in DOMAIN f PROVE f[j] \in DOMAIN words
      <4>1. j - endp + (i + 1) \in i..(argc - 1)
        BY <1>2
      <4>2. f[j] = j - endp + (i + 1)
        BY <1>2, <4>1
      <4> QED BY <1>2, <1>3, <4>1, <4>2
    <3> HIDE DEF f
    <3> QED BY <1>3, <3>1, <3>2
  <2>2. CASE argv' = argv
    BY <1>3, <2>2
  <2> QED BY <1>1, <2>1, <2>2
<1>7. taken' \in Seq(Nat)
  <2>1. t \in Seq(Nat)
    <3>1. ASSUME NEW k \in 1..(argc - (i + 1)) PROVE argv[(i + 1) + k - 1] \in Nat
      <4>1. (i + 1) + k - 1 \in i..(argc - 1)
        BY <1>2
      <4> QED BY <1>2, <4>1
    <3>2. argc - (i + 1) \in Nat
      BY <1>1, <1>2
    <3> QED BY <3>1, <3>2
  <2>2. taken' = taken \/ taken' = taken \o t
    BY <1>1
  <2>3. taken \in Seq(Nat)
    BY <1>3
  <2> HIDE DEF t
  <2>4. taken \o t \in Seq(Nat)
    <3>1. ASSUME NEW s \in Seq(Nat), NEW u \in Seq(Nat) PROVE s \o u \in Seq(Nat)
      OBVIOUS
    <3> QED BY <2>1, <2>3, <3>1, Zenon
  <2> QED BY <2>2, <2>3, <2>4, Zenon
<1>8. Running'
  <2>1. Count' = Count /\ UNCHANGED <<first, argc, ptr>>
    BY <1>1 DEF Count, input
  <2>2. first <= endp' /\ endp' <= i' /\ i' <= argc
    BY <1>1, <1>2
  <2> QED BY <1>1, <1>2, <2>1, <2>2 DEF Running
<1> HIDE DEF f, t
<1> QED BY <1>1, <1>3, <1>4, <1>5, <1>6, <1>7, <1>8, MovesTyped

\* The end of Run().
LEMMA FinishTyped ==
  ASSUME TypesInv, Finish
  PROVE  TypesInv'
<1>1. /\ outcome = "running" /\ argc' = endp /\ argv' = [argv EXCEPT ![endp] = None]
      /\ outcome' \in {"done", "exit_false"}
      /\ UNCHANGED <<input, endp, i, ptr, program, tables, calls, taken>>
  BY DEF Finish
<1>2. argc = Count /\ argc \in Nat /\ endp \in Nat /\ endp <= argc
  BY <1>1, Within
<1>3. /\ endp \in Slots /\ i \in Slots /\ ptr \in Nat
      /\ argv \in [0..Count -> DOMAIN words \cup {None}] /\ taken \in Seq(Nat)
  BY SlotsAre
<1>4. outcome' \in Outcomes /\ Running'
  BY <1>1 DEF Outcomes, Running
<1>5. argv' \in [0..Count -> DOMAIN words \cup {None}]
  BY <1>1, <1>2, <1>3
<1> QED BY <1>1, <1>3, <1>4, <1>5, MovesTyped

\* gen_opts() makes a table without duplicates, or fails.
LEMMA GenOptsTyped ==
  ASSUME TypesInv, GenOpts
  PROVE  TypesInv'
<1>1. /\ outcome = "running" /\ old_len' = Len(groups)
      /\ \/ /\ ~Duplicates(groups)
            /\ short_opts' = ShortTable(groups) /\ long_opts' = LongTable(groups)
            /\ UNCHANGED outcome
         \/ /\ outcome' = "logic_error"
            /\ UNCHANGED <<short_opts, long_opts>>
      /\ UNCHANGED <<input, argv, argc, endp, i, ptr, program, calls, taken>>
  BY DEF GenOpts, AtOption, AtWord
<1>2. /\ groups \in Seq(Groups) /\ groups # <<>> /\ enabled \subseteq Options
  BY DEF TypesInv, TableInv
<1>3. OptionsOf(groups) \subseteq Options
  BY <1>2 DEF OptionsOf
<1>4. ASSUME ~Duplicates(groups) PROVE Named(OptionsOf(groups)) /\ LongTable(groups) \in Seq(Options)
  <2>1. Named(OptionsOf(groups))
    BY <1>2, <1>4, TableTyped
  <2>2. LongTable(groups) \in Seq(OptionsOf(groups))
    BY <2>1, TableIs
  <2> QED BY <1>3, <2>1, <2>2, WiderSeq
<1>5. ShortTable(groups) \in [Letters -> Options \cup {None}]
  BY <1>3 DEF ShortTable
<1>6. InputTyped'
  BY <1>1 DEF TypesInv, InputTyped, input, Count
<1>7. ParserTyped'
  <2>1. Slots' = Slots /\ Calls' = Calls /\ Count' = Count /\ words' = words /\ Outcomes' = Outcomes
    BY <1>1 DEF Slots, Calls, Ends, Count, input, Outcomes
  <2>2. /\ short_opts \in [Letters -> Options \cup {None}] /\ long_opts \in Seq(Options)
        /\ non_arg_fun \in {None, "fail", "take"} /\ was_command \in BOOLEAN
        /\ calls \in Seq(Calls)
        /\ argc \in Slots /\ endp \in Slots /\ i \in Slots /\ ptr \in Nat
        /\ argv \in [0..Count -> DOMAIN words \cup {None}] /\ taken \in Seq(Nat)
    BY DEF TypesInv, ParserTyped
  <2>3. UNCHANGED <<argv, argc, endp, i, ptr, non_arg_fun, was_command, calls, taken>>
    BY <1>1 DEF program
  <2>4. short_opts' \in [Letters -> Options \cup {None}] /\ long_opts' \in Seq(Options)
    BY <1>1, <1>4, <1>5, <2>2
  <2>5. outcome' \in Outcomes
    BY <1>1 DEF Outcomes
  <2> QED BY <2>1, <2>2, <2>3, <2>4, <2>5 DEF ParserTyped
<1>8. TableInv'
  <2>1. UNCHANGED <<groups, enabled>> /\ OptionsOf(groups)' = OptionsOf(groups) /\ LongTable(groups)' = LongTable(groups)
    BY <1>1 DEF program, input, OptionsOf, LongTable
  <2>2. old_len' \in 0..Len(groups) /\ Len(groups) \in Nat
    BY <1>1, <1>2
  <2>3. Named(OptionsOf(groups))' <=> Named(OptionsOf(groups))
    BY <2>1 DEF Named
  <2>4. outcome' = "running" => long_opts' = LongTable(groups) /\ Named(OptionsOf(groups))
    BY <1>1, <1>4
  <2> QED BY <1>2, <2>1, <2>2, <2>3, <2>4 DEF TableInv
<1>9. Running'
  BY <1>1 DEF TypesInv, Running, input, Count
<1> QED BY <1>6, <1>7, <1>8, <1>9 DEF TypesInv

\* The steps of --log-level leave the parser alone.
LEMMA LevelOptionTyped ==
  ASSUME TypesInv, LogLevelOption
  PROVE  TypesInv'
<1>1. CASE UNCHANGED parserVars
  <2>1. InputTyped'
    BY <1>1 DEF TypesInv, InputTyped, parserVars, input, Count
  <2>2. ParserTyped'
    BY <1>1 DEF TypesInv, ParserTyped, Outcomes, Calls, Ends, Slots, parserVars, input, program, tables, Count
  <2>3. TableInv'
    BY <1>1, TableKept DEF TypesInv, parserVars, input, program, tables
  <2>4. Running'
    BY <1>1 DEF TypesInv, Running, parserVars, input, Count
  <2> QED BY <2>1, <2>2, <2>3, <2>4 DEF TypesInv
<1>2. CASE outcome' = "exit_false" /\ UNCHANGED <<input, argv, argc, endp, i, ptr, program, tables, calls, taken>>
  <2>1. InputTyped'
    BY <1>2 DEF TypesInv, InputTyped, input, Count
  <2>2. ParserTyped'
    BY <1>2 DEF TypesInv, ParserTyped, Outcomes, Calls, Ends, Slots, input, program, tables, Count
  <2>3. Running'
    BY <1>2 DEF Running
  <2>4. TableInv'
    BY <1>2, TableKept DEF TypesInv, input, program, tables
  <2> QED BY <2>1, <2>2, <2>3, <2>4 DEF TypesInv
<1> QED BY <1>1, <1>2 DEF LogLevelOption

\* The types, from the start
LEMMA InitTyped == ParserInit => TypesInv
<1> SUFFICES ASSUME ParserInit PROVE TypesInv
  OBVIOUS
<1>1. PICK n \in 0..MaxWords, given \in [1..MaxWords -> Words] :
        /\ argc = first + n
        /\ words = [j \in 0..(argc - 1) |-> IF j < first THEN Argv0 ELSE given[j - first + 1]]
  BY DEF ParserInit
<1>2. /\ first \in {0, 1} /\ endp = first /\ i = first /\ ptr = 0
      /\ argv = [j \in 0..argc |-> IF j < argc THEN j ELSE None]
      /\ groups = <<FirstGroup>> /\ enabled \subseteq Options
      /\ old_len = 0 /\ long_opts = <<>> /\ short_opts = [c \in Letters |-> None]
      /\ non_arg_fun \in {None, "fail", "take"} /\ was_command = FALSE
      /\ outcome = "running" /\ calls = <<>> /\ taken = <<>>
  BY DEF ParserInit
<1>3. MaxWords \in Nat /\ FirstGroup \in Groups
  BY OptionAssumption
<1>4. argc \in Nat /\ argc \in 0..(MaxWords + 1) /\ first <= argc /\ n \in Nat /\ n <= MaxWords
  BY <1>1, <1>2, <1>3
<1>5. DOMAIN words = 0..(argc - 1) /\ Count = argc
  <2>1. DOMAIN words = 0..(argc - 1)
    BY <1>1
  <2>2. Cardinality(0..(argc - 1)) = argc
    BY <1>4, FS_Interval
  <2> QED BY <2>1, <2>2 DEF Count
<1>6. InputTyped
  <2>1. ASSUME NEW k \in first..(argc - 1) PROVE words[k] \in Words
    <3>1. k \in 0..(argc - 1) /\ ~(k < first) /\ k - first + 1 \in 1..MaxWords
      BY <1>1, <1>2, <1>3, <1>4
    <3> QED BY <1>1, <3>1
  <2> QED BY <1>2, <1>4, <1>5, <2>1 DEF InputTyped
<1>7. ParserTyped
  <2>1. argv \in [0..Count -> DOMAIN words \cup {None}]
    BY <1>2, <1>4, <1>5
  <2>2. calls \in Seq(Calls) /\ taken \in Seq(Nat) /\ long_opts \in Seq(Options)
    BY <1>2
  <2>3. argc \in Slots /\ endp \in Slots /\ i \in Slots /\ ptr \in Nat
    BY <1>2, <1>3, <1>4 DEF Slots
  <2>4. outcome \in Outcomes
    BY <1>2 DEF Outcomes
  <2>5. short_opts \in [Letters -> Options \cup {None}] /\ was_command \in BOOLEAN
    BY <1>2
  <2> QED BY <1>2, <2>1, <2>2, <2>3, <2>4, <2>5 DEF ParserTyped
<1>8. TableInv
  <2>1. groups \in Seq(Groups) /\ Len(groups) = 1 /\ groups # <<>>
    BY <1>2, <1>3
  <2>2. Stale
    BY <1>2, <2>1 DEF Stale
  <2> QED BY <1>2, <2>1, <2>2 DEF TableInv
<1>9. Running
  BY <1>2, <1>4, <1>5 DEF Running
<1> QED BY <1>6, <1>7, <1>8, <1>9 DEF TypesInv

\* and at each step.
LEMMA NextTyped ==
  ASSUME TypesInv, [ParserNext]_runVars
  PROVE  TypesInv'
<1>1. CASE ParserNext
  <2>1. ASSUME NEW o \in Options, NEW att, Goes(o, att) PROVE TypesInv'
    BY <2>1, GoesTyped
  <2> QED BY <1>1, <2>1, StepsAre, GenOptsTyped, NonOptionTyped, EndTyped, FinishTyped,
             LevelOptionTyped, RefuseTyped
<1>2. CASE UNCHANGED runVars
  <2>1. UNCHANGED parserVars
    BY <1>2 DEF runVars
  <2>2. InputTyped'
    BY <2>1 DEF TypesInv, InputTyped, parserVars, input, Count
  <2>3. ParserTyped'
    BY <2>1 DEF TypesInv, ParserTyped, Outcomes, Calls, Ends, Slots, parserVars, input, program, tables, Count
  <2>4. TableInv'
    BY <2>1, TableKept DEF TypesInv, parserVars, input, program, tables
  <2>5. Running'
    BY <2>1 DEF TypesInv, Running, parserVars, input, Count
  <2> QED BY <2>2, <2>3, <2>4, <2>5 DEF TypesInv
<1> QED BY <1>1, <1>2

\* The levels, from the start
LEMMA InitRecords == ParserInit => LevelsInv
<1> SUFFICES ASSUME ParserInit PROVE LevelsInv
  OBVIOUS
<1>1. /\ global_level = DefaultLevel /\ strings = <<>> /\ strings_block = 0
      /\ level_map = <<>> /\ map_block = 0 /\ levels = [block |-> 0, size |-> 0]
      /\ tokens = Idle /\ latest = [n \in Names |-> NoName]
  BY DEF ParserInit, LevelsInit
<1>2. DefaultLevel \in Levels
  <2>1. Levels \subseteq Nat /\ Levels # {}
    BY LogLevelsAssumption
  <2>2. FirstOf(Levels) \in Levels
    BY <2>1, LeastExists
  <2> QED BY <2>2 DEF FirstOf, DefaultLevel
<1>3. LevelsTyped
  <2>1. strings \in Seq(Names) /\ level_map \in Seq(Entry)
    BY <1>1
  <2>2. latest \in [Names -> Levels \cup {NoName}]
    BY <1>1
  <2> QED BY <1>1, <1>2, <2>1, <2>2 DEF LevelsTyped
<1>4. Published
  BY <1>1 DEF Published
<1>5. ASSUME NEW n \in Names \ Short PROVE Recorded(n)
  BY <1>1 DEF Recorded, Entries
<1> QED BY <1>3, <1>4, <1>5 DEF LevelsInv

\* and at each step.
LEMMA NextRecords ==
  ASSUME TypesInv, LevelsInv, [ParserNext]_runVars
  PROVE  LevelsInv'
<1>1. CASE ParserNext
  <2>1. CASE GenOpts \/ NonOption \/ EndOfOptions \/ Finish \/ (outcome = "running" /\ Refuse)
    <3>1. outcome = "running" /\ UNCHANGED levelVars
      BY <2>1 DEF GenOpts, NonOption, EndOfOptions, Finish, Refuse, AtOption, AtWord
    <3>2. /\ UNCHANGED <<global_level, stringVars, level_map, map_block, levels, latest>>
          /\ tokens' = tokens /\ outcome # "exit_false"
      BY <3>1 DEF levelVars, stringVars
    <3> QED BY <3>2, OthersRecord
  <2>2. ASSUME NEW o \in Options, NEW att, Goes(o, att) PROVE LevelsInv'
    <3>1. outcome = "running"
      BY <2>2 DEF Goes
    <3>2. /\ UNCHANGED <<global_level, stringVars, level_map, map_block, levels, latest>>
          /\ tokens' = tokens \/ tokens' \in LevelTokens
      BY <2>2, GoesOn
    <3> QED BY <3>1, <3>2, OthersRecord
  <2>3. CASE LogLevelOption
    <3>1. CASE Granted /\ UNCHANGED parserVars
      <4>1. CASE Publish
        <5>1. levels' = [block |-> map_block, size |-> Len(level_map)]
          BY <4>1 DEF Publish
        <5> QED BY <4>1, <5>1, PublishRecords
      <4> QED BY <3>1, <4>1, SetGlobalRecords, SetKnownRecords, SetNewRecords DEF Granted
    <3>2. CASE RefuseLevel /\ outcome' = "exit_false"
      <4>1. /\ UNCHANGED <<global_level, stringVars, level_map, map_block, levels, latest>>
            /\ tokens' = Idle
        BY <3>2 DEF RefuseLevel
      <4> QED BY <3>2, <4>1, OthersRecord
    <3> QED BY <2>3, <3>1, <3>2 DEF LogLevelOption
  <2> QED BY <1>1, <2>1, <2>2, <2>3, StepsAre
<1>2. CASE UNCHANGED runVars
  <2>1. /\ UNCHANGED <<global_level, stringVars, level_map, map_block, levels, latest>>
        /\ tokens' = tokens /\ outcome' = outcome
    BY <1>2 DEF runVars, levelVars, stringVars, parserVars
  <2> QED BY <2>1, OthersRecord
<1> QED BY <1>1, <1>2

\* GetLogLevel() answers with the level last given for a module whose name is long, whatever
\* options were given and however often the tables have moved.
THEOREM LongNamesAlwaysAnswered == ParserSpec => []LongNamesAnswered
<1>1. ParserInit => TypesInv /\ LevelsInv
  BY InitTyped, InitRecords
<1>2. TypesInv /\ LevelsInv /\ [ParserNext]_runVars => TypesInv' /\ LevelsInv'
  BY NextTyped, NextRecords
<1>3. TypesInv /\ LevelsInv => LongNamesAnswered
  BY RecordedAnswers
<1> QED BY <1>1, <1>2, <1>3, PTL DEF ParserSpec

\* The step at a word with --.
LEMMA StepResolved ==
  ASSUME TypesInv, TypesInv', ParserNext, InLong
  PROVE  IF Meant(Word) = {} THEN outcome' = "exit_false" /\ calls' = calls
         ELSE \/ calls' # calls /\ Last(calls').opt \in Meant(Word)
              \/ /\ outcome' = "exit_false"
                 /\ \A o \in Meant(Word) :
                      ~Enough(o, Value) \/ (Word.eq /\ ArgsCount[o] = 0)
<1> DEFINE p == LowerBound
           o == long_opts[LowerBound]
<1>1. outcome = "running" /\ Word \in Words /\ tokens = Idle /\ Word.kind = "long" /\ ~Stale /\ ptr = 0 /\ i < argc
  BY LongIs DEF InLong, AtWord
<1>2. /\ Fits(p) /\ ~Ambiguous(p) => Meant(Word) = {o}
      /\ ~(Fits(p) /\ ~Ambiguous(p)) => Meant(Word) = {}
  BY <1>1, MeantFound DEF TypesInv
<1>3. UnknownLong \/ AmbiguousLong \/ LongOption
  <2>1. ~GenOpts
    BY <1>1 DEF GenOpts
  <2>2. ~NonOption /\ ~EndOfOptions
    BY <1>1 DEF NonOption, EndOfOptions
  <2>3. ~Finish
    <3>1. argc \in Nat /\ i \in Nat
      BY <1>1, Within
    <3> QED BY <1>1, <3>1 DEF Finish
  <2>4. ~UnknownShort /\ ~ShortFlag /\ ~ShortWithArgs
    BY <1>1 DEF UnknownShort, ShortFlag, ShortWithArgs, InShort
  <2>5. ~LogLevelOption
    <3>1. Idle # <<>>
      <4>1. <<>> \in LevelTokens
        BY DEF LevelTokens
      <4> QED BY <4>1, NeverIdle
    <3> QED BY <1>1, <3>1 DEF LogLevelOption, Granted, SetGlobal, SetKnown, SetNew, Publish, RefuseLevel
  <2> QED BY <2>1, <2>2, <2>3, <2>4, <2>5 DEF ParserNext
<1>4. CASE UnknownLong \/ AmbiguousLong
  <2>1. Meant(Word) = {} /\ Refuse
    BY <1>2, <1>4 DEF UnknownLong, AmbiguousLong
  <2> QED BY <2>1 DEF Refuse
<1>5. CASE LongOption
  <2>1. Meant(Word) = {o}
    BY <1>2, <1>5 DEF LongOption
  <2>2. \/ Refuse /\ (~Enough(o, Value) \/ (Word.eq /\ ArgsCount[o] = 0))
        \/ o \in Options /\ Goes(o, Value)
    BY <1>5, LongGoes
  <2>3. ASSUME o \in Options, Goes(o, Value)
        PROVE  calls' # calls /\ Last(calls').opt = o
    <3> DEFINE c == [opt |-> o, word |-> i, args |-> Args(o, Value)]
    <3>1. c \in Calls /\ calls' = Append(calls, c)
      BY <2>3, GoesOn
    <3>2. calls \in Seq(Calls)
      BY DEF TypesInv, ParserTyped
    <3>3. c.opt = o
      OBVIOUS
    <3> HIDE DEF c, o
    <3>4. Len(calls') = Len(calls) + 1 /\ calls'[Len(calls')] = c /\ Len(calls) \in Nat
      BY <3>1, <3>2
    <3>5. calls' # calls
      BY <3>4
    <3> QED BY <3>3, <3>4, <3>5 DEF Last
  <2> QED BY <2>1, <2>2, <2>3 DEF Refuse
<1> QED BY <1>3, <1>4, <1>5

\* A word with -- calls the option of that name, or else the only one whose name begins so,
\* of all that are enabled in the groups added up to then; or is refused, if there is none
\* or its arguments are not enough: what the sorted table and lower_bound() promise.
THEOREM OptionsAlwaysResolved == ParserSpec => OptionsResolved
<1>1. ParserInit => TypesInv
  BY InitTyped
<1>2. TypesInv /\ [ParserNext]_runVars => TypesInv'
  BY NextTyped
<1> DEFINE R == InLong =>
       IF Meant(Word) = {} THEN outcome' = "exit_false" /\ calls' = calls
       ELSE \/ calls' # calls /\ Last(calls').opt \in Meant(Word)
            \/ /\ outcome' = "exit_false"
               /\ \A o \in Meant(Word) :
                    ~Enough(o, Value) \/ (Word.eq /\ ArgsCount[o] = 0)
<1>3. TypesInv /\ TypesInv' /\ [ParserNext]_runVars => [R]_runVars
  BY StepResolved
<1> QED BY <1>1, <1>2, <1>3, PTL DEF ParserSpec, OptionsResolved

-----------------------------------------------------------------------------
(* Where the arguments go.                                                  *)

Used == Kept \cup Called \cup ToSet(taken)
Left == Read \ Used

\* An argument goes one way.
Separate == Kept \cap Called = {} /\ (Kept \cup Called) \cap ToSet(taken) = {}
Ordered == /\ first <= endp
           /\ \A j, k \in first..(endp - 1) : j < k => argv[j] < argv[k]
           /\ Increasing(taken)
\* The arguments of an option are those behind it.
Follows(c) ==
  /\ Whole(c.args) = c.word + 1..(c.word + Cardinality(Whole(c.args)))
  /\ ArgsCount[c.opt] \in {AllArgs, Len(c.args)}
Followed == \A k \in DOMAIN calls : Follows(calls[k])
Apart == \A k, l \in DOMAIN calls :
  calls[k].word # calls[l].word => Consumed(calls[k]) \cap Consumed(calls[l]) = {}
\* What is left is the -- that ended the options.
EndLeft ==
  /\ Left = {} \/ \E e \in Left : /\ Left = {e} /\ words[e].kind = "end"
                                  /\ outcome = "running" => i = argc
  /\ \A k \in Kept \cup ToSet(taken) : words[k].kind # "plain" => \E l \in Left : l < k

Accounted ==
  outcome \in {"running", "done"} =>
    Read \subseteq DOMAIN words /\ Used \subseteq Read /\ Separate /\ Ordered /\ Followed /\ Apart /\ EndLeft

\* What stays as it is.
LEMMA AccountKept ==
  ASSUME Accounted, UNCHANGED <<words, first, endp, i, ptr, calls, taken>>,
         \A j \in first..(endp - 1) : argv'[j] = argv[j],
         outcome' \in {"running", "done"} => outcome \in {"running", "done"},
         outcome' = "running" => outcome = "running" /\ argc' = argc
  PROVE  Accounted'
<1> SUFFICES ASSUME outcome' \in {"running", "done"}
             PROVE  /\ (Read \subseteq DOMAIN words)' /\ (Used \subseteq Read)'
                    /\ Separate' /\ Ordered' /\ Followed' /\ Apart' /\ EndLeft'
  BY DEF Accounted
<1>1. /\ Read \subseteq DOMAIN words /\ Used \subseteq Read
      /\ Separate /\ Ordered /\ Followed /\ Apart /\ EndLeft
  BY DEF Accounted
<1>2. Kept' = Kept
  BY DEF Kept
<1>3. Called' = Called
  BY DEF Called, Consumed, Whole
<1>4. Read' = Read /\ ToSet(taken)' = ToSet(taken)
  BY DEF Read
<1>5. Used' = Used /\ Left' = Left
  BY <1>2, <1>3, <1>4 DEF Used, Left
<1>6. Separate'
  BY <1>1, <1>2, <1>3, <1>4 DEF Separate
<1>7. Ordered'
  BY <1>1 DEF Ordered, Increasing
<1>8. Followed'
  BY <1>1 DEF Followed
<1>9. Apart'
  BY <1>1 DEF Apart
<1>10. EndLeft'
  BY <1>1, <1>2, <1>4, <1>5 DEF EndLeft
<1> QED BY <1>1, <1>4, <1>5, <1>6, <1>7, <1>8, <1>9, <1>10

\* What has been read, while options are parsed.
LEMMA ReadIs ==
  ASSUME TypesInv, Accounted, outcome = "running"
  PROVE  /\ Read \subseteq DOMAIN words /\ Used \subseteq Read /\ Separate /\ Ordered /\ Followed /\ Apart /\ EndLeft
         /\ Read = first..(IF ptr = 0 THEN i - 1 ELSE i)
         /\ \A x \in Read : x \in Nat /\ (x < i \/ (x = i /\ i \in Called /\ ptr # 0))
         /\ i < argc => Left = {}
         /\ ptr # 0 => \E k \in DOMAIN calls : calls[k].word = i
         /\ \A k \in DOMAIN calls : Consumed(calls[k]) \subseteq Called
<1>1. /\ Read \subseteq DOMAIN words /\ Used \subseteq Read /\ Separate /\ Ordered /\ Followed /\ Apart /\ EndLeft
  BY DEF Accounted
<1>2. /\ argc \in Nat /\ i \in Nat /\ first \in Nat /\ ptr \in Nat
  BY Within
<1>3. ptr # 0 => \E k \in DOMAIN calls : calls[k].word = i
  <2>1. ptr # 0 => ptr > 0
    BY <1>2
  <2> QED BY <2>1 DEF TypesInv, Running
<1>4. \A k \in DOMAIN calls : Consumed(calls[k]) \subseteq Called
  BY DEF Called
<1>5. ptr # 0 => i \in Called
  BY <1>3, <1>4 DEF Consumed
<1>6. Read = first..(IF ptr = 0 THEN i - 1 ELSE i)
  BY DEF Read
<1>7. ASSUME NEW x \in Read PROVE x \in Nat /\ (x < i \/ (x = i /\ i \in Called /\ ptr # 0))
  BY <1>2, <1>5, <1>6, <1>7
<1>8. i < argc => Left = {}
  BY <1>1, <1>2 DEF EndLeft
<1> QED BY <1>1, <1>3, <1>4, <1>6, <1>7, <1>8

\* A call takes the words that it is given.
LEMMA CalledGrows ==
  ASSUME calls \in Seq(Calls), NEW c \in Calls, calls' = Append(calls, c)
  PROVE  Called' = Called \cup Consumed(c)
<1>1. /\ DOMAIN calls = 1..Len(calls) /\ Len(calls) \in Nat
      /\ DOMAIN calls' = 1..(Len(calls) + 1) /\ calls'[Len(calls) + 1] = c
      /\ \A k \in DOMAIN calls : calls'[k] = calls[k]
  OBVIOUS
<1>2. Called' = UNION {Consumed(calls'[k]) : k \in DOMAIN calls'}
  BY DEF Called, Consumed, Whole
<1>3. \A k \in DOMAIN calls' : k \in DOMAIN calls \/ k = Len(calls) + 1
  BY <1>1
<1>4. \A k \in DOMAIN calls : k \in DOMAIN calls'
  BY <1>1
<1>5. Len(calls) + 1 \in DOMAIN calls'
  BY <1>1
<1> QED BY <1>1, <1>2, <1>3, <1>4, <1>5 DEF Called

\* Words that are added in order.
LEMMA TakenGrows ==
  ASSUME NEW s \in Seq(Nat), NEW t \in Seq(Nat), Increasing(s), Increasing(t),
         \A x \in ToSet(s) : \A y \in ToSet(t) : x < y
  PROVE  ToSet(s \o t) = ToSet(s) \cup ToSet(t) /\ Increasing(s \o t)
<1> DEFINE u == s \o t
<1>1. /\ Len(s) \in Nat /\ Len(t) \in Nat /\ DOMAIN u = 1..(Len(s) + Len(t))
      /\ \A k \in 1..Len(s) : u[k] = s[k]
      /\ \A k \in 1..Len(t) : u[Len(s) + k] = t[k]
      /\ DOMAIN s = 1..Len(s) /\ DOMAIN t = 1..Len(t)
  OBVIOUS
<1> HIDE DEF u
<1>2. ASSUME NEW k \in DOMAIN u
      PROVE  \/ k \in DOMAIN s /\ u[k] = s[k]
             \/ k - Len(s) \in DOMAIN t /\ u[k] = t[k - Len(s)] /\ k > Len(s)
  <2>1. CASE k \in 1..Len(s)
    BY <1>1, <2>1
  <2>2. CASE k \notin 1..Len(s)
    <3>1. k - Len(s) \in 1..Len(t) /\ k = Len(s) + (k - Len(s)) /\ k > Len(s)
      BY <1>1, <2>2
    <3> QED BY <1>1, <3>1
  <2> QED BY <2>1, <2>2
<1>3. ToSet(u) = ToSet(s) \cup ToSet(t)
  <2>1. ASSUME NEW k \in DOMAIN s PROVE \E m \in DOMAIN u : u[m] = s[k]
    BY <1>1
  <2>2. ASSUME NEW k \in DOMAIN t PROVE \E m \in DOMAIN u : u[m] = t[k]
    <3>1. Len(s) + k \in DOMAIN u
      BY <1>1
    <3> QED BY <1>1, <3>1
  <2> QED BY <1>2, <2>1, <2>2 DEF ToSet
<1>4. Increasing(u)
  <2> SUFFICES ASSUME NEW k \in DOMAIN u, NEW l \in DOMAIN u, k < l PROVE u[k] < u[l]
    BY DEF Increasing
  <2>1. CASE l \in DOMAIN s
    <3>1. k \in DOMAIN s
      BY <1>1, <2>1
    <3> QED BY <1>1, <2>1, <3>1 DEF Increasing
  <2>2. CASE k \in DOMAIN s /\ l \notin DOMAIN s
    BY <1>1, <1>2, <2>2 DEF ToSet
  <2>3. CASE k \notin DOMAIN s /\ l \notin DOMAIN s
    <3>1. /\ k - Len(s) \in DOMAIN t /\ u[k] = t[k - Len(s)]
          /\ l - Len(s) \in DOMAIN t /\ u[l] = t[l - Len(s)]
      BY <1>2, <2>3
    <3>2. k - Len(s) < l - Len(s)
      BY <1>1
    <3> QED BY <3>1, <3>2 DEF Increasing
  <2> QED BY <2>1, <2>2, <2>3
<1> QED BY <1>3, <1>4 DEF u

\* A call takes the word it is in, which an earlier call in the same word may have, and those behind.
LEMMA GoesAccounts ==
  ASSUME TypesInv, Accounted, NEW o \in Options, NEW att, Goes(o, att)
  PROVE  Accounted'
<1> DEFINE w == Wanted(o, att)
           args == Args(o, att)
           c == [opt |-> o, word |-> i, args |-> args]
           N == i..(i + w)
<1>1. outcome = "running" /\ i < argc
  BY DEF Goes
<1>2. /\ w \in Nat /\ i + w < argc /\ c \in Calls /\ calls' = Append(calls, c)
      /\ UNCHANGED <<input, argv, argc, endp, tables, taken>>
      /\ outcome' \in {"running", "exit_true", "exit_false"}
  BY GoesOn
<1>3. /\ ArgsCount[o] \in {AllArgs, Len(args)}
      /\ Whole(args) = (i + 1)..(i + w) /\ Cardinality(Whole(args)) = w
  BY ArgsAre DEF Goes
<1>4. c.word = i /\ c.args = args /\ c.opt = o
  OBVIOUS
<1>5. /\ argc = Count /\ argc \in Nat /\ i \in Nat /\ endp \in Nat /\ first \in Nat /\ ptr \in Nat
      /\ first <= endp /\ endp <= i
  BY <1>1, Within
<1>6. /\ Read \subseteq DOMAIN words /\ Used \subseteq Read /\ Separate /\ Ordered /\ Followed /\ Apart /\ EndLeft
      /\ Read = first..(IF ptr = 0 THEN i - 1 ELSE i)
      /\ \A x \in Read : x \in Nat /\ (x < i \/ (x = i /\ i \in Called /\ ptr # 0))
      /\ Left = {}
      /\ ptr # 0 => \E k \in DOMAIN calls : calls[k].word = i
      /\ \A k \in DOMAIN calls : Consumed(calls[k]) \subseteq Called
  BY <1>1, ReadIs
<1>7. DOMAIN words = 0..(argc - 1)
  BY <1>5, SlotsAre
<1>8. \/ ptr' = 0 /\ i' = i + 1 + w
      \/ w = 0 /\ i' = i /\ ptr' = ptr + 1
  BY DEF Goes
<1>9. calls \in Seq(Calls)
  BY DEF TypesInv, ParserTyped
<1> HIDE DEF w, args, c
<1>10. Consumed(c) = N
  <2>1. N = {i} \cup ((i + 1)..(i + w))
    BY <1>2, <1>5
  <2> QED BY <1>3, <1>4, <2>1 DEF Consumed
<1>11. Called' = Called \cup N
  BY <1>2, <1>9, <1>10, CalledGrows
<1>12. Kept' = Kept /\ ToSet(taken)' = ToSet(taken) /\ UNCHANGED <<words, first, endp, argv, taken>>
  BY <1>2 DEF Kept, input
<1>13. Read' = Read \cup N
  <2>1. Read' = first..(IF ptr' = 0 THEN i' - 1 ELSE i')
    BY <1>12 DEF Read
  <2>2. Read' = first..(i + w)
    <3>1. (IF ptr' = 0 THEN i' - 1 ELSE i') = i + w
      BY <1>2, <1>5, <1>8
    <3> QED BY <2>1, <3>1
  <2>3. Read \cup N = first..(i + w)
    BY <1>2, <1>5, <1>6
  <2> QED BY <2>2, <2>3
<1>14. \A x \in Used : x \in N => x \in Called
  <2> SUFFICES ASSUME NEW x \in Used, x \in N PROVE x \in Called
    OBVIOUS
  <2>1. x \in Read
    BY <1>6
  <2>2. ~(x < i)
    BY <1>2, <1>5
  <2> QED BY <1>6, <2>1, <2>2
<1> SUFFICES ASSUME outcome' \in {"running", "done"}
             PROVE  /\ (Read \subseteq DOMAIN words)' /\ (Used \subseteq Read)'
                    /\ Separate' /\ Ordered' /\ Followed' /\ Apart' /\ EndLeft'
  BY DEF Accounted
<1>15. (Read \subseteq DOMAIN words)'
  <2>1. N \subseteq DOMAIN words
    BY <1>2, <1>5, <1>7
  <2> QED BY <1>6, <1>12, <1>13, <2>1
<1>16. Used' = Used \cup N
  BY <1>11, <1>12 DEF Used
<1>17. Left' = {}
  BY <1>6, <1>13, <1>16 DEF Left
<1>18. Separate'
  <2>1. ASSUME NEW x \in Kept PROVE x \notin N
    BY <1>6, <1>14, <2>1 DEF Separate, Used
  <2>2. ASSUME NEW x \in ToSet(taken) PROVE x \notin N
    BY <1>6, <1>14, <2>2 DEF Separate, Used
  <2> QED BY <1>6, <1>11, <1>12, <2>1, <2>2 DEF Separate
<1>19. Ordered'
  BY <1>6, <1>12 DEF Ordered, Increasing
<1>20. /\ \A k \in DOMAIN calls' : (k \in DOMAIN calls /\ calls'[k] = calls[k]) \/ calls'[k] = c
  BY <1>2, <1>9
<1>21. Followed'
  <2>1. Follows(c)
    BY <1>3, <1>4 DEF Follows
  <2>2. \A k \in DOMAIN calls' : Follows(calls'[k])
    BY <1>6, <1>20, <2>1 DEF Followed
  <2> QED BY <2>2 DEF Followed
<1>22. ASSUME NEW k \in DOMAIN calls, calls[k].word # i PROVE Consumed(calls[k]) \cap N = {}
  <2> SUFFICES ASSUME NEW x \in Consumed(calls[k]), x \in N PROVE FALSE
    OBVIOUS
  <2>1. x \in Used /\ x \in Read
    BY <1>6 DEF Used
  <2>2. x = i /\ ptr # 0
    <3>1. ~(x < i)
      BY <1>2, <1>5
    <3> QED BY <1>6, <2>1, <3>1
  <2>3. PICK m \in DOMAIN calls : calls[m].word = i
    BY <1>6, <2>2
  <2>4. i \in Consumed(calls[m]) /\ i \in Consumed(calls[k])
    BY <2>2, <2>3 DEF Consumed
  <2> QED BY <1>6, <1>22, <2>3, <2>4 DEF Apart
<1>23. Apart'
  <2>1. ASSUME NEW k \in DOMAIN calls', NEW l \in DOMAIN calls', calls'[k].word # calls'[l].word
        PROVE  Consumed(calls'[k]) \cap Consumed(calls'[l]) = {}
    <3>1. CASE calls'[k] = c /\ l \in DOMAIN calls /\ calls'[l] = calls[l]
      BY <1>4, <1>10, <1>22, <2>1, <3>1
    <3>2. CASE calls'[l] = c /\ k \in DOMAIN calls /\ calls'[k] = calls[k]
      BY <1>4, <1>10, <1>22, <2>1, <3>2
    <3>3. CASE calls'[k] = c /\ calls'[l] = c
      BY <2>1, <3>3
    <3>4. CASE k \in DOMAIN calls /\ calls'[k] = calls[k] /\ l \in DOMAIN calls /\ calls'[l] = calls[l]
      BY <1>6, <2>1, <3>4 DEF Apart
    <3> QED BY <1>20, <3>1, <3>2, <3>3, <3>4
  <2> QED BY <2>1 DEF Apart
<1>24. EndLeft'
  <2>1. \A k \in Kept \cup ToSet(taken) : words[k].kind = "plain"
    BY <1>6 DEF EndLeft
  <2> QED BY <1>12, <1>17, <2>1 DEF EndLeft
<1> QED BY <1>15, <1>6, <1>13, <1>16, <1>18, <1>19, <1>21, <1>23, <1>24

\* A step that moves words, which are no options, to the front or hands them over.
LEMMA MovesAccount ==
  ASSUME TypesInv, Accounted, outcome = "running", i < argc, ptr = 0,
         NEW b \in Nat, NEW e \in Nat, i <= b, b <= i + 1, b <= e, e <= argc,
         b = i \/ words[i].kind = "end", b = i \/ e = argc,
         b = i => \A k \in b..(e - 1) : words[k].kind = "plain",
         UNCHANGED <<words, first, argc, ptr, calls>>, i' = e, i < e,
         outcome' \in {"running", "done"} => outcome' = "running",
         outcome' = "running" =>
           \/ /\ Kept' = Kept \cup b..(e - 1) /\ taken' = taken /\ Ordered'
           \/ /\ Kept' = Kept /\ ToSet(taken') = ToSet(taken) \cup b..(e - 1) /\ Ordered'
           \/ /\ Kept' = Kept /\ taken' = taken /\ Ordered' /\ b = e
  PROVE  Accounted'
<1> DEFINE N == b..(e - 1)
<1>1. /\ argc = Count /\ argc \in Nat /\ i \in Nat /\ endp \in Nat /\ first \in Nat /\ ptr \in Nat
      /\ first <= endp /\ endp <= i
  BY Within
<1>2. /\ Read \subseteq DOMAIN words /\ Used \subseteq Read /\ Separate /\ Ordered /\ Followed /\ Apart /\ EndLeft
      /\ Read = first..(i - 1)
      /\ \A x \in Read : x \in Nat /\ x < i
      /\ Left = {}
  BY ReadIs
<1>3. DOMAIN words = 0..(argc - 1)
  BY <1>1, SlotsAre
<1>4. Called' = Called
  BY DEF Called
<1>5. Read' = first..(e - 1)
  BY DEF Read
<1>6. Read' = Read \cup i..(e - 1)
  BY <1>1, <1>2, <1>5
<1>7. \A x \in N : x \notin Read /\ x \in Nat /\ i <= x
  BY <1>1, <1>2
<1> SUFFICES ASSUME outcome' = "running"
             PROVE  /\ (Read \subseteq DOMAIN words)' /\ (Used \subseteq Read)'
                    /\ Separate' /\ Ordered' /\ Followed' /\ Apart' /\ EndLeft'
  BY DEF Accounted
<1>8. (Read \subseteq DOMAIN words)'
  BY <1>1, <1>3, <1>5
<1>9. Ordered'
  OBVIOUS
<1>10. \/ Kept' = Kept \cup N /\ ToSet(taken)' = ToSet(taken)
       \/ Kept' = Kept /\ ToSet(taken)' = ToSet(taken) \cup N
  <2>1. b = e => N = {}
    OBVIOUS
  <2> QED BY <2>1
<1> HIDE DEF N
<1>11. Used' = Used \cup N
  BY <1>4, <1>10 DEF Used
<1>12. N \subseteq i..(e - 1) /\ (b = i => N = i..(e - 1)) /\ (b # i => i..(e - 1) = N \cup {i} /\ i \notin N)
  BY <1>1 DEF N
<1>13. (Used \subseteq Read)'
  BY <1>2, <1>6, <1>11, <1>12
<1>14. Separate'
  BY <1>2, <1>4, <1>7, <1>10 DEF Separate, Used
<1>15. Followed' /\ Apart'
  BY <1>2 DEF Followed, Apart
<1>16. Left' = IF b = i THEN {} ELSE {i}
  <2>1. i \notin Read
    BY <1>1, <1>2
  <2> QED BY <1>2, <1>6, <1>11, <1>12, <2>1 DEF Left
<1>17. EndLeft'
  <2>1. Left' = {} \/ \E x \in Left' : /\ Left' = {x} /\ words'[x].kind = "end" /\ (outcome' = "running" => i' = argc')
    BY <1>16
  <2>2. ASSUME NEW k \in Kept' \cup ToSet(taken)', words[k].kind # "plain"
        PROVE  \E l \in Left' : l < k
    <3>1. k \in N
      BY <1>2, <1>10, <2>2 DEF EndLeft
    <3>2. b # i
      BY <2>2, <3>1 DEF N
    <3>3. i < k
      BY <1>7, <1>12, <3>1, <3>2
    <3> QED BY <1>16, <3>2, <3>3
  <2> QED BY <2>1, <2>2 DEF EndLeft
<1> QED BY <1>8, <1>9, <1>13, <1>14, <1>15, <1>17

\* The words b to e - 1, moved to the front.
LEMMA KeptGrows ==
  ASSUME NEW b \in Nat, NEW e \in Nat, b <= e, first \in Nat, endp \in Nat, first <= endp,
         first' = first, endp' = endp + (e - b),
         \A j \in first..(endp - 1) : argv'[j] = argv[j],
         \A j \in endp..(endp' - 1) : argv'[j] = j - endp + b,
         \A x \in Kept : x \in Nat /\ x < b, Ordered, taken' = taken
  PROVE  Kept' = Kept \cup b..(e - 1) /\ Ordered'
<1>1. Kept' = {argv'[j] : j \in first..(endp' - 1)}
  BY DEF Kept
<1>2. \A j \in first..(endp' - 1) : j \in first..(endp - 1) \/ j \in endp..(endp' - 1)
  OBVIOUS
<1>3. \A j \in first..(endp - 1) : j \in first..(endp' - 1) /\ argv[j] \in Kept
  BY DEF Kept
<1>4. \A j \in endp..(endp' - 1) : j \in first..(endp' - 1) /\ j - endp + b \in b..(e - 1)
  OBVIOUS
<1>5. ASSUME NEW x \in b..(e - 1) PROVE \E j \in first..(endp' - 1) : argv'[j] = x
  <2>1. x - b + endp \in endp..(endp' - 1) /\ (x - b + endp) - endp + b = x
    OBVIOUS
  <2> QED BY <1>4, <2>1
<1>6. ASSUME NEW x \in Kept PROVE \E j \in first..(endp' - 1) : argv'[j] = x
  BY <1>3 DEF Kept
<1>7. ASSUME NEW j \in first..(endp' - 1) PROVE argv'[j] \in Kept \cup b..(e - 1)
  BY <1>2, <1>3, <1>4
<1>8. Kept' = Kept \cup b..(e - 1)
  BY <1>1, <1>5, <1>6, <1>7
<1>9. ASSUME NEW j \in first..(endp' - 1), NEW k \in first..(endp' - 1), j < k
      PROVE  argv'[j] < argv'[k]
  <2>1. CASE k \in first..(endp - 1)
    <3>1. j \in first..(endp - 1)
      BY <1>9, <2>1
    <3> QED BY <1>9, <2>1, <3>1 DEF Ordered
  <2>2. CASE j \in first..(endp - 1) /\ k \in endp..(endp' - 1)
    <3>1. argv'[j] \in Kept /\ argv'[k] \in b..(e - 1)
      BY <1>3, <1>4, <2>2
    <3> QED BY <3>1
  <2>3. CASE j \in endp..(endp' - 1) /\ k \in endp..(endp' - 1)
    BY <1>9, <2>3
  <2> QED BY <1>2, <1>9, <2>1, <2>2, <2>3
<1>10. Ordered'
  BY <1>1, <1>9 DEF Ordered, Increasing
<1> QED BY <1>8, <1>10

\* The words b to e - 1, handed over.
LEMMA HandedOver ==
  ASSUME NEW b \in Nat, NEW e \in Nat, b <= e, taken \in Seq(Nat), NEW t \in Seq(Nat),
         Len(t) = e - b, \A k \in 1..(e - b) : t[k] = b + k - 1, taken' = taken \o t,
         \A x \in ToSet(taken) : x \in Nat /\ x < b, Ordered, UNCHANGED <<argv, first, endp>>
  PROVE  ToSet(taken') = ToSet(taken) \cup b..(e - 1) /\ Ordered'
<1>1. DOMAIN t = 1..(e - b)
  OBVIOUS
<1>2. Increasing(t)
  BY <1>1 DEF Increasing
<1>3. ToSet(t) = b..(e - 1)
  <2>1. ASSUME NEW k \in DOMAIN t PROVE t[k] \in b..(e - 1)
    BY <1>1
  <2>2. ASSUME NEW x \in b..(e - 1) PROVE \E k \in DOMAIN t : t[k] = x
    <3>1. x - b + 1 \in DOMAIN t /\ t[x - b + 1] = x
      BY <1>1
    <3> QED BY <3>1
  <2> QED BY <2>1, <2>2 DEF ToSet
<1>4. \A x \in ToSet(taken) : \A y \in ToSet(t) : x < y
  BY <1>3
<1>5. ToSet(taken') = ToSet(taken) \cup ToSet(t) /\ Increasing(taken')
  BY <1>2, <1>4, TakenGrows DEF Ordered
<1> QED BY <1>3, <1>5 DEF Ordered

\* A word that is no option.
LEMMA NonOptionAccounts ==
  ASSUME TypesInv, Accounted, NonOption
  PROVE  Accounted'
<1>1. /\ outcome = "running" /\ i < argc /\ ptr = 0 /\ Word.kind = "plain"
      /\ \/ argv' = [argv EXCEPT ![endp] = argv[i]] /\ endp' = endp + 1 /\ UNCHANGED <<taken, outcome>>
         \/ taken' = Append(taken, argv[i]) /\ UNCHANGED <<argv, endp, outcome>>
         \/ outcome' = "exit_false" /\ UNCHANGED <<argv, endp, taken>>
      /\ i' = i + 1
      /\ UNCHANGED <<words, first, argc, ptr, calls>>
  BY DEF NonOption, AtWord, input
<1>2. /\ argc = Count /\ argc \in Nat /\ i \in Nat /\ endp \in Nat /\ first \in Nat
      /\ first <= endp /\ endp <= i
      /\ argv[i] = i /\ words[i].kind = "plain"
  BY <1>1, Within
<1>3. argv \in [0..Count -> DOMAIN words \cup {None}] /\ taken \in Seq(Nat)
  BY SlotsAre
<1>4. /\ Used \subseteq Read /\ Ordered /\ \A x \in Read : x \in Nat /\ x < i
  BY <1>1, ReadIs
<1>5. /\ \A x \in Kept : x \in Nat /\ x < i
      /\ \A x \in ToSet(taken) : x \in Nat /\ x < i
  BY <1>4 DEF Used
<1>6. i..((i + 1) - 1) = {i} /\ (i + 1) - i = 1 /\ i + 1 \in Nat /\ i <= i + 1 /\ i < i + 1 /\ i + 1 <= argc
  BY <1>1, <1>2
<1>7. CASE argv' = [argv EXCEPT ![endp] = argv[i]] /\ endp' = endp + 1 /\ UNCHANGED <<taken, outcome>>
  <2>1. endp' = endp + ((i + 1) - i)
    BY <1>2, <1>7
  <2>2. ASSUME NEW j \in first..(endp - 1) PROVE argv'[j] = argv[j]
    BY <1>2, <1>3, <1>7
  <2>3. ASSUME NEW j \in endp..(endp' - 1) PROVE argv'[j] = j - endp + i
    <3>1. j = endp /\ endp \in 0..Count
      BY <1>1, <1>2, <1>7
    <3>2. argv'[j] = i
      BY <1>2, <1>3, <1>7, <3>1
    <3> QED BY <1>2, <3>1, <3>2
  <2>4. Kept' = Kept \cup i..((i + 1) - 1) /\ Ordered'
    BY <1>1, <1>2, <1>4, <1>5, <1>6, <1>7, <2>1, <2>2, <2>3, KeptGrows
  <2> QED BY <1>1, <1>2, <1>6, <1>7, <2>4, MovesAccount
<1>8. CASE taken' = Append(taken, argv[i]) /\ UNCHANGED <<argv, endp, outcome>>
  <2>1. taken' = taken \o <<i>>
    BY <1>2, <1>3, <1>8
  <2>2. <<i>> \in Seq(Nat) /\ Len(<<i>>) = (i + 1) - i /\ \A k \in 1..((i + 1) - i) : <<i>>[k] = i + k - 1
    BY <1>2
  <2>3. ToSet(taken') = ToSet(taken) \cup i..((i + 1) - 1) /\ Ordered'
    BY <1>1, <1>2, <1>3, <1>4, <1>5, <1>6, <1>8, <2>1, <2>2, HandedOver
  <2>4. Kept' = Kept /\ outcome' = "running"
    BY <1>1, <1>8 DEF Kept
  <2>5. \A k \in i..((i + 1) - 1) : words[k].kind = "plain"
    BY <1>2, <1>6
  <2> QED BY <1>1, <1>2, <1>6, <2>3, <2>4, <2>5, MovesAccount, SMTT(60)
<1>9. CASE outcome' = "exit_false"
  BY <1>9 DEF Accounted
<1> QED BY <1>1, <1>7, <1>8, <1>9

\* The words behind --, which itself is left.
LEMMA EndAccounts ==
  ASSUME TypesInv, Accounted, EndOfOptions
  PROVE  Accounted'
<1> DEFINE b == i + 1
           f == [j \in endp..(endp + argc - b - 1) |-> argv[j - endp + b]]
           t == [k \in 1..(argc - b) |-> argv[b + k - 1]]
<1>1. /\ outcome = "running" /\ i < argc /\ ptr = 0 /\ Word.kind = "end"
      /\ \/ Rewrite(f) /\ endp' = endp + argc - b /\ UNCHANGED <<taken, outcome>>
         \/ taken' = taken \o t /\ UNCHANGED <<argv, endp, outcome>>
         \/ outcome' = (IF b < argc THEN "exit_false" ELSE outcome) /\ UNCHANGED <<argv, endp, taken>>
      /\ i' = argc
      /\ UNCHANGED <<words, first, argc, ptr, calls>>
  BY DEF EndOfOptions, AtWord, HandOver, input
<1>2. /\ argc = Count /\ argc \in Nat /\ i \in Nat /\ endp \in Nat /\ first \in Nat
      /\ first <= endp /\ endp <= i
      /\ \A j \in i..(argc - 1) : argv[j] = j
      /\ words[i].kind = "end"
  BY <1>1, Within
<1>3. argv \in [0..Count -> DOMAIN words \cup {None}] /\ taken \in Seq(Nat)
  BY SlotsAre
<1>4. /\ Used \subseteq Read /\ Ordered /\ \A x \in Read : x \in Nat /\ x < i
  BY <1>1, ReadIs
<1>5. /\ \A x \in Kept : x \in Nat /\ x < b
      /\ \A x \in ToSet(taken) : x \in Nat /\ x < b
  BY <1>2, <1>4 DEF Used
<1>6. b \in Nat /\ b <= argc /\ i <= b /\ b <= i + 1 /\ b # i
  BY <1>1, <1>2
<1>7. CASE Rewrite(f) /\ endp' = endp + argc - b /\ UNCHANGED <<taken, outcome>>
  <2>1. endp' = endp + (argc - b)
    BY <1>2, <1>7
  <2>2. argv' = [j \in DOMAIN argv |-> IF j \in DOMAIN f THEN f[j] ELSE argv[j]]
    BY <1>7 DEF Rewrite
  <2>3. DOMAIN argv = 0..argc /\ DOMAIN f = endp..(endp' - 1)
    BY <1>2, <1>3, <2>1
  <2>4. ASSUME NEW j \in first..(endp - 1) PROVE argv'[j] = argv[j]
    <3>1. j \in DOMAIN argv /\ j \notin DOMAIN f
      BY <1>1, <1>2, <2>3
    <3> HIDE DEF f
    <3> QED BY <2>2, <3>1
  <2>5. ASSUME NEW j \in endp..(endp' - 1) PROVE argv'[j] = j - endp + b
    <3>1. j \in DOMAIN argv /\ j \in DOMAIN f /\ j - endp + b \in i..(argc - 1)
      <4>1. j \in Nat /\ endp <= j /\ j < endp + (argc - b)
        BY <1>2, <1>6, <2>1
      <4>2. j <= argc /\ j - endp + b \in i..(argc - 1)
        BY <1>2, <1>6, <4>1
      <4> QED BY <1>2, <2>3, <4>1, <4>2
    <3>2. f[j] = j - endp + b
      BY <1>2, <3>1
    <3> HIDE DEF f
    <3> QED BY <2>2, <3>1, <3>2
  <2> HIDE DEF b
  <2>6. Kept' = Kept \cup b..(argc - 1) /\ Ordered'
    BY <1>1, <1>2, <1>4, <1>5, <1>6, <1>7, <2>1, <2>4, <2>5, KeptGrows
  <2> QED BY <1>1, <1>2, <1>6, <1>7, <2>6, MovesAccount
<1>8. CASE taken' = taken \o t /\ UNCHANGED <<argv, endp, outcome>>
  <2>1. ASSUME NEW k \in 1..(argc - b) PROVE t[k] = b + k - 1 /\ t[k] \in Nat
    <3>1. b + k - 1 \in i..(argc - 1)
      BY <1>2
    <3> QED BY <1>2, <3>1
  <2>2. t \in Seq(Nat) /\ Len(t) = argc - b
    <3>1. argc - b \in Nat /\ t \in [1..(argc - b) -> Nat]
      BY <1>2, <1>6, <2>1
    <3> HIDE DEF t, b
    <3> QED BY <3>1
  <2> HIDE DEF t, b
  <2>3. ToSet(taken') = ToSet(taken) \cup b..(argc - 1) /\ Ordered'
    BY <1>1, <1>2, <1>3, <1>4, <1>5, <1>6, <1>8, <2>1, <2>2, HandedOver
  <2>4. Kept' = Kept
    BY <1>1, <1>8 DEF Kept
  <2> QED BY <1>1, <1>2, <1>6, <1>8, <2>3, <2>4, MovesAccount
<1>9. CASE outcome' = (IF b < argc THEN "exit_false" ELSE outcome) /\ UNCHANGED <<argv, endp, taken>>
  <2> HIDE DEF b
  <2>1. CASE b < argc
    BY <1>9, <2>1 DEF Accounted
  <2>2. CASE ~(b < argc)
    <3>1. b = argc /\ outcome' = outcome
      BY <1>2, <1>6, <1>9, <2>2
    <3>2. Kept' = Kept /\ Ordered'
      BY <1>1, <1>4, <1>9 DEF Kept, Ordered, Increasing
    <3> QED BY <1>1, <1>2, <1>6, <1>9, <3>1, <3>2, MovesAccount
  <2> QED BY <2>1, <2>2
<1> HIDE DEF f, t
<1> QED BY <1>1, <1>7, <1>8, <1>9

\* The account, from the start
LEMMA InitAccounts == ParserInit => Accounted
<1> SUFFICES ASSUME ParserInit PROVE Accounted
  OBVIOUS
<1>1. /\ first \in {0, 1} /\ endp = first /\ i = first /\ ptr = 0 /\ calls = <<>> /\ taken = <<>>
  BY DEF ParserInit
<1>2. Read = {} /\ Kept = {} /\ Called = {} /\ ToSet(taken) = {}
  BY <1>1 DEF Read, Kept, Called, ToSet
<1>3. Used = {} /\ Left = {}
  BY <1>2 DEF Used, Left
<1>4. Ordered
  BY <1>1 DEF Ordered, Increasing
<1>5. Followed /\ Apart
  BY <1>1 DEF Followed, Apart
<1>6. Separate
  BY <1>2 DEF Separate
<1>7. EndLeft
  BY <1>2, <1>3 DEF EndLeft
<1> QED BY <1>2, <1>3, <1>4, <1>5, <1>6, <1>7 DEF Accounted

\* and at each step.
LEMMA NextAccounts ==
  ASSUME TypesInv, Accounted, [ParserNext]_runVars
  PROVE  Accounted'
<1>1. CASE GenOpts \/ (outcome = "running" /\ Refuse)
  <2>1. /\ UNCHANGED <<words, first, argv, argc, endp, i, ptr, calls, taken>>
        /\ outcome = "running"
    BY <1>1 DEF GenOpts, Refuse, AtOption, AtWord, input
  <2> QED BY <2>1, AccountKept
<1>2. CASE Finish
  <2>1. /\ outcome = "running" /\ argv' = [argv EXCEPT ![endp] = None] /\ outcome' \in {"done", "exit_false"}
        /\ UNCHANGED <<words, first, endp, i, ptr, calls, taken>>
    BY <1>2 DEF Finish, input
  <2>2. endp \in Nat /\ first \in Nat /\ endp <= argc /\ argc = Count /\ argc \in Nat
    BY <2>1, Within
  <2>3. argv \in [0..Count -> DOMAIN words \cup {None}]
    BY SlotsAre
  <2>4. ASSUME NEW j \in first..(endp - 1) PROVE argv'[j] = argv[j]
    <3>1. j \in 0..Count /\ j # endp
      BY <2>2
    <3> QED BY <2>1, <2>3, <3>1
  <2> QED BY <2>1, <2>4, AccountKept
<1>3. CASE LogLevelOption
  <2>1. /\ UNCHANGED <<words, first, argv, argc, endp, i, ptr, calls, taken>>
        /\ outcome' = outcome \/ outcome' = "exit_false"
    BY <1>3 DEF LogLevelOption, parserVars, input
  <2> QED BY <2>1, AccountKept
<1>4. ASSUME NEW o \in Options, NEW att, Goes(o, att) PROVE Accounted'
  BY <1>4, GoesAccounts
<1>5. CASE UNCHANGED runVars
  <2>1. UNCHANGED <<words, first, argv, argc, endp, i, ptr, calls, taken, outcome>>
    BY <1>5 DEF runVars, parserVars, input
  <2> QED BY <2>1, AccountKept
<1> QED BY <1>1, <1>2, <1>3, <1>4, <1>5, StepsAre, NonOptionAccounts, EndAccounts

\* What the account says.
LEMMA AccountedOnce == TypesInv /\ LevelsTyped /\ Accounted => WordsOnce
<1> SUFFICES ASSUME TypesInv, LevelsTyped, Accounted PROVE WordsOnce
  OBVIOUS
<1>1. ParserTypeOK
  BY TypesImply
<1> SUFFICES ASSUME outcome \in {"running", "done"}
             PROVE
    LET rest == Read \ (Kept \cup Called \cup ToSet(taken)) IN
    /\ rest \subseteq DOMAIN words
    /\ outcome = "running" => /\ endp <= i
                              /\ \A j \in i..(argc - 1) : argv[j] = j
    /\ Kept \cup Called \cup ToSet(taken) \subseteq Read
    /\ Kept \cap Called = {} /\ (Kept \cup Called) \cap ToSet(taken) = {}
    /\ Increasing(SubSeq([j \in 1..endp |-> argv[j - 1]], first + 1, endp))
    /\ Increasing(taken)
    /\ \A k \in DOMAIN calls :
         LET c == calls[k] IN
         /\ Whole(c.args) = c.word + 1..(c.word + Cardinality(Whole(c.args)))
         /\ ArgsCount[c.opt] \in {AllArgs, Len(c.args)}
    /\ \A k, l \in DOMAIN calls :
         calls[k].word # calls[l].word => Consumed(calls[k]) \cap Consumed(calls[l]) = {}
    /\ Cardinality(rest) <= 1
    /\ \A k \in rest : words[k].kind = "end"
    /\ \A k \in Kept \cup ToSet(taken) :
         words[k].kind # "plain" => \E l \in rest : l < k
  BY <1>1 DEF WordsOnce
<1>2. Read \subseteq DOMAIN words /\ Used \subseteq Read /\ Separate /\ Ordered /\ Followed /\ Apart /\ EndLeft
  BY DEF Accounted
<1>3. Left = Read \ (Kept \cup Called \cup ToSet(taken))
  BY DEF Left, Used
<1>4. outcome = "running" => endp <= i /\ \A j \in i..(argc - 1) : argv[j] = j
  BY DEF TypesInv, Running
<1>5. Increasing(SubSeq([j \in 1..endp |-> argv[j - 1]], first + 1, endp))
  <2> DEFINE s == [j \in 1..endp |-> argv[j - 1]]
             u == SubSeq(s, first + 1, endp)
  <2>1. endp \in Nat /\ first \in Nat /\ first <= endp
    <3>1. endp \in 0..(MaxWords + 1) /\ MaxWords \in Nat
      BY SlotsAre, OptionAssumption
    <3>2. first \in {0, 1}
      BY DEF TypesInv, InputTyped
    <3> QED BY <1>2, <3>1, <3>2 DEF Ordered
  <2>2. /\ \A j, k \in first..(endp - 1) : j < k => argv[j] < argv[k]
    BY <1>2 DEF Ordered
  <2>3. \A j \in 1..endp : s[j] = argv[j - 1]
    OBVIOUS
  <2> HIDE DEF s
  <2>4. /\ DOMAIN u = 1..(endp - first)
        /\ \A k \in 1..(endp - first) : u[k] = s[first + k]
    <3> DEFINE S == {s[j] : j \in (first + 1)..endp}
    <3>1. first + 1 \in Int /\ endp \in Int /\ \A j \in (first + 1)..endp : s[j] \in S
      BY <2>1
    <3> HIDE DEF S
    <3>2. /\ u \in Seq(S)
          /\ Len(u) = IF first + 1 <= endp THEN endp - (first + 1) + 1 ELSE 0
          /\ \A k \in 1..(endp - (first + 1) + 1) : u[k] = s[(first + 1) + k - 1]
      BY <3>1, SubSeqProperties
    <3> HIDE DEF u
    <3>3. Len(u) = endp - first
      BY <2>1, <3>2
    <3>4. DOMAIN u = 1..(endp - first)
      BY <3>2, <3>3
    <3>5. ASSUME NEW k \in 1..(endp - first) PROVE u[k] = s[first + k]
      <4>1. k \in 1..(endp - (first + 1) + 1) /\ (first + 1) + k - 1 = first + k
        BY <2>1
      <4>2. u[k] = s[(first + 1) + k - 1]
        BY <3>2, <4>1
      <4> QED BY <4>1, <4>2
    <3> QED BY <3>4, <3>5
  <2> HIDE DEF u
  <2>5. ASSUME NEW k \in DOMAIN u, NEW l \in DOMAIN u, k < l PROVE u[k] < u[l]
    <3>1. k \in 1..(endp - first) /\ l \in 1..(endp - first)
      BY <2>4
    <3>2. /\ first + k \in 1..endp /\ first + l \in 1..endp
          /\ (first + k) - 1 \in first..(endp - 1) /\ (first + l) - 1 \in first..(endp - 1)
          /\ (first + k) - 1 < (first + l) - 1
      BY <2>1, <2>5, <3>1
    <3>3. u[k] = argv[(first + k) - 1] /\ u[l] = argv[(first + l) - 1]
      <4>1. u[k] = s[first + k] /\ u[l] = s[first + l]
        BY <2>4, <3>1
      <4>2. s[first + k] = argv[(first + k) - 1] /\ s[first + l] = argv[(first + l) - 1]
        BY <2>3, <3>2, Zenon
      <4> QED BY <4>1, <4>2
    <3> QED BY <2>2, <3>2, <3>3
  <2> QED BY <2>5 DEF Increasing, u, s
<1>6. Cardinality(Left) <= 1
  <2>1. CASE Left = {}
    BY <2>1, FS_EmptySet
  <2>2. ASSUME NEW e, Left = {e} PROVE Cardinality(Left) <= 1
    <3>1. Cardinality({e}) = 1
      BY FS_Singleton
    <3> QED BY <2>2, <3>1
  <2> QED BY <1>2, <2>1, <2>2 DEF EndLeft
<1>7. \A k \in Left : words[k].kind = "end"
  BY <1>2 DEF EndLeft
<1> QED BY <1>2, <1>3, <1>4, <1>5, <1>6, <1>7 DEF Used, Separate, Ordered, Followed, Follows, Apart, EndLeft

\* Run() uses each argument once: it is an option, an argument of one, handed over, kept at
\* the front in its order, or the one -- that ended the options; and no argument that is
\* still to be read has been overwritten.
THEOREM WordsAlwaysOnce == ParserSpec => []WordsOnce
<1>1. ParserInit => TypesInv /\ LevelsInv /\ Accounted
  BY InitTyped, InitRecords, InitAccounts
<1>2. TypesInv /\ LevelsInv /\ Accounted /\ [ParserNext]_runVars => TypesInv' /\ LevelsInv' /\ Accounted'
  BY NextTyped, NextRecords, NextAccounts
<1>3. TypesInv /\ LevelsInv /\ Accounted => WordsOnce
  BY AccountedOnce DEF LevelsInv
<1> QED BY <1>1, <1>2, <1>3, PTL DEF ParserSpec
=============================================================================
