--------------------------- MODULE LogOutputProps ---------------------------
(* What a reader of the log may rely on, and what LogOutput breaks. *)
EXTENDS LogOutput

TypeOK ==
  /\ pc \in [Threads -> Steps]
  /\ todo \in [Threads -> [name: Nat, lines: Nat, tail: BOOLEAN]]
  /\ seen \in [Threads -> Nat] /\ max_name \in Nat
  /\ buf \in [Threads -> Seq(Parts)]
  /\ good \in [Threads -> BOOLEAN] /\ held \in [Threads -> BOOLEAN]
  /\ manual \in [Threads -> BOOLEAN] /\ block \in [Threads -> Nat]
  /\ stream \in Seq(Pieces) /\ disk \in Seq(Pieces) /\ handed \in Seq(Pieces)
  /\ asked \in [Threads -> Seq([text: Texts, block: Nat])]

\* Two pieces that belong together: of one insertion, or of one manual lock.
Together(p, q) ==
  /\ p.by = q.by
  /\ p.insertion = q.insertion \/ (p.block # 0 /\ p.block = q.block)

\* xsputn keeps the mutex from the first complete line of a text to its last
\* one, and GetLogMutex() can be locked around several texts: the lines of either
\* reach std::clog with nothing of another thread between them.
BlocksUnbroken ==
  \A i, k \in DOMAIN handed : i < k /\ Together(handed[i], handed[k]) =>
    \A j \in i..k : handed[j].by = handed[i].by

\* The piece of t that comes to slot k of std::clog will be the first of a line.
LineBegins(t, k) ==
  \A i \in 1..(k - 1) : handed[i].by = t /\ (\A j \in (i + 1)..(k - 1) : handed[j].by # t)
                          => handed[i].part = "end"

\* What a thread has handed over and what is still in its buffer are whole lines:
\* one header, then texts, then one end, even when a line is put together from
\* several insertions or cut in the middle by the end of one.
LinesWhole ==
  /\ \A k \in DOMAIN handed : handed[k].part = "head" <=> LineBegins(handed[k].by, k)
  /\ \A t \in Threads : \A k \in DOMAIN buf[t] :
       buf[t][k] = "head" <=> IF k = 1 THEN LineBegins(t, Len(handed) + 1)
                              ELSE buf[t][k - 1] = "end"

\* The lines that insertion i of t has ended.
Ended(t, i) == {k \in DOMAIN handed : /\ handed[k].by = t /\ handed[k].insertion = i
                                     /\ handed[k].part = "end"}

\* No complete line of a text is lost or repeated on its way to std::clog.
LinesKept ==
  \A t \in Threads : pc[t] = "idle" /\ good[t] =>
    \A i \in DOMAIN asked[t] : Cardinality(Ended(t, i)) = asked[t][i].text.lines

\* Lines reach std::clog whole and once, unless the stream has gone bad.
LinesIntact == TypeOK /\ LinesWhole /\ LinesKept

\* An insertion returns: the recursive mutex never makes threads wait for each
\* other, or a thread for itself, for ever.
InsertionReturns == \A t \in Threads : pc[t] # "idle" ~> pc[t] = "idle"
=============================================================================
