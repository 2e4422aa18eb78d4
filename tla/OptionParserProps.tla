--------------------------- MODULE OptionParserProps ---------------------------
(* What OptionParser promises, with the log levels that its option sets. *)
EXTENDS OptionParser

Slots == 0..(MaxWords + 1)
Ends == [1..2 -> Nat]

ParserTypeOK ==
  /\ argc \in Slots /\ endp \in Slots /\ i \in Slots /\ ptr \in Nat
  /\ DOMAIN argv = 0..Cardinality(DOMAIN words)
  /\ \A j \in DOMAIN argv : argv[j] \in DOMAIN words \cup {None}
  /\ groups \in Seq(Groups) /\ old_len \in 0..Len(groups)
  /\ short_opts \in [Letters -> Options \cup {None}] /\ long_opts \in Seq(Options)
  /\ non_arg_fun \in {None, "fail", "take"} /\ was_command \in BOOLEAN
  /\ outcome \in {"running", "done", "exit_true", "exit_false", "logic_error"}
  /\ calls \in Seq([opt : Options, word : Nat, args : Seq(Ends)]) /\ taken \in Seq(Nat)
  /\ tokens = Idle \/ tokens \in Seq([name : Names \cup {NoName}, level : Levels \cup {BadLevel}])
  /\ strings \in Seq(Names) /\ global_level \in Levels
  /\ level_map \in Seq([first : [name : Names, block : Nat], level : Levels])
-----------------------------------------------------------------------------
Increasing(s) == \A k, l \in DOMAIN s : k < l => s[k] < s[l]
Whole(args) == {args[k][1] : k \in {l \in DOMAIN args : args[l][2] = 0}}
Consumed(c) == {c.word} \cup Whole(c.args)
Kept == {argv[j] : j \in first..(endp - 1)}
Called == UNION {Consumed(calls[k]) : k \in DOMAIN calls}
Read == first..(IF ptr = 0 THEN i - 1 ELSE i)

\* While options are parsed no unread argument is overwritten by what moves to the
\* front, though both are in argv; and up to every point, each argument before it
\* has gone one way: it is an option or an argument of one, was given to the
\* handler, is kept, or is the -- that ended the options.  Those that are kept or
\* handed over are in their order, and an option's arguments are the words after it.
WordsOnce ==
  /\ ParserTypeOK
  /\ outcome \in {"running", "done"} =>
    LET rest == Read \ (Kept \cup Called \cup ToSet(taken)) IN
    /\ rest \subseteq DOMAIN words
    /\ outcome = "running" => /\ endp <= i
                              /\ \A j \in i..(argc - 1) : argv[j] = j
    /\ Kept \cup Called \cup ToSet(taken) \subseteq Read
    /\ Kept \cap Called = {} /\ (Kept \cup Called) \cap ToSet(taken) = {}
    /\ Increasing(SubSeq([j \in 1..endp |-> argv[j - 1]], first + 1, endp))
    /\ Increasing(taken)
    /\ \A k \in DOMAIN calls :
         LET c == calls[k] IN
         /\ Whole(c.args) = c.word + 1..(c.word + Cardinality(Whole(c.args)))
         /\ ArgsCount[c.opt] \in {AllArgs, Len(c.args)}
    /\ \A k, l \in DOMAIN calls :
         calls[k].word # calls[l].word => Consumed(calls[k]) \cap Consumed(calls[l]) = {}
    /\ Cardinality(rest) <= 1
    /\ \A k \in rest : words[k].kind = "end"
    /\ \A k \in Kept \cup ToSet(taken) :
         words[k].kind # "plain" => \E l \in rest : l < k

\* The options that a word with -- may mean: the one of that name, or else the only
\* one whose name begins so.
Meant(w) ==
  LET S == {o \in OptionsOf(groups) : IsPrefix(w.text, Name[o])}
      exact == {o \in S : Name[o] = w.text}
  IN  IF exact # {} THEN exact ELSE IF Cardinality(S) = 1 THEN S ELSE {}

\* The sorted table with its lower_bound finds that option, among all that are
\* enabled in all groups, the ones that a command has added before included; it
\* finds none exactly if none is meant.
OptionsResolved ==
  [][InLong =>
       IF Meant(Word) = {} THEN outcome' = "exit_false" /\ calls' = calls
       ELSE \/ calls' # calls /\ Last(calls').opt \in Meant(Word)
            \/ /\ outcome' = "exit_false"
               /\ \A o \in Meant(Word) :
                    ~Enough(o, Value) \/ (Word.eq /\ ArgsCount[o] = 0)]_runVars
-----------------------------------------------------------------------------
Answered(n) ==
  GetLogLevel(n) = {IF latest[n] = NoName THEN global_level ELSE latest[n]}

\* The level last given for a module is the one that is in force for it, unless an
\* option was refused half way; for modules whose name is long.
LongNamesAnswered ==
  tokens = Idle /\ outcome # "exit_false" => \A n \in Names \ Short : Answered(n)
=============================================================================
