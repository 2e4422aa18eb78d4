----------------------------- MODULE OptionParser -----------------------------
(***************************************************************************)
(* options.cpp: OptionParser::Run.  It goes through argv once, calls the    *)
(* options' functions and the handler of the other arguments, and moves     *)
(* what is left over to the front of argv.                                  *)
(*                                                                         *)
(* A string is abstracted to what the parser tells apart: words[k] is the   *)
(* k-th argument as it was given, argv[j] the number of the word that the    *)
(* pointer at j points at, <<k, from>> the end of word k that begins with    *)
(* its part from (0 for all of it).  Slots count from 0, as in the code.     *)
(*                                                                         *)
(* The functions of the options: of the commands of a program, as in the     *)
(* test "command like usage"; of --help; of --log-level, which LogLevels     *)
(* models step by step; and others that change nothing here.                 *)
(***************************************************************************)
EXTENDS LogLevels, FiniteSets, SequencesExt

CONSTANTS
  Words,      \* [kind, text, eq]: kind is "plain", "short", "long" or "end";
              \* text is the letters of the options, or of the name after --;
              \* eq whether = and a value follow it
  Tokens,     \* Tokens[w]: what --log-level sees in the value that is a part of w
  WholeTokens, \* what it sees in all of w, which may look like an option: -1 is a level
  Letters, Equals,
  Groups, FirstGroup,
  Options,
  Group,      \* of an option
  Name,       \* a sequence of letters; letters are numbers from 1 on
  ShortName,  \* a letter, or None
  ArgsCount,  \* a number, or AllArgs
  Kind,       \* of its function: "plain", "help", "command" or "log_level"
  AddedGroup, \* the group that a command adds
  Optional,   \* those that are disabled until the program enables them
  None, AllArgs,
  Argv0,      \* the word that the name of the program is
  MaxWords    \* bound: the arguments of the program, without argv0

ASSUME OptionAssumption ==
  /\ Letters \subseteq Nat \ {0} /\ Equals \in Nat \ ({0} \cup Letters)
  /\ FirstGroup \in Groups
  /\ AllArgs \notin Nat
  /\ IsFiniteSet(Options) /\ Group \in [Options -> Groups]
  /\ \A o \in Options : /\ Name[o] \in Seq(Letters) /\ Name[o] # <<>>
                        /\ ArgsCount[o] \in Nat \cup {AllArgs}
                        /\ ShortName[o] \in Letters \cup {None}
                        /\ Kind[o] \in {"plain", "help", "command", "log_level"}
                        /\ Kind[o] = "log_level" => ArgsCount[o] = 1
  /\ AddedGroup \in [{o \in Options : Kind[o] = "command"} -> Groups]
  /\ Words \subseteq [kind : {"plain", "short", "long", "end"}, text : Seq(Letters), eq : BOOLEAN]
  /\ \A w \in Words : /\ w.kind = "short" => w.text # <<>>
                      /\ w.kind = "end" => w.text = <<>> /\ ~w.eq
  /\ {Tokens, WholeTokens} \subseteq
       [Words -> Seq([name : Names \cup {NoName}, level : Levels \cup {BadLevel}])]
  /\ MaxWords \in Nat

VARIABLES words, first,   \* the arguments; 1 if the first is argv0, else 0
          argv, argc, endp, i,
          ptr,            \* how many letters of a word of short options are done
          groups, enabled,
          old_len,        \* how many groups the tables were built from
          short_opts, long_opts,
          non_arg_fun,    \* None, "fail", or "take" for one that the program sets
          was_command,
          outcome,        \* "running", "done", or how Run() was left
          calls,          \* history: the calls of options, [opt, word, args]
          taken           \* history: the words given to non_arg_fun

input == <<words, first, enabled>>
tables == <<old_len, short_opts, long_opts>>
program == <<groups, non_arg_fun, was_command>>
parserVars == <<input, argv, argc, endp, i, ptr, program, tables, outcome, calls, taken>>
runVars == <<parserVars, levelVars>>

ParserInit ==
  /\ LevelsInit
  /\ first \in {0, 1}
  /\ \E n \in 0..MaxWords, given \in [1..MaxWords -> Words] :
       /\ argc = first + n
       /\ words = [j \in 0..(argc - 1) |-> IF j < first THEN Argv0 ELSE given[j - first + 1]]
  /\ argv = [j \in 0..argc |-> IF j < argc THEN j ELSE None]
  /\ endp = first /\ i = first /\ ptr = 0
  /\ groups = <<FirstGroup>>
  /\ \E S \in SUBSET Optional : enabled = Options \ S
  /\ old_len = 0 /\ long_opts = <<>>
  /\ short_opts = [c \in Letters |-> None]
  /\ non_arg_fun \in {None, "fail", "take"}
  /\ was_command = FALSE
  /\ outcome = "running"
  /\ calls = <<>> /\ taken = <<>>
-----------------------------------------------------------------------------
(* The tables.                                                             *)

\* OptCmp: strings in the order of their bytes, but the comparison ends at an =
\* in either, and they are equal.
At(s, k) == IF k <= Len(s) THEN s[k] ELSE 0
OptCmp(a, b) ==
  \E k \in 1..Len(b) :
    /\ \A j \in 1..(k - 1) : At(a, j) = b[j]
    /\ At(a, k) < b[k] /\ Equals \notin {At(a, k), b[k]}

OptionsOf(s) == {o \in enabled : \E k \in DOMAIN s : Group[o] = s[k]}

Duplicates(s) ==
  \/ \E k, l \in DOMAIN s : k # l /\ s[k] = s[l] /\ OptionsOf(<<s[k]>>) # {}
  \/ \E o, p \in OptionsOf(s) : o # p /\ \/ Name[o] = Name[p]
                                         \/ ShortName[o] = ShortName[p] /\ ShortName[o] # None

ShortTable(s) ==
  [c \in Letters |-> IF \E o \in OptionsOf(s) : ShortName[o] = c
                     THEN CHOOSE o \in OptionsOf(s) : ShortName[o] = c ELSE None]
LongTable(s) ==
  LET S == OptionsOf(s)
      Place(o) == Cardinality({p \in S : OptCmp(Name[p], Name[o])}) + 1
  IN  [k \in 1..Cardinality(S) |-> CHOOSE o \in S : Place(o) = k]

\* gen_opts(), at an option when a group has been added.
Stale == old_len # Len(groups)
AtWord == outcome = "running" /\ tokens = Idle /\ ptr = 0 /\ i < argc
Word == words[argv[i]]
AtOption == AtWord /\ Word.kind # "plain"

GenOpts ==
  /\ AtOption /\ Stale
  /\ old_len' = Len(groups)
  /\ \/ /\ ~Duplicates(groups)
        /\ short_opts' = ShortTable(groups) /\ long_opts' = LongTable(groups)
        /\ UNCHANGED outcome
     \/ /\ Duplicates(groups)
        /\ outcome' = "logic_error"
        /\ UNCHANGED <<short_opts, long_opts>>
  /\ UNCHANGED <<input, argv, argc, endp, i, ptr, program, calls, taken, levelVars>>
-----------------------------------------------------------------------------
(* The functions that are called.                                          *)

\* Run() catches InvalidParam, and throws Exit.
Refuse == /\ outcome' = "exit_false"
          /\ UNCHANGED <<input, argv, argc, endp, i, ptr, program, tables, calls, taken,
                         levelVars>>

\* What --log-level is called with.
TokensOf(arg) == IF arg[2] = 0 THEN WholeTokens[words[arg[1]]] ELSE Tokens[words[arg[1]]]

Begin(toks) == /\ tokens' = toks
               /\ UNCHANGED <<global_level, stringVars, level_map, map_block, levels, latest>>

\* CommandTriggered().
MayTrigger == ~was_command

\* The call of o with args, for word i.
Invoke(o, args) ==
  /\ calls' = Append(calls, [opt |-> o, word |-> argv[i], args |-> args])
  /\ CASE Kind[o] = "plain" -> UNCHANGED <<program, outcome, levelVars>>
       [] Kind[o] = "help" -> outcome' = "exit_true" /\ UNCHANGED <<program, levelVars>>
       [] Kind[o] = "log_level" ->
            Begin(TokensOf(args[1])) /\ UNCHANGED <<program, outcome>>
       [] Kind[o] = "command" ->
            IF ~MayTrigger THEN outcome' = "exit_false" /\ UNCHANGED <<program, levelVars>>
            ELSE /\ was_command' = TRUE
                 /\ groups' = Append(groups, AddedGroup[o])
                 /\ non_arg_fun' \in {non_arg_fun, None}
                 /\ UNCHANGED <<outcome, levelVars>>
  /\ UNCHANGED <<input, argv, argc, endp, tables, taken>>

\* How many of the words after i option o takes, if it has got a value already or not,
\* and what it is called with then.
Wanted(o, attached) ==
  IF ArgsCount[o] = AllArgs THEN argc - i - 1 ELSE ArgsCount[o] - Len(attached)
Enough(o, attached) == Wanted(o, attached) = 0 \/ i + Wanted(o, attached) < argc
Args(o, attached) ==
  attached \o [j \in 1..Wanted(o, attached) |-> <<argv[i + j], 0>>]
-----------------------------------------------------------------------------
(* ParseShort(), one step for each letter.                                 *)

InShort == /\ outcome = "running" /\ tokens = Idle /\ (ptr = 0 => ~Stale)
           /\ i < argc /\ Word.kind = "short"
Letter == Word.text[ptr + 1]

\* The end of the word, if it has one after this letter.
Attached == IF ptr + 1 < Len(Word.text) THEN <<<<argv[i], ptr + 1>>>> ELSE <<>>

UnknownShort == InShort /\ short_opts[Letter] = None /\ Refuse

ShortFlag ==
  /\ InShort /\ short_opts[Letter] # None
  /\ ArgsCount[short_opts[Letter]] = 0
  /\ Invoke(short_opts[Letter], <<>>)
  /\ \/ Attached = <<>> /\ ptr' = 0 /\ i' = i + 1
     \/ Attached # <<>> /\ ptr' = ptr + 1 /\ i' = i

\* A mutant of ShortWithArgs: a value in the word itself is not counted.
ShortWithArgsAll ==
  /\ InShort /\ short_opts[Letter] # None
  /\ LET o == short_opts[Letter] IN
     /\ ArgsCount[o] # 0
     /\ Enough(o, Attached)
     /\ Invoke(o, Args(o, Attached))
     /\ ptr' = 0 /\ i' = i + 1 + Wanted(o, <<>>)

ShortWithArgs ==
  /\ InShort /\ short_opts[Letter] # None
  /\ LET o == short_opts[Letter] IN
     /\ ArgsCount[o] # 0
     /\ \/ ~Enough(o, Attached) /\ Refuse
        \/ /\ Enough(o, Attached)
           /\ Invoke(o, Args(o, Attached))
           /\ ptr' = 0 /\ i' = i + 1 + Wanted(o, Attached)
-----------------------------------------------------------------------------
(* ParseLong().  The string that is looked up goes on with = and the value. *)

InLong == AtWord /\ ~Stale /\ Word.kind = "long"
Key == Word.text \o (IF Word.eq THEN <<Equals>> ELSE <<>>)
Value == IF Word.eq THEN <<<<argv[i], Len(Word.text) + 1>>>> ELSE <<>>

LowerBound == Cardinality({p \in DOMAIN long_opts : OptCmp(Name[long_opts[p]], Key)}) + 1

\* strncmp(argv[i] + 2, name, len) = 0, for what is at place p of the table.
Fits(p) == p \in DOMAIN long_opts /\ IsPrefix(Word.text, Name[long_opts[p]])

UnknownLong == InLong /\ ~Fits(LowerBound) /\ Refuse

\* A mutant of Ambiguous: exact matches are ambiguous too.
AmbiguousExact(p) == Fits(p + 1)

\* Exact matches are not ambiguous.
Ambiguous(p) == Fits(p + 1) /\ Len(Name[long_opts[p]]) # Len(Word.text)

AmbiguousLong == InLong /\ Fits(LowerBound) /\ Ambiguous(LowerBound) /\ Refuse

LongOption ==
  /\ InLong /\ Fits(LowerBound) /\ ~Ambiguous(LowerBound)
  /\ LET o == long_opts[LowerBound]
         refused == (Word.eq /\ ArgsCount[o] = 0) \/ ~Enough(o, Value)
     IN  \/ refused /\ Refuse
         \/ /\ ~refused
            /\ Invoke(o, Args(o, Value))
            /\ i' = i + 1 + Wanted(o, Value)
            /\ UNCHANGED ptr
-----------------------------------------------------------------------------
(* Run_().                                                                 *)

Rewrite(f) == argv' = [j \in DOMAIN argv |-> IF j \in DOMAIN f THEN f[j] ELSE argv[j]]

\* The words at b to argc - 1, which are no options, in order.
HandOver(b) ==
  /\ \/ /\ non_arg_fun = None
        /\ Rewrite([j \in endp..(endp + argc - b - 1) |-> argv[j - endp + b]])
        /\ endp' = endp + argc - b
        /\ UNCHANGED <<taken, outcome>>
     \/ /\ non_arg_fun = "take"
        /\ taken' = taken \o [k \in 1..(argc - b) |-> argv[b + k - 1]]
        /\ UNCHANGED <<argv, endp, outcome>>
     \/ /\ non_arg_fun = "fail"
        /\ outcome' = IF b < argc THEN "exit_false" ELSE outcome
        /\ UNCHANGED <<argv, endp, taken>>

NonOption ==
  /\ AtWord /\ Word.kind = "plain"
  /\ \/ /\ non_arg_fun = None
        /\ argv' = [argv EXCEPT ![endp] = argv[i]] /\ endp' = endp + 1
        /\ UNCHANGED <<taken, outcome>>
     \/ /\ non_arg_fun = "take"
        /\ taken' = Append(taken, argv[i])
        /\ UNCHANGED <<argv, endp, outcome>>
     \/ non_arg_fun = "fail" /\ outcome' = "exit_false" /\ UNCHANGED <<argv, endp, taken>>
  /\ i' = i + 1
  /\ UNCHANGED <<input, argc, ptr, program, tables, calls, levelVars>>

\* --: what follows are no options, whatever it looks like.
EndOfOptions ==
  /\ AtWord /\ ~Stale /\ Word.kind = "end"
  /\ HandOver(i + 1)
  /\ i' = argc
  /\ UNCHANGED <<input, argc, ptr, program, tables, calls, levelVars>>

\* The end, and what validate_fun, or SetShowHelpOnNoOptions(), makes of it.
Finish ==
  /\ outcome = "running" /\ tokens = Idle /\ i = argc
  /\ argc' = endp
  /\ argv' = [argv EXCEPT ![endp] = None]
  /\ outcome' \in {"done", "exit_false"}
  /\ UNCHANGED <<input, endp, i, ptr, program, tables, calls, taken, levelVars>>

LogLevelOption ==
  \/ Granted /\ UNCHANGED parserVars
  \/ /\ RefuseLevel /\ outcome' = "exit_false"
     /\ UNCHANGED <<input, argv, argc, endp, i, ptr, program, tables, calls, taken>>

ParserNext == \/ GenOpts \/ NonOption \/ EndOfOptions \/ Finish
        \/ UnknownShort \/ ShortFlag \/ ShortWithArgs
        \/ UnknownLong \/ AmbiguousLong \/ LongOption
        \/ LogLevelOption

ParserSpec == ParserInit /\ [][ParserNext]_runVars
=============================================================================
