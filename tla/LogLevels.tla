------------------------------ MODULE LogLevels ------------------------------
(***************************************************************************)
(* logger.cpp: the table of log levels that the option --log-level writes   *)
(* and GetLogLevel() reads.  The names are kept in a vector of strings; an  *)
(* entry of level_map points at the text of one of them; levels and         *)
(* level_size are a copy of the begin and size of level_map, which          *)
(* GetLogLevel() goes by.                                                  *)
(*                                                                         *)
(* Both vectors move to new memory when they grow.  A string that is Short  *)
(* has its text inside itself, so that the text moves with the vector, and  *)
(* pointers to it point into memory that is freed.  What is read there is   *)
(* the old text, or the bytes of a later allocation, which are no name.     *)
(***************************************************************************)
EXTENDS Naturals, Sequences

CONSTANTS Names,     \* of modules
          Short,     \* those whose text is inside the std::string
          Levels,
          NoName,    \* of a token without =
          BadLevel,  \* what ParseLevel() throws for
          Idle       \* no callback is running

ASSUME LogLevelsAssumption ==
  /\ Short \subseteq Names /\ NoName \notin Names \cup Levels
  /\ Levels \subseteq Nat /\ Levels # {} /\ BadLevel \notin Levels
  /\ Idle \notin Seq([name : Names \cup {NoName}, level : Levels \cup {BadLevel}])

VARIABLES global_level,
          strings,        \* the names, in the order they were added
          strings_block,  \* how often strings has moved
          level_map,      \* sequence of [first, level]; first is where a name is
          map_block,      \* how often level_map has moved
          levels,         \* [block, size]: what GetLogLevel() has
          tokens,         \* what the running callback has still to do, or Idle
          latest           \* history: the level last given for each name, or NoName

levelVars == <<global_level, strings, strings_block, level_map, map_block, levels,
               tokens, latest>>
stringVars == <<strings, strings_block>>

DefaultLevel == CHOOSE l \in Levels : \A k \in Levels : l <= k

LevelsInit ==
  /\ global_level = DefaultLevel
  /\ strings = <<>> /\ strings_block = 0
  /\ level_map = <<>> /\ map_block = 0
  /\ levels = [block |-> 0, size |-> 0]
  /\ tokens = Idle
  /\ latest = [n \in Names |-> NoName]
-----------------------------------------------------------------------------
\* The capacity of a vector doubles: adding to n elements moves it if n is 0 or a
\* power of 2.
Moves(v) == Len(v) = 0 \/ \E k \in 0..Len(v) : Len(v) = 2^k

\* Whether the text that an entry points at is still there.
InPlace(e) == e.first.name \notin Short \/ e.first.block = strings_block

\* The entries of which the name may be read as n, given those whose text is gone
\* but can still be read.
Reads(readable, n) ==
  {p \in DOMAIN level_map : level_map[p].first.name = n
                            /\ (InPlace(level_map[p]) \/ p \in readable)}
Gone == {p \in DOMAIN level_map : ~InPlace(level_map[p])}
FirstOf(S) == CHOOSE p \in S : \A q \in S : p <= q

\* A token without = is the level for all that are not named.
SetGlobal ==
  /\ tokens \notin {Idle, <<>>} /\ Head(tokens).name = NoName
  /\ Head(tokens).level # BadLevel
  /\ global_level' = Head(tokens).level
  /\ tokens' = Tail(tokens)
  /\ UNCHANGED <<stringVars, level_map, map_block, levels, latest>>

\* find_if() finds an entry of the name, which gets the new level.
SetKnown ==
  /\ tokens \notin {Idle, <<>>} /\ Head(tokens).name # NoName
  /\ Head(tokens).level # BadLevel
  /\ \E readable \in SUBSET Gone :
       LET S == Reads(readable, Head(tokens).name)
       IN  S # {} /\ level_map' = [level_map EXCEPT ![FirstOf(S)].level = Head(tokens).level]
  /\ latest' = [latest EXCEPT ![Head(tokens).name] = Head(tokens).level]
  /\ tokens' = Tail(tokens)
  /\ UNCHANGED <<global_level, stringVars, map_block, levels>>

\* It finds none: the name is added to strings, and an entry that points at it.
SetNew ==
  /\ tokens \notin {Idle, <<>>} /\ Head(tokens).name # NoName
  /\ Head(tokens).level # BadLevel
  /\ \E readable \in SUBSET Gone : Reads(readable, Head(tokens).name) = {}
  /\ strings' = Append(strings, Head(tokens).name)
  /\ strings_block' = IF Moves(strings) THEN strings_block + 1 ELSE strings_block
  /\ level_map' = Append(level_map,
       [first |-> [name |-> Head(tokens).name, block |-> strings_block'],
        level |-> Head(tokens).level])
  /\ map_block' = IF Moves(level_map) THEN map_block + 1 ELSE map_block
  /\ latest' = [latest EXCEPT ![Head(tokens).name] = Head(tokens).level]
  /\ tokens' = Tail(tokens)
  /\ UNCHANGED <<global_level, levels>>

\* ParseLevel() throws InvalidParam: what the earlier tokens did stays done, and
\* levels is not brought up to date.
RefuseLevel ==
  /\ tokens \notin {Idle, <<>>} /\ Head(tokens).level = BadLevel
  /\ tokens' = Idle
  /\ UNCHANGED <<global_level, stringVars, level_map, map_block, levels, latest>>

\* A mutant of Publish: level_size alone is brought up to date.
PublishSize ==
  /\ tokens = <<>>
  /\ levels' = [levels EXCEPT !.size = Len(level_map)]
  /\ tokens' = Idle
  /\ UNCHANGED <<global_level, stringVars, level_map, map_block, latest>>

\* The end of the callback.
Publish ==
  /\ tokens = <<>>
  /\ levels' = [block |-> map_block, size |-> Len(level_map)]
  /\ tokens' = Idle
  /\ UNCHANGED <<global_level, stringVars, level_map, map_block, latest>>

Granted == SetGlobal \/ SetKnown \/ SetNew \/ Publish
-----------------------------------------------------------------------------
\* GetLogLevel(n): every answer it may give, which is any if levels points at
\* memory that level_map has moved out of.
GetLogLevel(n) ==
  IF levels.block # map_block THEN Levels
  ELSE {LET S == Reads(readable, n) \cap 1..levels.size
        IN  IF S = {} THEN global_level ELSE level_map[FirstOf(S)].level
          : readable \in SUBSET Gone}
=============================================================================
