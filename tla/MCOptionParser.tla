---------------------------- MODULE MCOptionParser ----------------------------
(* OptionParserProps with options whose names begin alike, one of each arity,  *)
(* two commands that add an option of the same name, and --log-level.          *)
EXTENDS OptionParserProps

CONSTANTS short_name, other_short_name, long_name

W(k, t, e) == [kind |-> k, text |-> t, eq |-> e]

\* Names are words over the letters 1 to 5.
TheOptions == {"flag", "pair", "all", "help", "log", "cmd1", "cmd2", "sub1", "sub2"}
TheName == [flag |-> <<1>>, pair |-> <<1, 2>>, all |-> <<2, 2>>, help |-> <<2>>,
            log |-> <<3, 3>>, cmd1 |-> <<2, 1>>, cmd2 |-> <<3, 1>>,
            sub1 |-> <<1, 1>>, sub2 |-> <<1, 1>>]
TheShort == [flag |-> 1, pair |-> 2, all |-> None, help |-> None, log |-> 3,
             cmd1 |-> 4, cmd2 |-> None, sub1 |-> 5, sub2 |-> 5]
TheCount == [flag |-> 0, pair |-> 2, all |-> AllArgs, help |-> 0, log |-> 1,
             cmd1 |-> 0, cmd2 |-> 0, sub1 |-> 1, sub2 |-> 0]
TheKind == [o \in TheOptions |->
              CASE o = "help" -> "help" [] o = "log" -> "log_level"
                [] o \in {"cmd1", "cmd2"} -> "command" [] OTHER -> "plain"]
TheGroup == [o \in TheOptions |-> CASE o = "sub1" -> "g1" [] o = "sub2" -> "g2" [] OTHER -> "g0"]
TheAdded == [cmd1 |-> "g1", cmd2 |-> "g2"]

Plain == W("plain", <<>>, FALSE)
Levelled == W("plain", <<1>>, FALSE)   \* a plain word that gives levels
TheWords ==
  {Plain, Levelled, W("end", <<>>, FALSE)}
    \cup {W("short", t, FALSE) : t \in {<<1>>, <<1, 2>>, <<2, 1>>, <<3>>, <<3, 1>>, <<4, 5>>}}
    \cup {W("long", t, FALSE) : t \in {<<1>>, <<1, 1>>, <<1, 2>>, <<2>>, <<2, 2>>, <<2, 1>>,
                                       <<3>>, <<3, 1>>}}
    \cup {W("long", t, TRUE) : t \in {<<1>>, <<1, 2>>, <<3, 3>>}}

T(n, l) == [name |-> n, level |-> l]
Refused == <<T(long_name, 0), T(NoName, BadLevel)>>
TheTokens ==
  [w \in TheWords |->
     CASE w = W("long", <<3, 3>>, TRUE) -> <<T(other_short_name, 0), T(long_name, 0)>>
       [] w = W("short", <<3, 1>>, FALSE) -> <<T(NoName, 1)>>
       [] OTHER -> Refused]
TheWholeTokens ==
  [w \in TheWords |->
     CASE w = Levelled -> <<T(long_name, 1), T(short_name, 1)>>
       [] w = W("short", <<1>>, FALSE) -> <<T(NoName, 1)>>   \* -1
       [] OTHER -> Refused]
=============================================================================
