---------------------------- MODULE MCLogOutput ----------------------------
(* LogOutputProps with the values of the configurations: module names shorter *)
(* and longer than the first column width, texts of two lines, of a line and  *)
(* the beginning of another, one thread that inserts once and one that        *)
(* inserts twice.                                                             *)
EXTENDS LogOutputProps

CONSTANTS t1, t2

TwoTexts == {[lines |-> 2, tail |-> FALSE], [lines |-> 1, tail |-> TRUE]}
TwoAndOne == [t \in Threads |-> IF t = t1 THEN 2 ELSE 1]
=============================================================================
