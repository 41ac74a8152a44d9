----------------------------- MODULE MCRtrCache -----------------------------
(* Small instances of RtrCache for TLC.                                    *)
EXTENDS RtrCache, TLC

CONSTANTS c1, roa1, roa2, key1

Lines(s)  == [lines |-> s, ok |-> TRUE]
Broken(s) == [lines |-> s, ok |-> FALSE]

(* Inputs without a malformed line: one ROA, one key, a file of two lines, *)
(* a file whose lines are all skipped.                                     *)
WellFormed == {Lines(<<roa1>>), Lines(<<roa2, key1>>), Lines(<<>>)}
(* And files that break off, after the first line or at once.              *)
WithBroken == {Lines(<<roa1>>), Broken(<<roa1>>), Broken(<<>>)}

V2 == [c \in Routers |-> 2]

AllCommands  == CommandNames
Updates      == {"append", "remove"}

=============================================================================
