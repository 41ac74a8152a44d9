---------------------------- MODULE MCRtrServer -----------------------------
(* Small instances of RtrServer for TLC.                                   *)
EXTENDS RtrServer
CONSTANTS c1, c2, c3

(* One peer has a version the cache does not know.                         *)
OneImproper == [c \in Conns |-> IF c = c1 THEN {3} ELSE {2}]
NotEarly == ~early
ProperOnes == Permutations({c2, c3})
=============================================================================
