----------------------------- MODULE MCCapiRun -----------------------------
(* Instances of CapiRun for TLC.  AS numbers have four bits: the sign bit  *)
(* is 8, and 9 prints as a negative number.                                *)
EXTENDS CapiRun, TLC
CONSTANTS s1, s2, s3, s4, p1, p2

Line(asn, ski, private, public) ==
  [asn |-> asn, ski |-> ski, private |-> private, public |-> public]

(* AS 2 has two lines, AS 3 no public key file, AS 4 no private one and    *)
(* AS 5 no line.                                                           *)
SomeLines ==
  <<Line(4, s4, FALSE, TRUE), Line(2, s2, TRUE, TRUE), Line(1, s1, TRUE, TRUE),
    Line(2, s1, TRUE, TRUE), Line(3, s3, TRUE, FALSE)>>

Conf(asn, peerAS, nsMode, capi, ext) ==
  [asn |-> asn, peerAS |-> peerAS, nsMode |-> nsMode, capi |-> capi, onlyExtLength |-> ext]

SomeConfs ==
  {Conf(1, 6, "drop", FALSE, FALSE), Conf(1, 6, "fake", FALSE, TRUE),
   Conf(1, 6, "fake", TRUE, FALSE), Conf(1, 6, "bgp4", TRUE, FALSE),
   Conf(1, 1, "bgp4", FALSE, FALSE), Conf(1, 1, "fake", FALSE, FALSE)}

Token(asn, count, dotted) == [asn |-> asn, count |-> count, dotted |-> dotted]
Plain(asn) == Token(asn, 1, FALSE)

(* Up to two AS numbers, three of two, repetitions, a run as long as       *)
(* pCount can count and one too long, none at all, and the large number.   *)
SomePaths ==
  {<<>>} \cup {<<Plain(a)>> : a \in 1..5}
  \cup {<<Plain(a), Plain(b)>> : a, b \in 1..4}
  \cup {<<Plain(a), Plain(2), Plain(b)>> : a, b \in {1, 3, 4}}
  \cup {<<Token(2, n, FALSE), Plain(1)>> : n \in {0, 2, 3, 4}}
  \cup {<<Token(9, 1, dotted)>> : dotted \in BOOLEAN}

SomeUpdates ==
  {[path |-> p, nlri |-> [prefix |-> p1, bytes |-> 3], bgp4Only |-> FALSE] : p \in SomePaths}
  \cup {[path |-> <<Plain(2)>>, nlri |-> [prefix |-> p2, bytes |-> 2], bgp4Only |-> b] : b \in BOOLEAN}
=============================================================================
