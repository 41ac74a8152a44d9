---------------------------- MODULE MCKeyStorage ----------------------------
(* Instances of KeyStorage for TLC.  The AS numbers 1 and 256 share bucket *)
(* 1; 65281 belongs to bucket 0, where keys of other algorithms go.        *)
EXTENDS KeyStorage, TLC
CONSTANTS a, b, d1, d2, bad

K(asn, ski, data) == [asn |-> asn, ski |-> ski, data |-> data, ours |-> TRUE]
Foreign(k) == [k EXCEPT !.ours = FALSE]

(* Three elements in bucket 1, two keys of one SKI, one that cannot be     *)
(* converted, two of another algorithm.                                    *)
AllKinds ==
  {K(1, a, d1), K(1, a, d2), K(1, b, d1), K(1, a, bad), K(256, a, d1), K(256, a, bad),
   K(65281, a, d1), Foreign(K(65281, a, d2)), Foreign(K(1, b, d1))}
=============================================================================
