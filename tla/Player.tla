------------------------------- MODULE Player -------------------------------
(***************************************************************************)
(* Files of generated data (player.c): one record per update, with the     *)
(* session it was generated for, its keys and its data.                    *)
(***************************************************************************)
EXTENDS Naturals, Sequences, SequencesExt

TypeUpdate == {"update"}
TypeAttr   == {"attr"}
TypeAll    == {"update", "attr"}

(* storeData: a key that is not there leaves a record without key data.    *)
storeData(file, type, asn, peerAS, store) ==
  Append(file, [type |-> type, asn |-> asn, peerAS |-> peerAS, prefix |-> store.prefix,
                keys |-> store.keys, noSegments |-> store.segmentCount, data |-> store.data])

(* An AS number of 0 stands for any.                                       *)
RightRecord(r, myAS, peerAS, types) ==
  r.type \in types /\ peerAS \in {0, r.peerAS} /\ myAS \in {0, r.asn}

(* loadData: the next record from place pos on that fits, 0 if there is    *)
(* none; the others are skipped.                                           *)
loadData(file, pos, myAS, peerAS, types) ==
  LET fits == {i \in pos..Len(file) : RightRecord(file[i], myAS, peerAS, types)}
  IN IF fits = {} THEN 0 ELSE CHOOSE i \in fits : \A j \in fits : i <= j
=============================================================================
