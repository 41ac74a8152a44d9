------------------------------ MODULE CapiRun ------------------------------
(***************************************************************************)
(* BRIO in mode CAPI (_runCAPI): updates are signed as by all ASes of      *)
(* their path, the public keys of the signers are registered with the      *)
(* plug-in, and the plug-in validates the attribute as the peer would.     *)
(***************************************************************************)
EXTENDS SecurePath

CONSTANTS
  Confs,   \* sessions: asn, peerAS, nsMode, capi, onlyExtLength
  Updates, \* path, the AS path as it is written: tokens asn, count, dotted; nlri; bgp4Only
  MaxKeys  \* bound: segments of an update, at most MAX_KEYS_IN_UPDATE

ASSUME Inputs ==
  /\ \A c \in Confs : c.asn \in Nat /\ c.capi \in BOOLEAN
  /\ \A u \in Updates :
       /\ u.path \in Seq([asn : Nat, count : Nat, dotted : BOOLEAN])
       /\ u.nlri.bytes \in Nat
  /\ MaxKeys \in Nat

VARIABLES
  conf,        \* the session's configuration
  update,      \* the update taken from the stack last
  attr,        \* its attribute, or NoAttr
  pubKey,      \* algoParam.pubKey
  stored,      \* algoParam.pubKeysStored
  fakeUsed,    \* algoParam.fakeUsed
  registered,  \* the keys the plug-in has
  result       \* of the validation; "none" before

capiVars == <<conf, update, attr, pubKey, stored, fakeUsed, registered, result>>

NoAttr == [segs |-> <<>>]

CapiInit ==
  /\ conf \in Confs
  /\ update = None
  /\ attr = NoAttr
  /\ pubKey = [i \in 1..MaxKeys |-> None]
  /\ stored = 0
  /\ fakeUsed = FALSE
  /\ registered = {}
  /\ result = "none"

Idle == attr = NoAttr \/ result # "none"

-----------------------------------------------------------------------------
(* The next update is not for BGPsec.                                      *)
SkipUpdate(u) ==
  /\ Idle
  /\ u.bgp4Only
  /\ update' = u
  /\ attr' = NoAttr
  /\ result' = "none"
  /\ UNCHANGED <<conf, pubKey, stored, fakeUsed, registered>>

(* An origination to an internal peer gets no attribute.                   *)
NoSegments(u) ==
  /\ Idle
  /\ ~u.bgp4Only
  /\ IBGP(conf) /\ LongPath(u.path) = <<>>
  /\ update' = u
  /\ attr' = NoAttr
  /\ result' = "none"
  /\ UNCHANGED <<conf, pubKey, stored, fakeUsed, registered>>

NoStored(S) == Cardinality(Reached(S, conf))

(* Bug: the keys are noted from the front, in the order of signing.        *)
NotedInOrder(S, segs) ==
  [k \in 1..MaxKeys |->
     LET j == Len(S) + 1 - k
     IN IF j \in Reached(S, conf) THEN NotedKey(S, segs, j) ELSE pubKey[k]]

(* Keys are noted from the origin's place down; what an attempt that       *)
(* failed leaves out keeps its place.                                      *)
Noted(S, segs) ==
  [k \in 1..MaxKeys |->
     IF k \in Reached(S, conf) THEN NotedKey(S, segs, k) ELSE pubKey[k]]

FakeUsed(S) == \E k \in Reached(S, conf) : ~S[k].made /\ conf.nsMode = "fake"

(* generateBGPSecAttr: the path is converted and cut into segments, these  *)
(* are signed, and the attribute is put together.                          *)
Sign(u) ==
  LET segs == Segments(MyPath(conf, u.path))
      S == Signed(segs, conf, u.nlri)
  IN
  /\ Idle
  /\ ~u.bgp4Only
  /\ Len(segs) \in 1..MaxKeys
  /\ update' = u
  /\ stored' = NoStored(S)
  /\ pubKey' = Noted(S, segs)
  /\ fakeUsed' = FakeUsed(S)
  /\ attr' = IF Stops(S, conf) THEN NoAttr ELSE Attribute(segs, S, conf)
  /\ result' = "none"
  /\ UNCHANGED <<conf, registered>>

(* __capiProcessBGPSecAttr and __cleanPubKeys: the keys noted are          *)
(* registered, those without data are refused, the plug-in validates as    *)
(* the peer, and the notes are cleared.                                    *)
Process ==
  LET keys == registered \cup {pubKey[i] : i \in {j \in 1..stored : pubKey[j].loaded}} IN
  /\ attr # NoAttr /\ result = "none"
  /\ \A i \in 1..stored : pubKey[i] # None
  /\ registered' = keys
  /\ result' = IF Validate(attr, conf.peerAS, update.nlri, keys) THEN "valid" ELSE "invalid"
  /\ pubKey' = [k \in 1..MaxKeys |-> IF k <= stored THEN None ELSE pubKey[k]]
  /\ stored' = 0
  /\ UNCHANGED <<conf, update, attr, fakeUsed>>

CapiNext ==
  \/ \E u \in Updates : SkipUpdate(u) \/ NoSegments(u) \/ Sign(u)
  \/ Process

CapiSpec == CapiInit /\ [][CapiNext]_capiVars

-----------------------------------------------------------------------------
(* Properties                                                              *)

Signs(asn)    == ~conf.capi /\ LineOf(asn) # None /\ LineOf(asn).private
Genuine(asn)  == Signs(asn) /\ LineOf(asn).public

(* Within the limits of the conversion.                                    *)
WithinLimits == Printable(update.path) /\ Countable(Written(conf, update.path))

(* The segments of the secure path spell the AS path of the update, for    *)
(* paths within the limits of the conversion (convertAsnPath).             *)
PathSpelled == attr # NoAttr /\ WithinLimits => Spelled(attr.segs) = Written(conf, update.path)

(* An update is found valid by the plug-in if and only if all ASes of the  *)
(* path signed it and their public keys exist: signer and validator derive *)
(* the same messages, lengths, SKIs and keys, whatever failed before       *)
(* (generateBGPSecAttr, sca_generateHashMessage).                          *)
ValidIffGenuine ==
  result # "none" =>
    (result = "valid" <=> \A k \in DOMAIN attr.segs : Genuine(attr.segs[k].asn))

(* The lengths in the attribute are those of what is behind them: whoever  *)
(* walks it by its lengths ends at its end, and a length that needs two    *)
(* bytes has them (generateBGPSecAttr).                                    *)
LengthsMatch ==
  attr # NoAttr =>
    LET paths == FlattenSeq([k \in DOMAIN attr.segs |->
                   <<PathField(attr.segs[k]), AsnField(attr.segs[k].asn)>>])
        sigs == FlattenSeq([k \in DOMAIN attr.block.sigs |-> SigFields(attr.block.sigs[k])])
    IN /\ attr.secPathLen = 2 + Bytes(paths)
       /\ attr.block.length = 3 + Bytes(sigs)
       /\ attr.length = attr.secPathLen + attr.block.length
       /\ attr.extended \/ attr.length < 256

(* The keys noted for an attribute are those of its signers, from the last *)
(* AS to the origin, also after updates that failed half way: nothing is   *)
(* left of theirs (BGPHeader.h, pubKey).                                   *)
KeysInOrder ==
  attr # NoAttr /\ result = "none" =>
    /\ stored = Len(attr.segs)
    /\ \A k \in 1..stored :
         LET asn == attr.segs[k].asn
         IN IF Signs(asn)
            THEN pubKey[k].asn = asn /\ pubKey[k].ski = LineOf(asn).ski
            ELSE pubKey[k] = FakeKey
=============================================================================
