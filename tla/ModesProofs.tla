----------------------------- MODULE ModesProofs -----------------------------
(***************************************************************************)
(* What brio_tg does in its modes CAPI and BGP.                            *)
(*                                                                         *)
(* CapiRun, for every key list, path and configuration: what is signed,    *)
(* registered with the plug-in and validated.                              *)
(*                                                                         *)
(* BgpSession, for every number of attempts, every hold time and every     *)
(* peer: its variables keep their types, and as long as no send is given   *)
(* up for a full socket a peer whose OPEN was refused gets no session.     *)
(* Once it is established, the hold time loop (HoldTimer) keeps its        *)
(* promises for every hold time that lets it run and every limit of the    *)
(* sleep.                                                                  *)
(***************************************************************************)
EXTENDS CapiRun, BgpSession, HoldTimer, SecurePathProofs, FiniteSetTheorems

-----------------------------------------------------------------------------
(* The keys noted                                                          *)

LEMMA InputsTyped ==
  /\ \A c \in Confs : c.asn \in Nat /\ CapiSet(c)
  /\ \A u \in Updates : u.path \in Seq([asn : Nat, count : Nat, dotted : BOOLEAN])
BY Zenon, Inputs DEF CapiSet

(* Nothing failed, or failures are faked: all segments were gone through.  *)
LEMMA AllReached ==
  ASSUME NEW segs \in Seq(SegmentRecord), NEW S, DOMAIN S = 1..Len(segs),
         ~Stops(S, conf)
  PROVE  Reached(S, conf) = 1..Len(segs) /\ NoStored(S) = Len(segs)
<1>1. Len(segs) \in Nat  OBVIOUS
<1>2. Reached(S, conf) = 1..Len(segs)  BY Zenon DEF Reached
<1>3. Cardinality(1..Len(segs)) = Len(segs)
  <2>1. 1 \in Int /\ Len(segs) \in Int  BY <1>1
  <2>2. Cardinality(1..Len(segs)) = IF 1 > Len(segs) THEN 0 ELSE Len(segs) - 1 + 1
    BY <2>1, FS_Interval
  <2> QED  BY <1>1, <2>2
<1> QED  BY Zenon, <1>2, <1>3 DEF NoStored

-----------------------------------------------------------------------------
(* What holds of an attribute as long as it is kept                        *)

AttrOf(a, segs, S) ==
  /\ segs \in Seq(SegmentRecord) /\ Len(segs) \in 1..MaxKeys
  /\ segs = Segments(MyPath(conf, update.path))
  /\ S = Signed(segs, conf, update.nlri)
  /\ a = Attribute(segs, S, conf)

NotesOf(segs) ==
  /\ stored = Len(segs)
  /\ \A k \in 1..Len(segs) : KeyNoted(pubKey[k], segs[k].asn, conf)

(* The attribute is one that was signed, the notes are of its segments,    *)
(* and a key the plug-in has is the one of its AS in the key file.         *)
RunInv ==
  /\ conf \in Confs
  /\ attr # NoAttr =>
       /\ update \in Updates
       /\ \E segs, S : AttrOf(attr, segs, S) /\ (result = "none" => NotesOf(segs))
  /\ \A key \in registered :
       /\ LineOf(key.asn) # None /\ LineOf(key.asn).public
       /\ key.ski = LineOf(key.asn).ski

LEMMA AttributeHas ==
  ASSUME NEW segs, NEW S, NEW c
  PROVE  Attribute(segs, S, c).segs = segs
BY DEF Attribute

LEMMA SignKeeps ==
  ASSUME RunInv, NEW u \in Updates, Sign(u)
  PROVE  RunInv'
<1> PICK segs : segs = Segments(MyPath(conf, u.path))  OBVIOUS
<1> PICK S : S = Signed(segs, conf, u.nlri)  OBVIOUS
<1>1. /\ Len(segs) \in 1..MaxKeys /\ update' = u /\ stored' = NoStored(S)
      /\ pubKey' = Noted(S, segs)
      /\ attr' = (IF Stops(S, conf) THEN NoAttr ELSE Attribute(segs, S, conf))
      /\ result' = "none" /\ conf' = conf /\ registered' = registered
  BY Zenon DEF Sign
<1>2. conf \in Confs /\ conf.asn \in Nat /\ CapiSet(conf)
  <2>1. conf \in Confs  BY Zenon DEF RunInv
  <2> QED  BY Zenon, <2>1, InputsTyped
<1>3. segs \in Seq(SegmentRecord)
  <2>1. u.path \in Seq([asn : Nat, count : Nat, dotted : BOOLEAN])  BY Zenon, InputsTyped
  <2> QED  BY Zenon, <1>2, <2>1, PathTyped, SegmentsTyped
<1>4. CASE Stops(S, conf)
  <2>1. attr' = NoAttr  BY Zenon, <1>1, <1>4
  <2> QED  BY Zenon, <1>1, <1>2, <2>1 DEF RunInv
<1>5. CASE ~Stops(S, conf)
  <2>1. AttrOf(attr, segs, S)'
    BY Zenon, <1>1, <1>3, <1>5 DEF AttrOf
  <2>2. DOMAIN S = 1..Len(segs)  BY Zenon, <1>2, <1>3, SignedDomain
  <2>3. Reached(S, conf) = 1..Len(segs) /\ NoStored(S) = Len(segs)
    BY Zenon, <1>3, <1>5, <2>2, AllReached
  <2>4. ASSUME NEW k \in 1..Len(segs) PROVE KeyNoted(pubKey'[k], segs[k].asn, conf')
    <3>1. k \in 1..MaxKeys  BY <1>1, <1>3, Inputs
    <3>2. pubKey'[k] = NotedKey(S, segs, k)  BY Zenon, <1>1, <2>3, <3>1 DEF Noted
    <3>3. KeyNoted(NotedKey(S, segs, k), segs[k].asn, conf)
      BY Zenon, <1>2, <1>3, NotedIsLine
    <3> QED  BY Zenon, <1>1, <3>2, <3>3
  <2>5. NotesOf(segs)'  BY Zenon, <1>1, <2>3, <2>4 DEF NotesOf
  <2> QED  BY Zenon, <1>1, <1>2, <2>1, <2>5 DEF RunInv
<1> QED  BY Zenon, <1>4, <1>5

LEMMA FakeHasNone == ~FakeKey.loaded
BY DEF FakeKey

LEMMA ProcessKeeps ==
  ASSUME RunInv, Process
  PROVE  RunInv'
<1> PICK noted : noted = {pubKey[i] : i \in {j \in 1..stored : pubKey[j].loaded}}  OBVIOUS
<1>1. /\ attr # NoAttr /\ result = "none" /\ registered' = registered \cup noted
      /\ conf' = conf /\ update' = update /\ attr' = attr
  BY Zenon DEF Process
<1>2. result' # "none"
  <2>1. result' \in {"valid", "invalid"}  BY Zenon DEF Process
  <2> QED  BY <2>1
<1>3. PICK segs, S : AttrOf(attr, segs, S) /\ NotesOf(segs)
  BY Zenon, <1>1 DEF RunInv
<1>4. AttrOf(attr, segs, S)'  BY Zenon, <1>1, <1>3 DEF AttrOf
<1>5. ASSUME NEW key \in noted
      PROVE  /\ LineOf(key.asn) # None /\ LineOf(key.asn).public
             /\ key.ski = LineOf(key.asn).ski
  <2>1. PICK i \in 1..stored : key = pubKey[i] /\ pubKey[i].loaded  BY Zenon, <1>5
  <2> PICK asn : asn = segs[i].asn  OBVIOUS
  <2>2. KeyNoted(key, asn, conf)  BY Zenon, <1>3, <2>1 DEF NotesOf
  <2>3. key = LineElement(LineOf(asn), TRUE) /\ LineOf(asn) # None /\ LineOf(asn).asn = asn
    BY Zenon, <2>1, <2>2, FakeHasNone DEF KeyNoted
  <2>4. key.loaded = LineOf(asn).public /\ key.asn = asn /\ key.ski = LineOf(asn).ski
    BY Zenon, <2>3, ElementKeeps
  <2> QED  BY Zenon, <2>1, <2>3, <2>4
<1>6. ASSUME NEW key \in registered'
      PROVE  /\ LineOf(key.asn) # None /\ LineOf(key.asn).public
             /\ key.ski = LineOf(key.asn).ski
  <2>1. key \in registered \/ key \in noted  BY Zenon, <1>1
  <2> QED  BY Zenon, <1>5, <2>1 DEF RunInv
<1> QED  BY Zenon, <1>1, <1>2, <1>4, <1>6 DEF RunInv

LEMMA RunInvHolds == CapiSpec => []RunInv
<1>1. CapiInit => RunInv  BY Zenon DEF CapiInit, RunInv
<1>2. RunInv /\ [CapiNext]_capiVars => RunInv'
  <2> SUFFICES ASSUME RunInv, [CapiNext]_capiVars PROVE RunInv'  OBVIOUS
  <2>1. ASSUME NEW u \in Updates, SkipUpdate(u) \/ NoSegments(u) PROVE RunInv'
    <3>1. attr' = NoAttr /\ conf' = conf /\ registered' = registered
      BY Zenon, <2>1 DEF SkipUpdate, NoSegments
    <3> QED  BY Zenon, <3>1 DEF RunInv
  <2>2. ASSUME NEW u \in Updates, Sign(u) PROVE RunInv'  BY Zenon, <2>2, SignKeeps
  <2>3. CASE Process  BY Zenon, <2>3, ProcessKeeps
  <2>4. CASE UNCHANGED capiVars
    <3>1. /\ conf' = conf /\ update' = update /\ attr' = attr /\ pubKey' = pubKey
          /\ stored' = stored /\ registered' = registered /\ result' = result
      BY Zenon, <2>4 DEF capiVars
    <3>2. ASSUME NEW segs, NEW S, AttrOf(attr, segs, S) PROVE AttrOf(attr, segs, S)'
      BY Zenon, <3>1, <3>2 DEF AttrOf
    <3>3. ASSUME NEW segs, NotesOf(segs) PROVE NotesOf(segs)'
      BY Zenon, <3>1, <3>3 DEF NotesOf
    <3> QED  BY Zenon, <3>1, <3>2, <3>3 DEF RunInv
  <2> QED  BY Zenon, <2>1, <2>2, <2>3, <2>4 DEF CapiNext
<1> QED  BY <1>1, <1>2, PTL DEF CapiSpec

(* For every key file and path: the keys noted are those of the signers,   *)
(* whatever failed before.                                                 *)
THEOREM NotedKeys == CapiSpec => []KeysInOrder
<1>1. RunInv => KeysInOrder
  <2> SUFFICES ASSUME RunInv, attr # NoAttr, result = "none"
               PROVE  /\ stored = Len(attr.segs)
                      /\ \A k \in 1..stored :
                           LET asn == attr.segs[k].asn
                           IN IF Signs(asn)
                              THEN pubKey[k].asn = asn /\ pubKey[k].ski = LineOf(asn).ski
                              ELSE pubKey[k] = FakeKey
    BY Zenon DEF KeysInOrder
  <2>1. PICK segs, S : AttrOf(attr, segs, S) /\ NotesOf(segs)  BY Zenon DEF RunInv
  <2>2. attr.segs = segs /\ stored = Len(segs)
    BY Zenon, <2>1, AttributeHas DEF AttrOf, NotesOf
  <2> DEFINE Ok(k, asn) == IF Signs(asn)
                           THEN pubKey[k].asn = asn /\ pubKey[k].ski = LineOf(asn).ski
                           ELSE pubKey[k] = FakeKey
  <2>3. ASSUME NEW k \in 1..stored PROVE Ok(k, attr.segs[k].asn)
    <3> PICK asn : asn = attr.segs[k].asn  OBVIOUS
    <3>1. KeyNoted(pubKey[k], asn, conf)  BY Zenon, <2>1, <2>2, <2>3 DEF NotesOf
    <3>2. Signs(asn) <=> SignsAs(conf, asn)  BY Zenon DEF Signs, SignsAs
    <3>3. Signs(asn) => pubKey[k] = LineElement(LineOf(asn), TRUE) /\ LineOf(asn).asn = asn
      BY Zenon, <3>1, <3>2 DEF KeyNoted
    <3>4. Signs(asn) => pubKey[k].asn = asn /\ pubKey[k].ski = LineOf(asn).ski
      BY Zenon, <3>3, ElementKeeps
    <3>5. Ok(k, asn)  BY Zenon, <3>1, <3>2, <3>4 DEF KeyNoted
    <3> QED  BY Zenon, <3>5
  <2> QED  BY Zenon, <2>2, <2>3
<1> QED  BY <1>1, RunInvHolds, PTL

LEMMA AttrOfSigns ==
  ASSUME RunInv, attr # NoAttr, NEW segs, NEW S, AttrOf(attr, segs, S)
  PROVE  Signing(segs, S, conf, update.nlri) /\ AttrFacts(attr, segs, S)
<1>1. Signing(segs, S, conf, update.nlri)
  <2>1. update.nlri.bytes \in Nat
    <3>1. update \in Updates  BY Zenon DEF RunInv
    <3> QED  BY Zenon, <3>1, Inputs
  <2>2. Len(segs) # 0
    <3>1. Len(segs) \in 1..MaxKeys  BY Zenon DEF AttrOf
    <3> QED  BY <3>1, Inputs
  <2>3. CapiSet(conf)
    <3>1. conf \in Confs  BY Zenon DEF RunInv
    <3> QED  BY Zenon, <3>1, InputsTyped
  <2> QED  BY Zenon, <2>1, <2>2, <2>3 DEF AttrOf, Signing
<1>2. AttrFacts(attr, segs, S)
  <2>1. segs \in Seq(SegmentRecord) /\ attr = Attribute(segs, S, conf)  BY Zenon DEF AttrOf
  <2>2. DOMAIN S = 1..Len(segs)  BY Zenon, <1>1, SignedDomain DEF Signing
  <2> QED  BY Zenon, <2>1, <2>2, AttributeIs
<1> QED  BY Zenon, <1>1, <1>2

LEMMA ProcessDecides ==
  ASSUME RunInv, Process
  PROVE  ValidIffGenuine'
<1> PICK nlri : nlri = update.nlri  OBVIOUS
<1> PICK keys : keys = registered \cup {pubKey[i] : i \in {j \in 1..stored : pubKey[j].loaded}}
  OBVIOUS
<1>1. /\ attr # NoAttr /\ result = "none" /\ registered' = keys
      /\ conf' = conf /\ attr' = attr
      /\ result' = IF Validate(attr, conf.peerAS, nlri, keys) THEN "valid" ELSE "invalid"
  BY Zenon DEF Process
<1>2. PICK segs, S : AttrOf(attr, segs, S) /\ NotesOf(segs)
  BY Zenon, <1>1 DEF RunInv
<1>3. Signing(segs, S, conf, nlri)  BY Zenon, <1>1, <1>2, AttrOfSigns
<1>4. AttrFacts(attr, segs, S)  BY Zenon, <1>1, <1>2, AttrOfSigns
<1>5. ASSUME NEW k \in 1..Len(segs)
      PROVE  Verifies(attr, conf.peerAS, nlri, keys, k) <=> Genuine(segs[k].asn)
  <2> PICK asn : asn = segs[k].asn  OBVIOUS
  <2>1. Verifies(attr, conf.peerAS, nlri, keys, k)
        <=> /\ SignsAs(conf, asn)
            /\ \E key \in keys : key.asn = asn /\ key.ski = LineOf(asn).ski
    <3>1. VerifiesWith(attr, segs, conf, nlri, keys, k)
      BY Zenon, <1>3, <1>4, SignatureVerifies
    <3> QED  BY Zenon, <3>1 DEF VerifiesWith
  <2>2. Genuine(asn) <=> SignsAs(conf, asn) /\ LineOf(asn).public
    BY Zenon DEF Genuine, Signs, SignsAs
  <2>3. (\E key \in keys : key.asn = asn) => LineOf(asn).public
    <3>1. RunInv'  BY Zenon, ProcessKeeps
    <3> QED  BY Zenon, <1>1, <3>1 DEF RunInv
  <2>4. ASSUME SignsAs(conf, asn), LineOf(asn).public
        PROVE  \E key \in keys : key.asn = asn /\ key.ski = LineOf(asn).ski
    <3>1. KeyNoted(pubKey[k], asn, conf) /\ k \in 1..stored  BY Zenon, <1>2 DEF NotesOf
    <3>2. pubKey[k] = LineElement(LineOf(asn), TRUE) /\ LineOf(asn).asn = asn
      BY Zenon, <2>4, <3>1 DEF KeyNoted
    <3>3. /\ pubKey[k].loaded = LineOf(asn).public
          /\ pubKey[k].asn = asn /\ pubKey[k].ski = LineOf(asn).ski
      BY Zenon, <3>2, ElementKeeps
    <3>4. pubKey[k] \in keys  BY Zenon, <2>4, <3>1, <3>3
    <3> QED  BY Zenon, <3>3, <3>4
  <2> QED  BY Zenon, <2>1, <2>2, <2>3, <2>4
<1>6. Validate(attr, conf.peerAS, nlri, keys)
      <=> \A k \in 1..Len(segs) : Verifies(attr, conf.peerAS, nlri, keys, k)
  <2>1. BlockFound(attr)  BY Zenon, <1>3, <1>4, BlockIsFound
  <2>2. attr.secPathLen \div 6 = Len(segs)  BY Zenon, <1>4 DEF AttrFacts
  <2> QED  BY Zenon, <2>1, <2>2 DEF Validate
<1>7. attr.segs = segs /\ DOMAIN segs = 1..Len(segs)
  <2>1. segs \in Seq(SegmentRecord)  BY Zenon, <1>2 DEF AttrOf
  <2>2. DOMAIN segs = 1..Len(segs)  BY <2>1
  <2> QED  BY Zenon, <1>4, <2>2 DEF AttrFacts
<1>8. \A asn : Genuine(asn)' <=> Genuine(asn)
  BY Zenon, <1>1 DEF Genuine, Signs
<1>9. "valid" # "invalid"  OBVIOUS
<1>10. result' = "valid" <=> \A k \in DOMAIN attr.segs : Genuine(attr.segs[k].asn)
  BY Zenon, <1>1, <1>5, <1>6, <1>7, <1>9
<1> QED  BY Zenon, <1>1, <1>8, <1>10 DEF ValidIffGenuine

(* For every key file, path and configuration: the plug-in finds valid     *)
(* what all ASes of the path signed with keys that exist, and nothing      *)
(* else.                                                                   *)
THEOREM GenuineIsValid == CapiSpec => []ValidIffGenuine
<1>1. CapiInit => ValidIffGenuine  BY Zenon DEF CapiInit, ValidIffGenuine
<1>2. RunInv /\ ValidIffGenuine /\ [CapiNext]_capiVars => ValidIffGenuine'
  <2> SUFFICES ASSUME RunInv, ValidIffGenuine, [CapiNext]_capiVars PROVE ValidIffGenuine'  OBVIOUS
  <2>1. ASSUME NEW u \in Updates, SkipUpdate(u) \/ NoSegments(u) \/ Sign(u)
        PROVE  ValidIffGenuine'
    <3>1. result' = "none"  BY Zenon, <2>1 DEF SkipUpdate, NoSegments, Sign
    <3> QED  BY Zenon, <3>1 DEF ValidIffGenuine
  <2>2. CASE Process  BY Zenon, <2>2, ProcessDecides
  <2>3. CASE UNCHANGED capiVars
    BY Zenon, <2>3 DEF capiVars, ValidIffGenuine, Genuine, Signs
  <2> QED  BY Zenon, <2>1, <2>2, <2>3 DEF CapiNext
<1> QED  BY <1>1, <1>2, RunInvHolds, PTL DEF CapiSpec

(* For every path, key file and configuration: the lengths written into    *)
(* an attribute are those of the segments and signatures behind them.      *)
THEOREM LengthsAreRight == CapiSpec => []LengthsMatch
<1>1. RunInv => LengthsMatch
  <2> SUFFICES ASSUME RunInv, attr # NoAttr PROVE LengthsMatch
    BY Zenon DEF LengthsMatch
  <2> PICK nlri : nlri = update.nlri  OBVIOUS
  <2>1. PICK segs, S : AttrOf(attr, segs, S)  BY Zenon DEF RunInv
  <2>2. Signing(segs, S, conf, nlri) /\ AttrFacts(attr, segs, S)  BY Zenon, <2>1, AttrOfSigns
  <2>3. PICK n \in Nat : n = Len(segs)  BY Zenon, <2>2, SigningFacts
  <2>4. PICK t \in Nat : t = Total(Weights(S, n))
    <3>1. \A j \in 1..n : S[j].sigLen \in Nat  BY Zenon, <2>2, <2>3, SigningFacts
    <3>2. n \in 0..n  OBVIOUS
    <3>3. Total(Weights(S, n)) \in Nat  BY Zenon, <3>1, <3>2, WeightsAdd
    <3> QED  BY Zenon, <3>3
  <2> DEFINE paths == FlattenSeq([k \in DOMAIN attr.segs |->
                        <<PathField(attr.segs[k]), AsnField(attr.segs[k].asn)>>])
             sigs == FlattenSeq([k \in DOMAIN attr.block.sigs |-> SigFields(attr.block.sigs[k])])
  <2>5. Bytes(paths) = 6 * n
    <3>1. attr.segs = segs  BY Zenon, <2>2 DEF AttrFacts
    <3>2. DOMAIN segs = 1..n  BY <2>2, <2>3 DEF Signing
    <3>3. paths = FlattenSeq([k \in 1..Len(segs) |-> Seg(segs, k)])
      BY Zenon, <2>3, <3>1, <3>2 DEF Seg
    <3> HIDE DEF paths
    <3> QED  BY Zenon, <2>2, <2>3, <3>3, PathBytes
  <2>6. Bytes(sigs) = t
    <3> DEFINE a(k) == SigFields(attr.block.sigs[k])
               b(k) == SigFields(S[k])
    <3>1. ASSUME NEW k \in 1..n PROVE a(k) = b(k)
      <4>1. /\ attr.block.sigs[k].ski = S[k].ski /\ attr.block.sigs[k].sigLen = S[k].sigLen
            /\ attr.block.sigs[k].sig = S[k].sig
        BY Zenon, <2>2, <2>3 DEF AttrFacts
      <4> QED  BY Zenon, <4>1, SameFields
    <3>2. DOMAIN attr.block.sigs = 1..n  BY Zenon, <2>2, <2>3 DEF AttrFacts
    <3>3. sigs = FlattenSeq([k \in 1..n |-> a(k)])  BY Zenon, <3>2
    <3>4. [k \in 1..n |-> a(k)] = [k \in 1..n |-> b(k)]
      <4> HIDE DEF a, b, sigs
      <4> QED  BY <3>1
    <3>5. sigs = FlattenSeq([k \in 1..Len(segs) |-> SigFields(S[k])])
      <4> HIDE DEF a, sigs
      <4> QED  BY Zenon, <2>3, <3>3, <3>4
    <3> HIDE DEF sigs
    <3> QED  BY Zenon, <2>2, <2>3, <2>4, <3>5, SigBytes
  <2> HIDE DEF paths, sigs
  <2> PICK path : path = attr.secPathLen  OBVIOUS
  <2> PICK block : block = attr.block.length  OBVIOUS
  <2> PICK length : length = attr.length  OBVIOUS
  <2>7. path = 2 + 6 * n /\ block = 3 + t /\ length = path + block
        /\ (length > 255 => attr.extended)
    BY Zenon, <2>2, <2>3, <2>4 DEF AttrFacts
  <2>8. length > 255 \/ length < 256  BY <2>7
  <2>9. /\ attr.secPathLen = 2 + Bytes(paths) /\ attr.block.length = 3 + Bytes(sigs)
        /\ attr.length = attr.secPathLen + attr.block.length
        /\ attr.extended \/ attr.length < 256
    BY Zenon, <2>5, <2>6, <2>7, <2>8
  <2> QED  BY Zenon, <2>9 DEF LengthsMatch, paths, sigs
<1> QED  BY <1>1, RunInvHolds, PTL

(* For every path within the limits of the conversion: the segments of an  *)
(* attribute spell it.                                                     *)
THEOREM SegmentsSpellPath == CapiSpec => []PathSpelled
<1>1. RunInv => PathSpelled
  <2> SUFFICES ASSUME RunInv, attr # NoAttr, WithinLimits
               PROVE  Spelled(attr.segs) = Written(conf, update.path)
    BY Zenon DEF PathSpelled
  <2> PICK path : path = MyPath(conf, update.path)  OBVIOUS
  <2>1. PICK segs, S : AttrOf(attr, segs, S)  BY Zenon DEF RunInv
  <2>2. conf.asn \in Nat /\ update.path \in Seq([asn : Nat, count : Nat, dotted : BOOLEAN])
    <3>1. conf \in Confs /\ update \in Updates  BY Zenon DEF RunInv
    <3> QED  BY Zenon, <3>1, Inputs
  <2>3. attr.segs = segs /\ segs = Segments(path)  BY Zenon, <2>1, AttributeHas DEF AttrOf
  <2>4. path \in Seq(Int)  BY Zenon, <2>2, PathTyped
  <2>5. path = Written(conf, update.path)  BY Zenon, <2>2, ConvertedAsWritten DEF WithinLimits
  <2>6. Countable(path)  BY Zenon, <2>5 DEF WithinLimits
  <2> QED  BY Zenon, <2>3, <2>4, <2>5, <2>6, SegmentsSpell
<1> QED  BY <1>1, RunInvHolds, PTL

-----------------------------------------------------------------------------
(* The session with a peer                                                 *)

(* The count of the traffic thread passes 0 once: when it does, run is     *)
(* cleared, and the thread sends no more.                                  *)
CountedOnce == stopTime = -1 => ~run /\ traffic \in {"poll", "join", "done"}

(* The state machine is in OpenConfirm for a moment with an OPEN it is     *)
(* about to refuse, but never between two steps.                           *)
OpenJudged == state \in {"OpenConfirm", "ESTABLISHED"} /\ conn = "up" => opened = "good"

(* IDLE can be reached from everywhere (nextStates).                       *)
LEMMA SwitchedStates ==
  ASSUME NEW from \in States, NEW s \in States
  PROVE  /\ Switched(from, s) \in {from, s}
         /\ Switched(from, "IDLE") = "IDLE"
<1>1. "IDLE" \in nextStates[from]
  BY DEF States, nextStates
<1> QED
  BY <1>1 DEF Switched

(* A send never brings a connection back, and one that leaves it up was    *)
(* a success unless the socket stays full.                                 *)
LEMMA SendOutcome ==
  ASSUME TypeOK, NEW s \in Sends
  PROVE  /\ s[2] \in {"none", "up", "closed", "broken"}
         /\ s[2] = "up" => conn = "up" /\ (Blocks \/ s[1] = "sent")
<1>1. CASE conn = "up"
  BY <1>1 DEF Sends
<1>2. CASE conn \in {"none", "closed", "reset", "broken"}
  BY <1>2 DEF Sends
<1> QED
  BY <1>1, <1>2 DEF TypeOK

(* After a NOTIFICATION the state is IDLE, or the connection is gone.      *)
LEMMA NotifyOutcome ==
  ASSUME TypeOK, NEW from \in States, NotifyIn(from)
  PROVE  /\ conn' \in {"none", "up", "closed", "broken"}
         /\ state' \in States
         /\ killed' \in BOOLEAN
         /\ conn' = "up" => Blocks \/ state' = "IDLE"
<1>1. PICK s \in Sends : /\ conn' = s[2]
                         /\ state' = IF s[1] = "sent" THEN Switched(from, "IDLE") ELSE from
                         /\ killed' = (s[1] = "killed")
  BY DEF NotifyIn
<1>2. killed' \in BOOLEAN
  BY <1>1
<1>3. Switched(from, "IDLE") = "IDLE" /\ "IDLE" \in States
  BY SwitchedStates DEF States
<1> QED
  BY <1>1, <1>2, <1>3, SendOutcome

-----------------------------------------------------------------------------
(* Establishing the session keeps the types.                               *)
LEMMA TypeEstablishing ==
  ASSUME TypeOK, CountedOnce, Establishing
  PROVE  (TypeOK /\ CountedOnce)'
<1>i. FSM_MAX_RETRY \in Nat \ {0}
  BY SessionInputs
<1>s. state \in States /\ {"IDLE", "CONNECT", "ACTIVE", "OpenSent", "OpenConfirm", "ESTABLISHED"} = States
  BY DEF TypeOK, States
<1>w. \A from, s \in States : Switched(from, s) \in States
  BY SwitchedStates
<1>1. CASE FsmIdle
  BY <1>1, <1>i, <1>s, <1>w DEF FsmIdle, TypeOK, CountedOnce, peerVars, threadVars, trafficVars
<1>2. CASE FsmConnect
  <2>1. state' \in States
    BY <1>2, <1>s, <1>w DEF FsmConnect
  <2>2. retry' \in 0..FSM_MAX_RETRY
    BY <1>2, <1>i DEF FsmConnect, Looping, TypeOK
  <2>3. tcp' \in BOOLEAN /\ conn' \in {"none", "up"} /\ inbox' = "none" /\ opened' = "none"
    BY <1>2 DEF FsmConnect
  <2>4. UNCHANGED <<bgp, rcv, traffic, trafficVars, holdTime, run, sem, killed>>
    BY <1>2 DEF FsmConnect, threadVars
  <2> QED BY <2>1, <2>2, <2>3, <2>4 DEF TypeOK, CountedOnce, trafficVars
<1>3. CASE FsmActive
  BY <1>3, <1>s, <1>w DEF FsmActive, TypeOK, CountedOnce, peerVars, threadVars, trafficVars
<1>4. CASE FsmOpenSent
  <2>1. conn' \in {"none", "up", "closed", "broken"} /\ killed' \in BOOLEAN
    BY <1>4, SendOutcome DEF FsmOpenSent
  <2> QED BY <1>4, <1>i, <2>1 DEF FsmOpenSent, TypeOK, CountedOnce, trafficVars
<1>5. CASE OpenTimeout
  BY <1>5, <1>i DEF OpenTimeout, TypeOK, CountedOnce, peerVars, trafficVars
<1>6. CASE ReadBadOpen
  <2>1. /\ conn' \in {"none", "up", "closed", "broken"}
        /\ state' \in States /\ killed' \in BOOLEAN
    BY <1>6, <1>s, NotifyOutcome DEF ReadBadOpen, Notify
  <2> QED BY <1>6, <2>1 DEF ReadBadOpen, Read, TypeOK, CountedOnce, trafficVars
<1>7. CASE ReadOpen
  <2>1. /\ conn' \in {"none", "up", "closed", "reset", "broken"}
        /\ state' \in States /\ killed' \in BOOLEAN
    <3>1. CASE inbox = "open"
      BY <1>7, <3>1, <1>s, <1>w DEF ReadOpen, TypeOK
    <3>2. CASE inbox = "openNoMp"
      <4>1. NotifyIn(Switched(state, "OpenConfirm")) /\ Switched(state, "OpenConfirm") \in States
        BY <1>7, <3>2, <1>s, <1>w DEF ReadOpen
      <4> QED BY <4>1, NotifyOutcome
    <3> QED BY <1>7, <3>1, <3>2 DEF ReadOpen
  <2>2. holdTime' \in PeerHolds \cup {HOLD} /\ opened' \in {"good", "refused"}
    BY <1>7 DEF ReadOpen, TypeOK
  <2> QED BY <1>7, <2>1, <2>2 DEF ReadOpen, Read, TypeOK, CountedOnce, trafficVars
<1>8. CASE ReadNotification
  <2>1. state' \in States
    BY <1>8, <1>s, <1>w DEF ReadNotification
  <2>2. run' = FALSE /\ run' \in BOOLEAN /\ bgp' = "fsm" /\ inbox' = "none"
    BY <1>8 DEF ReadNotification, Read
  <2>3. UNCHANGED <<trafficVars, conn, retry, tcp, holdTime, opened, rcv, traffic, sem, killed>>
    BY <1>8 DEF ReadNotification
  <2> QED BY <2>1, <2>2, <2>3 DEF TypeOK, CountedOnce, trafficVars
<1>9. CASE ReadOther
  BY <1>9 DEF ReadOther, Read, TypeOK, CountedOnce, fsmVars, trafficVars
<1>10. CASE ReadFails
  <2>1. /\ conn' \in {"none", "up", "closed", "broken"}
        /\ state' \in States /\ killed' \in BOOLEAN /\ tcp' \in BOOLEAN
    <3>1. CASE Notify
      BY <1>10, <3>1, <1>s, NotifyOutcome DEF ReadFails, Notify, TypeOK, Closed
    <3>2. CASE Closed /\ UNCHANGED <<state, killed>>
      BY <3>2, <1>s DEF Closed, TypeOK
    <3> QED BY <1>10, <3>1, <3>2 DEF ReadFails
  <2>2. inbox' = "none"
    BY <1>10 DEF ReadFails, Closed
  <2> QED BY <1>10, <1>i, <2>1, <2>2 DEF ReadFails, TypeOK, CountedOnce, trafficVars
<1>11. CASE FsmOpenConfirm
  BY <1>11, <1>s, <1>w DEF FsmOpenConfirm, TypeOK, CountedOnce, peerVars, trafficVars
<1>12. CASE FirstKeepAlive
  <2>1. conn' \in {"none", "up", "closed", "broken"} /\ killed' \in BOOLEAN
    BY <1>12, SendOutcome DEF FirstKeepAlive
  <2> QED BY <1>12, <2>1 DEF FirstKeepAlive, TypeOK, CountedOnce, fsmVars, trafficVars
<1>13. CASE FirstKeepAliveFailed
  <2>1. /\ conn' \in {"none", "up", "closed", "broken"}
        /\ state' \in States /\ killed' \in BOOLEAN
    BY <1>13, <1>s, NotifyOutcome DEF FirstKeepAliveFailed, Notify
  <2> QED BY <1>13, <2>1 DEF FirstKeepAliveFailed, TypeOK, CountedOnce, trafficVars
<1>14. CASE NotEstablished
  <2>1. /\ tcp' \in BOOLEAN /\ run' = FALSE /\ run' \in BOOLEAN
        /\ conn' = "none" /\ inbox' = "none" /\ bgp' = "done"
    BY <1>14 DEF NotEstablished, Closed
  <2>2. UNCHANGED <<trafficVars, state, retry, holdTime, opened, rcv, traffic, sem, killed>>
    BY <1>14 DEF NotEstablished
  <2> QED BY <2>1, <2>2 DEF TypeOK, CountedOnce, trafficVars
<1> QED
  BY <1>1, <1>2, <1>3, <1>4, <1>5, <1>6, <1>7, <1>8, <1>9, <1>10, <1>11, <1>12, <1>13, <1>14
     DEF Establishing

-----------------------------------------------------------------------------
(* The established session and its end.                                    *)
LEMMA TypeManaging ==
  ASSUME TypeOK, CountedOnce, Managing \/ HoldExpires
  PROVE  (TypeOK /\ CountedOnce)'
<1>s. state \in States
  BY DEF TypeOK
<1>1. CASE StartReceiver
  BY <1>1 DEF StartReceiver, TypeOK, CountedOnce, peerVars, fsmVars, trafficVars
<1>2. CASE SemInit
  BY <1>2 DEF SemInit, TypeOK, CountedOnce, peerVars, fsmVars, trafficVars
<1>3. CASE HoldKeepAlive
  <2>1. conn' \in {"none", "up", "closed", "broken"} /\ killed' \in BOOLEAN
    BY <1>3, SendOutcome DEF HoldKeepAlive
  <2> QED BY <1>3, <2>1 DEF HoldKeepAlive, TypeOK, CountedOnce, fsmVars, threadVars, trafficVars
<1>4. CASE HoldExpires
  <2>1. /\ conn' \in {"none", "up", "closed", "broken"}
        /\ state' \in States /\ killed' \in BOOLEAN
    BY <1>4, <1>s, NotifyOutcome DEF HoldExpires, Notify
  <2> QED BY <1>4, <2>1 DEF HoldExpires, TypeOK, CountedOnce, trafficVars
<1>5. CASE HoldEnds
  BY <1>5 DEF HoldEnds, TypeOK, CountedOnce, peerVars, fsmVars, trafficVars
<1>6. CASE Cease
  <2>1. /\ conn' \in {"none", "up", "closed", "broken"}
        /\ state' \in States /\ killed' \in BOOLEAN
    BY <1>6, <1>s, NotifyOutcome DEF Cease, Notify
  <2> QED BY <1>6, <2>1 DEF Cease, TypeOK, CountedOnce, threadVars, trafficVars
<1>7. CASE EndLoopEnds
  BY <1>7 DEF EndLoopEnds, TypeOK, CountedOnce, peerVars, fsmVars, trafficVars
<1>8. CASE FreeSem
  BY <1>8 DEF FreeSem, TypeOK, CountedOnce, peerVars, fsmVars, trafficVars
<1>9. CASE JoinReceiver
  <2>1. /\ tcp' \in BOOLEAN /\ run' = FALSE /\ run' \in BOOLEAN
        /\ conn' = "none" /\ inbox' = "none" /\ bgp' = "done"
    BY <1>9 DEF JoinReceiver, Closed
  <2>2. UNCHANGED <<trafficVars, state, retry, holdTime, opened, rcv, traffic, sem, killed>>
    BY <1>9 DEF JoinReceiver
  <2> QED BY <2>1, <2>2 DEF TypeOK, CountedOnce, trafficVars
<1> QED
  BY <1>1, <1>2, <1>3, <1>4, <1>5, <1>6, <1>7, <1>8, <1>9 DEF Managing

LEMMA TypeReceiver ==
  ASSUME TypeOK, CountedOnce, RcvEnds \/ RcvMessage \/ RcvPost
  PROVE  (TypeOK /\ CountedOnce)'
<1>s. state \in States /\ "IDLE" \in States
  BY DEF TypeOK, States
<1>1. CASE RcvEnds
  BY <1>1 DEF RcvEnds, TypeOK, CountedOnce, peerVars, fsmVars, trafficVars
<1>2. CASE RcvMessage
  <2>1. UNCHANGED <<trafficVars, retry, holdTime, opened, bgp, traffic, run, sem>>
    BY <1>2 DEF RcvMessage
  <2>2. /\ conn' \in {"none", "up", "closed", "reset", "broken"}
        /\ state' \in States /\ killed' \in BOOLEAN
    <3>1. CASE Notify
      BY <3>1, <1>s, NotifyOutcome DEF Notify
    <3>2. CASE ~Notify
      BY <1>2, <3>2, <1>s DEF RcvMessage, Closed, TypeOK
    <3> QED BY <3>1, <3>2
  <2>3. tcp' \in BOOLEAN /\ inbox' = "none" /\ rcv' \in {"loop", "post"}
    BY <1>2 DEF RcvMessage, Closed, TypeOK
  <2> QED BY <2>1, <2>2, <2>3 DEF TypeOK, CountedOnce, trafficVars
<1>3. CASE RcvPost
  <2>1. killed' \in BOOLEAN
    BY <1>3 DEF RcvPost
  <2> QED BY <1>3, <2>1 DEF RcvPost, TypeOK, CountedOnce, peerVars, fsmVars, trafficVars
<1> QED
  BY <1>1, <1>2, <1>3

(* stopTime only passes -1 if the thread still sends after it cleared run. *)
LEMMA TypeTraffic ==
  ASSUME TypeOK, CountedOnce, TrafficThread
  PROVE  (TypeOK /\ CountedOnce)'
<1>1. CASE TrafficPoll
  BY <1>1 DEF TrafficPoll, TypeOK, CountedOnce, peerVars, fsmVars, trafficVars
<1>2. CASE TrafficSend
  <2>1. updates' \in 0..MaxUpdates
    BY <1>2, SessionInputs DEF TrafficSend, TypeOK
  <2>2. traffic' \in {"write", "count"} /\ stopTime # -1
    BY <1>2 DEF TrafficSend, CountedOnce
  <2> QED BY <1>2, <2>1, <2>2 DEF TrafficSend, TypeOK, CountedOnce, peerVars, fsmVars
<1>3. CASE TrafficWrite
  <2>1. conn' \in {"none", "up", "closed", "broken"} /\ killed' \in BOOLEAN
    BY <1>3, SendOutcome DEF TrafficWrite
  <2>2. recent' \in BOOLEAN
    BY <1>3 DEF TrafficWrite
  <2>3. stopTime # -1
    BY <1>3 DEF TrafficWrite, CountedOnce
  <2> QED BY <1>3, <2>1, <2>2, <2>3 DEF TrafficWrite, TypeOK, CountedOnce, fsmVars
<1>4. CASE TrafficCount
  <2>1. stopTime \in 0..DISCONNECT /\ DISCONNECT \in Nat
    BY <1>4, SessionInputs DEF TrafficCount, TypeOK, CountedOnce
  <2>2. stopTime' \in -1..DISCONNECT /\ (stopTime' = -1 => DISCONNECT # 0 /\ stopTime = 0)
    BY <1>4, <2>1 DEF TrafficCount
  <2>3. run' \in BOOLEAN /\ (stopTime' = -1 => ~run')
    BY <1>4, <2>2 DEF TrafficCount, TypeOK
  <2> QED BY <1>4, <2>2, <2>3 DEF TrafficCount, TypeOK, CountedOnce, peerVars, fsmVars
<1>5. CASE TrafficJoin
  BY <1>5 DEF TrafficJoin, TypeOK, CountedOnce, peerVars, fsmVars, trafficVars
<1> QED
  BY <1>1, <1>2, <1>3, <1>4, <1>5 DEF TrafficThread

LEMMA TypeEnvironment ==
  ASSUME TypeOK, CountedOnce, Environment
  PROVE  (TypeOK /\ CountedOnce)'
<1>1. ASSUME NEW m \in Kinds, PeerSends(m)
      PROVE  (TypeOK /\ CountedOnce)'
  BY <1>1 DEF PeerSends, TypeOK, CountedOnce, fsmVars, threadVars, trafficVars
<1>2. CASE PeerLeaves
  BY <1>2 DEF PeerLeaves, TypeOK, CountedOnce, fsmVars, threadVars, trafficVars
<1>3. CASE TimePasses
  <2>1. recent' \in BOOLEAN
    BY <1>3 DEF TimePasses
  <2> QED BY <1>3, <2>1 DEF TimePasses, TypeOK, CountedOnce, peerVars, fsmVars, threadVars
<1> QED
  BY <1>1, <1>2, <1>3 DEF Environment

(* The variables of a session keep their types, whatever the peer does and *)
(* in whatever order the threads run: stopTime stops at -1 and the retry   *)
(* counter at FSM_MAX_RETRY.                                               *)
THEOREM SessionTypeCorrect == Spec => []TypeOK
<1>1. Init => TypeOK /\ CountedOnce
  <2> SUFFICES ASSUME Init PROVE TypeOK /\ CountedOnce
    OBVIOUS
  <2>1. run \in BOOLEAN /\ tcp \in BOOLEAN /\ recent \in BOOLEAN /\ killed \in BOOLEAN
    BY DEF Init
  <2>2. retry \in 0..FSM_MAX_RETRY /\ updates \in 0..MaxUpdates
        /\ stopTime \in -1..DISCONNECT /\ stopTime # -1
    BY SessionInputs DEF Init
  <2> QED BY <2>1, <2>2 DEF Init, TypeOK, CountedOnce, States
<1>2. TypeOK /\ CountedOnce /\ [Next]_vars => (TypeOK /\ CountedOnce)'
  <2> SUFFICES ASSUME TypeOK, CountedOnce, [Next]_vars PROVE (TypeOK /\ CountedOnce)'
    OBVIOUS
  <2>1. CASE Next
    BY <2>1, TypeEstablishing, TypeManaging, TypeReceiver, TypeTraffic, TypeEnvironment
       DEF Next, SessionThread, ReceiverThread
  <2>2. CASE UNCHANGED vars
    BY <2>2 DEF vars, TypeOK, CountedOnce, peerVars, fsmVars, threadVars, trafficVars
  <2> QED BY <2>1, <2>2
<1> QED
  BY <1>1, <1>2, PTL DEF Spec

-----------------------------------------------------------------------------
(* A step that keeps what was said of the OPEN and brings no connection    *)
(* back, and whose new state is the old one or neither of the two.         *)
LEMMA StillJudged ==
  ASSUME OpenJudged, opened' = opened, conn' = "up" => conn = "up",
         conn' = "up" => state' \in {state, "IDLE", "CONNECT"}
  PROVE  OpenJudged'
BY DEF OpenJudged

(* A NOTIFICATION that cannot be sent takes the connection with it.        *)
LEMMA NotifyJudged ==
  ASSUME TypeOK, ~Blocks, NEW from \in States, NotifyIn(from)
  PROVE  OpenJudged'
BY NotifyOutcome DEF OpenJudged

LEMMA JudgedEstablishing ==
  ASSUME TypeOK, OpenJudged, ~Blocks, Establishing
  PROVE  OpenJudged'
<1>s. state \in States /\ {"IDLE", "CONNECT", "ACTIVE", "OpenSent", "OpenConfirm", "ESTABLISHED"} = States
  BY DEF TypeOK, States
<1>w. \A from, s \in States : Switched(from, s) \in {from, s} /\ Switched(from, "IDLE") = "IDLE"
  BY SwitchedStates
<1>1. CASE FsmIdle
  BY <1>1, <1>s, <1>w, StillJudged DEF FsmIdle, peerVars
<1>2. CASE FsmConnect
  <2>1. state' \in {"CONNECT", "OpenSent", "ACTIVE"}
    BY <1>2, <1>s, <1>w DEF FsmConnect
  <2> QED BY <2>1 DEF OpenJudged
<1>3. CASE FsmActive
  BY <1>3, <1>s, <1>w, StillJudged DEF FsmActive, peerVars
<1>4. CASE FsmOpenSent
  BY <1>4, SendOutcome, StillJudged DEF FsmOpenSent
<1>5. CASE OpenTimeout
  BY <1>5, StillJudged DEF OpenTimeout, peerVars
<1>6. CASE ReadBadOpen
  BY <1>6, <1>s, NotifyJudged DEF ReadBadOpen, Notify
<1>7. CASE ReadOpen
  <2>1. CASE opened' = "good"
    BY <2>1 DEF OpenJudged
  <2>2. CASE NotifyIn(Switched(state, "OpenConfirm"))
    <3>1. Switched(state, "OpenConfirm") \in States
      BY <1>s, <1>w
    <3> QED BY <2>2, <3>1, NotifyJudged
  <2> QED BY <1>7, <2>1, <2>2 DEF ReadOpen
<1>8. CASE ReadNotification
  BY <1>8, <1>s, <1>w, StillJudged DEF ReadNotification
<1>9. CASE ReadOther
  BY <1>9, StillJudged DEF ReadOther, fsmVars
<1>10. CASE ReadFails
  <2>1. CASE Notify
    BY <2>1, <1>s, NotifyJudged DEF Notify
  <2>2. CASE Closed
    BY <2>2 DEF Closed, OpenJudged
  <2> QED BY <1>10, <2>1, <2>2 DEF ReadFails
<1>11. CASE FsmOpenConfirm
  BY <1>11 DEF FsmOpenConfirm, peerVars, OpenJudged
<1>12. CASE FirstKeepAlive
  BY <1>12, SendOutcome, StillJudged DEF FirstKeepAlive, fsmVars
<1>13. CASE FirstKeepAliveFailed
  BY <1>13, <1>s, NotifyJudged DEF FirstKeepAliveFailed, Notify
<1>14. CASE NotEstablished
  BY <1>14 DEF NotEstablished, Closed, OpenJudged
<1> QED
  BY <1>1, <1>2, <1>3, <1>4, <1>5, <1>6, <1>7, <1>8, <1>9, <1>10, <1>11, <1>12, <1>13, <1>14
     DEF Establishing

(* Once established nothing is judged any more: the threads send, close    *)
(* the connection or end the session.                                      *)
LEMMA JudgedLater ==
  ASSUME TypeOK, OpenJudged, ~Blocks,
         Managing \/ HoldExpires \/ ReceiverThread \/ TrafficThread \/ Environment
  PROVE  OpenJudged'
<1>s. state \in States
  BY DEF TypeOK
<1>1. CASE HoldKeepAlive \/ TrafficWrite
  BY <1>1, SendOutcome, StillJudged DEF HoldKeepAlive, TrafficWrite, fsmVars
<1>2. CASE HoldExpires \/ Cease
  BY <1>2, <1>s, NotifyJudged DEF HoldExpires, Cease, Notify
<1>3. CASE StartReceiver \/ SemInit \/ HoldEnds \/ EndLoopEnds \/ FreeSem \/ RcvEnds \/ RcvPost
           \/ TrafficPoll \/ TrafficSend \/ TrafficCount \/ TrafficJoin \/ TimePasses
  <2>1. UNCHANGED <<conn, state, opened>>
    BY <1>3 DEF StartReceiver, SemInit, HoldEnds, EndLoopEnds, FreeSem, RcvEnds, RcvPost,
                TrafficPoll, TrafficSend, TrafficCount, TrafficJoin, TimePasses, peerVars, fsmVars
  <2> QED BY <2>1, StillJudged
<1>4. CASE JoinReceiver
  BY <1>4 DEF JoinReceiver, Closed, OpenJudged
<1>5. CASE RcvMessage
  <2>1. CASE Notify
    BY <2>1, <1>s, NotifyJudged DEF Notify
  <2>2. CASE Closed
    BY <2>2 DEF Closed, OpenJudged
  <2>3. CASE UNCHANGED conn /\ state' \in {state, "IDLE"}
    BY <1>5, <2>3, StillJudged DEF RcvMessage
  <2> QED BY <1>5, <2>1, <2>2, <2>3 DEF RcvMessage
<1>6. CASE PeerLeaves
  BY <1>6 DEF PeerLeaves, OpenJudged
<1>7. ASSUME NEW m \in Kinds, PeerSends(m) PROVE OpenJudged'
  BY <1>7, StillJudged DEF PeerSends, fsmVars
<1> QED
  BY <1>1, <1>2, <1>3, <1>4, <1>5, <1>6, <1>7
     DEF Managing, ReceiverThread, TrafficThread, Environment

(* Unless a send can be given up for a full socket, a peer whose OPEN was  *)
(* refused, for whatever reason, has no session while it is connected.     *)
THEOREM NoSessionUnlessAgreed ==
  ASSUME ~Blocks
  PROVE  Spec => []EstablishedAfterOpen
<1>1. Init => OpenJudged
  BY DEF Init, OpenJudged
<1>2. TypeOK /\ OpenJudged /\ [Next]_vars => OpenJudged'
  <2> SUFFICES ASSUME TypeOK, OpenJudged, [Next]_vars PROVE OpenJudged'
    OBVIOUS
  <2>1. CASE Next
    BY <2>1, JudgedEstablishing, JudgedLater DEF Next, SessionThread
  <2>2. CASE UNCHANGED vars
    BY <2>2, StillJudged DEF vars, peerVars, fsmVars
  <2> QED BY <2>1, <2>2
<1>3. OpenJudged => EstablishedAfterOpen
  BY DEF OpenJudged, EstablishedAfterOpen
<1> QED
  BY <1>1, <1>2, <1>3, SessionTypeCorrect, PTL DEF Spec

-----------------------------------------------------------------------------
(* The hold time loop.  Neither of its promises is inductive: what they    *)
(* need to know is the age that a time stamp will have when the loop wakes *)
(* up, age + sleep.                                                        *)

(* The loop goes to sleep when the last message is younger than one        *)
(* Interval, for at most its age and another Interval.                     *)
SentAtWakeUp == running => sinceSent + sleep <= 3 * Interval - 2

ReceivedAtWakeUp == running => sinceReceived + sleep <= negotiated + FSM_MAX_SLEEP_TIME

TimerInv == HoldTypeOK /\ SentAtWakeUp /\ ReceivedAtWakeUp

(* A third of a hold time of at least 3 seconds is at least one second,    *)
(* and three such intervals do not exceed it (intervalTime).               *)
LEMMA IntervalBounds ==
  ASSUME HoldTypeOK
  PROVE  Interval \in Nat /\ Interval >= 1 /\ 3 * Interval <= negotiated
<1>1. negotiated \in Nat /\ negotiated >= 3
  BY Times DEF HoldTypeOK
<1> QED
  BY <1>1 DEF Interval

(* secToSleep never exceeds its limit or the age and another Interval.     *)
LEMMA SleepForBounds ==
  ASSUME HoldTypeOK, NEW age \in Nat
  PROVE  /\ SleepFor(age) \in 0..FSM_MAX_SLEEP_TIME
         /\ SleepFor(age) <= age + Interval
<1>1. Interval \in Nat
  BY IntervalBounds
<1> QED
  BY <1>1, Times DEF SleepFor

(* The session starts with everything just sent and received.              *)
LEMMA TimerInvInit == HoldInit => TimerInv
<1> SUFFICES ASSUME HoldInit PROVE TimerInv
  OBVIOUS
<1>1. HoldTypeOK
  BY Times DEF HoldInit, HoldTypeOK
<1>2. Interval \in Nat /\ Interval >= 1 /\ negotiated \in Nat
  BY <1>1, IntervalBounds, Times DEF HoldTypeOK
<1> QED
  BY <1>1, <1>2, Times DEF TimerInv, SentAtWakeUp, ReceivedAtWakeUp, HoldInit

(* Every pass of the loop, every second and every message keeps the ages   *)
(* within what the next wake-up allows.                                    *)
LEMMA TimerInvNext == TimerInv /\ [HoldNext]_holdVars => TimerInv'
<1> SUFFICES ASSUME TimerInv, [HoldNext]_holdVars PROVE TimerInv'
  OBVIOUS
<1>1. /\ negotiated \in Nat /\ sinceSent \in Nat /\ sinceReceived \in Nat /\ sleep \in Nat
      /\ FSM_MAX_SLEEP_TIME \in Nat
  BY Times DEF TimerInv, HoldTypeOK
<1>2. Interval \in Nat /\ Interval >= 1
  BY IntervalBounds DEF TimerInv
<1>3. CASE PeerSeemsDead
  BY <1>3 DEF PeerSeemsDead, TimerInv, HoldTypeOK, SentAtWakeUp, ReceivedAtWakeUp
<1>4. CASE LoopPass
  <2>1. sinceSent' \in Nat /\ sinceSent' <= Interval - 1
    BY <1>1, <1>2, <1>4 DEF LoopPass
  <2>2. sleep' \in 0..FSM_MAX_SLEEP_TIME /\ sleep' <= sinceSent' + Interval
    BY <2>1, <1>4, SleepForBounds DEF LoopPass, TimerInv
  <2>3. HoldTypeOK'
    BY <2>1, <2>2, <1>4 DEF LoopPass, TimerInv, HoldTypeOK
  <2>4. SentAtWakeUp'
    <3>1. Interval' = Interval
      BY <1>4 DEF LoopPass, Interval
    <3>2. sleep' \in Nat
      BY <1>1, <2>2
    <3>3. \A sent, s, i \in Nat : sent <= i - 1 /\ s <= sent + i => sent + s <= 3 * i - 2
      OBVIOUS
    <3>4. sinceSent' + sleep' <= 3 * Interval - 2
      BY <1>2, <2>1, <2>2, <3>2, <3>3
    <3> QED
      BY <3>1, <3>4 DEF SentAtWakeUp
  <2>5. ReceivedAtWakeUp'
    BY <1>1, <1>4, <2>2 DEF LoopPass, ReceivedAtWakeUp
  <2> QED
    BY <2>3, <2>4, <2>5 DEF TimerInv
<1>5. CASE Second
  <2>1. Interval' = Interval
    BY <1>5 DEF Second, Interval
  <2>2. sleep' = sleep - 1 /\ sinceSent' = sinceSent + 1 /\ sinceReceived' = sinceReceived + 1
    BY <1>5 DEF Second
  <2>3. HoldTypeOK'
    BY <1>1, <1>5, <2>2 DEF Second, TimerInv, HoldTypeOK
  <2>4. SentAtWakeUp' /\ ReceivedAtWakeUp'
    BY <1>1, <1>2, <1>5, <2>1, <2>2
    DEF Second, TimerInv, SentAtWakeUp, ReceivedAtWakeUp
  <2> QED
    BY <2>3, <2>4 DEF TimerInv
<1>6. CASE SendUpdate
  <2>1. Interval' = Interval
    BY <1>6 DEF SendUpdate, Interval
  <2> QED
    BY <1>1, <1>2, <1>6, <2>1
    DEF SendUpdate, TimerInv, HoldTypeOK, SentAtWakeUp, ReceivedAtWakeUp
<1>7. CASE Receive
  <2>1. Interval' = Interval
    BY <1>7 DEF Receive, Interval
  <2> QED
    BY <1>1, <1>2, <1>7, <2>1
    DEF Receive, TimerInv, HoldTypeOK, SentAtWakeUp, ReceivedAtWakeUp
<1>8. CASE UNCHANGED holdVars
  BY <1>8 DEF holdVars, TimerInv, HoldTypeOK, SentAtWakeUp, ReceivedAtWakeUp, Interval
<1> QED
  BY <1>3, <1>4, <1>5, <1>6, <1>7, <1>8 DEF HoldNext

THEOREM TimerInvariant == HoldSpec => []TimerInv
  BY TimerInvInit, TimerInvNext, PTL DEF HoldSpec

(* However the updates fall between the passes of the loop, the peer hears *)
(* from this end before the hold time is over.                             *)
THEOREM KeepAlivesInTime == HoldSpec => []KeepAliveInTime
<1>1. TimerInv => KeepAliveInTime
  <2> SUFFICES ASSUME TimerInv, running PROVE sinceSent < negotiated
    BY DEF KeepAliveInTime
  <2>1. Interval \in Nat /\ 3 * Interval <= negotiated
    BY IntervalBounds DEF TimerInv
  <2>2. negotiated \in Nat /\ sinceSent \in Nat /\ sleep \in Nat
    BY Times DEF TimerInv, HoldTypeOK
  <2> QED
    BY <2>1, <2>2 DEF TimerInv, SentAtWakeUp
<1> QED
  BY <1>1, TimerInvariant, PTL

(* A peer that went silent is given up at most one sleep of the loop after *)
(* its hold time.                                                          *)
THEOREM DeadPeersNoticed == HoldSpec => []DeadPeerNoticed
<1>1. TimerInv => DeadPeerNoticed
  <2> SUFFICES ASSUME TimerInv, running
               PROVE  sinceReceived <= negotiated + FSM_MAX_SLEEP_TIME
    BY DEF DeadPeerNoticed
  <2>1. /\ negotiated \in Nat /\ sinceReceived \in Nat /\ sleep \in Nat
        /\ FSM_MAX_SLEEP_TIME \in Nat
    BY Times DEF TimerInv, HoldTypeOK
  <2> QED
    BY <2>1 DEF TimerInv, ReceivedAtWakeUp
<1> QED
  BY <1>1, TimerInvariant, PTL

(* The ages and the sleep stay numbers and within their bounds.            *)
THEOREM TimerTypeCorrect == HoldSpec => []HoldTypeOK
<1>1. TimerInv => HoldTypeOK
  BY DEF TimerInv
<1> QED
  BY <1>1, TimerInvariant, PTL
==============================================================================
