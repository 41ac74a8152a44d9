----------------------------- MODULE SecurePath -----------------------------
(***************************************************************************)
(* The BGPsec path attribute: from the AS path as it is written to secure  *)
(* path and signatures (updateStackUtil.c, ASNTokenizer.c, ASList.c,       *)
(* Crypto.c, BGPSecPathBin.c), and from the attribute to the messages a    *)
(* validator checks the signatures against (sca_generateHashMessage).      *)
(*                                                                         *)
(* Bytes are fields: a tag, a value and a number of bytes.  A signature is *)
(* the SKI of the key that made it and the message it was made over.       *)
(***************************************************************************)
EXTENDS Sums, FiniteSets, SequencesExt

CONSTANTS
  Lines,     \* the key list file: AS number, SKI, and which key files exist
  FakeSki,   \* fake_key.ski
  FakeLen,   \* fake_sigLen
  SignBit,   \* 2^31, the value of the sign bit of an AS number
  PCountMod  \* 256, the values of pCount

SigLen == [asn \in {Lines[i].asn : i \in DOMAIN Lines} |-> 70 + (asn % 3)]

ASSUME Widths == SignBit \in Nat /\ PCountMod \in Nat \ {0} /\ FakeLen \in Nat

ASSUME KeyFile ==
  /\ Lines \in Seq(Range(Lines))
  /\ \A i \in DOMAIN Lines :
       /\ Lines[i].asn \in 1..(2 * SignBit - 1)
       /\ Lines[i].private \in BOOLEAN /\ Lines[i].public \in BOOLEAN
       /\ Lines[i].ski # FakeSki

None == [asn |-> 0]

-----------------------------------------------------------------------------
(* The AS path                                                             *)

(* Bug: the number behind the p counts the repetitions only.               *)
LongPathExtra(written) ==
  FlattenSeq([i \in DOMAIN written |-> [j \in 1..(written[i].count + 1) |-> written[i].asn]])

(* convertAsnPath prints a plain AS number with %d, and asntok_next skips  *)
(* the sign.  The halves of a dotted one are small.                        *)
Printed(t) == IF t.dotted \/ t.asn < SignBit THEN t.asn ELSE 2 * SignBit - t.asn

LongPath(written) ==
  FlattenSeq([i \in DOMAIN written |-> [j \in 1..written[i].count |-> Printed(written[i])]])

IBGP(conf) == conf.asn = conf.peerAS

MyPath(conf, written) ==
  IF IBGP(conf) THEN LongPath(written) ELSE <<conf.asn>> \o LongPath(written)

(* _fillSecurePath: a segment per run of one AS number, the last AS first. *)
Count(segs, asn) ==
  IF segs # <<>> /\ Last(segs).asn = asn
  THEN [segs EXCEPT ![Len(segs)].pCount = (@ + 1) % PCountMod]
  ELSE Append(segs, [pCount |-> 1, flags |-> 0, asn |-> asn])

Segments(path) ==
  LET upTo[i \in 0..Len(path)] == IF i = 0 THEN <<>> ELSE Count(upTo[i - 1], path[i])
  IN upTo[Len(path)]

-----------------------------------------------------------------------------
(* The list of keys (ASList.c)                                             *)

(* _cmpListElement, as "smaller": by AS number, private before public.     *)
Smaller(e, f) == e.asn < f.asn \/ (e.asn = f.asn /\ ~e.public /\ f.public)

(* insertListElem: before the first larger element.                        *)
InsertElement(L, e) ==
  LET i == SelectInSeq(L, LAMBDA f : Smaller(e, f))
  IN IF i = 0 THEN Append(L, e) ELSE InsertAt(L, i, e)

(* preloadKeys, loadAS_SKI with both kinds of keys: the public key of a    *)
(* line first.  A key that cannot be read stays in the list, without data. *)
Load(L, line) ==
  LET Info(public, loaded) ==
        [asn |-> line.asn, ski |-> line.ski, public |-> public, loaded |-> loaded]
  IN InsertElement(InsertElement(L, Info(TRUE, line.public)), Info(FALSE, line.private))

AsList ==
  LET upTo[i \in 0..Len(Lines)] == IF i = 0 THEN <<>> ELSE Load(upTo[i - 1], Lines[i])
  IN upTo[Len(Lines)]

(* getListInfo: on while the elements are smaller.                         *)
GetListInfo(asn, public) ==
  LET needle == [asn |-> asn, public |-> public]
      i == SelectInSeq(AsList, LAMBDA e : ~Smaller(e, needle))
  IN IF i # 0 /\ ~Smaller(needle, AsList[i]) THEN AsList[i] ELSE None

-----------------------------------------------------------------------------
(* Messages                                                                *)

AsnField(asn)   == <<"asn", asn, 4>>
PathField(s)    == <<"pCount, flags", <<s.pCount, s.flags>>, 2>>
SkiField(ski)   == <<"ski", ski, 20>>
LenField(n)     == <<"siglen", n, 2>>
SigField(g)     == <<"signature", g.sig, g.sigLen>>
AlgoField       == <<"algoID", 1, 1>>
NlriField(nlri) == <<"nlri", nlri.prefix, 4 + nlri.bytes>>

Bytes(message) == Total([i \in DOMAIN message |-> message[i][3]])

SigFields(g) == <<SkiField(g.ski), LenField(g.sigLen), SigField(g)>>

Target(segs, conf, k) == IF k = 1 THEN conf.peerAS ELSE segs[k - 1].asn

-----------------------------------------------------------------------------
(* Signing                                                                 *)

(* _signDraft15 of the k-th segment, when the one behind it is done: the   *)
(* message holds its signature and its message.  A signature that cannot   *)
(* be made is the fake one.                                                *)
SignSegment(segs, conf, nlri, done, k) ==
  LET info == IF conf.capi THEN None ELSE GetListInfo(segs[k].asn, FALSE)
      to   == AsnField(Target(segs, conf, k))
      message ==
        IF k = Len(segs)
        THEN <<to, PathField(segs[k]), AsnField(segs[k].asn), AlgoField, NlriField(nlri)>>
        ELSE <<to>> \o SigFields(done) \o <<PathField(segs[k])>> \o done.message
      made == info # None /\ info.loaded
  IN [message |-> message,
      made    |-> made,
      ski     |-> IF info = None THEN FakeSki ELSE info.ski,
      sig     |-> IF made THEN <<info.ski, message>> ELSE <<>>,
      sigLen  |-> IF made THEN SigLen[segs[k].asn] ELSE FakeLen]

(* From the origin, the last segment, to the first.                        *)
Signed(segs, conf, nlri) ==
  LET S[k \in DOMAIN segs] == SignSegment(segs, conf, nlri, S[k + 1], k)
  IN S

(* The elements that were signed or faked before the first failure, which  *)
(* ends the loop unless failures are faked.                                *)
Unsigned(S) == {k \in DOMAIN S : ~S[k].made}
Stops(S, conf) == conf.nsMode # "fake" /\ Unsigned(S) # {}
Reached(S, conf) ==
  IF Stops(S, conf) THEN {k \in DOMAIN S : \A j \in Unsigned(S) : j < k} ELSE DOMAIN S

(* The key noted for a segment: its public key, or the fake key, which has *)
(* no data.                                                                *)
FakeKey == [asn |-> 0, ski |-> FakeSki, public |-> TRUE, loaded |-> FALSE]
NotedKey(S, segs, k) == IF S[k].made THEN GetListInfo(segs[k].asn, TRUE) ELSE FakeKey

(* Bug: the length of the block is not increased by the signatures.        *)
SignatureBlockHeadersOnly(S) ==
  [length |-> 3 + 22 * Len(S),
   sigs   |-> [k \in DOMAIN S |-> [ski |-> S[k].ski, sigLen |-> S[k].sigLen, sig |-> S[k].sig]]]

(* _fillSignatureBlock: the last signature first.                          *)
SignatureBlock(S) ==
  [length |-> 3 + Total([k \in DOMAIN S |-> 22 + S[k].sigLen]),
   sigs   |-> [k \in DOMAIN S |-> [ski |-> S[k].ski, sigLen |-> S[k].sigLen, sig |-> S[k].sig]]]

(* generateBGPSecAttr.  The length takes two bytes when it has to.         *)
Attribute(segs, S, conf) ==
  LET block == SignatureBlock(S)
      secPathLen == 2 + 6 * Len(segs)
      length == secPathLen + block.length
  IN [extended   |-> length > 255 \/ conf.onlyExtLength,
      length     |-> length,
      secPathLen |-> secPathLen,
      segs       |-> segs,
      block      |-> block]

-----------------------------------------------------------------------------
(* Validation                                                              *)

(* Bug: no room for the one segment more.                                  *)
MessageSizeShort(attr, nlri) ==
  4 + 6 * (attr.secPathLen \div 6) + attr.block.length - 3 + 1 + 4 + nlri.bytes

(* The bytes of the buffer of sca_generateHashMessage.                     *)
MessageSize(attr, nlri) ==
  4 + 6 * (attr.secPathLen \div 6 + 1) + attr.block.length - 3 + 1 + 4 + nlri.bytes

(* Whether the signature block is found behind the secure path.            *)
BlockFound(attr) == attr.block.length \in 1..(attr.length - attr.secPathLen)

(* The message of the k-th signature: from an AS number to the end of the  *)
(* buffer, in which signatures alternate with path segments.  The AS       *)
(* number in front of all is the validator's.                              *)
HashMessage(attr, myAS, nlri, k) ==
  LET n == attr.secPathLen \div 6
      seg(j) == <<PathField(attr.segs[j]), AsnField(attr.segs[j].asn)>>
      from[j \in 1..n] == IF j = n THEN seg(n) \o <<AlgoField, NlriField(nlri)>>
                          ELSE SigFields(attr.block.sigs[j + 1]) \o seg(j) \o from[j + 1]
  IN <<AsnField(IF k = 1 THEN myAS ELSE attr.segs[k - 1].asn)>> \o from[k]

(* Its length: what the buffer has left.                                   *)
HashMessageLength(attr, nlri, k) ==
  MessageSize(attr, nlri)
  - (4 + 6 * (k - 1) + 2 + Total([j \in 1..k |-> 22 + attr.block.sigs[j].sigLen]))

(* validate: the key of the signer, the AS of the k-th segment, verifies   *)
(* the message the signature was made over.                                *)
Verifies(attr, myAS, nlri, keys, k) ==
  LET g == attr.block.sigs[k]
      message == HashMessage(attr, myAS, nlri, k)
  IN /\ \E key \in keys : key.asn = attr.segs[k].asn /\ key.ski = g.ski
     /\ HashMessageLength(attr, nlri, k) = Bytes(message)
     /\ g.sig = <<g.ski, message>>

Validate(attr, myAS, nlri, keys) ==
  BlockFound(attr) /\ \A k \in 1..(attr.secPathLen \div 6) : Verifies(attr, myAS, nlri, keys, k)
-----------------------------------------------------------------------------
(* What an attribute should say                                            *)

(* The first line of the key list for an AS, which names the key it uses.  *)
LineOf(asn) ==
  LET i == SelectInSeq(Lines, LAMBDA l : l.asn = asn)
  IN IF i = 0 THEN None ELSE Lines[i]

(* The path that was written: its AS numbers repeated as often as it says, *)
(* after the own AS number for an external peer.                           *)
Written(conf, tokens) ==
  (IF IBGP(conf) THEN <<>> ELSE <<conf.asn>>)
  \o FlattenSeq([i \in DOMAIN tokens |-> [j \in 1..tokens[i].count |-> tokens[i].asn]])

Spelled(segs) ==
  FlattenSeq([k \in DOMAIN segs |-> [j \in 1..segs[k].pCount |-> segs[k].asn]])

(* The limits of the conversion: plain AS numbers without the sign bit,    *)
(* runs that pCount can count.                                             *)
Printable(tokens) == \A i \in DOMAIN tokens : tokens[i].dotted \/ tokens[i].asn < SignBit

Countable(path) ==
  \A i \in DOMAIN path :
    i + PCountMod - 1 \in DOMAIN path => \E j \in i..(i + PCountMod - 1) : path[j] # path[i]
=============================================================================
