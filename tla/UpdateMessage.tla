--------------------------- MODULE UpdateMessage ---------------------------
(***************************************************************************)
(* The UPDATE messages of brio_tg: the AS path attributes of               *)
(* generateBGP_PathAttr, the message of createUpdateMessage, and how       *)
(* BGPUpdatePrinter.c reads both back by their lengths.                    *)
(*                                                                         *)
(* An attribute has the length that is written into it and its content; a  *)
(* length that does not fit its one byte is cut, and with it whatever is   *)
(* copied by that length.                                                  *)
(***************************************************************************)
EXTENDS SecurePath, OpenMessage

BGP_MAX_MESSAGE_SIZE == 4096
SESS_MIN_SEND_BUFF == 4096
SESS_MIN_MESSAGE_BUFFER == 10240

LOC_PREF_DEFAULT == 100

-----------------------------------------------------------------------------
(* AS_PATH and AS4_PATH                                                    *)

AsnSize(isAS4) == IF isAS4 THEN 4 ELSE 2

(* An AS number on the wire.                                               *)
Wire(asn, isAS4) == IF isAS4 \/ asn < TwoBytes THEN asn ELSE AsTrans

(* Segments of 255 and one for the rest, which may be none.                *)
SegmentCount(n) == IF n > 0 THEN n \div 255 + 1 ELSE 0

PathSegments(type, asns, isAS4) ==
  [k \in 1..SegmentCount(Len(asns)) |->
     LET first == 255 * (k - 1) + 1
         last  == IF k < SegmentCount(Len(asns)) THEN 255 * k ELSE Len(asns)
     IN [type |-> type, size |-> AsnSize(isAS4),
         asns |-> [i \in 1..(last - first + 1) |-> Wire(asns[first + i - 1], isAS4)]]]

SizeOfSegments(segs) == Total([k \in DOMAIN segs |-> 2 + segs[k].size * Len(segs[k].asns)])

(* The bytes the path announces: those of the segments' headers count.     *)
AttrLength(path, set, isAS4) ==
  2 * (SegmentCount(Len(path)) + SegmentCount(Len(set)))
  + AsnSize(isAS4) * (Len(path) + Len(set))

(* Whether the length gets two bytes: the headers do not count here.       *)
Extended(path, set, isAS4) == AsnSize(isAS4) * (Len(path) + Len(set)) > 255

NoAttribute == [type |-> "none"]

generateBGP_PathAttr(type, path, set, isAS4) ==
  LET length == AttrLength(path, set, isAS4)
      ext    == Extended(path, set, isAS4)
  IN IF length > SESS_MIN_MESSAGE_BUFFER THEN NoAttribute
     ELSE [type   |-> type,
           ext    |-> ext,
           length |-> IF ext THEN length ELSE length % 256,
           body   |-> PathSegments("SEQUENCE", path, isAS4) \o PathSegments("SET", set, isAS4)]

-----------------------------------------------------------------------------
(* createUpdateMessage                                                     *)

getPathAttributeSize(a) == 2 + (IF a.ext THEN 2 ELSE 1) + a.length

numBytes(bits) == (bits + 7) \div 8

Plain1(type, length, body) == [type |-> type, ext |-> FALSE, length |-> length, body |-> body]

(* An attribute as it is copied, by its size.  A path whose length was cut *)
(* keeps the header of its first segment at the most.                      *)
Copied(a) ==
  IF a.type \notin {"AS_PATH", "AS4_PATH"} \/ a.length = SizeOfSegments(a.body) THEN a
  ELSE [a EXCEPT !.body = IF a.length < 2 THEN <<>> ELSE <<[Head(@) EXCEPT !.asns = <<>>]>>]

(* rpkiVal as it is written.                                               *)
Validation == [valid |-> 0, notfound |-> 1, invalid |-> 2]

MpReach(nlri) ==
  LET nextHopLen == IF nlri.afi = "v4" THEN 4 ELSE 16
  IN Plain1("MP_REACH_NLRI", 2 + 1 + 1 + nextHopLen + 1 + 1 + numBytes(nlri.bits),
            [afi |-> nlri.afi, nextHopLen |-> nextHopLen, bits |-> nlri.bits,
             prefix |-> nlri.prefix])

(* The attributes in front of the path.                                    *)
FixedAttrs(localPref, nlri, useMPNLRI, rpkiVal) ==
  <<Plain1("ORIGIN", 1, "INCOMPLETE"), Plain1("MED", 4, 0)>>
  \o (IF localPref > 0 THEN <<Plain1("LOC_PREF", 4, localPref)>> ELSE <<>>)
  \o (IF rpkiVal = "none" THEN <<>> ELSE <<Plain1("EXT_COMM", 8, Validation[rpkiVal])>>)
  \o <<IF useMPNLRI THEN MpReach(nlri) ELSE Plain1("NEXT_HOP", 4, "nextHop")>>

(* The length that is compared with the buffer: without prefix, and        *)
(* without MP_REACH_NLRI.                                                  *)
LengthFirst(attrs, localPref, useMPNLRI, rpkiVal) ==
  21 + 2 + 4 + 7 + (IF localPref > 0 THEN 7 ELSE 0) + (IF useMPNLRI THEN 0 ELSE 7)
  + (IF rpkiVal = "none" THEN 0 ELSE 11)
  + Total([i \in DOMAIN attrs |-> getPathAttributeSize(attrs[i])])

(* Bug: the length of the prefix is the number of its bits.                *)
LengthBits(first, nlri, useMPNLRI) ==
  first + IF useMPNLRI THEN getPathAttributeSize(MpReach(nlri)) ELSE 1 + nlri.bits
LengthLast(first, nlri, useMPNLRI) ==
  first + IF useMPNLRI THEN getPathAttributeSize(MpReach(nlri)) ELSE 1 + numBytes(nlri.bits)

createUpdateMessage(attrs, localPref, nlri, mpnlri, rpkiVal) ==
  LET useMPNLRI == mpnlri \/ nlri.afi = "v6"
      all    == FixedAttrs(localPref, nlri, useMPNLRI, rpkiVal) \o attrs
      first  == LengthFirst(attrs, localPref, useMPNLRI, rpkiVal)
  IN IF SESS_MIN_MESSAGE_BUFFER < first THEN NoMessage
     ELSE [type             |-> "UPDATE",
           length           |-> LengthLast(first, nlri, useMPNLRI),
           path_attr_length |-> Total([i \in DOMAIN all |-> getPathAttributeSize(all[i])]),
           attrs            |-> [i \in DOMAIN all |-> Copied(all[i])],
           nlri             |-> IF useMPNLRI THEN <<>>
                                ELSE <<[bits |-> nlri.bits, prefix |-> nlri.prefix]>>]

-----------------------------------------------------------------------------
(* The BGPsec path attribute, as SecurePath makes it                       *)

BgpsecAttr(attr) ==
  [type |-> "BGPSEC", ext |-> attr.extended, length |-> attr.length,
   body |-> [secPathLen |-> attr.secPathLen, segs |-> attr.segs, block |-> attr.block]]

SizeOfBlock(block) == 3 + Total([k \in DOMAIN block.sigs |-> 20 + 2 + block.sigs[k].sigLen])

-----------------------------------------------------------------------------
(* Printing (BGPUpdatePrinter.c)                                           *)

Shown(seq, sets) == [ok |-> TRUE, seq |-> seq, sets |-> sets]
Garbled == [ok |-> FALSE, seq |-> <<>>, sets |-> <<>>]

(* ___createAS_PATH_List: segments are read while more than a header is    *)
(* left; with anything left at the end there is no list.                   *)
SegmentsRead(body, isAS4) ==
  /\ body # <<>> => Last(body).asns # <<>>
  /\ \A k \in DOMAIN body : body[k].size = AsnSize(isAS4)

AsPathPrinted(body, isAS4) ==
  LET sequences == [k \in DOMAIN body |-> IF body[k].type = "SEQUENCE" THEN body[k].asns ELSE <<>>]
      sets      == [k \in DOMAIN body |-> IF body[k].type = "SET" THEN <<body[k].asns>> ELSE <<>>]
  IN IF SegmentsRead(body, isAS4) THEN Shown(FlattenSeq(sequences), FlattenSeq(sets))
     ELSE Garbled

(* The prefix is read behind the next hop, which takes what it says; what  *)
(* is not of AFI_V4 is shown as an address of the other kind.              *)
MpReachPrinted(body) ==
  IF body.nextHopLen \in {4, 16}
  THEN Shown(<<[afi    |-> IF body.afi = "v4" THEN "v4" ELSE "v6",
                bits   |-> body.bits,
                prefix |-> body.prefix]>>, <<>>)
  ELSE Garbled

(* The secure path by its length, each AS as often as it counts.           *)
SecurePathPrinted(body) ==
  IF body.secPathLen # 2 + 6 * Len(body.segs) THEN Garbled
  ELSE Shown(FlattenSeq([k \in DOMAIN body.segs |->
                [i \in 1..body.segs[k].pCount |-> body.segs[k].asn]]), <<>>)

(* The signatures by their lengths end where the block does.               *)
SignatureBlockRead(block) == block.length = SizeOfBlock(block)

(* Behind the secure path signature blocks until the end of the attribute. *)
BgpsecPrinted(a) ==
  IF SignatureBlockRead(a.body.block) /\ a.length = a.body.secPathLen + a.body.block.length
  THEN SecurePathPrinted(a.body) ELSE Garbled

(* ORIGIN and NEXT_HOP.                                                    *)
ValuePrinted(a) == Shown(<<a.body>>, <<>>)

(* The AS4_PATH has four bytes per AS number in any case.                  *)
AttrPrinted(a, isAS4) ==
  [type  |-> a.type,
   shown |-> CASE a.type = "AS_PATH"       -> AsPathPrinted(a.body, isAS4)
               [] a.type = "AS4_PATH"      -> AsPathPrinted(a.body, TRUE)
               [] a.type = "MP_REACH_NLRI" -> MpReachPrinted(a.body)
               [] a.type = "BGPSEC"        -> BgpsecPrinted(a)
               [] OTHER                    -> ValuePrinted(a)]

(* Prefixes are read while there are bytes; without enough of them one is  *)
(* malformed.                                                              *)
PrefixesPrinted(nlri, bytes) ==
  IF bytes = Total([i \in DOMAIN nlri |-> 1 + numBytes(nlri[i].bits)])
  THEN Shown(nlri, <<>>) ELSE Garbled

(* How many attributes are read: while less than the length is processed.  *)
AttrsRead(u) ==
  LET processed(j) == Total([i \in 1..j |-> getPathAttributeSize(u.attrs[i])])
  IN CHOOSE j \in 0..Len(u.attrs) :
       /\ j = Len(u.attrs) \/ processed(j) >= u.path_attr_length
       /\ \A i \in 0..(j - 1) : processed(i) < u.path_attr_length

(* printUpdateData: what is left behind the attributes is a list of        *)
(* prefixes.                                                               *)
printUpdateData(u, isAS4) ==
  LET n    == AttrsRead(u)
      rest == u.length - 23 - Total([i \in 1..n |-> getPathAttributeSize(u.attrs[i])])
  IN [attrs    |-> [i \in 1..n |-> AttrPrinted(u.attrs[i], isAS4)],
      prefixes |-> IF n = Len(u.attrs) THEN PrefixesPrinted(u.nlri, rest) ELSE Garbled]

(* printBGP_Message, for what the peer is told.                            *)
printBGP_Message(m, isAS4) ==
  CASE m.type = "OPEN"         -> printOpenData(m)
    [] m.type = "NOTIFICATION" -> printNotificationData(m)
    [] m.type = "UPDATE"       -> printUpdateData(m, isAS4)
    [] OTHER                   -> <<>>
=============================================================================
