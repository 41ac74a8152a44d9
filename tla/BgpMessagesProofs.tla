------------------------- MODULE BgpMessagesProofs -------------------------
(***************************************************************************)
(* For any sessions, updates and messages of the peer of BgpMessages: an   *)
(* UPDATE is of a kind that this connection's OPENs agreed on, an OPEN is  *)
(* read and printed as what the session is configured to announce, the     *)
(* lengths of messages are bounded by their buffers, and an UPDATE is      *)
(* printed as the update of the script that it was made of.                *)
(***************************************************************************)
EXTENDS BgpMessages, SecurePathProofs

-----------------------------------------------------------------------------
(* Reading an OPEN                                                         *)

(* What a capability sets tells which one it is.                           *)
LEMMA FieldsTell ==
  ASSUME NEW cap, cap.code = "BGPSEC" => cap.dir \in DOMAIN BgpsecField
  PROVE  /\ \A afi \in DOMAIN MpnlriField :
              BgpsecField.RCV[afi] \in CapFields(cap)
              <=> cap.code = "BGPSEC" /\ cap.dir = "RCV" /\ cap.afi = afi
         /\ "asn_4byte" \in CapFields(cap) <=> cap.code = "AS4"
         /\ "extMsgSupp" \in CapFields(cap) <=> cap.code = "EXT_MSG_SUPPORT"
<1>1. DOMAIN MpnlriField = {"v4", "v6"} /\ DOMAIN BgpsecField = {"SND", "RCV"}
  BY DEF MpnlriField, BgpsecField
<1>2. CASE cap.code = "MPNLRI" /\ cap.afi \in DOMAIN MpnlriField
  BY <1>1, <1>2 DEF CapFields, MpnlriField, BgpsecField
<1>3. CASE cap.code = "AS4"
  BY <1>1, <1>3 DEF CapFields, MpnlriField, BgpsecField
<1>4. CASE cap.code = "BGPSEC" /\ cap.afi \in DOMAIN MpnlriField
  BY <1>1, <1>4 DEF CapFields, MpnlriField, BgpsecField
<1>5. CASE cap.code \in {"RREFRESH", "RREFRESH_PRIV"}
  BY <1>1, <1>5 DEF CapFields, MpnlriField, BgpsecField
<1>6. CASE cap.code = "EXT_MSG_SUPPORT"
  BY <1>1, <1>6 DEF CapFields, MpnlriField, BgpsecField
<1>7. CASE /\ ~(cap.code = "MPNLRI" /\ cap.afi \in DOMAIN MpnlriField)
           /\ ~(cap.code = "BGPSEC" /\ cap.afi \in DOMAIN MpnlriField)
           /\ cap.code \notin {"AS4", "RREFRESH", "RREFRESH_PRIV", "EXT_MSG_SUPPORT"}
  <2>1. CapFields(cap) = {}  BY <1>7 DEF CapFields
  <2> QED  BY <2>1, <1>1, <1>7
<1> QED  BY <1>2, <1>3, <1>4, <1>5, <1>6, <1>7

LEMMA CapAtPlace ==
  ASSUME NEW open, open # NoMessage, NEW i \in DOMAIN open.params, open.params[i].type = "CAP",
         NEW j \in DOMAIN open.params[i].caps
  PROVE  open.params[i].caps[j] \in CapsOf(open)
<1> DEFINE param == open.params[i]
<1>1. param.caps[j] \in {param.caps[k] : k \in DOMAIN param.caps}  OBVIOUS
<1>2. param \in {q \in {open.params[k] : k \in DOMAIN open.params} : q.type = "CAP"}  OBVIOUS
<1> QED  BY Zenon, <1>1, <1>2 DEF CapsOf

LEMMA PlaceOfCap ==
  ASSUME NEW open, open # NoMessage, NEW c \in CapsOf(open)
  PROVE  \E i \in DOMAIN open.params :
           open.params[i].type = "CAP"
           /\ \E j \in DOMAIN open.params[i].caps : c = open.params[i].caps[j]
<1> DEFINE params == {open.params[k] : k \in DOMAIN open.params}
<1>1. PICK q \in params : q.type = "CAP" /\ c \in {q.caps[j] : j \in DOMAIN q.caps}
  BY Zenon DEF CapsOf
<1>2. PICK i \in DOMAIN open.params : q = open.params[i]  BY <1>1
<1> QED  BY <1>1, <1>2

LEMMA NoItem == DOMAIN <<>> = {}
  OBVIOUS

LEMMA OneItem == ASSUME NEW x, NEW j \in DOMAIN <<x>> PROVE <<x>>[j] = x
  OBVIOUS

LEMMA UnsupportedRefused == Refused([code |-> "unsupported parameter"])
  BY DEF Refused

(* An OPEN that nothing stopped the reading of is read to its end: peerCap *)
(* holds what its capabilities set.                                        *)
LEMMA AllRead ==
  ASSUME NEW m, m # NoMessage, ReadOpen(m).stopped = ""
  PROVE  \A f : f \in ReadOpen(m).peerCap <=> \E c \in CapsOf(m) : f \in CapFields(c)
<1> DEFINE params == m.params
           at(p) == ItemAt(params, p)
           places == Places(params)
           bad == {p \in places : Refused(at(p)) \/ FollowsNull(params, p)}
<1>1. bad = {}
  <2>1. bad # {} =>
          ReadOpen(m).stopped \in {"CRASHED", "UNSUPPORTED_BGPSEC_VER", "UNSUPP_OPT_PARAM"}
    BY Zenon DEF ReadOpen
  <2> QED  BY <2>1
<1>2. ReadOpen(m).peerCap = UNION {CapFields(at(p)) : p \in places}
  <2>1. ReadOpen(m).peerCap
          = UNION {CapFields(at(p)) : p \in {q \in places : \A r \in bad : Before(q, r)}}
    BY Zenon DEF ReadOpen
  <2>2. {q \in places : \A r \in bad : Before(q, r)} = places  BY <1>1
  <2> QED  BY <2>1, <2>2
<1>3. \A p \in places : p[1] \in DOMAIN params /\ p[2] \in DOMAIN Items(params[p[1]])
  <2>1. SUFFICES ASSUME NEW p \in places
                 PROVE  p[1] \in DOMAIN params /\ p[2] \in DOMAIN Items(params[p[1]])
    OBVIOUS
  <2>2. PICK i \in DOMAIN params : p \in {i} \X DOMAIN Items(params[i])  BY <2>1 DEF Places
  <2> QED  BY <2>2
<1>4. ASSUME NEW i \in DOMAIN params, NEW j \in DOMAIN Items(params[i])
      PROVE  <<i, j>> \in places
  <2>1. <<i, j>> \in {i} \X DOMAIN Items(params[i])  OBVIOUS
  <2> QED  BY <2>1 DEF Places
<1>5. \A p \in places : at(p) \in CapsOf(m)
  <2> SUFFICES ASSUME NEW p \in places PROVE at(p) \in CapsOf(m)  OBVIOUS
  <2> DEFINE param == params[p[1]]
  <2>1. at(p) = Items(param)[p[2]] /\ p[2] \in DOMAIN Items(param) /\ p[1] \in DOMAIN params
    BY <1>3 DEF ItemAt
  <2> HIDE DEF at, places
  <2>2. param.type = "CAP"
    <3>1. CASE param.type # "CAP" /\ param.len > 0
      <4>1. Items(param) = <<[code |-> "unsupported parameter"]>>  BY <3>1 DEF Items
      <4>2. at(p) = [code |-> "unsupported parameter"]  BY Zenon, <4>1, <2>1, OneItem
      <4>3. Refused(at(p))  BY Zenon, <4>2, UnsupportedRefused
      <4> QED  BY <4>3, <1>1
    <3>2. CASE param.type # "CAP" /\ ~(param.len > 0)
      <4>1. Items(param) = <<>>  BY <3>2 DEF Items
      <4> QED  BY Zenon, <4>1, <2>1, NoItem
    <3> QED  BY <3>1, <3>2
  <2>3. Items(param) = param.caps  BY <2>2 DEF Items
  <2>4. PICK j \in DOMAIN param.caps : at(p) = param.caps[j]  BY <2>1, <2>3
  <2>5. param.caps[j] \in CapsOf(m)  BY Zenon, <2>1, <2>2, CapAtPlace
  <2> QED  BY Zenon, <2>4, <2>5
<1>6. \A c \in CapsOf(m) : \E p \in places : at(p) = c
  <2>1. SUFFICES ASSUME NEW c \in CapsOf(m) PROVE \E p \in places : at(p) = c  OBVIOUS
  <2>2. PICK i \in DOMAIN params :
          params[i].type = "CAP" /\ \E j \in DOMAIN params[i].caps : c = params[i].caps[j]
    BY Zenon, <2>1, PlaceOfCap
  <2>3. PICK j \in DOMAIN params[i].caps : c = params[i].caps[j]  BY <2>2
  <2>4. Items(params[i]) = params[i].caps  BY <2>2 DEF Items
  <2>5. <<i, j>> \in places  BY <2>3, <2>4, <1>4
  <2>6. at(<<i, j>>) = c  BY <2>3, <2>4 DEF ItemAt
  <2> QED  BY <2>5, <2>6
<1> HIDE DEF places, at
<1>7. \A f : f \in UNION {CapFields(at(p)) : p \in places}
             <=> \E c \in CapsOf(m) : f \in CapFields(c)
  BY <1>5, <1>6
<1> QED  BY Zenon, <1>2, <1>7

LEMMA PeerOpensTyped ==
  \A m \in PeerOpens :
    /\ m # NoMessage
    /\ \A c \in CapsOf(m) : c.code = "BGPSEC" => c.dir \in DOMAIN BgpsecField
<1>1. ASSUME NEW m \in PeerOpens PROVE m # NoMessage
  <2>1. m.type = "OPEN"  BY MessageInputs
  <2>2. NoMessage.type = "none"  BY DEF NoMessage
  <2> QED  BY <2>1, <2>2
<1>2. ASSUME NEW m \in PeerOpens, NEW c \in CapsOf(m), c.code = "BGPSEC"
      PROVE  c.dir \in DOMAIN BgpsecField
  BY SMT, <1>2, MessageInputs
<1> QED  BY <1>1, <1>2

(* So peerCap tells what the OPEN announced.                               *)
LEMMA PeerCapTells ==
  ASSUME NEW m \in PeerOpens, ReadOpen(m).stopped = ""
  PROVE  /\ \A afi \in DOMAIN MpnlriField :
              BgpsecField.RCV[afi] \in ReadOpen(m).peerCap
              => \E c \in CapsOf(m) : c.code = "BGPSEC" /\ c.dir = "RCV" /\ c.afi = afi
         /\ "asn_4byte" \in ReadOpen(m).peerCap <=> \E c \in CapsOf(m) : c.code = "AS4"
         /\ "extMsgSupp" \in ReadOpen(m).peerCap
              <=> \E c \in CapsOf(m) : c.code = "EXT_MSG_SUPPORT"
<1>1. m # NoMessage  BY Zenon, PeerOpensTyped
<1>2. \A c \in CapsOf(m) : c.code = "BGPSEC" => c.dir \in DOMAIN BgpsecField
  BY Zenon, PeerOpensTyped
<1> PICK caps : caps = ReadOpen(m).peerCap  OBVIOUS
<1>3. \A f : f \in caps <=> \E c \in CapsOf(m) : f \in CapFields(c)
  BY Zenon, <1>1, AllRead
<1>4. \A afi \in DOMAIN MpnlriField :
        BgpsecField.RCV[afi] \in caps
        => \E c \in CapsOf(m) : c.code = "BGPSEC" /\ c.dir = "RCV" /\ c.afi = afi
  <2> SUFFICES ASSUME NEW afi \in DOMAIN MpnlriField, BgpsecField.RCV[afi] \in caps
               PROVE  \E c \in CapsOf(m) : c.code = "BGPSEC" /\ c.dir = "RCV" /\ c.afi = afi
    OBVIOUS
  <2>1. PICK c \in CapsOf(m) : BgpsecField.RCV[afi] \in CapFields(c)  BY <1>3
  <2>2. c.code = "BGPSEC" /\ c.dir = "RCV" /\ c.afi = afi  BY <1>2, <2>1, FieldsTell
  <2> QED  BY <2>2
<1>5. "asn_4byte" \in caps <=> \E c \in CapsOf(m) : c.code = "AS4"
  BY <1>2, <1>3, FieldsTell
<1>6. "extMsgSupp" \in caps <=> \E c \in CapsOf(m) : c.code = "EXT_MSG_SUPPORT"
  BY <1>2, <1>3, FieldsTell
<1> QED  BY Zenon, <1>4, <1>5, <1>6

-----------------------------------------------------------------------------
(* The path of an UPDATE                                                   *)

(* The path as asntok_next and the tokens before it make it is a list.     *)
LEMMA PathIsSeq ==
  ASSUME NEW c, NEW u, Writable(u)
  PROVE  \E S : MyPath(c, u.path) \in Seq(S)
<1> PICK written : written = u.path  OBVIOUS
<1>1. written \in Seq([asn : Nat, count : Nat, dotted : BOOLEAN])  BY DEF Writable
<1> DEFINE S == {Printed(written[i]) : i \in DOMAIN written} \cup {c.asn}
           rep(i) == [j \in 1..written[i].count |-> Printed(written[i])]
           reps == [i \in DOMAIN written |-> rep(i)]
<1>2. \A i \in DOMAIN written : rep(i) \in Seq(S)
  <2> SUFFICES ASSUME NEW i \in DOMAIN written PROVE rep(i) \in Seq(S)  OBVIOUS
  <2>1. written[i].count \in Nat
    <3> HIDE DEF S, rep, reps
    <3>1. i \in 1..Len(written)  BY <1>1
    <3>2. written[i] \in [asn : Nat, count : Nat, dotted : BOOLEAN]  BY <1>1, <3>1, ElementOfSeq
    <3> QED  BY <3>2
  <2>2. Printed(written[i]) \in S  OBVIOUS
  <2> HIDE DEF S
  <2>3. rep(i) \in [1..written[i].count -> S]  BY <2>2
  <2> QED  BY <2>1, <2>3, SeqDef
<1>3. reps \in Seq(Seq(S))
  <2>1. DOMAIN written = 1..Len(written) /\ Len(written) \in Nat  BY <1>1
  <2> HIDE DEF S, rep
  <2>2. reps \in [1..Len(written) -> Seq(S)]  BY <2>1, <1>2
  <2> HIDE DEF reps
  <2> QED  BY <2>1, <2>2, SeqDef
<1>4. LongPath(written) \in Seq(S)
  <2>1. LongPath(written) = FlattenSeq(reps)  BY DEF LongPath
  <2> HIDE DEF S, reps
  <2> QED  BY <2>1, <1>3, FlattenIsSeq
<1>5. <<c.asn>> \in Seq(S)
  <2>1. c.asn \in S  OBVIOUS
  <2> HIDE DEF S
  <2> QED  BY <2>1
<1> HIDE DEF S
<1>6. <<c.asn>> \o LongPath(written) \in Seq(S)  BY <1>4, <1>5, ConcatProperties
<1>7. MyPath(c, written) \in Seq(S)  BY Zenon, <1>4, <1>6 DEF MyPath
<1> QED  BY Zenon, <1>7

(* The segments of a path have AS numbers of one size.                     *)
LEMMA SegmentsSized ==
  ASSUME NEW S, NEW asns \in Seq(S), NEW type, NEW isAS4
  PROVE  /\ PathSegments(type, asns, isAS4) = <<>> <=> asns = <<>>
         /\ \E T : /\ PathSegments(type, asns, isAS4) \in Seq(T)
                   /\ \A t \in T : \E list : t = [type |-> type, size |-> AsnSize(isAS4),
                                                  asns |-> list]
<1> DEFINE n == SegmentCount(Len(asns))
           segs == PathSegments(type, asns, isAS4)
<1>1. n \in Nat /\ (n = 0 <=> Len(asns) = 0)
  <2>1. Len(asns) \in Nat  OBVIOUS
  <2> QED  BY <2>1 DEF SegmentCount
<1>2. \A k \in 1..n : \E list : segs[k] = [type |-> type, size |-> AsnSize(isAS4), asns |-> list]
  BY Zenon DEF PathSegments
<1>3. segs = [k \in 1..n |-> segs[k]]  BY DEF PathSegments
<1> HIDE DEF segs, n
<1>4. segs \in Seq({segs[k] : k \in 1..n}) /\ Len(segs) = n  BY <1>1, <1>3, IsSeq
<1>5. segs = <<>> <=> n = 0  BY <1>4
<1>6. asns = <<>> <=> Len(asns) = 0  OBVIOUS
<1>7. \A t \in {segs[k] : k \in 1..n} :
        \E list : t = [type |-> type, size |-> AsnSize(isAS4), asns |-> list]
  BY <1>2
<1>8. segs = <<>> <=> asns = <<>>  BY <1>1, <1>5, <1>6
<1> QED  BY Zenon, <1>4, <1>7, <1>8 DEF segs

(* A segment with AS numbers of some size.                                 *)
Sized(t, size) == \E type, list : t = [type |-> type, size |-> size, asns |-> list]

LEMMA SizedHas ==
  ASSUME NEW t, NEW size, Sized(t, size)
  PROVE  t.size = size /\ [t EXCEPT !.asns = <<>>].size = size
BY DEF Sized

IsPath(a, type, body) ==
  \E ext, l : a = [type |-> type, ext |-> ext, length |-> l, body |-> body]

CutTo(c, a, segment) == c = [a EXCEPT !.body = <<segment>>]

LEMMA OneSegment ==
  ASSUME NEW a, NEW type, NEW body, IsPath(a, type, body), NEW h, NEW c, CutTo(c, a, h)
  PROVE  c.type = type /\ \A k \in DOMAIN c.body : c.body[k] = h
<1>1. c.type = type /\ c.body = <<h>>  BY DEF IsPath, CutTo
<1> QED  BY <1>1

(* What is copied of an AS path into a message has them, too.              *)
LEMMA PathCopied ==
  ASSUME NEW S, NEW path \in Seq(S), NEW R, NEW set \in Seq(R),
         NEW type \in {"AS_PATH", "AS4_PATH"}, NEW isAS4,
         NEW a, a = generateBGP_PathAttr(type, path, set, isAS4), a # NoAttribute
  PROVE  /\ Copied(a).type = type
         /\ \A k \in DOMAIN Copied(a).body : Copied(a).body[k].size = AsnSize(isAS4)
<1> DEFINE X == PathSegments("SEQUENCE", path, isAS4)
           Y == PathSegments("SET", set, isAS4)
<1> PICK body, size : body = X \o Y /\ size = AsnSize(isAS4)  OBVIOUS
<1>1. PICK T1 : X \in Seq(T1) /\ \A t \in T1 : Sized(t, size)
  BY SegmentsSized DEF Sized
<1>2. PICK T2 : Y \in Seq(T2) /\ \A t \in T2 : Sized(t, size)
  BY SegmentsSized DEF Sized
<1>3. X = <<>> /\ Y = <<>> => path = <<>> /\ set = <<>>
  BY Zenon, SegmentsSized
<1> HIDE DEF X, Y
<1>4. body \in Seq(T1 \cup T2)  BY <1>1, <1>2, ConcatProperties
<1>5. \A k \in DOMAIN body : Sized(body[k], size)
  <2> SUFFICES ASSUME NEW k \in DOMAIN body PROVE Sized(body[k], size)  OBVIOUS
  <2>1. k \in 1..Len(body)  BY <1>4
  <2>2. body[k] \in T1 \cup T2  BY <1>4, <2>1, ElementOfSeq
  <2> QED  BY <2>2, <1>1, <1>2
<1>6. body = <<>> => path = <<>> /\ set = <<>>
  <2>0. Len(body) = Len(X) + Len(Y)
    <3>1. X \in Seq(T1 \cup T2) /\ Y \in Seq(T1 \cup T2)  BY <1>1, <1>2
    <3> QED  BY <3>1, ConcatProperties
  <2>1. body = <<>> => Len(X) + Len(Y) = 0  BY <2>0
  <2>2. Len(X) \in Nat /\ Len(Y) \in Nat  BY <1>1, <1>2
  <2>3. Len(X) = 0 => X = <<>>  BY <1>1
  <2>4. Len(Y) = 0 => Y = <<>>  BY <1>2
  <2> QED  BY <2>1, <2>2, <2>3, <2>4, <1>3
<1>7. path = <<>> /\ set = <<>> => AttrLength(path, set, isAS4) = 0
  BY DEF AttrLength, SegmentCount, AsnSize
<1>8. PICK ext, l : /\ a = [type |-> type, ext |-> ext, length |-> l, body |-> body]
                    /\ body = <<>> => l = 0
  <2> DEFINE length == AttrLength(path, set, isAS4)
             e == Extended(path, set, isAS4)
             w == IF e THEN length ELSE length % 256
  <2>1. a = [type |-> type, ext |-> e, length |-> w, body |-> body]
    BY Zenon DEF generateBGP_PathAttr, X, Y
  <2>2. length = 0 => w = 0  OBVIOUS
  <2> HIDE DEF length, w, e
  <2>3. body = <<>> => w = 0  BY <1>6, <1>7, <2>2 DEF length
  <2> QED  BY <2>1, <2>3
<1>9. CASE Copied(a) = a
  <2>1. a.type = type /\ a.body = body  BY <1>8
  <2>2. \A k \in DOMAIN body : body[k].size = AsnSize(isAS4)  BY Zenon, <1>5, SizedHas
  <2> QED  BY <1>9, <2>1, <2>2
<1>10. CASE Copied(a) # a
  <2>1. Copied(a) = [a EXCEPT !.body = IF a.length < 2 THEN <<>>
                                       ELSE <<[Head(a.body) EXCEPT !.asns = <<>>]>>]
    BY Zenon, <1>10 DEF Copied
  <2>2. a.length = l /\ a.body = body  BY <1>8
  <2>3. CASE l < 2
    <3>1. Copied(a) = [a EXCEPT !.body = <<>>]  BY Zenon, <2>1, <2>2, <2>3
    <3>2. Copied(a).type = type /\ Copied(a).body = <<>>  BY <1>8, <3>1
    <3> QED  BY <3>2
  <2>4. CASE ~(l < 2)
    <3>1. body # <<>>  BY <1>8, <2>4
    <3>2. 1 \in DOMAIN body /\ Head(body) = body[1]
      <4>1. Len(body) \in Nat /\ Len(body) # 0  BY <1>4, <3>1
      <4> QED  BY <1>4, <4>1
    <3>3. \E h : CutTo(Copied(a), a, h) /\ h.size = AsnSize(isAS4)
      <4> PICK h : h = [Head(body) EXCEPT !.asns = <<>>]  OBVIOUS
      <4>1. Sized(Head(body), size)  BY Zenon, <1>5, <3>2
      <4>2. h.size = AsnSize(isAS4)  BY Zenon, <4>1, SizedHas
      <4>3. CutTo(Copied(a), a, h)  BY Zenon, <2>1, <2>2, <2>4 DEF CutTo
      <4> QED  BY Zenon, <4>2, <4>3
    <3>4. PICK h : CutTo(Copied(a), a, h) /\ h.size = AsnSize(isAS4)  BY <3>3
    <3>5. IsPath(a, type, body)  BY Zenon, <1>8 DEF IsPath
    <3>6. /\ Copied(a).type = type
          /\ \A k \in DOMAIN Copied(a).body : Copied(a).body[k] = h
      BY <3>4, <3>5, OneSegment
    <3> QED  BY <3>4, <3>6
  <2> QED  BY <2>3, <2>4
<1> QED  BY <1>9, <1>10

(* Other attributes are copied as they are.                                *)
LEMMA OtherCopied ==
  ASSUME NEW a, a.type \notin {"AS_PATH", "AS4_PATH"}
  PROVE  Copied(a) = a
BY DEF Copied

-----------------------------------------------------------------------------
(* What an UPDATE is made of                                               *)

AttrsOf(m, t) == {i \in DOMAIN m.attrs : m.attrs[i].type = t}
ReachedBy(m) == {m.attrs[i].body.afi : i \in AttrsOf(m, "MP_REACH_NLRI")}

(* Whether a message is of a kind that the capabilities of both allow.     *)
Agreed(m, own, peer) ==
  m.type = "UPDATE" =>
    /\ AttrsOf(m, "BGPSEC") # {} =>
         \A afi \in IF ReachedBy(m) = {} THEN {"v4"} ELSE ReachedBy(m) :
           afi \in DOMAIN MpnlriField /\ BgpsecField.RCV[afi] \in peer
    /\ \A i \in AttrsOf(m, "AS_PATH") : \A k \in DOMAIN m.attrs[i].body :
         m.attrs[i].body[k].size = AsnSize("asn_4byte" \in own /\ "asn_4byte" \in peer)

(* An attribute in front of the path, as it is copied.                     *)
InFront(a, afi) ==
  /\ a.type \notin {"BGPSEC", "AS_PATH", "AS4_PATH"}
  /\ a.type = "MP_REACH_NLRI" => a.body.afi = afi

(* An attribute of a path, as it is copied.                                *)
OfPath(a, afi) ==
  /\ a.type \in {"BGPSEC", "AS_PATH", "AS4_PATH"}
  /\ a.type = "BGPSEC" => Negotiated(afi)
  /\ a.type = "AS_PATH" => \A k \in DOMAIN a.body : a.body[k].size = AsnSize(UseAS4)

HasMpReach(attrs) == \E i \in DOMAIN attrs : attrs[i].type = "MP_REACH_NLRI"

LEMMA FrontOfPath ==
  ASSUME NEW localPref, NEW nlri, NEW useMPNLRI \in BOOLEAN, NEW val
  PROVE  /\ \E T : /\ FixedAttrs(localPref, nlri, useMPNLRI, val) \in Seq(T)
                   /\ \A t \in T : InFront(t, nlri.afi)
         /\ useMPNLRI => HasMpReach(FixedAttrs(localPref, nlri, useMPNLRI, val))
<1> DEFINE a1 == Plain1("ORIGIN", 1, "INCOMPLETE")
           a2 == Plain1("MED", 4, 0)
           a3 == Plain1("LOC_PREF", 4, localPref)
           a4 == Plain1("EXT_COMM", 8, Validation[val])
           a5 == IF useMPNLRI THEN MpReach(nlri) ELSE Plain1("NEXT_HOP", 4, "nextHop")
           T == {a1, a2, a3, a4, a5}
           pref == IF localPref > 0 THEN <<a3>> ELSE <<>>
           comm == IF val = "none" THEN <<>> ELSE <<a4>>
           most == <<a1, a2>> \o pref \o comm
           fixed == FixedAttrs(localPref, nlri, useMPNLRI, val)
<1>1. fixed = most \o <<a5>>  BY Zenon DEF FixedAttrs
<1>2. InFront(a1, nlri.afi) /\ InFront(a2, nlri.afi) /\ InFront(a3, nlri.afi) /\ InFront(a4, nlri.afi)
  <2>1. a1.type = "ORIGIN"  BY DEF Plain1
  <2>2. a2.type = "MED"  BY DEF Plain1
  <2>3. a3.type = "LOC_PREF"  BY DEF Plain1
  <2>4. a4.type = "EXT_COMM"  BY DEF Plain1
  <2> HIDE DEF a1, a2, a3, a4
  <2> QED  BY <2>1, <2>2, <2>3, <2>4 DEF InFront
<1>3. MpReach(nlri).type = "MP_REACH_NLRI" /\ MpReach(nlri).body.afi = nlri.afi
  <2> PICK length, hop : MpReach(nlri) =
        Plain1("MP_REACH_NLRI", length, [afi |-> nlri.afi, nextHopLen |-> hop, bits |-> nlri.bits,
                                         prefix |-> nlri.prefix])
    BY Zenon DEF MpReach
  <2> QED  BY DEF Plain1
<1>4. Plain1("NEXT_HOP", 4, "nextHop").type = "NEXT_HOP"  BY DEF Plain1
<1>5. InFront(a5, nlri.afi) /\ (useMPNLRI => a5.type = "MP_REACH_NLRI")
  <2>1. CASE useMPNLRI
    <3> PICK a : a = a5  OBVIOUS
    <3>1. a.type = "MP_REACH_NLRI" /\ a.body.afi = nlri.afi  BY Zenon, <2>1, <1>3
    <3> HIDE DEF a5
    <3> QED  BY <3>1 DEF InFront
  <2>2. CASE ~useMPNLRI
    <3> PICK a : a = a5  OBVIOUS
    <3>1. a.type = "NEXT_HOP"  BY Zenon, <2>2, <1>4
    <3> HIDE DEF a5
    <3> QED  BY <3>1, <2>2 DEF InFront
  <2> QED  BY <2>1, <2>2
<1> HIDE DEF a1, a2, a3, a4, a5, fixed
<1>6. \A t \in T : InFront(t, nlri.afi)  BY <1>2, <1>5
<1>7. <<a1, a2>> \in Seq(T) /\ pref \in Seq(T) /\ comm \in Seq(T) /\ <<a5>> \in Seq(T)
  <2>1. a1 \in T /\ a2 \in T /\ a3 \in T /\ a4 \in T /\ a5 \in T  OBVIOUS
  <2> HIDE DEF T
  <2>2. <<a1, a2>> \in Seq(T) /\ <<a3>> \in Seq(T) /\ <<a4>> \in Seq(T) /\ <<a5>> \in Seq(T)
    BY <2>1
  <2>3. <<>> \in Seq(T)  OBVIOUS
  <2>4. pref \in Seq(T) /\ comm \in Seq(T)  BY Zenon, <2>2, <2>3
  <2> QED  BY <2>2, <2>4
<1> HIDE DEF T, pref, comm
<1>8. most \in Seq(T)  BY <1>7, ConcatProperties
<1> HIDE DEF most
<1>9. fixed \in Seq(T)  BY <1>1, <1>7, <1>8, ConcatProperties
<1>10. Len(most) + 1 \in DOMAIN fixed /\ fixed[Len(most) + 1] = a5
  BY <1>1, <1>7, <1>8, <1>9, ConcatProperties
<1>11. useMPNLRI => HasMpReach(fixed)  BY <1>5, <1>10 DEF HasMpReach
<1> QED  BY <1>6, <1>9, <1>11 DEF fixed

LEMMA SecuredOfPath ==
  ASSUME NEW u, Secured(u) # NoAttribute
  PROVE  OfPath(Copied(Secured(u)), u.nlri.afi)
<1>1. Negotiated(u.nlri.afi) /\ Secured(u) = SecureAttr(u)
  BY Zenon DEF Secured
<1>2. PICK x : SecureAttr(u) = BgpsecAttr(x)
  BY Zenon, <1>1 DEF SecureAttr
<1> PICK a : a = Secured(u)  OBVIOUS
<1>3. a.type = "BGPSEC"
  <2>1. BgpsecAttr(x).type = "BGPSEC"  BY DEF BgpsecAttr
  <2> QED  BY Zenon, <2>1, <1>1, <1>2
<1>4. Copied(a) = a  BY <1>3, OtherCopied
<1>5. OfPath(a, u.nlri.afi)  BY <1>1, <1>3 DEF OfPath
<1> QED  BY Zenon, <1>4, <1>5

LEMMA PathAllowed ==
  ASSUME NEW u, Writable(u)
  PROVE  \E T : /\ PathOf(u, Secured(u)) \in Seq(T)
                /\ \A t \in T : OfPath(Copied(t), u.nlri.afi)
<1> DEFINE afi == u.nlri.afi
           path == MyPath(conf, u.path)
           as4(t) == t = generateBGP_PathAttr("AS4_PATH", path, u.set, TRUE)
           asPath(t) == t = generateBGP_PathAttr("AS_PATH", path, u.set, UseAS4)
<1>1. PICK S : path \in Seq(S)  BY PathIsSeq
<1>2. u.set \in Seq(Nat)  BY DEF Writable
<1>3. \A t : as4(t) /\ t # NoAttribute => OfPath(Copied(t), afi)
  <2> SUFFICES ASSUME NEW t, as4(t), t # NoAttribute PROVE OfPath(Copied(t), afi)
    OBVIOUS
  <2> HIDE DEF path
  <2> PICK c : c = Copied(t)  OBVIOUS
  <2>0. PICK four : t = generateBGP_PathAttr("AS4_PATH", path, u.set, four)  BY Zenon
  <2> HIDE DEF as4
  <2>1. c.type = "AS4_PATH"  BY <2>0, <1>1, <1>2, PathCopied
  <2> QED  BY <2>1 DEF OfPath
<1>4. \A t : asPath(t) /\ t # NoAttribute => OfPath(Copied(t), afi)
  <2> SUFFICES ASSUME NEW t, asPath(t), t # NoAttribute PROVE OfPath(Copied(t), afi)
    OBVIOUS
  <2> HIDE DEF path
  <2> PICK c : c = Copied(t)  OBVIOUS
  <2>1. c.type = "AS_PATH" /\ \A k \in DOMAIN c.body : c.body[k].size = AsnSize(UseAS4)
    BY <1>1, <1>2, PathCopied
  <2> QED  BY <2>1 DEF OfPath
<1> PICK sec : sec = Secured(u)  OBVIOUS
<1>5. CASE sec # NoAttribute
  <2>1. PathOf(u, Secured(u)) = <<sec>>  BY Zenon, <1>5 DEF PathOf
  <2>2. \A t \in {sec} : OfPath(Copied(t), afi)  BY Zenon, <1>5, SecuredOfPath
  <2>3. <<sec>> \in Seq({sec})  OBVIOUS
  <2>4. PathOf(u, Secured(u)) \in Seq({sec})  BY Zenon, <2>1, <2>3
  <2> WITNESS {sec}
  <2> QED  BY Zenon, <2>2, <2>4
<1>6. CASE sec = NoAttribute
  <2>1. PathOf(u, Secured(u)) = <<>> \/ PathOf(u, Secured(u)) = PathAttrs(u)
    BY Zenon, <1>6 DEF PathOf
  <2>2. CASE PathOf(u, Secured(u)) = <<>>
    <3>1. <<>> \in Seq({})  OBVIOUS
    <3>2. PathOf(u, Secured(u)) \in Seq({})  BY Zenon, <2>2, <3>1
    <3> WITNESS {}
    <3> QED  BY Zenon, <3>2
  <2>3. CASE PathOf(u, Secured(u)) = PathAttrs(u)
    <3>1. \/ PathAttrs(u) = <<>>
          \/ \E t : asPath(t) /\ t # NoAttribute /\ PathAttrs(u) = <<t>>
          \/ \E t, v : /\ asPath(t) /\ t # NoAttribute /\ as4(v) /\ v # NoAttribute
                       /\ PathAttrs(u) = <<v, t>>
      BY Zenon DEF PathAttrs
    <3> HIDE DEF asPath, as4
    <3>2. CASE PathAttrs(u) = <<>>
      BY Zenon, <2>2, <2>3, <3>2
    <3>3. ASSUME NEW t, asPath(t), t # NoAttribute, PathAttrs(u) = <<t>>
          PROVE  \E T : PathAttrs(u) \in Seq(T) /\ \A x \in T : OfPath(Copied(x), afi)
      <4>1. <<t>> \in Seq({t})  OBVIOUS
      <4>2. \A x \in {t} : OfPath(Copied(x), afi)  BY Zenon, <1>4, <3>3
      <4>3. PathAttrs(u) \in Seq({t})  BY Zenon, <3>3, <4>1
      <4> WITNESS {t}
      <4> QED  BY Zenon, <4>2, <4>3
    <3>4. ASSUME NEW t, NEW v, asPath(t), t # NoAttribute, as4(v), v # NoAttribute,
                 PathAttrs(u) = <<v, t>>
          PROVE  \E T : PathAttrs(u) \in Seq(T) /\ \A x \in T : OfPath(Copied(x), afi)
      <4>1. <<v, t>> \in Seq({v, t})  OBVIOUS
      <4>2. \A x \in {v, t} : OfPath(Copied(x), afi)  BY Zenon, <1>3, <1>4, <3>4
      <4>3. PathAttrs(u) \in Seq({v, t})  BY Zenon, <3>4, <4>1
      <4> WITNESS {v, t}
      <4> QED  BY Zenon, <4>2, <4>3
    <3> QED  BY Zenon, <2>3, <3>1, <3>2, <3>3, <3>4
  <2> QED  BY <2>1, <2>2, <2>3
<1> QED  BY <1>5, <1>6

LEMMA BuiltAgreed ==
  ASSUME NEW u, Writable(u), NEW mpnlri \in BOOLEAN,
         NEW m, m = createUpdateMessage(PathOf(u, Secured(u)), LocalPref, u.nlri, mpnlri,
                                        u.validation),
         m # NoMessage
  PROVE  Agreed(m, conf.caps, peerCap)
<1> DEFINE path == PathOf(u, Secured(u))
           afi == u.nlri.afi
           useMPNLRI == mpnlri \/ afi = "v6"
           fixed == FixedAttrs(LocalPref, u.nlri, useMPNLRI, u.validation)
<1>0. afi \in {"v4", "v6"} /\ DOMAIN MpnlriField = {"v4", "v6"}
  BY DEF Writable, MpnlriField
<1>1. PICK P : path \in Seq(P) /\ \A t \in P : OfPath(Copied(t), afi)
  BY PathAllowed
<1>2. /\ \E T : fixed \in Seq(T) /\ \A t \in T : InFront(t, afi)
      /\ useMPNLRI => HasMpReach(fixed)
  <2>1. useMPNLRI \in BOOLEAN  BY Zenon
  <2> HIDE DEF useMPNLRI
  <2> QED  BY <2>1, FrontOfPath
<1>a. PICK F : fixed \in Seq(F) /\ \A t \in F : InFront(t, afi)  BY <1>2
<1> PICK all : all = fixed \o path  OBVIOUS
<1>3. m.attrs = [i \in DOMAIN all |-> Copied(all[i])]
  <2> PICK type, length, pal, nlri :
        m = [type |-> type, length |-> length, path_attr_length |-> pal,
             attrs |-> [i \in DOMAIN all |-> Copied(all[i])], nlri |-> nlri]
    BY Zenon DEF createUpdateMessage
  <2> QED  OBVIOUS
<1> HIDE DEF fixed, path
<1>4. \A i \in DOMAIN all : InFront(all[i], afi) \/ OfPath(Copied(all[i]), afi)
  <2> SUFFICES ASSUME NEW i \in DOMAIN all PROVE InFront(all[i], afi) \/ OfPath(Copied(all[i]), afi)
    OBVIOUS
  <2>1. all \in Seq(F \cup P)  BY <1>1, <1>a, ConcatProperties
  <2>2. i \in 1..Len(all)  BY <2>1
  <2>3. all[i] \in F \cup P  BY <2>1, <2>2, ElementOfSeq
  <2> QED  BY <2>3, <1>1, <1>a
<1>5. \A i \in DOMAIN all : InFront(all[i], afi) => Copied(all[i]) = all[i]
  BY OtherCopied DEF InFront
<1>6. DOMAIN m.attrs = DOMAIN all /\ \A i \in DOMAIN all : m.attrs[i] = Copied(all[i])
  BY <1>3
<1>7. \A i \in DOMAIN m.attrs : InFront(m.attrs[i], afi) \/ OfPath(m.attrs[i], afi)
  BY Zenon, <1>4, <1>5, <1>6
<1>8. useMPNLRI => AttrsOf(m, "MP_REACH_NLRI") # {}
  <2> SUFFICES ASSUME useMPNLRI PROVE AttrsOf(m, "MP_REACH_NLRI") # {}  OBVIOUS
  <2>1. PICK i \in DOMAIN fixed : fixed[i].type = "MP_REACH_NLRI"  BY <1>2 DEF HasMpReach
  <2>2. i \in DOMAIN all /\ all[i] = fixed[i]
    <3>1. i \in 1..Len(fixed)  BY <1>a
    <3>2. fixed \in Seq(F \cup P) /\ path \in Seq(F \cup P)  BY <1>1, <1>a
    <3> QED  BY <3>1, <3>2, ConcatProperties
  <2>3. m.attrs[i].type = "MP_REACH_NLRI"
    <3>1. Copied(all[i]) = all[i]  BY <2>1, <2>2, OtherCopied
    <3> QED  BY Zenon, <3>1, <2>1, <2>2, <1>6
  <2> QED  BY Zenon, <1>6, <2>2, <2>3 DEF AttrsOf
<1>9. \A i \in AttrsOf(m, "MP_REACH_NLRI") : m.attrs[i].body.afi = afi
  BY <1>7 DEF AttrsOf, InFront, OfPath
<1>10. IF ReachedBy(m) = {} THEN afi = "v4" ELSE ReachedBy(m) = {afi}
  <2>1. CASE AttrsOf(m, "MP_REACH_NLRI") = {}
    BY <2>1, <1>8, <1>0 DEF ReachedBy
  <2>2. CASE AttrsOf(m, "MP_REACH_NLRI") # {}
    BY <2>2, <1>9 DEF ReachedBy
  <2> QED  BY <2>1, <2>2
<1>11. AttrsOf(m, "BGPSEC") # {} => BgpsecField.RCV[afi] \in peerCap
  <2>1. \A i \in AttrsOf(m, "BGPSEC") : Negotiated(afi)
    BY <1>7 DEF AttrsOf, InFront, OfPath
  <2> QED  BY <2>1 DEF Negotiated
<1>12. \A i \in AttrsOf(m, "AS_PATH") : \A k \in DOMAIN m.attrs[i].body :
         m.attrs[i].body[k].size = AsnSize(UseAS4)
  BY <1>7 DEF AttrsOf, InFront, OfPath
<1>13. UseAS4 <=> "asn_4byte" \in conf.caps /\ "asn_4byte" \in peerCap
  BY DEF UseAS4, Both
<1>14. AsnSize(UseAS4) = AsnSize("asn_4byte" \in conf.caps /\ "asn_4byte" \in peerCap)
  BY <1>13 DEF AsnSize
<1> QED  BY Zenon, <1>0, <1>10, <1>11, <1>12, <1>14 DEF Agreed

-----------------------------------------------------------------------------
(* The invariant                                                           *)

Scripted(c) == {u \in Range(c.updates) : Writable(u)}
Configured == conf \in Sessions /\ left \in Seq(Scripted(conf))

(* An accepted OPEN was not refused, and what it announced is in peerCap.  *)
AcceptedHeard ==
  state \in {"OpenConfirm", "ESTABLISHED"} =>
    heard \in PeerOpens /\ ReadOpen(heard).stopped = "" /\ peerCap = ReadOpen(heard).peerCap

(* An established session is the last attempt, and only it has sent        *)
(* updates: no other OPEN is read as long as one is in the buffer.         *)
LastAttempt == state = "ESTABLISHED" => ~trying
BufferEmpty == msgBuff # NoMessage => ~trying /\ state \in {"ESTABLISHED", "IDLE"}
NothingSent == said.type = "UPDATE" => state \in {"ESTABLISHED", "IDLE"}
BufferAgreed == Agreed(msgBuff, conf.caps, peerCap)

SentInv ==
  /\ Configured /\ AcceptedHeard /\ LastAttempt /\ BufferEmpty /\ NothingSent
  /\ BufferAgreed /\ SentAsAgreed

(* SentAsAgreed, of any message, session and OPEN.                         *)
AsAgreed(m, own, open) ==
  m.type = "UPDATE" =>
    /\ AttrsOf(m, "BGPSEC") # {} =>
         \A afi \in IF ReachedBy(m) = {} THEN {"v4"} ELSE ReachedBy(m) :
           \E c \in CapsOf(open) : c.code = "BGPSEC" /\ c.dir = "RCV" /\ c.afi = afi
    /\ \A i \in AttrsOf(m, "AS_PATH") : \A k \in DOMAIN m.attrs[i].body :
         m.attrs[i].body[k].size
         = AsnSize("asn_4byte" \in own /\ \E c \in CapsOf(open) : c.code = "AS4")
    /\ m.length > BGP_MAX_MESSAGE_SIZE =>
         \/ "extMsgForce" \in own
         \/ "extMsgSupp" \in own /\ \E c \in CapsOf(open) : c.code = "EXT_MSG_SUPPORT"

LEMMA SentIsAsAgreed == SentAsAgreed <=> AsAgreed(said, conf.caps, heard)
BY Zenon DEF SentAsAgreed, AsAgreed, AttrsOf, ReachedBy

LEMMA SentIsAsAgreedNext == SentAsAgreed' <=> AsAgreed(said', conf.caps', heard')
BY Zenon DEF SentAsAgreed, AsAgreed, AttrsOf, ReachedBy

LEMMA AgreedWithOpen ==
  ASSUME NEW m, NEW own, NEW open \in PeerOpens, ReadOpen(open).stopped = "",
         NEW peer, peer = ReadOpen(open).peerCap, Agreed(m, own, peer),
         m.length > BGP_MAX_MESSAGE_SIZE =>
           "extMsgForce" \in own \/ ("extMsgSupp" \in own /\ "extMsgSupp" \in peer)
  PROVE  AsAgreed(m, own, open)
<1>1. \A afi \in DOMAIN MpnlriField :
        BgpsecField.RCV[afi] \in peer
        => \E c \in CapsOf(open) : c.code = "BGPSEC" /\ c.dir = "RCV" /\ c.afi = afi
  BY Zenon, PeerCapTells
<1>2. "asn_4byte" \in peer <=> \E c \in CapsOf(open) : c.code = "AS4"
  BY Zenon, PeerCapTells
<1>3. "extMsgSupp" \in peer <=> \E c \in CapsOf(open) : c.code = "EXT_MSG_SUPPORT"
  BY Zenon, PeerCapTells
<1>4. AsnSize("asn_4byte" \in own /\ "asn_4byte" \in peer)
      = AsnSize("asn_4byte" \in own /\ \E c \in CapsOf(open) : c.code = "AS4")
  BY <1>2 DEF AsnSize
<1> QED  BY Zenon, <1>1, <1>3, <1>4 DEF Agreed, AsAgreed

LEMMA RefuseSays ==
  ASSUME NEW from, NEW error, NEW subcode, NEW dataLength, NEW data,
         Refuse(from, error, subcode, dataLength, data)
  PROVE  said'.type # "UPDATE" /\ state' \in {"IDLE", from}
<1>1. NoMessage.type # "UPDATE"  BY DEF NoMessage
<1> DEFINE n == createNotificationMessage(SESS_MIN_SEND_BUFF, error, subcode, dataLength, data)
<1>2. n.type # "UPDATE"
  BY DEF createNotificationMessage, NoMessage
<1> HIDE DEF n
<1>3. said' = n \/ said' = NoMessage  BY Zenon DEF Refuse, n
<1>4. state' \in {"IDLE", from}  BY Zenon DEF Refuse
<1> QED  BY Zenon, <1>1, <1>2, <1>3, <1>4

LEMMA NoMessageAgreed ==
  ASSUME NEW m, m.type # "UPDATE"
  PROVE  (\A own, peer : Agreed(m, own, peer)) /\ (\A own, open : AsAgreed(m, own, open))
BY DEF Agreed, AsAgreed

LEMMA NoneIsNoUpdate == NoMessage.type # "UPDATE"
BY DEF NoMessage

LEMMA SentInvInit == Init => SentInv
<1> SUFFICES ASSUME Init PROVE SentInv  OBVIOUS
<1>1. Configured
  <2>1. conf.updates \in Seq(Scripted(conf))
    BY MessageInputs DEF Init, Configurable, Scripted
  <2> QED  BY Zenon, <2>1 DEF Init, Configured
<1>2. said = NoMessage /\ msgBuff = NoMessage /\ state = "OpenSent"  BY DEF Init
<1>3. SentAsAgreed  BY Zenon, <1>2, NoneIsNoUpdate, NoMessageAgreed, SentIsAsAgreed
<1>4. BufferAgreed  BY Zenon, <1>2, NoneIsNoUpdate, NoMessageAgreed DEF BufferAgreed
<1>5. AcceptedHeard /\ LastAttempt /\ BufferEmpty /\ NothingSent
  BY <1>2, NoneIsNoUpdate DEF AcceptedHeard, LastAttempt, BufferEmpty, NothingSent
<1> QED  BY <1>1, <1>3, <1>4, <1>5 DEF SentInv

(* A step that writes no update and leaves the stack and the buffer alone. *)
LEMMA SayingNoUpdate ==
  ASSUME SentInv, UNCHANGED <<conf, trafficVars>>, said'.type # "UPDATE",
         msgBuff # NoMessage => UNCHANGED peerCap
  PROVE  Configured' /\ BufferAgreed' /\ SentAsAgreed' /\ NothingSent'
<1>1. Configured'  BY Zenon DEF SentInv, Configured, Scripted, trafficVars
<1>2. SentAsAgreed'
  <2>1. AsAgreed(said', conf.caps', heard')  BY Zenon, NoMessageAgreed
  <2>2. SentAsAgreed' <=> AsAgreed(said', conf.caps', heard')  BY SentIsAsAgreedNext
  <2> QED  BY <2>1, <2>2
<1>3. BufferAgreed'
  <2>1. msgBuff' = msgBuff /\ conf' = conf  BY DEF trafficVars
  <2>2. CASE msgBuff = NoMessage
    BY Zenon, <2>1, <2>2, NoneIsNoUpdate, NoMessageAgreed DEF BufferAgreed
  <2>3. CASE msgBuff # NoMessage
    BY Zenon, <2>1, <2>3 DEF SentInv, BufferAgreed
  <2> QED  BY <2>2, <2>3
<1>4. NothingSent'  BY DEF NothingSent
<1> QED  BY <1>1, <1>2, <1>3, <1>4

LEMMA SentInvOpen == SentInv /\ SendOpen => SentInv'
<1> SUFFICES ASSUME SentInv, SendOpen PROVE SentInv'  OBVIOUS
<1>1. said'.type # "UPDATE"  BY DEF SendOpen, createOpenMessage
<1>2. UNCHANGED <<conf, state, peerCap, trying, heard, trafficVars>>  BY DEF SendOpen
<1>3. Configured' /\ BufferAgreed' /\ SentAsAgreed' /\ NothingSent'
  BY Zenon, <1>1, <1>2, SayingNoUpdate
<1>4. AcceptedHeard' /\ LastAttempt' /\ BufferEmpty'
  BY Zenon, <1>2 DEF SentInv, AcceptedHeard, LastAttempt, BufferEmpty, trafficVars
<1> QED  BY <1>3, <1>4 DEF SentInv

LEMMA SentInvConfirm == SentInv /\ Confirm => SentInv'
<1> SUFFICES ASSUME SentInv, Confirm PROVE SentInv'  OBVIOUS
<1>1. said'.type # "UPDATE"  BY DEF Confirm, createKeepAliveMessge
<1>2. UNCHANGED <<conf, peerCap, heard, trafficVars>>  BY DEF Confirm
<1>3. Configured' /\ BufferAgreed' /\ SentAsAgreed' /\ NothingSent'
  BY Zenon, <1>1, <1>2, SayingNoUpdate
<1>4. state = "OpenConfirm" /\ state' = "ESTABLISHED" /\ trying' = FALSE  BY DEF Confirm
<1>5. AcceptedHeard'  BY Zenon, <1>2, <1>4 DEF SentInv, AcceptedHeard
<1>6. LastAttempt' /\ BufferEmpty'
  BY <1>2, <1>4 DEF SentInv, LastAttempt, BufferEmpty, trafficVars
<1> QED  BY <1>3, <1>5, <1>6 DEF SentInv

LEMMA SentInvReconnect == SentInv /\ Reconnect => SentInv'
<1> SUFFICES ASSUME SentInv, Reconnect PROVE SentInv'  OBVIOUS
<1>1. said'.type # "UPDATE"  BY Zenon, NoneIsNoUpdate DEF Reconnect
<1>2. UNCHANGED <<conf, peerCap, trying, trafficVars>>  BY DEF Reconnect
<1>3. Configured' /\ BufferAgreed' /\ SentAsAgreed' /\ NothingSent'
  BY Zenon, <1>1, <1>2, SayingNoUpdate
<1>4. trying /\ state' = "OpenSent"  BY DEF Reconnect
<1>5. AcceptedHeard' /\ LastAttempt'  BY <1>4 DEF AcceptedHeard, LastAttempt
<1>6. BufferEmpty'  BY <1>2, <1>4 DEF SentInv, BufferEmpty, trafficVars
<1> QED  BY <1>3, <1>5, <1>6 DEF SentInv

(* What becomes of a state in which an OPEN is judged.                     *)
LEMMA Judged ==
  ASSUME NEW m, Judge(m), state = "OpenSent", said.type # "UPDATE"
  PROVE  /\ said'.type # "UPDATE"
         /\ state' \in {"IDLE", "OpenSent", "OpenConfirm", "CRASHED"}
         /\ state' = "OpenConfirm" => ReadOpen(m).stopped = "" /\ peerCap' = ReadOpen(m).peerCap
<1> PICK read : read = ReadOpen(m)  OBVIOUS
<1> DEFINE missing == MissingCaps(read.peerCap)
<1>1. peerCap' = read.peerCap  BY Zenon DEF Judge, PeerCap
<1>2. \/ read.stopped # "" /\ state' = "CRASHED" /\ UNCHANGED said
      \/ read.stopped # "" /\ Refuse(state, "OPEN_MESSAGE", read.stopped, 0, <<>>)
      \/ read.stopped = "" /\ Refuse(state, "OPEN_MESSAGE", "BAD_PEERAS", 0, <<>>)
      \/ /\ read.stopped = ""
         /\ Refuse("OpenConfirm", "OPEN_MESSAGE", "UNSUPPORTED_CAPABILITY", SizeOfCaps(missing),
                   missing)
      \/ read.stopped = "" /\ state' = "OpenConfirm" /\ UNCHANGED said
  BY Zenon DEF Judge
<1>0. CASE read.stopped # "" /\ state' = "CRASHED" /\ UNCHANGED said
  BY <1>0
<1>3. CASE read.stopped # "" /\ Refuse(state, "OPEN_MESSAGE", read.stopped, 0, <<>>)
  <2>1. said'.type # "UPDATE" /\ state' \in {"IDLE", state}  BY Zenon, <1>3, RefuseSays
  <2> QED  BY <2>1
<1>4. CASE read.stopped = "" /\ Refuse(state, "OPEN_MESSAGE", "BAD_PEERAS", 0, <<>>)
  <2>1. said'.type # "UPDATE" /\ state' \in {"IDLE", state}  BY Zenon, <1>4, RefuseSays
  <2> QED  BY <2>1
<1>5. CASE /\ read.stopped = ""
           /\ Refuse("OpenConfirm", "OPEN_MESSAGE", "UNSUPPORTED_CAPABILITY", SizeOfCaps(missing),
                     missing)
  <2>1. said'.type # "UPDATE" /\ state' \in {"IDLE", "OpenConfirm"}  BY Zenon, <1>5, RefuseSays
  <2> QED  BY <2>1, <1>1, <1>5
<1>6. CASE read.stopped = "" /\ state' = "OpenConfirm" /\ UNCHANGED said
  BY <1>1, <1>6
<1> QED  BY <1>2, <1>0, <1>3, <1>4, <1>5, <1>6

LEMMA HeardOpenSent ==
  ASSUME NEW m \in PeerOpens \cup Others, HearInOpenSent(m)
  PROVE  /\ said'.type # "UPDATE"
         /\ state' \in {"IDLE", "OpenSent", "OpenConfirm", "CRASHED"}
         /\ state' = "OpenConfirm" => /\ heard' \in PeerOpens /\ ReadOpen(heard').stopped = ""
                                      /\ peerCap' = ReadOpen(heard').peerCap
<1>1. state = "OpenSent" /\ said.type # "UPDATE"  BY DEF HearInOpenSent
<1>2. m.type = "OPEN" => m \in PeerOpens /\ heard' = m
  <2>1. m \in Others => m.type # "OPEN"  BY SMT, MessageInputs
  <2> QED  BY Zenon, <2>1 DEF HearInOpenSent
<1>3. CASE RefuseHeader(m)
  <2>1. Refuse(state, "MESSAGE_HEADER", HeaderError(m), m.length, <<m.type>>)
    BY Zenon, <1>3 DEF RefuseHeader
  <2>2. said'.type # "UPDATE" /\ state' \in {"IDLE", state}  BY Zenon, <2>1, RefuseSays
  <2> QED  BY <1>1, <2>2
<1>4. CASE ReadOpenMessage(m)
  <2>1. \/ Refuse(state, "MESSAGE_HEADER", "BAD_LENGTH", m.length, <<m.type>>)
        \/ Refuse(state, "OPEN_MESSAGE", "VERSION", 0, <<>>)
        \/ Judge(m)
    BY Zenon, <1>4 DEF ReadOpenMessage
  <2>2. CASE \/ Refuse(state, "MESSAGE_HEADER", "BAD_LENGTH", m.length, <<m.type>>)
             \/ Refuse(state, "OPEN_MESSAGE", "VERSION", 0, <<>>)
    <3>1. said'.type # "UPDATE" /\ state' \in {"IDLE", state}  BY Zenon, <2>2, RefuseSays
    <3> QED  BY <1>1, <3>1
  <2>3. CASE Judge(m)
    <3>1. m.type = "OPEN"  BY Zenon, <1>4 DEF ReadOpenMessage
    <3> QED  BY Zenon, <1>1, <1>2, <2>3, <3>1, Judged
  <2> QED  BY <2>1, <2>2, <2>3
<1>5. CASE ReadNoOpen(m)
  <2>1. said' = NoMessage /\ state' \in {"IDLE", state}  BY Zenon, <1>5 DEF ReadNoOpen
  <2>2. said'.type # "UPDATE"  BY Zenon, <2>1, NoneIsNoUpdate
  <2> QED  BY <1>1, <2>1, <2>2
<1> QED  BY Zenon, <1>3, <1>4, <1>5 DEF HearInOpenSent

LEMMA SentInvOpenSent ==
  ASSUME SentInv, NEW m \in PeerOpens \cup Others, HearInOpenSent(m)
  PROVE  SentInv'
<1>1. /\ said'.type # "UPDATE"
      /\ state' \in {"IDLE", "OpenSent", "OpenConfirm", "CRASHED"}
      /\ state' = "OpenConfirm" => /\ heard' \in PeerOpens /\ ReadOpen(heard').stopped = ""
                                   /\ peerCap' = ReadOpen(heard').peerCap
  BY Zenon, HeardOpenSent
<1>2. UNCHANGED <<conf, trafficVars>>  BY DEF HearInOpenSent
<1>3. msgBuff = NoMessage  BY Zenon DEF HearInOpenSent, SentInv, BufferEmpty
<1>4. Configured' /\ BufferAgreed' /\ SentAsAgreed' /\ NothingSent'
  BY Zenon, <1>1, <1>2, <1>3, SayingNoUpdate
<1>5. state' # "ESTABLISHED"  BY <1>1
<1>6. AcceptedHeard' /\ LastAttempt'  BY Zenon, <1>1, <1>5 DEF AcceptedHeard, LastAttempt
<1>7. BufferEmpty'  BY Zenon, <1>2, <1>3 DEF BufferEmpty, trafficVars
<1> QED  BY <1>4, <1>6, <1>7 DEF SentInv

LEMMA SentInvEstablished ==
  ASSUME SentInv, NEW m \in PeerOpens \cup Others, HearInEstablished(m)
  PROVE  SentInv'
<1>1. state = "ESTABLISHED"  BY DEF HearInEstablished
<1>2. UNCHANGED <<conf, heard, trafficVars, peerCap>>
  BY Zenon DEF HearInEstablished, RefuseHeader, ProcessPacket
<1>3. ~trying'
  BY Zenon, <1>1 DEF HearInEstablished, RefuseHeader, ProcessPacket, SentInv, LastAttempt
<1>4. state' \in {"IDLE", "ESTABLISHED"} /\ (said'.type # "UPDATE" \/ UNCHANGED said)
  <2>1. CASE RefuseHeader(m)
    <3>1. Refuse(state, "MESSAGE_HEADER", HeaderError(m), m.length, <<m.type>>)
      BY Zenon, <2>1 DEF RefuseHeader
    <3>2. said'.type # "UPDATE" /\ state' \in {"IDLE", state}  BY Zenon, <3>1, RefuseSays
    <3> QED  BY <1>1, <3>2
  <2>2. CASE ProcessPacket(m)
    <3>1. \/ Refuse(state, "MESSAGE_HEADER", "BAD_LENGTH", 0, <<>>)
          \/ Refuse(state, "FSM", "UNDEFINED", m.length, <<m.type>>)
          \/ Refuse(state, "MESSAGE_HEADER", "BAD_LENGTH", m.length, <<m.type>>)
          \/ state' = "IDLE" /\ UNCHANGED said
          \/ UNCHANGED <<state, said>>
      BY Zenon, <2>2 DEF ProcessPacket
    <3>2. CASE \/ Refuse(state, "MESSAGE_HEADER", "BAD_LENGTH", 0, <<>>)
               \/ Refuse(state, "FSM", "UNDEFINED", m.length, <<m.type>>)
               \/ Refuse(state, "MESSAGE_HEADER", "BAD_LENGTH", m.length, <<m.type>>)
      <4>1. said'.type # "UPDATE" /\ state' \in {"IDLE", state}  BY Zenon, <3>2, RefuseSays
      <4> QED  BY <1>1, <4>1
    <3> QED  BY <1>1, <3>1, <3>2
  <2> QED  BY Zenon, <2>1, <2>2 DEF HearInEstablished
<1>5. Configured' /\ BufferAgreed' /\ SentAsAgreed' /\ NothingSent'
  <2>1. CASE said'.type # "UPDATE"
    BY Zenon, <1>2, <2>1, SayingNoUpdate
  <2>2. CASE UNCHANGED said
    <3>1. Configured' /\ BufferAgreed'
      BY Zenon, <1>2 DEF SentInv, Configured, Scripted, BufferAgreed, trafficVars
    <3>2. SentAsAgreed'
      <4>1. SentAsAgreed' <=> AsAgreed(said', conf.caps', heard')  BY SentIsAsAgreedNext
      <4>2. AsAgreed(said, conf.caps, heard)  BY Zenon, SentIsAsAgreed DEF SentInv
      <4> QED  BY Zenon, <1>2, <2>2, <4>1, <4>2
    <3>3. NothingSent'  BY <1>4 DEF NothingSent
    <3> QED  BY <3>1, <3>2, <3>3
  <2> QED  BY <1>4, <2>1, <2>2
<1>6. AcceptedHeard'  BY Zenon, <1>1, <1>2 DEF SentInv, AcceptedHeard
<1>7. LastAttempt' /\ BufferEmpty'  BY <1>3, <1>4 DEF LastAttempt, BufferEmpty
<1> QED  BY <1>5, <1>6, <1>7 DEF SentInv

LEMMA SentInvUpdate == SentInv /\ SendUpdate => SentInv'
<1> SUFFICES ASSUME SentInv, SendUpdate PROVE SentInv'  OBVIOUS
<1> DEFINE u == Head(left)
<1>1. UNCHANGED <<conf, holdTime, state, peerCap, tries, trying, heard>> /\ state = "ESTABLISHED"
  BY DEF SendUpdate
<1>2. left # <<>> /\ left' = Tail(left)  BY DEF SendUpdate
<1>3. left \in Seq(Scripted(conf)) /\ conf \in Sessions  BY DEF SentInv, Configured
<1>4. left' \in Seq(Scripted(conf)) /\ u \in Scripted(conf)  BY <1>2, <1>3
<1>5. Writable(u)  BY Zenon, <1>4 DEF Scripted
<1> PICK path : path = PathOf(u, Secured(u))  OBVIOUS
<1> PICK mpnlri : mpnlri = (conf.useMPNLRI /\ Secured(u) # NoAttribute)  OBVIOUS
<1>6. \/ said' = NoMessage /\ UNCHANGED msgBuff
      \/ /\ msgBuff' = BuiltIn(msgBuff, u, path, mpnlri)
         /\ said' = IF msgBuff' # NoMessage /\ Sendable(msgBuff') THEN msgBuff' ELSE NoMessage
  BY Zenon DEF SendUpdate
<1> PICK old : old = msgBuff  OBVIOUS
<1> PICK new : new = msgBuff'  OBVIOUS
<1>7. Agreed(old, conf.caps, peerCap)  BY Zenon DEF SentInv, BufferAgreed
<1>8. Agreed(new, conf.caps, peerCap)
  <2>1. CASE new = old
    BY Zenon, <1>7, <2>1
  <2>2. CASE new # old
    <3>1. new = createUpdateMessage(path, LocalPref, u.nlri, mpnlri, u.validation)
          /\ new # NoMessage
      BY Zenon, <1>6, <2>2 DEF BuiltIn
    <3>2. mpnlri \in BOOLEAN  OBVIOUS
    <3> QED  BY Zenon, <3>1, <3>2, <1>5, BuiltAgreed
  <2> QED  BY <2>1, <2>2
<1>9. said' = NoMessage \/ (said' = new /\ Sendable(new))  BY Zenon, <1>6 DEF Sendable, Both
<1>10. AsAgreed(said', conf.caps, heard)
  <2>1. CASE said' = NoMessage
    BY Zenon, <2>1, NoneIsNoUpdate, NoMessageAgreed
  <2>2. CASE said' = new /\ Sendable(new)
    <3>1. heard \in PeerOpens /\ ReadOpen(heard).stopped = "" /\ peerCap = ReadOpen(heard).peerCap
      BY Zenon, <1>1 DEF SentInv, AcceptedHeard
    <3>2. new.length > BGP_MAX_MESSAGE_SIZE =>
            "extMsgForce" \in conf.caps
            \/ ("extMsgSupp" \in conf.caps /\ "extMsgSupp" \in peerCap)
      BY Zenon, <2>2 DEF Sendable, Both
    <3> QED  BY Zenon, <1>8, <2>2, <3>1, <3>2, AgreedWithOpen
  <2> QED  BY <1>9, <2>1, <2>2
<1>11. SentAsAgreed'
  <2>1. SentAsAgreed' <=> AsAgreed(said', conf.caps', heard')  BY SentIsAsAgreedNext
  <2> QED  BY Zenon, <2>1, <1>1, <1>10
<1>12. Configured' /\ BufferAgreed'
  <2>1. Configured'  BY Zenon, <1>1, <1>3, <1>4 DEF Configured, Scripted
  <2>2. BufferAgreed'  BY Zenon, <1>1, <1>8 DEF BufferAgreed
  <2> QED  BY <2>1, <2>2
<1>13. AcceptedHeard' /\ LastAttempt'
  BY Zenon, <1>1 DEF SentInv, AcceptedHeard, LastAttempt
<1>14. BufferEmpty' /\ NothingSent'
  BY <1>1 DEF SentInv, BufferEmpty, NothingSent, LastAttempt
<1> QED  BY <1>11, <1>12, <1>13, <1>14 DEF SentInv

LEMMA SentInvNext == SentInv /\ [Next]_vars => SentInv'
<1> SUFFICES ASSUME SentInv, [Next]_vars PROVE SentInv'  OBVIOUS
<1>1. CASE SendOpen
  BY <1>1, SentInvOpen
<1>2. CASE Confirm
  BY <1>2, SentInvConfirm
<1>3. CASE Reconnect
  BY <1>3, SentInvReconnect
<1>4. CASE SendUpdate
  BY <1>4, SentInvUpdate
<1>5. ASSUME NEW m \in PeerOpens \cup Others, HearInOpenSent(m) PROVE SentInv'
  BY <1>5, SentInvOpenSent
<1>6. ASSUME NEW m \in PeerOpens \cup Others, HearInEstablished(m) PROVE SentInv'
  BY <1>6, SentInvEstablished
<1>7. CASE UNCHANGED vars
  <2>1. UNCHANGED <<conf, state, peerCap, trying, heard, said, left, msgBuff>>
    BY <1>7 DEF vars
  <2>2. Configured' /\ AcceptedHeard' /\ LastAttempt' /\ BufferEmpty' /\ NothingSent'
    BY Zenon, <2>1
    DEF SentInv, Configured, Scripted, AcceptedHeard, LastAttempt, BufferEmpty, NothingSent
  <2>3. BufferAgreed'  BY Zenon, <2>1 DEF SentInv, BufferAgreed
  <2>4. SentAsAgreed'
    <3>1. SentAsAgreed' <=> AsAgreed(said', conf.caps', heard')  BY SentIsAsAgreedNext
    <3>2. AsAgreed(said, conf.caps, heard)  BY Zenon, SentIsAsAgreed DEF SentInv
    <3> QED  BY Zenon, <2>1, <3>1, <3>2
  <2> QED  BY <2>2, <2>3, <2>4 DEF SentInv
<1> QED  BY <1>1, <1>2, <1>3, <1>4, <1>5, <1>6, <1>7 DEF Next, Hear

(* An UPDATE is of a kind that the OPENs of this connection agreed on,     *)
(* whatever OPENs were refused before it and on which connections: a       *)
(* BGPsec path, four-byte AS numbers and more than 4096 bytes only as both *)
(* ends announced, also where the message of an earlier update is sent     *)
(* again (SentAsAgreed).                                                   *)
THEOREM OnlyAsAgreed == Spec => []SentAsAgreed
<1>1. Init => SentInv  BY SentInvInit
<1>2. SentInv /\ [Next]_vars => SentInv'  BY SentInvNext
<1>3. SentInv => SentAsAgreed  BY DEF SentInv
<1> QED  BY <1>1, <1>2, <1>3, PTL DEF Spec

-----------------------------------------------------------------------------
(* The OPEN that is written                                                *)

Rows == 1..9
Row(asn, i) == CapTable(asn)[i]

(* What a row says of its capability: how it is sized, read and shown.     *)
RowOf(row, asn) ==
  /\ row[1] \in Announced
  /\ row[2].length \in Nat
  /\ SizeOfCap(row[1]) = SizeCap + row[2].length
  /\ ~Refused(row[2]) /\ CapFields(row[2]) = {row[1]}
  /\ row[2].code = "BGPSEC" => row[2].afi \in DOMAIN MpnlriField
  /\ row[2].code = "AS4" <=> row[1] = "asn_4byte"
  /\ row[2].code = "AS4" => row[2].myAS = asn

LEMMA RowsAre ==
  ASSUME NEW asn
  PROVE  /\ DOMAIN CapTable(asn) = Rows
         /\ \A i \in Rows : RowOf(Row(asn, i), asn)
         /\ \A cap \in Announced : \E i \in Rows : Row(asn, i)[1] = cap
<1>1. DOMAIN CapTable(asn) = Rows  BY DEF CapTable, Rows
<1> USE DEF SizeOfCap, SizeCap, Refused, CapFields, Cap, CapMpnlri, CapAs4, CapBgpsec, CapLength,
            MpnlriField, BgpsecField, BGPSEC_VERSION
<1>2. \A i \in Rows : i \in {1, 2, 3, 4, 5, 6, 7, 8, 9}  BY DEF Rows
<1>3. RowOf(Row(asn, 1), asn)  BY DEF Row, CapTable, RowOf, Announced
<1>4. RowOf(Row(asn, 2), asn)  BY DEF Row, CapTable, RowOf, Announced
<1>5. RowOf(Row(asn, 3), asn)  BY DEF Row, CapTable, RowOf, Announced
<1>6. RowOf(Row(asn, 4), asn)  BY DEF Row, CapTable, RowOf, Announced
<1>7. RowOf(Row(asn, 5), asn)  BY DEF Row, CapTable, RowOf, Announced
<1>8. RowOf(Row(asn, 6), asn)  BY DEF Row, CapTable, RowOf, Announced
<1>9. RowOf(Row(asn, 7), asn)  BY DEF Row, CapTable, RowOf, Announced
<1>10. RowOf(Row(asn, 8), asn)  BY DEF Row, CapTable, RowOf, Announced
<1>11. RowOf(Row(asn, 9), asn)  BY DEF Row, CapTable, RowOf, Announced
<1>12. \A i \in Rows : RowOf(Row(asn, i), asn)
  BY Zenon, <1>2, <1>3, <1>4, <1>5, <1>6, <1>7, <1>8, <1>9, <1>10, <1>11
<1>13. \A cap \in Announced : \E i \in Rows : Row(asn, i)[1] = cap
  <2>1. {1, 2, 3, 4, 5, 6, 7, 8, 9} \subseteq Rows  BY DEF Rows
  <2>2. /\ Row(asn, 1)[1] = "mpnlri_v4" /\ Row(asn, 2)[1] = "mpnlri_v6"
        /\ Row(asn, 3)[1] = "route_refresh" /\ Row(asn, 4)[1] = "extMsgSupp"
        /\ Row(asn, 5)[1] = "asn_4byte"
        /\ Row(asn, 6)[1] = "bgpsec_snd_v4" /\ Row(asn, 7)[1] = "bgpsec_rcv_v4"
        /\ Row(asn, 8)[1] = "bgpsec_snd_v6" /\ Row(asn, 9)[1] = "bgpsec_rcv_v6"
    BY DEF Row, CapTable
  <2> QED  BY Zenon, <2>1, <2>2 DEF Announced
<1> QED  BY <1>1, <1>12, <1>13

(* The parameter of a row, and those of all rows.                          *)
RowParam(row) == Param("CAP", <<row[2]>>)
ParamsOf(asn) == {RowParam(Row(asn, i)) : i \in Rows}
RowParams(caps, asn) ==
  [i \in Rows |-> IF Row(asn, i)[1] \in caps THEN <<RowParam(Row(asn, i))>> ELSE <<>>]

LEMMA RowParamIs ==
  ASSUME NEW asn, NEW i \in Rows
  PROVE  /\ RowParam(Row(asn, i)).type = "CAP"
         /\ RowParam(Row(asn, i)).caps = <<Row(asn, i)[2]>>
         /\ RowParam(Row(asn, i)).len = SizeCap + Row(asn, i)[2].length
<1> PICK c : c = Row(asn, i)[2]  OBVIOUS
<1>1. c.length \in Nat /\ SizeCap + c.length \in Nat
  <2>1. c.length \in Nat  BY Zenon, RowsAre DEF RowOf
  <2> QED  BY <2>1 DEF SizeCap
<1> PICK n : n = SizeCap + c.length  OBVIOUS
<1>2. [j \in DOMAIN <<c>> |-> SizeCap + <<c>>[j].length] = <<n>>  OBVIOUS
<1>3. Total(<<n>>) = n  BY Zenon, <1>1, TotalOne
<1>4. RowParam(Row(asn, i)) = [type |-> "CAP", len |-> n, caps |-> <<c>>]
  BY Zenon, <1>2, <1>3 DEF RowParam, Param
<1> QED  BY <1>4

LEMMA RowParamsTyped ==
  ASSUME NEW caps, NEW asn
  PROVE  /\ RowParams(caps, asn) \in Seq(Seq(ParamsOf(asn)))
         /\ Len(RowParams(caps, asn)) = 9 /\ DOMAIN RowParams(caps, asn) = Rows
         /\ OptParams(caps, asn) = FlattenSeq(RowParams(caps, asn))
         /\ OptParams(caps, asn) \in Seq(ParamsOf(asn))
<1> DEFINE e(i) == IF Row(asn, i)[1] \in caps THEN <<RowParam(Row(asn, i))>> ELSE <<>>
<1> PICK seqs : seqs = RowParams(caps, asn)  OBVIOUS
<1>1. ASSUME NEW i \in Rows PROVE e(i) \in Seq(ParamsOf(asn))
  <2>1. RowParam(Row(asn, i)) \in ParamsOf(asn)  BY DEF ParamsOf
  <2> QED  BY <2>1
<1>2. seqs = [i \in Rows |-> e(i)]  BY Zenon DEF RowParams
<1> HIDE DEF e
<1>3. seqs \in [1..9 -> Seq(ParamsOf(asn))]  BY <1>1, <1>2 DEF Rows
<1>4. seqs \in Seq(Seq(ParamsOf(asn)))  BY Zenon, <1>3, FunctionIsSeq, 9 \in Nat
<1>5. DOMAIN seqs = Rows  BY <1>2
<1>6. Len(seqs) = 9  BY <1>3, <1>4, LenProperties
<1>7. OptParams(caps, asn) = FlattenSeq(seqs)
  <2>1. DOMAIN CapTable(asn) = Rows  BY Zenon, RowsAre
  <2> QED  BY Zenon, <2>1 DEF OptParams, RowParams, RowParam, Row
<1>8. OptParams(caps, asn) \in Seq(ParamsOf(asn))  BY Zenon, <1>4, <1>7, FlattenIsSeq
<1> QED  BY Zenon, <1>4, <1>5, <1>6, <1>7, <1>8

(* A parameter is written if and only if its capability is configured.     *)
WrittenFor(params, caps, asn) ==
  /\ \A k \in DOMAIN params :
       \E i \in Rows : Row(asn, i)[1] \in caps /\ params[k] = RowParam(Row(asn, i))
  /\ \A i \in Rows : Row(asn, i)[1] \in caps =>
       \E k \in DOMAIN params : params[k] = RowParam(Row(asn, i))

LEMMA ParamsWritten ==
  ASSUME NEW caps, NEW asn
  PROVE  WrittenFor(OptParams(caps, asn), caps, asn)
<1> PICK seqs : seqs = RowParams(caps, asn)  OBVIOUS
<1> PICK params : params = OptParams(caps, asn)  OBVIOUS
<1>1. /\ seqs \in Seq(Seq(ParamsOf(asn))) /\ DOMAIN seqs = Rows
      /\ params = FlattenSeq(seqs)
  BY Zenon, RowParamsTyped
<1>2. \A x : Within(params, x) <=> \E i \in DOMAIN seqs : Within(seqs[i], x)
  BY Zenon, <1>1, FlattenElements
<1>3. \A i \in Rows : seqs[i] = IF Row(asn, i)[1] \in caps THEN <<RowParam(Row(asn, i))>> ELSE <<>>
  BY Zenon DEF RowParams
<1>4. ASSUME NEW i \in Rows, NEW x
      PROVE  Within(seqs[i], x) <=> Row(asn, i)[1] \in caps /\ x = RowParam(Row(asn, i))
  <2> PICK y : y = RowParam(Row(asn, i))  OBVIOUS
  <2>1. Within(<<y>>, x) <=> x = y  BY DEF Within
  <2>2. ~Within(<<>>, x)  BY DEF Within
  <2> QED  BY Zenon, <1>3, <2>1, <2>2
<1>5. \A x : Within(params, x) <=> \E i \in Rows : Row(asn, i)[1] \in caps /\ x = RowParam(Row(asn, i))
  BY Zenon, <1>1, <1>2, <1>4
<1>6. \A k \in DOMAIN params : \E i \in Rows : Row(asn, i)[1] \in caps /\ params[k] = RowParam(Row(asn, i))
  <2> SUFFICES ASSUME NEW k \in DOMAIN params
               PROVE  \E i \in Rows : Row(asn, i)[1] \in caps /\ params[k] = RowParam(Row(asn, i))
    OBVIOUS
  <2>1. Within(params, params[k])  BY Zenon DEF Within
  <2> QED  BY Zenon, <1>5, <2>1
<1>7. \A i \in Rows : Row(asn, i)[1] \in caps => \E k \in DOMAIN params : params[k] = RowParam(Row(asn, i))
  BY Zenon, <1>5 DEF Within
<1> QED  BY Zenon, <1>6, <1>7 DEF WrittenFor

(* The length that is counted before is that of what is written.           *)
LEMMA LengthCounted ==
  ASSUME NEW caps, NEW asn
  PROVE  /\ ParamLength(caps) \in Nat
         /\ Total([i \in DOMAIN OptParams(caps, asn) |-> SizeParam + OptParams(caps, asn)[i].len])
            = ParamLength(caps)
<1> DEFINE S == ParamsOf(asn)
           W == [p \in S |-> SizeParam + p.len]
           size(i) == IF Row(0, i)[1] \in caps THEN SizeOfCap(Row(0, i)[1]) + SizeParam ELSE 0
<1> PICK v : v = [i \in Rows |-> size(i)]  OBVIOUS
<1> PICK seqs : seqs = RowParams(caps, asn)  OBVIOUS
<1> PICK params : params = OptParams(caps, asn)  OBVIOUS
<1>0. \A i \in Rows : Row(0, i)[1] = Row(asn, i)[1]
  <2>1. \A i \in Rows : i \in {1, 2, 3, 4, 5, 6, 7, 8, 9}  BY DEF Rows
  <2> QED  BY <2>1 DEF Row, CapTable
<1>1. /\ seqs \in Seq(Seq(S)) /\ Len(seqs) = 9 /\ params = FlattenSeq(seqs) /\ params \in Seq(S)
  BY Zenon, RowParamsTyped
<1>2. \A i \in Rows : SizeOfCap(Row(asn, i)[1]) \in Nat
                      /\ SizeParam + RowParam(Row(asn, i)).len = SizeOfCap(Row(asn, i)[1]) + SizeParam
  <2> SUFFICES ASSUME NEW i \in Rows
               PROVE  SizeOfCap(Row(asn, i)[1]) \in Nat
                      /\ SizeParam + RowParam(Row(asn, i)).len = SizeOfCap(Row(asn, i)[1]) + SizeParam
    OBVIOUS
  <2> PICK n : n = Row(asn, i)[2].length  OBVIOUS
  <2> PICK m : m = SizeOfCap(Row(asn, i)[1])  OBVIOUS
  <2> PICK l : l = RowParam(Row(asn, i)).len  OBVIOUS
  <2>0. RowOf(Row(asn, i), asn)  BY Zenon, RowsAre
  <2>1. n \in Nat /\ m = SizeCap + n  BY Zenon, <2>0 DEF RowOf
  <2>2. l = SizeCap + n  BY Zenon, RowParamIs
  <2> QED  BY <2>1, <2>2 DEF SizeCap, SizeParam
<1>3. W \in [S -> Nat]
  <2>1. ASSUME NEW p \in S PROVE SizeParam + p.len \in Nat
    <3>1. PICK i \in Rows : p = RowParam(Row(asn, i))  BY Zenon DEF ParamsOf
    <3> PICK n : n = SizeOfCap(Row(asn, i)[1])  OBVIOUS
    <3>2. n \in Nat /\ SizeParam + p.len = n + SizeParam  BY Zenon, <1>2, <3>1
    <3> QED  BY <3>2 DEF SizeParam
  <2> HIDE DEF S
  <2> QED  BY <2>1
<1>4. v \in Seq(Nat) /\ Len(v) = 9
  <2>1. \A i \in Rows : size(i) \in Nat
    <3> SUFFICES ASSUME NEW i \in Rows PROVE size(i) \in Nat  OBVIOUS
    <3> PICK n : n = SizeOfCap(Row(0, i)[1])  OBVIOUS
    <3>1. n \in Nat  BY Zenon, <1>0, <1>2
    <3> QED  BY <3>1 DEF SizeParam
  <2> HIDE DEF size
  <2>2. v \in [1..9 -> Nat]  BY <2>1 DEF Rows
  <2>3. v \in Seq(Nat)  BY Zenon, <2>2, FunctionIsSeq, 9 \in Nat
  <2> QED  BY <2>2, <2>3, LenProperties
<1>5. \A i \in 1..9 : Total(WeightsOf(W, seqs[i])) = v[i]
  <2> SUFFICES ASSUME NEW i \in Rows PROVE Total(WeightsOf(W, seqs[i])) = v[i]  BY Zenon DEF Rows
  <2> PICK p : p = RowParam(Row(asn, i))  OBVIOUS
  <2> PICK cap : cap = Row(asn, i)[1]  OBVIOUS
  <2>1. v[i] = IF cap \in caps THEN SizeOfCap(cap) + SizeParam ELSE 0  BY Zenon, <1>0
  <2>2. seqs[i] = IF cap \in caps THEN <<p>> ELSE <<>>  BY Zenon DEF RowParams
  <2>3. p \in S  BY Zenon DEF ParamsOf
  <2> PICK w : w = W[p]  OBVIOUS
  <2>4. w = SizeParam + p.len  BY Zenon, <2>3
  <2>5. w = SizeOfCap(cap) + SizeParam  BY Zenon, <1>2, <2>4
  <2>6. WeightsOf(W, <<p>>) = <<w>> /\ WeightsOf(W, <<>>) = <<>>
    <3> HIDE DEF W
    <3> QED  BY DEF WeightsOf
  <2>7. w \in Nat  BY <1>3, <2>3
  <2>8. Total(<<w>>) = w  BY Zenon, <2>7, TotalOne
  <2> HIDE DEF W, S
  <2> QED  BY Zenon, <2>1, <2>2, <2>5, <2>6, <2>8, TotalNone
<1>6. Total(WeightsOf(W, params)) = Total(v)
  <2> HIDE DEF W, S, size
  <2>1. Len(v) = Len(seqs) /\ \A i \in 1..Len(seqs) : Total(WeightsOf(W, seqs[i])) = v[i]
    BY Zenon, <1>1, <1>4, <1>5
  <2>2. WeightIs(W, seqs, v)  BY Zenon, <1>1, <1>3, <1>4, <2>1, FlattenWeight
  <2> QED  BY Zenon, <1>1, <2>2 DEF WeightIs
<1>7. WeightsOf(W, params) = [i \in DOMAIN params |-> SizeParam + params[i].len]
  <2>1. \A i \in DOMAIN params : params[i] \in S
    <3> HIDE DEF S
    <3> QED  BY <1>1
  <2>2. \A i \in DOMAIN params : W[params[i]] = SizeParam + params[i].len
    <3> HIDE DEF S
    <3> QED  BY <2>1
  <2> HIDE DEF W, S
  <2> QED  BY Zenon, <2>2 DEF WeightsOf
<1>8. ParamLength(caps) = Total(v)
  <2>1. DOMAIN CapTable(0) = Rows  BY Zenon, RowsAre
  <2> QED  BY Zenon, <2>1 DEF ParamLength, Row
<1>9. Total(v) \in Nat  BY Zenon, <1>4, TotalIs
<1> QED  BY Zenon, <1>6, <1>7, <1>8, <1>9

-----------------------------------------------------------------------------
(* And how it is read                                                      *)

(* The capability at a place of the OPEN is that of a row.                 *)
PlacesFor(params, caps, asn) ==
  /\ \A p : p \in Places(params) <=> \E k \in DOMAIN params : p = <<k, 1>>
  /\ \A p \in Places(params) :
       \E i \in Rows : Row(asn, i)[1] \in caps /\ ItemAt(params, p) = Row(asn, i)[2]
  /\ \A i \in Rows : Row(asn, i)[1] \in caps =>
       \E p \in Places(params) : ItemAt(params, p) = Row(asn, i)[2]

LEMMA PlacesWritten ==
  ASSUME NEW params, NEW caps, NEW asn, WrittenFor(params, caps, asn)
  PROVE  PlacesFor(params, caps, asn)
<1>1. ASSUME NEW k \in DOMAIN params, NEW i \in Rows, params[k] = RowParam(Row(asn, i))
      PROVE  /\ DOMAIN Items(params[k]) = {1}
             /\ ItemAt(params, <<k, 1>>) = Row(asn, i)[2]
  <2> PICK c : c = Row(asn, i)[2]  OBVIOUS
  <2>1. params[k].type = "CAP" /\ params[k].caps = <<c>>  BY Zenon, <1>1, RowParamIs
  <2>2. Items(params[k]) = <<c>>  BY <2>1 DEF Items
  <2>3. DOMAIN <<c>> = {1} /\ <<c>>[1] = c  OBVIOUS
  <2>4. <<k, 1>>[1] = k /\ <<k, 1>>[2] = 1  OBVIOUS
  <2> QED  BY Zenon, <2>2, <2>3, <2>4 DEF ItemAt
<1>2. /\ \A k \in DOMAIN params :
           \E i \in Rows : Row(asn, i)[1] \in caps /\ params[k] = RowParam(Row(asn, i))
      /\ \A i \in Rows : Row(asn, i)[1] \in caps =>
           \E k \in DOMAIN params : params[k] = RowParam(Row(asn, i))
  BY Zenon DEF WrittenFor
<1>3. \A k \in DOMAIN params : DOMAIN Items(params[k]) = {1}  BY Zenon, <1>1, <1>2
<1>4. \A p : p \in Places(params) <=> \E k \in DOMAIN params : p = <<k, 1>>
  <2>1. ASSUME NEW k \in DOMAIN params, NEW p
        PROVE  p \in {k} \X DOMAIN Items(params[k]) <=> p = <<k, 1>>
    <3>1. p \in {k} \X {1} <=> p = <<k, 1>>  OBVIOUS
    <3> QED  BY Zenon, <1>3, <3>1
  <2>2. \A p : p \in Places(params) <=> \E k \in DOMAIN params : p \in {k} \X DOMAIN Items(params[k])
    BY Zenon DEF Places
  <2> QED  BY Zenon, <2>1, <2>2
<1>5. ASSUME NEW p \in Places(params)
      PROVE  \E i \in Rows : Row(asn, i)[1] \in caps /\ ItemAt(params, p) = Row(asn, i)[2]
  <2>1. PICK k \in DOMAIN params : p = <<k, 1>>  BY Zenon, <1>4
  <2>2. PICK i \in Rows : Row(asn, i)[1] \in caps /\ params[k] = RowParam(Row(asn, i))
    BY Zenon, <1>2
  <2>3. ItemAt(params, <<k, 1>>) = Row(asn, i)[2]  BY Zenon, <1>1, <2>2
  <2> QED  BY Zenon, <2>1, <2>2, <2>3
<1>6. ASSUME NEW i \in Rows, Row(asn, i)[1] \in caps
      PROVE  \E p \in Places(params) : ItemAt(params, p) = Row(asn, i)[2]
  <2>1. PICK k \in DOMAIN params : params[k] = RowParam(Row(asn, i))  BY Zenon, <1>2, <1>6
  <2>2. ItemAt(params, <<k, 1>>) = Row(asn, i)[2]  BY Zenon, <1>1, <2>1
  <2>3. <<k, 1>> \in Places(params)  BY Zenon, <1>4
  <2> QED  BY Zenon, <2>2, <2>3
<1> QED  BY Zenon, <1>4, <1>5, <1>6 DEF PlacesFor

(* What another instance reads.                                            *)
ReadsBack(o, asn, caps) ==
  /\ ReadOpen(o).stopped = ""
  /\ ReadOpen(o).peerCap = caps \cap Announced
  /\ "asn_4byte" \in caps \/ asn < TwoBytes => ReadOpen(o).peerASN = asn

LEMMA OpenRead ==
  ASSUME NEW asn, NEW time, NEW caps
  PROVE  ReadsBack(createOpenMessage(asn, time, caps), asn, caps)
<1> PICK o : o = createOpenMessage(asn, time, caps)  OBVIOUS
<1> DEFINE params == o.params
<1>1. /\ o.params = OptParams(caps, asn) /\ o.my_as = (IF asn < TwoBytes THEN asn ELSE AsTrans)
      /\ o.type = "OPEN"
  BY DEF createOpenMessage
<1> DEFINE places == Places(params)
           at(p) == ItemAt(params, p)
           bad == {p \in places : Refused(at(p)) \/ FollowsNull(params, p)}
           read == {p \in places : \A q \in bad : Before(p, q)}
           as4 == {p \in read : at(p).code = "AS4"}
           last == CHOOSE p \in as4 : \A q \in as4 \ {p} : Before(q, p)
<1>2. /\ \A p : p \in places <=> \E k \in DOMAIN params : p = <<k, 1>>
      /\ \A p \in places : \E i \in Rows : Row(asn, i)[1] \in caps /\ at(p) = Row(asn, i)[2]
      /\ \A i \in Rows : Row(asn, i)[1] \in caps => \E p \in places : at(p) = Row(asn, i)[2]
  <2>1. PlacesFor(o.params, caps, asn)  BY Zenon, <1>1, ParamsWritten, PlacesWritten
  <2> QED  BY Zenon, <2>1 DEF PlacesFor
<1>3. \A i \in Rows : RowOf(Row(asn, i), asn)  BY Zenon, RowsAre
<1>12. /\ ReadOpen(o).stopped = (IF bad = {} THEN "" ELSE ReadOpen(o).stopped)
      /\ ReadOpen(o).peerCap = UNION {CapFields(at(p)) : p \in read}
      /\ ReadOpen(o).peerASN = IF as4 = {} THEN o.my_as ELSE at(last).myAS
  <2>1. ReadOpen(o).peerCap = UNION {CapFields(at(p)) : p \in read}
    BY Zenon DEF ReadOpen
  <2>2. ReadOpen(o).peerASN = IF as4 = {} THEN o.my_as ELSE at(last).myAS
    BY Zenon DEF ReadOpen
  <2>3. ReadOpen(o).stopped = (IF bad = {} THEN "" ELSE ReadOpen(o).stopped)
    BY Zenon DEF ReadOpen
  <2> QED  BY Zenon, <2>1, <2>2, <2>3
<1>4. bad = {}
  <2>1. \A p \in places : /\ ~Refused(at(p))
                          /\ at(p).code = "BGPSEC" => at(p).afi \in DOMAIN MpnlriField
    <3> HIDE DEF places, at
    <3> QED  BY Zenon, <1>2, <1>3 DEF RowOf
  <2>2. \A p \in places : ~FollowsNull(params, p)
    BY Zenon, <2>1 DEF FollowsNull
  <2> QED  BY Zenon, <2>1, <2>2
<1>5. read = places  BY Zenon, <1>4
<1> HIDE DEF last, read, bad, places, at, params
<1>6. ReadOpen(o).peerCap = caps \cap Announced
  <2>1. \A f : f \in ReadOpen(o).peerCap <=> \E p \in places : f \in CapFields(at(p))
    BY Zenon, <1>12, <1>5
  <2>2. ASSUME NEW p \in places, NEW f \in CapFields(at(p)) PROVE f \in caps \cap Announced
    <3>1. PICK i \in Rows : Row(asn, i)[1] \in caps /\ at(p) = Row(asn, i)[2]  BY Zenon, <1>2
    <3>2. CapFields(at(p)) = {Row(asn, i)[1]} /\ Row(asn, i)[1] \in Announced
      BY Zenon, <1>3, <3>1 DEF RowOf
    <3> QED  BY Zenon, <3>1, <3>2
  <2>3. ASSUME NEW f \in caps \cap Announced PROVE \E p \in places : f \in CapFields(at(p))
    <3>1. PICK i \in Rows : Row(asn, i)[1] = f  BY Zenon, RowsAre
    <3>2. PICK p \in places : at(p) = Row(asn, i)[2]  BY Zenon, <1>2, <3>1
    <3>3. CapFields(at(p)) = {f}  BY Zenon, <1>3, <3>1, <3>2 DEF RowOf
    <3> QED  BY Zenon, <3>3
  <2>4. \A f : f \in ReadOpen(o).peerCap <=> f \in caps \cap Announced  BY Zenon, <2>1, <2>2, <2>3
  <2>5. \A x : x \in caps \cap Announced => x \in ReadOpen(o).peerCap  BY Zenon, <2>4
  <2> QED  BY Zenon, <2>4
<1>7. \A p \in as4 : at(p).myAS = asn /\ "asn_4byte" \in caps
  <2> SUFFICES ASSUME NEW p \in as4 PROVE at(p).myAS = asn /\ "asn_4byte" \in caps  OBVIOUS
  <2>1. p \in places /\ at(p).code = "AS4"  BY <1>5
  <2>2. PICK i \in Rows : Row(asn, i)[1] \in caps /\ at(p) = Row(asn, i)[2]  BY Zenon, <1>2, <2>1
  <2> QED  BY Zenon, <1>3, <2>1, <2>2 DEF RowOf
<1>8. "asn_4byte" \in caps => as4 # {}
  <2> SUFFICES ASSUME "asn_4byte" \in caps PROVE \E p \in places : at(p).code = "AS4"
    BY <1>5
  <2>1. "asn_4byte" \in Announced  BY DEF Announced
  <2>2. PICK i \in Rows : Row(asn, i)[1] = "asn_4byte"  BY Zenon, <2>1, RowsAre
  <2>3. PICK p \in places : at(p) = Row(asn, i)[2]  BY Zenon, <1>2, <2>2
  <2> QED  BY Zenon, <1>3, <2>2, <2>3 DEF RowOf
<1>9. as4 # {} => last \in as4
  <2> SUFFICES ASSUME as4 # {} PROVE last \in as4  OBVIOUS
  <2>0. \E n \in Nat : DOMAIN params = 1..n
    <3>1. params \in Seq(ParamsOf(asn))  BY Zenon, <1>1, RowParamsTyped DEF params
    <3>2. Len(params) \in Nat /\ DOMAIN params = 1..Len(params)  BY Zenon, <3>1, LenProperties
    <3> QED  BY Zenon, <3>2
  <2>1. PICK n \in Nat : DOMAIN params = 1..n  BY Zenon, <2>0
  <2>2. \A p \in as4 : \E k \in 1..n : p = <<k, 1>>  BY Zenon, <1>2, <1>5, <2>1
  <2> HIDE DEF as4
  <2> DEFINE K == {n - k : k \in {l \in 1..n : <<l, 1>> \in as4}}
  <2>3. K \in SUBSET Nat
    <3> SUFFICES ASSUME NEW e \in K PROVE e \in Nat  OBVIOUS
    <3>1. PICK k \in 1..n : e = n - k  OBVIOUS
    <3> QED  BY <3>1
  <2>4. K # {}
    <3>1. PICK p \in as4 : TRUE  OBVIOUS
    <3>2. PICK k \in 1..n : p = <<k, 1>>  BY Zenon, <2>2
    <3>3. n - k \in K  BY <3>1, <3>2
    <3> QED  BY <3>3
  <2>5. PICK d \in K : \A e \in K : d <= e
    <3> HIDE DEF K
    <3> QED  BY Zenon, <2>3, <2>4, LeastOf
  <2>6. PICK k \in 1..n : <<k, 1>> \in as4 /\ d = n - k  BY <2>5
  <2>7. \A l \in 1..n : <<l, 1>> \in as4 => l <= k
    <3> SUFFICES ASSUME NEW l \in 1..n, <<l, 1>> \in as4 PROVE l <= k  OBVIOUS
    <3>1. d <= n - l  BY <2>5
    <3> QED  BY <2>6, <3>1
  <2>8. \A q \in as4 \ {<<k, 1>>} : Before(q, <<k, 1>>)
    <3> SUFFICES ASSUME NEW q \in as4, q # <<k, 1>> PROVE Before(q, <<k, 1>>)  OBVIOUS
    <3>1. PICK l \in 1..n : q = <<l, 1>>  BY Zenon, <2>2
    <3>2. l <= k /\ l # k  BY Zenon, <2>7, <3>1
    <3>3. <<l, 1>>[1] = l /\ <<k, 1>>[1] = k /\ l < k  BY <3>2
    <3> QED  BY Zenon, <3>1, <3>3 DEF Before
  <2>9. \E p \in as4 : \A q \in as4 \ {p} : Before(q, p)  BY Zenon, <2>6, <2>8
  <2> QED  BY Zenon, <2>9 DEF last
<1>10. "asn_4byte" \in caps \/ asn < TwoBytes => ReadOpen(o).peerASN = asn
  <2>1. CASE as4 = {}
    <3>1. ReadOpen(o).peerASN = o.my_as /\ "asn_4byte" \notin caps  BY Zenon, <1>12, <1>8, <2>1
    <3> QED  BY Zenon, <1>1, <3>1
  <2>2. CASE as4 # {}
    <3>1. ReadOpen(o).peerASN = at(last).myAS  BY Zenon, <1>12, <2>2
    <3> QED  BY Zenon, <1>7, <1>9, <2>2, <3>1
  <2> QED  BY Zenon, <2>1, <2>2
<1>11. ReadOpen(o).stopped = ""  BY Zenon, <1>12, <1>4
<1> QED  BY Zenon, <1>6, <1>10, <1>11 DEF ReadsBack

-----------------------------------------------------------------------------
(* And how it is printed                                                   *)

LEMMA RowsShown ==
  \A i \in Rows : printCapability(Row(conf.asn, i)[2]) = ShownAs(Row(conf.asn, i)[1])
<1>1. \A i \in Rows : i \in {1, 2, 3, 4, 5, 6, 7, 8, 9}  BY DEF Rows
<1> DEFINE Fine(i) == printCapability(Row(conf.asn, i)[2]) = ShownAs(Row(conf.asn, i)[1])
<1> USE DEF printCapability, ShownAs, MpnlriPrinted, BgpsecCapPrinted, AfiPrinted, MpnlriField,
            Cap, CapMpnlri, CapAs4, CapBgpsec, CapLength, Row, CapTable
<1>2. Fine(1)  OBVIOUS
<1>3. Fine(2)  OBVIOUS
<1>4. Fine(3)  OBVIOUS
<1>5. Fine(4)  OBVIOUS
<1>6. Fine(5)  OBVIOUS
<1>7. Fine(6)  OBVIOUS
<1>8. Fine(7)  OBVIOUS
<1>9. Fine(8)  OBVIOUS
<1>10. Fine(9)  OBVIOUS
<1> HIDE DEF Fine
<1>11. \A i \in Rows : Fine(i)
  BY Zenon, <1>1, <1>2, <1>3, <1>4, <1>5, <1>6, <1>7, <1>8, <1>9, <1>10
<1> HIDE DEF printCapability, ShownAs, Row
<1> QED  BY Zenon, <1>11 DEF Fine

LEMMA RowParamPrinted ==
  ASSUME NEW asn, NEW i \in Rows
  PROVE  OptionalParameterPrinted(RowParam(Row(asn, i))) = <<printCapability(Row(asn, i)[2])>>
<1> PICK c : c = Row(asn, i)[2]  OBVIOUS
<1> PICK param : param = RowParam(Row(asn, i))  OBVIOUS
<1>1. param.type = "CAP" /\ param.caps = <<c>> /\ param.len = SizeCap + c.length
  BY Zenon, RowParamIs
<1>2. SizeCap + c.length \in Nat
  <2>1. c.length \in Nat
    <3>1. RowOf(Row(asn, i), asn)  BY Zenon, RowsAre
    <3> QED  BY Zenon, <3>1 DEF RowOf
  <2> QED  BY <2>1 DEF SizeCap
<1> PICK n : n = SizeCap + c.length  OBVIOUS
<1>3. [j \in DOMAIN <<c>> |-> SizeCap + <<c>>[j].length] = <<n>>  OBVIOUS
<1>4. SizeOfCaps(<<c>>) = n
  <2>1. Total(<<n>>) = n  BY Zenon, <1>2, TotalOne
  <2> QED  BY Zenon, <1>3, <2>1 DEF SizeOfCaps
<1>5. CapsPrinted(<<c>>) = <<printCapability(c)>>
  <2>1. [j \in DOMAIN <<c>> |-> printCapability(<<c>>[j])] = <<printCapability(c)>>  OBVIOUS
  <2> QED  BY Zenon, <2>1 DEF CapsPrinted
<1> QED  BY Zenon, <1>1, <1>4, <1>5 DEF OptionalParameterPrinted

(* All that the printer shows of the OPEN, by its lengths.                 *)
ShownFor(shown, caps, asn) ==
  \A x : Within(shown, x)
         <=> \E i \in Rows : Row(asn, i)[1] \in caps /\ x = printCapability(Row(asn, i)[2])

LEMMA OpenPrinted ==
  ASSUME NEW asn, NEW time, NEW caps
  PROVE  ShownFor(printOpenData(createOpenMessage(asn, time, caps)), caps, asn)
<1> PICK o : o = createOpenMessage(asn, time, caps)  OBVIOUS
<1> PICK params : params = OptParams(caps, asn)  OBVIOUS
<1> PICK len : len = ParamLength(caps)  OBVIOUS
<1> PICK bytes : bytes = Total([i \in DOMAIN params |-> SizeParam + params[i].len])  OBVIOUS
<1> DEFINE parts == [i \in DOMAIN params |-> OptionalParameterPrinted(params[i])]
           S == {printCapability(Row(asn, i)[2]) : i \in Rows}
<1>1. o.params = params /\ o.length = SizeOpen + len /\ o.opt_param_len = len
  BY DEF createOpenMessage
<1>2. len \in Nat /\ bytes = len  BY Zenon, LengthCounted
<1>3. o.length - SizeOpen = len
  <2>1. SizeOpen \in Nat  BY DEF SizeOpen
  <2> QED  BY <1>1, <1>2, <2>1
<1>4. printOpenData(o) = FlattenSeq(parts)
  <2>1. bytes = Total([i \in DOMAIN o.params |-> SizeParam + o.params[i].len])  BY Zenon, <1>1
  <2>2. parts = [i \in DOMAIN o.params |-> OptionalParameterPrinted(o.params[i])]  BY Zenon, <1>1
  <2> HIDE DEF parts
  <2> QED  BY Zenon, <1>1, <1>2, <1>3, <2>1, <2>2 DEF printOpenData
<1>5. WrittenFor(params, caps, asn)  BY Zenon, ParamsWritten
<1>6. \A k \in DOMAIN params : \E i \in Rows :
        Row(asn, i)[1] \in caps /\ parts[k] = <<printCapability(Row(asn, i)[2])>>
  <2> SUFFICES ASSUME NEW k \in DOMAIN params
               PROVE  \E i \in Rows : Row(asn, i)[1] \in caps
                                      /\ parts[k] = <<printCapability(Row(asn, i)[2])>>
    OBVIOUS
  <2>1. PICK i \in Rows : Row(asn, i)[1] \in caps /\ params[k] = RowParam(Row(asn, i))
    BY Zenon, <1>5 DEF WrittenFor
  <2>2. OptionalParameterPrinted(RowParam(Row(asn, i))) = <<printCapability(Row(asn, i)[2])>>
    BY Zenon, RowParamPrinted
  <2> QED  BY Zenon, <2>1, <2>2
<1>7. \A i \in Rows : Row(asn, i)[1] \in caps =>
        \E k \in DOMAIN params : parts[k] = <<printCapability(Row(asn, i)[2])>>
  <2> SUFFICES ASSUME NEW i \in Rows, Row(asn, i)[1] \in caps
               PROVE  \E k \in DOMAIN params : parts[k] = <<printCapability(Row(asn, i)[2])>>
    OBVIOUS
  <2>1. PICK k \in DOMAIN params : params[k] = RowParam(Row(asn, i))
    BY Zenon, <1>5 DEF WrittenFor
  <2>2. OptionalParameterPrinted(RowParam(Row(asn, i))) = <<printCapability(Row(asn, i)[2])>>
    BY Zenon, RowParamPrinted
  <2> QED  BY Zenon, <2>1, <2>2
<1>8. parts \in Seq(Seq(S)) /\ DOMAIN parts = DOMAIN params
  <2>1. ASSUME NEW k \in DOMAIN params PROVE parts[k] \in Seq(S)
    <3>1. PICK i \in Rows : parts[k] = <<printCapability(Row(asn, i)[2])>>  BY Zenon, <1>6
    <3> PICK y : y = printCapability(Row(asn, i)[2])  OBVIOUS
    <3>2. y \in S  BY Zenon
    <3> HIDE DEF S, parts
    <3>3. <<y>> \in Seq(S)  BY <3>2
    <3> QED  BY Zenon, <3>1, <3>3
  <2>2. PICK n \in Nat : DOMAIN params = 1..n
    <3>1. params \in Seq(ParamsOf(asn))  BY Zenon, RowParamsTyped
    <3>2. Len(params) \in Nat /\ DOMAIN params = 1..Len(params)  BY Zenon, <3>1, LenProperties
    <3> QED  BY Zenon, <3>2
  <2>3. DOMAIN parts = 1..n /\ parts = [k \in 1..n |-> parts[k]]  BY Zenon, <2>2
  <2> HIDE DEF S, parts
  <2>4. parts \in [1..n -> Seq(S)]  BY <2>1, <2>2, <2>3
  <2> QED  BY Zenon, <2>2, <2>3, <2>4, FunctionIsSeq
<1> HIDE DEF parts, S
<1>9. \A x : Within(FlattenSeq(parts), x) <=> \E k \in DOMAIN parts : Within(parts[k], x)
  BY Zenon, <1>8, FlattenElements
<1>10. \A y, x : Within(<<y>>, x) <=> x = y
  <2> SUFFICES ASSUME NEW y, NEW x PROVE Within(<<y>>, x) <=> x = y  OBVIOUS
  <2> QED  BY DEF Within
<1>11. ASSUME NEW x
       PROVE  (\E k \in DOMAIN parts : Within(parts[k], x))
              <=> \E i \in Rows : Row(asn, i)[1] \in caps /\ x = printCapability(Row(asn, i)[2])
  <2>1. ASSUME NEW k \in DOMAIN parts, Within(parts[k], x)
        PROVE  \E i \in Rows : Row(asn, i)[1] \in caps /\ x = printCapability(Row(asn, i)[2])
    <3>1. PICK i \in Rows :
            Row(asn, i)[1] \in caps /\ parts[k] = <<printCapability(Row(asn, i)[2])>>
      BY Zenon, <1>6, <1>8
    <3> PICK y : y = printCapability(Row(asn, i)[2])  OBVIOUS
    <3>2. Within(<<y>>, x)  BY Zenon, <2>1, <3>1
    <3>3. x = y  BY Zenon, <1>10, <3>2
    <3> QED  BY Zenon, <3>1, <3>3
  <2>2. ASSUME NEW i \in Rows, Row(asn, i)[1] \in caps, x = printCapability(Row(asn, i)[2])
        PROVE  \E k \in DOMAIN parts : Within(parts[k], x)
    <3>1. PICK k \in DOMAIN params : parts[k] = <<printCapability(Row(asn, i)[2])>>
      BY Zenon, <1>7, <2>2
    <3> QED  BY Zenon, <1>8, <1>10, <2>2, <3>1
  <2> QED  BY Zenon, <2>1, <2>2
<1>12. \A x : Within(printOpenData(o), x)
              <=> \E i \in Rows : Row(asn, i)[1] \in caps /\ x = printCapability(Row(asn, i)[2])
  BY Zenon, <1>4, <1>9, <1>11
<1> QED  BY Zenon, <1>12 DEF ShownFor

-----------------------------------------------------------------------------
(* The NOTIFICATION about missing capabilities                             *)

(* What a capability says of an AFI that the program knows.                *)
LEMMA AfisTell ==
  ASSUME NEW cap, cap.code = "BGPSEC" => cap.dir \in DOMAIN BgpsecField,
         NEW afi \in DOMAIN MpnlriField
  PROVE  /\ MpnlriField[afi] \in CapFields(cap) <=> cap.code = "MPNLRI" /\ cap.afi = afi
         /\ (\E dir \in {"SND", "RCV"} : BgpsecField[dir][afi] \in CapFields(cap))
            <=> cap.code = "BGPSEC" /\ cap.afi = afi
<1>1. DOMAIN MpnlriField = {"v4", "v6"} /\ DOMAIN BgpsecField = {"SND", "RCV"}
  BY DEF MpnlriField, BgpsecField
<1>2. CASE cap.code = "MPNLRI" /\ cap.afi \in DOMAIN MpnlriField
  BY <1>1, <1>2 DEF CapFields, MpnlriField, BgpsecField
<1>3. CASE cap.code = "AS4"
  BY <1>1, <1>3 DEF CapFields, MpnlriField, BgpsecField
<1>4. CASE cap.code = "BGPSEC" /\ cap.afi \in DOMAIN MpnlriField
  BY <1>1, <1>4 DEF CapFields, MpnlriField, BgpsecField
<1>5. CASE cap.code \in {"RREFRESH", "RREFRESH_PRIV"}
  BY <1>1, <1>5 DEF CapFields, MpnlriField, BgpsecField
<1>6. CASE cap.code = "EXT_MSG_SUPPORT"
  BY <1>1, <1>6 DEF CapFields, MpnlriField, BgpsecField
<1>7. CASE /\ ~(cap.code = "MPNLRI" /\ cap.afi \in DOMAIN MpnlriField)
           /\ ~(cap.code = "BGPSEC" /\ cap.afi \in DOMAIN MpnlriField)
           /\ cap.code \notin {"AS4", "RREFRESH", "RREFRESH_PRIV", "EXT_MSG_SUPPORT"}
  <2>1. CapFields(cap) = {}  BY <1>7 DEF CapFields
  <2> QED  BY <2>1, <1>1, <1>7
<1> QED  BY <1>2, <1>3, <1>4, <1>5, <1>6, <1>7

(* The AFIs of the capabilities with a code.                               *)
AfisOf(m, code) == {c.afi : c \in {d \in CapsOf(m) : d.code = code}}
Lacking(m) == (AfisOf(m, "BGPSEC") \ AfisOf(m, "MPNLRI")) \cap DOMAIN MpnlriField

LEMMA LackingIs ==
  ASSUME NEW m \in PeerOpens, ReadOpen(m).stopped = ""
  PROVE  WithoutMpnlri(ReadOpen(m).peerCap) = Lacking(m)
<1> PICK caps : caps = ReadOpen(m).peerCap  OBVIOUS
<1>1. m # NoMessage /\ \A c \in CapsOf(m) : c.code = "BGPSEC" => c.dir \in DOMAIN BgpsecField
  BY Zenon, PeerOpensTyped
<1>2. \A f : f \in caps <=> \E c \in CapsOf(m) : f \in CapFields(c)  BY Zenon, <1>1, AllRead
<1>3. DOMAIN MpnlriField = {"v4", "v6"}  BY DEF MpnlriField
<1>4. ASSUME NEW afi \in DOMAIN MpnlriField
      PROVE  afi \in WithoutMpnlri(caps) <=> afi \in Lacking(m)
  <2>1. \A c \in CapsOf(m) :
          /\ MpnlriField[afi] \in CapFields(c) <=> c.code = "MPNLRI" /\ c.afi = afi
          /\ (\E dir \in {"SND", "RCV"} : BgpsecField[dir][afi] \in CapFields(c))
             <=> c.code = "BGPSEC" /\ c.afi = afi
    BY <1>1, AfisTell
  <2>2. MpnlriField[afi] \in caps <=> \E c \in CapsOf(m) : c.code = "MPNLRI" /\ c.afi = afi
    BY Zenon, <1>2, <2>1
  <2>3. (\E dir \in {"SND", "RCV"} : BgpsecField[dir][afi] \in caps)
        <=> \E c \in CapsOf(m) : c.code = "BGPSEC" /\ c.afi = afi
    BY Zenon, <1>2, <2>1
  <2>4. \A code : afi \in AfisOf(m, code) <=> \E c \in CapsOf(m) : c.code = code /\ c.afi = afi
    BY Zenon DEF AfisOf
  <2>5. afi \in WithoutMpnlri(caps)
        <=> /\ MpnlriField[afi] \notin caps
            /\ \E dir \in {"SND", "RCV"} : BgpsecField[dir][afi] \in caps
    BY Zenon, <1>3 DEF WithoutMpnlri
  <2> QED  BY Zenon, <2>2, <2>3, <2>4, <2>5 DEF Lacking
<1>5. WithoutMpnlri(caps) \subseteq DOMAIN MpnlriField  BY Zenon, <1>3 DEF WithoutMpnlri
<1>6. Lacking(m) \subseteq DOMAIN MpnlriField  BY Zenon DEF Lacking
<1> QED  BY Zenon, <1>4, <1>5, <1>6

(* The capabilities that are missing, by their AFIs, and how they are      *)
(* printed.                                                                *)
LEMMA MissingAre ==
  ASSUME NEW caps
  PROVE  /\ \A x : Within(CapsPrinted(MissingCaps(caps)), x)
                   <=> \E afi \in WithoutMpnlri(caps) : x = [code |-> "MPNLRI", afi |-> afi]
         /\ SizeOfCaps(MissingCaps(caps)) \in Nat
<1> PICK data : data = MissingCaps(caps)  OBVIOUS
<1> DEFINE v4 == "v4" \in WithoutMpnlri(caps)
           v6 == "v6" \in WithoutMpnlri(caps)
           one == CapMpnlri("v4")
           two == CapMpnlri("v6")
<1>1. \A afi \in WithoutMpnlri(caps) : afi \in {"v4", "v6"}  BY DEF WithoutMpnlri
<1>2. data = (IF v4 THEN <<one>> ELSE <<>>) \o (IF v6 THEN <<two>> ELSE <<>>)
  BY Zenon DEF MissingCaps
<1>3. /\ printCapability(one) = [code |-> "MPNLRI", afi |-> "v4"]
      /\ printCapability(two) = [code |-> "MPNLRI", afi |-> "v6"]
      /\ SizeCap + one.length = 6 /\ SizeCap + two.length = 6
  BY DEF printCapability, MpnlriPrinted, AfiPrinted, MpnlriField, CapMpnlri, CapLength, SizeCap
<1> HIDE DEF one, two, v4, v6
<1>4. \/ ~v4 /\ ~v6 /\ data = <<>>
      \/ v4 /\ ~v6 /\ data = <<one>>
      \/ ~v4 /\ v6 /\ data = <<two>>
      \/ v4 /\ v6 /\ data = <<one, two>>
  <2>1. /\ <<>> \o <<>> = <<>> /\ <<>> \o <<two>> = <<two>>
        /\ <<one>> \o <<>> = <<one>> /\ <<one>> \o <<two>> = <<one, two>>
    <3>1. <<>> \in Seq({one, two}) /\ <<one>> \in Seq({one, two}) /\ <<two>> \in Seq({one, two})
      OBVIOUS
    <3>2. \A s \in Seq({one, two}) : s \o <<>> = s /\ <<>> \o s = s  BY Zenon, ConcatEmptySeq
    <3>3. <<one>> \o <<two>> = <<one, two>>
      <4> PICK both : both = <<one>> \o <<two>>  OBVIOUS
      <4>1. both \in Seq({one, two}) /\ Len(both) = 2 /\ both[1] = one /\ both[2] = two
        BY <3>1, ConcatProperties
      <4>2. <<one, two>> \in Seq({one, two}) /\ Len(<<one, two>>) = 2
        OBVIOUS
      <4>3. \A i \in 1..2 : both[i] = <<one, two>>[i]
        <5>1. \A i \in 1..2 : i = 1 \/ i = 2  OBVIOUS
        <5>2. <<one, two>>[1] = one /\ <<one, two>>[2] = two  OBVIOUS
        <5> QED  BY Zenon, <4>1, <5>1, <5>2
      <4> QED  BY <4>1, <4>2, <4>3, SameSequence
    <3> QED  BY Zenon, <3>1, <3>2, <3>3
  <2>2. ~v4 /\ ~v6 => data = <<>> \o <<>>  BY Zenon, <1>2
  <2>3. v4 /\ ~v6 => data = <<one>> \o <<>>  BY Zenon, <1>2
  <2>4. ~v4 /\ v6 => data = <<>> \o <<two>>  BY Zenon, <1>2
  <2>5. v4 /\ v6 => data = <<one>> \o <<two>>  BY Zenon, <1>2
  <2> QED  BY Zenon, <2>1, <2>2, <2>3, <2>4, <2>5
<1>5. \E n \in Nat : data \in [1..n -> {one, two}]
  <2>1. CASE data = <<>>
    <3>1. data \in [1..0 -> {one, two}]  BY <2>1
    <3> QED  BY <3>1
  <2>2. CASE data = <<one>>
    <3>1. data \in [1..1 -> {one, two}]  BY <2>2
    <3> QED  BY <3>1
  <2>3. CASE data = <<two>>
    <3>1. data \in [1..1 -> {one, two}]  BY <2>3
    <3> QED  BY <3>1
  <2>4. CASE data = <<one, two>>
    <3>1. data \in [1..2 -> {one, two}]  BY <2>4
    <3> QED  BY <3>1
  <2> QED  BY Zenon, <1>4, <2>1, <2>2, <2>3, <2>4
<1>6. SizeOfCaps(data) \in Nat
  <2>1. PICK n \in Nat : data \in [1..n -> {one, two}]  BY Zenon, <1>5
  <2> PICK sizes : sizes = [i \in DOMAIN data |-> SizeCap + data[i].length]  OBVIOUS
  <2>2. sizes \in [1..n -> Nat]
    <3>1. \A i \in 1..n : data[i] = one \/ data[i] = two  BY <2>1
    <3>2. \A i \in 1..n : SizeCap + data[i].length = 6  BY Zenon, <1>3, <3>1
    <3> QED  BY <2>1, <3>2
  <2>3. sizes \in Seq(Nat)  BY Zenon, <2>1, <2>2, FunctionIsSeq
  <2>4. Total(sizes) \in Nat  BY Zenon, <2>3, TotalIs
  <2> QED  BY Zenon, <2>4 DEF SizeOfCaps
<1>7. ASSUME NEW x
      PROVE  Within(CapsPrinted(data), x) <=> \E i \in DOMAIN data : x = printCapability(data[i])
  <2>1. CapsPrinted(data) = [i \in DOMAIN data |-> printCapability(data[i])]
    BY Zenon DEF CapsPrinted
  <2> PICK shown : shown = CapsPrinted(data)  OBVIOUS
  <2>2. DOMAIN shown = DOMAIN data /\ \A i \in DOMAIN data : shown[i] = printCapability(data[i])
    BY Zenon, <2>1
  <2> QED  BY Zenon, <2>2 DEF Within
<1>8. ASSUME NEW x
      PROVE  (\E i \in DOMAIN data : x = printCapability(data[i]))
             <=> \/ v4 /\ x = printCapability(one)
                 \/ v6 /\ x = printCapability(two)
  <2>1. DOMAIN <<>> = {} /\ DOMAIN <<one>> = {1} /\ DOMAIN <<two>> = {1} /\ DOMAIN <<one, two>> = {1, 2}
    OBVIOUS
  <2>2. <<one>>[1] = one /\ <<two>>[1] = two /\ <<one, two>>[1] = one /\ <<one, two>>[2] = two
    OBVIOUS
  <2> QED  BY Zenon, <1>4, <2>1, <2>2
<1>9. ASSUME NEW x
      PROVE  (\E afi \in WithoutMpnlri(caps) : x = [code |-> "MPNLRI", afi |-> afi])
             <=> \/ v4 /\ x = [code |-> "MPNLRI", afi |-> "v4"]
                 \/ v6 /\ x = [code |-> "MPNLRI", afi |-> "v6"]
  BY <1>1 DEF v4, v6
<1>10. ASSUME NEW x
       PROVE  Within(CapsPrinted(data), x)
              <=> \E afi \in WithoutMpnlri(caps) : x = [code |-> "MPNLRI", afi |-> afi]
  <2>1. x = printCapability(one) <=> x = [code |-> "MPNLRI", afi |-> "v4"]  BY <1>3
  <2>2. x = printCapability(two) <=> x = [code |-> "MPNLRI", afi |-> "v6"]  BY <1>3
  <2> DEFINE printed == \E i \in DOMAIN data : x = printCapability(data[i])
             lacked  == \E afi \in WithoutMpnlri(caps) : x = [code |-> "MPNLRI", afi |-> afi]
  <2>3. Within(CapsPrinted(data), x) <=> printed  BY <1>7
  <2>4. printed <=> (v4 /\ x = printCapability(one)) \/ (v6 /\ x = printCapability(two))  BY <1>8
  <2>5. lacked <=> \/ v4 /\ x = [code |-> "MPNLRI", afi |-> "v4"]
                   \/ v6 /\ x = [code |-> "MPNLRI", afi |-> "v6"]
    BY <1>9
  <2> HIDE DEF printed, lacked
  <2> SUFFICES Within(CapsPrinted(data), x) <=> lacked  BY DEF lacked
  <2> QED  BY <2>1, <2>2, <2>3, <2>4, <2>5
<1> QED  BY Zenon, <1>6, <1>10
-----------------------------------------------------------------------------
(* What is said                                                            *)

AboutCaps(m) == m.type = "NOTIFICATION" /\ m.sub_code = "UNSUPPORTED_CAPABILITY"
OpenOf(m, c) == \E time : m = createOpenMessage(c.asn, time, c.caps)

(* A NOTIFICATION with the capabilities that an OPEN lacks.                *)
Complains(m, open) ==
  /\ open \in PeerOpens /\ ReadOpen(open).stopped = ""
  /\ m.data = MissingCaps(ReadOpen(open).peerCap)
  /\ m.length = SizeHeader + 2 + SizeOfCaps(m.data)

(* A message and the OPEN that was heard last.                             *)
SaidOf(m, c, open) ==
  /\ m.type = "OPEN" => OpenOf(m, c)
  /\ AboutCaps(m) => Complains(m, open)

(* No other OPEN is said or heard before the connection is given up.       *)
OpenInv == msgBuff.type \in {"none", "UPDATE"} /\ SaidOf(said, conf, heard)

LEMMA OthersSaid ==
  ASSUME NEW m, m.type # "OPEN", ~AboutCaps(m), NEW c, NEW open
  PROVE  SaidOf(m, c, open)
BY Zenon DEF SaidOf

LEMMA NoneSaid == NoMessage.type # "OPEN" /\ ~AboutCaps(NoMessage)
BY DEF NoMessage, AboutCaps

LEMMA RefusalSaid ==
  ASSUME NEW from, NEW error, NEW subcode, NEW dataLength, NEW data,
         Refuse(from, error, subcode, dataLength, data)
  PROVE  /\ said'.type # "OPEN"
         /\ AboutCaps(said') => /\ subcode = "UNSUPPORTED_CAPABILITY"
                                /\ said'.data = data
                                /\ said'.length = SizeHeader + 2 + dataLength
<1> DEFINE n == createNotificationMessage(SESS_MIN_SEND_BUFF, error, subcode, dataLength, data)
           length == SizeHeader + 2 + dataLength
           written == [type |-> "NOTIFICATION", length |-> length, error_code |-> error,
                       sub_code |-> subcode, data |-> data]
<1>1. n = NoMessage \/ n = written  BY Zenon DEF createNotificationMessage
<1>2. said' = n \/ said' = NoMessage  BY Zenon DEF Refuse
<1>3. CASE said' = NoMessage
  BY Zenon, <1>3, NoneSaid
<1>4. CASE said' = written
  <2>1. /\ said'.type = "NOTIFICATION" /\ said'.sub_code = subcode /\ said'.data = data
        /\ said'.length = length
    BY <1>4
  <2> HIDE DEF length
  <2>2. said'.type # "OPEN"  BY <2>1
  <2> QED  BY Zenon, <2>1, <2>2 DEF AboutCaps, length
<1> HIDE DEF n, written
<1> QED  BY Zenon, <1>1, <1>2, <1>3, <1>4

LEMMA OtherRefusalSaid ==
  ASSUME NEW from, NEW error, NEW subcode, subcode # "UNSUPPORTED_CAPABILITY", NEW dataLength,
         NEW data, Refuse(from, error, subcode, dataLength, data), NEW c, NEW open
  PROVE  SaidOf(said', c, open)
<1>1. said'.type # "OPEN" /\ ~AboutCaps(said')  BY Zenon, RefusalSaid
<1> QED  BY Zenon, <1>1, OthersSaid

LEMMA HeaderRefusalSaid ==
  ASSUME NEW m, RefuseHeader(m), NEW c, NEW open
  PROVE  SaidOf(said', c, open)
<1>1. Refuse(state, "MESSAGE_HEADER", HeaderError(m), m.length, <<m.type>>)
  BY Zenon DEF RefuseHeader
<1>2. HeaderError(m) # "UNSUPPORTED_CAPABILITY"  BY DEF HeaderError
<1> QED  BY Zenon, <1>1, <1>2, OtherRefusalSaid

(* An OPEN that is judged.                                                 *)
LEMMA JudgedSaid ==
  ASSUME NEW m \in PeerOpens, Judge(m), NEW c, SaidOf(said, c, m)
  PROVE  SaidOf(said', c, m)
<1> PICK read : read = ReadOpen(m)  OBVIOUS
<1> DEFINE missing == MissingCaps(read.peerCap)
<1>1. \/ Refuse(state, "OPEN_MESSAGE", read.stopped, 0, <<>>)
      \/ Refuse(state, "OPEN_MESSAGE", "BAD_PEERAS", 0, <<>>)
      \/ /\ read.stopped = ""
         /\ Refuse("OpenConfirm", "OPEN_MESSAGE", "UNSUPPORTED_CAPABILITY", SizeOfCaps(missing),
                   missing)
      \/ UNCHANGED said
  BY Zenon DEF Judge
<1>2. CASE Refuse(state, "OPEN_MESSAGE", read.stopped, 0, <<>>)
  <2>1. read.stopped # "UNSUPPORTED_CAPABILITY"  BY DEF ReadOpen
  <2> QED  BY Zenon, <1>2, <2>1, OtherRefusalSaid
<1>3. CASE Refuse(state, "OPEN_MESSAGE", "BAD_PEERAS", 0, <<>>)
  <2>1. "BAD_PEERAS" # "UNSUPPORTED_CAPABILITY"  OBVIOUS
  <2> QED  BY Zenon, <1>3, <2>1, OtherRefusalSaid
<1>4. CASE /\ read.stopped = ""
           /\ Refuse("OpenConfirm", "OPEN_MESSAGE", "UNSUPPORTED_CAPABILITY", SizeOfCaps(missing),
                     missing)
  <2>1. /\ said'.type # "OPEN"
        /\ AboutCaps(said') => /\ said'.data = missing
                               /\ said'.length = SizeHeader + 2 + SizeOfCaps(missing)
    BY Zenon, <1>4, RefusalSaid
  <2>2. AboutCaps(said') => Complains(said', m)  BY Zenon, <1>4, <2>1 DEF Complains
  <2> QED  BY Zenon, <2>1, <2>2 DEF SaidOf
<1>5. CASE UNCHANGED said
  BY Zenon, <1>5
<1> QED  BY Zenon, <1>1, <1>2, <1>3, <1>4, <1>5

LEMMA OpenInvHeard ==
  ASSUME OpenInv, NEW m \in PeerOpens \cup Others, HearInOpenSent(m)
  PROVE  SaidOf(said', conf, heard')
<1>1. said.type = "OPEN" /\ SaidOf(said, conf, heard)  BY Zenon DEF HearInOpenSent, OpenInv
<1>2. SaidOf(said, conf, m)
  <2>1. ~AboutCaps(said)  BY <1>1 DEF AboutCaps
  <2> QED  BY Zenon, <1>1, <2>1 DEF SaidOf
<1>3. CASE RefuseHeader(m)
  BY Zenon, <1>3, HeaderRefusalSaid
<1>4. CASE ReadOpenMessage(m)
  <2>1. m.type = "OPEN"  BY Zenon, <1>4 DEF ReadOpenMessage
  <2>2. m \in PeerOpens /\ heard' = m
    <3>1. m \in Others => m.type # "OPEN"  BY SMT, MessageInputs
    <3> QED  BY Zenon, <2>1, <3>1 DEF HearInOpenSent
  <2>3. \/ Refuse(state, "MESSAGE_HEADER", "BAD_LENGTH", m.length, <<m.type>>)
        \/ Refuse(state, "OPEN_MESSAGE", "VERSION", 0, <<>>)
        \/ Judge(m)
    BY Zenon, <1>4 DEF ReadOpenMessage
  <2>4. "BAD_LENGTH" # "UNSUPPORTED_CAPABILITY" /\ "VERSION" # "UNSUPPORTED_CAPABILITY"  OBVIOUS
  <2>5. SaidOf(said', conf, m)
    BY Zenon, <1>2, <2>2, <2>3, <2>4, OtherRefusalSaid, JudgedSaid
  <2> QED  BY Zenon, <2>2, <2>5
<1>5. CASE ReadNoOpen(m)
  <2>1. said' = NoMessage  BY Zenon, <1>5 DEF ReadNoOpen
  <2> QED  BY Zenon, <2>1, NoneSaid, OthersSaid
<1> QED  BY Zenon, <1>3, <1>4, <1>5 DEF HearInOpenSent

LEMMA OpenInvEstablished ==
  ASSUME OpenInv, NEW m \in PeerOpens \cup Others, HearInEstablished(m)
  PROVE  SaidOf(said', conf, heard)
<1>1. SaidOf(said, conf, heard)  BY DEF OpenInv
<1>2. CASE RefuseHeader(m)
  BY Zenon, <1>2, HeaderRefusalSaid
<1>3. CASE ProcessPacket(m)
  <2>1. \/ Refuse(state, "MESSAGE_HEADER", "BAD_LENGTH", 0, <<>>)
        \/ Refuse(state, "FSM", "UNDEFINED", m.length, <<m.type>>)
        \/ Refuse(state, "MESSAGE_HEADER", "BAD_LENGTH", m.length, <<m.type>>)
        \/ UNCHANGED said
    BY Zenon, <1>3 DEF ProcessPacket
  <2>2. "BAD_LENGTH" # "UNSUPPORTED_CAPABILITY" /\ "UNDEFINED" # "UNSUPPORTED_CAPABILITY"
    OBVIOUS
  <2> QED  BY Zenon, <1>1, <2>1, <2>2, OtherRefusalSaid
<1> QED  BY Zenon, <1>2, <1>3 DEF HearInEstablished

LEMMA UpdateTyped ==
  ASSUME NEW path, NEW pref, NEW nlri, NEW mpnlri, NEW validation
  PROVE  createUpdateMessage(path, pref, nlri, mpnlri, validation).type \in {"none", "UPDATE"}
<1> PICK m : m = createUpdateMessage(path, pref, nlri, mpnlri, validation)  OBVIOUS
<1>1. \/ m = NoMessage
      \/ \E length, pal, attrs, announced :
           m = [type |-> "UPDATE", length |-> length, path_attr_length |-> pal, attrs |-> attrs,
                nlri |-> announced]
  BY Zenon DEF createUpdateMessage
<1> QED  BY <1>1 DEF NoMessage
LEMMA OpenInvInit == Init => OpenInv
<1> SUFFICES ASSUME Init PROVE OpenInv  OBVIOUS
<1>1. said = NoMessage /\ msgBuff = NoMessage  BY DEF Init
<1>2. SaidOf(said, conf, heard)  BY Zenon, <1>1, NoneSaid, OthersSaid
<1>3. msgBuff.type = "none"  BY <1>1 DEF NoMessage
<1> QED  BY <1>2, <1>3 DEF OpenInv

LEMMA OpenInvUpdate ==
  ASSUME OpenInv, SendUpdate
  PROVE  msgBuff'.type \in {"none", "UPDATE"} /\ SaidOf(said', conf, heard)
<1> DEFINE u == Head(left)
<1>1. \/ said' = NoMessage /\ UNCHANGED msgBuff
      \/ \E path, mpnlri :
           /\ msgBuff' = BuiltIn(msgBuff, u, path, mpnlri)
           /\ said' = IF msgBuff' # NoMessage /\ Sendable(msgBuff') THEN msgBuff' ELSE NoMessage
  BY Zenon DEF SendUpdate
<1>2. msgBuff'.type \in {"none", "UPDATE"}
  <2>1. CASE UNCHANGED msgBuff
    BY Zenon, <2>1 DEF OpenInv
  <2>2. ASSUME NEW path, NEW mpnlri, msgBuff' = BuiltIn(msgBuff, u, path, mpnlri)
        PROVE  msgBuff'.type \in {"none", "UPDATE"}
    <3> PICK new : new = createUpdateMessage(path, LocalPref, u.nlri, mpnlri, u.validation)
      OBVIOUS
    <3>1. new.type \in {"none", "UPDATE"}  BY Zenon, UpdateTyped
    <3>2. msgBuff' = msgBuff \/ msgBuff' = new  BY Zenon, <2>2 DEF BuiltIn
    <3> QED  BY Zenon, <3>1, <3>2 DEF OpenInv
  <2> QED  BY Zenon, <1>1, <2>1, <2>2
<1>3. said' = NoMessage \/ said' = msgBuff'  BY Zenon, <1>1
<1>4. NoMessage.type = "none"  BY DEF NoMessage
<1>5. said'.type \in {"none", "UPDATE"}  BY <1>2, <1>3, <1>4
<1>6. said'.type # "OPEN" /\ ~AboutCaps(said')  BY <1>5 DEF AboutCaps
<1> QED  BY Zenon, <1>2, <1>6, OthersSaid

LEMMA OpenInvNext == OpenInv /\ [Next]_vars => OpenInv'
<1> SUFFICES ASSUME OpenInv, [Next]_vars PROVE OpenInv'  OBVIOUS
<1>1. conf' = conf
  BY DEF Next, SendOpen, Confirm, Reconnect, SendUpdate, Hear, HearInOpenSent, HearInEstablished,
         vars
<1>2. CASE SendOpen
  <2>1. /\ said' = createOpenMessage(conf.asn, holdTime, conf.caps)
        /\ heard' = heard /\ msgBuff' = msgBuff
    BY <1>2 DEF SendOpen, trafficVars
  <2>2. said'.type = "OPEN"  BY <2>1 DEF createOpenMessage
  <2>3. ~AboutCaps(said')  BY <2>2 DEF AboutCaps
  <2>4. OpenOf(said', conf)  BY Zenon, <2>1 DEF OpenOf
  <2>5. SaidOf(said', conf, heard)  BY Zenon, <2>3, <2>4 DEF SaidOf
  <2> QED  BY Zenon, <1>1, <2>1, <2>5 DEF OpenInv
<1>3. CASE Confirm
  <2>1. said' = createKeepAliveMessge /\ heard' = heard /\ msgBuff' = msgBuff
    BY <1>3 DEF Confirm, trafficVars
  <2>2. said'.type # "OPEN" /\ ~AboutCaps(said')  BY <2>1 DEF createKeepAliveMessge, AboutCaps
  <2>3. SaidOf(said', conf', heard')  BY Zenon, <2>2, OthersSaid
  <2> QED  BY Zenon, <2>1, <2>3 DEF OpenInv
<1>4. CASE Reconnect
  <2>1. said' = NoMessage /\ msgBuff' = msgBuff  BY <1>4 DEF Reconnect, trafficVars
  <2>2. SaidOf(said', conf', heard')  BY Zenon, <2>1, NoneSaid, OthersSaid
  <2> QED  BY Zenon, <2>1, <2>2 DEF OpenInv
<1>5. CASE SendUpdate
  <2>1. msgBuff'.type \in {"none", "UPDATE"} /\ SaidOf(said', conf, heard)
    BY Zenon, <1>5, OpenInvUpdate
  <2>2. heard' = heard  BY <1>5 DEF SendUpdate
  <2> QED  BY Zenon, <1>1, <2>1, <2>2 DEF OpenInv
<1>6. ASSUME NEW m \in PeerOpens \cup Others, HearInOpenSent(m) PROVE OpenInv'
  <2>1. SaidOf(said', conf, heard')  BY Zenon, <1>6, OpenInvHeard
  <2>2. msgBuff' = msgBuff  BY <1>6 DEF HearInOpenSent, trafficVars
  <2> QED  BY Zenon, <1>1, <2>1, <2>2 DEF OpenInv
<1>7. ASSUME NEW m \in PeerOpens \cup Others, HearInEstablished(m) PROVE OpenInv'
  <2>1. SaidOf(said', conf, heard)  BY Zenon, <1>7, OpenInvEstablished
  <2>2. msgBuff' = msgBuff /\ heard' = heard  BY <1>7 DEF HearInEstablished, trafficVars
  <2> QED  BY Zenon, <1>1, <2>1, <2>2 DEF OpenInv
<1>8. CASE UNCHANGED vars
  <2>1. UNCHANGED <<said, conf, heard, msgBuff>>  BY <1>8 DEF vars
  <2> QED  BY Zenon, <2>1 DEF OpenInv
<1> QED  BY <1>2, <1>3, <1>4, <1>5, <1>6, <1>7, <1>8 DEF Next, Hear

(* What is in the OPEN, as the property says it.                           *)
LEMMA OpenSays ==
  ASSUME said.type = "OPEN", OpenOf(said, conf)
  PROVE  LET shown == printBGP_Message(said, FALSE)
             read  == ReadOpen(said)
         IN /\ {shown[i] : i \in DOMAIN shown} = {ShownAs(cap) : cap \in conf.caps \cap Announced}
            /\ read.peerCap = conf.caps \cap Announced
            /\ read.stopped = ""
            /\ "asn_4byte" \in conf.caps \/ conf.asn < TwoBytes => read.peerASN = conf.asn
<1>1. PICK time : said = createOpenMessage(conf.asn, time, conf.caps)  BY Zenon DEF OpenOf
<1>2. ReadsBack(said, conf.asn, conf.caps)  BY Zenon, <1>1, OpenRead
<1> PICK shown : shown = printOpenData(said)  OBVIOUS
<1>3. printBGP_Message(said, FALSE) = shown  BY Zenon DEF printBGP_Message
<1>4. ShownFor(shown, conf.caps, conf.asn)  BY Zenon, <1>1, OpenPrinted
<1>5. ASSUME NEW x
      PROVE  (\E i \in DOMAIN shown : x = shown[i])
             <=> \E cap \in conf.caps \cap Announced : x = ShownAs(cap)
  <2>1. (\E i \in DOMAIN shown : x = shown[i])
        <=> \E i \in Rows : /\ Row(conf.asn, i)[1] \in conf.caps
                           /\ x = printCapability(Row(conf.asn, i)[2])
    BY Zenon, <1>4 DEF ShownFor, Within
  <2>2. \A i \in Rows : Row(conf.asn, i)[1] \in Announced  BY Zenon, RowsAre DEF RowOf
  <2>3. \A cap \in Announced : \E i \in Rows : Row(conf.asn, i)[1] = cap  BY Zenon, RowsAre
  <2>4. ASSUME NEW i \in DOMAIN shown, x = shown[i]
        PROVE  \E cap \in conf.caps \cap Announced : x = ShownAs(cap)
    <3>1. PICK k \in Rows : /\ Row(conf.asn, k)[1] \in conf.caps
                            /\ x = printCapability(Row(conf.asn, k)[2])
      BY Zenon, <2>1, <2>4
    <3>2. x = ShownAs(Row(conf.asn, k)[1])  BY Zenon, <3>1, RowsShown
    <3> QED  BY Zenon, <2>2, <3>1, <3>2
  <2>5. ASSUME NEW cap \in conf.caps \cap Announced, x = ShownAs(cap)
        PROVE  \E i \in DOMAIN shown : x = shown[i]
    <3>1. PICK k \in Rows : Row(conf.asn, k)[1] = cap  BY Zenon, <2>3
    <3>2. x = printCapability(Row(conf.asn, k)[2])  BY Zenon, <2>5, <3>1, RowsShown
    <3> QED  BY Zenon, <2>1, <3>1, <3>2
  <2> QED  BY Zenon, <2>4, <2>5
<1>6. {shown[i] : i \in DOMAIN shown} = {ShownAs(cap) : cap \in conf.caps \cap Announced}
  BY Zenon, <1>5
<1> QED  BY Zenon, <1>2, <1>3, <1>6 DEF ReadsBack

(* And in the NOTIFICATION.                                                *)
LEMMA NotificationSays ==
  ASSUME AboutCaps(said), Complains(said, heard)
  PROVE  LET shown == printBGP_Message(said, FALSE)
         IN {shown[i] : i \in DOMAIN shown}
            = {[code |-> "MPNLRI", afi |-> afi] : afi \in Lacking(heard)}
<1> PICK caps : caps = ReadOpen(heard).peerCap  OBVIOUS
<1> PICK shown : shown = CapsPrinted(said.data)  OBVIOUS
<1>1. printBGP_Message(said, FALSE) = shown
  <2>1. said.type = "NOTIFICATION" /\ said.sub_code = "UNSUPPORTED_CAPABILITY"
    BY DEF AboutCaps
  <2>2. printBGP_Message(said, FALSE) = printNotificationData(said)
    BY <2>1 DEF printBGP_Message
  <2> PICK size : size = SizeOfCaps(said.data)  OBVIOUS
  <2>3. size \in Nat
    <3>1. SizeOfCaps(MissingCaps(caps)) \in Nat  BY Zenon, MissingAre
    <3> QED  BY Zenon, <3>1 DEF Complains
  <2>4. said.length = SizeHeader + 2 + size  BY Zenon DEF Complains
  <2>5. said.length - SizeHeader - 2 = size  BY <2>3, <2>4 DEF SizeHeader
  <2> QED  BY Zenon, <2>1, <2>2, <2>5 DEF printNotificationData
<1>2. WithoutMpnlri(caps) = Lacking(heard)  BY Zenon, LackingIs DEF Complains
<1>3. \A x : Within(CapsPrinted(MissingCaps(caps)), x)
             <=> \E afi \in WithoutMpnlri(caps) : x = [code |-> "MPNLRI", afi |-> afi]
  BY Zenon, MissingAre
<1>4. shown = CapsPrinted(MissingCaps(caps))  BY Zenon DEF Complains
<1>5. ASSUME NEW x
      PROVE  (\E i \in DOMAIN shown : x = shown[i])
             <=> \E afi \in Lacking(heard) : x = [code |-> "MPNLRI", afi |-> afi]
  <2>1. Within(shown, x)
        <=> \E afi \in WithoutMpnlri(caps) : x = [code |-> "MPNLRI", afi |-> afi]
    BY Zenon, <1>3, <1>4
  <2>2. Within(shown, x) <=> \E i \in DOMAIN shown : x = shown[i]  BY Zenon DEF Within
  <2> PICK lacking : lacking = Lacking(heard)  OBVIOUS
  <2>3. WithoutMpnlri(caps) = lacking  BY Zenon, <1>2
  <2> QED  BY <2>1, <2>2, <2>3
<1>6. {shown[i] : i \in DOMAIN shown}
      = {[code |-> "MPNLRI", afi |-> afi] : afi \in Lacking(heard)}
  BY Zenon, <1>5
<1> QED  BY Zenon, <1>1, <1>6

(* Whatever a session is configured to announce, its OPEN is printed and   *)
(* read by another instance of the program as just that, with the full AS  *)
(* number; and a NOTIFICATION about missing capabilities, whatever OPEN it *)
(* answers, is printed as those that this OPEN lacks (OpenReadsBack).      *)
THEOREM OpensReadBack == Spec => []OpenReadsBack
<1>1. Init => OpenInv  BY OpenInvInit
<1>2. OpenInv /\ [Next]_vars => OpenInv'  BY OpenInvNext
<1>3. OpenInv => OpenReadsBack
  <2> SUFFICES ASSUME OpenInv PROVE OpenReadsBack  OBVIOUS
  <2>1. said.type = "OPEN" => OpenOf(said, conf)  BY Zenon DEF OpenInv, SaidOf
  <2>2. AboutCaps(said) => Complains(said, heard)  BY Zenon DEF OpenInv, SaidOf
  <2> QED  BY Zenon, <2>1, <2>2, OpenSays, NotificationSays
           DEF OpenReadsBack, AboutCaps, Lacking, AfisOf
<1> QED  BY <1>1, <1>2, <1>3, PTL DEF Spec

-----------------------------------------------------------------------------
(* What messages are as long as                                            *)

Fits(m) ==
  /\ m.type \in {"none", "OPEN", "KEEPALIVE", "NOTIFICATION", "UPDATE"}
  /\ m # NoMessage => m.length \in SizeHeader..(IF m.type = "UPDATE"
                                                THEN SESS_MIN_MESSAGE_BUFFER + 41
                                                ELSE SESS_MIN_SEND_BUFF)

LEMMA NoneFits == Fits(NoMessage)
BY DEF Fits, NoMessage

Short(m) ==
  m.type \in {"OPEN", "KEEPALIVE", "NOTIFICATION"} /\ m.length \in SizeHeader..SESS_MIN_SEND_BUFF

LEMMA ShortFits == ASSUME NEW m, Short(m) PROVE Fits(m)
BY DEF Fits, Short

LEMMA CapSizes ==
  ASSUME NEW cap
  PROVE  SizeOfCap(cap) + SizeParam \in 0..8
<1>1. SizeOfCap(cap) \in {2, 5, 6}
  BY DEF SizeOfCap, SizeCap, CapLength
<1> QED  BY <1>1 DEF SizeParam

LEMMA ParamLengthBound ==
  ASSUME NEW caps
  PROVE  ParamLength(caps) \in 0..72
<1> DEFINE size(i) == IF CapTable(0)[i][1] \in caps THEN SizeOfCap(CapTable(0)[i][1]) + SizeParam ELSE 0
<1> PICK v : v = [i \in Rows |-> size(i)]  OBVIOUS
<1>1. \A i \in Rows : size(i) \in 0..8
  <2> SUFFICES ASSUME NEW i \in Rows PROVE size(i) \in 0..8  OBVIOUS
  <2> PICK n : n = SizeOfCap(CapTable(0)[i][1]) + SizeParam  OBVIOUS
  <2>1. n \in 0..8  BY Zenon, CapSizes
  <2>2. 0 \in 0..8  OBVIOUS
  <2> QED  BY Zenon, <2>1, <2>2
<1> HIDE DEF size
<1>2. v \in [1..9 -> Nat] /\ \A i \in 1..9 : v[i] <= 8
  BY <1>1 DEF Rows
<1>3. v \in Seq(Nat)  BY Zenon, <1>2, FunctionIsSeq, 9 \in Nat
<1>4. Len(v) = 9  BY <1>2, <1>3, LenProperties
<1>5. ParamLength(caps) = Total(v)
  <2>1. DOMAIN CapTable(0) = Rows  BY Zenon, RowsAre
  <2> QED  BY Zenon, <2>1 DEF ParamLength, size
<1>6. Total(v) <= 8 * Len(v)
  <2>1. 8 \in Nat  OBVIOUS
  <2>2. \A i \in 1..Len(v) : v[i] <= 8  BY Zenon, <1>2, <1>4
  <2> QED  BY Zenon, <1>3, <2>1, <2>2, TotalBounded
<1> PICK t : t = Total(v)  OBVIOUS
<1>7. t \in Nat  BY Zenon, <1>3, TotalIs
<1>8. t <= 8 * 9  BY Zenon, <1>4, <1>6
<1>9. t \in 0..72  BY <1>7, <1>8
<1> QED  BY Zenon, <1>5, <1>9

LEMMA OpenFits ==
  ASSUME NEW asn, NEW time, NEW caps
  PROVE  Fits(createOpenMessage(asn, time, caps))
<1> PICK m : m = createOpenMessage(asn, time, caps)  OBVIOUS
<1> PICK n : n = ParamLength(caps)  OBVIOUS
<1>1. n \in 0..72  BY Zenon, ParamLengthBound
<1>2. m.type = "OPEN" /\ m.length = SizeOpen + n  BY DEF createOpenMessage
<1>3. m.length \in SizeHeader..SESS_MIN_SEND_BUFF
  BY <1>1, <1>2 DEF SizeOpen, SizeHeader, SESS_MIN_SEND_BUFF
<1>4. Short(m)  BY <1>2, <1>3 DEF Short
<1> QED  BY Zenon, <1>4, ShortFits

LEMMA KeepAliveFits == Fits(createKeepAliveMessge)
BY DEF Fits, createKeepAliveMessge, SizeHeader, SESS_MIN_SEND_BUFF

LEMMA RefusalFits ==
  ASSUME NEW from, NEW error, NEW subcode, NEW dataLength \in Nat, NEW data,
         Refuse(from, error, subcode, dataLength, data)
  PROVE  Fits(said')
<1> DEFINE length == SizeHeader + 2 + dataLength
           written == [type |-> "NOTIFICATION", length |-> length, error_code |-> error,
                       sub_code |-> subcode, data |-> data]
           n == createNotificationMessage(SESS_MIN_SEND_BUFF, error, subcode, dataLength, data)
<1>1. n = NoMessage \/ (n = written /\ ~(SESS_MIN_SEND_BUFF < length))
  BY Zenon DEF createNotificationMessage
<1>2. said' = n \/ said' = NoMessage  BY Zenon DEF Refuse
<1>3. CASE n = written /\ ~(SESS_MIN_SEND_BUFF < length)
  <2> HIDE DEF n
  <2>1. n.type = "NOTIFICATION" /\ n.length = length  BY <1>3
  <2>2. n.length \in SizeHeader..SESS_MIN_SEND_BUFF
    BY <1>3, <2>1 DEF SizeHeader, SESS_MIN_SEND_BUFF
  <2>3. Short(n)  BY <2>1, <2>2 DEF Short
  <2>4. Fits(n)  BY Zenon, <2>3, ShortFits
  <2> QED  BY Zenon, <1>2, <2>4, NoneFits
<1> QED  BY Zenon, <1>1, <1>2, <1>3, NoneFits

(* A capability sets fields of those that are announced.                   *)
LEMMA FieldsAnnounced ==
  ASSUME NEW cap, cap.code = "BGPSEC" => cap.dir \in DOMAIN BgpsecField
  PROVE  CapFields(cap) \subseteq Announced
<1>1. DOMAIN MpnlriField = {"v4", "v6"} /\ DOMAIN BgpsecField = {"SND", "RCV"}
  BY DEF MpnlriField, BgpsecField
<1>2. CASE cap.code = "MPNLRI" /\ cap.afi \in DOMAIN MpnlriField
  BY <1>1, <1>2 DEF CapFields, MpnlriField, Announced
<1>3. CASE cap.code = "AS4"
  BY <1>3 DEF CapFields, Announced
<1>4. CASE cap.code = "BGPSEC" /\ cap.afi \in DOMAIN MpnlriField
  BY <1>1, <1>4 DEF CapFields, BgpsecField, Announced
<1>5. CASE cap.code \in {"RREFRESH", "RREFRESH_PRIV"}
  BY <1>5 DEF CapFields, Announced
<1>6. CASE cap.code = "EXT_MSG_SUPPORT"
  BY <1>6 DEF CapFields, Announced
<1>7. CASE /\ ~(cap.code = "MPNLRI" /\ cap.afi \in DOMAIN MpnlriField)
           /\ ~(cap.code = "BGPSEC" /\ cap.afi \in DOMAIN MpnlriField)
           /\ cap.code \notin {"AS4", "RREFRESH", "RREFRESH_PRIV", "EXT_MSG_SUPPORT"}
  BY <1>7 DEF CapFields
<1> QED  BY <1>2, <1>3, <1>4, <1>5, <1>6, <1>7

LEMMA PeerCapAnnounced ==
  ASSUME NEW m \in PeerOpens
  PROVE  ReadOpen(m).peerCap \subseteq Announced
<1> DEFINE params == m.params
           at(p) == ItemAt(params, p)
           places == Places(params)
<1>1. PICK read \in SUBSET places : ReadOpen(m).peerCap = UNION {CapFields(at(p)) : p \in read}
  <2> DEFINE bad == {p \in places : Refused(at(p)) \/ FollowsNull(params, p)}
             q0 == {p \in places : \A q \in bad : Before(p, q)}
  <2>1. ReadOpen(m).peerCap = UNION {CapFields(at(p)) : p \in q0}  BY Zenon DEF ReadOpen
  <2>2. q0 \in SUBSET places  OBVIOUS
  <2> QED  BY Zenon, <2>1, <2>2
<1>2. m # NoMessage  BY Zenon, PeerOpensTyped
<1>3. ASSUME NEW p \in places PROVE CapFields(at(p)) \subseteq Announced
  <2>1. PICK i \in DOMAIN params : p \in {i} \X DOMAIN Items(params[i])
    BY <1>3 DEF Places
  <2>2. p[1] = i /\ p[2] \in DOMAIN Items(params[i])  BY <2>1
  <2> PICK param : param = params[i]  OBVIOUS
  <2>3. at(p) = Items(param)[p[2]] /\ p[2] \in DOMAIN Items(param)
    BY Zenon, <2>2 DEF ItemAt
  <2>4. CASE param.type = "CAP"
    <3>1. Items(param) = param.caps  BY <2>4 DEF Items
    <3>2. at(p) \in CapsOf(m)  BY Zenon, <1>2, <2>3, <2>4, <3>1, CapAtPlace
    <3>3. at(p).code = "BGPSEC" => at(p).dir \in DOMAIN BgpsecField
      BY Zenon, <3>2, PeerOpensTyped
    <3> QED  BY Zenon, <3>3, FieldsAnnounced
  <2>5. CASE param.type # "CAP"
    <3>1. Items(param) = <<[code |-> "unsupported parameter"]>> \/ Items(param) = <<>>
      BY <2>5 DEF Items
    <3>2. Items(param) # <<>>  BY Zenon, <2>3, NoItem
    <3>3. at(p) = [code |-> "unsupported parameter"]  BY Zenon, <2>3, <3>1, <3>2, OneItem
    <3> PICK cap : cap = [code |-> "unsupported parameter"]  OBVIOUS
    <3>4. cap.code # "BGPSEC"  OBVIOUS
    <3> QED  BY Zenon, <3>3, <3>4, FieldsAnnounced
  <2> QED  BY Zenon, <2>4, <2>5
<1> HIDE DEF places, at
<1> QED  BY <1>1, <1>3

LEMMA ConfiguredTyped ==
  ASSUME conf \in Sessions
  PROVE  conf.asn \in Nat /\ CapiSet(conf)
<1>1. Configurable(conf)  BY SMT, MessageInputs
<1> QED  BY SMT, <1>1 DEF Configurable, CapiSet

-----------------------------------------------------------------------------
(* The attributes of a path, and how long they are                         *)

LEMMA CountsTyped ==
  ASSUME NEW n \in Nat
  PROVE  SegmentCount(n) \in Nat
BY DEF SegmentCount

LEMMA AttrLengthTyped ==
  ASSUME NEW S, NEW path \in Seq(S), NEW R, NEW set \in Seq(R), NEW isAS4
  PROVE  /\ AttrLength(path, set, isAS4) \in Nat
         /\ AttrLength(path, set, isAS4) % 256 \in 0..AttrLength(path, set, isAS4)
<1> PICK m : m = Len(path)  OBVIOUS
<1> PICK n : n = Len(set)  OBVIOUS
<1> PICK x : x = SegmentCount(m)  OBVIOUS
<1> PICK y : y = SegmentCount(n)  OBVIOUS
<1>1. m \in Nat /\ n \in Nat  OBVIOUS
<1>2. x \in Nat /\ y \in Nat  BY Zenon, <1>1, CountsTyped
<1> PICK k : k = AsnSize(isAS4)  OBVIOUS
<1>3. k \in {2, 4}  BY DEF AsnSize
<1> PICK l : l = AttrLength(path, set, isAS4)  OBVIOUS
<1>4. l = 2 * (x + y) + k * (m + n)  BY Zenon DEF AttrLength
<1>5. l \in Nat
  <2>1. CASE k = 2  BY <1>1, <1>2, <1>4, <2>1, SMTT(30)
  <2>2. CASE k = 4  BY <1>1, <1>2, <1>4, <2>2, SMTT(30)
  <2> QED  BY <1>3, <2>1, <2>2
<1>6. l % 256 \in 0..l  BY <1>5
<1> QED  BY Zenon, <1>5, <1>6

LEMMA AsPathLength ==
  ASSUME NEW S, NEW path \in Seq(S), NEW R, NEW set \in Seq(R), NEW type, NEW isAS4,
         NEW a, a = generateBGP_PathAttr(type, path, set, isAS4), a # NoAttribute
  PROVE  a.length \in 0..AttrLength(path, set, isAS4)
<1> PICK l : l = AttrLength(path, set, isAS4)  OBVIOUS
<1>1. l \in Nat /\ l % 256 \in 0..l  BY Zenon, AttrLengthTyped
<1> PICK ext : ext = Extended(path, set, isAS4)  OBVIOUS
<1> PICK w : w = IF ext THEN l ELSE l % 256  OBVIOUS
<1> DEFINE body == PathSegments("SEQUENCE", path, isAS4) \o PathSegments("SET", set, isAS4)
<1>2. a = [type |-> type, ext |-> ext, length |-> w, body |-> body]
  BY Zenon DEF generateBGP_PathAttr
<1> HIDE DEF body
<1>3. a.length = w  BY <1>2
<1>4. l \in 0..l  BY <1>1
<1> QED  BY Zenon, <1>1, <1>3, <1>4

(* A BGPsec attribute of a path of this session.                           *)
OfSegments(a, segs, c) ==
  /\ segs \in Seq(SegmentRecord)
  /\ \E nlri : a = BgpsecAttr(Attribute(segs, Signed(segs, c, nlri), c))

LEMMA SecuredIs ==
  ASSUME NEW u, Writable(u), conf \in Sessions, Secured(u) # NoAttribute
  PROVE  OfSegments(Secured(u), Segments(MyPath(conf, u.path)), conf)
<1> PICK segs : segs = Segments(MyPath(conf, u.path))  OBVIOUS
<1>1. segs \in Seq(SegmentRecord)
  <2>1. u.path \in Seq([asn : Nat, count : Nat, dotted : BOOLEAN])  BY DEF Writable
  <2>2. conf.asn \in Nat  BY Zenon, ConfiguredTyped
  <2>3. MyPath(conf, u.path) \in Seq(Int)  BY Zenon, <2>1, <2>2, PathTyped
  <2> QED  BY Zenon, <2>3, SegmentsTyped
<1>2. Secured(u) = SecureAttr(u)  BY Zenon DEF Secured
<1>3. SecureAttr(u) = BgpsecAttr(Attribute(segs, Signed(segs, conf, u.nlri), conf))
  BY Zenon, <1>2 DEF SecureAttr
<1> QED  BY Zenon, <1>1, <1>2, <1>3 DEF OfSegments

-----------------------------------------------------------------------------
(* Lists of attributes: how many bytes they are, which types are in them   *)

AttrList(s) == \E T : s \in Seq(T)
SizesOf(s) == [i \in DOMAIN s |-> getPathAttributeSize(s[i])]
Measured(s, n) ==
  /\ SizesOf(s) \in Seq(Nat) /\ Len(SizesOf(s)) = Len(s) /\ Total(SizesOf(s)) = n
  /\ \A i \in 1..Len(s) : SizesOf(s)[i] > 0

Never(s, t) == \A i \in DOMAIN s : s[i].type # t
Once(s, t, x) ==
  \E i \in DOMAIN s : s[i] = x /\ x.type = t /\ \A j \in DOMAIN s : s[j].type = t => j = i

LEMMA NoneListed == /\ AttrList(<<>>) /\ Measured(<<>>, 0)
                    /\ \A t : Never(<<>>, t)
<1>1. <<>> \in Seq({})  OBVIOUS
<1>2. SizesOf(<<>>) = <<>>  BY DEF SizesOf
<1>3. <<>> \in Seq(Nat) /\ Len(<<>>) = 0 /\ \A i \in 1..0 : FALSE  OBVIOUS
<1>4. Measured(<<>>, 0)  BY Zenon, <1>2, <1>3, TotalNone DEF Measured
<1>5. \A t : Never(<<>>, t)  BY Zenon, NoItem DEF Never
<1> QED  BY Zenon, <1>1, <1>4, <1>5 DEF AttrList

LEMMA OneListed ==
  ASSUME NEW a
  PROVE  /\ AttrList(<<a>>)
         /\ Never(<<a>>, a.type) => FALSE
         /\ Once(<<a>>, a.type, a)
         /\ \A t : t # a.type => Never(<<a>>, t)
<1>1. <<a>> \in Seq({a}) /\ DOMAIN <<a>> = 1..1 /\ <<a>>[1] = a /\ 1 \in 1..1
      /\ \A i \in 1..1 : i = 1
  OBVIOUS
<1> QED  BY Zenon, <1>1 DEF AttrList, Never, Once

LEMMA OneMeasured ==
  ASSUME NEW a, NEW n \in Nat, n > 0, getPathAttributeSize(a) = n
  PROVE  Measured(<<a>>, n)
<1>1. <<n>> \in Seq(Nat) /\ Len(<<n>>) = 1 /\ Len(<<a>>) = 1 /\ \A i \in 1..1 : <<n>>[i] > 0
  OBVIOUS
<1>2. SizesOf(<<a>>) = <<n>>
  <2>1. DOMAIN <<a>> = 1..1 /\ \A i \in 1..1 : <<a>>[i] = a  OBVIOUS
  <2>2. SizesOf(<<a>>) = [i \in 1..1 |-> n]
    <3>1. \A i \in 1..1 : getPathAttributeSize(<<a>>[i]) = n  BY Zenon, <2>1
    <3>2. SizesOf(<<a>>) = [i \in 1..1 |-> getPathAttributeSize(<<a>>[i])]
      BY Zenon, <2>1 DEF SizesOf
    <3> HIDE DEF SizesOf
    <3> QED  BY <3>1, <3>2
  <2> QED  BY <2>2
<1>3. Total(<<n>>) = n  BY Zenon, TotalOne
<1> QED  BY Zenon, <1>1, <1>2, <1>3 DEF Measured

(* What is in a list that two are joined to.                               *)
JoinedLists(a, b) ==
  /\ AttrList(a \o b)
  /\ Joins(a \o b, a, b)
  /\ DOMAIN a = 1..Len(a) /\ DOMAIN b = 1..Len(b) /\ DOMAIN (a \o b) = 1..Len(a \o b)
  /\ Len(a) \in Nat /\ Len(b) \in Nat /\ Len(a \o b) = Len(a) + Len(b)

LEMMA ListsJoin ==
  ASSUME NEW a, NEW b, AttrList(a), AttrList(b)
  PROVE  JoinedLists(a, b)
<1> PICK T : a \in Seq(T)  BY DEF AttrList
<1> PICK U : b \in Seq(U)  BY DEF AttrList
<1>1. a \in Seq(T \cup U) /\ b \in Seq(T \cup U)  OBVIOUS
<1>2. a \o b \in Seq(T \cup U) /\ Joins(a \o b, a, b)  BY Zenon, <1>1, ConcatParts
<1> PICK c : c = a \o b  OBVIOUS
<1>3. DOMAIN a = 1..Len(a) /\ DOMAIN b = 1..Len(b) /\ DOMAIN c = 1..Len(c)
      /\ Len(a) \in Nat /\ Len(b) \in Nat
  <2>1. c \in Seq(T \cup U)  BY Zenon, <1>2
  <2> QED  BY <1>1, <2>1
<1>4. Len(a \o b) = Len(a) + Len(b)  BY Zenon, <1>2 DEF Joins
<1> QED  BY Zenon, <1>2, <1>3, <1>4 DEF JoinedLists, AttrList

(* A place of the joined list is one of the parts.                         *)
PlaceJoined(c, a, b) ==
  /\ \A i \in DOMAIN a : i \in DOMAIN c /\ c[i] = a[i]
  /\ \A i \in DOMAIN b : Len(a) + i \in DOMAIN c /\ c[Len(a) + i] = b[i]
  /\ \A i \in DOMAIN c : i \in DOMAIN a \/ \E j \in DOMAIN b : i = Len(a) + j
  /\ \A i, j \in DOMAIN b : Len(a) + i = Len(a) + j => i = j

LEMMA PlacesJoin ==
  ASSUME NEW a, NEW b, AttrList(a), AttrList(b)
  PROVE  PlaceJoined(a \o b, a, b)
<1> PICK c : c = a \o b  OBVIOUS
<1> PICK m : m = Len(a)  OBVIOUS
<1> PICK n : n = Len(b)  OBVIOUS
<1>0. JoinedLists(a, b)  BY Zenon, ListsJoin
<1>1. /\ Joins(c, a, b) /\ DOMAIN a = 1..m /\ DOMAIN b = 1..n /\ DOMAIN c = 1..Len(c)
      /\ m \in Nat /\ n \in Nat /\ Len(c) = m + n
  BY Zenon, <1>0 DEF JoinedLists
<1>2. (\A i \in 1..m : c[i] = a[i]) /\ \A i \in 1..n : c[m + i] = b[i]
  BY Zenon, <1>1 DEF Joins
<1>3. /\ \A i \in 1..m : i \in 1..(m + n)
      /\ \A i \in 1..n : m + i \in 1..(m + n)
      /\ \A i, j \in 1..n : m + i = m + j => i = j
  BY <1>1
<1>4. \A i \in 1..(m + n) : i \in 1..m \/ \E j \in 1..n : i = m + j
  <2> SUFFICES ASSUME NEW i \in 1..(m + n), i \notin 1..m PROVE \E j \in 1..n : i = m + j
    OBVIOUS
  <2>1. i - m \in 1..n /\ i = m + (i - m)  BY <1>1
  <2> QED  BY Zenon, <2>1
<1>5. DOMAIN c = 1..(m + n)  BY Zenon, <1>1
<1>6. \A i \in DOMAIN a : i \in DOMAIN c /\ c[i] = a[i]
  BY Zenon, <1>1, <1>2, <1>3, <1>5
<1>7. \A i \in DOMAIN b : m + i \in DOMAIN c /\ c[m + i] = b[i]
  BY Zenon, <1>1, <1>2, <1>3, <1>5
<1>8. \A i \in DOMAIN c : i \in DOMAIN a \/ \E j \in DOMAIN b : i = m + j
  <2> SUFFICES ASSUME NEW i \in DOMAIN c PROVE i \in DOMAIN a \/ \E j \in DOMAIN b : i = m + j
    OBVIOUS
  <2>1. i \in 1..(m + n)  BY Zenon, <1>5
  <2>2. i \in 1..m \/ \E j \in 1..n : i = m + j  BY Zenon, <1>4, <2>1
  <2>3. DOMAIN a = 1..m /\ DOMAIN b = 1..n  BY Zenon, <1>1
  <2> QED  BY Zenon, <2>2, <2>3
<1>9. \A i, j \in DOMAIN b : m + i = m + j => i = j
  BY Zenon, <1>1, <1>3
<1> QED  BY Zenon, <1>6, <1>7, <1>8, <1>9 DEF PlaceJoined

TypesJoined(c, a, b, t) ==
  /\ Never(a, t) /\ Never(b, t) => Never(c, t)
  /\ \A x : Once(a, t, x) /\ Never(b, t) => Once(c, t, x)
  /\ \A x : Never(a, t) /\ Once(b, t, x) => Once(c, t, x)

LEMMA TypesJoin ==
  ASSUME NEW a, NEW b, AttrList(a), AttrList(b), NEW t
  PROVE  TypesJoined(a \o b, a, b, t)
<1> PICK c : c = a \o b  OBVIOUS
<1> PICK m : m = Len(a)  OBVIOUS
<1>0. PlaceJoined(c, a, b)  BY Zenon, PlacesJoin
<1>1. /\ \A i \in DOMAIN a : i \in DOMAIN c /\ c[i] = a[i]
      /\ \A i \in DOMAIN b : m + i \in DOMAIN c /\ c[m + i] = b[i]
      /\ \A i \in DOMAIN c : i \in DOMAIN a \/ \E j \in DOMAIN b : i = m + j
      /\ \A i, j \in DOMAIN b : m + i = m + j => i = j
  BY Zenon, <1>0 DEF PlaceJoined
<1>2. Never(a, t) /\ Never(b, t) => Never(c, t)
  <2> SUFFICES ASSUME Never(a, t), Never(b, t), NEW i \in DOMAIN c PROVE c[i].type # t
    BY DEF Never
  <2>1. CASE i \in DOMAIN a
    BY Zenon, <1>1, <2>1 DEF Never
  <2>2. ASSUME NEW j \in DOMAIN b, i = m + j PROVE c[i].type # t
    BY Zenon, <1>1, <2>2 DEF Never
  <2> QED  BY Zenon, <1>1, <2>1, <2>2
<1>3. ASSUME NEW x, Once(a, t, x), Never(b, t) PROVE Once(c, t, x)
  <2>1. PICK i \in DOMAIN a : /\ a[i] = x /\ x.type = t
                              /\ \A j \in DOMAIN a : a[j].type = t => j = i
    BY Zenon, <1>3 DEF Once
  <2>2. i \in DOMAIN c /\ c[i] = x  BY Zenon, <1>1, <2>1
  <2>3. ASSUME NEW j \in DOMAIN c, c[j].type = t PROVE j = i
    <3>1. CASE j \in DOMAIN a
      <4>1. a[j].type = t  BY Zenon, <1>1, <2>3, <3>1
      <4> QED  BY Zenon, <2>1, <3>1, <4>1
    <3>2. ASSUME NEW k \in DOMAIN b, j = m + k PROVE FALSE
      BY Zenon, <1>1, <1>3, <2>3, <3>2 DEF Never
    <3> QED  BY Zenon, <1>1, <3>1, <3>2
  <2> QED  BY Zenon, <2>1, <2>2, <2>3 DEF Once
<1>4. ASSUME NEW x, Never(a, t), Once(b, t, x) PROVE Once(c, t, x)
  <2>1. PICK i \in DOMAIN b : /\ b[i] = x /\ x.type = t
                              /\ \A j \in DOMAIN b : b[j].type = t => j = i
    BY Zenon, <1>4 DEF Once
  <2>2. m + i \in DOMAIN c /\ c[m + i] = x  BY Zenon, <1>1, <2>1
  <2>3. ASSUME NEW j \in DOMAIN c, c[j].type = t PROVE j = m + i
    <3>1. CASE j \in DOMAIN a
      BY Zenon, <1>1, <1>4, <2>3, <3>1 DEF Never
    <3>2. ASSUME NEW k \in DOMAIN b, j = m + k PROVE j = m + i
      <4>1. b[k].type = t  BY Zenon, <1>1, <2>3, <3>2
      <4>2. k = i  BY Zenon, <2>1, <4>1
      <4> QED  BY Zenon, <3>2, <4>2
    <3> QED  BY Zenon, <1>1, <2>3, <3>1, <3>2
  <2> QED  BY Zenon, <2>1, <2>2, <2>3 DEF Once
<1> QED  BY Zenon, <1>2, <1>3, <1>4 DEF TypesJoined

LEMMA SeqIsTable == ASSUME NEW S, NEW s \in Seq(S) PROVE s = [i \in 1..Len(s) |-> s[i]]
OBVIOUS

LEMMA MeasuresJoin ==
  ASSUME NEW a, NEW b, AttrList(a), AttrList(b), NEW m, NEW n, Measured(a, m), Measured(b, n)
  PROVE  Measured(a \o b, m + n)
<1> PICK c : c = a \o b  OBVIOUS
<1> PICK x : x = SizesOf(a)  OBVIOUS
<1> PICK y : y = SizesOf(b)  OBVIOUS
<1> PICK z : z = SizesOf(c)  OBVIOUS
<1>0. JoinedLists(a, b) /\ PlaceJoined(c, a, b)  BY Zenon, ListsJoin, PlacesJoin
<1>1. /\ DOMAIN a = 1..Len(a) /\ DOMAIN b = 1..Len(b) /\ DOMAIN c = 1..Len(c)
      /\ Len(a) \in Nat /\ Len(b) \in Nat /\ Len(c) = Len(a) + Len(b)
  BY Zenon, <1>0 DEF JoinedLists
<1>2. /\ \A i \in DOMAIN a : i \in DOMAIN c /\ c[i] = a[i]
      /\ \A i \in DOMAIN b : Len(a) + i \in DOMAIN c /\ c[Len(a) + i] = b[i]
      /\ \A i \in DOMAIN c : i \in DOMAIN a \/ \E j \in DOMAIN b : i = Len(a) + j
  BY Zenon, <1>0 DEF PlaceJoined
<1>3. /\ x \in Seq(Nat) /\ Len(x) = Len(a) /\ Total(x) = m /\ \A i \in 1..Len(a) : x[i] > 0
      /\ y \in Seq(Nat) /\ Len(y) = Len(b) /\ Total(y) = n /\ \A i \in 1..Len(b) : y[i] > 0
  BY Zenon DEF Measured
<1>4. x \o y \in Seq(Nat) /\ Joins(x \o y, x, y)  BY Zenon, <1>3, ConcatParts
<1> PICK w : w = x \o y  OBVIOUS
<1>5. /\ w \in Seq(Nat) /\ Len(w) = Len(c)
      /\ \A i \in DOMAIN a : w[i] = x[i]
      /\ \A i \in DOMAIN b : w[Len(a) + i] = y[i]
  BY Zenon, <1>1, <1>3, <1>4 DEF Joins
<1>6. /\ \A i \in DOMAIN a : x[i] = getPathAttributeSize(a[i])
      /\ \A i \in DOMAIN b : y[i] = getPathAttributeSize(b[i])
  BY Zenon DEF SizesOf
<1>7. \A i \in DOMAIN c : w[i] = getPathAttributeSize(c[i])
  <2> SUFFICES ASSUME NEW i \in DOMAIN c PROVE w[i] = getPathAttributeSize(c[i])  OBVIOUS
  <2>1. CASE i \in DOMAIN a
    BY Zenon, <1>2, <1>5, <1>6, <2>1
  <2>2. ASSUME NEW j \in DOMAIN b, i = Len(a) + j PROVE w[i] = getPathAttributeSize(c[i])
    BY Zenon, <1>2, <1>5, <1>6, <2>2
  <2> QED  BY Zenon, <1>2, <2>1, <2>2
<1>8. w = z
  <2>0. w \in Seq(Nat)  BY Zenon, <1>5
  <2>1. w = [i \in 1..Len(w) |-> w[i]]  BY Zenon, <2>0, SeqIsTable
  <2>2. z = [i \in DOMAIN c |-> getPathAttributeSize(c[i])]  BY Zenon DEF SizesOf
  <2>3. 1..Len(w) = DOMAIN c  BY Zenon, <1>1, <1>5
  <2>4. w = [i \in DOMAIN c |-> w[i]]  BY Zenon, <2>1, <2>3
  <2> HIDE DEF SizesOf
  <2> QED  BY <1>7, <2>2, <2>4
<1>9. Total(w) = m + n
  <2>1. Total(x \o y) = Total(x) + Total(y)  BY Zenon, <1>3, TotalConcat
  <2> QED  BY Zenon, <1>3, <2>1
<1>10. \A i \in 1..Len(c) : w[i] > 0
  <2> SUFFICES ASSUME NEW i \in DOMAIN c PROVE w[i] > 0  BY Zenon, <1>1
  <2>1. CASE i \in DOMAIN a
    BY Zenon, <1>1, <1>3, <1>5, <2>1
  <2>2. ASSUME NEW j \in DOMAIN b, i = Len(a) + j PROVE w[i] > 0
    BY Zenon, <1>1, <1>3, <1>5, <2>2
  <2> QED  BY Zenon, <1>2, <2>1, <2>2
<1> QED  BY Zenon, <1>5, <1>8, <1>9, <1>10 DEF Measured

(* A list of an attribute that is there on a condition.                    *)
Maybe(s, c, a) == s = IF c THEN <<a>> ELSE <<>>

MaybeIs(s, c, a, n) ==
  /\ AttrList(s) /\ Measured(s, IF c THEN n ELSE 0)
  /\ \A t : t # a.type => Never(s, t)
  /\ c => Once(s, a.type, a)
  /\ ~c => Never(s, a.type)

LEMMA MaybeListed ==
  ASSUME NEW s, NEW c, NEW a, NEW n \in Nat, n > 0, getPathAttributeSize(a) = n, Maybe(s, c, a)
  PROVE  MaybeIs(s, c, a, n)
<1>1. CASE c
  <2>1. s = <<a>> /\ (IF c THEN n ELSE 0) = n  BY Zenon, <1>1 DEF Maybe
  <2>2. AttrList(s) /\ Once(s, a.type, a) /\ \A t : t # a.type => Never(s, t)
    BY Zenon, <2>1, OneListed
  <2>3. Measured(s, n)  BY Zenon, <2>1, OneMeasured
  <2> QED  BY Zenon, <1>1, <2>1, <2>2, <2>3 DEF MaybeIs
<1>2. CASE ~c
  <2>1. s = <<>> /\ (IF c THEN n ELSE 0) = 0  BY Zenon, <1>2 DEF Maybe
  <2> QED  BY Zenon, <1>2, <2>1, NoneListed DEF MaybeIs
<1> QED  BY Zenon, <1>1, <1>2

SizeIs(a, type, n) == a.type = type /\ getPathAttributeSize(a) = n

LEMMA PlainSize ==
  ASSUME NEW type, NEW length \in Nat, NEW body
  PROVE  SizeIs(Plain1(type, length, body), type, 3 + length)
<1> PICK a : a = Plain1(type, length, body)  OBVIOUS
<1>1. a.ext = FALSE /\ a.length = length /\ a.type = type  BY DEF Plain1
<1>2. getPathAttributeSize(a) = (2 + 1) + length  BY Zenon, <1>1 DEF getPathAttributeSize
<1>3. getPathAttributeSize(a) = 3 + length  BY <1>2
<1> QED  BY Zenon, <1>1, <1>3 DEF SizeIs

(* The prefixes that are written.                                          *)
NlriTyped(nlri) ==
  nlri.afi \in DOMAIN MpnlriField /\ nlri.bits \in 1..(IF nlri.afi = "v4" THEN 32 ELSE 128)

LEMMA BytesOfBits ==
  ASSUME NEW b \in 1..128, NEW m \in Nat, b <= 8 * m
  PROVE  numBytes(b) \in 1..m
BY DEF numBytes

LEMMA PrefixBytes ==
  ASSUME NEW nlri, NlriTyped(nlri)
  PROVE  numBytes(nlri.bits) \in 1..(IF nlri.afi = "v4" THEN 4 ELSE 16)
<1> PICK b : b = nlri.bits  OBVIOUS
<1>1. CASE nlri.afi = "v4"
  <2>1. b \in 1..32  BY <1>1 DEF NlriTyped
  <2>2. b \in 1..128 /\ b <= 8 * 4  BY <2>1
  <2>3. numBytes(b) \in 1..4  BY <2>2, BytesOfBits
  <2> QED  BY Zenon, <1>1, <2>3
<1>2. CASE nlri.afi # "v4"
  <2>1. b \in 1..128  BY <1>2 DEF NlriTyped
  <2>2. b \in 1..128 /\ b <= 8 * 16  BY <2>1
  <2>3. numBytes(b) \in 1..16  BY <2>2, BytesOfBits
  <2> QED  BY Zenon, <1>2, <2>3
<1> QED  BY Zenon, <1>1, <1>2

ReachSize(nlri) == getPathAttributeSize(MpReach(nlri))

LEMMA MpReachIs ==
  ASSUME NEW nlri, NlriTyped(nlri)
  PROVE  /\ MpReach(nlri).type = "MP_REACH_NLRI"
         /\ ReachSize(nlri) \in 1..41
<1> PICK k : k = IF nlri.afi = "v4" THEN 4 ELSE 16  OBVIOUS
<1> PICK n : n = numBytes(nlri.bits)  OBVIOUS
<1>1. k \in {4, 16}  OBVIOUS
<1>2. n \in 1..k  BY Zenon, PrefixBytes
<1> DEFINE body == [afi |-> nlri.afi, nextHopLen |-> k, bits |-> nlri.bits, prefix |-> nlri.prefix]
<1>3. MpReach(nlri) = Plain1("MP_REACH_NLRI", 2 + 1 + 1 + k + 1 + 1 + n, body)
  BY Zenon DEF MpReach
<1> HIDE DEF body
<1>4. MpReach(nlri).type = "MP_REACH_NLRI"
      /\ getPathAttributeSize(MpReach(nlri)) = 3 + (2 + 1 + 1 + k + 1 + 1 + n)
  <2>1. 2 + 1 + 1 + k + 1 + 1 + n \in Nat  BY <1>1, <1>2
  <2> PICK l : l = 2 + 1 + 1 + k + 1 + 1 + n  OBVIOUS
  <2>2. SizeIs(MpReach(nlri), "MP_REACH_NLRI", 3 + l)  BY Zenon, <1>3, <2>1, PlainSize
  <2> QED  BY Zenon, <2>2 DEF SizeIs
<1>5. 3 + (2 + 1 + 1 + k + 1 + 1 + n) \in 1..41  BY <1>1, <1>2
<1> QED  BY Zenon, <1>4, <1>5 DEF ReachSize

(* The attributes in front of the path: what is among them, and their size.*)
FixedLength(localPref, nlri, mp, val) ==
  11 + (IF localPref > 0 THEN 7 ELSE 0) + (IF val # "none" THEN 11 ELSE 0)
  + IF mp THEN ReachSize(nlri) ELSE 7

FixedAre(F, localPref, nlri, mp, val) ==
  /\ AttrList(F) /\ Measured(F, FixedLength(localPref, nlri, mp, val))
  /\ \A t \in {"BGPSEC", "AS_PATH", "AS4_PATH"} : Never(F, t)
  /\ IF mp THEN Once(F, "MP_REACH_NLRI", MpReach(nlri)) ELSE Never(F, "MP_REACH_NLRI")
  /\ IF localPref > 0 THEN \E a : Once(F, "LOC_PREF", a) ELSE Never(F, "LOC_PREF")
  /\ IF val # "none" THEN Once(F, "EXT_COMM", Plain1("EXT_COMM", 8, Validation[val]))
     ELSE Never(F, "EXT_COMM")

LEMMA FirstTwo ==
  ASSUME NEW F, F = <<Plain1("ORIGIN", 1, "INCOMPLETE"), Plain1("MED", 4, 0)>>
  PROVE  AttrList(F) /\ Measured(F, 11) /\ \A t : t \notin {"ORIGIN", "MED"} => Never(F, t)
<1> PICK o : o = Plain1("ORIGIN", 1, "INCOMPLETE")  OBVIOUS
<1> PICK d : d = Plain1("MED", 4, 0)  OBVIOUS
<1>1. F = <<o>> \o <<d>>
  <2>1. F = <<o, d>>  OBVIOUS
  <2> QED  BY <2>1
<1>a. 1 \in Nat /\ 4 \in Nat  OBVIOUS
<1>2. o.type = "ORIGIN" /\ getPathAttributeSize(o) = 3 + 1  BY Zenon, <1>a, PlainSize DEF SizeIs
<1>3. d.type = "MED" /\ getPathAttributeSize(d) = 3 + 4
  <2>1. \A body : SizeIs(Plain1("MED", 4, body), "MED", 3 + 4)  BY Zenon, <1>a, PlainSize
  <2>2. SizeIs(d, "MED", 3 + 4)  BY Zenon, <2>1
  <2> QED  BY Zenon, <2>2 DEF SizeIs
<1>4. 3 + 1 = 4 /\ 3 + 4 = 7 /\ 4 + 7 = 11 /\ 4 \in Nat /\ 7 \in Nat /\ 4 > 0 /\ 7 > 0  OBVIOUS
<1>5. Measured(<<o>>, 4) /\ Measured(<<d>>, 7)  BY Zenon, <1>2, <1>3, <1>4, OneMeasured
<1>6. AttrList(<<o>>) /\ AttrList(<<d>>)  BY Zenon, OneListed
<1>7. JoinedLists(<<o>>, <<d>>)  BY Zenon, <1>6, ListsJoin
<1>8. Measured(<<o>> \o <<d>>, 4 + 7)  BY Zenon, <1>5, <1>6, MeasuresJoin
<1>9. ASSUME NEW t, t \notin {"ORIGIN", "MED"} PROVE Never(F, t)
  <2>1. t # o.type /\ t # d.type  BY Zenon, <1>2, <1>3, <1>9
  <2>2. Never(<<o>>, t) /\ Never(<<d>>, t)  BY Zenon, <2>1, OneListed
  <2>3. TypesJoined(<<o>> \o <<d>>, <<o>>, <<d>>, t)  BY Zenon, <1>6, TypesJoin
  <2> QED  BY Zenon, <1>1, <2>2, <2>3 DEF TypesJoined
<1>10. AttrList(F)  BY Zenon, <1>1, <1>7 DEF JoinedLists
<1>11. Measured(F, 11)  BY Zenon, <1>1, <1>4, <1>8
<1> QED  BY Zenon, <1>9, <1>10, <1>11

LEMMA NextHopIs ==
  ASSUME NEW nlri, NlriTyped(nlri), NEW mp, NEW a,
         a = IF mp THEN MpReach(nlri) ELSE Plain1("NEXT_HOP", 4, "nextHop")
  PROVE  /\ a.type = IF mp THEN "MP_REACH_NLRI" ELSE "NEXT_HOP"
         /\ getPathAttributeSize(a) = IF mp THEN ReachSize(nlri) ELSE 7
<1>1. CASE mp
  <2>1. a = MpReach(nlri)  BY Zenon, <1>1
  <2>2. a.type = "MP_REACH_NLRI" /\ getPathAttributeSize(a) = ReachSize(nlri)
    BY Zenon, <2>1, MpReachIs DEF ReachSize
  <2> QED  BY Zenon, <1>1, <2>2
<1>2. CASE ~mp
  <2>1. a = Plain1("NEXT_HOP", 4, "nextHop")  BY Zenon, <1>2
  <2>2. 4 \in Nat /\ 3 + 4 = 7  OBVIOUS
  <2>3. SizeIs(a, "NEXT_HOP", 3 + 4)  BY Zenon, <2>1, <2>2, PlainSize
  <2>4. a.type = "NEXT_HOP" /\ getPathAttributeSize(a) = 7  BY Zenon, <2>2, <2>3 DEF SizeIs
  <2> QED  BY Zenon, <1>2, <2>4
<1> QED  BY Zenon, <1>1, <1>2

(* A sum that says which parts are there.                                  *)
LEMMA PartsAddUp ==
  ASSUME NEW x, NEW y, NEW z
  PROVE  11 + x + y + z = ((11 + x) + y) + z
OBVIOUS

LEMMA FixedListed ==
  ASSUME NEW localPref, NEW nlri, NlriTyped(nlri), NEW mp, NEW val
  PROVE  FixedAre(FixedAttrs(localPref, nlri, mp, val), localPref, nlri, mp, val)
<1> PICK p : p = Plain1("LOC_PREF", 4, localPref)  OBVIOUS
<1> PICK e : e = Plain1("EXT_COMM", 8, Validation[val])  OBVIOUS
<1> PICK h : h = IF mp THEN MpReach(nlri) ELSE Plain1("NEXT_HOP", 4, "nextHop")  OBVIOUS
<1> PICK pref : pref = (localPref > 0)  OBVIOUS
<1> PICK ext : ext = (val # "none")  OBVIOUS
<1> PICK A : A = <<Plain1("ORIGIN", 1, "INCOMPLETE"), Plain1("MED", 4, 0)>>  OBVIOUS
<1> PICK B : B = IF pref THEN <<p>> ELSE <<>>  OBVIOUS
<1> PICK C : C = IF ext THEN <<e>> ELSE <<>>  OBVIOUS
<1> PICK D : D = <<h>>  OBVIOUS
<1> PICK F : F = FixedAttrs(localPref, nlri, mp, val)  OBVIOUS
<1> PICK x : x = IF pref THEN 7 ELSE 0  OBVIOUS
<1> PICK y : y = IF ext THEN 11 ELSE 0  OBVIOUS
<1> PICK z : z = IF mp THEN ReachSize(nlri) ELSE 7  OBVIOUS
<1>1. F = ((A \o B) \o C) \o D
  <2>1. C = IF val = "none" THEN <<>> ELSE <<e>>  BY Zenon
  <2>2. B = IF localPref > 0 THEN <<p>> ELSE <<>>  BY Zenon
  <2> QED  BY Zenon, <2>1, <2>2 DEF FixedAttrs
<1>n. 4 \in Nat /\ 8 \in Nat /\ 3 + 4 = 7 /\ 3 + 8 = 11 /\ 7 \in Nat /\ 11 \in Nat /\ 7 > 0 /\ 11 > 0
  OBVIOUS
<1>2. p.type = "LOC_PREF" /\ getPathAttributeSize(p) = 7
  <2>1. SizeIs(p, "LOC_PREF", 3 + 4)  BY Zenon, <1>n, PlainSize
  <2> QED  BY Zenon, <1>n, <2>1 DEF SizeIs
<1>3. e.type = "EXT_COMM" /\ getPathAttributeSize(e) = 11
  <2>1. SizeIs(e, "EXT_COMM", 3 + 8)  BY Zenon, <1>n, PlainSize
  <2> QED  BY Zenon, <1>n, <2>1 DEF SizeIs
<1>4. h.type = (IF mp THEN "MP_REACH_NLRI" ELSE "NEXT_HOP") /\ getPathAttributeSize(h) = z
  BY Zenon, NextHopIs
<1>5. z \in Nat /\ z > 0
  <2>1. ReachSize(nlri) \in 1..41  BY Zenon, MpReachIs
  <2>2. \A n \in 1..41 : n \in Nat /\ n > 0  OBVIOUS
  <2> QED  BY Zenon, <1>n, <2>1, <2>2
<1>6. AttrList(A) /\ Measured(A, 11) /\ \A t : t \notin {"ORIGIN", "MED"} => Never(A, t)
  BY Zenon, FirstTwo
<1>7. MaybeIs(B, pref, p, 7)  BY Zenon, <1>2, <1>n, MaybeListed DEF Maybe
<1>8. MaybeIs(C, ext, e, 11)  BY Zenon, <1>3, <1>n, MaybeListed DEF Maybe
<1>9. AttrList(D) /\ Once(D, h.type, h) /\ \A t : t # h.type => Never(D, t)
  BY Zenon, OneListed
<1>10. Measured(D, z)  BY Zenon, <1>4, <1>5, OneMeasured
<1> PICK AB : AB = A \o B  OBVIOUS
<1> PICK ABC : ABC = AB \o C  OBVIOUS
<1>11. AttrList(AB) /\ Measured(AB, 11 + x)
  <2>1. AttrList(B) /\ Measured(B, x)  BY Zenon, <1>7 DEF MaybeIs
  <2> QED  BY Zenon, <1>6, <2>1, ListsJoin, MeasuresJoin DEF JoinedLists
<1>12. AttrList(ABC) /\ Measured(ABC, (11 + x) + y)
  <2>1. AttrList(C) /\ Measured(C, y)  BY Zenon, <1>8 DEF MaybeIs
  <2> QED  BY Zenon, <1>11, <2>1, ListsJoin, MeasuresJoin DEF JoinedLists
<1>13. AttrList(F) /\ Measured(F, ((11 + x) + y) + z)
  <2>1. AttrList(ABC \o D)  BY Zenon, <1>9, <1>12, ListsJoin DEF JoinedLists
  <2>2. Measured(ABC \o D, ((11 + x) + y) + z)  BY Zenon, <1>9, <1>10, <1>12, MeasuresJoin
  <2>3. F = ABC \o D  BY Zenon, <1>1
  <2> QED  BY Zenon, <2>1, <2>2, <2>3
<1>14. \A t : TypesJoined(AB, A, B, t) /\ TypesJoined(ABC, AB, C, t) /\ TypesJoined(F, ABC, D, t)
  <2> SUFFICES ASSUME NEW t
               PROVE  TypesJoined(AB, A, B, t) /\ TypesJoined(ABC, AB, C, t)
                      /\ TypesJoined(F, ABC, D, t)
    OBVIOUS
  <2>1. AttrList(B) /\ AttrList(C)  BY Zenon, <1>7, <1>8 DEF MaybeIs
  <2>2. TypesJoined(A \o B, A, B, t)  BY Zenon, <2>1, <1>6, TypesJoin
  <2>3. TypesJoined(AB \o C, AB, C, t)  BY Zenon, <2>1, <1>11, TypesJoin
  <2>4. TypesJoined(ABC \o D, ABC, D, t)  BY Zenon, <1>9, <1>12, TypesJoin
  <2> QED  BY Zenon, <1>1, <2>2, <2>3, <2>4
<1>15. ASSUME NEW t, t \notin {"ORIGIN", "MED", "LOC_PREF", "EXT_COMM", h.type} PROVE Never(F, t)
  <2>1. Never(A, t)  BY Zenon, <1>6, <1>15
  <2>2. Never(B, t)
    <3>1. t # p.type  BY Zenon, <1>2, <1>15
    <3> QED  BY Zenon, <1>7, <3>1 DEF MaybeIs
  <2>3. Never(C, t)
    <3>1. t # e.type  BY Zenon, <1>3, <1>15
    <3> QED  BY Zenon, <1>8, <3>1 DEF MaybeIs
  <2>4. Never(D, t)  BY Zenon, <1>9, <1>15
  <2> QED  BY Zenon, <1>14, <2>1, <2>2, <2>3, <2>4 DEF TypesJoined
<1>16. \A t \in {"BGPSEC", "AS_PATH", "AS4_PATH"} : Never(F, t)
  <2> SUFFICES ASSUME NEW t \in {"BGPSEC", "AS_PATH", "AS4_PATH"} PROVE Never(F, t)  OBVIOUS
  <2>1. h.type \in {"MP_REACH_NLRI", "NEXT_HOP"}  BY Zenon, <1>4
  <2>2. t \notin {"ORIGIN", "MED", "LOC_PREF", "EXT_COMM", "MP_REACH_NLRI", "NEXT_HOP"}  OBVIOUS
  <2>3. t \notin {"ORIGIN", "MED", "LOC_PREF", "EXT_COMM", h.type}  BY <2>1, <2>2
  <2> QED  BY Zenon, <2>3, <1>15
<1>17. IF mp THEN Once(F, "MP_REACH_NLRI", MpReach(nlri)) ELSE Never(F, "MP_REACH_NLRI")
  <2>1. CASE mp
    <3> PICK t : t = "MP_REACH_NLRI"  OBVIOUS
    <3>1. h = MpReach(nlri) /\ h.type = t  BY Zenon, <1>4, <2>1
    <3>2. t \notin {"ORIGIN", "MED"} /\ t # "LOC_PREF" /\ t # "EXT_COMM"  OBVIOUS
    <3>3. Never(A, t)  BY Zenon, <1>6, <3>2
    <3>4. Never(B, t)  BY Zenon, <1>2, <1>7, <3>2 DEF MaybeIs
    <3>5. Never(C, t)  BY Zenon, <1>3, <1>8, <3>2 DEF MaybeIs
    <3>6. Once(D, t, h)  BY Zenon, <1>9, <3>1
    <3>7. Never(ABC, t)  BY Zenon, <1>14, <3>3, <3>4, <3>5 DEF TypesJoined
    <3>8. Once(F, t, h)  BY Zenon, <1>14, <3>6, <3>7 DEF TypesJoined
    <3> QED  BY Zenon, <2>1, <3>1, <3>8
  <2>2. CASE ~mp
    <3>1. h.type = "NEXT_HOP"  BY Zenon, <1>4, <2>2
    <3>2. "MP_REACH_NLRI" \notin {"ORIGIN", "MED", "LOC_PREF", "EXT_COMM", h.type}  BY <3>1
    <3> QED  BY Zenon, <1>15, <2>2, <3>2
  <2> QED  BY Zenon, <2>1, <2>2
<1>18. h.type # "LOC_PREF" /\ h.type # "EXT_COMM"
  <2>1. h.type \in {"MP_REACH_NLRI", "NEXT_HOP"}  BY Zenon, <1>4
  <2> QED  BY <2>1
<1>19. IF pref THEN \E a : Once(F, "LOC_PREF", a) ELSE Never(F, "LOC_PREF")
  <2> PICK t : t = "LOC_PREF"  OBVIOUS
  <2>1. t \notin {"ORIGIN", "MED"} /\ t # "EXT_COMM"  OBVIOUS
  <2>2. Never(A, t) /\ Never(D, t)  BY Zenon, <1>6, <1>9, <1>18, <2>1
  <2>3. Never(C, t)  BY Zenon, <1>3, <1>8, <2>1 DEF MaybeIs
  <2>4. CASE pref
    <3>1. Once(B, t, p)  BY Zenon, <1>2, <1>7, <2>4 DEF MaybeIs
    <3>2. Once(AB, t, p)  BY Zenon, <1>14, <2>2, <3>1 DEF TypesJoined
    <3>3. Once(ABC, t, p)  BY Zenon, <1>14, <2>3, <3>2 DEF TypesJoined
    <3>4. Once(F, t, p)  BY Zenon, <1>14, <2>2, <3>3 DEF TypesJoined
    <3> QED  BY Zenon, <2>4, <3>4
  <2>5. CASE ~pref
    <3>1. Never(B, t)  BY Zenon, <1>2, <1>7, <2>5 DEF MaybeIs
    <3>2. Never(F, t)  BY Zenon, <1>14, <2>2, <2>3, <3>1 DEF TypesJoined
    <3> QED  BY Zenon, <2>5, <3>2
  <2> QED  BY Zenon, <2>4, <2>5
<1>20. IF ext THEN Once(F, "EXT_COMM", e) ELSE Never(F, "EXT_COMM")
  <2> PICK t : t = "EXT_COMM"  OBVIOUS
  <2>1. t \notin {"ORIGIN", "MED"} /\ t # "LOC_PREF"  OBVIOUS
  <2>2. Never(A, t) /\ Never(D, t)  BY Zenon, <1>6, <1>9, <1>18, <2>1
  <2>3. Never(B, t)  BY Zenon, <1>2, <1>7, <2>1 DEF MaybeIs
  <2>4. CASE ext
    <3>1. Once(C, t, e)  BY Zenon, <1>3, <1>8, <2>4 DEF MaybeIs
    <3>2. Never(AB, t)  BY Zenon, <1>14, <2>2, <2>3 DEF TypesJoined
    <3>3. Once(ABC, t, e)  BY Zenon, <1>14, <3>1, <3>2 DEF TypesJoined
    <3>4. Once(F, t, e)  BY Zenon, <1>14, <2>2, <3>3 DEF TypesJoined
    <3> QED  BY Zenon, <2>4, <3>4
  <2>5. CASE ~ext
    <3>1. Never(C, t)  BY Zenon, <1>3, <1>8, <2>5 DEF MaybeIs
    <3>2. Never(F, t)  BY Zenon, <1>14, <2>2, <2>3, <3>1 DEF TypesJoined
    <3> QED  BY Zenon, <2>5, <3>2
  <2> QED  BY Zenon, <2>4, <2>5
<1>21. FixedLength(localPref, nlri, mp, val) = ((11 + x) + y) + z
  BY Zenon, PartsAddUp DEF FixedLength
<1>22. AttrList(F) /\ Measured(F, FixedLength(localPref, nlri, mp, val))
  BY Zenon, <1>13, <1>21
<1> QED  BY Zenon, <1>16, <1>17, <1>19, <1>20, <1>22 DEF FixedAre

-----------------------------------------------------------------------------
(* The message that is built                                               *)

(* What a message has of the attributes of a path.                         *)
CopiesOf(s) == [i \in DOMAIN s |-> Copied(s[i])]

Kept(a, n) ==
  /\ n \in Nat /\ n > 0
  /\ getPathAttributeSize(a) = n /\ getPathAttributeSize(Copied(a)) = n

PathParts(P, Q, n) ==
  /\ AttrList(P) /\ AttrList(Q) /\ n \in Nat
  /\ Q = CopiesOf(P)
  /\ Measured(P, n) /\ Measured(Q, n)

LEMMA OneCopied == ASSUME NEW a PROVE CopiesOf(<<a>>) = <<Copied(a)>>
<1> DEFINE Q == CopiesOf(<<a>>)
<1>1. DOMAIN <<a>> = 1..1 /\ \A i \in 1..1 : <<a>>[i] = a  OBVIOUS
<1>2. Q = [i \in 1..1 |-> Copied(<<a>>[i])]  BY Zenon, <1>1 DEF CopiesOf
<1>3. \A i \in 1..1 : Copied(<<a>>[i]) = Copied(a)  BY Zenon, <1>1
<1> PICK c : c = Copied(a)  OBVIOUS
<1> HIDE DEF Q
<1>4. Q = [i \in 1..1 |-> c]  BY <1>2, <1>3
<1>5. Q = <<c>>  BY <1>4
<1> QED  BY Zenon, <1>5 DEF Q

LEMMA OnePart ==
  ASSUME NEW a, NEW n, Kept(a, n)
  PROVE  PathParts(<<a>>, <<Copied(a)>>, n)
<1> PICK c : c = Copied(a)  OBVIOUS
<1>1. /\ n \in Nat /\ n > 0 /\ getPathAttributeSize(a) = n /\ getPathAttributeSize(c) = n
  BY Zenon DEF Kept
<1>2. Measured(<<a>>, n) /\ Measured(<<c>>, n)  BY Zenon, <1>1, OneMeasured
<1>3. AttrList(<<a>>) /\ AttrList(<<c>>)  BY Zenon, OneListed
<1>4. <<c>> = CopiesOf(<<a>>)  BY Zenon, OneCopied
<1> QED  BY Zenon, <1>1, <1>2, <1>3, <1>4 DEF PathParts

(* Copies go over joining.                                                 *)
LEMMA CopiesJoin ==
  ASSUME NEW a, NEW b, AttrList(a), AttrList(b)
  PROVE  CopiesOf(a \o b) = CopiesOf(a) \o CopiesOf(b) /\ AttrList(CopiesOf(a))
<1> PICK c : c = a \o b  OBVIOUS
<1> PICK x : x = CopiesOf(a)  OBVIOUS
<1> PICK y : y = CopiesOf(b)  OBVIOUS
<1> PICK z : z = CopiesOf(c)  OBVIOUS
<1> PICK m : m = Len(a)  OBVIOUS
<1> PICK n : n = Len(b)  OBVIOUS
<1>0. JoinedLists(a, b) /\ PlaceJoined(c, a, b)  BY Zenon, ListsJoin, PlacesJoin
<1>1. /\ DOMAIN a = 1..m /\ DOMAIN b = 1..n /\ DOMAIN c = 1..Len(c)
      /\ m \in Nat /\ n \in Nat /\ Len(c) = m + n
  BY Zenon, <1>0 DEF JoinedLists
<1>2. /\ \A i \in DOMAIN a : i \in DOMAIN c /\ c[i] = a[i]
      /\ \A i \in DOMAIN b : m + i \in DOMAIN c /\ c[m + i] = b[i]
  BY Zenon, <1>0 DEF PlaceJoined
<1>3. /\ DOMAIN x = 1..m /\ x = [i \in 1..m |-> Copied(a[i])]
      /\ DOMAIN y = 1..n /\ y = [i \in 1..n |-> Copied(b[i])]
      /\ DOMAIN z = 1..(m + n) /\ z = [i \in 1..(m + n) |-> Copied(c[i])]
  <2>1. DOMAIN c = 1..(m + n)  BY Zenon, <1>1
  <2>2. x = [i \in 1..m |-> Copied(a[i])]  BY Zenon, <1>1 DEF CopiesOf
  <2>3. y = [i \in 1..n |-> Copied(b[i])]  BY Zenon, <1>1 DEF CopiesOf
  <2>4. z = [i \in 1..(m + n) |-> Copied(c[i])]  BY Zenon, <2>1 DEF CopiesOf
  <2> QED  BY Zenon, <2>2, <2>3, <2>4
<1>4. /\ \A i \in 1..m : x[i] = Copied(a[i])
      /\ \A i \in 1..n : y[i] = Copied(b[i])
      /\ \A i \in 1..(m + n) : z[i] = Copied(c[i])
  BY Zenon, <1>3
<1> PICK S : S = {x[i] : i \in 1..m} \cup {y[i] : i \in 1..n} \cup {z[i] : i \in 1..(m + n)}
  OBVIOUS
<1>5. /\ \A i \in 1..m : x[i] \in S
      /\ \A i \in 1..n : y[i] \in S
      /\ \A i \in 1..(m + n) : z[i] \in S
  OBVIOUS
<1>6. m + n \in Nat  BY <1>1
<1>7. x \in [1..m -> S] /\ y \in [1..n -> S] /\ z \in [1..(m + n) -> S]
  <2>1. \A f, k : f = [i \in 1..k |-> Copied(a[i])] /\ (\A i \in 1..k : f[i] \in S) => f \in [1..k -> S]
    OBVIOUS
  <2>2. \A f, k : f = [i \in 1..k |-> Copied(b[i])] /\ (\A i \in 1..k : f[i] \in S) => f \in [1..k -> S]
    OBVIOUS
  <2>3. \A f, k : f = [i \in 1..k |-> Copied(c[i])] /\ (\A i \in 1..k : f[i] \in S) => f \in [1..k -> S]
    OBVIOUS
  <2>4. x \in [1..m -> S]  BY Zenon, <1>3, <1>5, <2>1
  <2>5. y \in [1..n -> S]  BY Zenon, <1>3, <1>5, <2>2
  <2>6. z \in [1..(m + n) -> S]  BY Zenon, <1>3, <1>5, <2>3
  <2> QED  BY Zenon, <2>4, <2>5, <2>6
<1>8. /\ x \in Seq(S) /\ Len(x) = m /\ y \in Seq(S) /\ Len(y) = n
      /\ z \in Seq(S) /\ Len(z) = m + n
  <2>1. x \in Seq(S) /\ y \in Seq(S) /\ z \in Seq(S)  BY Zenon, <1>1, <1>6, <1>7, FunctionIsSeq
  <2>2. \A f \in Seq(S) : \A k \in Nat : DOMAIN f = 1..k => Len(f) = k  BY LenProperties
  <2> QED  BY Zenon, <1>1, <1>3, <1>6, <2>1, <2>2
<1>9. Joins(z, x, y)
  <2>1. \A i \in 1..m : z[i] = x[i]
    <3> SUFFICES ASSUME NEW i \in 1..m PROVE z[i] = x[i]  OBVIOUS
    <3>1. i \in 1..(m + n)  BY <1>1
    <3> QED  BY Zenon, <1>1, <1>2, <1>4, <3>1
  <2>2. \A i \in 1..n : z[m + i] = y[i]
    <3> SUFFICES ASSUME NEW i \in 1..n PROVE z[m + i] = y[i]  OBVIOUS
    <3>1. m + i \in 1..(m + n)  BY <1>1
    <3> QED  BY Zenon, <1>1, <1>2, <1>4, <3>1
  <2> QED  BY Zenon, <1>8, <2>1, <2>2 DEF Joins
<1>10. x \o y \in Seq(S) /\ Joins(x \o y, x, y)  BY Zenon, <1>8, ConcatParts
<1>11. z = x \o y  BY Zenon, <1>8, <1>9, <1>10, JoinsOnce
<1>12. AttrList(x)  BY Zenon, <1>8 DEF AttrList
<1> QED  BY Zenon, <1>11, <1>12

LEMMA TwoParts ==
  ASSUME NEW a, NEW m, Kept(a, m), NEW b, NEW n, Kept(b, n)
  PROVE  PathParts(<<a>> \o <<b>>, <<Copied(a)>> \o <<Copied(b)>>, m + n)
<1>1. PathParts(<<a>>, <<Copied(a)>>, m) /\ PathParts(<<b>>, <<Copied(b)>>, n)
  BY Zenon, OnePart
<1>2. /\ AttrList(<<a>>) /\ AttrList(<<b>>) /\ Measured(<<a>>, m) /\ Measured(<<b>>, n)
      /\ AttrList(<<Copied(a)>>) /\ AttrList(<<Copied(b)>>)
      /\ Measured(<<Copied(a)>>, m) /\ Measured(<<Copied(b)>>, n)
      /\ <<Copied(a)>> = CopiesOf(<<a>>) /\ <<Copied(b)>> = CopiesOf(<<b>>)
  BY Zenon, <1>1 DEF PathParts
<1>3. m + n \in Nat
  <2>1. m \in Nat /\ n \in Nat  BY Zenon DEF Kept
  <2> QED  BY <2>1
<1>4. AttrList(<<a>> \o <<b>>) /\ AttrList(<<Copied(a)>> \o <<Copied(b)>>)
  BY Zenon, <1>2, ListsJoin DEF JoinedLists
<1>5. Measured(<<a>> \o <<b>>, m + n)  BY Zenon, <1>2, MeasuresJoin
<1>6. Measured(<<Copied(a)>> \o <<Copied(b)>>, m + n)  BY Zenon, <1>2, MeasuresJoin
<1>7. CopiesOf(<<a>> \o <<b>>) = CopiesOf(<<a>>) \o CopiesOf(<<b>>)
  BY Zenon, <1>2, CopiesJoin
<1> QED  BY Zenon, <1>2, <1>3, <1>4, <1>5, <1>6, <1>7 DEF PathParts

(* The attributes in front are copied as they are.                         *)
LEMMA FixedCopied ==
  ASSUME NEW F, AttrList(F), Never(F, "AS_PATH"), Never(F, "AS4_PATH")
  PROVE  CopiesOf(F) = F
<1>1. \A i \in DOMAIN F : Copied(F[i]) = F[i]
  <2> SUFFICES ASSUME NEW i \in DOMAIN F PROVE Copied(F[i]) = F[i]  OBVIOUS
  <2> PICK a : a = F[i]  OBVIOUS
  <2>1. a.type # "AS_PATH" /\ a.type # "AS4_PATH"  BY Zenon DEF Never
  <2>2. a.type \notin {"AS_PATH", "AS4_PATH"}  BY <2>1
  <2> QED  BY Zenon, <2>2, OtherCopied
<1> PICK T : F \in Seq(T)  BY DEF AttrList
<1>2. F = [i \in 1..Len(F) |-> F[i]]  BY Zenon, SeqIsTable
<1>3. DOMAIN F = 1..Len(F)  OBVIOUS
<1>4. F = [i \in DOMAIN F |-> F[i]]  BY Zenon, <1>2, <1>3
<1>5. CopiesOf(F) = [i \in DOMAIN F |-> Copied(F[i])]  BY Zenon DEF CopiesOf
<1> QED  BY <1>1, <1>4, <1>5

-----------------------------------------------------------------------------
(* The message                                                             *)

UsesMp(mpnlri, nlri) == mpnlri \/ nlri.afi = "v6"
PrefixLength(nlri, mp) == IF mp THEN 0 ELSE 1 + numBytes(nlri.bits)
PrefixList(nlri, mp) == IF mp THEN <<>> ELSE <<[bits |-> nlri.bits, prefix |-> nlri.prefix]>>

(* A path that takes this much may make the message too long.              *)
Much == SESS_MIN_MESSAGE_BUFFER - 60
FirstSum(x, y, z, n) == 21 + 2 + 4 + 7 + x + y + z + n
FixedSum(x, z, r) == 11 + x + z + r
ZeroOr(x, k) == x \in {0, k}
UpdateLengths == SizeHeader..(SESS_MIN_MESSAGE_BUFFER + 41)
LengthFits(l, f, p) == l \in UpdateLengths /\ l - 23 - f = p

(* A message made of some attributes in front and the copies of a path's.  *)
MadeOf(m, F, Q, nlri, mp) ==
  /\ m.type = "UPDATE"
  /\ m.length \in UpdateLengths
  /\ m.length - 23 - m.path_attr_length = PrefixLength(nlri, mp)
  /\ m.attrs = F \o Q /\ AttrList(m.attrs) /\ Measured(m.attrs, m.path_attr_length)
  /\ m.nlri = PrefixList(nlri, mp)

LEMMA FirstSums ==
  ASSUME NEW x, ZeroOr(x, 7), NEW y, ZeroOr(y, 7), NEW z, ZeroOr(z, 11), NEW n \in Nat
  PROVE  /\ FirstSum(x, y, z, n) \in Nat
         /\ SESS_MIN_MESSAGE_BUFFER < FirstSum(x, y, z, n) => n > Much
         /\ SESS_MIN_MESSAGE_BUFFER < FirstSum(x, y, z, n)
            \/ FirstSum(x, y, z, n) <= SESS_MIN_MESSAGE_BUFFER
<1> PICK s : s = FirstSum(x, y, z, n)  OBVIOUS
<1>1. s \in Nat /\ s <= n + 59  BY DEF ZeroOr, FirstSum
<1>2. SESS_MIN_MESSAGE_BUFFER = 10240 /\ Much = 10180  BY DEF SESS_MIN_MESSAGE_BUFFER, Much
<1>3. 10240 < s => n > 10180  BY <1>1
<1>4. 10240 < s \/ s <= 10240  BY <1>1
<1>5. SESS_MIN_MESSAGE_BUFFER < s => n > Much  BY <1>2, <1>3
<1>6. SESS_MIN_MESSAGE_BUFFER < s \/ s <= SESS_MIN_MESSAGE_BUFFER  BY <1>2, <1>4
<1> QED  BY Zenon, <1>1, <1>5, <1>6

(* The length that an UPDATE has in the end, typed sizes first.            *)
InBounds(l) == l \in Nat /\ 19 <= l /\ l <= 10281

LEMMA LengthInBounds ==
  ASSUME NEW l, InBounds(l)
  PROVE  l \in UpdateLengths
BY DEF InBounds, UpdateLengths, SizeHeader, SESS_MIN_MESSAGE_BUFFER

LEMMA TypedWithout ==
  ASSUME NEW x \in Nat, NEW z \in Nat, NEW n \in Nat, NEW w \in Nat, w <= 41,
         FirstSum(x, 7, z, n) <= SESS_MIN_MESSAGE_BUFFER
  PROVE  LengthFits(FirstSum(x, 7, z, n) + w, FixedSum(x, z, 7) + n, w)
<1> PICK s : s = FirstSum(x, 7, z, n)  OBVIOUS
<1> PICK f : f = FixedSum(x, z, 7) + n  OBVIOUS
<1>1. s = 34 + 7 + x + z + n  BY DEF FirstSum
<1>2. f = 11 + 7 + x + z + n  BY DEF FixedSum
<1>3. s <= 10240  BY DEF SESS_MIN_MESSAGE_BUFFER
<1> PICK l : l = s + w  OBVIOUS
<1>4. l \in Nat /\ 19 <= l /\ l <= 10281  BY <1>1, <1>3
<1>5. l - 23 - f = w  BY <1>1, <1>2
<1>6. InBounds(l)  BY <1>4 DEF InBounds
<1>7. l \in UpdateLengths  BY Zenon, <1>6, LengthInBounds
<1>8. LengthFits(l, f, w)  BY Zenon, <1>5, <1>7 DEF LengthFits
<1> QED  BY Zenon, <1>8

LEMMA TypedWith ==
  ASSUME NEW x \in Nat, NEW z \in Nat, NEW n \in Nat, NEW r \in Nat, r <= 41,
         FirstSum(x, 0, z, n) <= SESS_MIN_MESSAGE_BUFFER
  PROVE  LengthFits(FirstSum(x, 0, z, n) + r, FixedSum(x, z, r) + n, 0)
<1> PICK s : s = FirstSum(x, 0, z, n)  OBVIOUS
<1> PICK f : f = FixedSum(x, z, r) + n  OBVIOUS
<1>1. s = 34 + 0 + x + z + n  BY DEF FirstSum
<1>2. f = 11 + r + x + z + n  BY DEF FixedSum
<1>3. s <= 10240  BY DEF SESS_MIN_MESSAGE_BUFFER
<1> PICK l : l = s + r  OBVIOUS
<1>4. l \in Nat /\ 19 <= l /\ l <= 10281  BY <1>1, <1>3
<1>5. l - 23 - f = 0  BY <1>1, <1>2
<1>6. InBounds(l)  BY <1>4 DEF InBounds
<1>7. l \in UpdateLengths  BY Zenon, <1>6, LengthInBounds
<1>8. LengthFits(l, f, 0)  BY Zenon, <1>5, <1>7 DEF LengthFits
<1> QED  BY Zenon, <1>8

LEMMA LastWithout ==
  ASSUME NEW x, ZeroOr(x, 7), NEW z, ZeroOr(z, 11), NEW n \in Nat, NEW w \in 1..41,
         FirstSum(x, 7, z, n) <= SESS_MIN_MESSAGE_BUFFER
  PROVE  LengthFits(FirstSum(x, 7, z, n) + w, FixedSum(x, z, 7) + n, w)
<1>1. x \in Nat /\ z \in Nat  BY DEF ZeroOr
<1>2. w \in Nat /\ w <= 41  OBVIOUS
<1> QED  BY Zenon, <1>1, <1>2, TypedWithout

LEMMA LastWith ==
  ASSUME NEW x, ZeroOr(x, 7), NEW z, ZeroOr(z, 11), NEW n \in Nat, NEW r \in 1..41,
         FirstSum(x, 0, z, n) <= SESS_MIN_MESSAGE_BUFFER
  PROVE  LengthFits(FirstSum(x, 0, z, n) + r, FixedSum(x, z, r) + n, 0)
<1>1. x \in Nat /\ z \in Nat  BY DEF ZeroOr
<1>2. r \in Nat /\ r <= 41  OBVIOUS
<1> QED  BY Zenon, <1>1, <1>2, TypedWith

LEMMA PrefixSize ==
  ASSUME NEW nlri, NlriTyped(nlri)
  PROVE  1 + numBytes(nlri.bits) \in 1..41
<1> PICK b : b = numBytes(nlri.bits)  OBVIOUS
<1> PICK k : k = IF nlri.afi = "v4" THEN 4 ELSE 16  OBVIOUS
<1>1. b \in 1..k  BY Zenon, PrefixBytes
<1>2. k \in {4, 16}  OBVIOUS
<1>3. 1 + b \in 1..41  BY <1>1, <1>2
<1> QED  BY Zenon, <1>3

LEMMA MessageBuilt ==
  ASSUME NEW P, NEW Q, NEW n, PathParts(P, Q, n), NEW localPref, NEW nlri, NlriTyped(nlri),
         NEW mpnlri, NEW val, NEW mp, mp = UsesMp(mpnlri, nlri),
         NEW F, F = FixedAttrs(localPref, nlri, mp, val),
         NEW m, m = createUpdateMessage(P, localPref, nlri, mpnlri, val)
  PROVE  /\ m # NoMessage => MadeOf(m, F, Q, nlri, mp)
         /\ m = NoMessage => n > Much
<1> PICK x : x = IF localPref > 0 THEN 7 ELSE 0  OBVIOUS
<1> PICK y : y = IF mp THEN 0 ELSE 7  OBVIOUS
<1> PICK z : z = IF val = "none" THEN 0 ELSE 11  OBVIOUS
<1>1. ZeroOr(x, 7) /\ ZeroOr(y, 7) /\ ZeroOr(z, 11) /\ n \in Nat
  BY DEF PathParts, ZeroOr
<1> PICK l : l = LengthFirst(P, localPref, mp, val)  OBVIOUS
<1>2. SizesOf(P) \in Seq(Nat) /\ Total(SizesOf(P)) = n
  BY Zenon DEF PathParts, Measured
<1>3. l = FirstSum(x, y, z, n)
  BY Zenon, <1>2 DEF LengthFirst, SizesOf, FirstSum
<1>4. /\ l \in Nat
      /\ SESS_MIN_MESSAGE_BUFFER < l => n > Much
      /\ SESS_MIN_MESSAGE_BUFFER < l \/ l <= SESS_MIN_MESSAGE_BUFFER
  BY Zenon, <1>1, <1>3, FirstSums
<1> PICK all : all = F \o P  OBVIOUS
<1> DEFINE written ==
      [type |-> "UPDATE", length |-> LengthLast(l, nlri, mp),
       path_attr_length |-> Total([i \in DOMAIN all |-> getPathAttributeSize(all[i])]),
       attrs |-> [i \in DOMAIN all |-> Copied(all[i])],
       nlri |-> IF mp THEN <<>> ELSE <<[bits |-> nlri.bits, prefix |-> nlri.prefix]>>]
<1>5. m = IF SESS_MIN_MESSAGE_BUFFER < l THEN NoMessage ELSE written
  <2>1. mp = (mpnlri \/ nlri.afi = "v6")  BY Zenon DEF UsesMp
  <2> QED  BY Zenon, <2>1 DEF createUpdateMessage
<1>6. ASSUME ~(SESS_MIN_MESSAGE_BUFFER < l) PROVE MadeOf(m, F, Q, nlri, mp)
  <2>1. m = written  BY Zenon, <1>5, <1>6
  <2>2. /\ m.type = "UPDATE" /\ m.length = LengthLast(l, nlri, mp)
        /\ m.path_attr_length = Total(SizesOf(all)) /\ m.attrs = CopiesOf(all)
        /\ m.nlri = PrefixList(nlri, mp)
    <3> PICK length : length = LengthLast(l, nlri, mp)  OBVIOUS
    <3> PICK total : total = Total(SizesOf(all))  OBVIOUS
    <3> PICK attrs : attrs = CopiesOf(all)  OBVIOUS
    <3> PICK prefixes : prefixes = PrefixList(nlri, mp)  OBVIOUS
    <3>1. m = [type |-> "UPDATE", length |-> length, path_attr_length |-> total,
               attrs |-> attrs, nlri |-> prefixes]
      BY Zenon, <2>1 DEF SizesOf, CopiesOf, PrefixList
    <3> HIDE <2>1
    <3>2. /\ m.type = "UPDATE" /\ m.length = length /\ m.path_attr_length = total
          /\ m.attrs = attrs /\ m.nlri = prefixes
      BY <3>1
    <3> QED  BY Zenon, <3>2
  <2> HIDE DEF written
  <2>3. FixedAre(F, localPref, nlri, mp, val)  BY Zenon, FixedListed
  <2> PICK f : f = FixedLength(localPref, nlri, mp, val)  OBVIOUS
  <2>4. AttrList(F) /\ Measured(F, f) /\ Never(F, "AS_PATH") /\ Never(F, "AS4_PATH")
    <3>1. "AS_PATH" \in {"BGPSEC", "AS_PATH", "AS4_PATH"} /\ "AS4_PATH" \in {"BGPSEC", "AS_PATH", "AS4_PATH"}
      OBVIOUS
    <3> QED  BY Zenon, <2>3, <3>1 DEF FixedAre
  <2>5. /\ AttrList(P) /\ AttrList(Q) /\ Q = CopiesOf(P) /\ Measured(P, n) /\ Measured(Q, n)
    BY Zenon DEF PathParts
  <2>6. m.attrs = F \o Q
    <3>1. CopiesOf(F \o P) = CopiesOf(F) \o CopiesOf(P)  BY Zenon, <2>4, <2>5, CopiesJoin
    <3>2. CopiesOf(F) = F  BY Zenon, <2>4, FixedCopied
    <3> QED  BY Zenon, <2>2, <2>5, <3>1, <3>2
  <2>7. m.path_attr_length = f + n
    <3>1. Measured(F \o P, f + n)  BY Zenon, <2>4, <2>5, MeasuresJoin
    <3> QED  BY Zenon, <2>2, <3>1 DEF Measured
  <2>8. Measured(m.attrs, m.path_attr_length)
    <3>1. Measured(F \o Q, f + n)  BY Zenon, <2>4, <2>5, MeasuresJoin
    <3> QED  BY Zenon, <2>6, <2>7, <3>1
  <2>9. AttrList(m.attrs)
    <3>1. JoinedLists(F, Q)  BY Zenon, <2>4, <2>5, ListsJoin
    <3> QED  BY Zenon, <2>6, <3>1 DEF JoinedLists
  <2>10. l <= SESS_MIN_MESSAGE_BUFFER  BY Zenon, <1>4, <1>6
  <2>11. z = IF val # "none" THEN 11 ELSE 0  BY Zenon
  <2>12. LengthFits(m.length, f + n, PrefixLength(nlri, mp))
    <3>1. CASE mp
      <4> PICK r : r = ReachSize(nlri)  OBVIOUS
      <4>1. r \in 1..41  BY Zenon, MpReachIs
      <4>2. l = FirstSum(x, 0, z, n)  BY Zenon, <1>3, <3>1
      <4>3. f = FixedSum(x, z, r)  BY Zenon, <2>11, <3>1 DEF FixedLength, FixedSum
      <4>4. m.length = l + r  BY Zenon, <2>2, <3>1 DEF LengthLast, ReachSize
      <4>5. LengthFits(l + r, f + n, 0)
        <5>1. FirstSum(x, 0, z, n) <= SESS_MIN_MESSAGE_BUFFER  BY Zenon, <2>10, <4>2
        <5>2. LengthFits(FirstSum(x, 0, z, n) + r, FixedSum(x, z, r) + n, 0)
          BY Zenon, <1>1, <4>1, <5>1, LastWith
        <5> QED  BY Zenon, <4>2, <4>3, <5>2
      <4>6. PrefixLength(nlri, mp) = 0  BY Zenon, <3>1 DEF PrefixLength
      <4> QED  BY Zenon, <4>4, <4>5, <4>6
    <3>2. CASE ~mp
      <4> PICK w : w = 1 + numBytes(nlri.bits)  OBVIOUS
      <4>1. w \in 1..41  BY Zenon, PrefixSize
      <4>2. l = FirstSum(x, 7, z, n)  BY Zenon, <1>3, <3>2
      <4>3. f = FixedSum(x, z, 7)  BY Zenon, <2>11, <3>2 DEF FixedLength, FixedSum
      <4>4. m.length = l + w  BY Zenon, <2>2, <3>2 DEF LengthLast
      <4>5. LengthFits(l + w, f + n, w)
        <5>1. FirstSum(x, 7, z, n) <= SESS_MIN_MESSAGE_BUFFER  BY Zenon, <2>10, <4>2
        <5>2. LengthFits(FirstSum(x, 7, z, n) + w, FixedSum(x, z, 7) + n, w)
          BY Zenon, <1>1, <4>1, <5>1, LastWithout
        <5> QED  BY Zenon, <4>2, <4>3, <5>2
      <4>6. PrefixLength(nlri, mp) = w  BY Zenon, <3>2 DEF PrefixLength
      <4> QED  BY Zenon, <4>4, <4>5, <4>6
    <3> QED  BY Zenon, <3>1, <3>2
  <2> QED  BY Zenon, <2>2, <2>6, <2>7, <2>8, <2>9, <2>12 DEF MadeOf, LengthFits
<1>7. ASSUME SESS_MIN_MESSAGE_BUFFER < l PROVE m = NoMessage /\ n > Much
  BY Zenon, <1>4, <1>5, <1>7
<1>8. ASSUME ~(SESS_MIN_MESSAGE_BUFFER < l) PROVE m # NoMessage
  <2>1. m.type = "UPDATE"  BY Zenon, <1>6, <1>8 DEF MadeOf
  <2>2. NoMessage.type = "none"  BY DEF NoMessage
  <2> QED  BY <2>1, <2>2
<1> QED  BY Zenon, <1>6, <1>7, <1>8

-----------------------------------------------------------------------------
(* The attributes of the path                                              *)

LEMMA CopySizes ==
  ASSUME NEW a, NEW type, NEW body, IsPath(a, type, body)
  PROVE  getPathAttributeSize(Copied(a)) = getPathAttributeSize(a)
<1> PICK ext, l : a = [type |-> type, ext |-> ext, length |-> l, body |-> body]
  BY Zenon DEF IsPath
<1> PICK c : c = Copied(a)  OBVIOUS
<1>1. c = a \/ \E x : c = [a EXCEPT !.body = x]  BY Zenon DEF Copied
<1>2. CASE c = a  BY Zenon, <1>2
<1>3. ASSUME NEW x, c = [a EXCEPT !.body = x]
      PROVE  getPathAttributeSize(c) = getPathAttributeSize(a)
  <2>1. c.ext = a.ext /\ c.length = a.length  BY <1>3
  <2> QED  BY Zenon, <2>1 DEF getPathAttributeSize
<1> QED  BY Zenon, <1>1, <1>2, <1>3

LEMMA SizeBound ==
  ASSUME NEW l \in Nat, NEW k \in Nat, l <= k, NEW h \in {1, 2}
  PROVE  2 + h + l \in Nat /\ 2 + h + l > 0 /\ 2 + h + l <= 4 + k
OBVIOUS

LEMMA SizeWithin ==
  ASSUME NEW a, NEW k \in Nat, a.length \in 0..k
  PROVE  \E n \in Nat : n > 0 /\ n <= 4 + k /\ getPathAttributeSize(a) = n
<1> PICK l : l = a.length  OBVIOUS
<1> PICK h : h = IF a.ext THEN 2 ELSE 1  OBVIOUS
<1>1. getPathAttributeSize(a) = 2 + h + l  BY Zenon DEF getPathAttributeSize
<1>2. l \in Nat /\ l <= k /\ h \in {1, 2}  OBVIOUS
<1>3. 2 + h + l \in Nat /\ 2 + h + l > 0 /\ 2 + h + l <= 4 + k  BY <1>2, SizeBound
<1> QED  BY Zenon, <1>1, <1>3

KeptWithin(a, k) == \E n : Kept(a, n) /\ n <= 4 + k

LEMMA AsPathKept ==
  ASSUME NEW S, NEW path \in Seq(S), NEW R, NEW set \in Seq(R), NEW type, NEW isAS4,
         NEW a, a = generateBGP_PathAttr(type, path, set, isAS4), a # NoAttribute
  PROVE  KeptWithin(a, AttrLength(path, set, isAS4))
<1> PICK k : k = AttrLength(path, set, isAS4)  OBVIOUS
<1>1. k \in Nat  BY Zenon, AttrLengthTyped
<1>2. a.length \in 0..k  BY Zenon, AsPathLength
<1>3. PICK n \in Nat : n > 0 /\ n <= 4 + k /\ getPathAttributeSize(a) = n
  BY Zenon, <1>1, <1>2, SizeWithin
<1>4. \E body : IsPath(a, type, body)  BY Zenon DEF generateBGP_PathAttr, IsPath
<1>5. getPathAttributeSize(Copied(a)) = n  BY Zenon, <1>3, <1>4, CopySizes
<1> QED  BY Zenon, <1>3, <1>5 DEF KeptWithin, Kept

(* A BGPsec attribute has the length of what is in it.                     *)
LEMMA BgpsecLength ==
  ASSUME NEW a, NEW segs, NEW c, OfSegments(a, segs, c), CapiSet(c)
  PROVE  \E nlri, x : /\ a = BgpsecAttr(x) /\ x = Attribute(segs, Signed(segs, c, nlri), c)
                      /\ AttrFacts(x, segs, Signed(segs, c, nlri))
                      /\ Total(Weights(Signed(segs, c, nlri), Len(segs))) \in Nat
<1> PICK nlri : a = BgpsecAttr(Attribute(segs, Signed(segs, c, nlri), c))
  BY Zenon DEF OfSegments
<1>1. segs \in Seq(SegmentRecord)  BY Zenon DEF OfSegments
<1> PICK S : S = Signed(segs, c, nlri)  OBVIOUS
<1>2. DOMAIN S = 1..Len(segs)
      /\ \A k \in 1..Len(segs) : SignedAs(S[k], segs[k].asn, c, Behind(segs, c, nlri, S[k + 1], k))
  BY Zenon, <1>1, SignedFacts
<1>3. AttrFacts(Attribute(segs, S, c), segs, S)  BY Zenon, <1>1, <1>2, AttributeIs
<1>4. Total(Weights(S, Len(segs))) \in Nat
  <2> PICK n : n = Len(segs)  OBVIOUS
  <2>1. n \in Nat  BY <1>1
  <2>2. \A k \in 1..n : S[k].sigLen \in Nat  BY Zenon, <1>2 DEF SignedAs
  <2>3. Weights(S, n) = [k \in 1..n |-> 22 + S[k].sigLen]  BY Zenon DEF Weights
  <2>4. \A k \in 1..n : 22 + S[k].sigLen \in Nat  BY <2>2
  <2>5. Weights(S, n) \in [1..n -> Nat]
    <3> PICK w : w = Weights(S, n)  OBVIOUS
    <3>1. w = [k \in 1..n |-> 22 + S[k].sigLen]  BY Zenon, <2>3
    <3>2. w \in [1..n -> Nat]  BY <2>4, <3>1
    <3> QED  BY Zenon, <3>2
  <2>6. Weights(S, n) \in Seq(Nat)  BY Zenon, <2>1, <2>5, FunctionIsSeq
  <2> QED  BY Zenon, <2>6, TotalIs
<1> QED  BY Zenon, <1>3, <1>4

LEMMA SecuredKept ==
  ASSUME NEW a, NEW segs, NEW c, OfSegments(a, segs, c), CapiSet(c)
  PROVE  /\ a.type = "BGPSEC" /\ Copied(a) = a
         /\ a.length \in Nat /\ KeptWithin(a, a.length)
<1> PICK nlri, x : /\ a = BgpsecAttr(x)
                   /\ AttrFacts(x, segs, Signed(segs, c, nlri))
                   /\ Total(Weights(Signed(segs, c, nlri), Len(segs))) \in Nat
  BY Zenon, BgpsecLength
<1> PICK t : t = Total(Weights(Signed(segs, c, nlri), Len(segs)))  OBVIOUS
<1> PICK n : n = Len(segs)  OBVIOUS
<1>1. n \in Nat
  <2>1. segs \in Seq(SegmentRecord)  BY Zenon DEF OfSegments
  <2> QED  BY <2>1
<1>2. x.length = (2 + 6 * n) + (3 + t)  BY Zenon DEF AttrFacts
<1>3. t \in Nat  BY Zenon
<1>4. x.length \in Nat
  <2> PICK l : l = (2 + 6 * n) + (3 + t)  OBVIOUS
  <2>1. l \in Nat  BY <1>1, <1>3
  <2> QED  BY Zenon, <1>2, <2>1
<1>5. a.length = x.length /\ a.type = "BGPSEC"  BY DEF BgpsecAttr
<1>6. Copied(a) = a
  <2>1. a.type \notin {"AS_PATH", "AS4_PATH"}  BY <1>5
  <2> QED  BY Zenon, <2>1, OtherCopied
<1> PICK k : k = a.length  OBVIOUS
<1>7. k \in Nat /\ k \in 0..k
  <2>1. k \in Nat  BY Zenon, <1>4, <1>5
  <2> QED  BY <2>1
<1>8. PICK i \in Nat : i > 0 /\ i <= 4 + k /\ getPathAttributeSize(a) = i
  BY Zenon, <1>7, SizeWithin
<1>9. Kept(a, i)  BY Zenon, <1>6, <1>8 DEF Kept
<1> QED  BY Zenon, <1>5, <1>6, <1>7, <1>8, <1>9 DEF KeptWithin

(* What becomes of the path of an update.                                  *)
AsPathOf(u) == generateBGP_PathAttr("AS_PATH", MyPath(conf, u.path), u.set, UseAS4)
As4PathOf(u) == generateBGP_PathAttr("AS4_PATH", MyPath(conf, u.path), u.set, TRUE)
As4Needed(u) == ~UseAS4 /\ Has4ByteASN(u)

LengthOf(u, isAS4) == AttrLength(MyPath(conf, u.path), u.set, isAS4)

SecuredPart(u, P, Q, n) ==
  /\ Secured(u) # NoAttribute /\ P = <<Secured(u)>> /\ Q = <<Secured(u)>>
  /\ n <= 4 + Secured(u).length

PlainPart(u, P, Q, n) ==
  /\ Secured(u) = NoAttribute /\ AsPathOf(u) # NoAttribute
  /\ As4Needed(u) => As4PathOf(u) = NoAttribute
  /\ P = <<AsPathOf(u)>> /\ Q = <<Copied(AsPathOf(u))>>
  /\ n <= 4 + LengthOf(u, UseAS4)

BothPart(u, P, Q, n) ==
  /\ Secured(u) = NoAttribute /\ AsPathOf(u) # NoAttribute
  /\ As4Needed(u) /\ As4PathOf(u) # NoAttribute
  /\ P = <<As4PathOf(u)>> \o <<AsPathOf(u)>>
  /\ Q = <<Copied(As4PathOf(u))>> \o <<Copied(AsPathOf(u))>>
  /\ n <= 4 + LengthOf(u, TRUE) + (4 + LengthOf(u, UseAS4))

PathPart(u, P, Q, n) == SecuredPart(u, P, Q, n) \/ PlainPart(u, P, Q, n) \/ BothPart(u, P, Q, n)

LEMMA BoundsAdd ==
  ASSUME NEW m \in Nat, NEW n \in Nat, NEW x \in Nat, NEW y \in Nat, m <= 4 + x, n <= 4 + y
  PROVE  m + n <= 4 + x + (4 + y)
OBVIOUS

LEMMA PathIs ==
  ASSUME NEW u, Writable(u), conf \in Sessions, NEW P, P = PathOf(u, Secured(u)), P # <<>>
  PROVE  \E Q, n : PathParts(P, Q, n) /\ PathPart(u, P, Q, n)
<1> PICK sec : sec = Secured(u)  OBVIOUS
<1> PICK a : a = AsPathOf(u)  OBVIOUS
<1> PICK b : b = As4PathOf(u)  OBVIOUS
<1> PICK path : path = MyPath(conf, u.path)  OBVIOUS
<1>0. u.set \in Seq(Nat) /\ \E S : path \in Seq(S)
  <2>1. u.set \in Seq(Nat)  BY Zenon DEF Writable
  <2> QED  BY Zenon, <2>1, PathIsSeq
<1>1. CASE sec # NoAttribute
  <2>1. P = <<sec>>  BY Zenon, <1>1 DEF PathOf
  <2>2. OfSegments(sec, Segments(path), conf)  BY Zenon, <1>1, SecuredIs
  <2>3. CapiSet(conf)  BY Zenon, ConfiguredTyped
  <2>4. Copied(sec) = sec /\ KeptWithin(sec, sec.length)  BY Zenon, <2>2, <2>3, SecuredKept
  <2>5. PICK n : Kept(sec, n) /\ n <= 4 + sec.length  BY Zenon, <2>4 DEF KeptWithin
  <2>6. PathParts(<<sec>>, <<sec>>, n)  BY Zenon, <2>4, <2>5, OnePart
  <2>7. SecuredPart(u, P, <<sec>>, n)  BY Zenon, <1>1, <2>1, <2>5 DEF SecuredPart
  <2> QED  BY Zenon, <2>1, <2>6, <2>7 DEF PathPart
<1>2. CASE sec = NoAttribute
  <2>1. P = PathAttrs(u)  BY Zenon, <1>2 DEF PathOf
  <2> DEFINE as4 == IF ~UseAS4 /\ Has4ByteASN(u) THEN b ELSE NoAttribute
  <2>2. PathAttrs(u) = IF a = NoAttribute THEN <<>> ELSE IF as4 = NoAttribute THEN <<a>> ELSE <<as4, a>>
    BY Zenon DEF PathAttrs, AsPathOf, As4PathOf
  <2>3. a # NoAttribute  BY Zenon, <2>1, <2>2
  <2>4. KeptWithin(a, LengthOf(u, UseAS4))
    BY Zenon, <1>0, <2>3, AsPathKept DEF AsPathOf, LengthOf
  <2>5. PICK n : Kept(a, n) /\ n <= 4 + LengthOf(u, UseAS4)  BY Zenon, <2>4 DEF KeptWithin
  <2>6. CASE as4 = NoAttribute
    <3>1. P = <<a>>  BY Zenon, <2>1, <2>2, <2>3, <2>6
    <3>2. PathParts(P, <<Copied(a)>>, n)  BY Zenon, <2>5, <3>1, OnePart
    <3>3. As4Needed(u) => b = NoAttribute  BY Zenon, <2>6 DEF As4Needed
    <3>4. PlainPart(u, P, <<Copied(a)>>, n)
      BY Zenon, <1>2, <2>3, <2>5, <3>1, <3>3 DEF PlainPart
    <3> QED  BY Zenon, <3>2, <3>4 DEF PathPart
  <2>7. CASE as4 # NoAttribute
    <3>1. As4Needed(u) /\ b # NoAttribute /\ as4 = b  BY Zenon, <2>7 DEF As4Needed
    <3>2. P = <<b, a>>  BY Zenon, <2>1, <2>2, <2>3, <2>7, <3>1
    <3> HIDE DEF as4
    <3>3. <<b, a>> = <<b>> \o <<a>>  BY SMT
    <3>4. KeptWithin(b, LengthOf(u, TRUE))
      BY Zenon, <1>0, <3>1, AsPathKept DEF As4PathOf, LengthOf
    <3>5. PICK m : Kept(b, m) /\ m <= 4 + LengthOf(u, TRUE)  BY Zenon, <3>4 DEF KeptWithin
    <3> PICK Q : Q = <<Copied(b)>> \o <<Copied(a)>>  OBVIOUS
    <3>6. PathParts(P, Q, m + n)  BY Zenon, <2>5, <3>2, <3>3, <3>5, TwoParts
    <3>7. m + n <= 4 + LengthOf(u, TRUE) + (4 + LengthOf(u, UseAS4))
      <4>1. LengthOf(u, TRUE) \in Nat /\ LengthOf(u, UseAS4) \in Nat
        BY Zenon, <1>0, AttrLengthTyped DEF LengthOf
      <4>2. m \in Nat /\ n \in Nat  BY Zenon, <2>5, <3>5 DEF Kept
      <4> QED  BY Zenon, <2>5, <3>5, <4>1, <4>2, BoundsAdd
    <3>8. BothPart(u, P, Q, m + n)
      BY Zenon, <1>2, <2>3, <3>1, <3>2, <3>3, <3>7 DEF BothPart
    <3> QED  BY Zenon, <3>6, <3>8 DEF PathPart
  <2> QED  BY Zenon, <2>6, <2>7
<1> QED  BY Zenon, <1>1, <1>2

-----------------------------------------------------------------------------
(* The lengths of all messages are bounded                                 *)

(* The UPDATE that is made of an update is within the bound.               *)
LEMMA BuiltFits ==
  ASSUME NEW u, Writable(u), conf \in Sessions, NEW P, P = PathOf(u, Secured(u)), P # <<>>,
         NEW mpnlri, NEW m, m = createUpdateMessage(P, LocalPref, u.nlri, mpnlri, u.validation)
  PROVE  Fits(m)
<1> DEFINE mp == UsesMp(mpnlri, u.nlri)
           F == FixedAttrs(LocalPref, u.nlri, mp, u.validation)
<1>1. PICK Q, n : PathParts(P, Q, n)  BY Zenon, PathIs
<1>2. NlriTyped(u.nlri)  BY Zenon DEF Writable, NlriTyped
<1>3. m # NoMessage => MadeOf(m, F, Q, u.nlri, mp)  BY Zenon, <1>1, <1>2, MessageBuilt
<1>4. CASE m = NoMessage
  BY Zenon, <1>4, NoneFits
<1>5. CASE m # NoMessage
  <2>1. m.type = "UPDATE" /\ m.length \in UpdateLengths  BY Zenon, <1>3, <1>5 DEF MadeOf
  <2> QED  BY <2>1 DEF Fits, UpdateLengths
<1> QED  BY Zenon, <1>4, <1>5

(* The types that depend on what a step takes over from an OPEN.           *)
Taken ==
  /\ holdTime \in {conf.holdTime} \cup {m.hold_time : m \in PeerOpens}
  /\ state \in {"IDLE", "OpenSent", "OpenConfirm", "ESTABLISHED", "CRASHED"}
  /\ peerCap \subseteq Announced
  /\ tries \in 1..MaxTries /\ trying \in BOOLEAN
  /\ heard = NoMessage \/ heard \in PeerOpens

Remaining == Len(left) <= Len(conf.updates)

TypeInv == SentInv /\ OpenInv /\ Taken /\ Remaining /\ Fits(said) /\ Fits(msgBuff)

LEMMA TypeInvTypes == TypeInv => TypeOK
<1> SUFFICES ASSUME TypeInv PROVE TypeOK  OBVIOUS
<1>1. conf \in Sessions /\ Len(left) <= Len(conf.updates) /\ msgBuff.type \in {"none", "UPDATE"}
  BY Zenon DEF TypeInv, SentInv, Configured, Remaining, OpenInv
<1>2. /\ said.type \in {"none", "OPEN", "KEEPALIVE", "NOTIFICATION", "UPDATE"}
      /\ said # NoMessage =>
           said.length \in SizeHeader..(IF said.type = "UPDATE" THEN SESS_MIN_MESSAGE_BUFFER + 41
                                        ELSE SESS_MIN_SEND_BUFF)
  BY Zenon DEF TypeInv, Fits
<1> QED  BY Zenon, <1>1, <1>2 DEF TypeInv, Taken, TypeOK

LEMMA TypeInvInit == Init => TypeInv
<1> SUFFICES ASSUME Init PROVE TypeInv  OBVIOUS
<1>1. SentInv /\ OpenInv  BY Zenon, SentInvInit, OpenInvInit
<1>2. Taken
  <2>1. /\ holdTime = conf.holdTime /\ state = "OpenSent" /\ peerCap = {}
        /\ tries = 1 /\ trying = TRUE /\ heard = NoMessage
    BY DEF Init
  <2>2. MaxTries \in Nat \ {0}  BY SMT, MessageInputs
  <2> QED  BY <2>1, <2>2 DEF Taken
<1>3. Remaining
  <2>1. left = conf.updates /\ conf \in Sessions  BY DEF Init
  <2>2. Len(conf.updates) \in Nat
    <3>1. Configurable(conf)  BY SMT, <2>1, MessageInputs
    <3>2. conf.updates \in Seq({u \in Range(conf.updates) : Writable(u)})
      BY Zenon, <3>1 DEF Configurable
    <3> QED  BY <3>2
  <2> QED  BY <2>1, <2>2 DEF Remaining
<1>4. said = NoMessage /\ msgBuff = NoMessage  BY DEF Init
<1> QED  BY Zenon, <1>1, <1>2, <1>3, <1>4, NoneFits DEF TypeInv

LEMMA TypeInvOpen == TypeInv /\ SendOpen => Taken' /\ Remaining' /\ Fits(said') /\ Fits(msgBuff')
<1> SUFFICES ASSUME TypeInv, SendOpen PROVE Taken' /\ Remaining' /\ Fits(said') /\ Fits(msgBuff')
  OBVIOUS
<1>1. /\ UNCHANGED <<conf, holdTime, state, peerCap, tries, trying, heard, left, msgBuff>>
      /\ said' = createOpenMessage(conf.asn, holdTime, conf.caps)
  BY DEF SendOpen, trafficVars
<1>2. Fits(said')  BY Zenon, <1>1, OpenFits
<1>3. Taken' /\ Remaining'  BY <1>1 DEF TypeInv, Taken, Remaining
<1> QED  BY Zenon, <1>1, <1>2, <1>3 DEF TypeInv

LEMMA TypeInvConfirm == TypeInv /\ Confirm => Taken' /\ Remaining' /\ Fits(said') /\ Fits(msgBuff')
<1> SUFFICES ASSUME TypeInv, Confirm PROVE Taken' /\ Remaining' /\ Fits(said') /\ Fits(msgBuff')
  OBVIOUS
<1>1. /\ UNCHANGED <<conf, holdTime, peerCap, tries, heard, left, msgBuff>>
      /\ said' = createKeepAliveMessge /\ state' = "ESTABLISHED" /\ trying' = FALSE
  BY DEF Confirm, trafficVars
<1>2. Fits(said')  BY Zenon, <1>1, KeepAliveFits
<1>3. Taken' /\ Remaining'  BY <1>1 DEF TypeInv, Taken, Remaining
<1> QED  BY Zenon, <1>1, <1>2, <1>3 DEF TypeInv

LEMMA TypeInvReconnect ==
  TypeInv /\ Reconnect => Taken' /\ Remaining' /\ Fits(said') /\ Fits(msgBuff')
<1> SUFFICES ASSUME TypeInv, Reconnect
             PROVE  Taken' /\ Remaining' /\ Fits(said') /\ Fits(msgBuff')
  OBVIOUS
<1>1. /\ UNCHANGED <<conf, holdTime, peerCap, trying, left, msgBuff>>
      /\ said' = NoMessage /\ heard' = NoMessage /\ state' = "OpenSent"
      /\ tries < MaxTries /\ tries' = tries + 1
  BY DEF Reconnect, trafficVars
<1>2. Fits(said')  BY Zenon, <1>1, NoneFits
<1>3. tries' \in 1..MaxTries
  <2>1. MaxTries \in Nat  BY SMT, MessageInputs
  <2>2. tries \in 1..MaxTries  BY DEF TypeInv, Taken
  <2> QED  BY <1>1, <2>1, <2>2
<1>4. Taken' /\ Remaining'  BY <1>1, <1>3 DEF TypeInv, Taken, Remaining
<1> QED  BY Zenon, <1>1, <1>2, <1>4 DEF TypeInv

LEMMA TypeInvUpdate ==
  TypeInv /\ SendUpdate => Taken' /\ Remaining' /\ Fits(said') /\ Fits(msgBuff')
<1> SUFFICES ASSUME TypeInv, SendUpdate
             PROVE  Taken' /\ Remaining' /\ Fits(said') /\ Fits(msgBuff')
  OBVIOUS
<1>1. /\ UNCHANGED <<conf, holdTime, state, peerCap, tries, trying, heard>>
      /\ left # <<>> /\ left' = Tail(left)
  BY DEF SendUpdate
<1>2. left \in Seq(Scripted(conf)) /\ conf \in Sessions  BY Zenon DEF TypeInv, SentInv, Configured
<1>3. Taken'  BY <1>1 DEF TypeInv, Taken
<1>4. Remaining'
  <2>1. Len(Tail(left)) = Len(left) - 1 /\ Len(left) \in Nat  BY <1>1, <1>2
  <2>2. Len(conf.updates) \in Nat
    <3>1. Configurable(conf)  BY SMT, <1>2, MessageInputs
    <3>2. conf.updates \in Seq({u \in Range(conf.updates) : Writable(u)})
      BY Zenon, <3>1 DEF Configurable
    <3> QED  BY <3>2
  <2>3. Len(left) <= Len(conf.updates)  BY DEF TypeInv, Remaining
  <2> QED  BY <1>1, <2>1, <2>2, <2>3 DEF Remaining
<1> PICK u : u = Head(left)  OBVIOUS
<1>5. Writable(u)
  <2>1. Head(left) \in Scripted(conf)  BY <1>1, <1>2
  <2> QED  BY Zenon, <2>1 DEF Scripted
<1> PICK path : path = PathOf(u, Secured(u))  OBVIOUS
<1>6. \/ said' = NoMessage /\ UNCHANGED msgBuff
      \/ /\ path # <<>>
         /\ \E mpnlri : msgBuff' = BuiltIn(msgBuff, u, path, mpnlri)
         /\ said' = IF msgBuff' # NoMessage /\ Sendable(msgBuff') THEN msgBuff' ELSE NoMessage
  BY Zenon DEF SendUpdate
<1>7. Fits(msgBuff)  BY Zenon DEF TypeInv
<1>8. Fits(msgBuff')
  <2>1. CASE UNCHANGED msgBuff
    BY Zenon, <2>1, <1>7
  <2>2. ASSUME NEW mpnlri, msgBuff' = BuiltIn(msgBuff, u, path, mpnlri), path # <<>>
        PROVE  Fits(msgBuff')
    <3> PICK m : m = createUpdateMessage(path, LocalPref, u.nlri, mpnlri, u.validation)  OBVIOUS
    <3>1. Fits(m)  BY Zenon, <2>2, <1>2, <1>5, BuiltFits
    <3>2. msgBuff' = msgBuff \/ msgBuff' = m  BY Zenon, <2>2 DEF BuiltIn
    <3> QED  BY Zenon, <3>1, <3>2, <1>7
  <2> QED  BY Zenon, <1>6, <2>1, <2>2
<1>9. said' = NoMessage \/ said' = msgBuff'  BY Zenon, <1>6
<1> QED  BY Zenon, <1>3, <1>4, <1>8, <1>9, NoneFits

LEMMA InputsTyped ==
  ASSUME NEW m \in PeerOpens \cup Others
  PROVE  m.length \in Nat
<1> PICK n : n = m.length  OBVIOUS
<1>1. m.length \in SizeHeader..65535  BY SMT, MessageInputs
<1>2. SizeHeader \in Nat  BY DEF SizeHeader
<1>3. n \in Nat  BY <1>1, <1>2
<1> QED  BY Zenon, <1>3

LEMMA StatesNamed ==
  /\ \A s : s \in {"IDLE", "OpenSent", "OpenConfirm", "CRASHED"} =>
            s \in {"IDLE", "OpenSent", "OpenConfirm", "ESTABLISHED", "CRASHED"}
  /\ \A s : s \in {"IDLE", "ESTABLISHED"} =>
            s \in {"IDLE", "OpenSent", "OpenConfirm", "ESTABLISHED", "CRASHED"}
  OBVIOUS

(* What an OPEN that is judged leaves behind.                              *)
LEMMA JudgedTyped ==
  ASSUME TypeInv, NEW m \in PeerOpens, Judge(m)
  PROVE  /\ holdTime' \in {conf.holdTime} \cup {o.hold_time : o \in PeerOpens}
         /\ peerCap' \subseteq Announced
         /\ Fits(said')
<1>1. holdTime' = m.hold_time \/ holdTime' = holdTime  BY Zenon DEF Judge
<1>2. holdTime' \in {conf.holdTime} \cup {o.hold_time : o \in PeerOpens}
  <2>1. holdTime \in {conf.holdTime} \cup {o.hold_time : o \in PeerOpens}
    BY Zenon DEF TypeInv, Taken
  <2> QED  BY <1>1, <2>1
<1> PICK read : read = ReadOpen(m)  OBVIOUS
<1>3. peerCap' \subseteq Announced
  <2>1. peerCap' = read.peerCap  BY Zenon DEF Judge, PeerCap
  <2>2. read.peerCap \subseteq Announced  BY Zenon, PeerCapAnnounced
  <2> QED  BY Zenon, <2>1, <2>2
<1> PICK missing : missing = MissingCaps(read.peerCap)  OBVIOUS
<1>4. \/ Refuse(state, "OPEN_MESSAGE", read.stopped, 0, <<>>)
      \/ Refuse(state, "OPEN_MESSAGE", "BAD_PEERAS", 0, <<>>)
      \/ Refuse("OpenConfirm", "OPEN_MESSAGE", "UNSUPPORTED_CAPABILITY", SizeOfCaps(missing),
                missing)
      \/ UNCHANGED said
  BY Zenon DEF Judge
<1>5. SizeOfCaps(missing) \in Nat /\ 0 \in Nat
  <2>1. SizeOfCaps(MissingCaps(read.peerCap)) \in Nat  BY Zenon, MissingAre
  <2> QED  BY Zenon, <2>1
<1>6. Fits(said)  BY Zenon DEF TypeInv
<1>7. Fits(said')  BY Zenon, <1>4, <1>5, <1>6, RefusalFits
<1> QED  BY Zenon, <1>2, <1>3, <1>7

LEMMA TypeInvOpenSent ==
  ASSUME TypeInv, NEW m \in PeerOpens \cup Others, HearInOpenSent(m)
  PROVE  Taken' /\ Remaining' /\ Fits(said') /\ Fits(msgBuff')
<1>1. /\ UNCHANGED <<conf, tries, left, msgBuff>> /\ state = "OpenSent" /\ trying
      /\ heard' = IF m.type = "OPEN" THEN m ELSE heard
  BY DEF HearInOpenSent, trafficVars
<1>2. m.type = "OPEN" => m \in PeerOpens
  <2>1. m \in Others => m.type # "OPEN"  BY SMT, MessageInputs
  <2> QED  BY Zenon, <2>1
<1>3. m.length \in Nat /\ 0 \in Nat  BY Zenon, InputsTyped
<1>4. heard' = NoMessage \/ heard' \in PeerOpens  BY Zenon, <1>1, <1>2 DEF TypeInv, Taken
<1>5. state' \in {"IDLE", "OpenSent", "OpenConfirm", "ESTABLISHED", "CRASHED"}
  BY Zenon, HeardOpenSent, StatesNamed
<1>6. Fits(said) /\ Taken  BY Zenon DEF TypeInv
<1> DEFINE Heard == /\ holdTime' \in {conf.holdTime} \cup {o.hold_time : o \in PeerOpens}
                    /\ peerCap' \subseteq Announced
                    /\ trying' \in BOOLEAN
                    /\ Fits(said')
<1>7. Heard
  <2>1. CASE RefuseHeader(m)
    <3>1. /\ Refuse(state, "MESSAGE_HEADER", HeaderError(m), m.length, <<m.type>>)
          /\ trying' = (trying /\ state # "OpenSent") /\ UNCHANGED <<holdTime, peerCap>>
      BY Zenon, <2>1 DEF RefuseHeader
    <3>2. Fits(said')  BY Zenon, <3>1, <1>3, RefusalFits
    <3>3. trying' = FALSE  BY <3>1, <1>1
    <3> QED  BY <3>1, <3>2, <3>3, <1>6 DEF Taken
  <2>2. CASE ReadOpenMessage(m)
    <3>1. m \in PeerOpens /\ trying' = trying  BY Zenon, <2>2, <1>2 DEF ReadOpenMessage
    <3>2. \/ /\ Refuse(state, "MESSAGE_HEADER", "BAD_LENGTH", m.length, <<m.type>>)
             /\ UNCHANGED <<holdTime, peerCap>>
          \/ /\ Refuse(state, "OPEN_MESSAGE", "VERSION", 0, <<>>)
             /\ UNCHANGED <<holdTime, peerCap>>
          \/ Judge(m)
      BY Zenon, <2>2 DEF ReadOpenMessage
    <3>3. CASE Judge(m)
      BY <3>3, <3>1, <1>6, JudgedTyped DEF Taken
    <3>4. CASE /\ Refuse(state, "MESSAGE_HEADER", "BAD_LENGTH", m.length, <<m.type>>)
               /\ UNCHANGED <<holdTime, peerCap>>
      <4>1. Fits(said')  BY Zenon, <3>4, <1>3, RefusalFits
      <4> QED  BY <3>1, <3>4, <4>1, <1>6 DEF Taken
    <3>5. CASE /\ Refuse(state, "OPEN_MESSAGE", "VERSION", 0, <<>>)
               /\ UNCHANGED <<holdTime, peerCap>>
      <4>1. Fits(said')  BY Zenon, <3>5, <1>3, RefusalFits
      <4> QED  BY <3>1, <3>5, <4>1, <1>6 DEF Taken
    <3> QED  BY Zenon, <3>2, <3>3, <3>4, <3>5
  <2>3. CASE ReadNoOpen(m)
    <3>1. /\ said' = NoMessage /\ trying' = (m.type # "NOTIFICATION")
          /\ UNCHANGED <<holdTime, peerCap>>
      BY Zenon, <2>3 DEF ReadNoOpen
    <3>2. Fits(said')  BY Zenon, <3>1, NoneFits
    <3> QED  BY <3>1, <3>2, <1>6 DEF Taken
  <2> QED  BY Zenon, <2>1, <2>2, <2>3 DEF HearInOpenSent
<1>8. Taken'  BY <1>1, <1>4, <1>5, <1>6, <1>7 DEF Taken
<1>9. Remaining'  BY <1>1 DEF TypeInv, Remaining
<1> QED  BY Zenon, <1>1, <1>7, <1>8, <1>9 DEF TypeInv

LEMMA TypeInvEstablished ==
  ASSUME TypeInv, NEW m \in PeerOpens \cup Others, HearInEstablished(m)
  PROVE  Taken' /\ Remaining' /\ Fits(said') /\ Fits(msgBuff')
<1>1. UNCHANGED <<conf, tries, heard, left, msgBuff>> /\ state = "ESTABLISHED"
  BY DEF HearInEstablished, trafficVars
<1>2. m.length \in Nat /\ 0 \in Nat  BY Zenon, InputsTyped
<1>3. Fits(said) /\ Taken  BY Zenon DEF TypeInv
<1> DEFINE Heard == /\ UNCHANGED <<holdTime, peerCap>> /\ trying' \in BOOLEAN
                    /\ state' \in {"IDLE", "ESTABLISHED"} /\ Fits(said')
<1>4. ASSUME NEW error, NEW subcode, NEW dataLength \in Nat, NEW data,
             Refuse(state, error, subcode, dataLength, data)
      PROVE  state' \in {"IDLE", "ESTABLISHED"} /\ Fits(said')
  <2>1. Fits(said')  BY Zenon, <1>4, RefusalFits
  <2>2. state' \in {"IDLE", state}  BY Zenon, <1>4, RefuseSays
  <2> QED  BY <2>1, <2>2, <1>1
<1>5. Heard
  <2>1. CASE RefuseHeader(m)
    <3>1. /\ Refuse(state, "MESSAGE_HEADER", HeaderError(m), m.length, <<m.type>>)
          /\ trying' = (trying /\ state # "OpenSent") /\ UNCHANGED <<holdTime, peerCap>>
      BY Zenon, <2>1 DEF RefuseHeader
    <3>2. state' \in {"IDLE", "ESTABLISHED"} /\ Fits(said')  BY Zenon, <3>1, <1>2, <1>4
    <3> QED  BY <3>1, <3>2, <1>1
  <2>2. CASE ProcessPacket(m)
    <3>1. UNCHANGED <<holdTime, peerCap, trying>>  BY Zenon, <2>2 DEF ProcessPacket
    <3>2. \/ Refuse(state, "MESSAGE_HEADER", "BAD_LENGTH", 0, <<>>)
          \/ Refuse(state, "FSM", "UNDEFINED", m.length, <<m.type>>)
          \/ Refuse(state, "MESSAGE_HEADER", "BAD_LENGTH", m.length, <<m.type>>)
          \/ state' = "IDLE" /\ UNCHANGED said
          \/ UNCHANGED <<state, said>>
      BY Zenon, <2>2 DEF ProcessPacket
    <3>3. CASE \/ state' = "IDLE" /\ UNCHANGED said
               \/ UNCHANGED <<state, said>>
      BY <3>1, <3>3, <1>1, <1>3 DEF Taken
    <3>4. CASE \/ Refuse(state, "MESSAGE_HEADER", "BAD_LENGTH", 0, <<>>)
               \/ Refuse(state, "FSM", "UNDEFINED", m.length, <<m.type>>)
               \/ Refuse(state, "MESSAGE_HEADER", "BAD_LENGTH", m.length, <<m.type>>)
      <4>1. state' \in {"IDLE", "ESTABLISHED"} /\ Fits(said')  BY Zenon, <3>4, <1>2, <1>4
      <4> QED  BY <3>1, <4>1, <1>3 DEF Taken
    <3> QED  BY Zenon, <3>2, <3>3, <3>4
  <2> QED  BY Zenon, <2>1, <2>2 DEF HearInEstablished
<1>6. state' \in {"IDLE", "OpenSent", "OpenConfirm", "ESTABLISHED", "CRASHED"}
  BY Zenon, <1>5, StatesNamed
<1>7. Taken'  BY <1>1, <1>3, <1>5, <1>6 DEF Taken
<1>8. Remaining'  BY <1>1 DEF TypeInv, Remaining
<1> QED  BY Zenon, <1>1, <1>5, <1>7, <1>8 DEF TypeInv

LEMMA TypeInvNext == TypeInv /\ [Next]_vars => TypeInv'
<1> SUFFICES ASSUME TypeInv, [Next]_vars PROVE TypeInv'  OBVIOUS
<1>1. SentInv' /\ OpenInv'  BY Zenon, SentInvNext, OpenInvNext DEF TypeInv
<1>2. Taken' /\ Remaining' /\ Fits(said') /\ Fits(msgBuff')
  <2>1. CASE UNCHANGED vars
    <3>1. UNCHANGED <<conf, holdTime, state, peerCap, tries, trying, heard, said, left, msgBuff>>
      BY <2>1 DEF vars
    <3>2. Taken' /\ Remaining'  BY <3>1 DEF TypeInv, Taken, Remaining
    <3> QED  BY Zenon, <3>1, <3>2 DEF TypeInv
  <2>2. CASE Next
    BY Zenon, <2>2, TypeInvOpen, TypeInvConfirm, TypeInvReconnect, TypeInvUpdate,
       TypeInvOpenSent, TypeInvEstablished DEF Next, Hear
  <2> QED  BY Zenon, <2>1, <2>2
<1> QED  BY Zenon, <1>1, <1>2 DEF TypeInv, Fits

(* Whatever sessions, updates and messages of the peer there are, no       *)
(* message is longer than the buffer it is written into, but for the 41    *)
(* bytes at most of an UPDATE's prefix and next hop, which createUpdate-   *)
(* Message counts after its check; the other variables have their types    *)
(* and the stack of updates only shrinks (TypeOK).                         *)
THEOREM MessagesFit == Spec => []TypeOK
<1>1. Init => TypeInv  BY TypeInvInit
<1>2. TypeInv /\ [Next]_vars => TypeInv'  BY TypeInvNext
<1>3. TypeInv => TypeOK  BY TypeInvTypes
<1> QED  BY <1>1, <1>2, <1>3, PTL DEF Spec

-----------------------------------------------------------------------------
(* What the printer shows of the attributes                                *)

(* The sizes of the first attributes.                                      *)
LEMMA SizesFirst ==
  ASSUME NEW s, AttrList(s), NEW j \in 0..Len(s)
  PROVE  [i \in 1..j |-> getPathAttributeSize(s[i])] = FirstOf(SizesOf(s), j)
<1>1. \A i \in 1..j : i \in DOMAIN s
  <2> PICK T : s \in Seq(T)  BY Zenon DEF AttrList
  <2>1. DOMAIN s = 1..Len(s) /\ Len(s) \in Nat  OBVIOUS
  <2> QED  BY <2>1
<1> DEFINE size(i) == getPathAttributeSize(s[i])
<1>2. \A i \in 1..j : SizesOf(s)[i] = size(i)  BY <1>1 DEF SizesOf
<1> HIDE DEF size
<1>3. [i \in 1..j |-> size(i)] = FirstOf(SizesOf(s), j)  BY <1>2 DEF FirstOf
<1> QED  BY Zenon, <1>3 DEF size

(* All attributes are read: before the last one the length is not reached. *)
LEMMA AllAttrsRead ==
  ASSUME NEW m, AttrList(m.attrs), Measured(m.attrs, m.path_attr_length)
  PROVE  /\ AttrsRead(m) = Len(m.attrs) /\ Len(m.attrs) \in Nat
         /\ Total([i \in 1..Len(m.attrs) |-> getPathAttributeSize(m.attrs[i])])
            = m.path_attr_length
<1> PICK s, n : s = m.attrs /\ n = m.path_attr_length  OBVIOUS
<1> PICK k : k = Len(s)  OBVIOUS
<1> PICK sizes : sizes = SizesOf(s)  OBVIOUS
<1> DEFINE processed(j) == Total([i \in 1..j |-> getPathAttributeSize(s[i])])
<1>1. /\ sizes \in Seq(Nat) /\ Len(sizes) = k /\ Total(sizes) = n
      /\ \A i \in 1..Len(sizes) : sizes[i] > 0
  BY Zenon DEF Measured
<1>2. k \in Nat
  <2>1. Len(sizes) \in Nat  BY <1>1
  <2> QED  BY Zenon, <1>1, <2>1
<1>3. n \in Nat  BY Zenon, <1>1, TotalIs
<1>4. \A j \in 0..k : processed(j) = Total(FirstOf(sizes, j))  BY Zenon, SizesFirst
<1>5. processed(k) = n
  <2>1. k \in 0..k  BY <1>2
  <2> QED  BY Zenon, <1>1, <1>4, <2>1, TotalEnds
<1>6. \A j \in 0..(k - 1) : processed(j) < n
  <2> SUFFICES ASSUME NEW j \in 0..(k - 1) PROVE processed(j) < n  OBVIOUS
  <2>1. j \in 0..k /\ j \in 0..(Len(sizes) - 1)  BY <1>1, <1>2
  <2> QED  BY Zenon, <1>1, <1>4, <2>1, TotalGrows
<1>7. \A j \in 0..(k - 1) : processed(j) \in Nat
  <2> SUFFICES ASSUME NEW j \in 0..(k - 1) PROVE processed(j) \in Nat  OBVIOUS
  <2>1. j \in 0..k /\ j \in 0..Len(sizes)  BY <1>1, <1>2
  <2> QED  BY Zenon, <1>1, <1>4, <2>1, TotalEnds
<1> DEFINE Read(j) == /\ j = k \/ processed(j) >= n
                      /\ \A i \in 0..(j - 1) : processed(i) < n
<1>8. AttrsRead(m) = CHOOSE j \in 0..k : Read(j)  BY Zenon DEF AttrsRead
<1> HIDE DEF processed
<1>9. Read(k) /\ k \in 0..k  BY <1>2, <1>6
<1>10. \A j \in 0..k : Read(j) => j = k  BY <1>2, <1>3, <1>6, <1>7
<1>11. (CHOOSE j \in 0..k : Read(j)) = k
  <2> HIDE DEF Read
  <2> QED  BY Zenon, <1>9, <1>10
<1> QED  BY Zenon, <1>2, <1>5, <1>8, <1>11 DEF processed

PrintedAs(shown, m, isAS4, nlri) ==
  /\ shown.attrs = [i \in 1..Len(m.attrs) |-> AttrPrinted(m.attrs[i], isAS4)]
  /\ shown.prefixes = Shown(nlri, <<>>)

LEMMA PrefixesRead ==
  ASSUME NEW nlri, NlriTyped(nlri), NEW mp
  PROVE  PrefixesPrinted(PrefixList(nlri, mp), PrefixLength(nlri, mp))
         = Shown(PrefixList(nlri, mp), <<>>)
<1> PICK p : p = PrefixList(nlri, mp)  OBVIOUS
<1> DEFINE sizes == [i \in DOMAIN p |-> 1 + numBytes(p[i].bits)]
<1>1. CASE mp
  <2>1. p = <<>> /\ PrefixLength(nlri, mp) = 0  BY <1>1 DEF PrefixList, PrefixLength
  <2>2. sizes = <<>>  BY <2>1
  <2>3. Total(sizes) = 0  BY Zenon, <2>2, TotalNone
  <2> QED  BY Zenon, <2>1, <2>3 DEF PrefixesPrinted
<1>2. CASE ~mp
  <2> PICK b : b = 1 + numBytes(nlri.bits)  OBVIOUS
  <2>0. b \in Nat
    <3>1. 1 + numBytes(nlri.bits) \in 1..41  BY Zenon, PrefixSize
    <3> QED  BY <3>1
  <2>1. p = <<[bits |-> nlri.bits, prefix |-> nlri.prefix]>> /\ PrefixLength(nlri, mp) = b
    BY Zenon, <1>2 DEF PrefixList, PrefixLength
  <2>2. DOMAIN p = 1..1 /\ p[1].bits = nlri.bits  BY <2>1
  <2>3. \A i \in DOMAIN p : 1 + numBytes(p[i].bits) = b
    <3>1. \A i \in 1..1 : i = 1  OBVIOUS
    <3> QED  BY Zenon, <2>2, <3>1
  <2>4. sizes = [i \in 1..1 |-> b]  BY Zenon, <2>2, <2>3
  <2>5. sizes = <<b>>
    <3> HIDE DEF sizes
    <3> QED  BY <2>4
  <2>6. Total(sizes) = b  BY Zenon, <2>0, <2>5, TotalOne
  <2> QED  BY Zenon, <2>1, <2>6 DEF PrefixesPrinted
<1> QED  BY Zenon, <1>1, <1>2

LEMMA UpdatePrinted ==
  ASSUME NEW m, NEW F, NEW Q, NEW nlri, NlriTyped(nlri), NEW mp, MadeOf(m, F, Q, nlri, mp),
         NEW isAS4
  PROVE  PrintedAs(printBGP_Message(m, isAS4), m, isAS4, PrefixList(nlri, mp))
<1> PICK n : n = AttrsRead(m)  OBVIOUS
<1>1. /\ n = Len(m.attrs) /\ n \in Nat
      /\ Total([i \in 1..n |-> getPathAttributeSize(m.attrs[i])]) = m.path_attr_length
  BY Zenon, AllAttrsRead DEF MadeOf
<1>2. printBGP_Message(m, isAS4) = printUpdateData(m, isAS4)
  <2>1. m.type = "UPDATE"  BY Zenon DEF MadeOf
  <2> QED  BY <2>1 DEF printBGP_Message
<1> PICK rest : rest = PrefixLength(nlri, mp)  OBVIOUS
<1>3. m.length - 23 - m.path_attr_length = rest /\ m.nlri = PrefixList(nlri, mp)
  BY Zenon DEF MadeOf
<1> DEFINE attrs == [i \in 1..n |-> AttrPrinted(m.attrs[i], isAS4)]
<1>4. printUpdateData(m, isAS4) = [attrs |-> attrs, prefixes |-> PrefixesPrinted(m.nlri, rest)]
  BY Zenon, <1>1, <1>3 DEF printUpdateData
<1>5. PrefixesPrinted(m.nlri, rest) = Shown(PrefixList(nlri, mp), <<>>)
  BY Zenon, <1>3, PrefixesRead
<1> PICK shown : shown = printBGP_Message(m, isAS4)  OBVIOUS
<1>6. shown.attrs = attrs /\ shown.prefixes = PrefixesPrinted(m.nlri, rest)
  <2> HIDE DEF attrs
  <2>1. shown = [attrs |-> attrs, prefixes |-> PrefixesPrinted(m.nlri, rest)]
    BY Zenon, <1>2, <1>4
  <2> QED  BY <2>1
<1> QED  BY Zenon, <1>1, <1>5, <1>6 DEF PrintedAs

(* The places in a list that is shown that have a type.                    *)
Those(shown, t) == {i \in DOMAIN shown.attrs : shown.attrs[i].type = t}
Seen(shown, t, seq, set) ==
  \E i \in Those(shown, t) : Those(shown, t) = {i} /\ Says(shown.attrs[i].shown, seq, set)

LEMMA NoneShown ==
  ASSUME NEW m, AttrList(m.attrs), NEW shown, NEW isAS4, NEW nlri,
         PrintedAs(shown, m, isAS4, nlri), NEW t, Never(m.attrs, t)
  PROVE  Those(shown, t) = {}
<1> PICK T : m.attrs \in Seq(T)  BY Zenon DEF AttrList
<1> PICK s : s = m.attrs  OBVIOUS
<1>1. DOMAIN s = 1..Len(s)  OBVIOUS
<1>2. shown.attrs = [i \in 1..Len(s) |-> AttrPrinted(s[i], isAS4)]  BY Zenon DEF PrintedAs
<1>3. \A a : AttrPrinted(a, isAS4).type = a.type  BY DEF AttrPrinted
<1> SUFFICES ASSUME NEW i \in Those(shown, t) PROVE FALSE  BY Zenon
<1>4. i \in 1..Len(s) /\ AttrPrinted(s[i], isAS4).type = t  BY Zenon, <1>2 DEF Those
<1> QED  BY Zenon, <1>1, <1>3, <1>4 DEF Never

LEMMA OneShown ==
  ASSUME NEW m, AttrList(m.attrs), NEW shown, NEW isAS4, NEW nlri,
         PrintedAs(shown, m, isAS4, nlri), NEW t, NEW a, Once(m.attrs, t, a)
  PROVE  /\ Those(shown, t) # {}
         /\ \A seq, set : Says(AttrPrinted(a, isAS4).shown, seq, set) => Seen(shown, t, seq, set)
<1> PICK T : m.attrs \in Seq(T)  BY Zenon DEF AttrList
<1> PICK s : s = m.attrs  OBVIOUS
<1>1. DOMAIN s = 1..Len(s)  OBVIOUS
<1> PICK list : list = shown.attrs  OBVIOUS
<1>2. list = [i \in 1..Len(s) |-> AttrPrinted(s[i], isAS4)]  BY Zenon DEF PrintedAs
<1>3. \A x : AttrPrinted(x, isAS4).type = x.type  BY DEF AttrPrinted
<1>4. PICK i \in DOMAIN s : s[i] = a /\ a.type = t /\ \A j \in DOMAIN s : s[j].type = t => j = i
  BY Zenon DEF Once
<1>5. DOMAIN list = DOMAIN s /\ \A j \in DOMAIN s : list[j] = AttrPrinted(s[j], isAS4)
  BY Zenon, <1>1, <1>2
<1>6. i \in Those(shown, t)  BY Zenon, <1>3, <1>4, <1>5 DEF Those
<1>7. \A j \in Those(shown, t) : j = i  BY Zenon, <1>3, <1>4, <1>5 DEF Those
<1>8. Those(shown, t) = {i}  BY Zenon, <1>6, <1>7
<1>9. list[i] = AttrPrinted(a, isAS4)  BY Zenon, <1>4, <1>5
<1> QED  BY Zenon, <1>6, <1>8, <1>9 DEF Seen

(* What is shown of an update beside its path.                             *)
PrefixSaid(shown, u) ==
  IF Those(shown, "MP_REACH_NLRI") = {}
  THEN shown.prefixes = Shown(<<[bits |-> u.nlri.bits, prefix |-> u.nlri.prefix]>>, <<>>)
  ELSE /\ shown.prefixes = Shown(<<>>, <<>>)
       /\ Seen(shown, "MP_REACH_NLRI",
               <<[afi |-> u.nlri.afi, bits |-> u.nlri.bits, prefix |-> u.nlri.prefix]>>, <<>>)

ValidationSaid(shown, u) ==
  IF u.validation = "none" THEN Those(shown, "EXT_COMM") = {}
  ELSE Seen(shown, "EXT_COMM", <<Validation[u.validation]>>, <<>>)

PrefSaid(shown, c) == (Those(shown, "LOC_PREF") # {}) <=> IBGP(c)

(* A list without sets.                                                    *)
LEMMA ShownSays ==
  ASSUME NEW seq
  PROVE  Says(Shown(seq, <<>>), seq, <<>>)
<1>1. FlattenSeq(<<>>) = <<>>  BY Zenon, FlattenNone
<1> PICK list : list = Shown(seq, <<>>)  OBVIOUS
<1>2. list.ok = TRUE /\ list.seq = seq /\ list.sets = <<>>  BY DEF Shown
<1> QED  BY Zenon, <1>1, <1>2 DEF Says

LEMMA ReachPrinted ==
  ASSUME NEW nlri, NlriTyped(nlri), NEW isAS4
  PROVE  AttrPrinted(MpReach(nlri), isAS4).shown
         = Shown(<<[afi |-> nlri.afi, bits |-> nlri.bits, prefix |-> nlri.prefix]>>, <<>>)
<1> PICK afi, bits, prefix : afi = nlri.afi /\ bits = nlri.bits /\ prefix = nlri.prefix  OBVIOUS
<1> PICK len : len = IF afi = "v4" THEN 4 ELSE 16  OBVIOUS
<1> PICK a : a = MpReach(nlri)  OBVIOUS
<1> PICK body : body = [afi |-> afi, nextHopLen |-> len, bits |-> bits, prefix |-> prefix]  OBVIOUS
<1>1. a.type = "MP_REACH_NLRI" /\ a.body = body
  <2>1. \E n : a = Plain1("MP_REACH_NLRI", n, body)  BY Zenon DEF MpReach
  <2> QED  BY <2>1 DEF Plain1
<1>2. AttrPrinted(a, isAS4).shown = MpReachPrinted(body)
  <2>1. AttrPrinted(a, isAS4).shown = MpReachPrinted(a.body)  BY <1>1 DEF AttrPrinted
  <2> QED  BY Zenon, <1>1, <2>1
<1>3. body.nextHopLen \in {4, 16}  OBVIOUS
<1>4. (IF body.afi = "v4" THEN "v4" ELSE "v6") = afi
  <2>1. afi \in {"v4", "v6"}  BY DEF NlriTyped, MpnlriField
  <2> QED  BY <2>1
<1>5. body.bits = bits /\ body.prefix = prefix  OBVIOUS
<1>6. MpReachPrinted(body) = Shown(<<[afi |-> afi, bits |-> bits, prefix |-> prefix]>>, <<>>)
  BY Zenon, <1>3, <1>4, <1>5 DEF MpReachPrinted
<1> QED  BY Zenon, <1>2, <1>6

LEMMA ValueSaid ==
  ASSUME NEW val, NEW isAS4
  PROVE  Says(AttrPrinted(Plain1("EXT_COMM", 8, val), isAS4).shown, <<val>>, <<>>)
<1> PICK a : a = Plain1("EXT_COMM", 8, val)  OBVIOUS
<1>1. a.type = "EXT_COMM" /\ a.body = val  BY DEF Plain1
<1>2. AttrPrinted(a, isAS4).shown = ValuePrinted(a)  BY <1>1 DEF AttrPrinted
<1>3. ValuePrinted(a) = Shown(<<val>>, <<>>)  BY Zenon, <1>1 DEF ValuePrinted
<1> QED  BY Zenon, <1>2, <1>3, ShownSays

PathOnly(Q) == \A t \in {"MP_REACH_NLRI", "EXT_COMM", "LOC_PREF"} : Never(Q, t)

LEMMA FixedTypesKept ==
  ASSUME NEW F, AttrList(F), NEW Q, AttrList(Q), PathOnly(Q), NEW t,
         t \in {"MP_REACH_NLRI", "EXT_COMM", "LOC_PREF"}
  PROVE  /\ Never(F, t) => Never(F \o Q, t)
         /\ \A x : Once(F, t, x) => Once(F \o Q, t, x)
<1>1. TypesJoined(F \o Q, F, Q, t)  BY Zenon, TypesJoin
<1>2. Never(Q, t)  BY DEF PathOnly
<1> QED  BY Zenon, <1>1, <1>2 DEF TypesJoined

LEMMA FixedShown ==
  ASSUME NEW u, Writable(u), NEW mpnlri, NEW mp, mp = UsesMp(mpnlri, u.nlri),
         NEW F, F = FixedAttrs(LocalPref, u.nlri, mp, u.validation),
         NEW Q, AttrList(Q), PathOnly(Q),
         NEW m, MadeOf(m, F, Q, u.nlri, mp), NEW isAS4,
         NEW shown, PrintedAs(shown, m, isAS4, PrefixList(u.nlri, mp))
  PROVE  PrefixSaid(shown, u) /\ ValidationSaid(shown, u) /\ PrefSaid(shown, conf)
<1> PICK nlri, val, pref : nlri = u.nlri /\ val = u.validation /\ pref = LocalPref  OBVIOUS
<1>1. NlriTyped(nlri)  BY Zenon DEF Writable, NlriTyped
<1>2. FixedAre(F, pref, nlri, mp, val)  BY Zenon, <1>1, FixedListed
<1>3. AttrList(F)  BY Zenon, <1>2 DEF FixedAre
<1>4. m.attrs = F \o Q /\ AttrList(m.attrs)  BY Zenon DEF MadeOf
<1>5. \A t : t \in {"MP_REACH_NLRI", "EXT_COMM", "LOC_PREF"} =>
        /\ Never(F, t) => Never(m.attrs, t)
        /\ \A x : Once(F, t, x) => Once(m.attrs, t, x)
  BY Zenon, <1>3, <1>4, FixedTypesKept
<1>6. PrefixSaid(shown, u)
  <2>1. CASE mp
    <3>1. Once(m.attrs, "MP_REACH_NLRI", MpReach(nlri))  BY Zenon, <1>2, <1>5, <2>1 DEF FixedAre
    <3> PICK seq : seq = <<[afi |-> nlri.afi, bits |-> nlri.bits, prefix |-> nlri.prefix]>>
      OBVIOUS
    <3>2. Says(AttrPrinted(MpReach(nlri), isAS4).shown, seq, <<>>)
      BY Zenon, <1>1, ReachPrinted, ShownSays
    <3>3. Those(shown, "MP_REACH_NLRI") # {} /\ Seen(shown, "MP_REACH_NLRI", seq, <<>>)
      BY Zenon, <1>4, <3>1, <3>2, OneShown
    <3>4. shown.prefixes = Shown(<<>>, <<>>)  BY Zenon, <2>1 DEF PrintedAs, PrefixList
    <3> QED  BY Zenon, <3>3, <3>4 DEF PrefixSaid
  <2>2. CASE ~mp
    <3>1. Never(m.attrs, "MP_REACH_NLRI")  BY Zenon, <1>2, <1>5, <2>2 DEF FixedAre
    <3>2. Those(shown, "MP_REACH_NLRI") = {}  BY Zenon, <1>4, <3>1, NoneShown
    <3>3. shown.prefixes = Shown(<<[bits |-> nlri.bits, prefix |-> nlri.prefix]>>, <<>>)
      BY Zenon, <2>2 DEF PrintedAs, PrefixList
    <3> QED  BY Zenon, <3>2, <3>3 DEF PrefixSaid
  <2> QED  BY Zenon, <2>1, <2>2
<1>7. ValidationSaid(shown, u)
  <2>1. CASE val = "none"
    <3>1. Never(m.attrs, "EXT_COMM")  BY Zenon, <1>2, <1>5, <2>1 DEF FixedAre
    <3>2. Those(shown, "EXT_COMM") = {}  BY Zenon, <1>4, <3>1, NoneShown
    <3> QED  BY Zenon, <2>1, <3>2 DEF ValidationSaid
  <2>2. CASE val # "none"
    <3>1. Once(m.attrs, "EXT_COMM", Plain1("EXT_COMM", 8, Validation[val]))
      BY Zenon, <1>2, <1>5, <2>2 DEF FixedAre
    <3>2. Says(AttrPrinted(Plain1("EXT_COMM", 8, Validation[val]), isAS4).shown,
               <<Validation[val]>>, <<>>)
      BY Zenon, ValueSaid
    <3>3. Seen(shown, "EXT_COMM", <<Validation[val]>>, <<>>)  BY Zenon, <1>4, <3>1, <3>2, OneShown
    <3> QED  BY Zenon, <2>2, <3>3 DEF ValidationSaid
  <2> QED  BY Zenon, <2>1, <2>2
<1>8. PrefSaid(shown, conf)
  <2>1. pref > 0 <=> IBGP(conf)  BY DEF LocalPref, LOC_PREF_DEFAULT
  <2>2. CASE IBGP(conf)
    <3>1. PICK a : Once(m.attrs, "LOC_PREF", a)  BY Zenon, <1>2, <1>5, <2>1, <2>2 DEF FixedAre
    <3>2. Those(shown, "LOC_PREF") # {}  BY Zenon, <1>4, <3>1, OneShown
    <3> QED  BY Zenon, <2>2, <3>2 DEF PrefSaid
  <2>3. CASE ~IBGP(conf)
    <3>1. Never(m.attrs, "LOC_PREF")  BY Zenon, <1>2, <1>5, <2>1, <2>3 DEF FixedAre
    <3>2. Those(shown, "LOC_PREF") = {}  BY Zenon, <1>4, <3>1, NoneShown
    <3> QED  BY Zenon, <2>3, <3>2 DEF PrefSaid
  <2> QED  BY Zenon, <2>2, <2>3
<1> QED  BY Zenon, <1>6, <1>7, <1>8

-----------------------------------------------------------------------------
(* AS numbers in segments                                                  *)

(* Where the k-th segment of n AS numbers ends.                            *)
LastAt(n, k) == IF k < SegmentCount(n) THEN 255 * k ELSE n

Piece(w, a, b) == [i \in 1..(b - a) |-> w[a + i]]

Pieces(w, n) == [k \in 1..SegmentCount(n) |-> Piece(w, LastAt(n, k - 1), LastAt(n, k))]

Wired(asns, isAS4) == [i \in 1..Len(asns) |-> Wire(asns[i], isAS4)]

Cuts(n, c) ==
  /\ c \in Nat /\ (n = 0 <=> c = 0)
  /\ LastAt(n, 0) = 0 /\ LastAt(n, c) = n
  /\ \A k \in 1..c : /\ LastAt(n, k - 1) = 255 * (k - 1)
                     /\ LastAt(n, k - 1) \in 0..LastAt(n, k) /\ LastAt(n, k) \in 0..n
  /\ n % 255 # 0 => LastAt(n, c - 1) < n

LEMMA CutsAre ==
  ASSUME NEW n \in Nat
  PROVE  Cuts(n, SegmentCount(n))
<1> PICK c : c = SegmentCount(n)  OBVIOUS
<1>1. c = IF n > 0 THEN n \div 255 + 1 ELSE 0  BY Zenon DEF SegmentCount
<1> DEFINE at(k) == IF k < c THEN 255 * k ELSE n
<1>2. c \in Nat /\ (n = 0 <=> c = 0)  BY <1>1
<1>3. at(0) = 0 /\ at(c) = n  BY <1>1
<1>4. \A k \in 1..c : /\ at(k - 1) = 255 * (k - 1)
                      /\ at(k - 1) \in 0..at(k) /\ at(k) \in 0..n
  <2> SUFFICES ASSUME NEW k \in 1..c
               PROVE  /\ at(k - 1) = 255 * (k - 1)
                      /\ at(k - 1) \in 0..at(k) /\ at(k) \in 0..n
    OBVIOUS
  <2>1. n > 0 /\ c = n \div 255 + 1  BY <1>1
  <2> QED  BY <2>1
<1>5. n % 255 # 0 => at(c - 1) < n
  <2>1. CASE n = 0
    BY <2>1
  <2>2. CASE n > 0
    <3>1. c = n \div 255 + 1  BY <1>1, <2>2
    <3>2. at(c - 1) = 255 * (n \div 255)  BY <3>1
    <3> QED  BY <3>2
  <2> QED  BY <2>1, <2>2
<1>6. \A k : LastAt(n, k) = at(k)  BY Zenon DEF LastAt
<1> HIDE DEF at
<1>7. LastAt(n, 0) = 0 /\ LastAt(n, c) = n  BY Zenon, <1>3, <1>6
<1>8. \A k \in 1..c : /\ LastAt(n, k - 1) = 255 * (k - 1)
                      /\ LastAt(n, k - 1) \in 0..LastAt(n, k) /\ LastAt(n, k) \in 0..n
  <2> SUFFICES ASSUME NEW k \in 1..c
               PROVE  /\ LastAt(n, k - 1) = 255 * (k - 1)
                      /\ LastAt(n, k - 1) \in 0..LastAt(n, k) /\ LastAt(n, k) \in 0..n
    OBVIOUS
  <2>1. LastAt(n, k - 1) = at(k - 1) /\ LastAt(n, k) = at(k)  BY Zenon, <1>6
  <2> QED  BY Zenon, <1>4, <2>1
<1>9. n % 255 # 0 => LastAt(n, c - 1) < n
  <2>1. LastAt(n, c - 1) = at(c - 1)  BY Zenon, <1>6
  <2> QED  BY Zenon, <1>5, <2>1
<1> QED  BY Zenon, <1>2, <1>7, <1>8, <1>9 DEF Cuts

LEMMA PieceJoins ==
  ASSUME NEW S, NEW w \in Seq(S), NEW b \in 0..Len(w), NEW a \in 0..b
  PROVE  /\ Piece(w, a, b) \in Seq(S) /\ Len(Piece(w, a, b)) = b - a
         /\ FirstOf(w, a) \o Piece(w, a, b) = FirstOf(w, b)
<1>1. Len(w) \in Nat /\ a \in 0..Len(w) /\ b - a \in Nat /\ DOMAIN w = 1..Len(w)  OBVIOUS
<1> PICK p : p = Piece(w, a, b)  OBVIOUS
<1>2. p \in Seq(S) /\ Len(p) = b - a /\ \A i \in 1..(b - a) : p[i] = w[a + i]
  <2>1. \A i \in 1..(b - a) : w[a + i] \in S
    <3> SUFFICES ASSUME NEW i \in 1..(b - a) PROVE w[a + i] \in S  OBVIOUS
    <3>1. a + i \in 1..Len(w)  BY <1>1
    <3> QED  BY <3>1, ElementOfSeq
  <2>2. p \in [1..(b - a) -> S] /\ \A i \in 1..(b - a) : p[i] = w[a + i]  BY <2>1 DEF Piece
  <2>3. p \in Seq(S)  BY Zenon, <1>1, <2>2, FunctionIsSeq
  <2>4. Len(p) = b - a  BY <1>1, <2>2, <2>3, LenProperties
  <2> QED  BY Zenon, <2>2, <2>3, <2>4
<1> PICK x, y : x = FirstOf(w, a) /\ y = FirstOf(w, b)  OBVIOUS
<1>3. x \in Seq(S) /\ Len(x) = a /\ \A i \in 1..a : x[i] = w[i]  BY Zenon, <1>1, FirstOfIs
<1>4. y \in Seq(S) /\ Len(y) = b /\ \A i \in 1..b : y[i] = w[i]  BY Zenon, FirstOfIs
<1>5. Joins(y, x, p)
  <2>1. Len(y) = Len(x) + Len(p)  BY <1>1, <1>2, <1>3, <1>4
  <2>2. \A i \in 1..Len(x) : y[i] = x[i]  BY <1>1, <1>3, <1>4
  <2>3. \A i \in 1..Len(p) : y[Len(x) + i] = p[i]  BY <1>1, <1>2, <1>3, <1>4
  <2> QED  BY Zenon, <2>1, <2>2, <2>3 DEF Joins
<1>6. x \o p \in Seq(S) /\ Joins(x \o p, x, p)  BY Zenon, <1>2, <1>3, ConcatParts
<1>7. x \o p = y  BY Zenon, <1>2, <1>3, <1>4, <1>5, <1>6, JoinsOnce
<1> QED  BY Zenon, <1>2, <1>7

PiecesAre(ps, w, n, c, S) ==
  /\ ps \in Seq(Seq(S)) /\ Len(ps) = c
  /\ \A k \in 1..c : ps[k] = Piece(w, LastAt(n, k - 1), LastAt(n, k))

LEMMA PiecesTyped ==
  ASSUME NEW S, NEW w \in Seq(S), NEW n, n = Len(w)
  PROVE  PiecesAre(Pieces(w, n), w, n, SegmentCount(n), S)
<1> PICK c : c = SegmentCount(n)  OBVIOUS
<1>1. n \in Nat  OBVIOUS
<1>2. Cuts(n, c)  BY Zenon, <1>1, CutsAre
<1>3. \A k \in 1..c : Piece(w, LastAt(n, k - 1), LastAt(n, k)) \in Seq(S)
  BY Zenon, <1>2, PieceJoins DEF Cuts
<1> PICK ps : ps = Pieces(w, n)  OBVIOUS
<1>4. ps = [k \in 1..c |-> Piece(w, LastAt(n, k - 1), LastAt(n, k))]  BY Zenon DEF Pieces
<1>5. ps \in [1..c -> Seq(S)]
      /\ \A k \in 1..c : ps[k] = Piece(w, LastAt(n, k - 1), LastAt(n, k))
  BY <1>3, <1>4
<1>6. c \in Nat  BY Zenon, <1>2 DEF Cuts
<1>7. ps \in Seq(Seq(S))  BY Zenon, <1>5, <1>6, FunctionIsSeq
<1>8. Len(ps) = c  BY <1>5, <1>6, <1>7, LenProperties
<1> QED  BY Zenon, <1>5, <1>7, <1>8 DEF PiecesAre

(* The pieces make the whole.                                              *)
LEMMA PiecesFlatten ==
  ASSUME NEW S, NEW w \in Seq(S), NEW n, n = Len(w)
  PROVE  FlattenSeq(Pieces(w, n)) = w
<1> PICK c : c = SegmentCount(n)  OBVIOUS
<1> PICK ps : ps = Pieces(w, n)  OBVIOUS
<1>1. n \in Nat  OBVIOUS
<1>2. Cuts(n, c)  BY Zenon, <1>1, CutsAre
<1>3. PiecesAre(ps, w, n, c, S)  BY Zenon, PiecesTyped
<1>4. c \in Nat /\ ps \in Seq(Seq(S)) /\ Len(ps) = c  BY Zenon, <1>2, <1>3 DEF Cuts, PiecesAre
<1> DEFINE P == {k \in 0..c : FlattenSeq(FirstOf(ps, k)) = FirstOf(w, LastAt(n, k))}
<1>5. 0 \in P
  <2>1. 0 \in 0..c  BY <1>4
  <2>2. FlattenSeq(FirstOf(ps, 0)) = <<>>  BY Zenon, <1>4, FlattenFront
  <2>3. FirstOf(w, LastAt(n, 0)) = <<>>
    <3>1. LastAt(n, 0) = 0  BY Zenon, <1>2 DEF Cuts
    <3> QED  BY Zenon, <3>1, FirstOfAll
  <2> QED  BY Zenon, <2>1, <2>2, <2>3
<1>6. \A k \in 1..c : k - 1 \in P => k \in P
  <2> SUFFICES ASSUME NEW k \in 1..c, k - 1 \in P PROVE k \in P  OBVIOUS
  <2>1. k \in 0..c  BY <1>4
  <2>2. FlattenSeq(FirstOf(ps, k)) = FlattenSeq(FirstOf(ps, k - 1)) \o ps[k]
    BY Zenon, <1>4, FlattenStep
  <2> PICK a, b : a = LastAt(n, k - 1) /\ b = LastAt(n, k)  OBVIOUS
  <2>3. b \in 0..Len(w) /\ a \in 0..b  BY Zenon, <1>2 DEF Cuts
  <2>4. ps[k] = Piece(w, a, b)  BY Zenon, <1>3 DEF PiecesAre
  <2>5. FirstOf(w, a) \o Piece(w, a, b) = FirstOf(w, b)  BY Zenon, <2>3, PieceJoins
  <2>6. FlattenSeq(FirstOf(ps, k - 1)) = FirstOf(w, a)  BY Zenon
  <2>7. FlattenSeq(FirstOf(ps, k)) = FirstOf(w, b)  BY Zenon, <2>2, <2>4, <2>5, <2>6
  <2> QED  BY Zenon, <2>1, <2>7
<1>7. \A k \in 0..c : k \in P
  <2> HIDE DEF P
  <2> QED  BY Zenon, <1>4, <1>5, <1>6, Upwards
<1>8. c \in 0..c  BY <1>4
<1>9. FlattenSeq(FirstOf(ps, c)) = FirstOf(w, n)  BY Zenon, <1>2, <1>7, <1>8 DEF Cuts
<1>10. FlattenSeq(FirstOf(ps, c)) = FlattenSeq(ps)  BY Zenon, <1>4, FlattenFront
<1>11. FirstOf(w, n) = w  BY Zenon, FirstOfAll
<1> QED  BY Zenon, <1>9, <1>10, <1>11

SegmentSizes(w, n, size) ==
  [k \in 1..SegmentCount(n) |-> 2 + size * Len(Pieces(w, n)[k])]

SizeStep(t, size, k, a, b) == t + (2 + size * (b - a)) = 2 * k + size * b

LEMMA SizeAdds ==
  ASSUME NEW isAS4, NEW size, size = AsnSize(isAS4), NEW k \in Nat \ {0}, NEW b \in Nat, NEW a \in 0..b,
         NEW t, t = 2 * (k - 1) + size * a
  PROVE  /\ SizeStep(t, size, k, a, b)
         /\ 2 + size * (b - a) \in Nat
<1>1. size = 2 \/ size = 4  BY DEF AsnSize
<1>2. CASE size = 2  BY <1>2 DEF SizeStep
<1>3. CASE size = 4  BY <1>3 DEF SizeStep
<1> QED  BY <1>1, <1>2, <1>3

(* The bytes of the segments are those that are announced.                 *)
LEMMA PiecesSize ==
  ASSUME NEW S, NEW w \in Seq(S), NEW n, n = Len(w), NEW isAS4, NEW size, size = AsnSize(isAS4)
  PROVE  /\ SegmentSizes(w, n, size) \in Seq(Nat)
         /\ Len(SegmentSizes(w, n, size)) = SegmentCount(n)
         /\ Total(SegmentSizes(w, n, size)) = 2 * SegmentCount(n) + size * n
<1> PICK c : c = SegmentCount(n)  OBVIOUS
<1> PICK ps : ps = Pieces(w, n)  OBVIOUS
<1> PICK sizes : sizes = SegmentSizes(w, n, size)  OBVIOUS
<1>1. n \in Nat  OBVIOUS
<1>2. Cuts(n, c)  BY Zenon, <1>1, CutsAre
<1>3. PiecesAre(ps, w, n, c, S)  BY Zenon, PiecesTyped
<1>4. c \in Nat  BY Zenon, <1>2 DEF Cuts
<1> DEFINE len(k) == LastAt(n, k) - LastAt(n, k - 1)
<1>5. \A k \in 1..c : Len(ps[k]) = len(k)
  <2> SUFFICES ASSUME NEW k \in 1..c PROVE Len(ps[k]) = len(k)  OBVIOUS
  <2> PICK a, b : a = LastAt(n, k - 1) /\ b = LastAt(n, k)  OBVIOUS
  <2>1. b \in 0..Len(w) /\ a \in 0..b  BY Zenon, <1>2 DEF Cuts
  <2>2. ps[k] = Piece(w, a, b)  BY Zenon, <1>3 DEF PiecesAre
  <2>3. Len(Piece(w, a, b)) = b - a  BY Zenon, <2>1, PieceJoins
  <2> QED  BY Zenon, <2>2, <2>3
<1>6. \A k \in 1..c : /\ LastAt(n, k) \in Nat /\ LastAt(n, k - 1) \in 0..LastAt(n, k)
                      /\ k \in Nat \ {0}
  <2>1. \A k \in 1..c : LastAt(n, k) \in 0..n /\ LastAt(n, k - 1) \in 0..LastAt(n, k)
    BY Zenon, <1>2 DEF Cuts
  <2> QED  BY <1>1, <2>1
<1>7. \A k \in 1..c : 2 + size * len(k) \in Nat
  <2> SUFFICES ASSUME NEW k \in 1..c PROVE 2 + size * len(k) \in Nat  OBVIOUS
  <2>1. PICK t : t = 2 * (k - 1) + size * LastAt(n, k - 1)  OBVIOUS
  <2> QED  BY Zenon, <1>6, <2>1, SizeAdds
<1>8. sizes \in Seq(Nat) /\ Len(sizes) = c /\ \A k \in 1..c : sizes[k] = 2 + size * len(k)
  <2>1. sizes = [k \in 1..c |-> 2 + size * Len(ps[k])]  BY Zenon DEF SegmentSizes
  <2>2. \A k \in 1..c : 2 + size * Len(ps[k]) = 2 + size * len(k)  BY Zenon, <1>5
  <2> HIDE DEF len
  <2>3. sizes = [k \in 1..c |-> 2 + size * len(k)]  BY Zenon, <2>1, <2>2
  <2> DEFINE v(k) == 2 + size * len(k)
  <2>4. \A k \in 1..c : v(k) \in Nat  BY Zenon, <1>7
  <2>5. sizes = [k \in 1..c |-> v(k)]  BY Zenon, <2>3
  <2> HIDE DEF v
  <2>6. sizes \in [1..c -> Nat] /\ \A k \in 1..c : sizes[k] = v(k)  BY <2>4, <2>5
  <2>7. sizes \in Seq(Nat)  BY Zenon, <1>4, <2>6, FunctionIsSeq
  <2>8. Len(sizes) = c  BY <1>4, <2>6, <2>7, LenProperties
  <2> QED  BY Zenon, <2>6, <2>7, <2>8 DEF v
<1> DEFINE P == {k \in 0..c : Total(FirstOf(sizes, k)) = 2 * k + size * LastAt(n, k)}
<1>9. 0 \in P
  <2>1. 0 \in 0..c  BY <1>4
  <2>2. Total(FirstOf(sizes, 0)) = 0  BY Zenon, <1>8, TotalEnds
  <2>3. 2 * 0 + size * LastAt(n, 0) = 0
    <3>1. LastAt(n, 0) = 0  BY Zenon, <1>2 DEF Cuts
    <3>2. size = 2 \/ size = 4  BY DEF AsnSize
    <3> QED  BY <3>1, <3>2
  <2> QED  BY Zenon, <2>1, <2>2, <2>3
<1>10. \A k \in 1..c : k - 1 \in P => k \in P
  <2> SUFFICES ASSUME NEW k \in 1..c, k - 1 \in P PROVE k \in P  OBVIOUS
  <2>1. k \in 0..c  BY <1>4
  <2>2. Total(FirstOf(sizes, k)) = Total(FirstOf(sizes, k - 1)) + sizes[k]
    BY Zenon, <1>8, TotalStep
  <2> PICK t : t = Total(FirstOf(sizes, k - 1))  OBVIOUS
  <2>3. t = 2 * (k - 1) + size * LastAt(n, k - 1)  BY Zenon
  <2>4. t + (2 + size * len(k)) = 2 * k + size * LastAt(n, k)
    <3> PICK a, b : a = LastAt(n, k - 1) /\ b = LastAt(n, k)  OBVIOUS
    <3>1. k \in Nat \ {0} /\ b \in Nat /\ a \in 0..b  BY Zenon, <1>6
    <3>2. t = 2 * (k - 1) + size * a  BY Zenon, <2>3
    <3>3. SizeStep(t, size, k, a, b)  BY Zenon, <3>1, <3>2, SizeAdds
    <3> QED  BY Zenon, <3>3 DEF SizeStep
  <2>5. Total(FirstOf(sizes, k)) = 2 * k + size * LastAt(n, k)  BY Zenon, <1>8, <2>2, <2>4
  <2> QED  BY Zenon, <2>1, <2>5
<1>11. \A k \in 0..c : k \in P
  <2> HIDE DEF P
  <2> QED  BY Zenon, <1>4, <1>9, <1>10, Upwards
<1>12. c \in 0..c  BY <1>4
<1>13. Total(FirstOf(sizes, c)) = 2 * c + size * n  BY Zenon, <1>2, <1>11, <1>12 DEF Cuts
<1>14. Total(FirstOf(sizes, c)) = Total(sizes)  BY Zenon, <1>8, TotalEnds
<1> QED  BY Zenon, <1>8, <1>13, <1>14

LEMMA FlattenSingles ==
  ASSUME NEW S, NEW s \in Seq(S), NEW singles, singles = [k \in 1..Len(s) |-> <<s[k]>>]
  PROVE  singles \in Seq(Seq(S)) /\ Len(singles) = Len(s) /\ FlattenSeq(singles) = s
<1> PICK n : n = Len(s)  OBVIOUS
<1>1. n \in Nat /\ DOMAIN s = 1..n  OBVIOUS
<1>2. singles \in Seq(Seq(S)) /\ Len(singles) = n /\ \A k \in 1..n : singles[k] = <<s[k]>>
  <2>1. \A k \in 1..n : s[k] \in S  BY ElementOfSeq
  <2>2. \A k \in 1..n : <<s[k]>> \in Seq(S)  BY <2>1
  <2>3. singles \in [1..n -> Seq(S)] /\ \A k \in 1..n : singles[k] = <<s[k]>>  BY <2>2
  <2>4. singles \in Seq(Seq(S))  BY Zenon, <1>1, <2>3, FunctionIsSeq
  <2>5. Len(singles) = n  BY <1>1, <2>3, <2>4, LenProperties
  <2> QED  BY Zenon, <2>3, <2>4, <2>5
<1> DEFINE P == {k \in 0..n : FlattenSeq(FirstOf(singles, k)) = FirstOf(s, k)}
<1>3. 0 \in P
  <2>1. 0 \in 0..n  BY <1>1
  <2>2. FlattenSeq(FirstOf(singles, 0)) = <<>>  BY Zenon, <1>2, FlattenFront
  <2>3. FirstOf(s, 0) = <<>>  BY Zenon, FirstOfAll
  <2> QED  BY Zenon, <2>1, <2>2, <2>3
<1>4. \A k \in 1..n : k - 1 \in P => k \in P
  <2> SUFFICES ASSUME NEW k \in 1..n, k - 1 \in P PROVE k \in P  OBVIOUS
  <2>1. k \in 0..n /\ k - 1 \in 0..k /\ k \in 0..Len(s)  BY <1>1
  <2>2. FlattenSeq(FirstOf(singles, k)) = FlattenSeq(FirstOf(singles, k - 1)) \o singles[k]
    BY Zenon, <1>2, FlattenStep
  <2>3. FirstOf(s, k - 1) \o Piece(s, k - 1, k) = FirstOf(s, k)  BY Zenon, <2>1, PieceJoins
  <2>4. Piece(s, k - 1, k) = <<s[k]>>
    <3>1. Piece(s, k - 1, k) = [i \in 1..(k - (k - 1)) |-> s[(k - 1) + i]]  BY Zenon DEF Piece
    <3>2. k - (k - 1) = 1  BY <1>1
    <3>3. \A i \in 1..1 : s[(k - 1) + i] = s[k]
      <4>1. \A i \in 1..1 : (k - 1) + i = k  BY <1>1
      <4> QED  BY Zenon, <4>1
    <3> PICK x : x = s[k]  OBVIOUS
    <3>4. Piece(s, k - 1, k) = [i \in 1..1 |-> x]  BY Zenon, <3>1, <3>2, <3>3
    <3>5. [i \in 1..1 |-> x] = <<x>>  OBVIOUS
    <3> QED  BY Zenon, <3>4, <3>5
  <2>5. FlattenSeq(FirstOf(singles, k - 1)) = FirstOf(s, k - 1)  BY Zenon
  <2>6. FlattenSeq(FirstOf(singles, k)) = FirstOf(s, k)  BY Zenon, <1>2, <2>2, <2>3, <2>4, <2>5
  <2> QED  BY Zenon, <2>1, <2>6
<1>5. \A k \in 0..n : k \in P
  <2> HIDE DEF P
  <2> QED  BY Zenon, <1>1, <1>3, <1>4, Upwards
<1>6. n \in 0..n  BY <1>1
<1>7. FlattenSeq(FirstOf(singles, n)) = FirstOf(s, n)  BY Zenon, <1>5, <1>6
<1>8. FlattenSeq(FirstOf(singles, n)) = FlattenSeq(singles)  BY Zenon, <1>2, FlattenFront
<1>9. FirstOf(s, n) = s  BY Zenon, FirstOfAll
<1> QED  BY Zenon, <1>2, <1>7, <1>8, <1>9

(* The segments of AS numbers w as they are written.                       *)
SegsAre(X, type, isAS4, w, n) ==
  /\ AttrList(X) /\ DOMAIN X = 1..SegmentCount(n) /\ Len(X) = SegmentCount(n)
  /\ \A k \in 1..SegmentCount(n) :
       X[k].type = type /\ X[k].size = AsnSize(isAS4) /\ X[k].asns = Pieces(w, n)[k]

WiredAs(w, n, S) == n \in Nat /\ w \in Seq(S) /\ Len(w) = n

LEMMA WiredTyped ==
  ASSUME NEW S, NEW asns \in Seq(S), NEW isAS4
  PROVE  WiredAs(Wired(asns, isAS4), Len(asns), {Wire(x, isAS4) : x \in S})
<1> PICK w, n : w = Wired(asns, isAS4) /\ n = Len(asns)  OBVIOUS
<1>1. n \in Nat  OBVIOUS
<1> PICK T : T = {Wire(x, isAS4) : x \in S}  OBVIOUS
<1>2. \A i \in 1..n : Wire(asns[i], isAS4) \in T
  <2>1. \A i \in 1..n : asns[i] \in S  BY ElementOfSeq
  <2> QED  BY <2>1
<1>3. w = [i \in 1..n |-> Wire(asns[i], isAS4)]  BY Zenon DEF Wired
<1>4. w \in [1..n -> T]  BY <1>2, <1>3
<1>5. w \in Seq(T)  BY Zenon, <1>1, <1>4, FunctionIsSeq
<1>6. Len(w) = n  BY <1>1, <1>4, <1>5, LenProperties
<1> QED  BY Zenon, <1>1, <1>5, <1>6 DEF WiredAs

LEMMA PathSegmentsAre ==
  ASSUME NEW S, NEW asns \in Seq(S), NEW type, NEW isAS4
  PROVE  SegsAre(PathSegments(type, asns, isAS4), type, isAS4, Wired(asns, isAS4), Len(asns))
<1> PICK w, n : w = Wired(asns, isAS4) /\ n = Len(asns)  OBVIOUS
<1> PICK c : c = SegmentCount(n)  OBVIOUS
<1> PICK X : X = PathSegments(type, asns, isAS4)  OBVIOUS
<1>1. n \in Nat  OBVIOUS
<1>2. Cuts(n, c) /\ c \in Nat
  <2>1. Cuts(n, c)  BY Zenon, <1>1, CutsAre
  <2> QED  BY Zenon, <2>1 DEF Cuts
<1> DEFINE first(k) == 255 * (k - 1) + 1
           last(k) == IF k < c THEN 255 * k ELSE n
           list(k) == [i \in 1..(last(k) - first(k) + 1) |-> Wire(asns[first(k) + i - 1], isAS4)]
           seg(k) == [type |-> type, size |-> AsnSize(isAS4), asns |-> list(k)]
<1>3. X = [k \in 1..c |-> seg(k)]  BY Zenon DEF PathSegments
<1>4. \A k \in 1..c : list(k) = Pieces(w, n)[k]
  <2> SUFFICES ASSUME NEW k \in 1..c PROVE list(k) = Pieces(w, n)[k]  OBVIOUS
  <2> PICK a, b : a = LastAt(n, k - 1) /\ b = LastAt(n, k)  OBVIOUS
  <2>1. a = 255 * (k - 1) /\ a \in 0..b /\ b \in 0..n  BY Zenon, <1>2 DEF Cuts
  <2>2. last(k) = b  BY Zenon DEF LastAt
  <2>3. Pieces(w, n)[k] = Piece(w, a, b)  BY Zenon DEF Pieces
  <2> PICK p, q : p = first(k) /\ q = last(k)  OBVIOUS
  <2>4. q - p + 1 = b - a /\ p = a + 1
    <3>1. p = 255 * (k - 1) + 1  BY Zenon
    <3>2. p = a + 1  BY Zenon, <2>1, <3>1
    <3>3. q = b  BY Zenon, <2>2
    <3> HIDE DEF first, last
    <3>4. a \in Int /\ b \in Int  BY <1>1, <2>1
    <3> QED  BY <3>2, <3>3, <3>4
  <2>5. \A i \in 1..(b - a) : p + i - 1 = a + i /\ a + i \in 1..n
    <3> HIDE DEF first, last, list, seg
    <3> QED  BY <1>1, <2>1, <2>4
  <2>6. \A i \in 1..n : w[i] = Wire(asns[i], isAS4)  BY Zenon DEF Wired
  <2>7. \A i \in 1..(b - a) : Wire(asns[p + i - 1], isAS4) = w[a + i]
    <3> SUFFICES ASSUME NEW i \in 1..(b - a) PROVE Wire(asns[p + i - 1], isAS4) = w[a + i]
      OBVIOUS
    <3> PICK x, y : x = p + i - 1 /\ y = a + i  OBVIOUS
    <3>1. x = y /\ y \in 1..n  BY Zenon, <2>5
    <3>2. w[y] = Wire(asns[y], isAS4)  BY Zenon, <2>6, <3>1
    <3> QED  BY Zenon, <3>1, <3>2
  <2>8. list(k) = [i \in 1..(b - a) |-> w[a + i]]
    <3>1. list(k) = [i \in 1..(q - p + 1) |-> Wire(asns[p + i - 1], isAS4)]  BY Zenon
    <3>2. list(k) = [i \in 1..(b - a) |-> Wire(asns[p + i - 1], isAS4)]  BY Zenon, <2>4, <3>1
    <3> DEFINE own(i) == Wire(asns[p + i - 1], isAS4)
               wired(i) == w[a + i]
    <3>3. \A i \in 1..(b - a) : own(i) = wired(i)  BY Zenon, <2>7
    <3>4. list(k) = [i \in 1..(b - a) |-> own(i)]  BY Zenon, <3>2
    <3> HIDE DEF own, wired, list
    <3>5. list(k) = [i \in 1..(b - a) |-> wired(i)]  BY Zenon, <3>3, <3>4
    <3> QED  BY Zenon, <3>5 DEF wired
  <2> QED  BY Zenon, <2>3, <2>8 DEF Piece
<1> HIDE DEF list
<1>5. \A k \in 1..c : X[k] = seg(k)  BY Zenon, <1>3
<1>6. \A k \in 1..c : seg(k).type = type /\ seg(k).size = AsnSize(isAS4) /\ seg(k).asns = list(k)
  OBVIOUS
<1> HIDE DEF seg
<1>7. X = [k \in 1..c |-> X[k]]  BY Zenon, <1>3
<1>8. X \in Seq({X[k] : k \in 1..c}) /\ Len(X) = c /\ DOMAIN X = 1..c  BY <1>2, <1>7, IsSeq
<1>9. AttrList(X)  BY Zenon, <1>8 DEF AttrList
<1> QED  BY Zenon, <1>4, <1>5, <1>6, <1>8, <1>9 DEF SegsAre

IsTable(c, n) == c = [i \in 1..n |-> c[i]]

IsJoined(c, a, b) == c = a \o b

LEMMA Halves ==
  ASSUME NEW c, NEW S, NEW a \in Seq(S), NEW b \in Seq(S), NEW n, n = Len(a) + Len(b),
         IsTable(c, n), Joins(c, a, b)
  PROVE  IsJoined(c, a, b)
<1> PICK la, lb : la = Len(a) /\ lb = Len(b)  OBVIOUS
<1>1. la \in Nat /\ lb \in Nat /\ n = la + lb /\ n \in Nat  OBVIOUS
<1>2. \A i \in 1..n : c[i] \in S
  <2> SUFFICES ASSUME NEW i \in 1..n PROVE c[i] \in S  OBVIOUS
  <2>1. CASE i \in 1..la
    <3>1. c[i] = a[i]  BY Zenon, <2>1 DEF Joins
    <3>2. a[i] \in S  BY <2>1, ElementOfSeq
    <3> QED  BY Zenon, <3>1, <3>2
  <2>2. CASE i \notin 1..la
    <3> PICK j : j = i - la  OBVIOUS
    <3>1. j \in 1..lb /\ i = la + j  BY <1>1, <2>2
    <3>2. c[i] = b[j]  BY Zenon, <3>1 DEF Joins
    <3>3. b[j] \in S  BY <3>1, ElementOfSeq
    <3> QED  BY Zenon, <3>2, <3>3
  <2> QED  BY Zenon, <2>1, <2>2
<1>3. c \in [1..n -> S]  BY <1>2 DEF IsTable
<1>4. c \in Seq(S)  BY Zenon, <1>1, <1>3, FunctionIsSeq
<1>5. a \o b \in Seq(S) /\ Joins(a \o b, a, b)  BY Zenon, ConcatParts
<1>6. c = a \o b  BY Zenon, <1>4, <1>5, JoinsOnce
<1> QED  BY Zenon, <1>6 DEF IsJoined

(* An AS path as it is written: sequences in front, sets behind.           *)
BodyOf(body, X, Y, isAS4, w1, n1, w2, n2) ==
  /\ body = X \o Y
  /\ SegsAre(X, "SEQUENCE", isAS4, w1, n1) /\ SegsAre(Y, "SET", isAS4, w2, n2)
  /\ (\E S : WiredAs(w1, n1, S)) /\ (\E S : WiredAs(w2, n2, S))

BodyParts(body, isAS4, w1, n1, c1, w2, n2, c2) ==
  /\ c1 \in Nat /\ c2 \in Nat
  /\ DOMAIN body = 1..(c1 + c2) /\ Len(body) = c1 + c2
  /\ \A k \in 1..c1 : /\ body[k].type = "SEQUENCE" /\ body[k].size = AsnSize(isAS4)
                      /\ body[k].asns = Pieces(w1, n1)[k]
  /\ \A k \in 1..c2 : /\ body[c1 + k].type = "SET" /\ body[c1 + k].size = AsnSize(isAS4)
                      /\ body[c1 + k].asns = Pieces(w2, n2)[k]

LEMMA BodyIs ==
  ASSUME NEW body, NEW X, NEW Y, NEW isAS4, NEW w1, NEW n1, NEW w2, NEW n2,
         BodyOf(body, X, Y, isAS4, w1, n1, w2, n2)
  PROVE  BodyParts(body, isAS4, w1, n1, SegmentCount(n1), w2, n2, SegmentCount(n2))
<1> PICK c1, c2 : c1 = SegmentCount(n1) /\ c2 = SegmentCount(n2)  OBVIOUS
<1>1. SegsAre(X, "SEQUENCE", isAS4, w1, n1) /\ SegsAre(Y, "SET", isAS4, w2, n2) /\ body = X \o Y
  BY Zenon DEF BodyOf
<1>2. AttrList(X) /\ AttrList(Y) /\ Len(X) = c1 /\ Len(Y) = c2  BY Zenon, <1>1 DEF SegsAre
<1>3. JoinedLists(X, Y)  BY Zenon, <1>2, ListsJoin
<1>4. /\ Joins(body, X, Y) /\ c1 \in Nat /\ c2 \in Nat
      /\ DOMAIN body = 1..Len(body) /\ Len(body) = c1 + c2
  BY Zenon, <1>1, <1>2, <1>3 DEF JoinedLists
<1>5. /\ \A k \in 1..c1 : body[k] = X[k]
      /\ \A k \in 1..c2 : body[c1 + k] = Y[k]
  BY Zenon, <1>2, <1>4 DEF Joins
<1>6. \A k \in 1..c1 : /\ body[k].type = "SEQUENCE" /\ body[k].size = AsnSize(isAS4)
                       /\ body[k].asns = Pieces(w1, n1)[k]
  BY Zenon, <1>1, <1>5 DEF SegsAre
<1>7. \A k \in 1..c2 : /\ body[c1 + k].type = "SET" /\ body[c1 + k].size = AsnSize(isAS4)
                       /\ body[c1 + k].asns = Pieces(w2, n2)[k]
  <2> SUFFICES ASSUME NEW k \in 1..c2
               PROVE  /\ body[c1 + k].type = "SET" /\ body[c1 + k].size = AsnSize(isAS4)
                      /\ body[c1 + k].asns = Pieces(w2, n2)[k]
    OBVIOUS
  <2> PICK t : t = body[c1 + k]  OBVIOUS
  <2>1. t = Y[k]  BY Zenon, <1>5
  <2>2. t.type = "SET" /\ t.size = AsnSize(isAS4) /\ t.asns = Pieces(w2, n2)[k]
    BY Zenon, <1>1, <2>1 DEF SegsAre
  <2> QED  BY Zenon, <2>2
<1> QED  BY Zenon, <1>4, <1>6, <1>7 DEF BodyParts

SumsTo(size, c1, n1, c2, n2) ==
  (2 * c1 + size * n1) + (2 * c2 + size * n2) = 2 * (c1 + c2) + size * (n1 + n2)

LEMMA SumsMatch ==
  ASSUME NEW isAS4, NEW size, size = AsnSize(isAS4), NEW c1 \in Nat, NEW c2 \in Nat,
         NEW n1 \in Nat, NEW n2 \in Nat
  PROVE  SumsTo(size, c1, n1, c2, n2)
<1>1. size = 2 \/ size = 4  BY DEF AsnSize
<1>2. CASE size = 2  BY <1>2 DEF SumsTo
<1>3. CASE size = 4  BY <1>3 DEF SumsTo
<1> QED  BY <1>1, <1>2, <1>3

BodySum(body, isAS4, n1, n2) ==
  SizeOfSegments(body) = 2 * (SegmentCount(n1) + SegmentCount(n2)) + AsnSize(isAS4) * (n1 + n2)

LEMMA BodySize ==
  ASSUME NEW body, NEW X, NEW Y, NEW isAS4, NEW w1, NEW n1, NEW w2, NEW n2,
         BodyOf(body, X, Y, isAS4, w1, n1, w2, n2)
  PROVE  BodySum(body, isAS4, n1, n2)
<1> PICK c1, c2 : c1 = SegmentCount(n1) /\ c2 = SegmentCount(n2)  OBVIOUS
<1> PICK size : size = AsnSize(isAS4)  OBVIOUS
<1>1. BodyParts(body, isAS4, w1, n1, c1, w2, n2, c2)  BY Zenon, BodyIs
<1> PICK T1, T2 : WiredAs(w1, n1, T1) /\ WiredAs(w2, n2, T2)  BY Zenon DEF BodyOf
<1>2. n1 \in Nat /\ n2 \in Nat /\ c1 \in Nat /\ c2 \in Nat
  BY Zenon, <1>1 DEF WiredAs, BodyParts
<1> PICK s1, s2 : s1 = SegmentSizes(w1, n1, size) /\ s2 = SegmentSizes(w2, n2, size)  OBVIOUS
<1>3. s1 \in Seq(Nat) /\ Len(s1) = c1 /\ Total(s1) = 2 * c1 + size * n1
  BY ZenonT(60), PiecesSize DEF WiredAs
<1>4. s2 \in Seq(Nat) /\ Len(s2) = c2 /\ Total(s2) = 2 * c2 + size * n2
  BY ZenonT(60), PiecesSize DEF WiredAs
<1> DEFINE sizeAt(k) == 2 + body[k].size * Len(body[k].asns)
<1> PICK sizes : sizes = [k \in 1..(c1 + c2) |-> sizeAt(k)]  OBVIOUS
<1>5. SizeOfSegments(body) = Total(sizes)  BY Zenon, <1>1 DEF SizeOfSegments, BodyParts
<1>6. \A k \in 1..c1 : sizeAt(k) = s1[k]
  BY Zenon, <1>1 DEF BodyParts, SegmentSizes
<1>7. \A k \in 1..c2 : sizeAt(c1 + k) = s2[k]
  BY Zenon, <1>1 DEF BodyParts, SegmentSizes
<1> HIDE DEF sizeAt
<1>8. \A k \in 1..c1 : k \in 1..(c1 + c2)  BY <1>2
<1>9. \A k \in 1..c2 : c1 + k \in 1..(c1 + c2)  BY <1>2
<1>10. \A k \in 1..(c1 + c2) : sizes[k] = sizeAt(k)  BY Zenon
<1>11. sizes = [k \in 1..(c1 + c2) |-> sizes[k]] /\ Len(sizes) = c1 + c2
  <2> PICK n : n = c1 + c2  OBVIOUS
  <2>1. n \in Nat  BY <1>2
  <2>2. sizes = [k \in 1..n |-> sizes[k]]  OBVIOUS
  <2>3. Len(sizes) = n  BY <2>1, <2>2, IsSeq
  <2> QED  BY Zenon, <2>2, <2>3
<1>12. Joins(sizes, s1, s2)
  <2>1. \A k \in 1..c1 : sizes[k] = s1[k]  BY Zenon, <1>6, <1>8, <1>10
  <2>2. \A k \in 1..c2 : sizes[c1 + k] = s2[k]  BY Zenon, <1>7, <1>9, <1>10
  <2> QED  BY Zenon, <1>3, <1>4, <1>11, <2>1, <2>2 DEF Joins
<1>13. sizes = s1 \o s2
  <2> PICK n : n = c1 + c2  OBVIOUS
  <2>1. n = Len(s1) + Len(s2)  BY Zenon, <1>3, <1>4
  <2>2. IsTable(sizes, n)  BY Zenon, <1>11 DEF IsTable
  <2>3. IsJoined(sizes, s1, s2)  BY Zenon, <1>3, <1>4, <1>12, <2>1, <2>2, Halves
  <2> QED  BY Zenon, <2>3 DEF IsJoined
<1>14. Total(sizes) = Total(s1) + Total(s2)  BY Zenon, <1>3, <1>4, <1>13, TotalConcat
<1>15. SumsTo(size, c1, n1, c2, n2)  BY Zenon, <1>2, SumsMatch
<1> QED  BY Zenon, <1>3, <1>4, <1>5, <1>14, <1>15 DEF BodySum, SumsTo

LEMMA EmptiesTyped ==
  ASSUME NEW n \in Nat, NEW e, e = [k \in 1..n |-> <<>>], NEW S
  PROVE  /\ e \in Seq({<<>>}) /\ e \in Seq(Seq(S)) /\ Len(e) = n
         /\ FlattenSeq(e) = <<>>
<1>1. <<>> \in Seq(S)  OBVIOUS
<1>2. e \in [1..n -> {<<>>}] /\ e \in [1..n -> Seq(S)]  BY <1>1
<1>3. e \in Seq({<<>>}) /\ e \in Seq(Seq(S))  BY Zenon, <1>2, FunctionIsSeq
<1>4. Len(e) = n  BY <1>2, <1>3, LenProperties
<1>5. FlattenSeq(e) = <<>>  BY Zenon, <1>3, FlattenEmpties
<1> QED  BY Zenon, <1>3, <1>4, <1>5

(* The sequences are read as the path, the sets as the set.                *)
LEMMA BodySequences ==
  ASSUME NEW body, NEW X, NEW Y, NEW isAS4, NEW w1, NEW n1, NEW w2, NEW n2,
         BodyOf(body, X, Y, isAS4, w1, n1, w2, n2)
  PROVE  FlattenSeq([k \in DOMAIN body |-> IF body[k].type = "SEQUENCE" THEN body[k].asns
                                           ELSE <<>>]) = w1
<1> PICK c1, c2 : c1 = SegmentCount(n1) /\ c2 = SegmentCount(n2)  OBVIOUS
<1>1. BodyParts(body, isAS4, w1, n1, c1, w2, n2, c2)  BY Zenon, BodyIs
<1>2. PICK S : WiredAs(w1, n1, S)  BY Zenon DEF BodyOf
<1>3. c1 \in Nat /\ c2 \in Nat /\ DOMAIN body = 1..(c1 + c2)  BY Zenon, <1>1 DEF BodyParts
<1> PICK ps : ps = Pieces(w1, n1)  OBVIOUS
<1>4. ps \in Seq(Seq(S)) /\ Len(ps) = c1 /\ FlattenSeq(ps) = w1
  <2>1. PiecesAre(ps, w1, n1, c1, S)  BY Zenon, <1>2, PiecesTyped DEF WiredAs
  <2>2. FlattenSeq(ps) = w1  BY Zenon, <1>2, PiecesFlatten DEF WiredAs
  <2> QED  BY Zenon, <2>1, <2>2 DEF PiecesAre
<1> PICK e : e = [k \in 1..c2 |-> <<>>]  OBVIOUS
<1>5. e \in Seq(Seq(S)) /\ Len(e) = c2 /\ FlattenSeq(e) = <<>>  BY Zenon, <1>3, EmptiesTyped
<1> DEFINE at(k) == IF body[k].type = "SEQUENCE" THEN body[k].asns ELSE <<>>
<1> PICK list : list = [k \in 1..(c1 + c2) |-> at(k)]  OBVIOUS
<1>6. \A k \in 1..c1 : at(k) = ps[k]  BY Zenon, <1>1 DEF BodyParts
<1>7. \A k \in 1..c2 : at(c1 + k) = e[k]
  <2>1. \A k \in 1..c2 : body[c1 + k].type # "SEQUENCE"
    <3>1. "SET" # "SEQUENCE"  OBVIOUS
    <3> QED  BY Zenon, <1>1, <3>1 DEF BodyParts
  <2>2. \A k \in 1..c2 : e[k] = <<>>  BY Zenon
  <2> QED  BY Zenon, <2>1, <2>2
<1> HIDE DEF at
<1>8. Joins(list, ps, e) /\ list = [k \in 1..(c1 + c2) |-> list[k]]
  <2>1. \A k \in 1..c1 : k \in 1..(c1 + c2)  BY <1>3
  <2>2. \A k \in 1..c2 : c1 + k \in 1..(c1 + c2)  BY <1>3
  <2>3. \A k \in 1..(c1 + c2) : list[k] = at(k)  BY Zenon
  <2> PICK n : n = c1 + c2  OBVIOUS
  <2>4. n \in Nat  BY <1>3
  <2>5. list = [k \in 1..n |-> list[k]]  OBVIOUS
  <2>6. Len(list) = n  BY <2>4, <2>5, IsSeq
  <2>7. \A k \in 1..c1 : list[k] = ps[k]  BY Zenon, <1>6, <2>1, <2>3
  <2>8. \A k \in 1..c2 : list[c1 + k] = e[k]  BY Zenon, <1>7, <2>2, <2>3
  <2> QED  BY Zenon, <1>4, <1>5, <2>5, <2>6, <2>7, <2>8 DEF Joins
<1>9. list = ps \o e
  <2> PICK n : n = c1 + c2  OBVIOUS
  <2>1. n = Len(ps) + Len(e)  BY Zenon, <1>4, <1>5
  <2>2. IsTable(list, n) /\ Joins(list, ps, e)  BY Zenon, <1>8 DEF IsTable
  <2>3. IsJoined(list, ps, e)  BY Zenon, <1>4, <1>5, <2>1, <2>2, Halves
  <2> QED  BY Zenon, <2>3 DEF IsJoined
<1>10. FlattenSeq(list) = FlattenSeq(ps) \o FlattenSeq(e)
  <2>1. FlattensJoined(ps, e)  BY Zenon, <1>4, <1>5, FlattenConcat
  <2> QED  BY Zenon, <1>9, <2>1 DEF FlattensJoined
<1>11. w1 \o <<>> = w1
  <2>1. w1 \in Seq(S)  BY Zenon, <1>2 DEF WiredAs
  <2> QED  BY <2>1, ConcatEmptySeq
<1>12. FlattenSeq(list) = w1  BY Zenon, <1>4, <1>5, <1>10, <1>11
<1> QED  BY Zenon, <1>3, <1>12 DEF at

LEMMA BodySets ==
  ASSUME NEW body, NEW X, NEW Y, NEW isAS4, NEW w1, NEW n1, NEW w2, NEW n2,
         BodyOf(body, X, Y, isAS4, w1, n1, w2, n2)
  PROVE  FlattenSeq(FlattenSeq([k \in DOMAIN body |->
                                  IF body[k].type = "SET" THEN <<body[k].asns>> ELSE <<>>])) = w2
<1> PICK c1, c2 : c1 = SegmentCount(n1) /\ c2 = SegmentCount(n2)  OBVIOUS
<1>1. BodyParts(body, isAS4, w1, n1, c1, w2, n2, c2)  BY Zenon, BodyIs
<1>2. PICK S : WiredAs(w2, n2, S)  BY Zenon DEF BodyOf
<1>3. c1 \in Nat /\ c2 \in Nat /\ DOMAIN body = 1..(c1 + c2)  BY Zenon, <1>1 DEF BodyParts
<1> PICK ps : ps = Pieces(w2, n2)  OBVIOUS
<1>4. ps \in Seq(Seq(S)) /\ Len(ps) = c2 /\ FlattenSeq(ps) = w2
  <2>1. PiecesAre(ps, w2, n2, c2, S)  BY Zenon, <1>2, PiecesTyped DEF WiredAs
  <2>2. FlattenSeq(ps) = w2  BY Zenon, <1>2, PiecesFlatten DEF WiredAs
  <2> QED  BY Zenon, <2>1, <2>2 DEF PiecesAre
<1> PICK V : V = Seq(S)  OBVIOUS
<1> PICK singles : singles = [k \in 1..Len(ps) |-> <<ps[k]>>]  OBVIOUS
<1>5. singles \in Seq(Seq(V)) /\ Len(singles) = c2 /\ FlattenSeq(singles) = ps
  <2>1. ps \in Seq(V)  BY Zenon, <1>4
  <2> QED  BY Zenon, <1>4, <2>1, FlattenSingles
<1> PICK e : e = [k \in 1..c1 |-> <<>>]  OBVIOUS
<1>6. e \in Seq(Seq(V)) /\ Len(e) = c1 /\ FlattenSeq(e) = <<>>  BY Zenon, <1>3, EmptiesTyped
<1> DEFINE at(k) == IF body[k].type = "SET" THEN <<body[k].asns>> ELSE <<>>
<1> PICK list : list = [k \in 1..(c1 + c2) |-> at(k)]  OBVIOUS
<1>7. \A k \in 1..c1 : at(k) = e[k]
  <2>1. \A k \in 1..c1 : body[k].type # "SET"
    <3>1. "SET" # "SEQUENCE"  OBVIOUS
    <3> QED  BY Zenon, <1>1, <3>1 DEF BodyParts
  <2>2. \A k \in 1..c1 : e[k] = <<>>  BY Zenon
  <2> QED  BY Zenon, <2>1, <2>2
<1>8. \A k \in 1..c2 : at(c1 + k) = singles[k]
  <2>1. \A k \in 1..c2 : body[c1 + k].type = "SET" /\ body[c1 + k].asns = ps[k]
    BY Zenon, <1>1 DEF BodyParts
  <2>2. \A k \in 1..c2 : singles[k] = <<ps[k]>>  BY Zenon, <1>4
  <2> QED  BY Zenon, <2>1, <2>2
<1> HIDE DEF at
<1>9. Joins(list, e, singles) /\ list = [k \in 1..(c1 + c2) |-> list[k]]
  <2>1. \A k \in 1..c1 : k \in 1..(c1 + c2)  BY <1>3
  <2>2. \A k \in 1..c2 : c1 + k \in 1..(c1 + c2)  BY <1>3
  <2>3. \A k \in 1..(c1 + c2) : list[k] = at(k)  BY Zenon
  <2> PICK n : n = c1 + c2  OBVIOUS
  <2>4. n \in Nat  BY <1>3
  <2>5. list = [k \in 1..n |-> list[k]]  OBVIOUS
  <2>6. Len(list) = n  BY <2>4, <2>5, IsSeq
  <2>7. \A k \in 1..c1 : list[k] = e[k]  BY Zenon, <1>7, <2>1, <2>3
  <2>8. \A k \in 1..c2 : list[c1 + k] = singles[k]  BY Zenon, <1>8, <2>2, <2>3
  <2> QED  BY Zenon, <1>5, <1>6, <2>5, <2>6, <2>7, <2>8 DEF Joins
<1>10. list = e \o singles
  <2> PICK n : n = c1 + c2  OBVIOUS
  <2>1. n = Len(e) + Len(singles)  BY Zenon, <1>5, <1>6
  <2>2. IsTable(list, n) /\ Joins(list, e, singles)  BY Zenon, <1>9 DEF IsTable
  <2>3. IsJoined(list, e, singles)  BY Zenon, <1>5, <1>6, <2>1, <2>2, Halves
  <2> QED  BY Zenon, <2>3 DEF IsJoined
<1>11. FlattenSeq(list) = FlattenSeq(e) \o FlattenSeq(singles)
  <2>1. FlattensJoined(e, singles)  BY Zenon, <1>5, <1>6, FlattenConcat
  <2> QED  BY Zenon, <1>10, <2>1 DEF FlattensJoined
<1>12. <<>> \o ps = ps
  BY <1>4, ConcatEmptySeq
<1>13. FlattenSeq(list) = ps  BY Zenon, <1>5, <1>6, <1>11, <1>12
<1>14. FlattenSeq(FlattenSeq(list)) = w2  BY Zenon, <1>4, <1>13
<1> QED  BY Zenon, <1>3, <1>14 DEF at

-----------------------------------------------------------------------------
(* AS paths that arrive                                                    *)

LEMMA LastPiece ==
  ASSUME NEW S, NEW w, NEW n, WiredAs(w, n, S), n % 255 # 0
  PROVE  SegmentCount(n) > 0 /\ Pieces(w, n)[SegmentCount(n)] # <<>>
<1> PICK c : c = SegmentCount(n)  OBVIOUS
<1>1. n \in Nat /\ w \in Seq(S) /\ Len(w) = n  BY Zenon DEF WiredAs
<1>2. Cuts(n, c)  BY Zenon, <1>1, CutsAre
<1>3. c \in Nat /\ c # 0
  <2>1. c \in Nat /\ (n = 0 <=> c = 0)  BY Zenon, <1>2 DEF Cuts
  <2>2. n # 0
    <3>1. 0 % 255 = 0  OBVIOUS
    <3> QED  BY Zenon, <3>1
  <2> QED  BY Zenon, <2>1, <2>2
<1>4. c \in 1..c /\ c > 0  BY <1>3
<1> PICK a, b : a = LastAt(n, c - 1) /\ b = LastAt(n, c)  OBVIOUS
<1>5. b \in 0..n /\ a \in 0..b /\ b = n /\ a < n  BY Zenon, <1>2, <1>4 DEF Cuts
<1>6. Pieces(w, n)[c] = Piece(w, a, b)  BY Zenon, <1>4 DEF Pieces
<1>7. Len(Piece(w, a, b)) = b - a  BY Zenon, <1>1, <1>5, PieceJoins
<1>8. Len(Piece(w, a, b)) # 0  BY <1>1, <1>5, <1>7
<1>9. Piece(w, a, b) # <<>>
  <2>1. Len(<<>>) = 0  OBVIOUS
  <2> QED  BY Zenon, <1>8, <2>1
<1> QED  BY Zenon, <1>4, <1>6, <1>9

(* The last segment is not an empty one.                                   *)
LastFilled(n1, n2) == IF n2 = 0 THEN n1 # 0 => n1 % 255 # 0 ELSE n2 % 255 # 0

LEMMA BodyRead ==
  ASSUME NEW body, NEW X, NEW Y, NEW isAS4, NEW w1, NEW n1, NEW w2, NEW n2,
         BodyOf(body, X, Y, isAS4, w1, n1, w2, n2), LastFilled(n1, n2)
  PROVE  SegmentsRead(body, isAS4)
<1> PICK c1, c2 : c1 = SegmentCount(n1) /\ c2 = SegmentCount(n2)  OBVIOUS
<1>1. BodyParts(body, isAS4, w1, n1, c1, w2, n2, c2)  BY Zenon, BodyIs
<1>2. PICK T1, T2 : WiredAs(w1, n1, T1) /\ WiredAs(w2, n2, T2)  BY Zenon DEF BodyOf
<1>3. /\ c1 \in Nat /\ c2 \in Nat /\ DOMAIN body = 1..(c1 + c2) /\ Len(body) = c1 + c2
      /\ n1 \in Nat /\ n2 \in Nat
  BY Zenon, <1>1, <1>2 DEF BodyParts, WiredAs
<1>4. (n1 = 0 <=> c1 = 0) /\ (n2 = 0 <=> c2 = 0)
  <2>1. Cuts(n1, c1) /\ Cuts(n2, c2)  BY Zenon, <1>3, CutsAre
  <2> QED  BY Zenon, <2>1 DEF Cuts
<1>5. body # <<>> => Last(body).asns # <<>>
  <2> SUFFICES ASSUME body # <<>> PROVE Last(body).asns # <<>>  OBVIOUS
  <2>1. Last(body) = body[c1 + c2]  BY Zenon, <1>3 DEF Last
  <2>2. CASE n2 # 0
    <3>1. n2 % 255 # 0  BY Zenon, <2>2 DEF LastFilled
    <3>2. c2 > 0 /\ Pieces(w2, n2)[c2] # <<>>  BY Zenon, <1>2, <3>1, LastPiece
    <3>3. c2 \in 1..c2  BY <1>3, <3>2
    <3>4. body[c1 + c2].asns = Pieces(w2, n2)[c2]  BY Zenon, <1>1, <3>3 DEF BodyParts
    <3> QED  BY Zenon, <2>1, <3>2, <3>4
  <2>3. CASE n2 = 0
    <3>1. c2 = 0 /\ c1 + c2 = c1  BY <1>3, <1>4, <2>3
    <3>2. n1 # 0
      <4> SUFFICES ASSUME n1 = 0 PROVE FALSE  OBVIOUS
      <4>1. Len(body) = 0  BY <1>3, <1>4, <3>1
      <4>2. body \in Seq({body[k] : k \in 1..0})
        <5>1. X \o Y = body /\ AttrList(X) /\ AttrList(Y)  BY Zenon DEF BodyOf, SegsAre
        <5>2. AttrList(body)  BY Zenon, <5>1, ListsJoin DEF JoinedLists
        <5> PICK T : body \in Seq(T)  BY Zenon, <5>2 DEF AttrList
        <5>3. body = <<>>  BY <4>1
        <5> QED  BY Zenon, <5>3
      <4>3. body = <<>>  BY <4>1, <4>2
      <4> QED  BY Zenon, <4>3
    <3>3. n1 % 255 # 0  BY Zenon, <2>3, <3>2 DEF LastFilled
    <3>4. c1 > 0 /\ Pieces(w1, n1)[c1] # <<>>  BY Zenon, <1>2, <3>3, LastPiece
    <3>5. c1 \in 1..c1  BY <1>3, <3>4
    <3>6. body[c1].asns = Pieces(w1, n1)[c1]  BY Zenon, <1>1, <3>5 DEF BodyParts
    <3> QED  BY Zenon, <2>1, <3>1, <3>4, <3>6
  <2> QED  BY Zenon, <2>2, <2>3
<1>6. \A k \in DOMAIN body : body[k].size = AsnSize(isAS4)
  <2> SUFFICES ASSUME NEW k \in 1..(c1 + c2) PROVE body[k].size = AsnSize(isAS4)
    BY Zenon, <1>3
  <2>1. CASE k \in 1..c1
    BY Zenon, <1>1, <2>1 DEF BodyParts
  <2>2. CASE k \notin 1..c1
    <3> PICK j : j = k - c1  OBVIOUS
    <3>1. j \in 1..c2 /\ k = c1 + j  BY <1>3, <2>2
    <3>2. body[c1 + j].size = AsnSize(isAS4)  BY Zenon, <1>1, <3>1 DEF BodyParts
    <3> QED  BY Zenon, <3>1, <3>2
  <2> QED  BY Zenon, <2>1, <2>2
<1> QED  BY Zenon, <1>5, <1>6 DEF SegmentsRead

LEMMA BodySays ==
  ASSUME NEW body, NEW X, NEW Y, NEW isAS4, NEW w1, NEW n1, NEW w2, NEW n2,
         BodyOf(body, X, Y, isAS4, w1, n1, w2, n2), LastFilled(n1, n2)
  PROVE  Says(AsPathPrinted(body, isAS4), w1, w2)
<1> PICK sequences : sequences = FlattenSeq([k \in DOMAIN body |->
                       IF body[k].type = "SEQUENCE" THEN body[k].asns ELSE <<>>])
  OBVIOUS
<1> PICK sets : sets = FlattenSeq([k \in DOMAIN body |->
                         IF body[k].type = "SET" THEN <<body[k].asns>> ELSE <<>>])
  OBVIOUS
<1>1. SegmentsRead(body, isAS4)  BY Zenon, BodyRead
<1>2. sequences = w1  BY Zenon, BodySequences
<1>3. FlattenSeq(sets) = w2  BY Zenon, BodySets
<1> PICK list : list = AsPathPrinted(body, isAS4)  OBVIOUS
<1>4. list = Shown(sequences, sets)  BY Zenon, <1>1 DEF AsPathPrinted
<1>5. list.ok = TRUE /\ list.seq = sequences /\ list.sets = sets  BY <1>4 DEF Shown
<1> QED  BY Zenon, <1>2, <1>3, <1>5 DEF Says

(* A length that fits its byte.                                            *)
LEMMA LengthWritten ==
  ASSUME NEW content \in Nat, NEW headers \in Nat,
         ~(content <= 255 /\ content + 2 * headers > 255),
         NEW length, length = 2 * headers + content
  PROVE  (IF content > 255 THEN length ELSE length % 256) = length
<1>1. CASE content > 255  BY <1>1
<1>2. CASE ~(content > 255)
  <2>1. length \in 0..255  BY <1>2
  <2>2. length % 256 = length  BY <2>1
  <2> QED  BY <1>2, <2>2
<1> QED  BY <1>1, <1>2

PathType(type) == type \in {"AS_PATH", "AS4_PATH"}
Narrow(asns, isAS4) == [i \in DOMAIN asns |-> Wire(asns[i], isAS4)]

PathArrives(a, path, set, isAS4) ==
  Copied(a) = a /\ Says(AsPathPrinted(a.body, isAS4), Narrow(path, isAS4), Narrow(set, isAS4))

(* An AS path is read as it was written.                                   *)
LEMMA PathSays ==
  ASSUME NEW S, NEW path \in Seq(S), NEW R, NEW set \in Seq(R), NEW type, NEW isAS4,
         NEW a, a = generateBGP_PathAttr(type, path, set, isAS4), a # NoAttribute,
         ~DoesNotArrive(path, set, AsnSize(isAS4))
  PROVE  PathArrives(a, path, set, isAS4)
<1> PICK X, Y : X = PathSegments("SEQUENCE", path, isAS4) /\ Y = PathSegments("SET", set, isAS4)
  OBVIOUS
<1> PICK w1, n1 : w1 = Wired(path, isAS4) /\ n1 = Len(path)  OBVIOUS
<1> PICK w2, n2 : w2 = Wired(set, isAS4) /\ n2 = Len(set)  OBVIOUS
<1> PICK size : size = AsnSize(isAS4)  OBVIOUS
<1> PICK c1, c2 : c1 = SegmentCount(n1) /\ c2 = SegmentCount(n2)  OBVIOUS
<1> PICK body : body = X \o Y  OBVIOUS
<1>1. BodyOf(body, X, Y, isAS4, w1, n1, w2, n2)
  <2>1. SegsAre(X, "SEQUENCE", isAS4, w1, n1)  BY Zenon, PathSegmentsAre
  <2>2. SegsAre(Y, "SET", isAS4, w2, n2)  BY Zenon, PathSegmentsAre
  <2>3. \E T : WiredAs(w1, n1, T)  BY Zenon, WiredTyped
  <2>4. \E T : WiredAs(w2, n2, T)  BY Zenon, WiredTyped
  <2> QED  BY Zenon, <2>1, <2>2, <2>3, <2>4 DEF BodyOf
<1>2. n1 \in Nat /\ n2 \in Nat /\ c1 \in Nat /\ c2 \in Nat
  <2>1. n1 \in Nat /\ n2 \in Nat  OBVIOUS
  <2> QED  BY Zenon, <2>1, CountsTyped
<1>3. LastFilled(n1, n2)
  <2>1. IF set = <<>> THEN ~(path # <<>> /\ n1 % 255 = 0) ELSE ~(n2 % 255 = 0)
    BY Zenon DEF DoesNotArrive
  <2>2. (set = <<>> <=> n2 = 0) /\ (path = <<>> <=> n1 = 0)  OBVIOUS
  <2> QED  BY Zenon, <2>1, <2>2 DEF LastFilled
<1> PICK headers \in Nat : headers = c1 + c2
  <2> DEFINE h == c1 + c2
  <2>1. h \in Nat  BY <1>2
  <2> QED  BY <2>1
<1> PICK content : content = size * (n1 + n2)  OBVIOUS
<1> PICK length : length = 2 * headers + content  OBVIOUS
<1>4. AttrLength(path, set, isAS4) = length  BY Zenon DEF AttrLength
<1>5. content \in Nat /\ headers \in Nat
  <2>1. size = 2 \/ size = 4  BY DEF AsnSize
  <2>2. content \in Nat
    <3>1. CASE size = 2  BY <1>2, <3>1
    <3>2. CASE size = 4  BY <1>2, <3>2
    <3> QED  BY Zenon, <2>1, <3>1, <3>2
  <2> QED  BY Zenon, <2>2
<1>6. ~(content <= 255 /\ content + 2 * headers > 255)
  BY Zenon DEF DoesNotArrive
<1>7. Extended(path, set, isAS4) <=> content > 255  BY Zenon DEF Extended
<1> PICK ext : ext = Extended(path, set, isAS4)  OBVIOUS
<1>8. (IF ext THEN length ELSE length % 256) = length
  <2>1. (IF content > 255 THEN length ELSE length % 256) = length
    BY ZenonT(60), <1>5, <1>6, LengthWritten
  <2> QED  BY Zenon, <1>7, <2>1
<1>9. a = [type |-> type, ext |-> ext, length |-> length, body |-> body]
  BY Zenon, <1>4, <1>8 DEF generateBGP_PathAttr
<1>10. a.length = length /\ a.body = body  BY <1>9
<1>11. Copied(a) = a
  <2>1. BodySum(body, isAS4, n1, n2)  BY Zenon, <1>1, BodySize
  <2>2. SizeOfSegments(body) = length  BY Zenon, <2>1 DEF BodySum
  <2> QED  BY Zenon, <1>10, <2>2 DEF Copied
<1>12. Says(AsPathPrinted(body, isAS4), w1, w2)  BY Zenon, <1>1, <1>3, BodySays
<1>13. Narrow(path, isAS4) = w1 /\ Narrow(set, isAS4) = w2
  <2>1. DOMAIN path = 1..n1 /\ DOMAIN set = 1..n2  OBVIOUS
  <2> QED  BY Zenon, <2>1 DEF Narrow, Wired
<1> QED  BY Zenon, <1>10, <1>11, <1>12, <1>13 DEF PathArrives

-----------------------------------------------------------------------------
(* BGPsec paths                                                            *)

(* The block is as long as its signatures say.                             *)
BlockOf(block, S, n) ==
  /\ n \in Nat /\ block.length = 3 + Total(Weights(S, n)) /\ DOMAIN block.sigs = 1..n
  /\ \A k \in 1..n : block.sigs[k].sigLen = S[k].sigLen /\ S[k].sigLen \in Nat

LEMMA BlockRead ==
  ASSUME NEW block, NEW S, NEW n, BlockOf(block, S, n)
  PROVE  SignatureBlockRead(block)
<1> PICK sigs, len : sigs = block.sigs /\ len = block.length  OBVIOUS
<1>1. \A k \in 1..n : sigs[k].sigLen = S[k].sigLen /\ S[k].sigLen \in Nat
  BY Zenon DEF BlockOf
<1>2. \A k \in 1..n : 20 + 2 + sigs[k].sigLen = 22 + S[k].sigLen  BY <1>1
<1>3. [k \in 1..n |-> 20 + 2 + sigs[k].sigLen] = [k \in 1..n |-> 22 + S[k].sigLen]
  BY Zenon, <1>2
<1>4. DOMAIN sigs = 1..n  BY Zenon DEF BlockOf
<1>5. [k \in DOMAIN sigs |-> 20 + 2 + sigs[k].sigLen] = Weights(S, n)
  BY Zenon, <1>3, <1>4 DEF Weights
<1>6. SizeOfBlock(block) = 3 + Total(Weights(S, n))  BY Zenon, <1>5 DEF SizeOfBlock
<1>7. block.length = 3 + Total(Weights(S, n))  BY Zenon DEF BlockOf
<1> QED  BY Zenon, <1>6, <1>7 DEF SignatureBlockRead

(* A BGPsec attribute is read as the path of its segments.                 *)
LEMMA BgpsecRead ==
  ASSUME NEW a, NEW segs, NEW c, OfSegments(a, segs, c), CapiSet(c)
  PROVE  BgpsecPrinted(a) = Shown(Spelled(segs), <<>>)
<1> PICK nlri, x : /\ a = BgpsecAttr(x)
                   /\ AttrFacts(x, segs, Signed(segs, c, nlri))
  BY Zenon, BgpsecLength
<1>1. segs \in Seq(SegmentRecord)  BY Zenon DEF OfSegments
<1> PICK S : S = Signed(segs, c, nlri)  OBVIOUS
<1> PICK n : n = Len(segs)  OBVIOUS
<1>2. \A k \in 1..n : S[k].sigLen \in Nat
  <2>1. \A k \in 1..n : SignedAs(S[k], segs[k].asn, c, Behind(segs, c, nlri, S[k + 1], k))
    BY Zenon, <1>1, SignedFacts
  <2> QED  BY Zenon, <2>1 DEF SignedAs
<1>3. AttrFacts(x, segs, S)  BY Zenon
<1>4. BlockOf(x.block, S, n)
  <2>1. n \in Nat  BY <1>1
  <2> QED  BY Zenon, <1>2, <1>3, <2>1 DEF AttrFacts, BlockOf
<1>5. SignatureBlockRead(x.block)  BY Zenon, <1>4, BlockRead
<1>6. /\ x.length = x.secPathLen + x.block.length /\ x.segs = segs
      /\ x.secPathLen = 2 + 6 * n
  BY Zenon, <1>3 DEF AttrFacts
<1> PICK len, sec, block : len = x.length /\ sec = x.secPathLen /\ block = x.block  OBVIOUS
<1>7. a = [type |-> "BGPSEC", ext |-> x.extended, length |-> len,
           body |-> [secPathLen |-> sec, segs |-> segs, block |-> block]]
  BY Zenon, <1>6 DEF BgpsecAttr
<1> PICK ext : ext = x.extended  OBVIOUS
<1> PICK body : body = [secPathLen |-> sec, segs |-> segs, block |-> block]  OBVIOUS
<1>8. a = [type |-> "BGPSEC", ext |-> ext, length |-> len, body |-> body]  BY Zenon, <1>7
<1>9. a.length = len /\ a.body = body
  <2> HIDE <1>7
  <2> QED  BY <1>8
<1>10. body.secPathLen = sec /\ body.segs = segs /\ body.block = block  OBVIOUS
<1>11. len = sec + block.length  BY Zenon, <1>6
<1>12. SignatureBlockRead(a.body.block) /\ a.length = a.body.secPathLen + a.body.block.length
  BY Zenon, <1>5, <1>9, <1>10, <1>11
<1>13. BgpsecPrinted(a) = SecurePathPrinted(body)  BY Zenon, <1>9, <1>12 DEF BgpsecPrinted
<1>14. ~(body.secPathLen # 2 + 6 * Len(body.segs))  BY Zenon, <1>6, <1>10
<1>15. SecurePathPrinted(body) = Shown(Spelled(segs), <<>>)
  BY Zenon, <1>10, <1>14 DEF SecurePathPrinted, Spelled
<1> QED  BY Zenon, <1>13, <1>15

(* The path of a script that can be printed and counted.                   *)
LEMMA SpelledAsWritten ==
  ASSUME NEW c, c.asn \in Nat,
         NEW path \in Seq([asn : Nat, count : Nat, dotted : BOOLEAN]),
         Printable(path), Countable(Written(c, path))
  PROVE  Spelled(Segments(MyPath(c, path))) = Written(c, path)
<1>1. MyPath(c, path) = Written(c, path)  BY Zenon, ConvertedAsWritten
<1>2. MyPath(c, path) \in Seq(Int)  BY Zenon, PathTyped
<1> PICK w : w = Written(c, path)  OBVIOUS
<1>3. Spelled(Segments(w)) = w  BY Zenon, <1>1, <1>2, SegmentsSpell
<1> QED  BY Zenon, <1>1, <1>3

(* What the BGPsec attribute of an update says.                            *)
LEMMA SecuredSays ==
  ASSUME NEW u, Writable(u), conf \in Sessions, Secured(u) # NoAttribute,
         Printable(u.path), Countable(Written(conf, u.path)), NEW isAS4
  PROVE  Says(AttrPrinted(Secured(u), isAS4).shown, Written(conf, u.path), <<>>)
<1> PICK a : a = Secured(u)  OBVIOUS
<1> PICK segs : segs = Segments(MyPath(conf, u.path))  OBVIOUS
<1>1. OfSegments(a, segs, conf)  BY Zenon, SecuredIs
<1>2. conf.asn \in Nat /\ CapiSet(conf)  BY Zenon, ConfiguredTyped
<1>3. BgpsecPrinted(a) = Shown(Spelled(segs), <<>>)  BY Zenon, <1>1, <1>2, BgpsecRead
<1>4. a.type = "BGPSEC"  BY Zenon, <1>1, <1>2, SecuredKept
<1>5. AttrPrinted(a, isAS4).shown = BgpsecPrinted(a)
  <2> PICK p : p = BgpsecPrinted(a)  OBVIOUS
  <2> PICK q : q = AttrPrinted(a, isAS4)  OBVIOUS
  <2>1. q = [type |-> a.type, shown |-> p]
    BY <1>4 DEF AttrPrinted
  <2>2. q.shown = p  BY <2>1
  <2> QED  BY Zenon, <2>2
<1>6. u.path \in Seq([asn : Nat, count : Nat, dotted : BOOLEAN])  BY Zenon DEF Writable
<1>7. Spelled(segs) = Written(conf, u.path)  BY Zenon, <1>2, <1>6, SpelledAsWritten
<1> QED  BY Zenon, <1>3, <1>5, <1>7, ShownSays

-----------------------------------------------------------------------------
(* The path as it is shown                                                 *)

(* The attributes of the path are those behind the fixed ones.             *)
LEMMA PathTypesKept ==
  ASSUME NEW localPref, NEW nlri, NlriTyped(nlri), NEW mp, NEW val,
         NEW F, F = FixedAttrs(localPref, nlri, mp, val),
         NEW Q, AttrList(Q), NEW t, t \in {"BGPSEC", "AS_PATH", "AS4_PATH"}
  PROVE  /\ Never(Q, t) => Never(F \o Q, t)
         /\ \A x : Once(Q, t, x) => Once(F \o Q, t, x)
<1>1. FixedAre(F, localPref, nlri, mp, val)  BY Zenon, FixedListed
<1>2. AttrList(F) /\ Never(F, t)
  <2>1. AttrList(F) /\ \A s \in {"BGPSEC", "AS_PATH", "AS4_PATH"} : Never(F, s)
    BY Zenon, <1>1 DEF FixedAre
  <2> QED  BY Zenon, <2>1
<1>3. TypesJoined(F \o Q, F, Q, t)  BY Zenon, <1>2, TypesJoin
<1> QED  BY Zenon, <1>2, <1>3 DEF TypesJoined

(* The path of an update.                                                  *)
Lists(u, S) == MyPath(conf, u.path) \in Seq(S) /\ u.set \in Seq(Nat)

LEMMA ListsTyped ==
  ASSUME NEW u, Writable(u)
  PROVE  \E S : Lists(u, S)
<1>1. PICK S : MyPath(conf, u.path) \in Seq(S)  BY Zenon, PathIsSeq
<1>2. u.set \in Seq(Nat)  BY Zenon DEF Writable
<1> QED  BY Zenon, <1>1, <1>2 DEF Lists

LEMMA ConvertedPath ==
  ASSUME NEW u, Writable(u), Printable(u.path)
  PROVE  MyPath(conf, u.path) = Written(conf, u.path)
<1>1. u.path \in Seq([asn : Nat, count : Nat, dotted : BOOLEAN])  BY Zenon DEF Writable
<1> QED  BY Zenon, <1>1, ConvertedAsWritten

LEMMA PathTypes == PathType("AS_PATH") /\ PathType("AS4_PATH")
  BY DEF PathType

CopiesType(a, type) == Copied(a).type = type

LEMMA PathAttrCopied ==
  ASSUME NEW S, NEW path \in Seq(S), NEW R, NEW set \in Seq(R), NEW type, PathType(type),
         NEW isAS4, NEW a, a = generateBGP_PathAttr(type, path, set, isAS4), a # NoAttribute
  PROVE  CopiesType(a, type)
<1>1. type \in {"AS_PATH", "AS4_PATH"}  BY Zenon DEF PathType
<1>2. Copied(a).type = type  BY <1>1, PathCopied
<1> QED  BY Zenon, <1>2 DEF CopiesType

LEMMA PathAttrsTyped ==
  ASSUME NEW u, Writable(u)
  PROVE  /\ AsPathOf(u) # NoAttribute => Copied(AsPathOf(u)).type = "AS_PATH"
         /\ As4PathOf(u) # NoAttribute => Copied(As4PathOf(u)).type = "AS4_PATH"
<1> PICK S : Lists(u, S)  BY Zenon, ListsTyped
<1> PICK path : path = MyPath(conf, u.path)  OBVIOUS
<1>0. path \in Seq(S) /\ u.set \in Seq(Nat)  BY Zenon DEF Lists
<1> PICK a, b : a = AsPathOf(u) /\ b = As4PathOf(u)  OBVIOUS
<1>1. a = generateBGP_PathAttr("AS_PATH", path, u.set, UseAS4)  BY Zenon DEF AsPathOf
<1>2. b = generateBGP_PathAttr("AS4_PATH", path, u.set, TRUE)  BY Zenon DEF As4PathOf
<1>3. ASSUME a # NoAttribute  PROVE Copied(a).type = "AS_PATH"
  <2> PICK t, w : t = "AS_PATH" /\ w = UseAS4  OBVIOUS
  <2>1. PathType(t)  BY Zenon, PathTypes
  <2>2. a = generateBGP_PathAttr(t, path, u.set, w)  BY Zenon, <1>1
  <2>3. CopiesType(a, t)  BY Zenon, <1>0, <1>3, <2>1, <2>2, PathAttrCopied
  <2> QED  BY Zenon, <2>3 DEF CopiesType
<1>4. ASSUME b # NoAttribute  PROVE Copied(b).type = "AS4_PATH"
  <2> PICK t, w : t = "AS4_PATH" /\ w = TRUE  OBVIOUS
  <2>1. PathType(t)  BY Zenon, PathTypes
  <2>2. b = generateBGP_PathAttr(t, path, u.set, w)  BY Zenon, <1>2
  <2>3. CopiesType(b, t)  BY Zenon, <1>0, <1>4, <2>1, <2>2, PathAttrCopied
  <2> QED  BY Zenon, <2>3 DEF CopiesType
<1> QED  BY Zenon, <1>3, <1>4

LEMMA AttrShown ==
  ASSUME NEW a, NEW isAS4
  PROVE  /\ a.type = "AS_PATH" => AttrPrinted(a, isAS4).shown = AsPathPrinted(a.body, isAS4)
         /\ a.type = "AS4_PATH" => AttrPrinted(a, isAS4).shown = AsPathPrinted(a.body, TRUE)
<1> PICK p, q : p = AsPathPrinted(a.body, isAS4) /\ q = AsPathPrinted(a.body, TRUE)  OBVIOUS
<1> PICK r : r = AttrPrinted(a, isAS4)  OBVIOUS
<1>1. ASSUME a.type = "AS_PATH"  PROVE r.shown = p
  <2>1. r = [type |-> a.type, shown |-> p]  BY <1>1 DEF AttrPrinted
  <2> QED  BY <2>1
<1>2. ASSUME a.type = "AS4_PATH"  PROVE r.shown = q
  <2>1. r = [type |-> a.type, shown |-> q]  BY <1>2 DEF AttrPrinted
  <2> QED  BY <2>1
<1> QED  BY Zenon, <1>1, <1>2

(* What is seen of the AS_PATH of an update.                               *)
LEMMA AsPathSeen ==
  ASSUME NEW u, Writable(u), Printable(u.path), AsPathOf(u) # NoAttribute,
         ~DoesNotArrive(Written(conf, u.path), u.set, AsnSize(UseAS4))
  PROVE  Says(AttrPrinted(Copied(AsPathOf(u)), UseAS4).shown,
              Narrow(Written(conf, u.path), UseAS4), Narrow(u.set, UseAS4))
<1> PICK S : Lists(u, S)  BY Zenon, ListsTyped
<1> PICK path : path = MyPath(conf, u.path)  OBVIOUS
<1>1. path \in Seq(S) /\ u.set \in Seq(Nat)  BY Zenon DEF Lists
<1>2. path = Written(conf, u.path)  BY Zenon, ConvertedPath
<1> PICK a : a = AsPathOf(u)  OBVIOUS
<1>3. a = generateBGP_PathAttr("AS_PATH", path, u.set, UseAS4)  BY Zenon DEF AsPathOf
<1>4. PathArrives(a, path, u.set, UseAS4)  BY Zenon, <1>1, <1>2, <1>3, PathSays
<1>5. a.type = "AS_PATH" /\ Copied(a) = a
  BY Zenon, <1>4, PathAttrsTyped DEF PathArrives
<1>6. AttrPrinted(a, UseAS4).shown = AsPathPrinted(a.body, UseAS4)  BY Zenon, <1>5, AttrShown
<1> QED  BY Zenon, <1>2, <1>4, <1>5, <1>6 DEF PathArrives

LEMMA NothingNarrowed ==
  ASSUME NEW S, NEW s \in Seq(S)
  PROVE  Narrow(s, TRUE) = s
<1>1. \A x : Wire(x, TRUE) = x  BY DEF Wire
<1>2. Narrow(s, TRUE) = [i \in DOMAIN s |-> s[i]]  BY Zenon, <1>1 DEF Narrow
<1>3. s = [i \in DOMAIN s |-> s[i]]  OBVIOUS
<1> QED  BY Zenon, <1>2, <1>3

(* What is seen of the AS4_PATH.                                           *)
LEMMA As4PathSeen ==
  ASSUME NEW u, Writable(u), Printable(u.path), As4PathOf(u) # NoAttribute,
         ~DoesNotArrive(Written(conf, u.path), u.set, 4), NEW isAS4
  PROVE  Says(AttrPrinted(Copied(As4PathOf(u)), isAS4).shown, Written(conf, u.path), u.set)
<1> PICK S : Lists(u, S)  BY Zenon, ListsTyped
<1> PICK path : path = MyPath(conf, u.path)  OBVIOUS
<1>1. path \in Seq(S) /\ u.set \in Seq(Nat)  BY Zenon DEF Lists
<1>2. path = Written(conf, u.path)  BY Zenon, ConvertedPath
<1> PICK a : a = As4PathOf(u)  OBVIOUS
<1>3. a = generateBGP_PathAttr("AS4_PATH", path, u.set, TRUE)  BY Zenon DEF As4PathOf
<1>4. AsnSize(TRUE) = 4  BY DEF AsnSize
<1>5. ~DoesNotArrive(path, u.set, AsnSize(TRUE))  BY Zenon, <1>2, <1>4
<1>6. PathArrives(a, path, u.set, TRUE)  BY Zenon, <1>1, <1>3, <1>5, PathSays
<1>7. a.type = "AS4_PATH" /\ Copied(a) = a
  BY Zenon, <1>6, PathAttrsTyped DEF PathArrives
<1>8. AttrPrinted(a, isAS4).shown = AsPathPrinted(a.body, TRUE)  BY Zenon, <1>7, AttrShown
<1>9. Narrow(path, TRUE) = path /\ Narrow(u.set, TRUE) = u.set
  BY Zenon, <1>1, NothingNarrowed
<1> QED  BY Zenon, <1>2, <1>6, <1>7, <1>8, <1>9 DEF PathArrives

(* What Describes says of the path of an update.                           *)
AsPathSaid(shown, u, c, isAS4) ==
  \/ ~Printable(u.path) \/ DoesNotArrive(Written(c, u.path), u.set, AsnSize(isAS4))
  \/ Seen(shown, "AS_PATH", Narrow(Written(c, u.path), isAS4), Narrow(u.set, isAS4))

As4PathSaid(shown, u, c, isAS4) ==
  IF isAS4 \/ ~WideIn(u) THEN Those(shown, "AS4_PATH") = {}
  ELSE \/ ~Printable(u.path) \/ DoesNotArrive(Written(c, u.path), u.set, 4)
       \/ Seen(shown, "AS4_PATH", Written(c, u.path), u.set)

SecuredSaid(shown, u, c) ==
  /\ Those(shown, "AS_PATH") = {}
  /\ Printable(u.path) /\ Countable(Written(c, u.path))
     => Seen(shown, "BGPSEC", Written(c, u.path), <<>>)

PathSaid(shown, u, c, isAS4) ==
  IF Those(shown, "BGPSEC") # {} THEN SecuredSaid(shown, u, c)
  ELSE AsPathSaid(shown, u, c, isAS4) /\ As4PathSaid(shown, u, c, isAS4)

LEMMA DescribesIs ==
  ASSUME NEW m, NEW u, NEW c, NEW isAS4, NEW shown, shown = printBGP_Message(m, isAS4),
         PrefixSaid(shown, u), ValidationSaid(shown, u), PrefSaid(shown, c),
         PathSaid(shown, u, c, isAS4)
  PROVE  Describes(m, u, c, isAS4)
  BY DEF Describes, PrefixSaid, ValidationSaid, PrefSaid, PathSaid, SecuredSaid, AsPathSaid,
         As4PathSaid, Seen, Those, Narrow

(* The attributes of the message behind the fixed ones, and how it is shown. *)
BehindFixed(m, Q, shown, isAS4) ==
  /\ AttrList(Q) /\ AttrList(m.attrs)
  /\ \A t \in {"BGPSEC", "AS_PATH", "AS4_PATH"} :
       /\ Never(Q, t) => Never(m.attrs, t)
       /\ \A x : Once(Q, t, x) => Once(m.attrs, t, x)
  /\ \E nlri : PrintedAs(shown, m, isAS4, nlri)

LEMMA PathTypesShown ==
  ASSUME NEW m, NEW Q, NEW shown, NEW isAS4, BehindFixed(m, Q, shown, isAS4),
         NEW t, t \in {"BGPSEC", "AS_PATH", "AS4_PATH"}
  PROVE  /\ Never(Q, t) => Those(shown, t) = {}
         /\ \A x : Once(Q, t, x) =>
              /\ Those(shown, t) # {}
              /\ \A seq, set : Says(AttrPrinted(x, isAS4).shown, seq, set)
                               => Seen(shown, t, seq, set)
<1> PICK nlri : PrintedAs(shown, m, isAS4, nlri)  BY Zenon DEF BehindFixed
<1>1. AttrList(m.attrs)  BY Zenon DEF BehindFixed
<1>2. /\ Never(Q, t) => Never(m.attrs, t)
      /\ \A x : Once(Q, t, x) => Once(m.attrs, t, x)
  <2>1. \A s \in {"BGPSEC", "AS_PATH", "AS4_PATH"} :
          /\ Never(Q, s) => Never(m.attrs, s)
          /\ \A x : Once(Q, s, x) => Once(m.attrs, s, x)
    BY Zenon DEF BehindFixed
  <2> QED  BY Zenon, <2>1
<1>3. ASSUME Never(Q, t)  PROVE Those(shown, t) = {}
  BY Zenon, <1>1, <1>2, <1>3, NoneShown
<1>4. ASSUME NEW x, Once(Q, t, x)
      PROVE  /\ Those(shown, t) # {}
             /\ \A seq, set : Says(AttrPrinted(x, isAS4).shown, seq, set)
                              => Seen(shown, t, seq, set)
  <2>1. Once(m.attrs, t, x)  BY Zenon, <1>2, <1>4
  <2> QED  BY Zenon, <1>1, <2>1, OneShown
<1> QED  BY Zenon, <1>3, <1>4

LEMMA WideIs == ASSUME NEW u PROVE As4Needed(u) <=> ~UseAS4 /\ WideIn(u)
  BY Zenon DEF As4Needed, Has4ByteASN, WideIn

(* A list of one attribute.                                                *)
OneOf(Q, t, x) == Q = <<x>> /\ x.type = t

LEMMA OneOfOnce ==
  ASSUME NEW Q, NEW t, NEW x, OneOf(Q, t, x)
  PROVE  AttrList(Q) /\ Once(Q, t, x) /\ \A s : s # t => Never(Q, s)
<1>1. Q = <<x>> /\ x.type = t  BY Zenon DEF OneOf
<1>2. AttrList(<<x>>) /\ Once(<<x>>, x.type, x) /\ \A s : s # x.type => Never(<<x>>, s)
  BY Zenon, OneListed
<1> QED  BY Zenon, <1>1, <1>2

LEMMA BgpsecKinds ==
  "BGPSEC" \in {"BGPSEC", "AS_PATH", "AS4_PATH"} /\ "AS_PATH" \in {"BGPSEC", "AS_PATH", "AS4_PATH"}
  /\ "AS4_PATH" \in {"BGPSEC", "AS_PATH", "AS4_PATH"}
  OBVIOUS

LEMMA KindsDiffer ==
  /\ "AS_PATH" # "BGPSEC" /\ "AS4_PATH" # "BGPSEC" /\ "AS4_PATH" # "AS_PATH"
  /\ \A t \in {"MP_REACH_NLRI", "EXT_COMM", "LOC_PREF"} :
       t # "BGPSEC" /\ t # "AS_PATH" /\ t # "AS4_PATH"
  OBVIOUS

(* A BGPsec path.                                                          *)
LEMMA SecuredPathSaid ==
  ASSUME NEW u, Writable(u), conf \in Sessions, Secured(u) # NoAttribute,
         NEW Q, Q = <<Secured(u)>>, NEW isAS4, NEW m, NEW shown, BehindFixed(m, Q, shown, isAS4)
  PROVE  PathSaid(shown, u, conf, isAS4) /\ PathOnly(Q)
<1> PICK a : a = Secured(u)  OBVIOUS
<1> PICK segs : segs = Segments(MyPath(conf, u.path))  OBVIOUS
<1>1. OfSegments(a, segs, conf)  BY Zenon, SecuredIs
<1>2. CapiSet(conf)  BY Zenon, ConfiguredTyped
<1>3. a.type = "BGPSEC"  BY Zenon, <1>1, <1>2, SecuredKept
<1>4. OneOf(Q, "BGPSEC", a)  BY Zenon, <1>3 DEF OneOf
<1>5. Once(Q, "BGPSEC", a) /\ \A s : s # "BGPSEC" => Never(Q, s)  BY Zenon, <1>4, OneOfOnce
<1>6. Never(Q, "AS_PATH")  BY Zenon, <1>5, KindsDiffer
<1>7. Those(shown, "AS_PATH") = {}  BY Zenon, <1>6, BgpsecKinds, PathTypesShown
<1>8. /\ Those(shown, "BGPSEC") # {}
      /\ \A seq, set : Says(AttrPrinted(a, isAS4).shown, seq, set) => Seen(shown, "BGPSEC", seq, set)
  BY Zenon, <1>5, BgpsecKinds, PathTypesShown
<1>9. ASSUME Printable(u.path), Countable(Written(conf, u.path))
      PROVE  Seen(shown, "BGPSEC", Written(conf, u.path), <<>>)
  <2>1. Says(AttrPrinted(a, isAS4).shown, Written(conf, u.path), <<>>)
    BY Zenon, <1>9, SecuredSays
  <2> QED  BY Zenon, <1>8, <2>1
<1>10. PathOnly(Q)  BY Zenon, <1>5, KindsDiffer DEF PathOnly
<1> QED  BY Zenon, <1>7, <1>8, <1>9, <1>10 DEF PathSaid, SecuredSaid

(* An AS_PATH, whatever stands before it.                                  *)
LEMMA AsPathShown ==
  ASSUME NEW u, Writable(u), AsPathOf(u) # NoAttribute,
         NEW Q, Once(Q, "AS_PATH", Copied(AsPathOf(u))),
         NEW m, NEW shown, BehindFixed(m, Q, shown, UseAS4)
  PROVE  AsPathSaid(shown, u, conf, UseAS4)
<1> PICK a : a = Copied(AsPathOf(u))  OBVIOUS
<1>1. \A seq, set : Says(AttrPrinted(a, UseAS4).shown, seq, set) => Seen(shown, "AS_PATH", seq, set)
  BY Zenon, BgpsecKinds, PathTypesShown
<1>2. ASSUME Printable(u.path), ~DoesNotArrive(Written(conf, u.path), u.set, AsnSize(UseAS4))
      PROVE  Seen(shown, "AS_PATH", Narrow(Written(conf, u.path), UseAS4), Narrow(u.set, UseAS4))
  <2>1. Says(AttrPrinted(a, UseAS4).shown, Narrow(Written(conf, u.path), UseAS4),
             Narrow(u.set, UseAS4))
    BY Zenon, <1>2, AsPathSeen
  <2> QED  BY Zenon, <1>1, <2>1
<1> QED  BY Zenon, <1>2 DEF AsPathSaid

(* An AS_PATH alone.                                                       *)
LEMMA PlainPathSaid ==
  ASSUME NEW u, Writable(u), AsPathOf(u) # NoAttribute, ~As4Needed(u),
         NEW Q, Q = <<Copied(AsPathOf(u))>>,
         NEW m, NEW shown, BehindFixed(m, Q, shown, UseAS4)
  PROVE  PathSaid(shown, u, conf, UseAS4)
<1> PICK a : a = Copied(AsPathOf(u))  OBVIOUS
<1>1. a.type = "AS_PATH"  BY Zenon, PathAttrsTyped
<1>2. OneOf(Q, "AS_PATH", a)  BY Zenon, <1>1 DEF OneOf
<1>3. Once(Q, "AS_PATH", a) /\ \A s : s # "AS_PATH" => Never(Q, s)  BY Zenon, <1>2, OneOfOnce
<1>4. Never(Q, "BGPSEC") /\ Never(Q, "AS4_PATH")  BY Zenon, <1>3, KindsDiffer
<1>5. Those(shown, "BGPSEC") = {} /\ Those(shown, "AS4_PATH") = {}
  BY Zenon, <1>4, BgpsecKinds, PathTypesShown
<1>6. AsPathSaid(shown, u, conf, UseAS4)  BY Zenon, <1>3, AsPathShown
<1>7. UseAS4 \/ ~WideIn(u)  BY Zenon, WideIs
<1>8. As4PathSaid(shown, u, conf, UseAS4)  BY Zenon, <1>5, <1>7 DEF As4PathSaid
<1> QED  BY Zenon, <1>5, <1>6, <1>8 DEF PathSaid

LEMMA PlainPathOnly ==
  ASSUME NEW u, Writable(u), AsPathOf(u) # NoAttribute, NEW Q, Q = <<Copied(AsPathOf(u))>>
  PROVE  PathOnly(Q)
<1> PICK a : a = Copied(AsPathOf(u))  OBVIOUS
<1>1. a.type = "AS_PATH"  BY Zenon, PathAttrsTyped
<1>2. OneOf(Q, "AS_PATH", a)  BY Zenon, <1>1 DEF OneOf
<1>3. \A s : s # "AS_PATH" => Never(Q, s)  BY Zenon, <1>2, OneOfOnce
<1> QED  BY Zenon, <1>3, KindsDiffer DEF PathOnly

(* An AS4_PATH and an AS_PATH.                                             *)
LEMMA BothListed ==
  ASSUME NEW u, Writable(u), AsPathOf(u) # NoAttribute, As4PathOf(u) # NoAttribute,
         NEW Q, Q = <<Copied(As4PathOf(u))>> \o <<Copied(AsPathOf(u))>>
  PROVE  /\ Once(Q, "AS_PATH", Copied(AsPathOf(u)))
         /\ Once(Q, "AS4_PATH", Copied(As4PathOf(u)))
         /\ \A s : s # "AS_PATH" /\ s # "AS4_PATH" => Never(Q, s)
<1> PICK a, b : a = Copied(AsPathOf(u)) /\ b = Copied(As4PathOf(u))  OBVIOUS
<1>1. a.type = "AS_PATH" /\ b.type = "AS4_PATH"  BY Zenon, PathAttrsTyped
<1> PICK A, B : A = <<a>> /\ B = <<b>>  OBVIOUS
<1>2. OneOf(A, "AS_PATH", a) /\ OneOf(B, "AS4_PATH", b)  BY Zenon, <1>1 DEF OneOf
<1>3. AttrList(A) /\ Once(A, "AS_PATH", a) /\ \A s : s # "AS_PATH" => Never(A, s)
  BY Zenon, <1>2, OneOfOnce
<1>4. AttrList(B) /\ Once(B, "AS4_PATH", b) /\ \A s : s # "AS4_PATH" => Never(B, s)
  BY Zenon, <1>2, OneOfOnce
<1>5. \A s : TypesJoined(B \o A, B, A, s)  BY Zenon, <1>3, <1>4, TypesJoin
<1>6. Q = B \o A  BY Zenon
<1>7. \A s : TypesJoined(Q, B, A, s)  BY Zenon, <1>5, <1>6
<1>8. Never(A, "AS4_PATH") /\ Never(B, "AS_PATH")  BY Zenon, <1>3, <1>4, KindsDiffer
<1>9. Once(Q, "AS_PATH", a)  BY Zenon, <1>3, <1>7, <1>8 DEF TypesJoined
<1>10. Once(Q, "AS4_PATH", b)  BY Zenon, <1>4, <1>7, <1>8 DEF TypesJoined
<1>11. \A s : s # "AS_PATH" /\ s # "AS4_PATH" => Never(Q, s)
  BY Zenon, <1>3, <1>4, <1>7 DEF TypesJoined
<1> QED  BY Zenon, <1>9, <1>10, <1>11

LEMMA BothPathSaid ==
  ASSUME NEW u, Writable(u), AsPathOf(u) # NoAttribute, As4PathOf(u) # NoAttribute, As4Needed(u),
         NEW Q, Q = <<Copied(As4PathOf(u))>> \o <<Copied(AsPathOf(u))>>,
         NEW m, NEW shown, BehindFixed(m, Q, shown, UseAS4)
  PROVE  PathSaid(shown, u, conf, UseAS4)
<1> PICK b : b = Copied(As4PathOf(u))  OBVIOUS
<1>1. /\ Once(Q, "AS_PATH", Copied(AsPathOf(u))) /\ Once(Q, "AS4_PATH", b)
      /\ \A s : s # "AS_PATH" /\ s # "AS4_PATH" => Never(Q, s)
  BY Zenon, BothListed
<1>2. Never(Q, "BGPSEC")  BY Zenon, <1>1, KindsDiffer
<1>3. Those(shown, "BGPSEC") = {}  BY Zenon, <1>2, BgpsecKinds, PathTypesShown
<1>4. AsPathSaid(shown, u, conf, UseAS4)  BY Zenon, <1>1, AsPathShown
<1>5. \A seq, set : Says(AttrPrinted(b, UseAS4).shown, seq, set) => Seen(shown, "AS4_PATH", seq, set)
  BY Zenon, <1>1, BgpsecKinds, PathTypesShown
<1>6. ASSUME Printable(u.path), ~DoesNotArrive(Written(conf, u.path), u.set, 4)
      PROVE  Seen(shown, "AS4_PATH", Written(conf, u.path), u.set)
  <2>1. Says(AttrPrinted(b, UseAS4).shown, Written(conf, u.path), u.set)
    BY Zenon, <1>6, As4PathSeen
  <2> QED  BY Zenon, <1>5, <2>1
<1>7. ~(UseAS4 \/ ~WideIn(u))  BY Zenon, WideIs
<1>8. As4PathSaid(shown, u, conf, UseAS4)  BY Zenon, <1>6, <1>7 DEF As4PathSaid
<1> QED  BY Zenon, <1>3, <1>4, <1>8 DEF PathSaid

LEMMA BothPathOnly ==
  ASSUME NEW u, Writable(u), AsPathOf(u) # NoAttribute, As4PathOf(u) # NoAttribute,
         NEW Q, Q = <<Copied(As4PathOf(u))>> \o <<Copied(AsPathOf(u))>>
  PROVE  PathOnly(Q)
<1>1. \A s : s # "AS_PATH" /\ s # "AS4_PATH" => Never(Q, s)  BY Zenon, BothListed
<1> QED  BY Zenon, <1>1, KindsDiffer DEF PathOnly

-----------------------------------------------------------------------------
(* Updates that do not fit                                                 *)

(* The path is converted into as many numbers as are written.              *)
Repeated(reps, f, path) ==
  /\ \A i \in DOMAIN path : f[i] \in Int
  /\ reps = [i \in DOMAIN path |-> [j \in 1..path[i].count |-> f[i]]]

Repeats(reps, path) ==
  /\ reps \in Seq(Seq(Int)) /\ Len(reps) = Len(path)
  /\ \A i \in 1..Len(path) : Len(reps[i]) = path[i].count

LEMMA RepeatsTyped ==
  ASSUME NEW path \in Seq([asn : Nat, count : Nat, dotted : BOOLEAN]), NEW f,
         NEW reps, Repeated(reps, f, path)
  PROVE  Repeats(reps, path)
<1>0. /\ \A i \in DOMAIN path : f[i] \in Int
      /\ reps = [i \in DOMAIN path |-> [j \in 1..path[i].count |-> f[i]]]
  BY Zenon DEF Repeated
<1>1. DOMAIN path = 1..Len(path) /\ Len(path) \in Nat  OBVIOUS
<1>2. \A i \in 1..Len(path) : path[i].count \in Nat
  <2> SUFFICES ASSUME NEW i \in 1..Len(path) PROVE path[i].count \in Nat  OBVIOUS
  <2>1. path[i] \in [asn : Nat, count : Nat, dotted : BOOLEAN]  BY ElementOfSeq
  <2> QED  BY <2>1
<1>3. ASSUME NEW i \in 1..Len(path)
      PROVE  reps[i] \in Seq(Int) /\ Len(reps[i]) = path[i].count
  <2> PICK n, x : n = path[i].count /\ x = f[i]  OBVIOUS
  <2>1. n \in Nat /\ x \in Int  BY Zenon, <1>0, <1>1, <1>2, <1>3
  <2>2. reps[i] = [j \in 1..n |-> x]  BY Zenon, <1>0, <1>1, <1>3
  <2> QED  BY <2>1, <2>2
<1>4. reps = [i \in 1..Len(path) |-> reps[i]]
  <2>1. DOMAIN reps = 1..Len(path)  BY Zenon, <1>0, <1>1
  <2>2. reps = [i \in DOMAIN reps |-> reps[i]]  BY Zenon, <1>0
  <2> QED  BY Zenon, <2>1, <2>2
<1> PICK n : n = Len(path)  OBVIOUS
<1>5. reps \in [1..n -> Seq(Int)]
  <2>1. \A i \in 1..n : reps[i] \in Seq(Int)  BY Zenon, <1>3
  <2>2. reps = [i \in 1..n |-> reps[i]]  BY Zenon, <1>4
  <2> QED  BY Zenon, <2>1, <2>2
<1>6. reps \in Seq(Seq(Int)) /\ Len(reps) = n
  <2>1. n \in Nat  BY <1>1
  <2>2. reps = [i \in 1..n |-> reps[i]]  BY Zenon, <1>4
  <2>3. Len(reps) = n  BY Zenon, <2>1, <2>2, IsSeq
  <2> QED  BY Zenon, <1>5, <2>1, <2>3, FunctionIsSeq
<1> QED  BY Zenon, <1>3, <1>6 DEF Repeats

SameLength(a, b) == a \in Seq(Int) /\ b \in Seq(Int) /\ Len(a) = Len(b)

LEMMA PrefixedLengths ==
  ASSUME NEW a, NEW b, SameLength(a, b), NEW x \in Int
  PROVE  SameLength(a, <<>> \o b) /\ SameLength(<<x>> \o a, <<x>> \o b)
<1>1. a \in Seq(Int) /\ b \in Seq(Int) /\ Len(a) = Len(b)  BY Zenon DEF SameLength
<1> PICK e, s : e = <<>> /\ s = <<x>>  OBVIOUS
<1>2. e \in Seq(Int) /\ Len(e) = 0 /\ s \in Seq(Int)  OBVIOUS
<1>3. /\ e \o b \in Seq(Int) /\ Len(e \o b) = Len(e) + Len(b)
      /\ s \o a \in Seq(Int) /\ Len(s \o a) = Len(s) + Len(a)
      /\ s \o b \in Seq(Int) /\ Len(s \o b) = Len(s) + Len(b)
  BY <1>1, <1>2, ConcatProperties
<1>4. Len(e \o b) = Len(a) /\ Len(s \o a) = Len(s \o b)
  BY <1>1, <1>2, <1>3
<1> QED  BY Zenon, <1>1, <1>3, <1>4 DEF SameLength

LEMMA WrittenLength ==
  ASSUME NEW c, c.asn \in Nat,
         NEW path \in Seq([asn : Nat, count : Nat, dotted : BOOLEAN])
  PROVE  SameLength(MyPath(c, path), Written(c, path))
<1> PICK f, g : f = [i \in DOMAIN path |-> Printed(path[i])]
                /\ g = [i \in DOMAIN path |-> path[i].asn]
  OBVIOUS
<1> PICK a, b : a = [i \in DOMAIN path |-> [j \in 1..path[i].count |-> f[i]]]
                /\ b = [i \in DOMAIN path |-> [j \in 1..path[i].count |-> g[i]]]
  OBVIOUS
<1>1. \A i \in DOMAIN path : path[i].asn \in Nat
  <2> SUFFICES ASSUME NEW i \in DOMAIN path PROVE path[i].asn \in Nat  OBVIOUS
  <2>1. i \in 1..Len(path)  OBVIOUS
  <2>2. path[i] \in [asn : Nat, count : Nat, dotted : BOOLEAN]  BY <2>1, ElementOfSeq
  <2> QED  BY <2>2
<1>2. \A i \in DOMAIN path : f[i] \in Int
  <2> SUFFICES ASSUME NEW i \in DOMAIN path PROVE f[i] \in Int  OBVIOUS
  <2>1. Printed(path[i]) \in Int  BY <1>1, Widths DEF Printed
  <2>2. f[i] = Printed(path[i])  BY Zenon
  <2> QED  BY Zenon, <2>1, <2>2
<1>3. \A i \in DOMAIN path : g[i] \in Int
  <2> SUFFICES ASSUME NEW i \in DOMAIN path PROVE g[i] \in Int  OBVIOUS
  <2>1. path[i].asn \in Int  BY <1>1
  <2>2. g[i] = path[i].asn  BY Zenon
  <2> QED  BY Zenon, <2>1, <2>2
<1>4. Repeated(a, f, path) /\ Repeated(b, g, path)  BY Zenon, <1>2, <1>3 DEF Repeated
<1>5. Repeats(a, path) /\ Repeats(b, path)  BY Zenon, <1>4, RepeatsTyped
<1> PICK p, q : p = FlattenSeq(a) /\ q = FlattenSeq(b)  OBVIOUS
<1>6. SameLength(p, q)
  <2>0. /\ a \in Seq(Seq(Int)) /\ Len(a) = Len(path) /\ b \in Seq(Seq(Int)) /\ Len(b) = Len(path)
        /\ \A i \in 1..Len(path) : Len(a[i]) = path[i].count /\ Len(b[i]) = path[i].count
    BY Zenon, <1>5 DEF Repeats
  <2>1. Len(a) = Len(b) /\ \A k \in 1..Len(b) : Len(a[k]) = Len(b[k])
    <3> PICK n : n = Len(path)  OBVIOUS
    <3>1. Len(a) = n /\ Len(b) = n  BY Zenon, <2>0
    <3>2. \A k \in 1..n : Len(a[k]) = Len(b[k])
      <4> SUFFICES ASSUME NEW k \in 1..n PROVE Len(a[k]) = Len(b[k])  OBVIOUS
      <4>1. Len(a[k]) = path[k].count  BY Zenon, <2>0
      <4>2. Len(b[k]) = path[k].count  BY Zenon, <2>0
      <4> QED  BY Zenon, <4>1, <4>2
    <3> QED  BY Zenon, <3>1, <3>2
  <2>2. Len(FlattenSeq(a)) = Len(FlattenSeq(b))  BY <2>0, <2>1, FlattenLengths
  <2>3. p \in Seq(Int) /\ q \in Seq(Int)  BY Zenon, <2>0, FlattenIsSeq
  <2> QED  BY Zenon, <2>2, <2>3 DEF SameLength
<1>7. LongPath(path) = p
  <2>1. a = [i \in DOMAIN path |-> [j \in 1..path[i].count |-> Printed(path[i])]]
    BY Zenon
  <2> QED  BY Zenon, <2>1 DEF LongPath
<1>8. b = [i \in DOMAIN path |-> [j \in 1..path[i].count |-> path[i].asn]]
  BY Zenon
<1>9. c.asn \in Int  OBVIOUS
<1>10. SameLength(p, <<>> \o q) /\ SameLength(<<c.asn>> \o p, <<c.asn>> \o q)
  BY Zenon, <1>6, <1>9, PrefixedLengths
<1>11. CASE IBGP(c)
  <2>1. MyPath(c, path) = p /\ Written(c, path) = <<>> \o q
    BY Zenon, <1>7, <1>8, <1>11 DEF MyPath, Written
  <2> QED  BY Zenon, <1>10, <2>1
<1>12. CASE ~IBGP(c)
  <2>1. MyPath(c, path) = <<c.asn>> \o p /\ Written(c, path) = <<c.asn>> \o q
    BY Zenon, <1>7, <1>8, <1>12 DEF MyPath, Written
  <2> QED  BY Zenon, <1>10, <2>1
<1> QED  BY Zenon, <1>11, <1>12

(* The segments of a list take little room beside its numbers.             *)
LongAt(l, size, n, c) ==
  l = 2 * c + size * n /\ n \in Nat /\ c \in Nat /\ 255 * c <= n + 510

Above(l, k) == l > SESS_MIN_MESSAGE_BUFFER - k

LEMMA CountBound ==
  ASSUME NEW n \in Nat
  PROVE  255 * SegmentCount(n) <= n + 255
<1> PICK q : q = n \div 255  OBVIOUS
<1>1. q \in Nat /\ 255 * q <= n  OBVIOUS
<1>2. SegmentCount(n) = IF n > 0 THEN q + 1 ELSE 0  BY Zenon DEF SegmentCount
<1> QED  BY <1>1, <1>2

LEMMA TwoBytesLong ==
  ASSUME NEW l, NEW n, NEW c, LongAt(l, 2, n, c), Above(l, 64)
  PROVE  Above(n * 2, 200) /\ Above(n * 6, 200)
<1>1. l = 2 * c + 2 * n /\ n \in Nat /\ c \in Nat /\ 255 * c <= n + 510  BY Zenon DEF LongAt
<1>2. l > 10240 - 64  BY DEF Above, SESS_MIN_MESSAGE_BUFFER
<1>3. n * 2 > 10240 - 200  BY <1>1, <1>2
<1>4. n * 6 > 10240 - 200  BY <1>1, <1>3
<1> QED  BY <1>3, <1>4 DEF Above, SESS_MIN_MESSAGE_BUFFER

LEMMA FourBytesLong ==
  ASSUME NEW l, NEW n, NEW c, LongAt(l, 4, n, c), Above(l, 64)
  PROVE  Above(n * 4, 200) /\ Above(n * 6, 200)
<1>1. l = 2 * c + 4 * n /\ n \in Nat /\ c \in Nat /\ 255 * c <= n + 510  BY Zenon DEF LongAt
<1>2. l > 10240 - 64  BY DEF Above, SESS_MIN_MESSAGE_BUFFER
<1>3. n * 4 > 10240 - 200  BY <1>1, <1>2
<1>4. n * 6 > 10240 - 200  BY <1>1, <1>3
<1> QED  BY <1>3, <1>4 DEF Above, SESS_MIN_MESSAGE_BUFFER

LEMMA BothLong ==
  ASSUME NEW l, NEW k, NEW n, NEW c, LongAt(l, 4, n, c), LongAt(k, 2, n, c),
         NEW s, s = l + k, Above(s, 68)
  PROVE  Above(n * 6, 200)
<1>1. l = 2 * c + 4 * n /\ n \in Nat /\ c \in Nat /\ 255 * c <= n + 510  BY Zenon DEF LongAt
<1>2. k = 2 * c + 2 * n  BY Zenon DEF LongAt
<1>3. s > 10240 - 68  BY DEF Above, SESS_MIN_MESSAGE_BUFFER
<1>4. n * 6 > 10240 - 200  BY <1>1, <1>2, <1>3
<1> QED  BY <1>4 DEF Above, SESS_MIN_MESSAGE_BUFFER

FewSegments(c, n) == c \in Nat /\ n \in Nat /\ 255 * c <= n + 255
FewHeaders(n, c) == n \in Nat /\ c \in Nat /\ 255 * c <= n + 510

LEMMA FewAre ==
  ASSUME NEW n \in Nat
  PROVE  FewSegments(SegmentCount(n), n)
<1>1. SegmentCount(n) \in Nat  BY Zenon, CountsTyped
<1>2. 255 * SegmentCount(n) <= n + 255  BY Zenon, CountBound
<1> QED  BY Zenon, <1>1, <1>2 DEF FewSegments

LEMMA FewAdd ==
  ASSUME NEW c1, NEW n1, FewSegments(c1, n1), NEW c2, NEW n2, FewSegments(c2, n2)
  PROVE  FewHeaders(n1 + n2, c1 + c2)
  BY DEF FewSegments, FewHeaders

(* The numbers of an update and the bytes they take.                       *)
Numbers(u) == Len(Written(conf, u.path)) + Len(u.set)
LengthsOf(u, c) == \A isAS4 : LongAt(LengthOf(u, isAS4), AsnSize(isAS4), Numbers(u), c)

LEMMA LengthsAre ==
  ASSUME NEW u, Writable(u), conf \in Sessions
  PROVE  \E c : LengthsOf(u, c)
<1>1. conf.asn \in Nat  BY Zenon, ConfiguredTyped
<1>2. u.path \in Seq([asn : Nat, count : Nat, dotted : BOOLEAN]) /\ u.set \in Seq(Nat)
  BY Zenon DEF Writable
<1> PICK path, written : path = MyPath(conf, u.path) /\ written = Written(conf, u.path)  OBVIOUS
<1>3. SameLength(path, written)  BY Zenon, <1>1, <1>2, WrittenLength
<1>4. path \in Seq(Int) /\ Len(path) = Len(written)  BY Zenon, <1>3 DEF SameLength
<1> PICK n1, n2 : n1 = Len(path) /\ n2 = Len(u.set)  OBVIOUS
<1>5. n1 \in Nat /\ n2 \in Nat  BY <1>2, <1>4
<1> PICK c1, c2 : c1 = SegmentCount(n1) /\ c2 = SegmentCount(n2)  OBVIOUS
<1>6. c1 \in Nat /\ c2 \in Nat  BY Zenon, <1>5, CountsTyped
<1>7. FewSegments(c1, n1) /\ FewSegments(c2, n2)  BY Zenon, <1>5, FewAre
<1> PICK n, c : n = n1 + n2 /\ c = c1 + c2  OBVIOUS
<1>8. FewHeaders(n1 + n2, c1 + c2)  BY Zenon, <1>7, FewAdd
<1>9. n = Numbers(u)  BY Zenon, <1>4 DEF Numbers
<1>10. n \in Nat /\ c \in Nat /\ 255 * c <= n + 510
  BY Zenon, <1>8 DEF FewHeaders
<1>11. ASSUME NEW isAS4
       PROVE  LongAt(LengthOf(u, isAS4), AsnSize(isAS4), n, c)
  <2> PICK size : size = AsnSize(isAS4)  OBVIOUS
  <2>1. LengthOf(u, isAS4) = 2 * (c1 + c2) + size * (n1 + n2)
    BY Zenon DEF LengthOf, AttrLength
  <2>2. LengthOf(u, isAS4) = 2 * c + size * n  BY Zenon, <2>1
  <2> QED  BY Zenon, <1>10, <2>2 DEF LongAt
<1> QED  BY Zenon, <1>9, <1>11 DEF LengthsOf

Fitting(u, isAS4) == AsnSize(isAS4) + IF isAS4 \/ ~WideIn(u) THEN 0 ELSE 4

LEMMA ManyNumbers ==
  ASSUME NEW u, NEW isAS4, Above(Numbers(u) * Fitting(u, isAS4), 200)
  PROVE  DoesNotFit(u, conf, NoAttribute, isAS4)
  BY Zenon DEF DoesNotFit, Above, Numbers, Fitting

LEMMA ManyBytes ==
  ASSUME NEW u, NEW isAS4, Secured(u) # NoAttribute, Above(Secured(u).length, 200)
  PROVE  DoesNotFit(u, conf, Secured(u), isAS4)
  BY Zenon DEF DoesNotFit, Above

LEMMA FittingIs ==
  ASSUME NEW u, NEW isAS4
  PROVE  /\ isAS4 => Fitting(u, isAS4) = 4
         /\ ~isAS4 /\ WideIn(u) => Fitting(u, isAS4) = 6
         /\ ~isAS4 /\ ~WideIn(u) => Fitting(u, isAS4) = 2
  BY DEF Fitting, AsnSize

LEMMA AsnSizeIs ==
  ASSUME NEW isAS4
  PROVE  /\ isAS4 => AsnSize(isAS4) = 4
         /\ ~isAS4 => AsnSize(isAS4) = 2
  BY DEF AsnSize

WithinOne(n, l) == n \in Nat /\ l \in Nat /\ n <= 4 + l
WithinTwo(n, k, l) == n \in Nat /\ k \in Nat /\ l \in Nat /\ n <= 4 + k + (4 + l)
TooBig(n) == n > Much

LEMMA OneIsLong ==
  ASSUME NEW n, NEW l, WithinOne(n, l), TooBig(n)
  PROVE  Above(l, 64) /\ Above(l, 200)
  BY DEF WithinOne, TooBig, Much, Above, SESS_MIN_MESSAGE_BUFFER

LEMMA TwoAreLong ==
  ASSUME NEW n, NEW k, NEW l, WithinTwo(n, k, l), TooBig(n)
  PROVE  Above(k + l, 68)
  BY DEF WithinTwo, TooBig, Much, Above, SESS_MIN_MESSAGE_BUFFER

LEMMA LongIsNat ==
  ASSUME NEW l, NEW isAS4, NEW n, NEW c, LongAt(l, AsnSize(isAS4), n, c)
  PROVE  l \in Nat
<1> PICK size : size = AsnSize(isAS4)  OBVIOUS
<1>1. size = 2 \/ size = 4  BY DEF AsnSize
<1>2. l = 2 * c + size * n /\ n \in Nat /\ c \in Nat  BY Zenon DEF LongAt
<1>3. CASE size = 2  BY <1>2, <1>3
<1>4. CASE size = 4  BY <1>2, <1>4
<1> QED  BY Zenon, <1>1, <1>3, <1>4

LEMMA LengthOfTyped ==
  ASSUME NEW u, Writable(u), conf \in Sessions, NEW isAS4
  PROVE  LengthOf(u, isAS4) \in Nat
<1> PICK c : LengthsOf(u, c)  BY Zenon, LengthsAre
<1>1. LongAt(LengthOf(u, isAS4), AsnSize(isAS4), Numbers(u), c)  BY Zenon DEF LengthsOf
<1> QED  BY Zenon, <1>1, LongIsNat

(* A path that is too long for a message has too many numbers.             *)
LEMMA LongNotFit ==
  ASSUME NEW u, Writable(u), conf \in Sessions, Above(LengthOf(u, UseAS4), 64)
  PROVE  DoesNotFit(u, conf, NoAttribute, UseAS4)
<1> PICK w : w = UseAS4  OBVIOUS
<1> PICK n : n = Numbers(u)  OBVIOUS
<1> PICK c : LengthsOf(u, c)  BY Zenon, LengthsAre
<1>1. LongAt(LengthOf(u, w), AsnSize(w), n, c)  BY Zenon DEF LengthsOf
<1>2. Above(LengthOf(u, w), 64)  BY Zenon
<1>3. CASE w
  <2>1. AsnSize(w) = 4 /\ Fitting(u, w) = 4  BY Zenon, <1>3, AsnSizeIs, FittingIs
  <2>2. LongAt(LengthOf(u, w), 4, n, c)  BY Zenon, <1>1, <2>1
  <2>3. Above(n * 4, 200)  BY Zenon, <1>2, <2>2, FourBytesLong
  <2> QED  BY Zenon, <2>1, <2>3, ManyNumbers
<1>4. CASE ~w
  <2>1. AsnSize(w) = 2 /\ (Fitting(u, w) = 6 \/ Fitting(u, w) = 2)
    BY Zenon, <1>4, AsnSizeIs, FittingIs
  <2>2. LongAt(LengthOf(u, w), 2, n, c)  BY Zenon, <1>1, <2>1
  <2>3. Above(n * 2, 200) /\ Above(n * 6, 200)  BY Zenon, <1>2, <2>2, TwoBytesLong
  <2> QED  BY Zenon, <2>1, <2>3, ManyNumbers
<1> QED  BY Zenon, <1>3, <1>4

LEMMA WideNotFit ==
  ASSUME NEW u, Writable(u), conf \in Sessions, As4Needed(u), Above(LengthOf(u, TRUE), 64)
  PROVE  DoesNotFit(u, conf, NoAttribute, UseAS4)
<1> PICK n : n = Numbers(u)  OBVIOUS
<1> PICK c : LengthsOf(u, c)  BY Zenon, LengthsAre
<1>1. LongAt(LengthOf(u, TRUE), AsnSize(TRUE), n, c)  BY Zenon DEF LengthsOf
<1>2. AsnSize(TRUE) = 4  BY Zenon, AsnSizeIs
<1>3. LongAt(LengthOf(u, TRUE), 4, n, c)  BY Zenon, <1>1, <1>2
<1>4. Above(n * 6, 200)  BY Zenon, <1>3, FourBytesLong
<1>5. Fitting(u, UseAS4) = 6  BY Zenon, WideIs, FittingIs
<1> QED  BY Zenon, <1>4, <1>5, ManyNumbers

LEMMA BothNotFit ==
  ASSUME NEW u, Writable(u), conf \in Sessions, As4Needed(u),
         Above(LengthOf(u, TRUE) + LengthOf(u, UseAS4), 68)
  PROVE  DoesNotFit(u, conf, NoAttribute, UseAS4)
<1> PICK n : n = Numbers(u)  OBVIOUS
<1> PICK c : LengthsOf(u, c)  BY Zenon, LengthsAre
<1> PICK l, k : l = LengthOf(u, TRUE) /\ k = LengthOf(u, UseAS4)  OBVIOUS
<1>1. LongAt(l, AsnSize(TRUE), n, c) /\ LongAt(k, AsnSize(UseAS4), n, c)
  BY Zenon DEF LengthsOf
<1>2. AsnSize(TRUE) = 4 /\ AsnSize(UseAS4) = 2  BY Zenon, WideIs, AsnSizeIs
<1>3. LongAt(l, 4, n, c) /\ LongAt(k, 2, n, c)  BY Zenon, <1>1, <1>2
<1> PICK s : s = l + k  OBVIOUS
<1>4. Above(s, 68)  BY Zenon
<1>5. Above(n * 6, 200)  BY <1>3, <1>4, BothLong
<1>6. Fitting(u, UseAS4) = 6  BY Zenon, WideIs, FittingIs
<1> QED  BY Zenon, <1>5, <1>6, ManyNumbers

LEMMA NoAs4Path ==
  ASSUME NEW u, As4PathOf(u) = NoAttribute
  PROVE  LengthOf(u, TRUE) > SESS_MIN_MESSAGE_BUFFER
<1> PICK path, l : path = MyPath(conf, u.path) /\ l = AttrLength(path, u.set, TRUE)  OBVIOUS
<1> PICK ext, length, body :
      /\ ext = Extended(path, u.set, TRUE)
      /\ length = (IF ext THEN l ELSE l % 256)
      /\ body = PathSegments("SEQUENCE", path, TRUE) \o PathSegments("SET", u.set, TRUE)
  OBVIOUS
<1> PICK r : r = [type |-> "AS4_PATH", ext |-> ext, length |-> length, body |-> body]  OBVIOUS
<1>1. As4PathOf(u) = IF l > SESS_MIN_MESSAGE_BUFFER THEN NoAttribute ELSE r
  BY Zenon DEF As4PathOf, generateBGP_PathAttr
<1>2. r.type = "AS4_PATH"  OBVIOUS
<1>3. NoAttribute.type = "none"  BY DEF NoAttribute
<1>4. r # NoAttribute  BY Zenon, <1>2, <1>3
<1> QED  BY Zenon, <1>1, <1>4 DEF LengthOf

LEMMA OverIsAbove ==
  ASSUME NEW l \in Nat, l > SESS_MIN_MESSAGE_BUFFER
  PROVE  Above(l, 64)
  BY DEF Above, SESS_MIN_MESSAGE_BUFFER

LEMMA As4NotFit ==
  ASSUME NEW u, Writable(u), conf \in Sessions, As4Needed(u), As4PathOf(u) = NoAttribute
  PROVE  DoesNotFit(u, conf, NoAttribute, UseAS4)
<1> PICK l : l = LengthOf(u, TRUE)  OBVIOUS
<1>1. l \in Nat  BY Zenon, LengthOfTyped
<1>2. l > SESS_MIN_MESSAGE_BUFFER  BY Zenon, NoAs4Path
<1>3. Above(l, 64)  BY <1>1, <1>2, OverIsAbove
<1> QED  BY Zenon, <1>3, WideNotFit

(* An attribute or two that leave no room for a message.                   *)
LEMMA NoRoom ==
  ASSUME NEW u, Writable(u), conf \in Sessions, NEW P, NEW Q, NEW n \in Nat, TooBig(n),
         PathPart(u, P, Q, n)
  PROVE  DoesNotFit(u, conf, Secured(u), UseAS4)
<1>1. CASE SecuredPart(u, P, Q, n)
  <2> PICK a, segs : a = Secured(u) /\ segs = Segments(MyPath(conf, u.path))  OBVIOUS
  <2>0. a # NoAttribute /\ n <= 4 + a.length  BY Zenon, <1>1 DEF SecuredPart
  <2>1. OfSegments(a, segs, conf)  BY Zenon, <2>0, SecuredIs
  <2>2. CapiSet(conf)  BY Zenon, ConfiguredTyped
  <2>3. a.length \in Nat  BY Zenon, <2>1, <2>2, SecuredKept
  <2>4. WithinOne(n, a.length)  BY Zenon, <2>0, <2>3 DEF WithinOne
  <2>5. Above(a.length, 200)  BY Zenon, <2>4, OneIsLong
  <2> QED  BY Zenon, <2>0, <2>5, ManyBytes
<1>2. CASE PlainPart(u, P, Q, n)
  <2> PICK l : l = LengthOf(u, UseAS4)  OBVIOUS
  <2>1. n <= 4 + l /\ Secured(u) = NoAttribute  BY Zenon, <1>2 DEF PlainPart
  <2>2. l \in Nat  BY Zenon, LengthOfTyped
  <2>3. WithinOne(n, l)  BY Zenon, <2>1, <2>2 DEF WithinOne
  <2>4. Above(l, 64)  BY Zenon, <2>3, OneIsLong
  <2>5. DoesNotFit(u, conf, NoAttribute, UseAS4)  BY Zenon, <2>4, LongNotFit
  <2> QED  BY Zenon, <2>1, <2>5
<1>3. CASE BothPart(u, P, Q, n)
  <2> PICK k, l : k = LengthOf(u, TRUE) /\ l = LengthOf(u, UseAS4)  OBVIOUS
  <2>1. n <= 4 + k + (4 + l) /\ Secured(u) = NoAttribute /\ As4Needed(u)
    BY Zenon, <1>3 DEF BothPart
  <2>2. k \in Nat /\ l \in Nat  BY Zenon, LengthOfTyped
  <2>3. WithinTwo(n, k, l)  BY Zenon, <2>1, <2>2 DEF WithinTwo
  <2>4. Above(k + l, 68)  BY Zenon, <2>3, TwoAreLong
  <2>5. DoesNotFit(u, conf, NoAttribute, UseAS4)  BY Zenon, <2>1, <2>4, BothNotFit
  <2> QED  BY Zenon, <2>1, <2>5
<1> QED  BY Zenon, <1>1, <1>2, <1>3 DEF PathPart

-----------------------------------------------------------------------------
(* Updates read back                                                       *)

(* A message that is built describes its update.                           *)
LEMMA MessageDescribes ==
  ASSUME NEW u, Writable(u), conf \in Sessions, NEW P, NEW Q, NEW n,
         PathParts(P, Q, n), PathPart(u, P, Q, n), NEW mpnlri,
         NEW mp, mp = UsesMp(mpnlri, u.nlri),
         NEW F, F = FixedAttrs(LocalPref, u.nlri, mp, u.validation),
         NEW m, MadeOf(m, F, Q, u.nlri, mp),
         ~DoesNotFit(u, conf, Secured(u), UseAS4)
  PROVE  Describes(m, u, conf, UseAS4)
<1> PICK shown : shown = printBGP_Message(m, UseAS4)  OBVIOUS
<1>1. NlriTyped(u.nlri)  BY Zenon DEF Writable, NlriTyped
<1>2. PrintedAs(shown, m, UseAS4, PrefixList(u.nlri, mp))  BY Zenon, <1>1, UpdatePrinted
<1>3. AttrList(Q)  BY Zenon DEF PathParts
<1>4. m.attrs = F \o Q /\ AttrList(m.attrs)  BY Zenon DEF MadeOf
<1>5. BehindFixed(m, Q, shown, UseAS4)
  <2>1. \A t : t \in {"BGPSEC", "AS_PATH", "AS4_PATH"} =>
          /\ Never(Q, t) => Never(F \o Q, t)
          /\ \A x : Once(Q, t, x) => Once(F \o Q, t, x)
    BY Zenon, <1>1, <1>3, PathTypesKept
  <2> QED  BY Zenon, <1>2, <1>3, <1>4, <2>1 DEF BehindFixed
<1>6. PathSaid(shown, u, conf, UseAS4) /\ PathOnly(Q)
  <2>1. CASE SecuredPart(u, P, Q, n)
    <3>1. Secured(u) # NoAttribute /\ Q = <<Secured(u)>>  BY Zenon, <2>1 DEF SecuredPart
    <3> QED  BY Zenon, <1>5, <3>1, SecuredPathSaid
  <2>2. CASE PlainPart(u, P, Q, n)
    <3>1. /\ Secured(u) = NoAttribute /\ AsPathOf(u) # NoAttribute
          /\ As4Needed(u) => As4PathOf(u) = NoAttribute
          /\ Q = <<Copied(AsPathOf(u))>>
      BY Zenon, <2>2 DEF PlainPart
    <3>2. ~As4Needed(u)
      <4> SUFFICES ASSUME As4Needed(u) PROVE FALSE  OBVIOUS
      <4>1. DoesNotFit(u, conf, NoAttribute, UseAS4)  BY Zenon, <3>1, As4NotFit
      <4> QED  BY Zenon, <3>1, <4>1
    <3>3. PathSaid(shown, u, conf, UseAS4)  BY Zenon, <1>5, <3>1, <3>2, PlainPathSaid
    <3>4. PathOnly(Q)  BY Zenon, <3>1, PlainPathOnly
    <3> QED  BY Zenon, <3>3, <3>4
  <2>3. CASE BothPart(u, P, Q, n)
    <3>1. /\ AsPathOf(u) # NoAttribute /\ As4Needed(u) /\ As4PathOf(u) # NoAttribute
          /\ Q = <<Copied(As4PathOf(u))>> \o <<Copied(AsPathOf(u))>>
      BY Zenon, <2>3 DEF BothPart
    <3>2. PathSaid(shown, u, conf, UseAS4)  BY Zenon, <1>5, <3>1, BothPathSaid
    <3>3. PathOnly(Q)  BY Zenon, <3>1, BothPathOnly
    <3> QED  BY Zenon, <3>2, <3>3
  <2> QED  BY Zenon, <2>1, <2>2, <2>3 DEF PathPart
<1>7. PrefixSaid(shown, u) /\ ValidationSaid(shown, u) /\ PrefSaid(shown, conf)
  BY Zenon, <1>2, <1>3, <1>6, FixedShown
<1> QED  BY Zenon, <1>6, <1>7, DescribesIs

(* The update of a script and the message that is made of it.              *)
Reads(m, u, c, secured, isAS4) == DoesNotFit(u, c, secured, isAS4) \/ Describes(m, u, c, isAS4)

LEMMA MessageReads ==
  ASSUME NEW u, Writable(u), conf \in Sessions, NEW P, P = PathOf(u, Secured(u)), P # <<>>,
         NEW mpnlri, NEW m, m = createUpdateMessage(P, LocalPref, u.nlri, mpnlri, u.validation)
  PROVE  /\ m = NoMessage => DoesNotFit(u, conf, Secured(u), UseAS4)
         /\ Reads(m, u, conf, Secured(u), UseAS4)
<1>1. PICK Q, n : PathParts(P, Q, n) /\ PathPart(u, P, Q, n)  BY Zenon, PathIs
<1>2. NlriTyped(u.nlri)  BY Zenon DEF Writable, NlriTyped
<1> PICK mp : mp = UsesMp(mpnlri, u.nlri)  OBVIOUS
<1> PICK F : F = FixedAttrs(LocalPref, u.nlri, mp, u.validation)  OBVIOUS
<1>3. /\ m # NoMessage => MadeOf(m, F, Q, u.nlri, mp)
      /\ m = NoMessage => n > Much
  BY Zenon, <1>1, <1>2, MessageBuilt
<1>4. ASSUME m = NoMessage  PROVE DoesNotFit(u, conf, Secured(u), UseAS4)
  <2>1. n \in Nat  BY Zenon, <1>1 DEF PathParts
  <2>2. TooBig(n)  BY Zenon, <1>3, <1>4 DEF TooBig
  <2> QED  BY Zenon, <1>1, <2>1, <2>2, NoRoom
<1>5. ASSUME m # NoMessage, ~DoesNotFit(u, conf, Secured(u), UseAS4)
      PROVE  Describes(m, u, conf, UseAS4)
  BY Zenon, <1>1, <1>3, <1>5, MessageDescribes
<1> QED  BY Zenon, <1>4, <1>5 DEF Reads

(* The state after a step in which the session stays as it is.             *)
LEMMA SecuredNext ==
  ASSUME UNCHANGED <<conf, peerCap>>, NEW u, u = update'
  PROVE  Secured(update)' = Secured(u) /\ UseAS4' = UseAS4
<1>1. conf' = conf /\ peerCap' = peerCap /\ update' = u  OBVIOUS
<1>2. UseAS4' = UseAS4  BY Zenon, <1>1 DEF UseAS4, Both
<1>3. Secured(update)' = Secured(u)
  BY Zenon, <1>1 DEF Secured, Negotiated, SecureAttr
<1> QED  BY Zenon, <1>2, <1>3

LEMMA ReadsNext ==
  ASSUME UNCHANGED <<conf, peerCap>>, NEW u, u = update',
         said'.type = "UPDATE" => Reads(said', u, conf, Secured(u), UseAS4)
  PROVE  UpdateReadsBack'
<1>1. conf' = conf /\ update' = u  OBVIOUS
<1>2. Secured(update)' = Secured(u) /\ UseAS4' = UseAS4  BY Zenon, SecuredNext
<1>3. UpdateReadsBack'
      <=> (said'.type = "UPDATE" =>
             \/ DoesNotFit(update', conf', Secured(update)', UseAS4')
             \/ Describes(said', update', conf', UseAS4'))
  BY DEF UpdateReadsBack
<1> QED  BY Zenon, <1>1, <1>2, <1>3 DEF Reads

LEMMA SilentReads ==
  ASSUME said'.type # "UPDATE"
  PROVE  UpdateReadsBack'
  BY DEF UpdateReadsBack

LEMMA UnchangedReads ==
  ASSUME UpdateReadsBack, UNCHANGED <<conf, peerCap, said, update>>
  PROVE  UpdateReadsBack'
<1> PICK u : u = update'  OBVIOUS
<1>1. u = update /\ said' = said  OBVIOUS
<1>2. said'.type = "UPDATE" => Reads(said', u, conf, Secured(u), UseAS4)
  BY Zenon, <1>1 DEF UpdateReadsBack, Reads
<1> QED  BY Zenon, <1>2, ReadsNext

LEMMA ReadsUpdate ==
  ASSUME SentInv, SendUpdate
  PROVE  UpdateReadsBack'
<1>1. UNCHANGED <<conf, peerCap>> /\ left # <<>> /\ update' = Head(left)  BY DEF SendUpdate
<1>2. left \in Seq(Scripted(conf)) /\ conf \in Sessions  BY Zenon DEF SentInv, Configured
<1> PICK u : u = Head(left)  OBVIOUS
<1>3. Writable(u)
  <2>1. Head(left) \in Scripted(conf)  BY <1>1, <1>2
  <2> QED  BY Zenon, <2>1 DEF Scripted
<1> PICK path : path = PathOf(u, Secured(u))  OBVIOUS
<1>4. \/ said' = NoMessage
      \/ /\ path # <<>>
         /\ \E mpnlri : msgBuff' = BuiltIn(msgBuff, u, path, mpnlri)
         /\ said' = IF msgBuff' # NoMessage /\ Sendable(msgBuff') THEN msgBuff' ELSE NoMessage
  BY Zenon DEF SendUpdate
<1>5. CASE said' = NoMessage
  <2>1. said'.type # "UPDATE"  BY Zenon, <1>5, NoneIsNoUpdate
  <2> QED  BY Zenon, <2>1, SilentReads
<1>6. ASSUME said' # NoMessage
      PROVE  UpdateReadsBack'
  <2>1. path # <<>> /\ said' = msgBuff'  BY Zenon, <1>4, <1>6
  <2> PICK mpnlri : msgBuff' = BuiltIn(msgBuff, u, path, mpnlri)  BY Zenon, <1>4, <1>6
  <2> PICK m : m = createUpdateMessage(path, LocalPref, u.nlri, mpnlri, u.validation)  OBVIOUS
  <2>2. /\ m = NoMessage => DoesNotFit(u, conf, Secured(u), UseAS4)
        /\ Reads(m, u, conf, Secured(u), UseAS4)
    BY Zenon, <1>2, <1>3, <2>1, MessageReads
  <2>3. m = NoMessage \/ said' = m  BY Zenon, <2>1 DEF BuiltIn
  <2>4. Reads(said', u, conf, Secured(u), UseAS4)  BY Zenon, <2>2, <2>3 DEF Reads
  <2>5. u = update'  BY Zenon, <1>1
  <2> QED  BY Zenon, <1>1, <2>4, <2>5, ReadsNext
<1> QED  BY Zenon, <1>5, <1>6

LEMMA HeardEstablished ==
  ASSUME NEW m, HearInEstablished(m)
  PROVE  /\ UNCHANGED <<conf, peerCap, update>>
         /\ said'.type # "UPDATE" \/ UNCHANGED said
<1>1. UNCHANGED <<conf, peerCap, update>>
  BY Zenon DEF HearInEstablished, RefuseHeader, ProcessPacket, trafficVars
<1>2. CASE RefuseHeader(m)
  <2>1. Refuse(state, "MESSAGE_HEADER", HeaderError(m), m.length, <<m.type>>)
    BY Zenon, <1>2 DEF RefuseHeader
  <2> QED  BY Zenon, <1>1, <2>1, RefuseSays
<1>3. CASE ProcessPacket(m)
  <2>1. \/ Refuse(state, "MESSAGE_HEADER", "BAD_LENGTH", 0, <<>>)
        \/ Refuse(state, "FSM", "UNDEFINED", m.length, <<m.type>>)
        \/ Refuse(state, "MESSAGE_HEADER", "BAD_LENGTH", m.length, <<m.type>>)
        \/ UNCHANGED said
    BY Zenon, <1>3 DEF ProcessPacket
  <2> QED  BY Zenon, <1>1, <2>1, RefuseSays
<1> QED  BY Zenon, <1>2, <1>3 DEF HearInEstablished

LEMMA ReadsKept == UpdateReadsBack /\ SentInv /\ [Next]_vars => UpdateReadsBack'
<1> SUFFICES ASSUME UpdateReadsBack, SentInv, [Next]_vars PROVE UpdateReadsBack'  OBVIOUS
<1>1. CASE SendOpen
  <2>1. said'.type # "UPDATE"  BY <1>1 DEF SendOpen, createOpenMessage
  <2> QED  BY Zenon, <2>1, SilentReads
<1>2. CASE Confirm
  <2>1. said'.type # "UPDATE"  BY <1>2 DEF Confirm, createKeepAliveMessge
  <2> QED  BY Zenon, <2>1, SilentReads
<1>3. CASE Reconnect
  <2>1. said' = NoMessage  BY Zenon, <1>3 DEF Reconnect
  <2>2. said'.type # "UPDATE"  BY Zenon, <2>1, NoneIsNoUpdate
  <2> QED  BY Zenon, <2>2, SilentReads
<1>4. CASE SendUpdate
  BY Zenon, <1>4, ReadsUpdate
<1>5. ASSUME NEW m \in PeerOpens \cup Others, HearInOpenSent(m) PROVE UpdateReadsBack'
  <2>1. said'.type # "UPDATE"  BY Zenon, <1>5, HeardOpenSent
  <2> QED  BY Zenon, <2>1, SilentReads
<1>6. ASSUME NEW m \in PeerOpens \cup Others, HearInEstablished(m) PROVE UpdateReadsBack'
  <2>1. /\ UNCHANGED <<conf, peerCap, update>>
        /\ said'.type # "UPDATE" \/ UNCHANGED said
    BY Zenon, <1>6, HeardEstablished
  <2>2. CASE said'.type # "UPDATE"
    BY Zenon, <2>2, SilentReads
  <2>3. CASE UNCHANGED said
    BY Zenon, <2>1, <2>3, UnchangedReads
  <2> QED  BY Zenon, <2>1, <2>2, <2>3
<1>7. CASE UNCHANGED vars
  <2>1. UNCHANGED <<conf, peerCap, said, update>>  BY <1>7 DEF vars
  <2> QED  BY Zenon, <2>1, UnchangedReads
<1> QED  BY <1>1, <1>2, <1>3, <1>4, <1>5, <1>6, <1>7 DEF Next, Hear

(* Whatever sessions, updates and messages of the peer there are, an       *)
(* UPDATE that fits the buffer says what its update says when it is read   *)
(* by its many lengths: its prefix, its validation state and its path,     *)
(* within the limits of text and of pCount (Printable, Countable) and      *)
(* outside the windows of DoesNotArrive (UpdateReadsBack).                 *)
THEOREM UpdatesReadBack == Spec => []UpdateReadsBack
<1>1. Init => SentInv /\ UpdateReadsBack
  <2> SUFFICES ASSUME Init PROVE SentInv /\ UpdateReadsBack  OBVIOUS
  <2>1. said = NoMessage  BY DEF Init
  <2>2. said.type # "UPDATE"  BY Zenon, <2>1, NoneIsNoUpdate
  <2>3. UpdateReadsBack  BY Zenon, <2>2 DEF UpdateReadsBack
  <2> QED  BY Zenon, <2>3, SentInvInit
<1>2. (SentInv /\ UpdateReadsBack) /\ [Next]_vars => (SentInv /\ UpdateReadsBack)'
  BY SentInvNext, ReadsKept
<1> QED  BY <1>1, <1>2, PTL DEF Spec
=============================================================================
