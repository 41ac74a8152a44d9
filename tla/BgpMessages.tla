---------------------------- MODULE BgpMessages ----------------------------
(***************************************************************************)
(* What one session of brio_tg says and hears: the OPEN it sends, what it  *)
(* reads out of the OPENs of the peer, the messages it refuses, and the    *)
(* updates of its stack, which become BGPsec or BGP-4 UPDATEs by what both *)
(* ends announced (BGPSession.c and the loop of _runBGPRouterSession).     *)
(*                                                                         *)
(* The threads and the life of the connection are in BgpSession; here a    *)
(* message is read or written in one step.                                 *)
(***************************************************************************)
EXTENDS UpdateMessage

CONSTANTS
  Sessions,   \* asn, peerAS, holdTime, caps, useMPNLRI, nsMode, capi, onlyExtLength, updates
  PeerOpens,  \* OPENs of the peer, their length fields as they should be
  Others,     \* other messages of the peer: marker, type, length, error_code
  Blocks,     \* the socket may stay full for all attempts to send a NOTIFICATION
  MaxTries    \* bound: connections

(* An update as it can be written in a script.                             *)
Writable(u) ==
  /\ u.path \in Seq([asn : Nat, count : Nat, dotted : BOOLEAN]) /\ u.set \in Seq(Nat)
  /\ u.nlri.afi \in DOMAIN MpnlriField
  /\ u.nlri.bits \in 1..(IF u.nlri.afi = "v4" THEN 32 ELSE 128)
  /\ u.validation \in {"none"} \cup DOMAIN Validation

(* A session as it can be configured.                                      *)
Configurable(s) ==
  /\ s.caps \subseteq BGP_Cap_Conf /\ s.asn \in Nat \ {0} /\ s.capi \in BOOLEAN
  /\ s.updates \in Seq({u \in Range(s.updates) : Writable(u)})

(* The capabilities an OPEN announces, by the message itself.              *)
CapsOf(open) ==
  IF open = NoMessage THEN {} ELSE
  LET params == {open.params[i] : i \in DOMAIN open.params}
  IN UNION {{p.caps[j] : j \in DOMAIN p.caps} : p \in {q \in params : q.type = "CAP"}}

ASSUME MessageInputs ==
  /\ TwoBytes \in Nat /\ AsTrans \in 1..(TwoBytes - 1)
  /\ \A s \in Sessions : Configurable(s)
  \* The direction of BGPsec is one bit.
  /\ \A m \in PeerOpens :
       /\ m.type = "OPEN" /\ m.marker /\ m.length \in SizeHeader..65535
       /\ \A c \in CapsOf(m) : c.code = "BGPSEC" => c.dir \in DOMAIN BgpsecField
  \* Behind a header with a shorter length 2^16 bytes more are awaited.
  /\ \A m \in Others : m.type # "OPEN" /\ m.length \in SizeHeader..65535
  /\ Blocks \in BOOLEAN /\ MaxTries \in Nat \ {0}

VARIABLES
  conf,     \* bgpConf, as it was configured
  holdTime, \* bgpConf->holdTime
  state,    \* fsm.state, of those in which messages are read or written, or
            \* CRASHED
  peerCap,  \* bgpConf->peerCap
  tries,    \* connections so far
  trying,   \* run, and connectRetryCounter is below FSM_MAX_RETRY
  heard,    \* the OPEN heard last on this connection, or NoMessage
  said,     \* the message written last on this connection; NoMessage before the
            \* first, and where one could not be written
  left,     \* the stack of updates
  update,   \* the update taken from it last, or NoUpdate
  msgBuff   \* the message in the traffic thread's buffer, or NoMessage

vars == <<conf, holdTime, state, peerCap, tries, trying, heard, said, left, update, msgBuff>>

NoUpdate == [path |-> <<>>]

TypeOK ==
  /\ conf \in Sessions
  /\ holdTime \in {conf.holdTime} \cup {m.hold_time : m \in PeerOpens}
  /\ state \in {"IDLE", "OpenSent", "OpenConfirm", "ESTABLISHED", "CRASHED"}
  /\ peerCap \subseteq Announced
  /\ tries \in 1..MaxTries /\ trying \in BOOLEAN
  /\ heard = NoMessage \/ heard \in PeerOpens
  /\ said.type \in {"none", "OPEN", "KEEPALIVE", "NOTIFICATION", "UPDATE"}
  /\ said # NoMessage =>
       said.length \in SizeHeader..(IF said.type = "UPDATE" THEN SESS_MIN_MESSAGE_BUFFER + 41
                                    ELSE SESS_MIN_SEND_BUFF)
  /\ Len(left) <= Len(conf.updates)
  /\ msgBuff.type \in {"none", "UPDATE"}

Init ==
  /\ conf \in Sessions
  /\ holdTime = conf.holdTime
  /\ state = "OpenSent"
  /\ peerCap = {}
  /\ tries = 1 /\ trying = TRUE
  /\ heard = NoMessage /\ said = NoMessage
  /\ left = conf.updates /\ update = NoUpdate
  /\ msgBuff = NoMessage

trafficVars == <<left, update, msgBuff>>

-----------------------------------------------------------------------------
(* Refusing                                                                *)

(* sendNotification: IDLE only when the message is written.  A message     *)
(* that does not fit the buffer is not.                                    *)
Refuse(from, error, subcode, dataLength, data) ==
  LET n == createNotificationMessage(SESS_MIN_SEND_BUFF, error, subcode, dataLength, data) IN
  \/ /\ n # NoMessage
     /\ said' = n /\ state' = "IDLE"
  \/ /\ n = NoMessage \/ Blocks
     /\ said' = NoMessage /\ state' = from

(* _checkMessageHeader: what is wrong with a header, as the subcode of the *)
(* NOTIFICATION that takes the whole message along.  No other OPEN is      *)
(* waited for then.                                                        *)
ExtendedAllowed(m) ==
  m.type = "UPDATE" /\ {"extMsgSupp", "extMsgLiberal"} \cap conf.caps # {}

HeaderError(m) ==
  CASE ~m.marker -> "UNDEFINED"
    [] m.marker /\ m.type \notin {"OPEN", "UPDATE", "KEEPALIVE", "NOTIFICATION"} -> "BAD_TYPE"
    [] m.marker /\ m.type \in {"OPEN", "UPDATE", "KEEPALIVE", "NOTIFICATION"}
         /\ m.length > BGP_MAX_MESSAGE_SIZE /\ ~ExtendedAllowed(m) -> "BAD_LENGTH"
    [] OTHER -> ""

RefuseHeader(m) ==
  /\ HeaderError(m) # ""
  /\ Refuse(state, "MESSAGE_HEADER", HeaderError(m), m.length, <<m.type>>)
  /\ trying' = (trying /\ state # "OpenSent")
  /\ UNCHANGED <<holdTime, peerCap>>

-----------------------------------------------------------------------------
(* Opening                                                                 *)

SendOpen ==
  /\ state = "OpenSent" /\ said = NoMessage /\ trying
  /\ said' = createOpenMessage(conf.asn, holdTime, conf.caps)
  /\ UNCHANGED <<conf, holdTime, state, peerCap, tries, trying, heard, trafficVars>>

(* Bug: peerCap is not cleared, another connection's is still in it.       *)
PeerCapAdded(read) == peerCap \cup read.peerCap
PeerCap(read) == read.peerCap

(* processOpenMessage with a version that is known: the hold time and      *)
(* peerCap are taken over before the OPEN is accepted or refused.  A NULL  *)
(* pointer that is followed ends the program.                              *)
Judge(open) ==
  LET read == ReadOpen(open)
      missing == MissingCaps(read.peerCap)
  IN /\ holdTime' = IF open.hold_time < holdTime THEN open.hold_time ELSE holdTime
     /\ peerCap' = PeerCap(read)
     /\ CASE read.stopped = "CRASHED" -> state' = "CRASHED" /\ UNCHANGED said
          [] read.stopped \notin {"", "CRASHED"} ->
               Refuse(state, "OPEN_MESSAGE", read.stopped, 0, <<>>)
          [] read.stopped = "" /\ read.peerASN # conf.peerAS ->
               Refuse(state, "OPEN_MESSAGE", "BAD_PEERAS", 0, <<>>)
          [] read.stopped = "" /\ read.peerASN = conf.peerAS /\ missing # <<>> ->
               Refuse("OpenConfirm", "OPEN_MESSAGE", "UNSUPPORTED_CAPABILITY",
                      SizeOfCaps(missing), missing)
          [] OTHER -> state' = "OpenConfirm" /\ UNCHANGED said

ReadOpenMessage(m) ==
  /\ m.type = "OPEN" /\ HeaderError(m) = ""
  /\ UNCHANGED trying
  /\ \/ /\ m.length < SizeOpen
        /\ Refuse(state, "MESSAGE_HEADER", "BAD_LENGTH", m.length, <<m.type>>)
        /\ UNCHANGED <<holdTime, peerCap>>
     \/ /\ m.length >= SizeOpen /\ m.version # BGP_VERSION
        /\ Refuse(state, "OPEN_MESSAGE", "VERSION", 0, <<>>)
        /\ UNCHANGED <<holdTime, peerCap>>
     \/ /\ m.length >= SizeOpen /\ m.version = BGP_VERSION
        /\ Judge(m)

(* Anything else instead: a NOTIFICATION ends the attempt, the rest is     *)
(* passed over and the OPEN is sent again.                                 *)
ReadNoOpen(m) ==
  /\ m.type # "OPEN" /\ HeaderError(m) = ""
  /\ state' = IF m.type = "NOTIFICATION" THEN "IDLE" ELSE state
  /\ trying' = (m.type # "NOTIFICATION")
  /\ said' = NoMessage
  /\ UNCHANGED <<holdTime, peerCap>>

(* The peer says something while its OPEN is awaited.                      *)
HearInOpenSent(m) ==
  /\ state = "OpenSent" /\ said.type = "OPEN" /\ trying
  /\ heard' = IF m.type = "OPEN" THEN m ELSE heard
  /\ RefuseHeader(m) \/ ReadOpenMessage(m) \/ ReadNoOpen(m)
  /\ UNCHANGED <<conf, tries, trafficVars>>

(* sendKeepAlive, behind the change of the state.                          *)
Confirm ==
  /\ state = "OpenConfirm"
  /\ state' = "ESTABLISHED" /\ trying' = FALSE
  /\ said' = createKeepAliveMessge
  /\ UNCHANGED <<conf, holdTime, peerCap, tries, heard, trafficVars>>

(* An OPEN was refused and another connection is made; what the last one   *)
(* left in the session's configuration stays.                              *)
Reconnect ==
  /\ state = "IDLE" /\ trying /\ tries < MaxTries
  /\ state' = "OpenSent" /\ said' = NoMessage /\ heard' = NoMessage
  /\ tries' = tries + 1
  /\ UNCHANGED <<conf, holdTime, peerCap, trying, trafficVars>>

-----------------------------------------------------------------------------
(* An established session                                                  *)

(* Both ends have the capability.                                          *)
Both(cap) == cap \in conf.caps /\ cap \in peerCap

(* _rcvBGP: 4096 bytes are too many already.                               *)
TooLong(m) ==
  /\ m.length >= BGP_MAX_MESSAGE_SIZE
  /\ "extMsgLiberal" \notin conf.caps /\ ~Both("extMsgSupp")

(* _processPacket.                                                         *)
ProcessPacket(m) ==
  /\ HeaderError(m) = ""
  /\ UNCHANGED <<holdTime, peerCap, trying>>
  /\ CASE TooLong(m) -> Refuse(state, "MESSAGE_HEADER", "BAD_LENGTH", 0, <<>>)
       [] ~TooLong(m) /\ m.type = "OPEN" ->
            Refuse(state, "FSM", "UNDEFINED", m.length, <<m.type>>)
       [] ~TooLong(m) /\ m.type = "KEEPALIVE" /\ m.length # SizeHeader ->
            Refuse(state, "MESSAGE_HEADER", "BAD_LENGTH", m.length, <<m.type>>)
       [] ~TooLong(m) /\ m.type = "NOTIFICATION" -> state' = "IDLE" /\ UNCHANGED said
       [] OTHER -> UNCHANGED <<state, said>>

HearInEstablished(m) ==
  /\ state = "ESTABLISHED"
  /\ RefuseHeader(m) \/ ProcessPacket(m)
  /\ UNCHANGED <<conf, tries, heard, trafficVars>>

UseAS4 == Both("asn_4byte")

Negotiated(afi) == BgpsecField.SND[afi] \in conf.caps /\ BgpsecField.RCV[afi] \in peerCap

(* generateBGPSecAttr; NoAttribute when it cannot be made.                 *)
SecureAttr(u) ==
  LET segs == Segments(MyPath(conf, u.path))
      S    == Signed(segs, conf, u.nlri)
  IN IF segs = <<>> \/ Stops(S, conf) THEN NoAttribute ELSE BgpsecAttr(Attribute(segs, S, conf))

(* convertAsnPath: the path or the set has a number of more than two bytes.*)
Has4ByteASN(u) ==
  \/ \E i \in DOMAIN u.path : u.path[i].asn >= TwoBytes
  \/ \E i \in DOMAIN u.set : u.set[i] >= TwoBytes

(* The AS4_PATH, where one is needed, goes before the AS_PATH.  An         *)
(* attribute that cannot be made leaves its place.                         *)
PathAttrs(u) ==
  LET path == MyPath(conf, u.path)
      as4  == IF ~UseAS4 /\ Has4ByteASN(u)
              THEN generateBGP_PathAttr("AS4_PATH", path, u.set, TRUE) ELSE NoAttribute
      asPath == generateBGP_PathAttr("AS_PATH", path, u.set, UseAS4)
  IN IF asPath = NoAttribute THEN <<>>
     ELSE IF as4 = NoAttribute THEN <<asPath>> ELSE <<as4, asPath>>

(* What the path of an update becomes: a BGPsec attribute, the attributes  *)
(* of BGP-4, or nothing.                                                   *)
Secured(u) == IF Negotiated(u.nlri.afi) /\ ~u.bgp4Only THEN SecureAttr(u) ELSE NoAttribute

PathOf(u, secured) ==
  IF secured # NoAttribute THEN <<secured>>
  ELSE IF \/ IBGP(conf) /\ u.path = <<>>
          \/ conf.nsMode = "bgp4"
          \/ ~Negotiated(u.nlri.afi) \/ u.bgp4Only
       THEN PathAttrs(u) ELSE <<>>

LocalPref == IF IBGP(conf) THEN LOC_PREF_DEFAULT ELSE 0

(* The message; the buffer keeps the one before when it is too small.      *)
BuiltIn(buffer, u, path, mpnlri) ==
  LET m == createUpdateMessage(path, LocalPref, u.nlri, mpnlri, u.validation)
  IN IF m = NoMessage THEN buffer ELSE m

(* sendUpdate: a message that the peer may not take is left out.           *)
Sendable(m) ==
  m.length > BGP_MAX_MESSAGE_SIZE => Both("extMsgSupp") \/ "extMsgForce" \in conf.caps

SendUpdate ==
  /\ state = "ESTABLISHED" /\ left # <<>>
  /\ update' = Head(left) /\ left' = Tail(left)
  /\ LET u == Head(left) IN
     \E secured \in {Secured(u)} : \E path \in {PathOf(u, secured)} :
       IF path = <<>> THEN said' = NoMessage /\ UNCHANGED msgBuff
       ELSE /\ msgBuff' = BuiltIn(msgBuff, u, path, conf.useMPNLRI /\ secured # NoAttribute)
            /\ said' = IF msgBuff' # NoMessage /\ Sendable(msgBuff') THEN msgBuff' ELSE NoMessage
  /\ UNCHANGED <<conf, holdTime, state, peerCap, tries, trying, heard>>

Hear ==
  /\ state \in {"OpenSent", "ESTABLISHED"}
  /\ \E m \in PeerOpens \cup Others : HearInOpenSent(m) \/ HearInEstablished(m)

Next == SendOpen \/ Confirm \/ Reconnect \/ SendUpdate \/ Hear

Spec == Init /\ [][Next]_vars

-----------------------------------------------------------------------------
(* Properties                                                              *)

(* How the printer shows a capability that is configured.                  *)
ShownAs(cap) ==
  CASE cap \in {"mpnlri_v4", "mpnlri_v6"} ->
         [code |-> "MPNLRI", afi |-> IF cap = "mpnlri_v4" THEN "v4" ELSE "v6"]
    [] cap = "route_refresh" -> [code |-> "RREFRESH", data |-> 0]
    [] cap = "extMsgSupp"    -> [code |-> "EXT_MSG_SUPPORT", data |-> 0]
    [] cap = "asn_4byte"     -> [code |-> "AS4", asn |-> conf.asn]
    [] OTHER -> [code |-> "BGPSEC",
                 dir  |-> IF cap \in {"bgpsec_snd_v4", "bgpsec_snd_v6"} THEN "SND" ELSE "RCV",
                 afi  |-> IF cap \in {"bgpsec_snd_v4", "bgpsec_rcv_v4"} THEN "v4" ELSE "v6"]

(* The OPEN that is sent carries exactly what the session is configured to *)
(* announce: its length fields, which are counted before anything is       *)
(* written, agree with what is written, so that the printer walks through  *)
(* it, and another instance of the program reads the same capabilities and *)
(* the full AS number out of it.  (createOpenMessage against printOpenData *)
(* and processOpenMessage.)  A NOTIFICATION about missing capabilities     *)
(* shows just those the peer's OPEN lacks for the AFIs the program knows.  *)
OpenReadsBack ==
  /\ said.type = "OPEN" =>
       LET shown == printBGP_Message(said, FALSE)
           read  == ReadOpen(said)
       IN /\ {shown[i] : i \in DOMAIN shown} = {ShownAs(cap) : cap \in conf.caps \cap Announced}
          /\ read.peerCap = conf.caps \cap Announced
          /\ read.stopped = ""
          /\ "asn_4byte" \in conf.caps \/ conf.asn < TwoBytes => read.peerASN = conf.asn
  /\ said.type = "NOTIFICATION" /\ said.sub_code = "UNSUPPORTED_CAPABILITY" =>
       LET shown == printBGP_Message(said, FALSE)
           for(code) == {c.afi : c \in {d \in CapsOf(heard) : d.code = code}}
       IN {shown[i] : i \in DOMAIN shown}
          = {[code |-> "MPNLRI", afi |-> afi] :
               afi \in (for("BGPSEC") \ for("MPNLRI")) \cap DOMAIN MpnlriField}

(* A path that does not arrive: the segments' headers make the length too  *)
(* much for its byte, or the last segment is an empty one.                 *)
DoesNotArrive(path, set, size) ==
  LET content == size * (Len(path) + Len(set)) IN
  \/ content <= 255 /\ content + 2 * (SegmentCount(Len(path)) + SegmentCount(Len(set))) > 255
  \/ IF set = <<>> THEN path # <<>> /\ Len(path) % 255 = 0 ELSE Len(set) % 255 = 0

WideIn(u) ==
  \/ \E i \in DOMAIN u.path : u.path[i].asn >= TwoBytes
  \/ \E i \in DOMAIN u.set : u.set[i] >= TwoBytes

(* A message that does not fit the buffer: the one before is sent again.   *)
DoesNotFit(u, c, secured, isAS4) ==
  LET size == AsnSize(isAS4) + IF isAS4 \/ ~WideIn(u) THEN 0 ELSE 4
  IN (IF secured # NoAttribute THEN secured.length
      ELSE (Len(Written(c, u.path)) + Len(u.set)) * size)
     > SESS_MIN_MESSAGE_BUFFER - 200

(* A list that is shown, its sets joined: a long one takes several.        *)
Says(list, seq, set) == list.ok /\ list.seq = seq /\ FlattenSeq(list.sets) = set

(* What is read out of a message is the update of a session.               *)
Describes(m, u, c, isAS4) ==
  LET path   == Written(c, u.path)
      shown  == printBGP_Message(m, isAS4)
      of(t)  == {i \in DOMAIN shown.attrs : shown.attrs[i].type = t}
      seen(t, seq, set) == \E i \in of(t) : of(t) = {i} /\ Says(shown.attrs[i].shown, seq, set)
      narrow(asns) == [i \in DOMAIN asns |-> Wire(asns[i], isAS4)]
  IN /\ IF of("MP_REACH_NLRI") = {}
        THEN shown.prefixes = Shown(<<[bits |-> u.nlri.bits, prefix |-> u.nlri.prefix]>>, <<>>)
        ELSE /\ shown.prefixes = Shown(<<>>, <<>>)
             /\ seen("MP_REACH_NLRI",
                     <<[afi |-> u.nlri.afi, bits |-> u.nlri.bits, prefix |-> u.nlri.prefix]>>, <<>>)
     /\ IF u.validation = "none" THEN of("EXT_COMM") = {}
        ELSE seen("EXT_COMM", <<Validation[u.validation]>>, <<>>)
     /\ (of("LOC_PREF") # {}) <=> IBGP(c)
     /\ IF of("BGPSEC") # {}
        THEN /\ of("AS_PATH") = {}
             /\ Printable(u.path) /\ Countable(path) => seen("BGPSEC", path, <<>>)
        ELSE /\ \/ ~Printable(u.path) \/ DoesNotArrive(path, u.set, AsnSize(isAS4))
                \/ seen("AS_PATH", narrow(path), narrow(u.set))
             /\ IF isAS4 \/ ~WideIn(u) THEN of("AS4_PATH") = {}
                ELSE \/ ~Printable(u.path) \/ DoesNotArrive(path, u.set, 4)
                     \/ seen("AS4_PATH", path, u.set)

(* What is read out of an UPDATE by its many lengths is the update of the  *)
(* script: its prefix, its validation state, and its path - the BGPsec     *)
(* path or the AS_PATH, with AS_TRANS for wide numbers between two-byte    *)
(* speakers and then an AS4_PATH beside it.  (BGPHeader.c's createUpdate-  *)
(* Message and generateBGP_PathAttr against BGPUpdatePrinter.c; the paths  *)
(* that do not arrive are those of the README's list.)                     *)
UpdateReadsBack ==
  said.type = "UPDATE" =>
    \/ DoesNotFit(update, conf, Secured(update), UseAS4)
    \/ Describes(said, update, conf, UseAS4)

(* An UPDATE is of a kind that both ends agreed on over this connection: a *)
(* BGPsec path only if the OPEN that was accepted last announces receiving *)
(* it for the address family of the message, four-byte AS numbers only if  *)
(* both ends have them, more than 4096 bytes only if the peer takes them   *)
(* or they are forced - whatever earlier, refused OPENs announced (peerCap *)
(* outlives the connections it was read on), and even if it is the message *)
(* of an earlier update that is still in the buffer.                       *)
SentAsAgreed ==
  said.type = "UPDATE" =>
    LET attr(t) == {i \in DOMAIN said.attrs : said.attrs[i].type = t}
        reached == {said.attrs[i].body.afi : i \in attr("MP_REACH_NLRI")}
        wide == "asn_4byte" \in conf.caps /\ \E c \in CapsOf(heard) : c.code = "AS4"
    IN /\ attr("BGPSEC") # {} =>
            \A afi \in IF reached = {} THEN {"v4"} ELSE reached :
              \E c \in CapsOf(heard) : c.code = "BGPSEC" /\ c.dir = "RCV" /\ c.afi = afi
       /\ \A i \in attr("AS_PATH") : \A k \in DOMAIN said.attrs[i].body :
            said.attrs[i].body[k].size = AsnSize(wide)
       /\ said.length > BGP_MAX_MESSAGE_SIZE =>
            \/ "extMsgForce" \in conf.caps
            \/ /\ "extMsgSupp" \in conf.caps
               /\ \E c \in CapsOf(heard) : c.code = "EXT_MSG_SUPPORT"
=============================================================================
