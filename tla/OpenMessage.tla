---------------------------- MODULE OpenMessage ----------------------------
(***************************************************************************)
(* The OPEN, KEEPALIVE and NOTIFICATION messages of brio_tg: how           *)
(* BGPHeader.c puts them together, how processOpenMessage reads the OPEN   *)
(* of the peer, and what the printers make of a message.                   *)
(*                                                                         *)
(* A message keeps the length fields that are written into it; what they   *)
(* are the lengths of is counted from its parts.  Capabilities are the     *)
(* names of the fields of BGP_Cap_Conf.                                    *)
(***************************************************************************)
EXTENDS Sums, SequencesExt

CONSTANTS
  TwoBytes,  \* 2^16, the first AS number that takes more than two bytes
  AsTrans    \* BGP_AS_TRANS, which stands for such a number

(* The sizes of structures, and the length of a capability's value.        *)
SizeHeader == 19
SizeOpen == 29
SizeParam == 2
SizeCap == 2
CapLength == [MPNLRI |-> 4, RREFRESH |-> 0, EXT_MSG_SUPPORT |-> 0, AS4 |-> 4, BGPSEC |-> 3]

BGP_VERSION == 4
BGPSEC_VERSION == 0

Announced == {"mpnlri_v4", "mpnlri_v6", "route_refresh", "extMsgSupp", "asn_4byte",
              "bgpsec_snd_v4", "bgpsec_rcv_v4", "bgpsec_snd_v6", "bgpsec_rcv_v6"}

(* What a session may have configured: the capabilities it announces, and  *)
(* how it treats extended messages.                                        *)
BGP_Cap_Conf == Announced \cup {"extMsgLiberal", "extMsgForce"}

-----------------------------------------------------------------------------
(* Writing                                                                 *)

Cap(code) == [code |-> code, length |-> CapLength[code]]
CapMpnlri(afi) == [code |-> "MPNLRI", length |-> CapLength.MPNLRI, afi |-> afi]
CapAs4(asn) == [code |-> "AS4", length |-> CapLength.AS4, myAS |-> asn]
CapBgpsec(dir, afi) ==
  [code |-> "BGPSEC", length |-> CapLength.BGPSEC, version |-> BGPSEC_VERSION, dir |-> dir,
   afi  |-> afi]

(* The capabilities in the order in which they are written.                *)
CapTable(asn) ==
  <<<<"mpnlri_v4", CapMpnlri("v4")>>, <<"mpnlri_v6", CapMpnlri("v6")>>,
    <<"route_refresh", Cap("RREFRESH")>>, <<"extMsgSupp", Cap("EXT_MSG_SUPPORT")>>,
    <<"asn_4byte", CapAs4(asn)>>,
    <<"bgpsec_snd_v4", CapBgpsec("SND", "v4")>>, <<"bgpsec_rcv_v4", CapBgpsec("RCV", "v4")>>,
    <<"bgpsec_snd_v6", CapBgpsec("SND", "v6")>>, <<"bgpsec_rcv_v6", CapBgpsec("RCV", "v6")>>>>

Param(type, caps) ==
  [type |-> type, len |-> Total([i \in DOMAIN caps |-> SizeCap + caps[i].length]), caps |-> caps]

(* Each capability is written as an optional parameter of its own.         *)
OptParams(caps, asn) ==
  FlattenSeq([i \in DOMAIN CapTable(asn) |->
                LET row == CapTable(asn)[i] IN
                IF row[1] \in caps THEN <<Param("CAP", <<row[2]>>)>> ELSE <<>>])

(* paramLength, which is counted before anything is written.               *)
SizeOfCap(cap) ==
  SizeCap + CASE cap \in {"mpnlri_v4", "mpnlri_v6"} -> CapLength.MPNLRI
              [] cap = "asn_4byte"                  -> CapLength.AS4
              [] cap \in {"route_refresh", "extMsgSupp"} -> 0
              [] OTHER                              -> CapLength.BGPSEC

(* Bug: the parameter header of the extended messages is not counted.      *)
ParamLengthShort(caps) ==
  Total([i \in DOMAIN CapTable(0) |->
           LET cap == CapTable(0)[i][1] IN
           IF cap \notin caps THEN 0
           ELSE SizeOfCap(cap) + IF cap = "extMsgSupp" THEN 0 ELSE SizeParam])
ParamLength(caps) ==
  Total([i \in DOMAIN CapTable(0) |->
           LET cap == CapTable(0)[i][1] IN
           IF cap \in caps THEN SizeOfCap(cap) + SizeParam ELSE 0])

createOpenMessage(asn, holdTime, caps) ==
  [type          |-> "OPEN",
   length        |-> SizeOpen + ParamLength(caps),
   version       |-> BGP_VERSION,
   my_as         |-> IF asn < TwoBytes THEN asn ELSE AsTrans,
   hold_time     |-> holdTime,
   opt_param_len |-> ParamLength(caps),
   params        |-> OptParams(caps, asn)]

createKeepAliveMessge == [type |-> "KEEPALIVE", length |-> SizeHeader]

NoMessage == [type |-> "none"]

(* Bug: the data is not counted when the buffer is looked at.              *)
NotificationUnmeasured(buffSize, error, subcode, dataLength, data) ==
  IF buffSize < SizeHeader + 2 THEN NoMessage
  ELSE [type |-> "NOTIFICATION", length |-> SizeHeader + 2 + dataLength, error_code |-> error,
        sub_code |-> subcode, data |-> data]

(* NoMessage where the buffer is too small for the data.                   *)
createNotificationMessage(buffSize, error, subcode, dataLength, data) ==
  LET length == SizeHeader + 2 + dataLength IN
  IF buffSize < length THEN NoMessage
  ELSE [type |-> "NOTIFICATION", length |-> length, error_code |-> error, sub_code |-> subcode,
        data |-> data]

-----------------------------------------------------------------------------
(* Reading the OPEN of the peer (processOpenMessage)                       *)

(* What the loops over parameters and capabilities come upon in one        *)
(* parameter.  One that is no capability is only noticed if it has a value.*)
Items(param) ==
  CASE param.type = "CAP" -> param.caps
    [] param.type # "CAP" /\ param.len > 0 -> <<[code |-> "unsupported parameter"]>>
    [] OTHER -> <<>>

(* The places they come to, in this order.                                 *)
Places(params) == UNION {{i} \X DOMAIN Items(params[i]) : i \in DOMAIN params}
Before(p, q) == p[1] < q[1] \/ (p[1] = q[1] /\ p[2] < q[2])
ItemAt(params, p) == Items(params[p[1]])[p[2]]

MpnlriField == [v4 |-> "mpnlri_v4", v6 |-> "mpnlri_v6"]
BgpsecField == [SND |-> [v4 |-> "bgpsec_snd_v4", v6 |-> "bgpsec_snd_v6"],
                RCV |-> [v4 |-> "bgpsec_rcv_v4", v6 |-> "bgpsec_rcv_v6"]]

(* The field of peerCap that a capability sets; none if it is ignored, as  *)
(* is one for another AFI.                                                 *)
CapFields(cap) ==
  CASE cap.code = "MPNLRI" /\ cap.afi \in DOMAIN MpnlriField -> {MpnlriField[cap.afi]}
    [] cap.code = "AS4" -> {"asn_4byte"}
    [] cap.code = "BGPSEC" /\ cap.afi \in DOMAIN MpnlriField -> {BgpsecField[cap.dir][cap.afi]}
    [] cap.code \in {"RREFRESH", "RREFRESH_PRIV"} -> {"route_refresh"}
    [] cap.code = "EXT_MSG_SUPPORT" -> {"extMsgSupp"}
    [] OTHER -> {}

(* What ends the loops.                                                    *)
Refused(cap) ==
  \/ cap.code = "unsupported parameter"
  \/ cap.code = "BGPSEC" /\ cap.version # BGPSEC_VERSION

(* The warning that a BGPSEC capability for another AFI is ignored prints  *)
(* the AFI of the last MPNLRI capability.  Before the first there is a     *)
(* NULL pointer in its place.                                              *)
FollowsNull(params, p) ==
  LET cap == ItemAt(params, p) IN
  /\ cap.code = "BGPSEC" /\ cap.afi \notin DOMAIN MpnlriField
  /\ \A q \in Places(params) : Before(q, p) => ItemAt(params, q).code # "MPNLRI"

(* peerCap and the AS number of the peer, and why the OPEN is not read to  *)
(* its end: what was read before stays, and the last AS number counts.     *)
ReadOpen(open) ==
  LET at(p)  == ItemAt(open.params, p)
      bad    == {p \in Places(open.params) : Refused(at(p)) \/ FollowsNull(open.params, p)}
      first  == CHOOSE p \in bad : \A q \in bad \ {p} : Before(p, q)
      read   == {p \in Places(open.params) : \A q \in bad : Before(p, q)}
      as4    == {p \in read : at(p).code = "AS4"}
      last   == CHOOSE p \in as4 : \A q \in as4 \ {p} : Before(q, p)
  IN [peerCap |-> UNION {CapFields(at(p)) : p \in read},
      peerASN |-> IF as4 = {} THEN open.my_as ELSE at(last).myAS,
      stopped |-> CASE bad = {} -> ""
                    [] bad # {} /\ ~Refused(at(first)) -> "CRASHED"
                    [] bad # {} /\ Refused(at(first)) ->
                         IF at(first).code = "BGPSEC" THEN "UNSUPPORTED_BGPSEC_VER"
                         ELSE "UNSUPP_OPT_PARAM"]

(* The AFIs for which BGPsec is announced without the multi-protocol one.  *)
WithoutMpnlri(peerCap) ==
  {afi \in {"v4", "v6"} : /\ MpnlriField[afi] \notin peerCap
                          /\ \E dir \in {"SND", "RCV"} : BgpsecField[dir][afi] \in peerCap}

(* The NOTIFICATION's data: the capabilities that are missing.             *)
MissingCaps(peerCap) ==
  LET missing(afi) == IF afi \in WithoutMpnlri(peerCap) THEN <<CapMpnlri(afi)>> ELSE <<>>
  IN missing("v4") \o missing("v6")

SizeOfCaps(caps) == Total([i \in DOMAIN caps |-> SizeCap + caps[i].length])

-----------------------------------------------------------------------------
(* Printing                                                                *)

AfiPrinted(afi) == IF afi \in DOMAIN MpnlriField THEN afi ELSE "unknown"

MpnlriPrinted(cap) == [code |-> "MPNLRI", afi |-> AfiPrinted(cap.afi)]
BgpsecCapPrinted(cap) == [code |-> "BGPSEC", dir |-> cap.dir, afi |-> AfiPrinted(cap.afi)]

(* By its fields, or else by its name and how much data there is.          *)
printCapability(cap) ==
  CASE cap.code = "MPNLRI" -> MpnlriPrinted(cap)
    [] cap.code = "BGPSEC" -> BgpsecCapPrinted(cap)
    [] cap.code = "AS4"    -> [code |-> "AS4", asn |-> cap.myAS]
    [] cap.code \in {"RREFRESH", "RREFRESH_PRIV"} -> [code |-> "RREFRESH", data |-> cap.length]
    [] OTHER -> [code |-> cap.code, data |-> cap.length]

CapsPrinted(caps) == [i \in DOMAIN caps |-> printCapability(caps[i])]

Malformed == [code |-> "malformed"]

(* The capabilities of a parameter, by its length; other data as it is.    *)
OptionalParameterPrinted(param) ==
  IF param.type # "CAP" \/ param.len # SizeOfCaps(param.caps) THEN <<Malformed>>
  ELSE CapsPrinted(param.caps)

(* By the lengths, all of a parameter's capabilities.                      *)
printOpenData(open) ==
  LET bytes == Total([i \in DOMAIN open.params |-> SizeParam + open.params[i].len])
      rest  == open.length - SizeOpen
  IN IF rest # open.opt_param_len \/ bytes # rest THEN <<Malformed>>
     ELSE FlattenSeq([i \in DOMAIN open.params |-> OptionalParameterPrinted(open.params[i])])

(* Data behind the subcode of an unsupported capability is read as         *)
(* capabilities, whatever the error code is; other data is not read.       *)
printNotificationData(n) ==
  IF n.sub_code # "UNSUPPORTED_CAPABILITY" THEN <<>>
  ELSE IF n.length - SizeHeader - 2 = SizeOfCaps(n.data) THEN CapsPrinted(n.data)
  ELSE <<Malformed>>
=============================================================================
