--------------------------- MODULE MCBgpMessages ---------------------------
(* Sessions with each capability, and with all, and sessions with updates  *)
(* whose paths sit where a length, a segment or a buffer has its limit.    *)
EXTENDS BgpMessages

MCLines == <<[asn |-> 1, ski |-> "s1", private |-> TRUE, public |-> TRUE],
             [asn |-> 2, ski |-> "s2", private |-> TRUE, public |-> TRUE]>>

Wide == 70000
Peer == 6

Conf(asn, peerAS, caps, useMPNLRI, nsMode, updates) ==
  [asn |-> asn, peerAS |-> peerAS, holdTime |-> 180, caps |-> caps, useMPNLRI |-> useMPNLRI,
   nsMode |-> nsMode, capi |-> FALSE, onlyExtLength |-> FALSE, updates |-> updates]

Path(asn, count) == <<[asn |-> asn, count |-> count, dotted |-> FALSE]>>

Nlri(afi) == LET bits == IF afi = "v4" THEN 22 ELSE 48
             IN [afi |-> afi, bits |-> bits, bytes |-> numBytes(bits), prefix |-> afi]

Update(path, set, afi, validation, bgp4Only) ==
  [path |-> path, set |-> set, nlri |-> Nlri(afi), validation |-> validation,
   bgp4Only |-> bgp4Only]

(* Signed as far as there are keys: AS 3 has none.                         *)
Script ==
  <<Update(Path(2, 1), <<>>, "v4", "valid", FALSE), Update(<<>>, <<>>, "v6", "none", FALSE),
    Update(Path(2, 255), <<>>, "v6", "invalid", FALSE),
    Update(Path(3, 2), <<7, 8>>, "v4", "notfound", FALSE),
    Update(Path(2, 2), <<>>, "v4", "none", TRUE)>>

(* Path lengths are with the own AS number.                                *)
Lengths == <<62, 63, 64, 126, 127, 128, 255, 256, 510, 1020>>
Long == [i \in DOMAIN Lengths |-> Update(Path(3, Lengths[i] - 1), <<>>, "v4", "valid", TRUE)]
WithSet == [i \in 1..6 |-> Update(Path(3, Lengths[i] - 3), <<7, 8>>, "v6", "none", TRUE)]
WideAsns == <<Update(Path(Wide, 2), <<>>, "v4", "none", TRUE),
              Update(Path(3, 2), <<Wide>>, "v4", "none", TRUE)>>
Huge == <<Update(Path(3, 1), <<>>, "v4", "none", TRUE),
          Update(Path(3, 2520), <<>>, "v4", "none", TRUE)>>

V4 == {"mpnlri_v4", "bgpsec_snd_v4", "asn_4byte"}
Both46 == V4 \cup {"mpnlri_v6", "bgpsec_snd_v6", "extMsgSupp"}

MCSessions ==
  {Conf(1, Peer, caps, FALSE, "drop", <<>>) :
     caps \in {c \in SUBSET Announced : Cardinality(c) \in {0, 1, 9}}}
  \cup {Conf(Wide, Peer, {"asn_4byte"}, FALSE, "drop", <<>>)}
  \cup {Conf(1, Peer, Both46 \cup {"extMsgForce"}, TRUE, ns, Script) : ns \in {"drop", "fake", "bgp4"}}
  \cup {Conf(Peer, Peer, V4, FALSE, "bgp4", Script)}
  \cup {Conf(1, Peer, Both46, FALSE, "bgp4", Long \o WideAsns),
        Conf(1, Peer, {"extMsgLiberal"}, FALSE, "bgp4", Long \o WideAsns),
        Conf(1, Peer, Both46, FALSE, "bgp4", WithSet),
        Conf(1, Peer, {}, FALSE, "bgp4", WithSet),
        Conf(1, Peer, Both46 \cup {"extMsgForce"}, FALSE, "bgp4", Huge)}

(* OPENs of the peer, with capabilities of its own making.                 *)
Open(as, time, caps) ==
  LET params == [i \in DOMAIN caps |-> Param("CAP", <<caps[i]>>)]
  IN [marker |-> TRUE, type |-> "OPEN", length |-> SizeOpen, version |-> BGP_VERSION,
      my_as |-> as, hold_time |-> time, opt_param_len |-> 0, params |-> params]

All == <<CapMpnlri("v4"), CapMpnlri("v6"), Cap("EXT_MSG_SUPPORT"), CapAs4(Peer),
         CapBgpsec("RCV", "v4"), CapBgpsec("RCV", "v6")>>

Receives == <<CapMpnlri("v4"), CapBgpsec("RCV", "v4")>>

MCPeerOpens ==
  {[Open(Peer, 180, All) EXCEPT !.params = @ \o <<[type |-> "other", len |-> 0, caps |-> <<>>]>>],
   Open(Peer, 90, <<>>),
   Open(AsTrans, 180, <<CapAs4(Peer), CapMpnlri("v4"), CapBgpsec("SND", "v4"),
                        [CapMpnlri("v4") EXCEPT !.afi = "other"],
                        [code |-> "RREFRESH_PRIV", length |-> 0], [code |-> "unknown", length |-> 2]>>),
   Open(Peer + 1, 30, Receives),
   Open(Peer, 180, <<CapBgpsec("RCV", "v4"), CapBgpsec("SND", "v6"), CapBgpsec("RCV", "other")>>),
   Open(Peer, 180, <<[CapMpnlri("v4") EXCEPT !.afi = "other"], CapBgpsec("RCV", "v4"),
                     CapBgpsec("SND", "v6"), CapBgpsec("RCV", "other")>>),
   Open(Peer, 180, Receives \o <<[CapBgpsec("RCV", "v6") EXCEPT !.version = 1]>>),
   [Open(Peer, 180, All) EXCEPT !.params = @ \o <<[type |-> "other", len |-> 2, caps |-> <<>>]>>],
   [Open(Peer, 180, <<>>) EXCEPT !.version = 3],
   [Open(Peer, 180, <<>>) EXCEPT !.length = 23]}

Other(marker, type, length) == [marker |-> marker, type |-> type, length |-> length]

MCOthers ==
  {Other(FALSE, "KEEPALIVE", 19), Other(FALSE, "UPDATE", 65535), Other(TRUE, "bad", 19),
   Other(TRUE, "KEEPALIVE", 19), Other(TRUE, "KEEPALIVE", 20), Other(TRUE, "UPDATE", 5000),
   Other(TRUE, "UPDATE", 23), Other(TRUE, "UPDATE", 4096), Other(TRUE, "NOTIFICATION", 21)}
=============================================================================
