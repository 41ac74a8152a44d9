------------------------------ MODULE MCBrioTg ------------------------------
(***************************************************************************)
(* brio_tg with a handful of configuration files and command lines, chosen *)
(* so that every way of giving a setting or an update meets the others.    *)
(***************************************************************************)
EXTENDS BrioTg

Opt(name, val)   == [name |-> name, long |-> TRUE, val |-> val, given |-> TRUE]
Flag(name)       == Opt(name, Nothing)
Bad(name)        == [Flag(name) EXCEPT !.given = FALSE]
Short(name, val) == [Opt(name, val) EXCEPT !.long = FALSE]

Line(id) == PlainLine(id, "no", "V")
B4Line(id) == PlainLine(id, "blank", "I")
SetLine(id) == [Line(id) EXCEPT !.set = "one"]
V6Line(id) == [Line(id) EXCEPT !.prefix = "v6"]
Bare(id) == [Line(id) EXCEPT !.sep = FALSE]
BlankLine(id) == [Bare(id) EXCEPT !.blank = TRUE]
BadLine(id) == [Line(id) EXCEPT !.prefix = "bad"]

List(lines) == [list |-> TRUE, lines |-> lines]
Session == [asn |-> 65000, bgp_ident |-> "10.0.0.1", peer_asn |-> 65005, peer_ip |-> "10.0.0.2"]
With(s, f) == [n \in DOMAIN s \cup DOMAIN f |-> IF n \in DOMAIN f THEN f[n] ELSE s[n]]

Plain(list, globals, lines) ==
  [found |-> TRUE, parses |-> TRUE, globals |-> globals, session |-> "list",
   sessions |-> list, update |-> List(lines)]

MCConfigFiles ==
  [main   |-> Plain(<<With(Session, [update |-> List(<<Bare("o1"), V6Line("o2")>>), disconnect |-> 1])>>,
                    [max |-> 0], <<SetLine("g1")>>),
   multi  |-> Plain(<<With(Session, [update |-> List(<<Line("o1")>>), disconnect |-> 1,
                                     null_signature_mode |-> "BGP-4"]), Session>>,
                    [max |-> 3], <<Line("g1"), B4Line("g2")>>),
   fake   |-> Plain(<<With(Session, [null_signature_mode |-> "FAKE", fake_signature |-> "f",
                                     fake_ski |-> "f", printOnSend |-> [kind |-> "group", on |-> {"open"}],
                                     bgpsec_v6_snd |-> FALSE])>>,
                    [max |-> 0], <<Line("g1"), V6Line("g2")>>),
   ibgp   |-> Plain(<<With(Session, [peer_asn |-> 65000, update |-> List(<<BlankLine("o1"), Bare("o2")>>)])>>,
                    [mode |-> "CAPI", max |-> 2], <<>>),
   bad    |-> Plain(<<With(Session, [update |-> List(<<Line("o1"), BadLine("o2")>>)])>>, [max |-> 0], <<>>),
   none   |-> [Plain(<<>>, [disable_bgpsec |-> TRUE], <<Line("g1")>>) EXCEPT !.session = "none"],
   empty  |-> Plain(<<>>, [mode |-> "BGP"], <<Line("g1")>>),
   broken |-> [Plain(<<>>, [max |-> 0], <<>>) EXCEPT !.parses = FALSE]]

Peer ==
  <<Opt("asn", 65001), Opt("bgp_ident", "10.0.0.9"), Short("peer_port", 179),
    Opt("peer_asn", 65002), Opt("peer_ip", "10.0.0.8")>>

MCCommandLines ==
  {<<>>,
   <<Bad("config")>>,
   <<Opt("config", "broken"), Flag("version")>>,
   <<Opt("config", "main"), Opt("update", B4Line("p1")), Opt("update", Line("p2"))>>,
   <<Short("disconnect", 1), Flag("disable_bgpsec"), Opt("config", "fake")>>,
   <<Opt("config", "multi"), Opt("update", Line("p1")), Opt("max", 0), Flag("show_settings")>>,
   <<Opt("config", "multi"), Opt("update", SetLine("p1"))>>,
   <<Opt("config", "fake"), Opt("bin", "d1"), Short("disconnect", 1)>>,
   <<Opt("config", "fake"), Opt("mode", "GEN-C"), Opt("out", "d1")>>,
   <<Opt("config", "fake"), Opt("mode", "GEN-B"), Opt("out", "d1"), Flag("appendOut")>>,
   <<Opt("config", "fake"), Opt("mode", "CAPI"), Opt("max", 3), Opt("bin", "d1")>>,
   <<Opt("config", "fake"), Opt("mode", "GEN-B"), Opt("out", "d1"), Opt("bin", "d1")>>,
   <<Opt("config", "ibgp"), Opt("update", Line("p1")), Opt("ski_file", "ski-list")>>,
   <<Opt("config", "ibgp"), Opt("mode", "BGP"), Short("disconnect", 2), Opt("update", BlankLine("p1"))>>,
   <<Opt("config", "multi"), Opt("mode", "CAPI")>>,
   <<Opt("config", "fake"), Opt("update", Line("p1")), Opt("mode", "CAPI")>>,
   <<Opt("config", "bad")>>,
   <<Opt("config", "none"), Opt("asn", 1)>>,
   <<Opt("config", "none"), Opt("mode", "CAPI")>>,
   <<Opt("config", "empty")>>,
   <<Opt("config", "empty"), Opt("update", BadLine("p1"))>>,
   <<Opt("config", "new"), Short("disconnect", 1)>>,
   Peer \o <<Short("disconnect", 1), Opt("update", Line("p1"))>>,
   Peer \o <<Short("create", "new")>>,
   <<Short("create", "new"), Short("iface", "eth0")>>,
   <<Short("iface", "eth0"), Opt("asn", 7)>>,
   <<Short("create", "main"), Flag("hold_timer")>>,
   <<Short("create", "main"), Bad("asn")>>,
   Peer \o <<Flag("no_mpnlri"), Flag("disable_bgpsec"), Opt("mode", "GEN-B")>>}

MCInterfaces == [eth0 |-> "10.0.1.33"]
MCStdinLines == <<Line("s1"), BadLine("s2")>>
=============================================================================
