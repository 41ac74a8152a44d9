------------------------------- MODULE Config -------------------------------
(***************************************************************************)
(* The settings of brio_tg (configuration.c, cfgFile.c): what the          *)
(* configuration file and the command line make of them, the updates they  *)
(* contain, and the file brio_tg generates.                                *)
(*                                                                         *)
(* Settings are functions from the names of configuration.h to values.  An *)
(* update is scripted as a line: a record with id, sep (there is a comma), *)
(* blank (a blank instead of it), prefix (v4, v6 or bad), b4 (no, after a  *)
(* blank, or joined to the comma), set (no, one, two, open, close) and     *)
(* val.                                                                    *)
(***************************************************************************)
EXTENDS Naturals, Sequences, SequencesExt, UpdateStack

Nothing == ""               \* a string, an address or a file name not set
MaxUpdates == 1000          \* MAX_UPDATES: more than any run processes

Modes    == {"BGP", "CAPI", "GEN-B", "GEN-C"}
SigModes == {"CAPI", "BIO", "BIO-K1", "BIO-K2"}
NsModes  == {"DROP", "FAKE", "BGP4"}
Messages == {"update", "keepalive", "open", "notification", "unknown"}

-----------------------------------------------------------------------------
(* Updates                                                                 *)

(* A B4 is looked for behind each blank after the comma.                   *)
BGP4Asked(l) == l.sep /\ l.b4 = "blank"
BGP4AskedAlways(l) == l.sep /\ l.b4 # "no"

(* A line without a comma but with a blank is left out with a warning.     *)
Incomplete(l) == ~l.sep /\ l.blank

(* The prefix is wrong, or the braces of the AS_SET do not match.          *)
Wrong(l) == l.prefix = "bad" \/ (l.sep /\ l.set \in {"open", "close", "two"})

AsSet(l) == l.sep /\ l.set = "one"

(* createUpdate, for a line that is neither incomplete nor wrong.          *)
createUpdate(l, disabled) ==
  [id |-> l.id, afi |-> l.prefix, origin |-> ~l.sep, asSet |-> AsSet(l),
   validation |-> IF l.sep THEN l.val ELSE "-",
   bgp4 |-> disabled \/ BGP4Asked(l) \/ AsSet(l)]

Complete(lines) ==
  FlattenSeq([i \in DOMAIN lines |-> IF Incomplete(lines[i]) THEN <<>> ELSE <<lines[i]>>])

FirstWrong(lines) == SelectInSeq(lines, Wrong)

(* _readUpdates: ends at the first line that is wrong.                     *)
readUpdates(lines, disabled) ==
  LET bad == FirstWrong(lines)
      good == IF bad = 0 THEN lines ELSE SubSeq(lines, 1, bad - 1)
      used == Complete(good)
  IN [stack |-> Pushed([i \in DOMAIN used |-> createUpdate(used[i], disabled)]),
      wrong |-> bad # 0]

(* _duplicateUpdate: the AS_SET and the validation state are not copied.   *)
duplicateUpdate(u) == [u EXCEPT !.asSet = FALSE, !.validation = "0"]

-----------------------------------------------------------------------------
(* Defaults                                                                *)

initParams ==
  [ski_file |-> "ski-list", ski_key_loc |-> "keys", capi_cfg |-> Nothing,
   bin |-> Nothing, out |-> Nothing, appendOut |-> FALSE, preload_eckey |-> TRUE,
   only_extended_length |-> TRUE, max |-> MaxUpdates, disable_bgpsec |-> FALSE,
   mode |-> "BGP", show_settings |-> FALSE, suppress_warning |-> FALSE,
   create |-> Nothing, iface |-> Nothing]

NoPrint == [m \in Messages |-> FALSE]

initBGPSessionConfig ==
  [asn |-> 0, bgp_ident |-> Nothing, next_hop_ipv4 |-> Nothing, next_hop_ipv6 |-> Nothing,
   local_addr |-> Nothing, hold_timer |-> 0, disconnect |-> 0, convergence |-> FALSE,
   peer_asn |-> 0, peer_port |-> 0, peer_ip |-> Nothing, encodeMPNLRI |-> TRUE,
   prefixPacking |-> FALSE, ext_msg_cap |-> TRUE, ext_msg_liberal |-> TRUE,
   ext_msg_force |-> FALSE, cap_as4 |-> TRUE, bgpsec_v4_rcv |-> TRUE,
   bgpsec_v4_snd |-> TRUE, bgpsec_v6_rcv |-> TRUE, bgpsec_v6_snd |-> TRUE,
   algo_id |-> 0, signature_generation |-> "BIO", null_signature_mode |-> "DROP",
   fake_signature |-> Nothing, fake_ski |-> Nothing,
   printOnReceive |-> NoPrint, printOnSend |-> NoPrint, printSimple |-> FALSE,
   printPollLoop |-> FALSE, printOnInvalid |-> FALSE, incl_global_updates |-> FALSE]

NewSession == [conf |-> initBGPSessionConfig, updates |-> initStack]

-----------------------------------------------------------------------------
(* The configuration file                                                  *)

(* f overrides g where it has a value.                                     *)
Override(g, f) == [n \in DOMAIN g |-> IF n \in DOMAIN f THEN f[n] ELSE g[n]]

(* readConfig, the settings that are not of a session: a maximum of 0 is   *)
(* no maximum, and a mode that does not exist is an error.                 *)
Unlimited(f) ==
  IF "max" \in DOMAIN f THEN [f EXCEPT !.max = IF @ = 0 THEN MaxUpdates ELSE @] ELSE f
ReadGlobals(p, globals) == Override(p, Unlimited(globals))
ModeWrong(globals) == "mode" \in DOMAIN globals /\ globals.mode \notin Modes

(* Only the mode BGP has more than one session.                            *)
SessionCount(sessions, mode) ==
  IF Len(sessions) > 1 /\ mode # "BGP" THEN 1 ELSE Len(sessions)

(* _readPrintSetting: one value for all messages, or one for some of them  *)
(* and FALSE for the others.                                               *)
readPrintSetting(v, old) ==
  IF v.kind = "scalar" THEN [m \in Messages |-> v.value]
  ELSE IF v.kind = "group" THEN [m \in Messages |-> m \in v.on]
  ELSE old

(* The parameters a session cannot do without.                             *)
Required == {"asn", "bgp_ident", "peer_asn", "peer_ip"}

(* What a session gets for a parameter that is missing: its addresses are  *)
(* the BGP identifier, and a few others have a value of their own.         *)
Missing(s) ==
  [next_hop_ipv4 |-> s.bgp_ident, next_hop_ipv6 |-> s.bgp_ident, local_addr |-> s.bgp_ident,
   hold_timer |-> 180, disconnect |-> 0, peer_port |-> 179, algo_id |-> 1]

(* With FAKE the fake signature and the fake SKI are needed.               *)
SessionWrong(s) ==
  \/ ~(Required \subseteq DOMAIN s)
  \/ "next_hop_ipv6" \in DOMAIN s /\ s.next_hop_ipv6 = "bad"
  \/ "signature_generation" \in DOMAIN s /\ s.signature_generation \notin SigModes
  \/ "null_signature_mode" \in DOMAIN s /\
       \/ s.null_signature_mode \notin NsModes \cup {"BGP-4"}
       \/ s.null_signature_mode = "FAKE" /\ ~({"fake_signature", "fake_ski"} \subseteq DOMAIN s)
  \/ "update" \in DOMAIN s /\ ~s.update.list

LinesOf(s) == IF "update" \in DOMAIN s THEN s.update.lines ELSE <<>>

Printing == {"printOnReceive", "printOnSend"}

(* BGP-4 is another name for BGP4; the fake data counts with FAKE only.    *)
Algorithm(s) ==
  LET ns == IF "null_signature_mode" \in DOMAIN s
            THEN IF s.null_signature_mode = "BGP-4" THEN "BGP4" ELSE s.null_signature_mode
            ELSE "DROP"
      fake(n) == IF ns = "FAKE" THEN s[n] ELSE Nothing
  IN [null_signature_mode |-> ns, fake_signature |-> fake("fake_signature"),
      fake_ski |-> fake("fake_ski")]

Printed(s) ==
  [n \in Printing \cap DOMAIN s |-> readPrintSetting(s[n], NoPrint)]

ReadSession(s, disabled) ==
  LET defaults == Override(initBGPSessionConfig, Missing(s))
      plain == Override(defaults, [n \in DOMAIN s \ (Printing \cup {"update"}) |-> s[n]])
  IN [conf |-> Override(Override(plain, Algorithm(s)), Printed(s)),
      updates |-> readUpdates(LinesOf(s), disabled).stack]

UpdatesWrong(s, disabled) == readUpdates(LinesOf(s), disabled).wrong

(* readConfig.  f: found, parses, globals, session (list, group or none),  *)
(* sessions, update (a record with list and lines).  Global updates are    *)
(* read behind the sessions, if there is a session setting at all.  A      *)
(* session that is wrong ends the reading.  The first session exists also  *)
(* if the list is empty; then it is not counted.                           *)
readConfig(p, f) ==
  LET q == ReadGlobals(p, f.globals)
      n == IF f.session = "list" THEN SessionCount(f.sessions, q.mode) ELSE 1
      bad == {k \in 1..n : SessionWrong(f.sessions[k])}
      ok == f.session = "list" /\ bad = {}
      lines == f.session = "list" /\ \E k \in 1..n : UpdatesWrong(f.sessions[k], q.disable_bgpsec)
      globals == readUpdates(f.update.lines, q.disable_bgpsec)
      wrong == \/ ModeWrong(f.globals)
               \/ f.session = "list" /\ (bad # {} \/ lines)
               \/ f.session # "none" /\ (~f.update.list \/ globals.wrong)
      first == IF n = 0 THEN <<NewSession>> ELSE <<>>
  IN IF ~f.found \/ ~f.parses
     THEN [params |-> p, sessions |-> <<NewSession>>, count |-> 1,
           globals |-> initStack, error |-> TRUE]
     ELSE [params |-> q,
           sessions |-> first \o
             [k \in 1..n |-> IF ok /\ ~ModeWrong(f.globals)
                            THEN ReadSession(f.sessions[k], q.disable_bgpsec) ELSE NewSession],
           count |-> n,
           globals |-> IF wrong \/ f.session = "none" THEN initStack ELSE globals.stack,
           error |-> wrong]

-----------------------------------------------------------------------------
(* The command line: a sequence of options with name, long (written out),  *)
(* val, and given, FALSE if there is no value behind it.                   *)

(* The options of printSyntax, in both forms where it names two.           *)
Valued == {"config", "capi_cfg", "update", "ski_file", "ski_key_loc", "mode", "asn",
           "bgp_ident", "hold_timer", "peer_asn", "peer_ip", "peer_port", "disconnect",
           "bin", "out", "max", "create", "iface", "next_hop_ipv4", "next_hop_ipv6"}
Flags == {"help", "version", "no_mpnlri", "no_ext_msg_cap", "no_ext_msg_liberal",
          "ext_msg_force", "convergence", "no_preload_eckey", "appendOut",
          "suppress_warning", "show_settings", "disable_bgpsec"}
LongOnly  == {"ext_msg_force", "suppress_warning", "show_settings", "disable_bgpsec"}
ShortOnly == {"create", "iface"}

(* getShortParam knows these by their long names, and parseParams compares *)
(* the four that have no short one.                                        *)
LongKnown ==
  {"help", "version", "ski_file", "ski_key_loc", "mode", "bgp_ident", "asn", "peer_asn",
   "peer_ip", "config", "update", "bin", "out", "appendOut", "no_mpnlri", "no_ext_msg_cap",
   "no_ext_msg_liberal", "no_preload_eckey", "capi_cfg", "max"}

(* -t, the hold time, has no case.                                         *)
Known(o) ==
  IF o.long THEN o.name \in LongKnown \cup LongOnly
  ELSE o.name \in (Valued \cup Flags) \ (LongOnly \cup {"hold_timer"})

(* parseParams, first pass: up to the first help or configuration file.    *)
ScanEnd(opts) ==
  SelectInSeq(opts, LAMBDA o : Known(o) /\ o.name \in {"help", "config"})
Scanned(opts) == IF ScanEnd(opts) = 0 THEN opts ELSE SubSeq(opts, 1, ScanEnd(opts))
HelpAsked(opts) ==
  \/ opts = <<>>
  \/ \E i \in DOMAIN Scanned(opts) :
       Known(opts[i]) /\ opts[i].name \in {"help", "version"}
ConfigAsked(opts) ==
  IF ScanEnd(opts) # 0 /\ opts[ScanEnd(opts)].name = "config"
  THEN opts[ScanEnd(opts)].val ELSE Nothing
ConfigMissing(opts) ==
  ScanEnd(opts) # 0 /\ opts[ScanEnd(opts)].name = "config" /\ ~opts[ScanEnd(opts)].given

ValueMissing(o) == Known(o) /\ o.name \in Valued /\ ~o.given

(* A line with an error that is given as a parameter.                      *)
LineWrong(o) == o.name = "update" /\ ~Incomplete(o.val) /\ Wrong(o.val)

OptionWrong(o) ==
  \/ ~Known(o)
  \/ ValueMissing(o)
  \/ LineWrong(o)
  \/ o.name = "mode" /\ o.val \notin Modes

(* Two file names are written with a line feed behind them.                *)
LineFeed == {"ski_file", "capi_cfg"}
AsWritten(name, v) == IF name \in LineFeed THEN v \o "\n" ELSE v

(* parseParams, second pass, what an option sets of the parameters.        *)
ParamOf(o) ==
  IF o.name \in {"ski_file", "ski_key_loc", "capi_cfg", "mode", "bin", "out", "create", "iface"}
    THEN [n \in {o.name} |-> AsWritten(n, o.val)]
  ELSE IF o.name = "max" THEN [max |-> IF o.val = 0 THEN MaxUpdates ELSE o.val]
  ELSE IF o.name = "no_preload_eckey" THEN [preload_eckey |-> FALSE]
  ELSE IF o.name \in {"appendOut", "suppress_warning", "show_settings", "disable_bgpsec"}
    THEN [n \in {o.name} |-> TRUE]
  ELSE <<>>

(* And what it sets of the first session.                                  *)
SessionOf(o) ==
  IF o.name \in {"asn", "bgp_ident", "peer_asn", "next_hop_ipv4", "next_hop_ipv6",
                 "peer_ip", "peer_port", "disconnect"}
    THEN [n \in {o.name} |-> o.val]
  ELSE IF o.name = "no_mpnlri" THEN [encodeMPNLRI |-> FALSE]
  ELSE IF o.name = "no_ext_msg_cap" THEN [ext_msg_cap |-> FALSE]
  ELSE IF o.name = "no_ext_msg_liberal" THEN [ext_msg_liberal |-> FALSE]
  ELSE IF o.name \in {"convergence", "ext_msg_force"} THEN [n \in {o.name} |-> TRUE]
  ELSE <<>>

-----------------------------------------------------------------------------
(* A generated file                                                        *)

OrDefault(v, none, default) == IF v = none THEN default ELSE v

(* _checkSettings: the AS numbers of the file, and the ones of a bug that  *)
(* swaps the two.                                                          *)
AsNumbersSwapped(conf) ==
  [asn |-> OrDefault(conf.peer_asn, 0, 65005), peer_asn |-> OrDefault(conf.asn, 0, 65000)]
AsNumbers(conf) ==
  [asn |-> OrDefault(conf.asn, 0, 65000), peer_asn |-> OrDefault(conf.peer_asn, 0, 65005)]

(* A line that is no more than a prefix and a path.                        *)
PlainLine(id, b4, val) ==
  [id |-> id, sep |-> TRUE, blank |-> FALSE, prefix |-> "v4", b4 |-> b4, set |-> "no", val |-> val]

GeneratedLines ==
  <<[PlainLine("g1", "no", "-") EXCEPT !.sep = FALSE],
    PlainLine("g2", "blank", "-"), PlainLine("g3", "no", "-"),
    PlainLine("g4", "no", "-"), PlainLine("g5", "no", "V")>>

(* The address of an interface, if the addresses of the host can be asked  *)
(* for and the interface is one of them.                                   *)
retrieveIPAddr(iface, interfaces) ==
  IF iface \in DOMAIN interfaces THEN interfaces[iface] ELSE Nothing
LocalAddr(found) == OrDefault(found, Nothing, "10.0.1.64")

GeneratedGlobals ==
  [mode |-> "BGP", max |-> 0, only_extended_length |-> TRUE, preload_eckey |-> FALSE,
   appendOut |-> FALSE, ski_file |-> "ski-list", ski_key_loc |-> "keys"]

(* generateFile, from the first session: five updates, no global ones, and *)
(* fake signatures where a signature cannot be made.                       *)
generateFile(conf, address) ==
  [found |-> TRUE, parses |-> TRUE,
   globals |-> GeneratedGlobals,
   session |-> "list",
   sessions |-> <<[asn |-> AsNumbers(conf).asn, bgp_ident |-> address, hold_timer |-> 180,
                   peer_asn |-> AsNumbers(conf).peer_asn,
                   peer_ip |-> OrDefault(conf.peer_ip, Nothing, "10.0.1.32"),
                   peer_port |-> 179, disconnect |-> 0, convergence |-> FALSE,
                   ext_msg_cap |-> TRUE, ext_msg_liberal |-> TRUE,
                   bgpsec_v4_snd |-> TRUE, bgpsec_v4_rcv |-> TRUE,
                   bgpsec_v6_snd |-> TRUE, bgpsec_v6_rcv |-> TRUE,
                   incl_global_updates |-> TRUE, prefixPacking |-> FALSE, algo_id |-> 1,
                   signature_generation |-> "BIO", null_signature_mode |-> "FAKE",
                   fake_signature |-> "fake", fake_ski |-> "fake",
                   printOnSend |-> [kind |-> "scalar", value |-> FALSE],
                   printOnReceive |-> [kind |-> "scalar", value |-> FALSE],
                   printPollLoop |-> FALSE, printOnInvalid |-> FALSE,
                   update |-> [list |-> TRUE, lines |-> GeneratedLines]]>>,
   update |-> [list |-> TRUE, lines |-> <<>>]]
=============================================================================
