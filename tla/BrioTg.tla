------------------------------- MODULE BrioTg -------------------------------
(***************************************************************************)
(* The program brio_tg (main of bgpsecio.c): it reads its settings, checks *)
(* them, puts its updates together and then plays them to a BGP peer,      *)
(* validates them with the SRx Crypto API or writes them to a file.  The   *)
(* program may be started again: configuration files and files of          *)
(* generated data stay.                                                    *)
(***************************************************************************)
EXTENDS Config, Player, FiniteSets

CONSTANTS
  CommandLines, \* the command lines the program is started with
  ConfigFiles,  \* the configuration files that are there: name -> file
  DataFiles,    \* names of files of generated data
  Interfaces,   \* the network interfaces of the host: name -> address
  StdinLines,   \* the lines that may come in on the standard input
  PeerCaps,     \* capabilities a peer may announce: as4, v4, v6
  MaxStarts,    \* bound: starts of the program
  MaxLosses     \* bound: sessions that are lost and established again

(* Command lines, sessions and updates are given in an order.              *)
IsSequence(s) == s \in Seq(ToSet(s))
InOrder(file) ==
  /\ IsSequence(file.sessions)
  /\ \A s \in ToSet(file.sessions) : IsSequence(LinesOf(s))
  /\ IsSequence(file.update.lines)

ASSUME Inputs ==
  /\ \A cl \in CommandLines : IsSequence(cl)
  /\ \A name \in DOMAIN ConfigFiles : InOrder(ConfigFiles[name])
  /\ IsSequence(StdinLines)

VARIABLES
  pc,           \* what main is doing
  starts,       \* starts of the program so far
  argv,         \* the command line
  idx,          \* the option parseParams reads next
  params,       \* params: what is not of a session
  sessions,     \* params.sessionConf, each with conf and updates
  count,        \* params.sessionCount
  paramUpdates, \* params.paramUpdateStack
  globalUpdates,\* params.globalUpdateStack
  error,        \* params.errMsgBuff is not empty
  retVal,       \* main's retVal
  files,        \* configuration files: name -> file
  data,         \* files of generated data: name -> sequence of records
  stdin,        \* lines read from the standard input
  taken,        \* updates taken from the stack of the first session
  sent,         \* what became of them, and of records read
  keys,         \* the key list is loaded
  bgp           \* the BGP session that is played

vars == <<pc, starts, argv, idx, params, sessions, count, paramUpdates, globalUpdates,
          error, retVal, files, data, stdin, taken, sent, keys, bgp>>

settings == <<params, sessions, count, paramUpdates, globalUpdates>>
disk     == <<files, data>>
run      == <<stdin, taken, sent, keys, bgp>>

NoSession == [link |-> "none"]
First     == sessions[1]
Stack1    == First.updates

Init ==
  /\ pc = "idle"
  /\ starts = 0
  /\ argv = <<>>
  /\ idx = 1
  /\ files = ConfigFiles
  /\ data = [f \in {} |-> <<>>]
  /\ stdin = 0
  /\ params = initParams
  /\ sessions = <<NewSession>>
  /\ count = 1
  /\ paramUpdates = initStack
  /\ globalUpdates = initStack
  /\ error = FALSE
  /\ retVal = 1
  /\ taken = <<>>
  /\ sent = <<>>
  /\ keys = FALSE
  /\ bgp = NoSession

-----------------------------------------------------------------------------
(* Settings                                                                *)

(* A start of the program.                                                 *)
Start(cl) ==
  /\ pc = "idle" /\ starts < MaxStarts
  /\ pc' = "scan"
  /\ starts' = starts + 1
  /\ argv' = cl
  /\ UNCHANGED <<idx, settings, error, retVal, disk, run>>

(* parseParams, first pass.                                                *)
Scan ==
  LET missing == ConfigMissing(argv) IN
  /\ pc = "scan"
  /\ retVal' = IF HelpAsked(argv) THEN 0 ELSE 1
  /\ error' = missing
  /\ pc' = IF ConfigAsked(argv) # Nothing /\ ~missing /\ ~HelpAsked(argv) THEN "config" ELSE "params"
  /\ UNCHANGED <<starts, argv, idx, settings, disk, run>>

NoFile == [found |-> FALSE, parses |-> FALSE, globals |-> <<>>, session |-> "none",
           sessions |-> <<>>, update |-> [list |-> TRUE, lines |-> <<>>]]
FileNamed(name) == IF name \in DOMAIN files THEN files[name] ELSE NoFile

ReadConfig ==
  LET r == readConfig(params, FileNamed(ConfigAsked(argv))) IN
  /\ pc = "config"
  /\ params' = r.params
  /\ sessions' = r.sessions
  /\ count' = r.count
  /\ globalUpdates' = r.globals
  /\ error' = r.error
  /\ pc' = "params"
  /\ UNCHANGED <<starts, argv, idx, paramUpdates, retVal, disk, run>>

(* parseParams, second pass: one option.                                   *)
ParseParam ==
  LET o == argv[idx] IN
  /\ pc = "params" /\ ~error /\ idx \in DOMAIN argv
  /\ idx' = idx + 1
  /\ error' = OptionWrong(o)
  /\ IF OptionWrong(o) THEN UNCHANGED settings
     ELSE /\ params' = Override(params, ParamOf(o))
          /\ sessions' = [sessions EXCEPT ![1].conf = Override(@, SessionOf(o))]
          /\ paramUpdates' = IF o.name = "update" /\ ~Incomplete(o.val)
                             THEN fifoPush(paramUpdates, createUpdate(o.val, params.disable_bgpsec))
                             ELSE paramUpdates
          /\ UNCHANGED <<count, globalUpdates>>
  /\ UNCHANGED <<pc, starts, argv, retVal, disk, run>>

(* The end of parseParams: an interface is for generating a file only.     *)
EndParams ==
  LET wrong == error \/ (params.iface # Nothing /\ params.create = Nothing) IN
  /\ pc = "params" /\ (error \/ idx \notin DOMAIN argv)
  /\ error' = wrong
  /\ retVal' = IF wrong THEN 2 ELSE retVal
  /\ pc' = IF wrong \/ retVal = 0 THEN "release" ELSE "check"
  /\ UNCHANGED <<starts, argv, idx, settings, disk, run>>

(* _checkSettings: without BGPsec no session has a BGPsec capability.      *)
BgpsecCaps == {"bgpsec_v4_rcv", "bgpsec_v4_snd", "bgpsec_v6_rcv", "bgpsec_v6_snd"}
CapsKept == sessions
CapsCleared ==
  IF params.disable_bgpsec
  THEN [k \in DOMAIN sessions |->
          IF k > count THEN sessions[k]
          ELSE [sessions[k] EXCEPT !.conf = Override(@, [n \in BgpsecCaps |-> FALSE])]]
  ELSE sessions

GenModes == {"GEN-B", "GEN-C"}

(* What does not go together.                                              *)
Conflict ==
  \/ params.disable_bgpsec /\ params.mode # "BGP"
  \/ params.create = Nothing /\ params.mode \in GenModes /\ (params.out = Nothing \/ params.bin # Nothing)
  \/ params.create = Nothing /\ params.mode # "BGP" /\ count # 1

CheckSettings ==
  /\ pc = "check" /\ (Conflict \/ params.create = Nothing)
  /\ pc' = IF Conflict THEN "release" ELSE "post"
  /\ sessions' = IF params.mode = "BGP" THEN CapsCleared ELSE sessions
  /\ UNCHANGED <<starts, argv, idx, params, count, paramUpdates, globalUpdates, error, retVal,
                 disk, run>>

(* _checkSettings with -C: a file that is there is not overwritten.  The   *)
(* address is the interface's, or the default.                             *)
CreateConfig(asked) ==
  LET f == params.create
      address == LocalAddr(IF asked THEN retrieveIPAddr(params.iface, Interfaces) ELSE Nothing)
  IN
  /\ pc = "check" /\ ~Conflict /\ f # Nothing
  /\ files' = IF f \in DOMAIN files THEN files
              ELSE [n \in DOMAIN files \cup {f} |->
                      IF n = f THEN generateFile(First.conf, address) ELSE files[n]]
  /\ retVal' = IF f \in DOMAIN files THEN 1 ELSE 0
  /\ sessions' = CapsCleared
  /\ pc' = "release"
  /\ UNCHANGED <<starts, argv, idx, params, count, paramUpdates, globalUpdates, error, data, run>>

-----------------------------------------------------------------------------
(* Updates                                                                 *)

(* postProcessUpdateStack: the parameters' updates go before those of the  *)
(* first session; the global ones behind those of each session, as copies  *)
(* except for the last session.                                            *)
WithParams(stack) ==
  IF ~isStackEmpty(paramUpdates) /\ count # 0 THEN Joined(paramUpdates, stack) ELSE stack

WithGlobals(stack, k) ==
  LET copy(u) == IF k < count THEN duplicateUpdate(u) ELSE u
      copies == [i \in DOMAIN globalUpdates.chain |-> copy(globalUpdates.chain[i])]
  IN PushedOn(stack, copies)

PostProcess ==
  /\ pc = "post"
  /\ sessions' = [k \in DOMAIN sessions |->
       IF k > count THEN sessions[k]
       ELSE [sessions[k] EXCEPT !.updates =
               WithGlobals(IF k = 1 THEN WithParams(@) ELSE @, k)]]
  /\ paramUpdates' = IF count # 0 THEN [paramUpdates EXCEPT !.count = 0] ELSE paramUpdates
  /\ globalUpdates' = initStack
  /\ pc' = IF params.show_settings THEN "release" ELSE "mode"
  /\ UNCHANGED <<starts, argv, idx, params, count, error, retVal, disk, run>>

(* isUpdateStackEmpty(..., true): an empty stack gets the line that is     *)
(* waiting on the standard input, unless it is wrong.                      *)
NextLine == StdinLines[stdin + 1]
Refilled(read) ==
  IF ~isStackEmpty(Stack1) \/ ~read \/ Incomplete(NextLine) \/ Wrong(NextLine) THEN Stack1
  ELSE pushStack(Stack1, createUpdate(NextLine, params.disable_bgpsec))

(* Whether the question reads the input at all.                            *)
MayRead(read) == read => isStackEmpty(Stack1) /\ stdin < Len(StdinLines)
StdinRead(read) == stdin' = IF read THEN stdin + 1 ELSE stdin

SetStack(s) == sessions' = [sessions EXCEPT ![1].updates = s]

(* The update at the head is taken; a counter without an element ends the  *)
(* program with a fault.                                                   *)
Take(read) ==
  LET s == Refilled(read) IN
  /\ MayRead(read)
  /\ ~isStackEmpty(s)
  /\ StdinRead(read)
  /\ IF HeadMissing(s)
     THEN /\ pc' = "fault"
          /\ UNCHANGED <<sessions, taken>>
     ELSE /\ SetStack(popStack(s))
          /\ taken' = Append(taken, peekStack(s))
          /\ pc' = pc

-----------------------------------------------------------------------------
(* Modes CAPI, GEN-B and GEN-C                                             *)

(* preloadKeys: the list can be loaded if its file can be opened.          *)
KeyListThere == params.ski_file = "ski-list"

StartCapi(read, init) ==
  /\ pc = "mode" /\ params.mode = "CAPI"
  /\ MayRead(read)
  /\ init \/ ~read
  /\ IF init
     THEN /\ pc' = "capi"
          /\ StdinRead(read)
          /\ SetStack(Refilled(read))
          /\ keys' = (~isStackEmpty(Refilled(read)) /\ KeyListThere)
          /\ retVal' = 0
     ELSE /\ pc' = "release"
          /\ UNCHANGED <<sessions, keys, retVal, stdin>>
  /\ UNCHANGED <<starts, argv, idx, params, count, paramUpdates, globalUpdates, error, disk,
                 taken, sent, bgp>>

(* _runGEN: the file is opened for writing or appending.                   *)
StartGen ==
  LET old == IF params.appendOut /\ params.out \in DOMAIN data THEN data[params.out] ELSE <<>> IN
  /\ pc = "mode" /\ params.mode \in GenModes
  /\ keys' = KeyListThere
  /\ IF params.out \in DataFiles
     THEN /\ data' = [f \in DOMAIN data \cup {params.out} |-> IF f = params.out THEN old ELSE data[f]]
          /\ pc' = "gen"
     ELSE /\ pc' = "release"
          /\ UNCHANGED data
  /\ retVal' = 0
  /\ UNCHANGED <<starts, argv, idx, settings, error, files, stdin, taken, sent, bgp>>

CountDown == params' = [params EXCEPT !.max = @ - 1]

(* An attribute can only be made with the keys, unless signatures are      *)
(* faked, and never for an origination to an internal peer.                *)
IBGP == First.conf.asn = First.conf.peer_asn
MayBeMade(u, made) ==
  made => /\ keys \/ First.conf.null_signature_mode = "FAKE"
          /\ ~(IBGP /\ u.origin)

(* One update of _runCAPI: an attribute is made and validated, unless the  *)
(* update is for BGP-4 or cannot be signed.                                *)
CapiUpdate(read, made) ==
  /\ pc = "capi" /\ params.max # 0
  /\ Take(read)
  /\ pc' = pc => MayBeMade(Last(taken'), made)
  /\ CountDown
  /\ sent' = IF pc' = "fault" \/ Last(taken').bgp4 \/ ~made THEN sent
             ELSE Append(sent, [kind |-> "validated", id |-> Last(taken').id])
  /\ UNCHANGED <<starts, argv, idx, count, paramUpdates, globalUpdates, error, retVal, disk, keys, bgp>>

(* The updates are used up, or the maximum is.                             *)
NoMore(read) ==
  /\ MayRead(read)
  /\ StdinRead(read)
  /\ isStackEmpty(Refilled(read)) \/ params.max = 0
  /\ SetStack(Refilled(read))

CapiRecords(read) ==
  /\ pc = "capi"
  /\ NoMore(read)
  /\ pc' = IF params.bin \in DOMAIN data THEN "records" ELSE "release"
  /\ bgp' = [link |-> "none", pos |-> 1]
  /\ UNCHANGED <<starts, argv, idx, params, count, paramUpdates, globalUpdates, error, retVal,
                 disk, taken, sent, keys>>

(* A record is read before the maximum is looked at.                       *)
NextRecord(types) ==
  loadData(data[params.bin], bgp.pos, First.conf.asn, First.conf.peer_asn, types)

CapiRecord ==
  LET i == NextRecord(TypeAttr) IN
  /\ pc = "records"
  /\ IF i = 0 \/ params.max = 0
     THEN /\ pc' = "release"
          /\ UNCHANGED <<params, sent, bgp>>
     ELSE /\ CountDown
          /\ sent' = Append(sent, [kind |-> "validated", id |-> data[params.bin][i].data])
          /\ bgp' = [bgp EXCEPT !.pos = i + 1]
          /\ pc' = pc
  /\ UNCHANGED <<starts, argv, idx, sessions, count, paramUpdates, globalUpdates, error, retVal,
                 disk, stdin, taken, keys>>

(* One update of _runGEN, for BGP-4 or not: a record, if it can be signed. *)
GenUpdate(read, made) ==
  LET u == Last(taken')
      type == IF params.mode = "GEN-B" THEN "update" ELSE "attr"
      store == [prefix |-> u.afi, keys |-> <<>>, segmentCount |-> 1, data |-> u.id]
  IN
  /\ pc = "gen" /\ params.max # 0
  /\ Take(read)
  /\ pc' = pc => MayBeMade(u, made)
  /\ CountDown
  /\ data' = IF pc' = "fault" \/ ~made THEN data
             ELSE [data EXCEPT ![params.out] =
                     storeData(@, type, First.conf.asn, First.conf.peer_asn, store)]
  /\ UNCHANGED <<starts, argv, idx, count, paramUpdates, globalUpdates, error, retVal, files,
                 sent, keys, bgp>>

EndGen(read) ==
  /\ pc = "gen"
  /\ NoMore(read)
  /\ pc' = "release"
  /\ UNCHANGED <<starts, argv, idx, params, count, paramUpdates, globalUpdates, error, retVal,
                 disk, taken, sent, keys, bgp>>

-----------------------------------------------------------------------------
(* Mode BGP                                                                *)

(* checkBGPConfig.                                                         *)
Playable(conf) ==
  /\ 0 \notin {conf.asn, conf.peer_asn, conf.peer_port}
  /\ Nothing \notin {conf.bgp_ident, conf.peer_ip}

(* main: keys are loaded if there are updates by now.                      *)
StartBgp(read) ==
  LET s == Refilled(read) IN
  /\ pc = "mode" /\ params.mode = "BGP" /\ count # 0
  /\ MayRead(read)
  /\ StdinRead(read)
  /\ SetStack(s)
  /\ keys' = (~isStackEmpty(s) /\ ~params.disable_bgpsec /\ KeyListThere)
  /\ pc' = IF Playable(First.conf) THEN "session" ELSE "release"
  /\ UNCHANGED <<starts, argv, idx, params, count, paramUpdates, globalUpdates, error, retVal,
                 disk, taken, sent, bgp>>

(* Without a session in the file there is nothing to play.                 *)
NoBgpSession ==
  /\ pc = "mode" /\ params.mode = "BGP" /\ count = 0
  /\ pc' = "release"
  /\ UNCHANGED <<starts, argv, idx, settings, error, retVal, disk, run>>

(* _runBGPRouterSession, before its loop.                                  *)
OpenTraffic(read) ==
  LET s == Refilled(read) IN
  /\ pc = "session"
  /\ MayRead(read)
  /\ StdinRead(read)
  /\ SetStack(s)
  /\ bgp' = [link |-> "down", sending |-> FALSE, negotiated |-> {}, peerCaps |-> {}, losses |-> 0,
              stop |-> First.conf.disconnect, pos |-> 1, input |-> TRUE, on |-> TRUE,
              bin |-> params.bin \in DOMAIN data,
              sendData |-> (~isStackEmpty(s) \/ params.bin # Nothing) /\ params.max # 0]
  /\ pc' = "bgp"
  /\ UNCHANGED <<starts, argv, idx, params, count, paramUpdates, globalUpdates, error, retVal,
                 disk, taken, sent, keys>>

BgpStep == UNCHANGED <<starts, argv, idx, count, paramUpdates, globalUpdates, error, retVal,
                       disk, keys>>
BgpOnly == BgpStep /\ UNCHANGED <<pc, params, sessions, stdin, taken, sent>>

(* The session thread: a session is established, lost, or given up.        *)
Established(caps) ==
  /\ pc = "bgp" /\ bgp.on /\ bgp.link = "down"
  /\ bgp' = [bgp EXCEPT !.link = "up", !.peerCaps = caps]
  /\ BgpOnly

Lost(goOn) ==
  /\ pc = "bgp" /\ bgp.link = "up"
  /\ goOn => bgp.losses < MaxLosses
  /\ bgp' = [bgp EXCEPT !.link = "down", !.peerCaps = {}, !.losses = @ + 1, !.on = @ /\ goOn]
  /\ BgpOnly

(* The traffic loop finds the session established.                         *)
EnterSending ==
  LET snd(v) == First.conf[IF v = "v4" THEN "bgpsec_v4_snd" ELSE "bgpsec_v6_snd"] IN
  /\ pc = "bgp" /\ bgp.on /\ bgp.link = "up" /\ ~bgp.sending
  /\ bgp' = [bgp EXCEPT !.sending = TRUE, !.negotiated = {v \in bgp.peerCaps : snd(v)}]
  /\ BgpOnly

Sending == pc = "bgp" /\ bgp.sending /\ bgp.link = "up" /\ bgp.sendData

(* What an update is sent as: a path that cannot be signed is sent in the  *)
(* form of BGP-4 if that is set, or if there is nothing to sign.           *)
DoBGPSEC(u) == u.afi \in bgp.negotiated /\ ~u.bgp4
Kind(u, made) ==
  IF made THEN "bgpsec"
  ELSE IF ~DoBGPSEC(u) \/ (IBGP /\ u.origin) \/ First.conf.null_signature_mode = "BGP4"
    THEN "bgp4"
  ELSE "dropped"

SendUpdate(read, made) ==
  LET u == Last(taken') IN
  /\ Sending
  /\ read => bgp.input
  /\ Take(read)
  /\ pc' = pc => MayBeMade(u, made) /\ (made => DoBGPSEC(u))
  /\ CountDown
  /\ sent' = IF pc' = "fault" THEN sent
             ELSE Append(sent, [kind |-> Kind(u, made), id |-> u.id])
  /\ bgp' = [bgp EXCEPT !.sendData = params'.max # 0]
  /\ BgpStep

(* Nothing on the stack: a record is read.  An attribute alone is used     *)
(* with the validation state of an update that is not there.               *)
SendRecord(read) ==
  LET i == NextRecord(TypeAll)
      r == data[params.bin][i]
  IN
  /\ Sending /\ bgp.bin
  /\ read => bgp.input
  /\ MayRead(read)
  /\ isStackEmpty(Refilled(read))
  /\ StdinRead(read)
  /\ CountDown
  /\ IF i = 0
     THEN bgp' = [bgp EXCEPT !.bin = FALSE, !.input = FALSE, !.sendData = params'.max # 0]
     ELSE bgp' = [bgp EXCEPT !.pos = i + 1, !.input = FALSE, !.sendData = params'.max # 0]
  /\ sent' = IF i # 0 /\ r.type = "update" THEN Append(sent, [kind |-> "record", id |-> r.data])
             ELSE sent
  /\ pc' = IF i # 0 /\ r.type = "attr" THEN "fault" ELSE pc
  /\ BgpStep /\ UNCHANGED <<sessions, taken>>

(* Nothing at all: the sending is over.                                    *)
SendNothing(read) ==
  /\ Sending /\ ~bgp.bin
  /\ read => bgp.input
  /\ MayRead(read)
  /\ isStackEmpty(Refilled(read))
  /\ StdinRead(read)
  /\ CountDown
  /\ bgp' = [bgp EXCEPT !.sendData = FALSE]
  /\ BgpStep /\ UNCHANGED <<pc, sessions, taken, sent>>

(* The end of a round of the traffic loop: the time to the shutdown counts *)
(* down, if there is one.                                                  *)
LeaveSending ==
  /\ pc = "bgp" /\ bgp.sending /\ (bgp.link = "down" \/ ~bgp.sendData)
  /\ bgp' = [bgp EXCEPT !.sending = FALSE, !.negotiated = {},
                !.stop = IF First.conf.disconnect # 0 /\ @ # 0 THEN @ - 1 ELSE @,
                !.on = @ /\ (First.conf.disconnect = 0 \/ bgp.stop # 0)]
  /\ BgpOnly

EndBgp ==
  /\ pc = "bgp" /\ ~bgp.on /\ ~bgp.sending
  /\ pc' = "release"
  /\ retVal' = 0
  /\ UNCHANGED <<starts, argv, idx, settings, error, disk, run>>

-----------------------------------------------------------------------------
(* The end of main, or of a program with a fault: what it had is gone.     *)
Release ==
  /\ pc \in {"release", "fault"}
  /\ pc' = "idle"
  /\ argv' = <<>>
  /\ idx' = 1
  /\ stdin' = 0
  /\ params' = initParams
  /\ sessions' = <<NewSession>>
  /\ count' = 1
  /\ paramUpdates' = initStack
  /\ globalUpdates' = initStack
  /\ error' = FALSE
  /\ retVal' = 1
  /\ taken' = <<>>
  /\ sent' = <<>>
  /\ keys' = FALSE
  /\ bgp' = NoSession
  /\ UNCHANGED <<starts, disk>>

Next ==
  \/ \E cl \in CommandLines : Start(cl)
  \/ Scan \/ ReadConfig \/ ParseParam \/ EndParams \/ CheckSettings
  \/ \E asked \in BOOLEAN : CreateConfig(asked)
  \/ PostProcess
  \/ \E read \in BOOLEAN :
       \/ \E init \in BOOLEAN : StartCapi(read, init)
       \/ \E made \in BOOLEAN : CapiUpdate(read, made) \/ GenUpdate(read, made) \/ SendUpdate(read, made)
       \/ CapiRecords(read) \/ EndGen(read)
       \/ StartBgp(read) \/ OpenTraffic(read) \/ SendRecord(read) \/ SendNothing(read)
  \/ StartGen \/ CapiRecord \/ NoBgpSession
  \/ \E caps \in PeerCaps : Established(caps)
  \/ \E goOn \in BOOLEAN : Lost(goOn)
  \/ EnterSending \/ LeaveSending \/ EndBgp \/ Release

Spec == Init /\ [][Next]_vars

-----------------------------------------------------------------------------
(* Properties                                                              *)

Playing == {"mode", "capi", "records", "gen", "session", "bgp"}

(* The updates the run was given, in the order in which they are to be     *)
(* played.                                                                 *)
File == FileNamed(ConfigAsked(argv))
LineOf(o) == IF o.name = "update" /\ ~Incomplete(o.val) THEN <<o.val>> ELSE <<>>
ParamLines == FlattenSeq([i \in DOMAIN argv |-> LineOf(argv[i])])
OwnLines ==
  IF ConfigAsked(argv) = Nothing \/ count = 0 \/ File.session # "list" THEN <<>>
  ELSE Complete(LinesOf(File.sessions[1]))
GlobalLines ==
  IF ConfigAsked(argv) = Nothing \/ count = 0 \/ File.session = "none" THEN <<>>
  ELSE Complete(File.update.lines)
Usable(l) == IF Incomplete(l) \/ Wrong(l) THEN <<>> ELSE <<l>>
InputLines == FlattenSeq([i \in 1..stdin |-> Usable(StdinLines[i])])

Scripted == ParamLines \o OwnLines \o GlobalLines \o InputLines

Ids(f) == [i \in DOMAIN f |-> f[i].id]
Ahead  == Ids(taken) \o Ids(Stack1.chain)

(* The links of the joined stacks hold but for one case: updates from      *)
(* parameters, global ones, and no own ones.                               *)
TailKept == ParamLines = <<>> \/ OwnLines # <<>> \/ GlobalLines = <<>>

(* Every update given is played exactly once: those of the parameters,     *)
(* those of the session, the global ones and those of the input, each in   *)
(* its order, and with one session as they were written; the program does  *)
(* not stop on a stack whose counter and elements differ                   *)
(* (readConfig, parseParams, postProcessUpdateStack, isUpdateStackEmpty).  *)
UpdatesAsScripted ==
  /\ pc \in Playing /\ count # 0 /\ TailKept =>
       /\ Ahead = Ids(Scripted)
       /\ Stack1.count = Len(Stack1.chain)
       /\ count = 1 =>
            LET lines == Scripted
                updates == taken \o Stack1.chain
            IN \A i \in DOMAIN lines :
                 /\ updates[i].asSet = AsSet(lines[i])
                 /\ lines[i].sep => updates[i].validation = lines[i].val
  /\ pc = "fault" /\ TailKept => bgp # NoSession /\ bgp.pos # 1

(* With BGPsec disabled, wherever on the command line or in the file, and  *)
(* for an update that asks for BGP-4 or has an AS_SET, nothing is sent or  *)
(* validated as BGPsec (createUpdate, _checkSettings,                      *)
(* _runBGPRouterSession).                                                  *)
NoBgpsecWhenOff ==
  \A m \in ToSet(sent) :
    m.kind = "bgpsec" \/ (m.kind = "validated" /\ pc = "capi") =>
      /\ ~params.disable_bgpsec
      /\ \E l \in ToSet(Scripted) : l.id = m.id /\ ~BGP4Asked(l) /\ ~AsSet(l)

(* A configuration file that was generated can be used: it is read without *)
(* an error, says of the AS numbers and the peer what the run that made it *)
(* was told, can be played to a peer and has its five updates              *)
(* (generateFile, readConfig, checkBGPConfig).                             *)
GeneratedConfigUsable ==
  pc = "release" /\ retVal = 0 /\ ~HelpAsked(argv) /\ params.create # Nothing =>
    LET r == readConfig(initParams, files[params.create])
        conf == r.sessions[1].conf
        told(n) == First.conf[n] # initBGPSessionConfig[n]
    IN /\ ~r.error /\ r.count = 1
       /\ Playable(conf)
       /\ \A n \in {"asn", "peer_asn", "peer_ip"} : told(n) => conf[n] = First.conf[n]
       /\ Sound(r.sessions[1].updates) /\ r.sessions[1].updates.count = 5
=============================================================================
