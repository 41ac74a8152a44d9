----------------------------- MODULE BgpSession -----------------------------
(***************************************************************************)
(* One BGP session of brio_tg and the three threads that share it without  *)
(* a lock: the session thread (runBGP: the state machine, then the hold    *)
(* time loop), its receiver thread (_rcvBGP) and the thread that sends the *)
(* updates and asks for the end (_runBGPRouterSession).  The peer accepts, *)
(* refuses, sends what it likes, closes or resets the connection.          *)
(*                                                                         *)
(* When the hold time expires is left open here; HoldTimer has the times.  *)
(* Sending the same message again after a time-out of the socket is part   *)
(* of the send.                                                            *)
(***************************************************************************)
EXTENDS Integers

CONSTANTS
  FSM_MAX_RETRY,
  HOLD,        \* the configured hold time
  PeerHolds,   \* hold times the peer's OPEN may carry
  DISCONNECT,  \* disconnectTime; 0: this end never stops by itself
  Kinds,       \* what the peer may send, see Messages
  Blocks,      \* the socket may stay full for all attempts of a send
  MaxUpdates   \* bound: updates to be sent

(* open: acceptable; badOpen: refused with a NOTIFICATION; openNoMp: a     *)
(* BGPsec capability without the multi-protocol one; keepalive: KEEPALIVE  *)
(* or UPDATE; badHeader: wrong marker, type or length; truncated: a header,*)
(* and then the end of the stream.                                         *)
Messages == {"open", "badOpen", "openNoMp", "keepalive", "notification", "badHeader", "truncated"}

ASSUME SessionInputs ==
  /\ FSM_MAX_RETRY \in Nat \ {0}
  /\ HOLD \in Nat /\ PeerHolds \subseteq Nat
  /\ DISCONNECT \in Nat /\ MaxUpdates \in Nat
  /\ Kinds \subseteq Messages
  /\ Blocks \in BOOLEAN

VARIABLES
  state,     \* fsm.state
  retry,     \* fsm.connectRetryCounter
  run,       \* session->run
  tcp,       \* session->tcpConnected
  conn,      \* the connection behind sessionFD; "none": sessionFD is -1
  inbox,     \* the message that waits in the socket, or "none"
  holdTime,  \* bgpConf->holdTime
  opened,    \* the peer's OPEN as it was judged: "none", "good", "refused"
  sem,       \* sessHoldTimerSem: "null", "alive", "freed"
  recent,    \* less than disconnectTime has passed since lastSentUpdate
  updates,   \* updates taken off the stack
  stopTime,  \* of the traffic thread
  bgp, rcv, traffic, \* where the three threads are
  killed     \* by a SIGPIPE or by the use of freed memory

peerVars == <<conn, inbox>>
fsmVars == <<state, retry, tcp, holdTime, opened>>
threadVars == <<bgp, rcv, traffic>>
trafficVars == <<recent, updates, stopTime>>
vars == <<peerVars, fsmVars, threadVars, trafficVars, run, sem, killed>>

States == {"IDLE", "CONNECT", "ACTIVE", "OpenSent", "OpenConfirm", "ESTABLISHED"}

TypeOK ==
  /\ state \in States
  /\ retry \in 0..FSM_MAX_RETRY
  /\ run \in BOOLEAN /\ tcp \in BOOLEAN /\ recent \in BOOLEAN /\ killed \in BOOLEAN
  /\ conn \in {"none", "up", "closed", "reset", "broken"}
  /\ inbox \in Kinds \cup {"none"}
  /\ holdTime \in PeerHolds \cup {HOLD}
  /\ opened \in {"none", "good", "refused"}
  /\ sem \in {"null", "alive", "freed"}
  /\ updates \in 0..MaxUpdates
  /\ stopTime \in -1..DISCONNECT
  /\ bgp \in {"fsm", "open", "keepalive", "cease", "receiver", "sem", "hold", "end", "free",
              "join", "done"}
  /\ rcv \in {"none", "loop", "post", "done"}
  /\ traffic \in {"poll", "send", "write", "count", "join", "done"}

Init ==
  /\ state = "IDLE" /\ retry = 0 /\ run = TRUE
  /\ tcp = FALSE /\ conn = "none" /\ inbox = "none"
  /\ holdTime = HOLD /\ opened = "none" /\ sem = "null"
  /\ recent = FALSE /\ updates = 0 /\ stopTime = DISCONNECT
  /\ bgp = "fsm" /\ rcv = "none" /\ traffic = "poll"
  /\ killed = FALSE

-----------------------------------------------------------------------------
nextStates == [
  IDLE        |-> {"IDLE", "CONNECT"},
  CONNECT     |-> {"IDLE", "CONNECT", "ACTIVE", "OpenSent"},
  ACTIVE      |-> {"IDLE", "CONNECT", "ACTIVE", "OpenSent"},
  OpenSent    |-> {"IDLE", "ACTIVE", "OpenConfirm"},
  OpenConfirm |-> {"IDLE", "OpenSent", "OpenConfirm", "ESTABLISHED"},
  ESTABLISHED |-> {"IDLE", "ESTABLISHED"}]

(* The state that fsmSwitchState(s) leaves when the state was from.        *)
Switched(from, s) == IF s \in nextStates[from] THEN s ELSE from

(* What becomes of a send, and of the connection.  poll() does not mind a  *)
(* descriptor of -1, it times out; and as _isSocketAlive returns its       *)
(* result through a bool an error counts as "alive", so the send goes on   *)
(* to write().                                                             *)
Sends == [
  none   |-> {<<"unsent", "none">>},
  up     |-> {<<"sent", "up">>} \cup IF Blocks THEN {<<"unsent", "up">>} ELSE {},
  closed |-> {<<"sent", "closed">>, <<"sent", "broken">>},
  reset  |-> {<<"unsent", "broken">>},
  broken |-> {<<"killed", "broken">>}][conn]

(* sendNotification in state from: IDLE only when the message went out.    *)
NotifyIn(from) == \E s \in Sends :
  /\ conn' = s[2]
  /\ state' = IF s[1] = "sent" THEN Switched(from, "IDLE") ELSE from
  /\ killed' = (s[1] = "killed")

Notify == NotifyIn(state)

Closed == tcp' = FALSE /\ conn' = "none" /\ inbox' = "none"

-----------------------------------------------------------------------------
(* The session thread: fsmEstablishBGP.                                    *)

(* Bug: one attempt too many.                                              *)
LoopingTooLong == state # "ESTABLISHED" /\ run /\ retry <= FSM_MAX_RETRY

Looping == state # "ESTABLISHED" /\ run /\ retry < FSM_MAX_RETRY

FsmIdle ==
  /\ bgp = "fsm" /\ Looping /\ state = "IDLE"
  /\ retry' = 0
  /\ state' = Switched(state, "CONNECT")
  /\ UNCHANGED <<peerVars, threadVars, trafficVars, tcp, holdTime, opened, run, sem, killed>>

(* establishTCPSession fails when the peer does not accept - and after a   *)
(* refused OPEN, as the connection was left open.                          *)
FsmConnect ==
  /\ bgp = "fsm" /\ Looping /\ state = "CONNECT"
  /\ opened' = "none"
  /\ inbox' = "none"
  /\ \/ /\ ~tcp
        /\ tcp' = TRUE /\ conn' = "up"
        /\ state' = Switched(state, "OpenSent")
        /\ UNCHANGED retry
     \/ /\ retry' = retry + 1
        /\ tcp' = FALSE /\ conn' = "none"
        /\ state' = Switched(state, "ACTIVE")
  /\ UNCHANGED <<threadVars, trafficVars, holdTime, run, sem, killed>>

FsmActive ==
  /\ bgp = "fsm" /\ Looping /\ state = "ACTIVE"
  /\ state' = Switched(state, "CONNECT")
  /\ UNCHANGED <<peerVars, threadVars, trafficVars, retry, tcp, holdTime, opened, run, sem, killed>>

FsmOpenSent ==
  /\ bgp = "fsm" /\ Looping /\ state = "OpenSent"
  /\ \E s \in Sends :
       /\ conn' = s[2]
       /\ killed' = (s[1] = "killed")
       /\ bgp' = IF s[1] = "sent" THEN "open" ELSE bgp
       /\ retry' = IF s[1] = "unsent" THEN FSM_MAX_RETRY ELSE retry
  /\ UNCHANGED <<trafficVars, inbox, state, tcp, holdTime, opened, rcv, traffic, run, sem>>

(* Nothing came for SESS_TIMEOUT_RCV_OPEN seconds.                         *)
OpenTimeout ==
  /\ bgp = "open" /\ inbox = "none"
  /\ bgp' = "fsm" /\ retry' = FSM_MAX_RETRY
  /\ UNCHANGED <<peerVars, trafficVars, state, tcp, holdTime, opened, rcv, traffic, run, sem, killed>>

Read == inbox' = "none" /\ bgp' = "fsm"

(* processOpenMessage with an OPEN it refuses.                             *)
ReadBadOpen ==
  /\ bgp = "open" /\ inbox = "badOpen"
  /\ Read /\ Notify
  /\ opened' = "refused"
  /\ holdTime' \in {holdTime} \cup {h \in PeerHolds : h < holdTime}
  /\ UNCHANGED <<trafficVars, retry, tcp, rcv, traffic, run, sem>>

(* Bug: the missing capability is not held against the peer.               *)
ReadOpenLenient ==
  /\ bgp = "open" /\ inbox \in {"open", "openNoMp"}
  /\ Read
  /\ \E h \in PeerHolds : holdTime' = IF h < holdTime THEN h ELSE holdTime
  /\ opened' = IF inbox = "open" THEN "good" ELSE "refused"
  /\ state' = Switched(state, "OpenConfirm")
  /\ UNCHANGED <<conn, killed, trafficVars, retry, tcp, rcv, traffic, run, sem>>

(* processOpenMessage with an OPEN of the right AS.  The state machine     *)
(* moves on before the missing capability is refused.                      *)
ReadOpen ==
  /\ bgp = "open" /\ inbox \in {"open", "openNoMp"}
  /\ Read
  /\ \E h \in PeerHolds : holdTime' = IF h < holdTime THEN h ELSE holdTime
  /\ \/ /\ inbox = "open"
        /\ opened' = "good"
        /\ state' = Switched(state, "OpenConfirm")
        /\ UNCHANGED <<conn, killed>>
     \/ /\ inbox = "openNoMp"
        /\ opened' = "refused"
        /\ NotifyIn(Switched(state, "OpenConfirm"))
  /\ UNCHANGED <<trafficVars, retry, tcp, rcv, traffic, run, sem>>

(* The peer refused the connection.                                        *)
ReadNotification ==
  /\ bgp = "open" /\ inbox = "notification"
  /\ Read
  /\ state' = Switched(state, "IDLE")
  /\ run' = FALSE
  /\ UNCHANGED <<trafficVars, conn, retry, tcp, holdTime, opened, rcv, traffic, sem, killed>>

(* Not an OPEN: the loop sends its OPEN again.                             *)
ReadOther ==
  /\ bgp = "open" /\ inbox = "keepalive"
  /\ Read
  /\ UNCHANGED <<fsmVars, trafficVars, conn, rcv, traffic, run, sem, killed>>

(* readNextBGPMessage gives up.                                            *)
ReadFails ==
  /\ bgp = "open" /\ inbox \in {"badHeader", "truncated"}
  /\ bgp' = "fsm" /\ retry' = FSM_MAX_RETRY
  /\ \/ inbox = "badHeader" /\ inbox' = "none" /\ Notify /\ UNCHANGED tcp
     \/ inbox = "truncated" /\ Closed /\ UNCHANGED <<state, killed>>
  /\ UNCHANGED <<trafficVars, holdTime, opened, rcv, traffic, run, sem>>

(* ESTABLISHED comes first, the KEEPALIVE after it.                        *)
FsmOpenConfirm ==
  /\ bgp = "fsm" /\ Looping /\ state = "OpenConfirm"
  /\ state' = Switched(state, "ESTABLISHED")
  /\ bgp' = "keepalive"
  /\ UNCHANGED <<peerVars, trafficVars, retry, tcp, holdTime, opened, rcv, traffic, run, sem, killed>>

FirstKeepAlive ==
  /\ bgp = "keepalive"
  /\ \E s \in Sends :
       /\ conn' = s[2]
       /\ killed' = (s[1] = "killed")
       /\ bgp' = IF s[1] = "unsent" THEN "cease" ELSE "fsm"
  /\ UNCHANGED <<fsmVars, trafficVars, inbox, rcv, traffic, run, sem>>

FirstKeepAliveFailed ==
  /\ bgp = "cease"
  /\ Notify
  /\ bgp' = "fsm"
  /\ UNCHANGED <<trafficVars, inbox, retry, tcp, holdTime, opened, rcv, traffic, run, sem>>

NotEstablished ==
  /\ bgp = "fsm" /\ ~Looping /\ state # "ESTABLISHED"
  /\ Closed
  /\ run' = FALSE /\ bgp' = "done"
  /\ UNCHANGED <<trafficVars, state, retry, holdTime, opened, rcv, traffic, sem, killed>>

-----------------------------------------------------------------------------
(* The session thread: runBGP and fsmRunHoldTimeLoop.                      *)
StartReceiver ==
  /\ bgp = "fsm" /\ state = "ESTABLISHED"
  /\ rcv' = "loop" /\ bgp' = "sem"
  /\ UNCHANGED <<peerVars, fsmVars, trafficVars, traffic, run, sem, killed>>

SemInit ==
  /\ bgp = "sem"
  /\ sem' = "alive" /\ bgp' = "hold"
  /\ UNCHANGED <<peerVars, fsmVars, trafficVars, rcv, traffic, run, killed>>

(* Bug: the loop only minds the state machine.                             *)
HoldingOnState == holdTime >= 3 /\ state = "ESTABLISHED"

Holding == holdTime >= 3 /\ run /\ state = "ESTABLISHED"

HoldKeepAlive ==
  /\ bgp = "hold" /\ Holding
  /\ \E s \in Sends : conn' = s[2] /\ killed' = (s[1] = "killed")
  /\ UNCHANGED <<fsmVars, threadVars, trafficVars, inbox, run, sem>>

HoldExpires ==
  /\ bgp = "hold" /\ Holding
  /\ Notify
  /\ bgp' = "end"
  /\ UNCHANGED <<trafficVars, inbox, retry, tcp, holdTime, opened, rcv, traffic, run, sem>>

HoldEnds ==
  /\ bgp = "hold" /\ ~Holding
  /\ bgp' = "end"
  /\ UNCHANGED <<peerVars, fsmVars, trafficVars, rcv, traffic, run, sem, killed>>

(* The loop behind the hold time loop does not look at run; and it         *)
(* disconnects while the last update is recent, not when it is long ago.   *)
Cease ==
  /\ bgp = "end" /\ state = "ESTABLISHED"
  /\ holdTime > 0 \/ (DISCONNECT > 0 /\ recent)
  /\ Notify
  /\ UNCHANGED <<threadVars, trafficVars, inbox, retry, tcp, holdTime, opened, run, sem>>

EndLoopEnds ==
  /\ bgp = "end" /\ state # "ESTABLISHED"
  /\ bgp' = "free"
  /\ UNCHANGED <<peerVars, fsmVars, trafficVars, rcv, traffic, run, sem, killed>>

FreeSem ==
  /\ bgp = "free"
  /\ sem' = "freed" /\ bgp' = "join"
  /\ UNCHANGED <<peerVars, fsmVars, trafficVars, rcv, traffic, run, killed>>

(* Bug: run is only cleared when no session was established.               *)
JoinReceiverOnly ==
  /\ bgp = "join" /\ rcv = "done"
  /\ Closed
  /\ bgp' = "done"
  /\ UNCHANGED <<trafficVars, state, retry, holdTime, opened, rcv, traffic, run, sem, killed>>

(* The state is IDLE here, no further NOTIFICATION is sent.                *)
JoinReceiver ==
  /\ bgp = "join" /\ rcv = "done"
  /\ Closed
  /\ run' = FALSE /\ bgp' = "done"
  /\ UNCHANGED <<trafficVars, state, retry, holdTime, opened, rcv, traffic, sem, killed>>

-----------------------------------------------------------------------------
(* The receiver thread.                                                    *)
RcvEnds ==
  /\ rcv = "loop" /\ state # "ESTABLISHED"
  /\ rcv' = "done"
  /\ UNCHANGED <<peerVars, fsmVars, trafficVars, bgp, traffic, run, sem, killed>>

RcvMessage ==
  /\ rcv = "loop" /\ state = "ESTABLISHED"
  /\ \/ /\ inbox = "keepalive"
        /\ inbox' = "none"
        /\ UNCHANGED <<conn, state, tcp, rcv, killed>>
     \/ /\ inbox \in {"open", "badOpen", "openNoMp", "badHeader"}
        /\ inbox' = "none" /\ Notify
        /\ UNCHANGED <<tcp, rcv>>
     \/ /\ inbox = "notification"
        /\ inbox' = "none" /\ state' = "IDLE"
        /\ rcv' = IF sem = "alive" THEN "post" ELSE rcv
        /\ UNCHANGED <<conn, tcp, killed>>
     \/ /\ inbox = "truncated"   \* "Move to IDLE!" - the state stays
        /\ Closed
        /\ UNCHANGED <<state, rcv, killed>>
  /\ UNCHANGED <<trafficVars, retry, holdTime, opened, bgp, traffic, run, sem>>

(* sem_post, on a semaphore that may be freed by now.                      *)
RcvPost ==
  /\ rcv = "post"
  /\ rcv' = "loop"
  /\ killed' \in IF sem = "freed" THEN BOOLEAN ELSE {FALSE}
  /\ UNCHANGED <<peerVars, fsmVars, trafficVars, bgp, traffic, run, sem>>

-----------------------------------------------------------------------------
(* The traffic thread.                                                     *)
TrafficPoll ==
  /\ traffic = "poll"
  /\ \/ ~run /\ traffic' = "join"
     \/ run /\ state = "ESTABLISHED" /\ traffic' = "send"
  /\ UNCHANGED <<peerVars, fsmVars, trafficVars, bgp, rcv, run, sem, killed>>

(* An update is taken off the stack; sendUpdate looks at the state and     *)
(* then writes.                                                            *)
TrafficSend ==
  /\ traffic = "send"
  /\ \/ /\ state = "ESTABLISHED" /\ updates < MaxUpdates
        /\ updates' = updates + 1 /\ traffic' = "write"
     \/ /\ state # "ESTABLISHED" \/ updates = MaxUpdates
        /\ traffic' = "count" /\ UNCHANGED updates
  /\ UNCHANGED <<peerVars, fsmVars, recent, stopTime, bgp, rcv, run, sem, killed>>

TrafficWrite ==
  /\ traffic = "write"
  /\ \E s \in Sends :
       /\ conn' = s[2]
       /\ killed' = (s[1] = "killed")
       /\ recent' = (recent \/ s[1] = "sent")
  /\ traffic' = "send"
  /\ UNCHANGED <<fsmVars, inbox, updates, stopTime, bgp, rcv, run, sem>>

TrafficCount ==
  /\ traffic = "count"
  /\ stopTime' = IF DISCONNECT = 0 THEN stopTime ELSE stopTime - 1
  /\ run' = (run /\ ~(DISCONNECT # 0 /\ stopTime = 0))
  /\ traffic' = "poll"
  /\ UNCHANGED <<peerVars, fsmVars, recent, updates, bgp, rcv, sem, killed>>

TrafficJoin ==
  /\ traffic = "join" /\ bgp = "done"
  /\ traffic' = "done"
  /\ UNCHANGED <<peerVars, fsmVars, trafficVars, bgp, rcv, run, sem, killed>>

-----------------------------------------------------------------------------
(* The peer and the clock.                                                 *)
PeerSends(m) ==
  /\ conn = "up" /\ inbox = "none"
  /\ inbox' = m
  /\ conn' = IF m = "truncated" THEN "closed" ELSE conn
  /\ UNCHANGED <<fsmVars, threadVars, trafficVars, run, sem, killed>>

PeerLeaves ==
  /\ conn = "up"
  /\ conn' \in {"closed", "reset"}
  /\ UNCHANGED <<inbox, fsmVars, threadVars, trafficVars, run, sem, killed>>

TimePasses ==
  /\ recent /\ recent' = FALSE
  /\ UNCHANGED <<peerVars, fsmVars, threadVars, updates, stopTime, run, sem, killed>>

-----------------------------------------------------------------------------
Establishing ==
  \/ FsmIdle \/ FsmConnect \/ FsmActive \/ FsmOpenSent \/ OpenTimeout
  \/ ReadBadOpen \/ ReadOpen \/ ReadNotification \/ ReadOther \/ ReadFails
  \/ FsmOpenConfirm \/ FirstKeepAlive \/ FirstKeepAliveFailed \/ NotEstablished

Managing ==
  \/ StartReceiver \/ SemInit \/ HoldKeepAlive \/ HoldEnds \/ Cease \/ EndLoopEnds
  \/ FreeSem \/ JoinReceiver

SessionThread  == ~killed /\ (Establishing \/ Managing)
ReceiverThread == ~killed /\ (RcvEnds \/ RcvMessage \/ RcvPost)
TrafficThread  == ~killed /\ (TrafficPoll \/ TrafficSend \/ TrafficWrite \/ TrafficCount \/ TrafficJoin)
Environment    == ~killed /\ ((\E m \in Kinds : PeerSends(m)) \/ PeerLeaves \/ TimePasses)

Next ==
  \/ SessionThread \/ ReceiverThread \/ TrafficThread \/ Environment
  \/ ~killed /\ HoldExpires

Spec == Init /\ [][Next]_vars

(* Each thread gets its turns, sleeps and time-outs end.  Nothing is       *)
(* expected of the peer, nor that the hold time expires.                   *)
FairSpec ==
  Spec /\ WF_vars(SessionThread) /\ WF_vars(ReceiverThread) /\ WF_vars(TrafficThread)

-----------------------------------------------------------------------------
(* A peer that is still there and whose OPEN was refused, or that sent     *)
(* none, gets no session - although processOpenMessage moves the state     *)
(* machine forward before it looks at the capabilities.                    *)
EstablishedAfterOpen == state = "ESTABLISHED" /\ conn = "up" => opened = "good"

AllEnded == bgp = "done" /\ rcv \in {"none", "done"} /\ traffic = "done"

(* "once run is false all threads will stop their loop"                    *)
StopEnds == ~run ~> (AllEnded \/ killed)

(* What there is to it: with a hold time and a socket, they do.            *)
StopEndsWithSocket == ~run /\ holdTime > 0 ~> (AllEnded \/ killed \/ conn = "none")

(* When an established session is lost, whoever ended it, the three        *)
(* threads come to their ends: none waits for another one for ever.        *)
LostSessionEnds == rcv # "none" /\ state = "IDLE" ~> (AllEnded \/ killed)
=============================================================================
