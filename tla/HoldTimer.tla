------------------------------ MODULE HoldTimer ------------------------------
(***************************************************************************)
(* The timing of an established BGP session of brio_tg                     *)
(* (fsmRunHoldTimeLoop): when a KEEPALIVE is sent, how long the loop       *)
(* sleeps, and when a silent peer is given up - while the traffic thread   *)
(* sends updates and the receiver thread hears from the peer.              *)
(*                                                                         *)
(* Time is in seconds, as time() gives it.  The program's time stamps      *)
(* appear as their ages, now - lastSent and now - lastReceived.  The       *)
(* socket takes what is written to it at once; BgpSession has the sends    *)
(* that fail.                                                              *)
(***************************************************************************)
EXTENDS Integers

CONSTANTS
  HoldTimes,          \* the hold times that may be negotiated
  FSM_MAX_SLEEP_TIME  \* longest sleep of the loop

ASSUME Times ==
  /\ HoldTimes \subseteq Nat \ 0..2   \* below 3 the loop is not entered
  /\ FSM_MAX_SLEEP_TIME \in Nat \ {0}

VARIABLES
  negotiated,      \* bgpConf->holdTime, the smaller one of the two peers'
  sinceSent,     \* now - *lastSent
  sinceReceived, \* now - *lastReceived
  sleep,         \* seconds until the loop wakes up
  running        \* the loop runs

holdVars == <<negotiated, sinceSent, sinceReceived, sleep, running>>

HoldTypeOK ==
  /\ negotiated \in HoldTimes
  /\ sinceSent \in Nat
  /\ sinceReceived \in Nat
  /\ sleep \in 0..FSM_MAX_SLEEP_TIME
  /\ running \in BOOLEAN

(* The peer's OPEN has been read and the first KEEPALIVE sent.             *)
HoldInit ==
  /\ negotiated \in HoldTimes
  /\ sinceSent = 0 /\ sinceReceived = 0 /\ sleep = 0
  /\ running = TRUE

-----------------------------------------------------------------------------
Interval == negotiated \div 3

(* Bug: the sleep is not limited.                                          *)
SleepUnlimited(age) == age + Interval

(* secToSleep.  It grows with the age of what was last sent - it does not  *)
(* shrink.                                                                 *)
SleepFor(age) ==
  IF age + Interval < FSM_MAX_SLEEP_TIME THEN age + Interval ELSE FSM_MAX_SLEEP_TIME

PeerSeemsDead ==
  /\ running /\ sleep = 0
  /\ sinceReceived > negotiated
  /\ running' = FALSE
  /\ UNCHANGED <<negotiated, sinceSent, sinceReceived, sleep>>

(* Bug: the KEEPALIVE waits for two intervals.                             *)
LoopPassLate ==
  /\ running /\ sleep = 0
  /\ sinceReceived <= negotiated
  /\ sinceSent' = IF sinceSent > 2 * Interval THEN 0 ELSE sinceSent
  /\ sleep' = SleepFor(sinceSent')
  /\ UNCHANGED <<negotiated, sinceReceived, running>>

(* One pass of the loop: a KEEPALIVE if it is time, and back to sleep.     *)
LoopPass ==
  /\ running /\ sleep = 0
  /\ sinceReceived <= negotiated
  /\ sinceSent' = IF Interval <= sinceSent THEN 0 ELSE sinceSent
  /\ sleep' = SleepFor(sinceSent')
  /\ UNCHANGED <<negotiated, sinceReceived, running>>

Second ==
  /\ running /\ sleep > 0
  /\ sleep' = sleep - 1
  /\ sinceSent' = sinceSent + 1
  /\ sinceReceived' = sinceReceived + 1
  /\ UNCHANGED <<negotiated, running>>

(* sendUpdate of the traffic thread.                                       *)
SendUpdate ==
  /\ running
  /\ sinceSent' = 0
  /\ UNCHANGED <<negotiated, sinceReceived, sleep, running>>

(* The receiver thread reads a KEEPALIVE or an UPDATE.                     *)
Receive ==
  /\ running
  /\ sinceReceived' = 0
  /\ UNCHANGED <<negotiated, sinceSent, sleep, running>>

HoldNext == PeerSeemsDead \/ LoopPass \/ Second \/ SendUpdate \/ Receive

HoldSpec == HoldInit /\ [][HoldNext]_holdVars

-----------------------------------------------------------------------------
(* The peer hears from this end within the negotiated hold time, however   *)
(* the updates fall between the loop's passes, although the sleep is       *)
(* computed the wrong way round.                                           *)
KeepAliveInTime == running => sinceSent < negotiated

(* A silent peer is given up at most one sleep after its hold time.        *)
DeadPeerNoticed == running => sinceReceived <= negotiated + FSM_MAX_SLEEP_TIME
=============================================================================
