---------------------------- MODULE ServiceTimer ----------------------------
(***************************************************************************)
(* timer.c as brio_rc uses it (rpkirtr_svr.c): one interval timer, set up  *)
(* and started with the service, fired by ITIMER_REAL and SIGALRM, and     *)
(* deleted when the program ends.  Times are seconds; the handler may run  *)
(* late, when the process was stopped or the clock was set meanwhile.      *)
(***************************************************************************)
EXTENDS Integers

CONSTANTS
  SERVICE_TIMER_INTERVAL,  \* seconds
  MaxLate                  \* bound: seconds a handler runs late

ASSUME Seconds ==
  /\ SERVICE_TIMER_INTERVAL \in Nat \ {0}
  /\ MaxLate \in Nat

VARIABLES
  phase,     \* the timer list: "new", "running", "released"
  ahead,     \* t->future - time(NULL)
  alarm,     \* seconds until ITIMER_REAL goes off, 0 while it is not set
  pending,   \* SIGALRM is raised and not yet handled
  crashed    \* the handler used the released list

timerVars == <<phase, ahead, alarm, pending, crashed>>

TimerInit ==
  phase = "new" /\ ahead = 0 /\ alarm = 0 /\ pending = FALSE /\ crashed = FALSE

(* setitimer: 0 seconds switch it off, a negative number is refused.       *)
setTimer(sec) == alarm' = IF sec >= 0 THEN sec ELSE alarm

(* With one active timer in the list it is the one that is selected.       *)
selectTimer == setTimer(ahead')

startIntervalTimer ==
  /\ ahead' = SERVICE_TIMER_INTERVAL
  /\ selectTimer

setupService ==
  /\ phase = "new"
  /\ phase' = "running"
  /\ startIntervalTimer
  /\ UNCHANGED <<pending, crashed>>

Tick ==
  /\ phase # "new"
  /\ ahead > -MaxLate
  /\ ahead' = ahead - 1
  /\ alarm' = IF alarm > 0 THEN alarm - 1 ELSE 0
  /\ pending' = (pending \/ alarm = 1)
  /\ UNCHANGED <<phase, crashed>>

(* Bug: the next time is not computed from the last.                       *)
FutureKept ==
  /\ phase = "running" /\ pending
  /\ pending' = FALSE
  /\ ahead' = ahead
  /\ selectTimer
  /\ UNCHANGED <<phase, crashed>>

(* The handler: the next time, then selectTimer sets the alarm for it,     *)
(* then the callback.                                                      *)
alarmSignal ==
  /\ phase = "running" /\ pending
  /\ pending' = FALSE
  /\ ahead' = ahead + SERVICE_TIMER_INTERVAL
  /\ selectTimer
  /\ UNCHANGED <<phase, crashed>>

(* clearAlarm leaves it_interval as it finds it on the stack: setitimer    *)
(* refuses a call whose interval is not a proper time.                     *)
clearAlarm == setTimer(0) \/ UNCHANGED alarm

deleteAllTimers ==
  /\ phase = "running"
  /\ clearAlarm
  /\ phase' = "released"
  /\ UNCHANGED <<ahead, pending, crashed>>

(* _activeId still names the timer; its memory is gone.                    *)
AlarmAfterRelease ==
  /\ phase = "released" /\ pending
  /\ pending' = FALSE
  /\ crashed' \in BOOLEAN
  /\ UNCHANGED <<phase, ahead, alarm>>

=============================================================================
