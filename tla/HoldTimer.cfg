\* Hold times around the smallest one, one that divides by 3 and one that does
\* not, and one for which the sleep meets its limit.
SPECIFICATION HoldSpec
CONSTANTS
  HoldTimes = {3, 5, 9, 61}
  FSM_MAX_SLEEP_TIME = 30
INVARIANTS
  KeepAliveInTime
  DeadPeerNoticed
CHECK_DEADLOCK FALSE
