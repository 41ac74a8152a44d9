\* Console and one client, signals that hit any thread anywhere, handlers that
\* are less than an interval late.  A handler may crash at the end of the
\* program, and threads may wait for ever.
SPECIFICATION FairLockSpec
CONSTANTS
  SERVICE_TIMER_INTERVAL = 3
  MaxLate = 2
  Clients = {"c1"}
  MaxUnlocks = 1
INVARIANTS
  WriterIsAlone
  SomeoneLetsGo
PROPERTIES
  ServiceRuns
CHECK_DEADLOCK FALSE
