\* One router under fairness; clients and timer in the lock gaps, files that
\* break off.  The server may crash (RemoveCrash), so it may stop.
SPECIFICATION FairSpec
CONSTANTS
  c1 = c1  roa1 = roa1  roa2 = roa2  key1 = key1
  Routers = {c1}
  RouterVersion <- V2
  Roas = {roa1}
  RouterKeys = {}
  Customers = {"as1"}
  Providers = {"p1"}
  Batches <- WithBroken
  Commands <- Updates
  GapActors = {"client", "timer"}
  ExpirationInterval = 1
  UINT32_MAX = 100
  MaxSerial = 2
  MaxEntries = 2
  MaxSession = 1
PROPERTIES
  CatchesUp
CHECK_DEADLOCK FALSE
