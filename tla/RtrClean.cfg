\* One router of version 2; every command, well-formed inputs, commands not
\* interleaved with clients or timer inside their lock gaps.
SPECIFICATION Spec
CONSTANTS
  c1 = c1  roa1 = roa1  roa2 = roa2  key1 = key1
  Routers = {c1}
  RouterVersion <- V2
  Roas = {roa1, roa2}
  RouterKeys = {key1}
  Customers = {"as1"}
  Providers = {"p1", "p2"}
  Batches <- WellFormed
  Commands <- AllCommands
  GapActors = {}
  ExpirationInterval = 1
  UINT32_MAX = 100
  MaxSerial = 3
  MaxEntries = 3
  MaxSession = 1
INVARIANTS
  TypeOK
  SerialsFollowList
  SyncedRoutersAgree
  NoUnknownWithdrawal
  BehindIsNotified
  OneAspaPerCustomer
PROPERTIES
  AnswersLackOnlyReplaced
