\* Three connections for two descriptors; threads that cannot be created.
\* The properties are about the time before a descriptor was handed out too
\* early, and that stays so: what comes after it is not explored.
\* When the descriptors are used up and the peers have gone nothing happens.
SPECIFICATION Spec
CONSTANTS
  c1 = c1  c2 = c2  c3 = c3
  Conns = {c1, c2, c3}
  Fds = {4, 5}
  Versions <- OneImproper
  ThreadFails = TRUE
  NULL = NULL
INVARIANTS
  ServedFromOwnEntry
  ProperPeersServed
  NotifyReachesAll
  EndedClientsForgotten
CONSTRAINT NotEarly
SYMMETRY ProperOnes
CHECK_DEADLOCK FALSE
