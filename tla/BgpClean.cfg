SPECIFICATION FairSpec
CONSTANTS
  FSM_MAX_RETRY = 2
  HOLD = 180
  PeerHolds = {0, 2, 180}
  DISCONNECT = 1
  Kinds = {"open", "badOpen", "openNoMp", "keepalive", "notification", "badHeader", "truncated"}
  Blocks = FALSE
  MaxUpdates = 1
INVARIANTS TypeOK EstablishedAfterOpen
PROPERTIES StopEndsWithSocket LostSessionEnds
CHECK_DEADLOCK FALSE
