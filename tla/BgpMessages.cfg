\* All sets of capabilities; paths at the limits of lengths and buffers.
SPECIFICATION Spec
CONSTANTS
  Lines <- MCLines
  FakeSki = "fake"
  FakeLen = 72
  SignBit = 1048576
  PCountMod = 256
  TwoBytes = 65536
  AsTrans = 23456
  Sessions <- MCSessions
  PeerOpens <- MCPeerOpens
  Others <- MCOthers
  Blocks = TRUE
  MaxTries = 2
INVARIANTS TypeOK OpenReadsBack UpdateReadsBack SentAsAgreed
CHECK_DEADLOCK FALSE
