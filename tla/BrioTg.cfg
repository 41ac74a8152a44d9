SPECIFICATION Spec
CONSTANTS
  CommandLines <- MCCommandLines
  ConfigFiles <- MCConfigFiles
  DataFiles = {"d1"}
  Interfaces <- MCInterfaces
  StdinLines <- MCStdinLines
  PeerCaps = {{"v4"}, {"v4", "v6"}}
  MaxStarts = 2
  MaxLosses = 1
INVARIANTS UpdatesAsScripted NoBgpsecWhenOff GeneratedConfigUsable
CHECK_DEADLOCK FALSE
