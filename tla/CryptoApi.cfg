\* A program stops at a fault, which a second use of a plug-in can cause.
SPECIFICATION ApiSpec
CONSTANTS
  k1 = k1  k2 = k2
  Apis = {a1, a2}
  KeyNames = {k1, k2}
  Configs <- MCConfigs
  SysFile = "sys"
  LocFile = "loc"
  Libraries <- MCLibraries
  Lists <- MCLists
  Vault <- MCVault
  LongPaths = {"long"}
  Nothing = Nothing
SYMMETRY Symmetry
INVARIANTS NothingLeftBehind ReadyApisWork KeysAsListed
CHECK_DEADLOCK FALSE
