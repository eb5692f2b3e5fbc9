SPECIFICATION MCSpec
CONSTANTS
  Longest = 10
  Hosts = 2
  Words <- MCStrings
  Followed = {"wlanIPIndex"}
  Pads <- MCPads
  Typed <- MCTyped
  Repeat = 1
  Fast = 0
  Kernel = TRUE
  System = "cross"
INVARIANTS TypeOK AddressSignalled
PROPERTIES OneLevelPerPress SettingsKept
CHECK_DEADLOCK TRUE
