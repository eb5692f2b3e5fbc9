SPECIFICATION PowerFairSpec
CONSTANTS
  Limit = 6
  Timeouts = {2, 5}
INVARIANTS DarkRemembered
PROPERTIES KeyWakes IdleSaves
