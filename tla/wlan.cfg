SPECIFICATION WlanFairSpec
CONSTANTS
  Addresses = {"dark", "name", "host"}
  Sockets = 3
  Attempts = 2
  Backlog = 1
  Ahead = 1
PROPERTIES ClosesOwn Reconnects WlanQuitEnds
