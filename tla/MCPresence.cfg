SPECIFICATION FairSpec
CONSTANTS
  Sessions = {s1}
  Channels = {c, d}
  Timeout = 1
  MaxSubs = 2
INVARIANTS
  DepartsAtMostOnce
  RegisteredIsConnected
  NoGhostAfterCleanExit
PROPERTIES
  SilentSessionsEnd
