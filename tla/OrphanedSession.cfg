CONSTANTS
  a1 = a1
  a2 = a2
  Addrs = {a1, a2}
  Seeds <- MCSeeds
  Inbound = {}
  AnnounceInterval = 2
  ErrorThreshold = 2
  Intervals <- MCIntervals
  Known = {a1}
  MinRequested = 1
  MaxConnected = 2
  MaxSessions = 2
  MaxTime = 3
  MaxAvailable = 2
  MayDropAlerts = FALSE
SPECIFICATION Spec
INVARIANT ShutdownEndsSessions
CHECK_DEADLOCK FALSE
