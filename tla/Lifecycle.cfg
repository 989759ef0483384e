CONSTANTS
  a1 = a1
  a2 = a2
  Addrs = {a1, a2}
  Seeds <- MCSeeds
  Inbound = {a2}
  AnnounceInterval = 1
  ErrorThreshold = 2
  Intervals <- MCIntervals
  Known = {a1}
  MinRequested = 1
  MaxConnected = 1
  MaxSessions = 2
  MaxTime = 2
  MaxAvailable = 1
  MayDropAlerts = TRUE
SPECIFICATION Spec
INVARIANTS
  TypeOK
  ShutdownLeavesNone
  EndedIsReported
PROPERTIES
  ConnectsWithinLimit
  AnnouncesSpaced
  ShutdownCompletes
CHECK_DEADLOCK FALSE
