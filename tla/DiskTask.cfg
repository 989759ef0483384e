CONSTANTS
  PieceCount = 2
  BlocksIn <- MCBlocksIn
  Sessions = {s1, s2}
  CacheSize = 1
  MaxWrites = 1
  MaxRequests = 2
SPECIFICATION Spec
INVARIANTS
  TypeOK
  AnnouncedIsServed
  DiskSurvives
PROPERTIES
  RequestAnswered
CHECK_DEADLOCK FALSE
