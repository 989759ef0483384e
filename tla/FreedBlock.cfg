CONSTANTS
  PieceCount = 1
  BlocksIn <- MCBlocksIn
  Sessions = {s1, s2}
  Bitfields <- MCSeeds
  StartLen = 2
  MaxLen = 2
  FaultKinds = {"leave"}
  MaxFaults = 1
SPECIFICATION FairSpec
PROPERTIES
  FreedBlockRequested
CHECK_DEADLOCK FALSE
