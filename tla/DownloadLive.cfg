CONSTANTS
  PieceCount = 2
  BlocksIn <- MCBlocksIn
  Sessions = {s1, s2}
  Bitfields <- MCSeeds
  StartLen = 1
  MaxLen = 1
  FaultKinds = {"choke", "timeout"}
  MaxFaults = 1
SPECIFICATION FairSpec
PROPERTIES
  DownloadCompletes
CHECK_DEADLOCK FALSE
