CONSTANTS
  PieceCount = 1
  BlocksIn <- MCBlocksIn
  Sessions = {s1, s2}
  Bitfields <- MCSeeds
  StartLen = 2
  MaxLen = 2
  FaultKinds = {"timeout"}
  MaxFaults = 2
SPECIFICATION Spec
SYMMETRY Symmetry
INVARIANTS
  ReceivedOnlyOnce
CHECK_DEADLOCK FALSE
