CONSTANTS
  PieceCount = 2
  BlocksIn <- MCBlocksIn
  Sessions = {s1, s2}
  Bitfields <- MCSeeds
  StartLen = 2
  MaxLen = 2
  FaultKinds = {"choke", "timeout", "leave", "cut_short", "send_failure", "corrupt", "write_error"}
  MaxFaults = 1
SPECIFICATION Spec
SYMMETRY Symmetry
INVARIANTS
  PickedIsDownloading
  ReceivedIsKept
  RequestedIsHeld
  ExclusiveOutsideEndgame
  EndgameSound
PROPERTY QueueWithinTarget
CHECK_DEADLOCK FALSE
