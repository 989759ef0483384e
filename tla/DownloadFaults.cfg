CONSTANTS
  PieceCount = 1
  BlocksIn <- MCBlocksIn
  Sessions = {s1, s2}
  Bitfields <- MCAnyBitfield
  StartLen = 2
  MaxLen = 2
  FaultKinds = {"choke", "timeout", "leave", "cut_short", "send_failure", "corrupt", "write_error"}
  MaxFaults = 2
SPECIFICATION Spec
SYMMETRY Symmetry
INVARIANTS
  TypeOK
  OwnedIsWritten
PROPERTIES
  PiecesLive
CHECK_DEADLOCK FALSE
