CONSTANTS
  PieceCount = 2
  BlocksIn <- MCBlocksIn
  MaxWrites = 2
SPECIFICATION Spec
INVARIANTS
  TypeOK
  FlushNeedsEveryBlock
PROPERTY CompletePieceReported
CHECK_DEADLOCK FALSE
