CONSTANTS
  PieceCount = 3
  MaxSessions = 2
SPECIFICATION Spec
INVARIANTS
  TypeOK
  CountsExact
PROPERTY PickedOnce
CHECK_DEADLOCK FALSE
