CONSTANTS
  Space = 8
  Cap = 2
  MaxConns = 2
  MaxSends = 2
  TornBetween = FALSE
SPECIFICATION Spec
PROPERTY BeaconsInOrder
CHECK_DEADLOCK FALSE
