CONSTANTS
  Space = 8
  Cap = 2
  MaxConns = 2
  MaxSends = 2
  TornBetween = TRUE
SPECIFICATION Spec
PROPERTY FreshBeaconsPass
CHECK_DEADLOCK FALSE
