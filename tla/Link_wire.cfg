CONSTANTS
  Space = 8
  Cap = 2
  MaxConns = 2
  MaxSends = 4
  TornBetween = FALSE
SPECIFICATION Spec
INVARIANT CursorFollowsNewest
PROPERTIES
  FramesInOrder
  FreshBeaconsPass
CHECK_DEADLOCK FALSE
