CONSTANTS
  EDGE_TOLERANCE = 1
  Start0 <- ThreeScreens
  Xs <- Columns
  Ys <- Rows
  RAY_LENGTH = 14
SPECIFICATION PageSpec
INVARIANTS
  RayFindsFirstScreen
  CrossingsReturn
  SnappingKeepsApart
  NormalizedIsFixedPoint
