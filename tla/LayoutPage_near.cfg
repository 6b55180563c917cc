CONSTANTS
  EDGE_TOLERANCE = 1
  Start0 <- NearSizes
  Xs <- NoMove
  Ys <- NoMove
  RAY_LENGTH = 14
SPECIFICATION PageSpec
CHECK_DEADLOCK FALSE
INVARIANTS
  SnappingIsCosmetic
  SnappingSettles
