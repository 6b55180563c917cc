CONSTANTS
  EDGE_TOLERANCE = 1
  EDGE_BAND = 1
  ENTRY_INSET = 2
  PUSH_FRESH = 1
  BEACON_FRESH = 1
  PUSH_FALLBACK = 1
  GAIN_DEN = 1
  Gains = {1}
  Configs <- RowConfigs
  Clients = {"a", "b"}
  Sizes <- RowSizes
  Deltas <- Sweeps
  HomeSpots <- Ends
  FarSpots <- Ends
  MAX_ID = 3
  MAX_REACH = 15
SPECIFICATION Spec
INVARIANTS
  RemoteIsReachable
  HomeCursorOnScreen
PROPERTIES
  LatchesStartAfresh
  WorldIsTold
  ImplementsSwitching
