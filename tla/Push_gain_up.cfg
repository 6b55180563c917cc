CONSTANTS
  EDGE_TOLERANCE = 1
  EDGE_BAND = 1
  ENTRY_INSET = 2
  PUSH_FRESH = 1
  BEACON_FRESH = 1
  PUSH_FALLBACK = 2
  GAIN_DEN = 2
  Gains = {2, 3}
  Configs <- RowOfThree
  Clients = {"a"}
  Sizes = {}
  Deltas <- SlowMoves
  HomeSpots <- RowSpots
  FarSpots <- RowSpots
  MAX_ID = 3
  MAX_REACH = 20
SPECIFICATION PushSpec
PROPERTY
  SustainedPushCrosses
