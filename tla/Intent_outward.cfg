CONSTANTS
  EDGE_TOLERANCE = 1
  EDGE_BAND = 1
  ENTRY_INSET = 2
  PUSH_FRESH = 1
  BEACON_FRESH = 2
  PUSH_FALLBACK = 3
  GAIN_DEN = 1
  Gains = {}
  Configs <- RowOfThree
  Clients = {"a"}
  Sizes = {}
  Deltas <- RowMoves
  HomeSpots <- RowSpots
  FarSpots <- RowSpots
  MAX_ID = 3
  MAX_REACH = 20
SPECIFICATION IntentSpec
PROPERTY
  CrossesOnlyOutward
