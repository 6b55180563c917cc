CONSTANTS
  EDGE_TOLERANCE = 1
  EDGE_BAND = 1
  ENTRY_INSET = 2
  PUSH_FRESH = 1
  BEACON_FRESH = 2
  PUSH_FALLBACK = 2
  GAIN_DEN = 1
  Gains = {}
  Configs <- Corner
  Clients = {"a"}
  Sizes = {}
  Deltas <- CornerMoves
  HomeSpots <- CornerSpots
  FarSpots <- CornerSpots
  MAX_ID = 3
  MAX_REACH = 14
SPECIFICATION IntentSpec
PROPERTIES
  MotionCrossesOnIntent
  BeaconCrossesOnIntent
  ParkCompletes
