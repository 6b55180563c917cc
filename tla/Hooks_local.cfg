CONSTANTS
  Others = {"tab"}
  MaxStrokes = 2
  MaxMoves = 1
  MaxSwitches = 1
  Cap = 2
SPECIFICATION Spec
CHECK_DEADLOCK FALSE
INVARIANTS LocalKeysAreReleased ChordsAreHidden
PROPERTY EveryPressComesHome
