SPECIFICATION Spec
CONSTANTS
  Procs = {p1, p2}
  NoProc = none
  MaxCommands = 0
PROPERTY EndedAlwaysStaysEnded
CHECK_DEADLOCK FALSE
