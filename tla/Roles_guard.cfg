SPECIFICATION Spec
CONSTANTS
  Procs = {p1, p2}
  NoProc = none
  MaxCommands = 1
INVARIANTS OneRole CommandsRunOnce
PROPERTY EndedStaysEnded
CHECK_DEADLOCK FALSE
