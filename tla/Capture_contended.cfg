SPECIFICATION Spec
CONSTANTS
  Keys = {a, esc}
  Late = {a}
  Escape = esc
  GrabOutcomes = {TRUE, FALSE}
  MaxEvents = 1
  MaxCrossings = 1
INVARIANT NeverMistakenForDead
CHECK_DEADLOCK FALSE
