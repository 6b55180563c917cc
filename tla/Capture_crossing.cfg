SPECIFICATION Spec
CONSTANTS
  Keys = {a, esc}
  Late = {a}
  Escape = esc
  GrabOutcomes = {TRUE}
  MaxEvents = 2
  MaxCrossings = 2
INVARIANTS ReportedOnce NeverMistakenForDead
PROPERTIES GrabsFollowControl EscapeComesHome
CHECK_DEADLOCK FALSE
