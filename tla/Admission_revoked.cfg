SPECIFICATION AdmissionSpec
CONSTANTS
  MaxConns = 1
  MaxSaves = 1
  MaxEvents = 1
PROPERTY RevokedStaysOut
CHECK_DEADLOCK FALSE
