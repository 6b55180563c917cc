SPECIFICATION AdmissionSpec
CONSTANTS
  MaxConns = 1
  MaxSaves = 1
  MaxEvents = 1
PROPERTIES AdoptsConfig RevokedLeaves
CHECK_DEADLOCK FALSE
