SPECIFICATION Spec
CONSTANTS
  Keys = {k}
  Buttons = {b}
  Blocking = {b}
  QueueCap = 1
  MaxEnters = 2
  MaxEvents = 1
PROPERTY WedgeEndsSession
