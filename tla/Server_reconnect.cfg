CONSTANTS
  a1 = a1
  a2 = a2
  b1 = b1
  Main = main
  Udp = udp
  Machines = {1}
  Conns = {a1, a2}
  MachineOf <- Reconnecting
SPECIFICATION Spec
INVARIANT
  ActiveHasClock
PROPERTIES
  TeardownSparesOthers
  LatchIsReleased
