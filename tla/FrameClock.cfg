SPECIFICATION Spec
CONSTANTS
  Stall = 3
  HandOver = 2
  Backends = {"gtk", "win32", "android"}
  MaxSubs = 3
  MaxNest = 2
INVARIANTS
  DeliveriesHold
  RunsIffSubscribed
PROPERTIES
  NeverSilentlyStops
CHECK_DEADLOCK FALSE
