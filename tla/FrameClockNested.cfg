SPECIFICATION SafeSpec
CONSTANTS
  Stall = 3
  HandOver = 2
  Backends = {"gtk", "win32", "android"}
  MaxSubs = 3
  MaxNest = 2
PROPERTY
  FrameTimesIncrease
CHECK_DEADLOCK FALSE
