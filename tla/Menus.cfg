SPECIFICATION Spec
CONSTANTS
  MenuHandles = {1, 2}
  Labels = {"open", "save"}
  Accelerated = {"save"}
  Backends = {"gtk", "win32", "android"}
  Slots = 3
  MaxItems = 3
  ClearsPerRun = 1
INVARIANTS
  ClosuresHold
  StoreMirrorsNative
PROPERTY ClickRunsItsItem
CHECK_DEADLOCK FALSE
