SPECIFICATION AllSafeSpec
CONSTANTS
  Backends = {"win32"}
  Forms = {}
  Containers = {"reflow"}
  Windows = {1, 2}
  GrowAt = 2
  ToastSlots = 1
  MaxTimers = 2
  MaxOverlays = 2
  ChordKeys = {"k", "x"}
  Long <- MCLong
  Stacks <- MCStacks
  Remade = {1}
  MaxBound = 2
  MaxKids = 3
  MaxAxis = 12
  GridItems = 3
INVARIANT NoContainerMissed
CHECK_DEADLOCK FALSE
