SPECIFICATION Spec
CONSTANTS
  Backends = {"gtk", "win32", "android"}
  Forms = {"surfaces", "timers", "keys", "reorder", "files"}
  Containers = {"stack", "flow", "split", "grid", "reflow"}
  Windows = {1, 2}
  GrowAt = 2
  ToastSlots = 1
  MaxTimers = 2
  MaxOverlays = 2
  ChordKeys = {"k", "x"}
  Long <- MCLong
  Stacks <- MCStacks
  Remade = {1}
  MaxBound = 2
  MaxKids = 3
  MaxAxis = 12
  GridItems = 3
INVARIANTS SurfacesHold TimersHold KeysHold LayoutHolds DragHolds
PROPERTY LateStepsCome
CHECK_DEADLOCK FALSE
