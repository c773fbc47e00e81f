SPECIFICATION TraySpec
CONSTANTS
  MenuHandles = {1}
  Labels = {"open", "save"}
  Accelerated = {}
  Backends = {"gtk"}
  Slots = 2
  MaxItems = 3
  ClearsPerRun = 1
  SnapshotMax = 2
  MaxRevision = 3
PROPERTIES
  ClickRunsShownLabel
  HostCatchesUp
CHECK_DEADLOCK FALSE
