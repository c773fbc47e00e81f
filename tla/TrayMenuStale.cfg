SPECIFICATION TraySafeSpec
CONSTANTS
  MenuHandles = {1}
  Labels = {"open", "save"}
  Accelerated = {}
  Backends = {"gtk"}
  Slots = 2
  MaxItems = 3
  ClearsPerRun = 1
  SnapshotMax = 2
  MaxRevision = 3
PROPERTY
  NewestLayoutIsValid
CHECK_DEADLOCK FALSE
