SPECIFICATION CalledSpec
CONSTANTS
  CAP = 3
  Labels = {"edit"}
  MaxPushes = 3
  MaxDepth = 0
  StepInGroup = FALSE
INVARIANT
  CallsHold
CHECK_DEADLOCK FALSE
