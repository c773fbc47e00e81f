SPECIFICATION Spec
CONSTANTS
  CAP = 3
  Labels = {"edit", "gesture"}
  MaxPushes = 5
  MaxDepth = 2
  StepInGroup = FALSE
INVARIANTS
  HistoryInOrder
  OwnedOnce
  NoLeak
PROPERTIES
  GroupIsOneStep
