SPECIFICATION FairSpec
CONSTANTS
  Inputs <- MCInputs
  Derived <- MCDerived
  Observers <- MCObservers
  Widgets <- MCWidgets
  Wirings <- MCWirings
  MaxSets = 3
  MaxDepth = 2
INVARIANTS
  Settled
  OrphansNeverRun
  InputBatchIsOneChange
PROPERTIES
  EveryPassEnds
CHECK_DEADLOCK FALSE
