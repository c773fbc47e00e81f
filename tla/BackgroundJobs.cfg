SPECIFICATION JobsSpec
CONSTANTS
  panel = panel
  noOwner = noOwner
  NoOwner = noOwner
  MaxCalls = 4
  Widgets <- MCWidgets
  Owner <- FourOwners
  Plain <- FourPlain
  TableSize = 2
  IdMax = 4
  Threads = 2
INVARIANTS
  TableHoldsInFlight
  ToldOnlyIfAsked
PROPERTIES
  ContractLive
CHECK_DEADLOCK FALSE
