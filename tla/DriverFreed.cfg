SPECIFICATION SafeSpec
CONSTANTS
  Backends = {"win32"}
  KindsTried = {"row"}
  Handles = {1}
  MaxRequests = 1
  MaxActs = 1
INVARIANT NotFreedUnderItsCall
CHECK_DEADLOCK FALSE
