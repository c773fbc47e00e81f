SPECIFICATION Spec
CONSTANTS
  Backends = {"gtk", "win32", "android"}
  KindsTried = {"toggle", "field", "row", "scrollbar"}
  Handles = {1, 2}
  MaxRequests = 2
  MaxActs = 1
INVARIANTS NotFreedInEvent ListingIsOneMoment DrivenIsTheAction
PROPERTIES RefusalIsTrue RequestAnswered
CHECK_DEADLOCK FALSE
