\* One worker serves any six requests, each to its end.
SPECIFICATION Spec
CONSTANTS
  Worker = {w1}
  Endpoint <- Everything
  Item = {hat}
  Freeze = freeze
  Price <- Prices
  Atom = {a1}
  XpPerLevel = 2
  Amount <- UpAndDown
  Gain = 2
  MaxRequests = 6
  MaxCrash = 0
  None = None
PROPERTIES ServedInOrder
CHECK_DEADLOCK FALSE
