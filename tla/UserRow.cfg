\* Two workers serve any four requests; one of them may die.
SPECIFICATION Spec
CONSTANTS
  Worker = {w1, w2}
  Endpoint <- BansByRecord
  Item = {hat}
  Freeze = freeze
  Price <- Prices
  Atom = {a1}
  XpPerLevel = 2
  Amount <- UpAndDown
  Gain = 2
  MaxRequests = 4
  MaxCrash = 1
  None = None
SYMMETRY Workers
INVARIANTS TypeOK StatusAgreesWithHistory DeliveredWasCharged
CHECK_DEADLOCK FALSE
