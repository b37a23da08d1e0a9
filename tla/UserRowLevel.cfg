\* One worker serves any three requests; none dies.
SPECIFICATION Spec
CONSTANTS
  Worker = {w1}
  Endpoint <- BansByRecord
  Item = {hat}
  Freeze = freeze
  Price <- Prices
  Atom = {a1}
  XpPerLevel = 2
  Amount <- UpAndDown
  Gain = 2
  MaxRequests = 3
  MaxCrash = 0
  None = None
INVARIANTS LevelFollowsXp
CHECK_DEADLOCK FALSE
