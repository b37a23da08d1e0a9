\* One worker, several days: a draft, a final attempt, and an attempt that always raises.
SPECIFICATION FairSpec
CONSTANTS
  Worker = {w1}
  draft1 = draft1
  final1 = final1
  final2 = final2
  Attempt = {draft1, final1, final2}
  Item <- TwoLessons
  Key <- OwnKey
  Poison = {final2}
  Freezes = 1
  MaxGap = 2
  FirstDay = 1
  LastDay = 4
  MaxGiveUp = 0
  MaxCrash = 1
  MaxFailure = 0
  None = None
INVARIANTS TypeOK StreakIsEarned
PROPERTY BufferDrains
CHECK_DEADLOCK FALSE
