\* Two workers serve one client; a request may be given up on, die, or have a call raise.
SPECIFICATION Spec
CONSTANTS
  Worker = {w1, w2}
  draft1 = draft1
  final1 = final1
  final2 = final2
  Attempt = {final1, final2}
  Item <- Finals
  Key <- OwnKey
  Poison = {}
  Freezes = 0
  MaxGap = 30
  FirstDay = 1
  LastDay = 1
  MaxGiveUp = 1
  MaxCrash = 1
  MaxFailure = 1
  None = None
SYMMETRY Symmetric
INVARIANTS CountedOnce DroppedIsStored PaidOnceInOrder
CHECK_DEADLOCK FALSE
