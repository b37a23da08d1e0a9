\* A bump that read the row before a claim writes after it.
SPECIFICATION MCSpec
CONSTANTS
  Worker = {w1, w2}
  Endpoint = {"bump", "claim", "list"}
  Kind = {"daily"}
  Slot <- OneEach
  Length <- HalfHours
  Zone = {0}
  Target = 1
  Delta = {1}
  MaxTime = 0
  MaxCrash = 0
  MaxClaims = 2
  None = None
SYMMETRY Workers
INVARIANT PaidOnce
CHECK_DEADLOCK FALSE
