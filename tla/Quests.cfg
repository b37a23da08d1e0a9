\* Two workers serve every quest endpoint across the end of a day, and one may die; or
\* requests come one after another over a week, from a user who travels between zones.
SPECIFICATION MCSpec
CONSTANTS
  Worker = {w1, w2}
  Endpoint = {"bump", "claim", "list", "refresh", "boot"}
  Kind = {"daily", "weekly"}
  Slot <- TwoDailies
  Length <- DayAndWeek
  Zone <- ADayApart
  Target = 1
  Delta = {1}
  MaxTime = 6
  MaxCrash = 1
  MaxClaims = 2
  None = None
SYMMETRY Workers
INVARIANTS TypeOK SettledOnce LingotsBacked PaidOnceInOrder
PROPERTY ListIsCurrent
CHECK_DEADLOCK FALSE
