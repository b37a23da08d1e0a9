\* An attempt is put and its user asks for the attempts.
SPECIFICATION ListingsSpec
CONSTANTS
  MaxRows = 2
  Group = {p, q}
  LastMoment = 2
  MaxLimit = 2
  Overfetch = 1
  MaxChanges = 1
INVARIANT AttemptsShownOnce
CHECK_DEADLOCK FALSE
