\* Two workers, two cards, a call that raises and a worker that dies.
SPECIFICATION Spec
CONSTANTS
  Worker = {w1, w2}
  Card = {c1, c2}
  Day = {1}
  Time = {1}
  Bury = {no, later}
  MaxRequests = 3
  MaxFail = 1
  MaxCrash = 1
  None = None
SYMMETRY WorkersAndCards
INVARIANTS TypeOK AckedSurvives
CHECK_DEADLOCK FALSE
