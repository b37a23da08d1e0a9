\* Two workers, three users, four requests about friends, invites or
\* threads; or one board after another, of three players and two leagues.
SPECIFICATION MCSpec
CONSTANTS
  Worker = {w1, w2}
  User = {a, b, c}
  Acquainted = {a, b}
  Code = {c1, c2}
  MonthlyCap = 1
  Player = {1, 2, 3}
  Leaver = {2}
  MaxXp = 2
  Threshold <- Leagues
  MaxEarned = 3
  MaxRequests = 4
  MaxCrash = 1
SYMMETRY Symmetric
INVARIANTS TypeOK EdgesWereAgreed BlockSevers SuggestedAreStrangers InvitesHold OneThread BoardAgrees
CHECK_DEADLOCK FALSE
