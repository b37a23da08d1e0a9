\* Two workers, two users, three requests about threads, posts or addons.
SPECIFICATION MCSpec
CONSTANTS
  Worker = {w1, w2}
  User = {a, b}
  Tag = {g}
  Content = {k}
  MaxCards = 1
  Member = {m1, m2, m3}
  Coupon = {c1, c2}
  MaxCalls = 3
  Voter = {v1, v2}
  Category = {x, y}
  Label = {h}
  Course = {l}
  MaxTime = 4
  MaxRequests = 3
  MaxCrash = 1
SYMMETRY Symmetric
INVARIANTS TypeOK CountsAreBacked MirrorsAgree SocialAgree ForumAgree
CHECK_DEADLOCK FALSE
