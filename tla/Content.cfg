\* Two workers, two users, three requests about decks, tags, stories and
\* subscriptions, the vocabulary, the accounts of two identities, two lessons,
\* four rows that are listed,
\* or three calls of the repositories.
SPECIFICATION MCSpec
CONSTANTS
  Worker = {w1, w2}
  User = {a, b}
  Card = {k}
  Tag = {g}
  Identity = {s, t}
  Name = {n}
  MaxRequests = 3
  MaxCrash = 1
  Reader = {a, b}
  Topic = {x, y}
  Tongue = {l1, l2}
  MaxClock = 3
  Lesson = {k1, k2}
  Operation = {o}
  MaxRows = 4
  Group = {p, q}
  LastMoment = 3
  MaxLimit = 2
  Overfetch = 1
  MaxChanges = 1
SYMMETRY Symmetric
INVARIANTS TypeOK GoneStaysGone NoOrphans OneVocabulary OneAccount NamesDiffer LibraryAgree HistoryAddsUp PagesAddUp
PROPERTY UpdatesKeepTheRest
CHECK_DEADLOCK FALSE
