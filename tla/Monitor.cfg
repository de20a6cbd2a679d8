SPECIFICATION Spec
CONSTANTS
  Transactions = {t1, t2, t3}
  p = p
  all = all
  Subjects = {p, c}
  Streams = {one}
  Follows <- MCFollows
  Limit = 2
  MaxEvents = 2
  MaxTime = 2
INVARIANTS TypeOK NeverTwice InOrder Accounted
PROPERTIES EventsArrive
CHECK_DEADLOCK FALSE
