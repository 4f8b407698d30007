SPECIFICATION EventLogSpec
CONSTANTS
  Tenant = {t1}
  Poster = {p1, p2}
  Emitted <- MCEmitted
  PageSize = 2
  MaxEvents = 3
INVARIANT ReplayedOncePerKey
CHECK_DEADLOCK FALSE
