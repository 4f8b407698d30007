SPECIFICATION Spec
CONSTANTS
  Client = {b1}
  EventType = {"x", "y"}
  TypeFilter <- MCTypeFilter
  RingCapacity = 2
  SubscriberCapacity = 1
  MaxEvents = 3
  Event = {e1, e2, e3}
  Poll = {p1, p2}
  Limit = 2
  Millisecond = 2
  MaxTime = 2
  MaxPollFailures = 1
  r1 = r1
  r2 = r2
  r3 = r3
  Runner = {r1, r2, r3}
  LastMigration = 2
  Repeatable = {2}
  FileOf <- MCFileOf
  MaxFailures = 1
  NoRunner = NoRunner
  k1 = k1
  k2 = k2
  Task = {k1, k2}
  MaxAttempts = 2
  ScheduledFor <- MCScheduledFor
  Time = {1, 2}
  SqlOrder <- MCSqlOrder
  MaxAccounts = 3
  PageLimit = 1
INVARIANTS LossIsTold InOrder LostOnlyIfOvertaken VersionedOnce RunsAreCounted
PROPERTIES UpIsWhole EventuallyTold EventuallyForwarded EventuallyEnded WalkEnds
CHECK_DEADLOCK FALSE
