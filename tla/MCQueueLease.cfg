SPECIFICATION QueueSpec
CONSTANTS
  Request = {1, 2}
  Worker = {w1}
  Limit = 2
  Mismatched = {}
  Profiled = {1}
  MaxAttempts = 2
  MaxCrashes = 1
PROPERTY ClaimedRecovers
CHECK_DEADLOCK FALSE
