SPECIFICATION ApiSpec
CONSTANTS
  Request = {a1, a2}
  Scope = {s1}
  Body = {b1}
  key = key
  LockOf <- OneLock
  NoRequest = NoRequest
INVARIANT OneOperationPerMutation
CHECK_DEADLOCK FALSE
