SPECIFICATION HookSpec
CONSTANTS
  Dispatcher = {d1, d2}
  Delivery = {x1, x2}
  Initial = {x1}
  Endpoint = {e1}
  Batch = 2
  MaxAttempts = 2
  MaxCrashes = 1
  MaxOperations = 1
  None = None
INVARIANTS
  AttemptsWereMade
  AcceptedOnce
PROPERTIES
  FinalUnlessContested
  EventuallySettled
CHECK_DEADLOCK FALSE
