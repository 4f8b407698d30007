SPECIFICATION Spec
CONSTANTS
  HoldingCid = {c1, c2}
  HoldCid = {h1}
  Ref <- MCRef
  Party = {holder}
  Time = {1}
  MaxAmount = 1
  None = None
  t1 = t1
  t2 = t2
  IssueId = {}
  RedeemId = {}
  TransferId = {x1, x2}
  Terms <- MCTerms
  TraceCid = {o1, o2}
  RulesCid = {k1}
  Request = {1, 2}
  Worker = {w1, w2}
  Limit = 2
  Mismatched = {2}
  Profiled = {1}
  MaxAttempts = 3
  MaxCrashes = 1
  op1 = op1
  Tenant = {t1, t2}
  Operation = {op1}
  OwnerOf <- MCOwnerOf
  Reader = {q1, q2}
  MaxOffset = 2
  AssumedOffset = 1
  NoTenant = NoTenant
  NoOperation = NoOperation
  Endpoint = {e1}
  PoolThread = {q1, q2}
  IdleMillis = 1
  LastMilli = 2
  MaxChannels = 2
SYMMETRY Symmetric
INVARIANTS MovedOnce OneSubmitter AttemptsRecorded FailedWithoutEffect StrongReadIsStrong NoneIsLost
PROPERTIES TransferConserves ImplementsCommandOnce
CHECK_DEADLOCK FALSE
