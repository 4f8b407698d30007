SPECIFICATION FairSpec
CONSTANTS
  HoldingCid = {c1, c2}
  HoldCid = {h1}
  Ref <- MCTenantRef
  Party = {holder}
  Time = {1}
  MaxAmount = 1
  None = None
  t1 = t1
  t2 = t2
  IssueId = {i1}
  RedeemId = {d1}
  TransferId = {x1}
  Terms <- MCTerms
  TraceCid = {o1}
  RulesCid = {k1}
  Request = {1, 2}
  Worker = {w1}
  Limit = 2
  Mismatched = {}
  Profiled = {1}
  MaxAttempts = 2
  MaxCrashes = 0
  op1 = op1
  Tenant = {t1}
  Operation = {op1}
  OwnerOf <- MCOwnerOf
  Reader = {}
  MaxOffset = 0
  AssumedOffset = 1
  NoTenant = NoTenant
  NoOperation = NoOperation
  Endpoint = {e1}
  PoolThread = {}
  IdleMillis = 1
  LastMilli = 0
  MaxChannels = 0
SYMMETRY HoldingsAlike
INVARIANTS MovedOnce OneSubmissionPerTrace
PROPERTIES ClosedNeverMoves ImplementsBalances EventuallyAttempted
CHECK_DEADLOCK FALSE
