SPECIFICATION PillarSpec
CONSTANTS
  HoldingCid = {c1, c2}
  HoldCid = {h1}
  Ref <- MCTenantRef
  Party = {holder}
  Time = {1}
  MaxAmount = 1
  None = None
  t1 = t1
  t2 = t2
  IssueId = {}
  RedeemId = {}
  TransferId = {x1}
  Terms <- MCTerms
  TraceCid = {o1}
  RulesCid = {k1}
SYMMETRY Symmetric
INVARIANT CanceledBeforeTransfer
CHECK_DEADLOCK FALSE
