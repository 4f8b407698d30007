SPECIFICATION Spec
CONSTANTS
  Request = {a1, a2, a3}
  Scope = {s1, s2}
  Body = {b1, b2}
  key = key
  LockOf <- OneLock
  NoRequest = NoRequest
  None = None
  Kid = {k1}
  Call = {c2, c3}
  Ttl = 1
  LastTime = 3
  Server = {n1}
  Key = {h1}
  Rpm = 2
  Window = 2
  g1 = g1
  g2 = g2
  Bucket = {g1, g2}
  Capacity <- MCCapacity
  RefillRate <- MCRefillRate
  Demand <- MCDemand
  MaxNow = 4
  Provider = {v0}
  Validator = {v1}
  Subscriber = {t1, t2}
  NetworkSlug = {"mainnet", "testnet"}
  BindingId = {i1, i2}
  NoValidator = NoValidator
  LivemodeSent = {FALSE}
  MaxBindings = 2
  MaxMakings = 3
  HoldingCid = {a1, a2, a3}
  HoldCid = {s1, s2}
  Ref = {b1, b2}
  Party = {alice, bob}
  Time = {1, 2}
  MaxAmount = 2
  Tenant = {u1, u2}
  Poster = {p1, p2}
  Emitted <- MCEmitted
  PageSize = 2
  MaxEvents = 3
  HttpRequest <- MCHttpRequest
  Scale = 2
SYMMETRY Symmetric
INVARIANTS EnsureClauses HoldsBacked SupplyConserved
INVARIANTS OneOwner ReplayIsFaithful DuplicatesAreTroubled
INVARIANTS BreakageIsContained VerdictIsByMeaning
INVARIANTS LimitsHold PausedIsUnrouted ShowingIsRight
PROPERTIES CompletedIsFinal KeysAreCurrent
CHECK_DEADLOCK FALSE
