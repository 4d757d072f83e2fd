\* A pool no larger than the transactions that may be open, a few pairs of
\* tokens, and a breaker whose fallbacks outlive its cooldown.
CONSTANTS
  Users = {u1}
  Slots = {s1, s2}
  Codes = {c1}
  Terms <- MCTerms
  PoolSize = 2
  MaxPairs = 3
  None = None
  Undefined = Undefined
  FailureThreshold = 2
  SuccessThreshold = 2
  Hooks = {h1, h2, h3}
  First = h2
  Callers = {k1, k2}
  OrderOf <- MCOrderOf
  GraceMs = 2
SPECIFICATION Spec
PROPERTIES AppliesAnswered StaleSessionEnds GatewayRecovers Recovers SignalExits
CHECK_DEADLOCK FALSE
