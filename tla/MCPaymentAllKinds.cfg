SPECIFICATION Spec
CONSTANTS
  o1 = o1
  o2 = o2
  c1 = c1
  c2 = c2
  r1 = r1
  r2 = r2
  k1 = k1
  p1 = p1
  p2 = p2
  None = None
  Orders = {o1, o2}
  ChargeCalls = {c1, c2}
  RefundCalls = {r1}
  IdRefundCalls = {p1}
  OrderOf <- OrderOfCall
  Keys <- OneKey
  LockKey <- Collide
  Oversized = {o2}
  MaxRetries = 1
  PoolSize = 2
  MaxDbErrors = 1
  MaxCrashes = 1
INVARIANTS
  IInv
PROPERTIES
  Implements
  EveryRequestEnds
