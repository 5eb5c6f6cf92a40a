SPECIFICATION Spec
CONSTANTS
  o1 = o1
  o2 = o2
  c1 = c1
  c2 = c2
  r1 = r1
  r2 = r2
  k1 = k1
  p1 = p1
  p2 = p2
  None = None
  Orders = {o1, o2}
  ChargeCalls = {c1, c2}
  RefundCalls = {r1, r2}
  IdRefundCalls = {}
  OrderOf <- OrderOfCall
  Keys <- OneKey
  LockKey <- Collide
  Oversized = {}
  MaxRetries = 2
  PoolSize = 2
  MaxDbErrors = 2
  MaxCrashes = 1
INVARIANTS
  TypeOK
  RefundIntentHonoured
  RefundAnswerIsFinal
  AnswerMatchesTables
  ExtraChargesHaveACause
PROPERTIES
  RefundedOnce
