SPECIFICATION Spec
CONSTANTS
  q1 = q1
  q2 = q2
  None = None
  Requests = {q1}
  DefaultTimeout = 5
  PaymentTimeout = 15
  CreateTimeout = 45
  DbTime = 1
  BrokerTime = 25
INVARIANTS
  TimeoutIsHonest
