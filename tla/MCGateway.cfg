SPECIFICATION Spec
CONSTANTS
  q1 = q1
  q2 = q2
  None = None
  Requests = {q1, q2}
  DefaultTimeout = 1
  PaymentTimeout = 2
  CreateTimeout = 10
  DbTime = 1
  BrokerTime = 1
INVARIANTS
  IInv
  ClientErrorHasNoEffect
  NotFoundMeansAbsent
  CreatedStands
  NoEarlyTimeout
PROPERTIES
  EveryRequestAnswered
