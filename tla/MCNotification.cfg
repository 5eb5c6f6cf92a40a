SPECIFICATION Spec
CONSTANTS
  m1 = m1
  m2 = m2
  None = None
  Ids = {m1, m2}
  Bad = {m2}
  MaxRetries = 2
  Prefetch = 2
  MaxLosses = 2
INVARIANTS
  IInv
  NoMessageLost
  DlqMeansExhausted
  RetriesAreCounted
  NoLossNoDuplicate
PROPERTIES
  EveryMessageSettled
