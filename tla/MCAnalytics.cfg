SPECIFICATION Spec
CONSTANTS
  e1 = e1
  e2 = e2
  e3 = e3
  e4 = e4
  p1 = p1
  p2 = p2
  None = None
  Events = {e1, e2, e3, e4}
  Malformed = {e3}
  Unknown = {e4}
  Poison = {e2}
  Partitions = {p1, p2}
  PartitionOf <- MCPartitionOf
  RetryLimits = {0, 2}
  MaxFaults = 3
  MaxCrashes = 1
INVARIANTS
  IInv
  NothingSkipped
  OrderKept
  ExtraRowsHaveACause
  GivenUpWhenExhausted
PROPERTIES
  EveryEventCommitted
