SPECIFICATION Spec
CONSTANTS
  s1 = s1
  None = None
  Sagas = {s1}
  MaxCharges = 1
INVARIANTS
  CancellationIsSafe
