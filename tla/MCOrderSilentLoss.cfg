SPECIFICATION ServiceSpec
CONSTANTS
  s1 = s1
  None = None
  Sagas = {s1}
  MaxCharges = 1
  MaxRestarts = 0
INVARIANTS
  LossIsLogged
