SPECIFICATION Spec
CONSTANTS
  Prices <- SomePrices
  Quantities <- SomeQuantities
  IntBound = 4
  NumericBound = 100
  MaxRetries = 2
  ClientId = ClientId
  NaN = NaN
  None = None
INVARIANTS
  IInv
  TraceIsWhole
  AmountsAgree
  QuantityKept
