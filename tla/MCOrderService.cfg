SPECIFICATION ServiceSpec
CONSTANTS
  s1 = s1
  None = None
  Sagas = {s1}
  MaxCharges = 2
  MaxRestarts = 1
INVARIANTS
  ServiceInv
  NoOrphanCharge
  ConfirmedIsPaid
  AnnouncedIsFinal
  EveryLossReported
PROPERTIES
  KeepsContract
  GracefulExitDropsNobody
  EverySagaEnds
  EveryShutdownEnds
