CONSTANTS
  Requests = {r1, r2, r3, r4}
  MaxConcurrent = 2
SPECIFICATION MCSpec
INVARIANTS
  TypeOK
  PermitConservation
  CancellationWins
PROPERTIES
  WaiterNeverAdmitted
  EveryArrivalAnswered
  RefinesControl
