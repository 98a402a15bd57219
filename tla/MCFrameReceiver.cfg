SPECIFICATION Spec
CONSTANTS
  Modulus = 16
  Start = 13
  Depth = 2
  Faults <- AllFaults
  MaxSent = 4
  MaxTaken = 4
INVARIANTS
  TypeOK
  LossExact
  EveryFrameCounted
CHECK_DEADLOCK FALSE
