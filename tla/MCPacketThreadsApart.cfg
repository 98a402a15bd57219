SPECIFICATION Spec
CONSTANTS
  Size = 3
  NumReaders = 1
  Throwers <- TxThrows
  MaxWrites = 6
INVARIANTS
  ApartConsistent
  ApartReadsWhole
CHECK_DEADLOCK FALSE
