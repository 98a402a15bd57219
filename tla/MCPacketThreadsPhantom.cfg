SPECIFICATION Spec
CONSTANTS
  Size = 3
  NumReaders = 1
  Throwers <- TxThrows
  MaxWrites = 5
INVARIANTS
  NoPhantom
CHECK_DEADLOCK FALSE
