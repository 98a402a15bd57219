SPECIFICATION FairSpec
CONSTANTS
  Size = 2
  NumReaders = 2
  Throwers <- TxThrows
  MaxWrites = 2
INVARIANTS
  TypeOK
  NoReadOverflow
PROPERTIES
  NoOversleep
  WriterFinishes
CHECK_DEADLOCK FALSE
