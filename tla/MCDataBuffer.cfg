SPECIFICATION Spec
CONSTANTS
  tx = tx
  file = file
  Size = 3
  Readers = {tx, file}
  Throwers = {tx}
  MaxWrites = 6
INVARIANTS
  TypeOK
  FlagsMatchBacklog
  PendingIntact
  UndisturbedRead
  NoReadOverflow
PROPERTIES
  OverrunNeedsFullLap
  ImplementsQueue
