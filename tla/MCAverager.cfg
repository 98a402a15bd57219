SPECIFICATION Spec
CONSTANTS
  Records = 3
  Word = 6
  Averages <- FewAverages
  Orders <- SomeOrders
  MaxFrames = 7
INVARIANTS
  TypeOK
  PacketWhole
  OnTime
PROPERTIES
  TapsInOrder
CHECK_DEADLOCK FALSE
