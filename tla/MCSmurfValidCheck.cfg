SPECIFICATION Spec
CONSTANTS
  PerSecond = 2
  StartDelay = 2
  Limit <- MCLimit
  MinUnix = 2
  Step <- MCStep
  FrameModulus = 8
  FirstFrames <- MCFirstFrames
  MaxPackets = 5
INVARIANTS
  TypeOK
  StampsFresh
  JumpsLogged
PROPERTY
  StampsInOrder
CHECK_DEADLOCK FALSE
