SPECIFICATION Spec
CONSTANTS
  Half = 8
  upper_unwrap = 6
  Word = 32
  Raw = 2
  Chan = 1
  ReadPeriod = 2
  Entries <- FileEntries
  Starts <- StartsAtEdges
  Steps <- SmallSteps
  MaxSent = 4
  MaxHeld = 1
PROPERTIES
  DiscardHarmless
CHECK_DEADLOCK FALSE
