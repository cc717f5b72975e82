SPECIFICATION Spec
CONSTANTS
  AxisMax = 16
  FromDpadUp <- Buttons
  Slots = 2
  Slow = 2
  QueueLen = 500
  Cases <- MCCases
  Faults = {}
INVARIANTS TypeOK EventsInOrder AxesInPlace
PROPERTIES UpToDate RumbleArrives
CHECK_DEADLOCK FALSE
