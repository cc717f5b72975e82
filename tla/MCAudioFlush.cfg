SPECIFICATION Spec
CONSTANTS
  Platforms = {"android"}
  MinBuffer = 2
  MaxBuffer = 4
  BufSize = 6
  Counts = {1, 2}
  Want = 2
  StageSize = 3
  HwSize = 4
  Ctx = {1, 2}
  Retries = 1
  Slots = {1, 2}
  MaxResets = 1
PROPERTIES FlushEnds
CHECK_DEADLOCK FALSE
