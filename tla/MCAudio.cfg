SPECIFICATION Spec
CONSTANTS
  Platforms = {"android", "web", "alsa", "wasapi", "apple"}
  MinBuffer = 2
  MaxBuffer = 4
  BufSize = 6
  Counts = {1, 2}
  Want = 1
  StageSize = 3
  HwSize = 4
  Ctx = {1, 2}
  Retries = 1
  Slots = {1, 2}
  MaxResets = 1
INVARIANTS TypeOK BufferIsOurs LatencyBounded
PROPERTIES StartsPrimed Recovers
CHECK_DEADLOCK FALSE
