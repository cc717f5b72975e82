SPECIFICATION Spec
CONSTANTS
  a = a
  b = b
  c = c
  Threads = {a, b, c}
  NoThread = NoThread
  MaxTaken = 2
  WriterAfterFailedTry = TRUE
INVARIANT MutualExclusion
