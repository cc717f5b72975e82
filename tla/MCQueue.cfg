SPECIFICATION Spec
CONSTANTS
  Producers = {p1, p2}
  Consumer = c
  NoOne = NoOne
  QueueLen = 2
  MaxMsgs = 4
INVARIANTS TypeOK BufferExclusion NoLostWakeup InOrder
PROPERTIES FateIsFinal EventuallyTaken ImplementsFifo
