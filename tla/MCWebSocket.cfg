SPECIFICATION Spec
CONSTANTS
  Impls = {"linux", "android", "windows", "apple", "web"}
  MaxMsgs = 2
  MaxExtra = 2
  Fragmented = {1}
  Faults = {"joined"}
INVARIANTS TypeOK MessagesRead NothingLost CallbacksDone
PROPERTIES LivePeerKept Answers
CHECK_DEADLOCK FALSE
