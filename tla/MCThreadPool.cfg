SPECIFICATION Spec
CONSTANTS
  c1 = c1
  t1 = t1
  t2 = t2
  Clients <- MCClients
  Tasks <- MCTasks
  MaxThreads = 1
  NoTask = NoTask
  Nobody = Nobody
INVARIANT DetachedIsReusableNow
CHECK_DEADLOCK FALSE
