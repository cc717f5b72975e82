SPECIFICATION Spec
CONSTANTS
  c1 = c1
  c2 = c2
  t1 = t1
  t2 = t2
  t3 = t3
  Clients <- MCClients
  Tasks <- MCTasks
  MaxThreads = 2
  NoTask = NoTask
  Nobody = Nobody
INVARIANTS TypeOK CleanedOnce NoUseAfterFree HandleIsOwn DestroyFreesAll
PROPERTIES DestroyEndsEventually AbandonedIsFreed
