SPECIFICATION FairSpec
CONSTANTS
  p1 = p1
  p2 = p2
  p3 = p3
  Pods = {p1, p2, p3}
  Concurrency = 2
INVARIANTS TypeOK CollectAfterExec CopiedWasExecuted OneWorkerPerJob EveryJobAccounted
PROPERTY Returns
