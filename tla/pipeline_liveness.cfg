CONSTANTS
  u1 = u1
  u2 = u2
  u3 = u3
  w1 = w1
  w2 = w2
  NoWorker = NoWorker
  Uuid = {u1}
  Worker = {w1, w2}
  WorkerOf <- TwoWorkersOf
  PoolSize = 1
  MaxAddJobs = 3
SPECIFICATION FairSpec
PROPERTIES
  EveryJobLeaves
  SuccessIsReported
  StopReturns
