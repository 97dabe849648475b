CONSTANTS
  u1 = u1
  u2 = u2
  u3 = u3
  w1 = w1
  w2 = w2
  NoWorker = NoWorker
  Uuid = {u1, u3}
  Worker = {w1}
  WorkerOf <- OneWorkerOf
  PoolSize = 2
  MaxAddJobs = 3
SPECIFICATION Spec
INVARIANTS
  TypeOK
  InFlightIsOnBoard
  AtMostOneInFlight
  EachJobReportedOnce
  BoardMatchesStage
  QuietWhenStopped
PROPERTIES
  OnlyReturnedTasksDropped
  BoardSpec
