CONSTANTS
  u1 = u1
  w1 = w1
  NoWorker = NoWorker
  Uuid = {u1}
  Worker = {w1}
  WorkerOf <- TestWorkerOf
  PoolSize = 1
  MaxAddJobs = 1
SPECIFICATION TestSpec
PROPERTIES
  RoutedIsWorkerQueued
