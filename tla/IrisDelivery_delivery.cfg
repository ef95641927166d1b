SPECIFICATION IrisSpec
CONSTANTS
  j1 = j1
  j2 = j2
  w1 = w1
  w2 = w2
  NoWorker = NoWorker
  NoJob = NoJob
  Workers <- MCWorkers
  Admins = {}
  Jobs <- MCJobs
  Tracked <- MCJobs
  MaxRetry <- MCMaxRetry
  Limit = 2
  StaleLock = 2
  HandlerMax = 1
  MaxCrashes = 1
  MaxRequeues = 0
  MaxStoreFailures = 1
INVARIANTS
  IrisTypeOK
  SingleHolder
  CompletedReachedCore
  DeliveredAgrees
  RefusedIsLast
PROPERTIES
  ImplementsQueue
