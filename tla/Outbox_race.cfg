SPECIFICATION FairSpec
CONSTANTS
  j1 = j1
  w1 = w1
  w2 = w2
  NoWorker = NoWorker
  NoJob = NoJob
  Workers <- MCWorkers
  Admins = {"a1"}
  Jobs <- MCOneJob
  MaxRetry <- MCOneJobMaxRetry
  Limit = 1
  StaleLock = 1
  HandlerMax = 2
  MaxCrashes = 1
  MaxRequeues = 2

INVARIANTS
  TypeOK
  LockIffProcessing
  DeadLetteredHasRow
  CompletedWasDelivered
  NoEarlyDeadLetter
  RequeueLeavesTrace

PROPERTIES
  EventuallySettled
