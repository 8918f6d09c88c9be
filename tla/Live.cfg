SPECIFICATION MCSpec
CONSTANTS
  r1 = r1
  r2 = r2
  r3 = r3
  Request <- MCRequest
  Capacity = 1
  MaxPending = 1
  p1 = p1
  p2 = p2
  Campaign = {m1, m2}
  Creator = {c1}
  Action = {sample}
  Process <- MCProcess
  Worker <- MCProcess
  WorkerOf <- MCWorkerOf
  NoWorker = NoWorker
  NoTask = NoTask
  MaxAttempts = 2
  Concurrency = 2
  MaxFaults = 2
PROPERTIES
  
  EveryTaskSettles
  ExcludedWorkDrains
  QueriesEnd
