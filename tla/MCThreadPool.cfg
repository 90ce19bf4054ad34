SPECIFICATION Spec
CONSTANTS
  TASK_CAP = 3
  POOL_THREADS = 3
  MaxCalls = 6
  Requests <- MCRequests
INVARIANTS
  TypeOK
  NoLostWakeup
  RingInOrder
  Conservation
  DrainedAtExit
PROPERTIES
  ShutdownReturns
  ImplementsTaskQueue
