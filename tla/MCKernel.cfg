CONSTANTS
  NULL = NULL
  Main = main
  Thread = {main, t1, t2, t3}
  Urgent = {t2, t3}
  Priority <- MCPriority
  Semaphore = {sem, lck}
  Lock = {lck}
  Condition = {cnd}
  InitialValue <- MCInitialValue
  DeviceSemaphore = {sem}
  MaxValue = 2
SPECIFICATION Spec
INVARIANTS
  PlaceInv
  LockInv
  NoLostWakeup
PROPERTIES
  DispatchMostUrgent
  LeavesWithLock
  MonitorSpec
CHECK_DEADLOCK FALSE
