CONSTANTS
  NULL = NULL
  Main = main
  Worker = {c1, c2, c3, w1, w2, w3}
  Thread <- MCThread
  Priority <- MCPriority
  lock = lock
  semaphore = semaphore
  readAvail = readAvail
  writeDone = writeDone
  bridgeFull = bridgeFull
  listEmpty = listEmpty
  Semaphore = {lock, semaphore, readAvail, writeDone}
  Lock = {lock}
  Condition = {bridgeFull, listEmpty}
  InitialValue <- MCInitialValue
  Car = {c1, c2, c3}
  Crossings = 2
  Capacity = 2
  Appender = {w1}
  Remover = {w2, w3}
  Items = 3
  Takes = 2
  Client = {w1, w2}
  Requests = 2
  Sector = {s1, s2}
  Data = {0, 1}
  Blank = 0
  Char = {a, b, q}
  quit = q
  EOF = EOF
  MaxTyped = 3
SPECIFICATION Spec
INVARIANTS
  ProgramInv
  HaltsOnlyWhenDone
PROPERTIES
  QueueSpec
  ArrivalOrder
  WorkGetsDone
CHECK_DEADLOCK FALSE
