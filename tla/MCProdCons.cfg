CONSTANTS
  nempty = nempty
  nfull = nfull
  mutex = mutex
  NULL = NULL
  Main = main
  Thread = {main, p1, p2, c1, c2}
  Priority <- MCPriority
  Producer = {p1, p2}
  Consumer = {c1, c2}
  ForkOrder <- MCForkOrder
  Semaphore = {nempty, nfull, mutex}
  Lock = {}
  Condition = {}
  InitialValue <- MCInitialValue
  BUFF_SIZE = 2
  N_MESSG = 2
SPECIFICATION Spec
INVARIANTS
  RingInv
PROPERTIES
  FifoSpec
CHECK_DEADLOCK FALSE
