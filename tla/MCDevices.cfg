CONSTANTS
  main = main
  NULL = NULL
  Main = main
  worker = worker
  Sender = {s1, s2}
  Receiver = {receiver1}
  receiver1 = receiver1
  Box = {box1, box2}
  box1 = box1
  box2 = box2
  lock1 = lock1
  lock2 = lock2
  cond1 = cond1
  cond2 = cond2
  sendLock = sendLock
  messageAvailable = messageAvailable
  messageSent = messageSent
  Thread <- MCThread
  Priority <- MCPriority
  Semaphore <- MCSemaphore
  Lock <- MCLock
  Condition <- MCCondition
  InitialValue <- MCInitialValue
  BoxOf <- MCBoxOf
  ForkOrder <- MCForkOrder
  boxLock <- MCBoxLock
  boxCond <- MCBoxCond
  Count = 1
  Takes = 2
  CanLose = TRUE
  CanDelay = TRUE
  OneShot = {"disk", "write"}
  Poller = {"read"}
  NumThreads = 2
  SystemTick = 3
  UserTick = 1
  TimerDelay = {1, 4}
  DeviceDelay = {2, 5}
SPECIFICATION DevicesSpec
INVARIANTS
  InterruptInv
  NetworkInv
PROPERTIES
  FiresInOrder
  SleeperWakes
  MailSpec
CHECK_DEADLOCK FALSE
