CONSTANTS
  w1 = w1
  t1 = t1
  t2 = t2
  t3 = t3
  Worker <- MCWorker
  Task <- MCTask
  Deadline <- MCDeadline
  NoTask = NoTask
  Receiver = Receiver
  Sweeper = Sweeper
  Depth = 1
  WaitMode = TRUE
  Reserve = 0
  MinBudget = 1
  MaxTime = 2
SPECIFICATION Spec
PROPERTIES Promise CloseReturns QueuedIsSwept ReceiverReturns
