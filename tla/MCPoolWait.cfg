CONSTANTS
  w1 = w1
  w2 = w2
  t1 = t1
  t2 = t2
  t3 = t3
  Worker <- MCWorker
  Task <- MCTask
  Deadline <- MCDeadline
  NoTask = NoTask
  Receiver = Receiver
  Sweeper = Sweeper
  Depth = 1
  WaitMode = TRUE
  Reserve = 1
  MinBudget = 0
  MaxTime = 4
SYMMETRY Symmetry
SPECIFICATION Spec
INVARIANTS OnePlace DepthBound NoLostWakeup ReceiverSleepsOnlyWhenFull DeadlineIsHonest DrainedOnExit
