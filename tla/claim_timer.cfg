\* The timer against the comment at the end of CheckQueue.
SPECIFICATION Spec
CONSTANTS
  EntryLifetime = 2
  Grain = 10
  MaxQueueLen = 2
  MaxQueueTime = 2
  Dsts = {2, 4}
  Pos <- MCPos
  MyPos <- MCMyPos
  HelloPos <- MCHelloPos
  Resolves = {}
  Flaky = {}
  Junk = {}
  PerimeterMode = TRUE
  QueuePeriod = 1
  IdSpace = 2
  MaxPackets = 4
  EndTime = 6
INVARIANT TimerCoversQueue
CHECK_DEADLOCK FALSE
