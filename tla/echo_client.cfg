\* The client's packets, one by one.
SPECIFICATION FairClientSpec
CONSTANTS
  EntryLifetime = 5
  Grain = 10
  MaxQueueLen = 2
  MaxQueueTime = 6
  Dsts = {10}
  Pos <- MCPos
  MyPos <- MCMyPos
  HelloPos <- MCHelloPos
  Resolves = {6}
  Flaky = {}
  Junk = {}
  PerimeterMode = TRUE
  QueuePeriod = 2
  IdSpace = 2
  MaxPackets = 3
  EndTime = 18
  Server = 10
  StartAt = 1
  Interval = 4
  StopAt = 14
INVARIANTS ClientTypeOK PromptService OneAtATime TimerCoversQueue NoAbort
PROPERTIES EveryPacketSettles
CHECK_DEADLOCK FALSE
