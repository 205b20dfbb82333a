\* Two destinations, a queue of two: the life of every packet.
SPECIFICATION Spec
CONSTANTS
  EntryLifetime = 2
  Grain = 10
  MaxQueueLen = 2
  MaxQueueTime = 2
  Dsts = {2, 4}
  Pos <- MCPos
  MyPos <- MCMyPos
  HelloPos <- MCHelloPos
  Resolves = {4}
  Flaky = {}
  Junk = {}
  PerimeterMode = TRUE
  QueuePeriod = 1
  IdSpace = 2
  MaxPackets = 4
  EndTime = 6
INVARIANTS TypeOK OneVerdict NothingLost QueueBound NoTwins NotOvertaken
PROPERTIES NoLateSend FreshNextHop ImplementsService
CHECK_DEADLOCK FALSE
