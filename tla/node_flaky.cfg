\* Node 4 leaves and rejoins the NodeList; node 10 is the only one with an interface.
SPECIFICATION FairSpec
CONSTANTS
  EntryLifetime = 2
  Grain = 10
  MaxQueueLen = 2
  MaxQueueTime = 2
  Dsts = {2, 4}
  Pos <- MCPos
  MyPos <- MCMyPos
  HelloPos <- MCHelloPos
  Resolves = {10}
  Flaky = {4}
  Junk <- MCJunk
  PerimeterMode = TRUE
  QueuePeriod = 1
  IdSpace = 4
  MaxPackets = 2
  EndTime = 4
INVARIANTS OneVerdict
PROPERTIES FreshNextHop SimulationEnds
CHECK_DEADLOCK FALSE
