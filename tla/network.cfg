\* One packet at a time between the nodes of the corner, all of which
\* GetInterfaceForAddress is taken to find.
SPECIFICATION FairSpec
CONSTANTS
  EntryLifetime = 12
  Grain = 10
  Place <- MCPlace
  HelloPos <- MCHelloPos
  Hears <- MCHears
  Resolves = {1, 2, 6, 7}
  Flows <- MCFlows
  Payloads <- MCPayloads
  Perimeter = {1, 2, 7}
  MaxTtl = 6
  MaxPackets = 1
INVARIANTS TypeOK QueuedOnce SizeBound HeaderGoal
PROPERTIES ImplementsService Quiet
