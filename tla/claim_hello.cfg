\* The comment on the position in a HELLO.
SPECIFICATION Spec
CONSTANTS
  EntryLifetime = 300
  Grain = 10
  Nodes = {4, 5, 10}
  Hears <- MCHears
  Place <- MCPlace
  HelloInterval = 100
  MaxJitter = 50
  Jitters <- MCJitters
  MaxDelay = 2
  FirstHello = {10}
  MaxMissed = 2
  EndTime = 312
INVARIANT TableHoldsPlaces
CHECK_DEADLOCK FALSE
