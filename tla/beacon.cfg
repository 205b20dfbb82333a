\* Lifetime 3 s, interval 1 s, jitter below 0.5 s, first HELLO at 0.1 s; ticks of 10 ms.
SPECIFICATION Spec
CONSTANTS
  EntryLifetime = 300
  Grain = 10
  Nodes = {4, 5, 10}
  Hears <- MCHears
  Place <- MCPlace
  HelloInterval = 100
  MaxJitter = 50
  Jitters <- MCJitters
  MaxDelay = 2
  FirstHello = {10}
  MaxMissed = 2
  EndTime = 312
INVARIANTS OneLossIsHarmless
CHECK_DEADLOCK FALSE
