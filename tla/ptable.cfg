\* Three neighbours that move about.
SPECIFICATION Spec
CONSTANTS
  EntryLifetime = 2
  Grain = 1
  Nbrs = {1, 2, 3}
  Places <- MCPlaces
  EndTime = 2
INVARIANTS HoldsTheRecentlyHeard GreedyIsTheScan PerimeterIsTheSweep
