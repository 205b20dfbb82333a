---------------------------- MODULE GpsrPtableMC ----------------------------
(***************************************************************************)
(* The neighbour table over time, and its two searches against the loops   *)
(* the code runs.  HELLOs arrive from neighbours that move about; look-ups *)
(* purge the table.                                                        *)
(***************************************************************************)
EXTENDS GpsrPtable, FiniteSets, Sequences

CONSTANTS Nbrs,        \* the neighbours, an interval 1 .. n of addresses
          Places,      \* where neighbours and destinations are
          EndTime      \* bound on the clock

ASSUME PtableMCAssumption ==
  /\ IsFiniteSet(Nbrs) /\ Nbrs = 1 .. Cardinality(Nbrs)
  /\ Places \subseteq Point /\ EndTime \in Nat

VARIABLES now, table, heard    \* heard: history, the last HELLO of each neighbour, unless
                               \* the neighbour was deleted since

vars == <<now, table, heard>>

Me == [x |-> 0, y |-> 0]

MCPlaces == {p \in [x : -1 .. 2, y : -1 .. 1] : p.x = 2 => p.y # -1}

Init == now = 0 /\ table = EmptyTable /\ heard = EmptyTable

Hello(n, p) ==
  /\ table' = AddEntry(table, n, p, now)
  /\ heard' = AddEntry(heard, n, p, now)
  /\ UNCHANGED now

Delete(n) ==
  /\ table' = DeleteEntry(table, n)
  /\ heard' = [m \in DOMAIN heard \ {n} |-> heard[m]]
  /\ UNCHANGED now

Clear == table' = EmptyTable /\ heard' = EmptyTable /\ UNCHANGED now

\* GetPosition, BestNeighbor and BestAngle purge the table.
LookUp == table' = Purge(table, now) /\ UNCHANGED <<now, heard>>

Tick == now < EndTime /\ now' = now + 1 /\ UNCHANGED <<table, heard>>

Next ==
  \/ \E n \in Nbrs : Delete(n) \/ \E p \in Places : Hello(n, p)
  \/ Clear \/ LookUp \/ Tick

Spec == Init /\ [][Next]_vars

-----------------------------------------------------------------------------

\* However HELLOs, moves, deletions and purges follow each other, a purged table holds
\* exactly the neighbours heard less than a lifetime ago, each at the place of its last
\* HELLO, and GetPosition, purged before or not, answers with that place (AddEntry,
\* DeleteEntry, Purge, GetPosition).
HoldsTheRecentlyHeard ==
  LET recent == {n \in DOMAIN heard : now - heard[n].time < EntryLifetime}
  IN  /\ Purge(table, now) = [n \in recent |-> heard[n]]
      /\ \A n \in Nbrs : GetPosition(table, n, now) =
                         IF n \in recent THEN heard[n].pos ELSE InvalidPosition
      /\ \A n \in recent : GetEntryUpdateTime(table, n) = heard[n].time

\* The loop over the map in both searches: the first of the neighbours looked at, and any
\* later one whose key is smaller than the best so far.
Scan(looked, key) ==
  LET scan[n \in 0 .. Cardinality(Nbrs)] ==
        IF n = 0 THEN NoAddr
        ELSE IF n \notin looked THEN scan[n - 1]
        ELSE IF scan[n - 1] = NoAddr \/ key[n] < key[scan[n - 1]] THEN n
        ELSE scan[n - 1]
  IN  scan[Cardinality(Nbrs)]

\* BestNeighbor's loop looks at the distance of every neighbour.
ScanNearest(t, dst) == Scan(DOMAIN t, [n \in DOMAIN t |-> DistSq(t[n].pos, dst)])

\* The greedy search returns what the loop finds if that is nearer than the node,
\* and NoAddr exactly when no neighbour is.
GreedyIsTheScan ==
  LET t == Purge(table, now)
  IN  \A dst \in Places :
        LET n == ScanNearest(t, dst)
        IN  BestNeighbor(t, dst, Me) =
              IF n # NoAddr /\ DistSq(Me, dst) > DistSq(t[n].pos, dst) THEN n ELSE NoAddr

\* The directions of Places as seen from Me, counter-clockwise from the x axis; the
\* angle of a direction is its index.
Directions == << <<1, 0>>, <<2, 1>>, <<1, 1>>, <<0, 1>>, <<-1, 1>>,
                 <<-1, 0>>, <<-1, -1>>, <<0, -1>>, <<1, -1>> >>
DirectionOf(p) ==
  IF p = Me THEN 0
  ELSE CHOOSE i \in 0 .. 8 :
         \E k \in 1 .. 2 : p.x = k * Directions[i + 1][1] /\ p.y = k * Directions[i + 1][2]
GetAngle(ref, p) ==
  LET turn == (DirectionOf(p) - DirectionOf(ref)) % 9
  IN  IF turn = 0 /\ p # ref THEN 9 ELSE turn

\* BestAngle's loop looks at the angle of every neighbour away from the previous hop's
\* place; every angle is below the 361 degrees it starts with.
ScanAngles(t, prev) ==
  Scan({n \in DOMAIN t : t[n].pos # prev}, [n \in DOMAIN t |-> GetAngle(prev, t[n].pos)])

\* The perimeter search returns the first neighbour counter-clockwise from the edge
\* to the previous hop, never one at the previous hop's place, and NoAddr only when
\* there is no other neighbour or the previous position is the invalid one.
PerimeterIsTheSweep ==
  LET t == Purge(table, now)
  IN  \A prev \in Places :
        BestAngle(t, Me, prev) =
          IF prev = InvalidPosition THEN NoAddr ELSE ScanAngles(t, prev)
=============================================================================
