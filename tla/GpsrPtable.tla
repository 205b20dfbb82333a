----------------------------- MODULE GpsrPtable -----------------------------
(***************************************************************************)
(* The neighbour table of one node (class GpsrPtable): a map from the      *)
(* address of a neighbour to the position its last HELLO announced and the *)
(* time that HELLO arrived, and the two next-hop searches over it.         *)
(*                                                                         *)
(* Addresses are positive integers, ordered as Ipv4Address is ordered by   *)
(* the std::map; NoAddr is Ipv4Address::GetZero().  Positions are integer  *)
(* points of the plane.  Distances are compared squared and angles by      *)
(* cross products: the comparisons of CalculateDistance and GetAngle.  The *)
(* one rounding of doubles that is modelled is that a trifle is lost next  *)
(* to a distance: two coordinates differ by about a multiple of Grain, or  *)
(* by less than half of it.  (A HELLO delivers such trifles, see GpsrHello.*)
(* With Grain = 1 there are none and the arithmetic is exact.)             *)
(***************************************************************************)
EXTENDS Integers

CONSTANTS EntryLifetime,    \* m_entryLifetime, in clock ticks
          Grain             \* the unit of length, in trifles

ASSUME TableAssumption == EntryLifetime \in Nat \ {0} /\ Grain \in Nat \ {0}

NoAddr == 0
Addr   == Nat \ {NoAddr}

Point == [x : Int, y : Int]

\* GpsrPtable::GetInvalidPosition, the "no position" marker.
InvalidPosition == [x |-> -1, y |-> -1]

\* A neighbour table: a finite partial function on addresses.
IsTable(t) == /\ DOMAIN t \subseteq Addr
              /\ \A n \in DOMAIN t : t[n] \in [pos : Point, time : Nat]

EmptyTable == [n \in {} |-> [pos |-> InvalidPosition, time |-> 0]]

-----------------------------------------------------------------------------
(* Maintenance of the table.                                               *)

\* Fault: the first HELLO of a neighbour stays (insert without the overwrite).
AddEntryOnce(t, n, p, now) ==
  [m \in DOMAIN t \cup {n} |-> IF m \in DOMAIN t THEN t[m] ELSE [pos |-> p, time |-> now]]

\* AddEntry: a later HELLO replaces the earlier one.
AddEntry(t, n, p, now) ==
  [m \in DOMAIN t \cup {n} |-> IF m = n THEN [pos |-> p, time |-> now] ELSE t[m]]

\* An entry is kept strictly less than EntryLifetime after its HELLO.
Current(entry, now) == now < EntryLifetime + entry.time

\* Fault: no purge.
PurgeNothing(t, now) == t

\* Purge: forget every neighbour whose entry has reached its lifetime.
Purge(t, now) == [n \in {m \in DOMAIN t : Current(t[m], now)} |-> t[n]]

DeleteEntry(t, n) == [m \in DOMAIN t \ {n} |-> t[m]]

\* IsNeighbor and GetEntryUpdateTime look the address up and do not purge; GetPosition
\* does.
IsNeighbor(t, n) == n \in DOMAIN t
GetEntryUpdateTime(t, n) == IF n \in DOMAIN t THEN t[n].time ELSE 0
GetPosition(t, n, now) ==
  LET purged == Purge(t, now)
  IN  IF n \in DOMAIN purged THEN purged[n].pos ELSE InvalidPosition

-----------------------------------------------------------------------------
(* Greedy search.                                                          *)

\* A difference without its trifle.
Whole(d) == (d + Grain \div 2) \div Grain

Square(i) == i * i
DistSq(p, q) == Square(Whole(q.x - p.x)) + Square(Whole(q.y - p.y))

\* The neighbours no other neighbour is nearer to dst than.
Nearest(t, dst) ==
  {n \in DOMAIN t : \A m \in DOMAIN t : DistSq(t[n].pos, dst) <= DistSq(t[m].pos, dst)}

\* Fault: the node's own distance is not compared.
BestNeighborAnyDistance(t, dst, me) ==
  LET first == {n \in Nearest(t, dst) : \A m \in Nearest(t, dst) : n <= m}
  IN  IF first = {} THEN NoAddr ELSE CHOOSE n \in first : TRUE

\* BestNeighbor on a purged table: the first address, in map order, among the
\* nearest neighbours, if that neighbour is strictly nearer to dst than the node
\* itself; NoAddr sends the packet to recovery.
BestNeighbor(t, dst, me) ==
  LET closer == {n \in Nearest(t, dst) : DistSq(t[n].pos, dst) < DistSq(me, dst)}
  IN  IF closer = {} THEN NoAddr
      ELSE CHOOSE n \in closer : \A m \in closer : n <= m

-----------------------------------------------------------------------------
(* Perimeter search.                                                       *)

\* Subtraction of doubles.
Minus(a, b) == IF Whole(a - b) = 0 THEN a - b ELSE Grain * Whole(a - b)

Vec(from, to) == [x |-> Minus(to.x, from.x), y |-> Minus(to.y, from.y)]

\* The direction atan2 sees: a trifle counts beside a trifle only, and atan2(0, 0)
\* is 0, the direction of the x axis.
Heading(v) ==
  LET w == [x |-> Whole(v.x), y |-> Whole(v.y)]
  IN  CASE w.x # 0 \/ w.y # 0 -> w
        [] w.x = 0 /\ w.y = 0 /\ (v.x # 0 \/ v.y # 0) -> v
        [] OTHER -> [x |-> 1, y |-> 0]

Cross(u, v) == u.x * v.y - u.y * v.x
Dot(u, v)   == u.x * v.x + u.y * v.y

\* Fault: a vector that points along ref is at 0 degrees, not at 360.
AngleClassNaive(ref, v) ==
  LET turn == Cross(Heading(ref), Heading(v))
  IN  CASE turn > 0 -> 1
        [] turn < 0 -> 3
        [] turn = 0 /\ Dot(Heading(ref), Heading(v)) < 0 -> 2
        [] OTHER -> 0

\* GetAngle from ref to v, up to comparison: 0 is 0 degrees, 1 is (0, 180),
\* 2 is 180, 3 is (180, 360), and 4 is the 360 given to a vector that points
\* along ref without being ref.
AngleClass(ref, v) ==
  LET turn == Cross(Heading(ref), Heading(v))
  IN  CASE turn > 0 -> 1
        [] turn < 0 -> 3
        [] turn = 0 /\ Dot(Heading(ref), Heading(v)) < 0 -> 2
        [] OTHER -> IF ref = v THEN 0 ELSE 4

\* GetAngle(me, prev, p) < GetAngle(me, prev, q).
AngleLess(me, prev, p, q) ==
  LET ref == Vec(me, prev)
      kp  == AngleClass(ref, Vec(me, p))
      kq  == AngleClass(ref, Vec(me, q))
  IN  \/ kp < kq
      \/ /\ kp = kq /\ kp \in {1, 3}
         /\ Cross(Heading(Vec(me, p)), Heading(Vec(me, q))) > 0

\* The neighbours BestAngle looks at: all but those at the previous hop's place.
Candidates(t, prev) == {n \in DOMAIN t : t[n].pos # prev}

\* BestAngle on a purged table: the first address, in map order, among those at
\* the smallest counter-clockwise angle from the edge to the previous hop.  The
\* destination and the place recovery started are passed to it and not used.
BestAngle(t, me, prev) ==
  LET sharpest == {n \in Candidates(t, prev) :
                     \A m \in Candidates(t, prev) :
                        ~AngleLess(me, prev, t[m].pos, t[n].pos)}
      first    == {n \in sharpest : \A m \in sharpest : n <= m}
  IN  IF prev = InvalidPosition \/ first = {} THEN NoAddr
      ELSE CHOOSE n \in first : TRUE
=============================================================================
