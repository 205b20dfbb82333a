------------------------- MODULE GpsrPtable_proofs -------------------------
(***************************************************************************)
(* What the two next-hop searches return, for every neighbour table, and   *)
(* the least element they and the search for the oldest packet rely on.    *)
(***************************************************************************)
EXTENDS GpsrPtable, FiniteSets, FiniteSetTheorems, WellFoundedInduction, TLAPS

\* A non-empty set of naturals has a least element: among the intervals 0 .. x of its
\* elements one is minimal for inclusion.
LEMMA LeastNatural ==
  ASSUME NEW T \in SUBSET Nat, T # {}
  PROVE  \E x \in T : \A y \in T : x <= y
<1>. DEFINE Below == {0 .. x : x \in T}
<1>1. Below \subseteq FiniteSubsetsOf(Nat) /\ Below # {}
  <2>1. ASSUME NEW x \in T PROVE 0 .. x \in FiniteSubsetsOf(Nat)
    <3>1. 0 \in Int /\ x \in Int
      OBVIOUS
    <3>2. IsFiniteSet(0 .. x)
      BY <3>1, FS_Interval, Zenon
    <3>3. 0 .. x \in SUBSET Nat
      OBVIOUS
    <3>. QED BY <3>2, <3>3 DEF FiniteSubsetsOf
  <2>. QED BY <2>1
<1>2. PICK s \in Below : \A u \in Below : <<u, s>> \notin StrictSubsetOrdering(Nat)
  <2>1. IsWellFoundedOn(StrictSubsetOrdering(Nat), FiniteSubsetsOf(Nat))
    BY FS_StrictSubsetOrderingWellFounded
  <2>. HIDE DEF Below
  <2>. QED BY <1>1, <2>1, WFMin, Zenon
<1>3. PICK x \in T : s = 0 .. x
  OBVIOUS
<1>4. ASSUME NEW y \in T, y < x PROVE FALSE
  <2>1. 0 .. y \in Below /\ 0 .. y \subseteq 0 .. x /\ 0 .. x \subseteq Nat /\ 0 .. y # 0 .. x
    <3>1. x \in 0 .. x /\ x \notin 0 .. y
      BY <1>4
    <3>. QED BY <1>4, <3>1
  <2>2. <<0 .. y, 0 .. x>> \in StrictSubsetOrdering(Nat)
    BY <2>1 DEF StrictSubsetOrdering
  <2>. QED BY <2>1, <2>2, <1>2, <1>3
<1>. QED BY <1>4

-----------------------------------------------------------------------------
(* The greedy search.                                                      *)

\* A squared distance of points is a natural number.
LEMMA DistSqIsNat ==
  ASSUME NEW p \in Point, NEW q \in Point
  PROVE  DistSq(p, q) \in Nat
<1>1. ASSUME NEW i \in Int PROVE Whole(i) \in Int
  <2>1. Grain \div 2 \in Int /\ Grain \in Nat /\ Grain > 0
    BY TableAssumption
  <2>. QED BY <2>1 DEF Whole
<1>2. ASSUME NEW i \in Int PROVE Square(i) \in Nat
  BY DEF Square
<1>3. q.x - p.x \in Int /\ q.y - p.y \in Int
  BY DEF Point
<1>. HIDE DEF Square
<1>4. Square(Whole(q.x - p.x)) \in Nat /\ Square(Whole(q.y - p.y)) \in Nat
  BY <1>1, <1>2, <1>3
<1>. QED BY <1>4 DEF DistSq

\* A table with a neighbour has a nearest one.
LEMMA NearestExists ==
  ASSUME NEW t, IsTable(t), DOMAIN t # {}, NEW dst \in Point
  PROVE  Nearest(t, dst) # {}
<1>. DEFINE d(n) == DistSq(t[n].pos, dst)
            far  == {d(n) : n \in DOMAIN t}
<1>1. \A n \in DOMAIN t : d(n) \in Nat
  BY DistSqIsNat DEF IsTable
<1>. HIDE DEF d
<1>2. far \in SUBSET Nat /\ far # {}
  BY <1>1
<1>3. PICK n \in DOMAIN t : \A x \in far : d(n) <= x
  <2>1. \E x \in far : \A y \in far : x <= y
    <3>. HIDE DEF far
    <3>. QED BY <1>2, LeastNatural
  <2>. QED BY <2>1
<1>4. \A m \in DOMAIN t : d(n) <= d(m)
  BY <1>3
<1>. QED BY <1>4 DEF Nearest, d

\* What BestNeighbor returns when some nearest neighbour is nearer than the node.
LEMMA GreedyChoice ==
  ASSUME NEW t, IsTable(t), NEW dst, NEW me,
         NEW m \in Nearest(t, dst), DistSq(t[m].pos, dst) < DistSq(me, dst)
  PROVE  LET n == BestNeighbor(t, dst, me)
         IN  /\ n \in Nearest(t, dst) /\ n # NoAddr /\ n <= m
             /\ DistSq(t[n].pos, dst) < DistSq(me, dst)
<1>. DEFINE closer == {n \in Nearest(t, dst) : DistSq(t[n].pos, dst) < DistSq(me, dst)}
<1>1. m \in closer
  OBVIOUS
<1>2. closer \in SUBSET Addr /\ closer \in SUBSET Nat
  BY DEF Nearest, IsTable, Addr
<1>3. BestNeighbor(t, dst, me) = CHOOSE n \in closer : \A k \in closer : n <= k
  BY <1>1 DEF BestNeighbor
<1>4. /\ BestNeighbor(t, dst, me) \in closer
      /\ \A k \in closer : BestNeighbor(t, dst, me) <= k
  <2>. HIDE DEF closer
  <2>1. \E n \in closer : \A k \in closer : n <= k
    BY <1>1, <1>2, LeastNatural
  <2>. QED BY <1>3, <2>1
<1>5. BestNeighbor(t, dst, me) \in Addr
  BY <1>2, <1>4
<1>. QED BY <1>1, <1>4, <1>5 DEF Addr

\* The greedy search returns no address or a neighbour that is strictly nearer to the
\* destination than the node, and than which no neighbour is nearer (BestNeighbor):
\* every greedy hop makes progress.
THEOREM GreedyProgress ==
  ASSUME NEW t, IsTable(t), NEW dst, NEW me, BestNeighbor(t, dst, me) # NoAddr
  PROVE  LET n == BestNeighbor(t, dst, me)
         IN  /\ n \in DOMAIN t
             /\ DistSq(t[n].pos, dst) < DistSq(me, dst)
             /\ \A m \in DOMAIN t : DistSq(t[n].pos, dst) <= DistSq(t[m].pos, dst)
<1>1. PICK m \in Nearest(t, dst) : DistSq(t[m].pos, dst) < DistSq(me, dst)
  BY DEF BestNeighbor
<1>2. /\ BestNeighbor(t, dst, me) \in Nearest(t, dst)
      /\ DistSq(t[BestNeighbor(t, dst, me)].pos, dst) < DistSq(me, dst)
  BY <1>1, GreedyChoice
<1>. QED BY <1>2 DEF Nearest

\* The greedy search gives up only where no neighbour is nearer to the destination than
\* the node itself (BestNeighbor): recovery starts at a local minimum and nowhere else.
THEOREM RecoveryOnlyAtLocalMinimum ==
  ASSUME NEW t, IsTable(t), NEW dst \in Point, NEW me \in Point
  PROVE  BestNeighbor(t, dst, me) = NoAddr
           <=> \A n \in DOMAIN t : DistSq(me, dst) <= DistSq(t[n].pos, dst)
<1>1. /\ DistSq(me, dst) \in Nat
      /\ \A n \in DOMAIN t : DistSq(t[n].pos, dst) \in Nat
  BY DistSqIsNat DEF IsTable
<1>2. ASSUME NEW n \in DOMAIN t, DistSq(t[n].pos, dst) < DistSq(me, dst)
      PROVE  BestNeighbor(t, dst, me) # NoAddr
  <2>1. PICK m \in Nearest(t, dst) : TRUE
    BY NearestExists
  <2>2. m \in DOMAIN t /\ DistSq(t[m].pos, dst) <= DistSq(t[n].pos, dst)
    BY <2>1 DEF Nearest
  <2>3. DistSq(t[m].pos, dst) < DistSq(me, dst)
    BY <1>1, <1>2, <2>2
  <2>. QED BY <2>1, <2>3, GreedyChoice
<1>3. ASSUME BestNeighbor(t, dst, me) # NoAddr
      PROVE  \E n \in DOMAIN t : DistSq(t[n].pos, dst) < DistSq(me, dst)
  BY <1>3, GreedyProgress
<1>. QED BY <1>1, <1>2, <1>3

-----------------------------------------------------------------------------
(* The perimeter search.                                                   *)

\* The perimeter search returns no address or a neighbour that is not at the previous
\* hop's place (BestAngle).
LEMMA PerimeterHop ==
  ASSUME NEW t, NEW me, NEW prev, BestAngle(t, me, prev) # NoAddr
  PROVE  BestAngle(t, me, prev) \in Candidates(t, prev)
<1>. DEFINE sharpest == {n \in Candidates(t, prev) :
                           \A m \in Candidates(t, prev) : ~AngleLess(me, prev, t[m].pos, t[n].pos)}
            first    == {n \in sharpest : \A m \in sharpest : n <= m}
<1>1. first # {} /\ BestAngle(t, me, prev) = CHOOSE n \in first : TRUE
  BY DEF BestAngle
<1>2. BestAngle(t, me, prev) \in first
  <2>. HIDE DEF first
  <2>. QED BY <1>1
<1>. QED BY <1>2

\* A strict order on a finite set has a minimal element: one with fewest below it.
LEMMA FiniteMinimal ==
  ASSUME NEW S, IsFiniteSet(S), S # {}, NEW L,
         \A a \in S : <<a, a>> \notin L,
         \A a, b, c \in S : <<a, b>> \in L /\ <<b, c>> \in L => <<a, c>> \in L
  PROVE  \E a \in S : \A b \in S : <<b, a>> \notin L
<1>. DEFINE below(a) == {b \in S : <<b, a>> \in L}
            sizes    == {Cardinality(below(a)) : a \in S}
<1>1. ASSUME NEW a \in S PROVE IsFiniteSet(below(a)) /\ Cardinality(below(a)) \in Nat
  <2>1. below(a) \in SUBSET S
    OBVIOUS
  <2>. HIDE DEF below
  <2>2. IsFiniteSet(below(a))
    BY <2>1, FS_Subset
  <2>. QED BY <2>2, FS_CardinalityType
<1>2. PICK a \in S : \A b \in S : Cardinality(below(a)) <= Cardinality(below(b))
  <2>. HIDE DEF below
  <2>1. sizes \in SUBSET Nat /\ sizes # {}
    BY <1>1
  <2>2. \E x \in sizes : \A y \in sizes : x <= y
    <3>. HIDE DEF sizes
    <3>. QED BY <2>1, LeastNatural
  <2>. QED BY <2>2
<1>3. ASSUME NEW b \in S, <<b, a>> \in L PROVE FALSE
  <2>1. below(b) \in SUBSET below(a) /\ b \in below(a) /\ b \notin below(b)
    BY <1>3
  <2>. HIDE DEF below
  <2>2. /\ Cardinality(below(b)) <= Cardinality(below(a))
        /\ Cardinality(below(a)) # Cardinality(below(b))
    BY <1>1, <2>1, FS_Subset
  <2>. QED BY <1>1, <1>2, <2>2
<1>. QED BY <1>3

\* In the plane, turns on the same side of a direction add up to a turn.
LEMMA TurnsAddUp ==
  ASSUME NEW a \in Point, NEW p \in Point, NEW q \in Point, NEW r \in Point,
         Cross(p, q) > 0, Cross(q, r) > 0,
         \/ Cross(a, p) > 0 /\ Cross(a, q) > 0 /\ Cross(a, r) > 0
         \/ Cross(a, p) < 0 /\ Cross(a, q) < 0 /\ Cross(a, r) < 0
  PROVE  Cross(p, r) > 0
<1>1. ASSUME NEW u \in Point, NEW v \in Point PROVE Cross(u, v) \in Int
  BY DEF Cross, Point
<1>2. Cross(a, q) * Cross(p, r) = Cross(a, p) * Cross(q, r) + Cross(a, r) * Cross(p, q)
  <2>1. /\ a.x \in Int /\ a.y \in Int /\ p.x \in Int /\ p.y \in Int
        /\ q.x \in Int /\ q.y \in Int /\ r.x \in Int /\ r.y \in Int
    BY DEF Point
  <2>2. (a.x * q.y - a.y * q.x) * (p.x * r.y - p.y * r.x)
          = (a.x * p.y - a.y * p.x) * (q.x * r.y - q.y * r.x)
              + (a.x * r.y - a.y * r.x) * (p.x * q.y - p.y * q.x)
    BY <2>1
  <2>. QED BY <2>2, Zenon DEF Cross
<1>3. ASSUME NEW i \in Int, NEW j \in Int, NEW k \in Int, NEW l \in Int, NEW m \in Int,
             NEW n \in Int, i * j = k * l + m * n, l > 0, n > 0,
             (i > 0 /\ k > 0 /\ m > 0) \/ (i < 0 /\ k < 0 /\ m < 0)
      PROVE  j > 0
  <2>1. ASSUME NEW b \in Int, NEW c \in Int, b > 0, c > 0 PROVE b * c > 0
    BY <2>1
  <2>2. CASE i > 0 /\ k > 0 /\ m > 0
    <3>1. i * j > 0
      BY <1>3, <2>1, <2>2
    <3>. QED BY <1>3, <2>2, <3>1
  <2>3. CASE i < 0 /\ k < 0 /\ m < 0
    <3>1. (-k) * l > 0 /\ (-m) * n > 0
      BY <1>3, <2>1, <2>3
    <3>2. (-k) * l = -(k * l) /\ (-m) * n = -(m * n)
      BY <1>3
    <3>3. i * j < 0
      BY <1>3, <3>1, <3>2
    <3>. QED BY <1>3, <2>3, <3>3
  <2>. QED BY <1>3, <2>2, <2>3
<1>. HIDE DEF Cross
<1>. QED BY <1>1, <1>2, <1>3

\* The comparison of angles is a strict order: it can have no cycle.
LEMMA AngleOrder ==
  ASSUME NEW me \in Point, NEW prev \in Point
  PROVE  /\ \A p \in Point : ~AngleLess(me, prev, p, p)
         /\ \A p, q, r \in Point :
              AngleLess(me, prev, p, q) /\ AngleLess(me, prev, q, r) => AngleLess(me, prev, p, r)
<1>. DEFINE a    == Heading(Vec(me, prev))
            h(p) == Heading(Vec(me, p))
            k(p) == AngleClass(Vec(me, prev), Vec(me, p))
<1>1. ASSUME NEW i \in Int PROVE Whole(i) \in Int
  <2>1. Grain \div 2 \in Int /\ Grain \in Nat /\ Grain > 0
    BY TableAssumption
  <2>. QED BY <2>1 DEF Whole
<1>2. ASSUME NEW p \in Point PROVE h(p) \in Point
  <2>1. Vec(me, p) \in Point
    <3>1. ASSUME NEW b \in Int, NEW c \in Int PROVE Minus(b, c) \in Int
      <4>1. b - c \in Int /\ Whole(b - c) \in Int /\ Grain \in Int
        BY <1>1, TableAssumption
      <4>. QED BY <4>1 DEF Minus
    <3>. QED BY <3>1 DEF Vec, Point
  <2>2. ASSUME NEW v \in Point PROVE Heading(v) \in Point
    <3>1. Whole(v.x) \in Int /\ Whole(v.y) \in Int
      BY <1>1 DEF Point
    <3>. DEFINE w == [x |-> Whole(v.x), y |-> Whole(v.y)]
    <3>2. w \in Point /\ [x |-> 1, y |-> 0] \in Point
      BY <3>1 DEF Point
    <3>3. Heading(v) = w \/ Heading(v) = v \/ Heading(v) = [x |-> 1, y |-> 0]
      BY DEF Heading
    <3>. HIDE DEF w
    <3>. QED BY <3>2, <3>3
  <2>. QED BY <2>1, <2>2
<1>3. ASSUME NEW p \in Point
      PROVE  /\ k(p) \in 0 .. 4
             /\ k(p) = 1 <=> Cross(a, h(p)) > 0
             /\ k(p) = 3 <=> Cross(a, h(p)) < 0
  <2>1. Cross(a, h(p)) \in Int
    <3>1. a \in Point /\ h(p) \in Point
      BY <1>2
    <3>. HIDE DEF a, h
    <3>. QED BY <3>1 DEF Cross, Point
  <2>. QED BY <2>1 DEF AngleClass
<1>4. ASSUME NEW p \in Point, NEW q \in Point
      PROVE  AngleLess(me, prev, p, q)
               <=> \/ k(p) < k(q)
                   \/ k(p) = k(q) /\ k(p) \in {1, 3} /\ Cross(h(p), h(q)) > 0
  BY DEF AngleLess
<1>5. a \in Point
  BY <1>2
<1>. HIDE DEF a, h, k
<1>6. ASSUME NEW p \in Point PROVE ~AngleLess(me, prev, p, p)
  <2>1. h(p).x \in Int /\ h(p).y \in Int
    BY <1>2 DEF Point
  <2>2. Cross(h(p), h(p)) = 0
    BY <2>1 DEF Cross
  <2>. QED BY <1>3, <1>4, <2>2
<1>7. ASSUME NEW p \in Point, NEW q \in Point, NEW r \in Point,
             AngleLess(me, prev, p, q), AngleLess(me, prev, q, r)
      PROVE  AngleLess(me, prev, p, r)
  <2>1. CASE k(p) < k(q) \/ k(q) < k(r)
    <3>1. k(p) < k(r)
      BY <1>3, <1>4, <1>7, <2>1
    <3>. QED BY <1>4, <3>1
  <2>2. CASE ~(k(p) < k(q) \/ k(q) < k(r))
    <3>1. /\ k(p) = k(q) /\ k(q) = k(r) /\ k(p) \in {1, 3}
          /\ Cross(h(p), h(q)) > 0 /\ Cross(h(q), h(r)) > 0
      BY <1>4, <1>7, <2>2
    <3>2. Cross(h(p), h(r)) > 0
      BY <1>2, <1>3, <1>5, <3>1, TurnsAddUp
    <3>. QED BY <1>4, <3>1, <3>2
  <2>. QED BY <2>1, <2>2
<1>. QED BY <1>6, <1>7

\* The perimeter search finds a hop whenever there is a neighbour away from the previous
\* hop's place and a position to turn from, and what it finds is a neighbour no other is
\* reached before, turning counter-clockwise from that position (BestAngle).
THEOREM PerimeterSearch ==
  ASSUME NEW t, IsTable(t), IsFiniteSet(DOMAIN t), NEW me \in Point, NEW prev \in Point
  PROVE  LET n == BestAngle(t, me, prev)
         IN  /\ n = NoAddr <=> prev = InvalidPosition \/ Candidates(t, prev) = {}
             /\ n # NoAddr => /\ n \in Candidates(t, prev)
                              /\ \A m \in Candidates(t, prev) :
                                   ~AngleLess(me, prev, t[m].pos, t[n].pos)
<1>. DEFINE all      == Candidates(t, prev)
            sharpest == {n \in all : \A m \in all : ~AngleLess(me, prev, t[m].pos, t[n].pos)}
            first    == {n \in sharpest : \A m \in sharpest : n <= m}
            L        == {e \in all \X all : AngleLess(me, prev, t[e[1]].pos, t[e[2]].pos)}
<1>1. /\ all \subseteq DOMAIN t
      /\ \A n \in all : n \in Addr /\ n \in Nat /\ n # NoAddr /\ t[n].pos \in Point
  BY DEF Candidates, IsTable, Addr
<1>2. IsFiniteSet(all)
  BY <1>1, FS_Subset
<1>3. BestAngle(t, me, prev) = IF prev = InvalidPosition \/ first = {} THEN NoAddr
                               ELSE CHOOSE n \in first : TRUE
  BY DEF BestAngle
<1>. HIDE DEF all
<1>4. ASSUME all # {} PROVE first # {}
  <2>1. \E n \in all : \A m \in all : <<m, n>> \notin L
    <3>1. \A n \in all : <<n, n>> \notin L
      BY <1>1, AngleOrder
    <3>2. \A n, m, l \in all : <<n, m>> \in L /\ <<m, l>> \in L => <<n, l>> \in L
      BY <1>1, AngleOrder
    <3>. HIDE DEF L
    <3>. QED BY <1>2, <1>4, <3>1, <3>2, FiniteMinimal
  <2>2. sharpest # {} /\ sharpest \in SUBSET Nat
    BY <1>1, <2>1
  <2>. HIDE DEF sharpest
  <2>. QED BY <2>2, LeastNatural
<1>5. first # {} => (CHOOSE n \in first : TRUE) \in first
  <2>. HIDE DEF first
  <2>. QED OBVIOUS
<1>6. first \subseteq sharpest /\ sharpest \subseteq all
  OBVIOUS
<1>7. BestAngle(t, me, prev) # NoAddr => BestAngle(t, me, prev) \in sharpest
  <2>. HIDE DEF first, sharpest
  <2>. QED BY <1>3, <1>5, <1>6
<1>8. BestAngle(t, me, prev) = NoAddr <=> prev = InvalidPosition \/ all = {}
  <2>. HIDE DEF first, sharpest
  <2>. QED BY <1>1, <1>3, <1>4, <1>5, <1>6
<1>. QED BY <1>7, <1>8 DEF all
=============================================================================
