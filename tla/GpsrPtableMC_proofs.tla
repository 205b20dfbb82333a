------------------------- MODULE GpsrPtableMC_proofs -------------------------
(***************************************************************************)
(* The neighbour table over time, for any number of neighbours anywhere,   *)
(* and its two searches against the loops of the code.                     *)
(***************************************************************************)
EXTENDS GpsrPtableMC, GpsrPtable_proofs

-----------------------------------------------------------------------------
(* The table over time.                                                    *)

\* The table holds the last HELLO of a neighbour, and what it has forgotten is outdated.
Remembers ==
  /\ now \in Nat
  /\ IsTable(heard) /\ DOMAIN heard \subseteq Nbrs
  /\ \A n \in DOMAIN heard : heard[n].pos \in Places
  /\ DOMAIN table \subseteq DOMAIN heard
  /\ \A n \in DOMAIN table : table[n] = heard[n]
  /\ \A n \in DOMAIN heard \ DOMAIN table : ~Current(heard[n], now)

LEMMA RemembersInit == Init => Remembers
  BY DEF Init, Remembers, EmptyTable, IsTable

LEMMA RemembersNext == Remembers /\ [Next]_vars => Remembers'
<1>. SUFFICES ASSUME Remembers, [Next]_vars PROVE Remembers'
  OBVIOUS
<1>. USE DEF Remembers
<1>1. ASSUME NEW n \in Nbrs, NEW p \in Places, Hello(n, p) PROVE Remembers'
  <2>1. IsTable(heard')
    <3>1. Cardinality(Nbrs) \in Nat
      BY PtableMCAssumption, FS_CardinalityType
    <3>2. n \in Addr /\ p \in Point
      BY <3>1, PtableMCAssumption DEF Addr, NoAddr
    <3>3. DOMAIN heard' = DOMAIN heard \cup {n}
      BY <1>1 DEF Hello, AddEntry
    <3>4. \A m \in DOMAIN heard' : heard'[m] = IF m = n THEN [pos |-> p, time |-> now]
                                               ELSE heard[m]
      BY <1>1 DEF Hello, AddEntry
    <3>. QED BY <3>2, <3>3, <3>4 DEF IsTable
  <2>. QED BY <1>1, <2>1 DEF Hello, AddEntry
<1>2. ASSUME NEW n \in Nbrs, Delete(n) PROVE Remembers'
  BY <1>2 DEF Delete, DeleteEntry, IsTable
<1>3. CASE Clear
  BY <1>3 DEF Clear, EmptyTable, IsTable
<1>4. CASE LookUp
  BY <1>4 DEF LookUp, Purge
<1>5. CASE Tick
  <2>1. \A n \in DOMAIN heard : heard[n].time \in Nat
    BY DEF IsTable
  <2>. QED BY <1>5, <2>1, TableAssumption DEF Tick, Current
<1>6. CASE UNCHANGED vars
  BY <1>6 DEF vars
<1>. QED BY <1>1, <1>2, <1>3, <1>4, <1>5, <1>6 DEF Next

\* However HELLOs, deletions and purges follow each other, a purge leaves exactly the
\* neighbours heard within the entry lifetime, each with its last HELLO.
THEOREM TableHoldsTheRecentlyHeard == Spec => []HoldsTheRecentlyHeard
<1>1. Remembers => HoldsTheRecentlyHeard
  <2>. SUFFICES ASSUME Remembers PROVE HoldsTheRecentlyHeard
    OBVIOUS
  <2>. DEFINE recent == {n \in DOMAIN heard : now - heard[n].time < EntryLifetime}
  <2>1. ASSUME NEW n \in DOMAIN heard
        PROVE  n \in recent <=> Current(heard[n], now)
    BY TableAssumption DEF Remembers, IsTable, Current
  <2>2. /\ recent \subseteq DOMAIN table
        /\ recent = {n \in DOMAIN table : Current(table[n], now)}
        /\ \A n \in recent : table[n] = heard[n]
    BY <2>1 DEF Remembers
  <2>. HIDE DEF recent
  <2>3. Purge(table, now) = [n \in recent |-> heard[n]]
    BY <2>2 DEF Purge
  <2>4. \A n : GetPosition(table, n, now) = IF n \in recent THEN heard[n].pos
                                            ELSE InvalidPosition
    BY <2>3 DEF GetPosition
  <2>5. \A n \in recent : GetEntryUpdateTime(table, n) = heard[n].time
    BY <2>2 DEF GetEntryUpdateTime
  <2>. QED BY <2>3, <2>4, <2>5 DEF HoldsTheRecentlyHeard, recent
<1>. QED BY <1>1, RemembersInit, RemembersNext, PTL DEF Spec

-----------------------------------------------------------------------------
(* The loop of the two searches.                                           *)

\* What one round of the loop makes of the best address so far.
Round(looked, key, n, r) ==
  IF n \notin looked THEN r
  ELSE IF r = NoAddr \/ key[n] < key[r] THEN n
  ELSE r

\* r is the first address with the least key among those of at most n.
FirstLeast(looked, key, n, r) ==
  /\ r = NoAddr => looked \cap 1 .. n = {}
  /\ r # NoAddr =>
       /\ r \in looked \cap 1 .. n
       /\ \A m \in looked \cap 1 .. n : key[r] <= key[m] /\ (key[r] = key[m] => r <= m)

\* A round keeps the result the first with the least key.
LEMMA RoundKeepsFirst ==
  ASSUME NEW looked, NEW key, \A m \in looked : key[m] \in Nat,
         NEW n \in Nat \ {0}, NEW r, FirstLeast(looked, key, n - 1, r)
  PROVE  FirstLeast(looked, key, n, Round(looked, key, n, r))
<1>1. 1 .. n = 1 .. (n - 1) \cup {n} /\ n \notin 1 .. (n - 1) /\ n # NoAddr
  BY DEF NoAddr
<1>2. \A m \in 1 .. (n - 1) : m \in Nat /\ m < n /\ m # NoAddr
  BY DEF NoAddr
<1>3. CASE n \notin looked
  BY <1>1, <1>3 DEF FirstLeast, Round
<1>4. CASE n \in looked /\ r = NoAddr
  <2>1. looked \cap 1 .. n = {n} /\ Round(looked, key, n, r) = n
    BY <1>1, <1>4 DEF FirstLeast, Round
  <2>. QED BY <1>1, <1>4, <2>1 DEF FirstLeast
<1>5. CASE n \in looked /\ r # NoAddr
  <2>1. /\ r \in looked /\ r \in 1 .. (n - 1)
        /\ \A m \in looked \cap 1 .. (n - 1) : key[r] <= key[m] /\ (key[r] = key[m] => r <= m)
    BY <1>5 DEF FirstLeast
  <2>2. Round(looked, key, n, r) = IF key[n] < key[r] THEN n ELSE r
    BY <1>5 DEF Round
  <2>3. CASE key[n] < key[r]
    <3>1. \A m \in looked \cap 1 .. n : key[n] <= key[m] /\ (key[n] = key[m] => n <= m)
      BY <1>1, <1>5, <2>1, <2>3
    <3>. QED BY <1>1, <1>5, <2>2, <2>3, <3>1 DEF FirstLeast
  <2>4. CASE ~(key[n] < key[r])
    <3>1. \A m \in looked \cap 1 .. n : key[r] <= key[m] /\ (key[r] = key[m] => r <= m)
      BY <1>1, <1>2, <1>5, <2>1, <2>4
    <3>. QED BY <1>1, <1>5, <2>1, <2>2, <2>4, <3>1 DEF FirstLeast
  <2>. QED BY <2>3, <2>4
<1>. QED BY <1>3, <1>4, <1>5

\* There is no other first with the least key.
LEMMA FirstIsUnique ==
  ASSUME NEW looked, NEW key, \A m \in looked : key[m] \in Nat,
         NEW n \in Nat, NEW r, NEW s,
         FirstLeast(looked, key, n, r), FirstLeast(looked, key, n, s)
  PROVE  r = s
  BY DEF FirstLeast

\* The loop is well defined, and each of its rounds leaves the first address with the
\* least key among those it has passed.
LEMMA ScanFindsFirst ==
  ASSUME NEW looked, NEW key, \A m \in looked : key[m] \in Nat
  PROVE  FirstLeast(looked, key, Cardinality(Nbrs), Scan(looked, key))
<1>. DEFINE k == Cardinality(Nbrs)
            First(n, r) == FirstLeast(looked, key, n, r)
            IsLoop(f) == f = [n \in 0 .. k |-> IF n = 0 THEN NoAddr
                                               ELSE Round(looked, key, n, f[n - 1])]
            loop == CHOOSE f : IsLoop(f)
<1>1. k \in Nat
  BY PtableMCAssumption, FS_CardinalityType
<1>2. First(0, NoAddr)
  BY DEF FirstLeast
<1>3. \A n \in Nat \ {0} : \A r : First(n - 1, r) => First(n, Round(looked, key, n, r))
  BY RoundKeepsFirst
<1>4. \A n \in Nat : \A r, s : First(n, r) /\ First(n, s) => r = s
  BY FirstIsUnique
<1>5. Scan(looked, key) = loop[k]
  BY DEF Scan, Round
<1>. HIDE DEF k, First
<1>6. \A n \in Nat : \E r : First(n, r)
  <2>. DEFINE without == {n \in Nat : ~\E r : First(n, r)}
  <2>1. SUFFICES ASSUME without # {} PROVE FALSE
    OBVIOUS
  <2>2. PICK n \in without : \A m \in without : n <= m
    <3>1. without \in SUBSET Nat
      OBVIOUS
    <3>. HIDE DEF without
    <3>. QED BY <2>1, <3>1, LeastNatural
  <2>3. n # 0
    BY <1>2
  <2>4. n - 1 \in Nat /\ n - 1 \notin without
    BY <2>2, <2>3
  <2>5. PICK r : First(n - 1, r)
    BY <2>4
  <2>. QED BY <1>3, <2>3, <2>5
<1>7. \E f : IsLoop(f)
  <2>. DEFINE f == [n \in 0 .. k |-> CHOOSE r : First(n, r)]
  <2>1. \A n \in 0 .. k : First(n, f[n])
    BY <1>1, <1>6
  <2>2. f[0] = NoAddr
    BY <1>1, <1>2, <1>4, <2>1
  <2>3. ASSUME NEW n \in 0 .. k, n # 0 PROVE f[n] = Round(looked, key, n, f[n - 1])
    <3>1. n \in Nat \ {0} /\ n - 1 \in 0 .. k
      BY <1>1, <2>3
    <3>2. First(n, f[n]) /\ First(n - 1, f[n - 1])
      BY <2>1, <3>1
    <3>. HIDE DEF f
    <3>. QED BY <1>3, <1>4, <3>1, <3>2
  <2>4. f = [n \in 0 .. k |-> f[n]]
    OBVIOUS
  <2>. HIDE DEF f
  <2>5. IsLoop(f)
    BY <2>2, <2>3, <2>4
  <2>. QED BY <2>5
<1>8. IsLoop(loop)
  BY <1>7
<1>. HIDE DEF loop
<1>9. \A n \in 0 .. k : First(n, loop[n])
  <2>. DEFINE wrong == {n \in 0 .. k : ~First(n, loop[n])}
  <2>1. SUFFICES ASSUME wrong # {} PROVE FALSE
    OBVIOUS
  <2>2. PICK n \in wrong : \A m \in wrong : n <= m
    <3>1. wrong \in SUBSET Nat
      OBVIOUS
    <3>. HIDE DEF wrong
    <3>. QED BY <2>1, <3>1, LeastNatural
  <2>3. loop[n] = IF n = 0 THEN NoAddr ELSE Round(looked, key, n, loop[n - 1])
    BY <1>8
  <2>4. n # 0
    BY <1>2, <2>3
  <2>5. n \in Nat \ {0} /\ n - 1 \in 0 .. k /\ n - 1 \notin wrong
    BY <1>1, <2>2, <2>4
  <2>6. First(n - 1, loop[n - 1])
    BY <2>5
  <2>. QED BY <1>3, <2>3, <2>4, <2>5, <2>6
<1>. QED BY <1>1, <1>5, <1>9 DEF First, k

\* For every table the model can reach, the declarative greedy search agrees with the
\* loop of the code: the first address among the nearest, if it is nearer than the node.
THEOREM GreedySearchIsTheLoop == Spec => []GreedyIsTheScan
<1>1. Remembers => GreedyIsTheScan
  <2>. SUFFICES ASSUME Remembers, NEW dst \in Places
       PROVE  LET t == Purge(table, now)
                  n == ScanNearest(t, dst)
              IN  BestNeighbor(t, dst, Me) =
                    IF n # NoAddr /\ DistSq(Me, dst) > DistSq(t[n].pos, dst) THEN n ELSE NoAddr
    BY DEF GreedyIsTheScan
  <2>. DEFINE t == Purge(table, now)
              n == ScanNearest(t, dst)
              d(m) == DistSq(t[m].pos, dst)
  <2>1. IsTable(t) /\ DOMAIN t \subseteq Nbrs
    BY DEF Remembers, Purge, IsTable
  <2>2. dst \in Point /\ Me \in Point /\ Nbrs = 1 .. Cardinality(Nbrs)
    BY PtableMCAssumption DEF Me, Point
  <2>. HIDE DEF t
  <2>3. /\ n = NoAddr => DOMAIN t \cap 1 .. Cardinality(Nbrs) = {}
        /\ n # NoAddr => /\ n \in DOMAIN t \cap 1 .. Cardinality(Nbrs)
                         /\ \A m \in DOMAIN t \cap 1 .. Cardinality(Nbrs) :
                              d(n) <= d(m) /\ (d(n) = d(m) => n <= m)
    <3>. DEFINE key == [m \in DOMAIN t |-> d(m)]
    <3>1. \A m \in DOMAIN t : key[m] \in Nat
      BY <2>1, <2>2, DistSqIsNat DEF IsTable
    <3>2. FirstLeast(DOMAIN t, key, Cardinality(Nbrs), n)
      <4>1. n = Scan(DOMAIN t, key)
        BY DEF ScanNearest
      <4>. HIDE DEF key, n
      <4>. QED BY <3>1, <4>1, ScanFindsFirst
    <3>. QED BY <3>2 DEF FirstLeast
  <2>4. DistSq(Me, dst) \in Nat /\ \A m \in DOMAIN t : m \in Nat /\ d(m) \in Nat
    BY <2>1, <2>2, DistSqIsNat DEF IsTable, Addr
  <2>. HIDE DEF n
  <2>5. CASE n = NoAddr
    <3>1. DOMAIN t = {}
      BY <2>1, <2>2, <2>3, <2>5
    <3>2. Nearest(t, dst) = {}
      BY <3>1 DEF Nearest
    <3>3. BestNeighbor(t, dst, Me) = NoAddr
      BY <3>2 DEF BestNeighbor
    <3>. QED BY <2>5, <3>3 DEF t, n
  <2>6. CASE n # NoAddr
    <3>1. /\ n \in DOMAIN t
          /\ \A m \in DOMAIN t : d(n) <= d(m) /\ (d(n) = d(m) => n <= m)
      BY <2>1, <2>2, <2>3, <2>6
    <3>2. n \in Nearest(t, dst)
      BY <3>1 DEF Nearest
    <3>3. CASE d(n) < DistSq(Me, dst)
      <4>. DEFINE b == BestNeighbor(t, dst, Me)
      <4>1. b \in Nearest(t, dst) /\ b <= n
        BY <2>1, <3>2, <3>3, GreedyChoice
      <4>2. b \in DOMAIN t /\ d(b) <= d(n)
        BY <3>1, <4>1 DEF Nearest
      <4>. HIDE DEF b, d
      <4>3. b = n
        BY <2>4, <3>1, <4>1, <4>2
      <4>. QED BY <2>4, <2>6, <3>1, <3>3, <4>3 DEF b, d, t, n
    <3>4. CASE ~(d(n) < DistSq(Me, dst))
      <4>1. \A m \in DOMAIN t : DistSq(Me, dst) <= d(m)
        BY <2>4, <3>1, <3>4
      <4>2. BestNeighbor(t, dst, Me) = NoAddr
        BY <2>1, <2>2, <4>1, RecoveryOnlyAtLocalMinimum
      <4>3. ~(DistSq(Me, dst) > d(n))
        BY <2>4, <3>1, <3>4
      <4>. QED BY <4>2, <4>3 DEF t, n
    <3>. QED BY <3>3, <3>4
  <2>. QED BY <2>5, <2>6
<1>. QED BY <1>1, RemembersInit, RemembersNext, PTL DEF Spec

-----------------------------------------------------------------------------
(* The angles of MCPlaces, as seen from Me.                                *)

\* With a grain of 1 the arithmetic is exact.
LEMMA Exact ==
  ASSUME Grain = 1, NEW p \in MCPlaces
  PROVE  /\ Vec(Me, p) = p
         /\ Heading(p) = IF p = Me THEN [x |-> 1, y |-> 0] ELSE p
<1>1. ASSUME NEW i \in Int PROVE Whole(i) = i
  BY DEF Whole
<1>2. p.x \in Int /\ p.y \in Int /\ p = [x |-> p.x, y |-> p.y]
  BY DEF MCPlaces
<1>3. ASSUME NEW i \in Int PROVE Minus(i, 0) = i
  BY <1>1 DEF Minus
<1>4. Vec(Me, p) = p
  BY <1>2, <1>3 DEF Vec, Me
<1>5. p = Me <=> p.x = 0 /\ p.y = 0
  BY <1>2 DEF Me
<1>. DEFINE w == [x |-> Whole(p.x), y |-> Whole(p.y)]
<1>6. w = p
  BY <1>1, <1>2
<1>. HIDE DEF w
<1>7. Heading(p) = IF p = Me THEN [x |-> 1, y |-> 0] ELSE p
  <2>1. Heading(p) = CASE w.x # 0 \/ w.y # 0 -> w
        [] w.x = 0 /\ w.y = 0 /\ (p.x # 0 \/ p.y # 0) -> p
        [] OTHER -> [x |-> 1, y |-> 0]
    BY DEF Heading, w
  <2>. QED BY <1>5, <1>6, <2>1
<1>. QED BY <1>4, <1>7

\* The direction of each place.
LEMMA DirectionTable ==
  ASSUME NEW p \in MCPlaces
  PROVE  /\ p.x >= 0 /\ p.y = 0 => DirectionOf(p) = 0
         /\ p.x = 2 /\ p.y = 1 => DirectionOf(p) = 1
         /\ p.x = 1 /\ p.y = 1 => DirectionOf(p) = 2
         /\ p.x = 0 /\ p.y = 1 => DirectionOf(p) = 3
         /\ p.x = -1 /\ p.y = 1 => DirectionOf(p) = 4
         /\ p.x = -1 /\ p.y = 0 => DirectionOf(p) = 5
         /\ p.x = -1 /\ p.y = -1 => DirectionOf(p) = 6
         /\ p.x = 0 /\ p.y = -1 => DirectionOf(p) = 7
         /\ p.x = 1 /\ p.y = -1 => DirectionOf(p) = 8
<1>1. p.x \in -1 .. 2 /\ p.y \in -1 .. 1 /\ (p = Me <=> p.x = 0 /\ p.y = 0)
  BY DEF MCPlaces, Me
<1>. DEFINE On(i) == \E k \in 1 .. 2 : /\ p.x = k * Directions[i + 1][1]
                                       /\ p.y = k * Directions[i + 1][2]
<1>2. ASSUME p # Me
      PROVE  /\ On(0) <=> p.x > 0 /\ p.y = 0
             /\ On(1) <=> p.x = 2 /\ p.y = 1
             /\ On(2) <=> p.x = 1 /\ p.y = 1
             /\ On(3) <=> p.x = 0 /\ p.y = 1
             /\ On(4) <=> p.x = -1 /\ p.y = 1
             /\ On(5) <=> p.x = -1 /\ p.y = 0
             /\ On(6) <=> p.x = -1 /\ p.y = -1
             /\ On(7) <=> p.x = 0 /\ p.y = -1
             /\ On(8) <=> p.x = 1 /\ p.y = -1
  BY <1>1, <1>2 DEF Directions
<1>3. DirectionOf(p) = IF p = Me THEN 0 ELSE CHOOSE i \in 0 .. 8 : On(i)
  BY DEF DirectionOf
<1>. HIDE DEF On
<1>4. \A i \in 0 .. 8 : i \in {0, 1, 2, 3, 4, 5, 6, 7, 8}
  OBVIOUS
<1>. QED BY <1>1, <1>2, <1>3, <1>4

\* The steps from the direction of r counter-clockwise to that of p, and how many of them
\* stay within 180 degrees.
Turned(r, p) == (DirectionOf(p) - DirectionOf(r)) % 9
Left(i) == IF i \in {0, 1, 6, 7, 8} THEN 4 ELSE 3

\* The direction of each heading.
LEMMA HeadingTable ==
  ASSUME Grain = 1, NEW p \in MCPlaces
  PROVE  LET i == DirectionOf(p)
             h == Heading(p)
         IN  /\ i \in 0 .. 8 /\ h.x \in Int /\ h.y \in Int
             /\ i = 0 => h.x \in {1, 2} /\ h.y = 0
             /\ i = 1 => h.x = 2 /\ h.y = 1
             /\ i = 2 => h.x = 1 /\ h.y = 1
             /\ i = 3 => h.x = 0 /\ h.y = 1
             /\ i = 4 => h.x = -1 /\ h.y = 1
             /\ i = 5 => h.x = -1 /\ h.y = 0
             /\ i = 6 => h.x = -1 /\ h.y = -1
             /\ i = 7 => h.x = 0 /\ h.y = -1
             /\ i = 8 => h.x = 1 /\ h.y = -1
<1>1. p.x \in -1 .. 2 /\ p.y \in -1 .. 1 /\ (p.x = 2 => p.y # -1) /\ (p = Me <=> p.x = 0 /\ p.y = 0)
  BY DEF MCPlaces, Me
<1>2. Heading(p) = IF p = Me THEN [x |-> 1, y |-> 0] ELSE p
  BY Exact
<1>. QED BY <1>1, <1>2, DirectionTable

\* A cross product is positive for the turns to the left; the only direction without one
\* opposite to it is <<2, 1>>.
LEMMA TurnTable ==
  ASSUME Grain = 1, NEW r \in MCPlaces, NEW p \in MCPlaces
  PROVE  LET turn == Cross(Heading(r), Heading(p))
             s    == Turned(r, p)
             l    == Left(DirectionOf(r))
         IN  /\ s \in 0 .. 8 /\ turn \in Int
             /\ turn > 0 <=> s \in 1 .. l
             /\ turn = 0 /\ Dot(Heading(r), Heading(p)) < 0 <=> s = l + 1 /\ DirectionOf(r) # 1
             /\ turn = 0 /\ ~(Dot(Heading(r), Heading(p)) < 0) <=> s = 0
<1>. DEFINE i  == DirectionOf(r)
            j  == DirectionOf(p)
            rx == Heading(r).x
            ry == Heading(r).y
            px == Heading(p).x
            py == Heading(p).y
<1>1. /\ i \in {0, 1, 2, 3, 4, 5, 6, 7, 8} /\ rx \in Int /\ ry \in Int
      /\ i = 0 => rx \in {1, 2} /\ ry = 0
      /\ i = 1 => rx = 2 /\ ry = 1
      /\ i = 2 => rx = 1 /\ ry = 1
      /\ i = 3 => rx = 0 /\ ry = 1
      /\ i = 4 => rx = -1 /\ ry = 1
      /\ i = 5 => rx = -1 /\ ry = 0
      /\ i = 6 => rx = -1 /\ ry = -1
      /\ i = 7 => rx = 0 /\ ry = -1
      /\ i = 8 => rx = 1 /\ ry = -1
  BY HeadingTable
<1>2. /\ j \in {0, 1, 2, 3, 4, 5, 6, 7, 8} /\ px \in Int /\ py \in Int
      /\ j = 0 => px \in {1, 2} /\ py = 0
      /\ j = 1 => px = 2 /\ py = 1
      /\ j = 2 => px = 1 /\ py = 1
      /\ j = 3 => px = 0 /\ py = 1
      /\ j = 4 => px = -1 /\ py = 1
      /\ j = 5 => px = -1 /\ py = 0
      /\ j = 6 => px = -1 /\ py = -1
      /\ j = 7 => px = 0 /\ py = -1
      /\ j = 8 => px = 1 /\ py = -1
  BY HeadingTable
<1>3. /\ Cross(Heading(r), Heading(p)) = rx * py - ry * px
      /\ Dot(Heading(r), Heading(p)) = rx * px + ry * py
      /\ Turned(r, p) = (j - i) % 9
  BY DEF Cross, Dot, Turned
<1>. HIDE DEF i, j, rx, ry, px, py
<1>. DEFINE Goal ==
              LET turn == rx * py - ry * px
                  s    == (j - i) % 9
                  l    == Left(i)
              IN  /\ s \in 0 .. 8 /\ turn \in Int
                  /\ turn > 0 <=> s \in 1 .. l
                  /\ turn = 0 /\ (rx * px + ry * py) < 0 <=> s = l + 1 /\ i # 1
                  /\ turn = 0 /\ ~((rx * px + ry * py) < 0) <=> s = 0
<1>4. ASSUME i = 0 PROVE Goal
  <2>1. ry = 0 /\ Left(i) = 4
    BY <1>1, <1>4 DEF Left
  <2>2. CASE rx = 1
    BY <1>2, <1>4, <2>1, <2>2
  <2>3. CASE rx = 2
    BY <1>2, <1>4, <2>1, <2>3
  <2>. QED BY <1>1, <1>4, <2>2, <2>3
<1>5. ASSUME i = 1 PROVE Goal
  <2>1. rx = 2 /\ ry = 1 /\ Left(i) = 4
    BY <1>1, <1>5 DEF Left
  <2>. QED BY <1>2, <1>5, <2>1
<1>6. ASSUME i = 2 PROVE Goal
  <2>1. rx = 1 /\ ry = 1 /\ Left(i) = 3
    BY <1>1, <1>6 DEF Left
  <2>. QED BY <1>2, <1>6, <2>1
<1>7. ASSUME i = 3 PROVE Goal
  <2>1. rx = 0 /\ ry = 1 /\ Left(i) = 3
    BY <1>1, <1>7 DEF Left
  <2>. QED BY <1>2, <1>7, <2>1
<1>8. ASSUME i = 4 PROVE Goal
  <2>1. rx = -1 /\ ry = 1 /\ Left(i) = 3
    BY <1>1, <1>8 DEF Left
  <2>. QED BY <1>2, <1>8, <2>1
<1>9. ASSUME i = 5 PROVE Goal
  <2>1. rx = -1 /\ ry = 0 /\ Left(i) = 3
    BY <1>1, <1>9 DEF Left
  <2>. QED BY <1>2, <1>9, <2>1
<1>10. ASSUME i = 6 PROVE Goal
  <2>1. rx = -1 /\ ry = -1 /\ Left(i) = 4
    BY <1>1, <1>10 DEF Left
  <2>. QED BY <1>2, <1>10, <2>1
<1>11. ASSUME i = 7 PROVE Goal
  <2>1. rx = 0 /\ ry = -1 /\ Left(i) = 4
    BY <1>1, <1>11 DEF Left
  <2>. QED BY <1>2, <1>11, <2>1
<1>12. ASSUME i = 8 PROVE Goal
  <2>1. rx = 1 /\ ry = -1 /\ Left(i) = 4
    BY <1>1, <1>12 DEF Left
  <2>. QED BY <1>2, <1>12, <2>1
<1>13. Goal
  <2>. HIDE DEF Goal
  <2>. QED BY <1>1, <1>4, <1>5, <1>6, <1>7, <1>8, <1>9, <1>10, <1>11, <1>12
<1>. QED
  <2>. DEFINE s == (j - i) % 9
              turn == rx * py - ry * px
              ahead == rx * px + ry * py
  <2>1. /\ Cross(Heading(r), Heading(p)) = turn
        /\ Dot(Heading(r), Heading(p)) = ahead
        /\ Turned(r, p) = s /\ DirectionOf(r) = i
    BY <1>3 DEF i, j
  <2>2. /\ s \in 0 .. 8 /\ turn \in Int
        /\ turn > 0 <=> s \in 1 .. Left(i)
        /\ turn = 0 /\ ahead < 0 <=> s = Left(i) + 1 /\ i # 1
        /\ turn = 0 /\ ~(ahead < 0) <=> s = 0
    BY <1>13
  <2>. HIDE DEF s, turn, ahead
  <2>. QED BY <2>1, <2>2

\* The comparison by cross products is that of the angles.
LEMMA AngleOfDirections ==
  ASSUME Grain = 1, NEW r \in MCPlaces, NEW p \in MCPlaces, NEW q \in MCPlaces, p # r, q # r
  PROVE  AngleLess(Me, r, p, q) <=> GetAngle(r, p) < GetAngle(r, q)
<1>. DEFINE i == DirectionOf(r)
            j == DirectionOf(p)
            k == DirectionOf(q)
            kp == AngleClass(r, p)
            kq == AngleClass(r, q)
            class(s) == IF s = 0 THEN 4 ELSE IF s \in 1 .. Left(i) THEN 1
                        ELSE IF s = Left(i) + 1 /\ i # 1 THEN 2 ELSE 3
<1>1. AngleLess(Me, r, p, q) <=> \/ kp < kq
                                 \/ kp = kq /\ kp \in {1, 3} /\ Cross(Heading(p), Heading(q)) > 0
  BY Exact DEF AngleLess
<1>2. kp = class(Turned(r, p)) /\ kq = class(Turned(r, q))
  <2>1. ASSUME NEW a \in MCPlaces, a # r PROVE AngleClass(r, a) = class(Turned(r, a))
    <3>. DEFINE turn == Cross(Heading(r), Heading(a))
                s    == Turned(r, a)
                back == Dot(Heading(r), Heading(a)) < 0
    <3>1. /\ s \in 0 .. 8 /\ turn \in Int
          /\ turn > 0 <=> s \in 1 .. Left(i)
          /\ turn = 0 /\ back <=> s = Left(i) + 1 /\ i # 1
          /\ turn = 0 /\ ~back <=> s = 0
      BY TurnTable
    <3>2. AngleClass(r, a) = CASE turn > 0 -> 1
                               [] turn < 0 -> 3
                               [] turn = 0 /\ back -> 2
                               [] OTHER -> 4
      BY <2>1 DEF AngleClass
    <3>. HIDE DEF turn, s, back
    <3>3. AngleClass(r, a) = class(s)
      BY <3>1, <3>2 DEF Left
    <3>. QED BY <3>3 DEF s
  <2>. QED BY <2>1
<1>3. Cross(Heading(p), Heading(q)) > 0 <=> (k - j) % 9 \in 1 .. Left(j)
  BY TurnTable DEF Turned
<1>4. /\ GetAngle(r, p) = IF (j - i) % 9 = 0 THEN 9 ELSE (j - i) % 9
      /\ GetAngle(r, q) = IF (k - i) % 9 = 0 THEN 9 ELSE (k - i) % 9
  BY DEF GetAngle
<1>5. /\ i \in {0, 1, 2, 3, 4, 5, 6, 7, 8} /\ j \in {0, 1, 2, 3, 4, 5, 6, 7, 8}
      /\ k \in {0, 1, 2, 3, 4, 5, 6, 7, 8}
  BY HeadingTable
<1>6. Turned(r, p) = (j - i) % 9 /\ Turned(r, q) = (k - i) % 9
  BY DEF Turned
<1>. HIDE DEF kp, kq, i, j, k
<1>. QED BY <1>1, <1>2, <1>3, <1>4, <1>5, <1>6 DEF Left

\* Among the places of MCPlaces, however many neighbours stand on them, the declarative
\* perimeter search agrees with the loop of the code over the angles (BestAngle, GetAngle).
THEOREM PerimeterSearchIsTheLoop ==
  Grain = 1 /\ Places \subseteq MCPlaces /\ Spec => []PerimeterIsTheSweep
<1>1. ASSUME Grain = 1, Places \subseteq MCPlaces, Remembers PROVE PerimeterIsTheSweep
  <2>. SUFFICES ASSUME NEW prev \in Places, prev # InvalidPosition
       PROVE  LET t == Purge(table, now) IN BestAngle(t, Me, prev) = ScanAngles(t, prev)
    <3>1. ASSUME NEW t PROVE BestAngle(t, Me, InvalidPosition) = NoAddr
      BY DEF BestAngle
    <3>. QED BY <3>1 DEF PerimeterIsTheSweep
  <2>. DEFINE t        == Purge(table, now)
              all      == Candidates(t, prev)
              sharpest == {n \in all : \A m \in all : ~AngleLess(Me, prev, t[m].pos, t[n].pos)}
              first    == {n \in sharpest : \A m \in sharpest : n <= m}
              key      == [n \in DOMAIN t |-> GetAngle(prev, t[n].pos)]
              N        == Cardinality(Nbrs)
              n        == ScanAngles(t, prev)
  <2>1. DOMAIN t \subseteq 1 .. N /\ \A m \in DOMAIN t : t[m].pos \in MCPlaces
    <3>1. DOMAIN t \subseteq Nbrs /\ \A m \in DOMAIN t : t[m].pos \in MCPlaces
      BY <1>1 DEF Remembers, Purge
    <3>. QED BY <3>1, PtableMCAssumption
  <2>2. N \in Nat
    BY PtableMCAssumption, FS_CardinalityType
  <2>. HIDE DEF t, N
  <2>3. all \subseteq DOMAIN t /\ \A m \in all : t[m].pos # prev
    BY DEF Candidates
  <2>4. ASSUME NEW m \in DOMAIN t PROVE key[m] \in Nat /\ key[m] = GetAngle(prev, t[m].pos)
    <3>1. DirectionOf(t[m].pos) \in 0 .. 8 /\ DirectionOf(prev) \in 0 .. 8
      BY <1>1, <2>1, HeadingTable
    <3>. QED BY <3>1 DEF GetAngle
  <2>5. \A l, m \in all : AngleLess(Me, prev, t[l].pos, t[m].pos) <=> key[l] < key[m]
    BY <1>1, <2>1, <2>3, <2>4, AngleOfDirections
  <2>6. FirstLeast(all, key, N, n)
    <3>1. n = Scan(all, key)
      BY DEF ScanAngles, Candidates
    <3>. HIDE DEF all, key, n
    <3>. QED BY <2>3, <2>4, <3>1, ScanFindsFirst DEF N
  <2>7. BestAngle(t, Me, prev) = IF first = {} THEN NoAddr ELSE CHOOSE m \in first : TRUE
    BY DEF BestAngle
  <2>. HIDE DEF all, key, n
  <2>8. CASE n = NoAddr
    <3>1. all = {}
      BY <2>1, <2>3, <2>6, <2>8 DEF FirstLeast
    <3>. QED BY <2>7, <2>8, <3>1 DEF n, t
  <2>9. CASE n # NoAddr
    <3>1. n \in all /\ \A m \in all : key[n] <= key[m] /\ (key[n] = key[m] => n <= m)
      BY <2>1, <2>3, <2>6, <2>9 DEF FirstLeast
    <3>2. \A m \in all : key[m] \in Nat /\ m \in Nat
      BY <2>1, <2>2, <2>3, <2>4
    <3>3. sharpest = {m \in all : key[m] = key[n]}
      BY <2>5, <3>1, <3>2
    <3>4. first = {n}
      BY <3>1, <3>2, <3>3
    <3>. QED BY <2>7, <3>4 DEF n, t
  <2>. QED BY <2>8, <2>9 DEF t
<1>2. Grain = 1 /\ Places \subseteq MCPlaces => [](Grain = 1 /\ Places \subseteq MCPlaces)
  <2>1. Grain = 1 /\ Places \subseteq MCPlaces => (Grain = 1 /\ Places \subseteq MCPlaces)'
    BY DEF MCPlaces
  <2>. QED BY <2>1, PTL
<1>. QED BY <1>1, <1>2, RemembersInit, RemembersNext, PTL DEF Spec
=============================================================================
