-------------------------- MODULE GpsrBeacon_proofs --------------------------
(***************************************************************************)
(* Neighbour discovery with any nodes in any range of each other, and any  *)
(* interval, jitter, delay and entry lifetime: one lost HELLO is harmless. *)
(***************************************************************************)
EXTENDS GpsrBeacon, SequenceTheorems, TLAPS

-----------------------------------------------------------------------------
(* The bytes of a HELLO.                                                   *)

LEMMA HeadOfConcat ==
  ASSUME NEW S, NEW s \in Seq(S), NEW t \in Seq(S), s # <<>>
  PROVE  s \o t \in Seq(S) /\ s \o t # <<>> /\ Head(s \o t) = Head(s)
<1>1. Len(s) \in Nat \ {0} /\ Len(t) \in Nat
  BY LenProperties, EmptySeq
<1>2. /\ s \o t \in Seq(S) /\ Len(s \o t) = Len(s) + Len(t)
      /\ (s \o t)[1] = s[1]
  BY <1>1, ConcatProperties
<1>. DEFINE u == s \o t
<1>. HIDE DEF u
<1>3. u \in Seq(S) /\ Len(u) > 0 /\ u[1] = s[1]
  BY <1>1, <1>2 DEF u
<1>4. u # <<>>
  BY <1>3, EmptySeq
<1>. QED BY <1>3, <1>4 DEF u

\* The image of a coordinate of the grid starts with a zero byte.
LEMMA ImageStartsWithZero ==
  ASSUME NEW c \in 0 .. 4
  PROVE  Image(c) \in Seq(Nat) /\ Image(c) # <<>> /\ Head(Image(c)) = 0
<1>. DEFINE zeros == <<0, 0, 0, 0, 0>>
<1>1. Leading[c + 1] \in Seq(Nat)
  <2>1. /\ Leading[1] = <<0, 0, 0>> /\ Leading[2] = <<0, 89, 64>> /\ Leading[3] = <<0, 105, 64>>
        /\ Leading[4] = <<192, 114, 64>> /\ Leading[5] = <<0, 121, 64>>
    BY DEF Leading
  <2>2. \A k \in 1 .. 5 : Leading[k] \in Seq(Nat)
    <3>1. ASSUME NEW a \in Nat, NEW b \in Nat, NEW e \in Nat PROVE <<a, b, e>> \in Seq(Nat)
      OBVIOUS
    <3>2. /\ Leading[1] \in Seq(Nat) /\ Leading[2] \in Seq(Nat) /\ Leading[3] \in Seq(Nat)
          /\ Leading[4] \in Seq(Nat) /\ Leading[5] \in Seq(Nat)
      BY <2>1, <3>1
    <3>. QED BY <3>2
  <2>. QED BY <2>2
<1>2. zeros \in Seq(Nat) /\ zeros # <<>> /\ Head(zeros) = 0
  OBVIOUS
<1>. HIDE DEF zeros
<1>3. Image(c) = zeros \o Leading[c + 1]
  BY DEF Image, zeros
<1>. QED BY <1>1, <1>2, <1>3, HeadOfConcat

\* What RecvGpsr takes for the type header is the first byte of the x coordinate: a zero,
\* as GPSR_HELLO is, at every point of the grid.
LEMMA EveryHelloIsTakenForOne ==
  ASSUME NEW p \in GridPoint
  PROVE  IsHello(HelloPacket(p))
<1>1. PICK c \in 0 .. 4, d \in 0 .. 4 : p.x = Grain * c /\ p.y = Grain * d
  BY DEF GridPoint, Lines
<1>2. p.x \div Grain = c /\ p.y \div Grain = d
  BY <1>1, TableAssumption
<1>. DEFINE type == <<GPSR_HELLO>> \o <<>>
<1>3. HelloPacket(p) = (Image(c) \o Image(d)) \o type
  BY <1>2 DEF HelloPacket, AddHeader, HelloHeader, TypeHeader
<1>4. type \in Seq(Nat)
  <2>1. <<GPSR_HELLO>> \in Seq(Nat) /\ <<>> \in Seq(Nat)
    BY DEF GPSR_HELLO
  <2>. QED BY <2>1, ConcatProperties
<1>. HIDE DEF type
<1>5. LET coordinates == Image(c) \o Image(d)
      IN  coordinates \in Seq(Nat) /\ coordinates # <<>> /\ Head(coordinates) = 0
  BY ImageStartsWithZero, HeadOfConcat
<1>6. Head(HelloPacket(p)) = 0
  BY <1>3, <1>4, <1>5, HeadOfConcat
<1>. QED BY <1>6 DEF IsHello, GPSR_HELLO

-----------------------------------------------------------------------------
(* The invariant.                                                          *)

USE BeaconAssumption, TableAssumption

\* The next HELLO is later than this one, and within a gap of it (SendHello).
LEMMA HelloTimes ==
  ASSUME NEW time \in Nat, NEW t \in NextHello(time)
  PROVE  /\ t \in Nat /\ t # NoTimer /\ time < t
         /\ time + ShortestGap <= t /\ t <= time + Gap
<1>1. PICK j \in Jitters : t = time + HelloInterval + j
  BY DEF NextHello
<1>2. j \in -MaxJitter .. MaxJitter - 1
  OBVIOUS
<1>. QED BY <1>1, <1>2 DEF NoTimer, Gap, ShortestGap

LEMMA BeaconInit == Init => BeaconInv
<1>. SUFFICES ASSUME Init PROVE BeaconInv
  OBVIOUS
<1>1. BeaconTypeOK
  BY DEF Init, BeaconTypeOK
<1>2. TimersAhead
  BY DEF Init, TimersAhead, NoTimer
<1>3. AirIsFresh /\ HeardInTime
  BY DEF Init, AirIsFresh, HeardInTime
<1>. QED BY <1>1, <1>2, <1>3 DEF BeaconInv

LEMMA BeaconTick == BeaconInv /\ Tick => BeaconInv'
<1>. SUFFICES ASSUME BeaconInv, Tick PROVE BeaconInv'
  OBVIOUS
<1>1. /\ now' = now + 1 /\ now \in Nat /\ \A h \in air : now < h.sent + MaxDelay
      /\ \A n \in Nodes : helloTimer[n] # NoTimer => now < helloTimer[n]
      /\ UNCHANGED <<helloTimer, air, table, heard, missed>>
  BY DEF Tick, TimerDue, BeaconInv, BeaconTypeOK
<1>2. BeaconTypeOK' /\ AirIsFresh'
  BY <1>1 DEF BeaconInv, BeaconTypeOK, AirIsFresh
<1>3. TimersAhead'
  BY <1>1 DEF BeaconInv, BeaconTypeOK, TimersAhead
<1>4. HeardInTime'
  BY <1>1 DEF BeaconInv, HeardInTime, Awaited, OnTheAir
<1>. QED BY <1>2, <1>3, <1>4 DEF BeaconInv

LEMMA BeaconSend ==
  ASSUME BeaconInv, NEW n \in Nodes, SendHello(n)
  PROVE  BeaconInv'
<1>. DEFINE hello(m) == [from |-> n, to |-> m, packet |-> HelloPacket(Place[n]), sent |-> now]
            hearers  == {k \in Nodes : n \in Hears[k]}
            news     == {hello(m) : m \in hearers}
<1>0. now \in Nat /\ Gap \in Nat /\ ShortestGap \in Nat /\ MaxDelay < ShortestGap
  BY DEF BeaconInv, BeaconTypeOK, Gap, ShortestGap
<1>1. PICK t \in NextHello(now) : helloTimer' = [helloTimer EXCEPT ![n] = t]
  BY DEF SendHello
<1>2. /\ n \in DOMAIN Place /\ helloTimer[n] # NoTimer /\ helloTimer[n] = now
      /\ air' = air \cup news /\ UNCHANGED <<now, table, heard, missed>>
  <2>1. /\ n \in DOMAIN Place /\ helloTimer[n] <= now /\ helloTimer[n] # NoTimer
        /\ air' = air \cup news /\ UNCHANGED <<now, table, heard, missed>>
    BY DEF SendHello, TimerDue
  <2>2. now <= helloTimer[n] /\ helloTimer[n] \in Nat
    BY <2>1 DEF BeaconInv, BeaconTypeOK, TimersAhead
  <2>. QED BY <1>0, <2>1, <2>2
<1>3. t \in Nat /\ t # NoTimer /\ now < t /\ now + ShortestGap <= t /\ t <= now + Gap
  BY <1>0, HelloTimes
<1>4. /\ helloTimer'[n] = t /\ \A m \in Nodes \ {n} : helloTimer'[m] = helloTimer[m]
      /\ helloTimer' \in [Nodes -> Nat \cup {NoTimer}]
  BY <1>1, <1>3 DEF BeaconInv, BeaconTypeOK
<1>5. BeaconTypeOK'
  BY <1>2, <1>4 DEF BeaconInv, BeaconTypeOK
<1>6. TimersAhead'
  <2>. HIDE DEF news
  <2>1. now' <= helloTimer'[n] /\ helloTimer'[n] # NoTimer
    BY <1>0, <1>2, <1>3, <1>4
  <2>. QED BY <1>2, <1>4, <2>1 DEF BeaconInv, TimersAhead
<1>7. \A h \in air : h.from # n
  <2>. HIDE DEF news
  <2>1. ASSUME NEW h \in air, h.from = n PROVE FALSE
    <3>1. /\ h.sent \in Nat /\ now <= h.sent + MaxDelay
          /\ h.sent + ShortestGap <= helloTimer[n]
      BY <2>1 DEF BeaconInv, AirIsFresh
    <3>. QED BY <1>0, <1>2, <3>1
  <2>. QED BY <2>1
<1>8. \A h \in news : /\ h.from = n /\ h.to \in Nodes /\ n \in Hears[h.to]
                      /\ h.packet = HelloPacket(Place[h.from]) /\ h.sent = now
                      /\ \A g \in news : g.to = h.to => g = h
  OBVIOUS
<1>9. \A m \in hearers : \E h \in news : h.from = n /\ h.to = m
  <2>1. ASSUME NEW m \in hearers PROVE \E h \in news : h.from = n /\ h.to = m
    <3>1. hello(m) \in news /\ hello(m).from = n /\ hello(m).to = m
      OBVIOUS
    <3>. QED BY <3>1
  <2>. QED BY <2>1
<1>. HIDE DEF news
<1>10. AirIsFresh'
  <2>1. ASSUME NEW h \in air PROVE h.from \in Nodes \ {n}
    BY <1>7 DEF BeaconInv, AirIsFresh
  <2>. DEFINE Fresh(h) ==
         /\ h.from \in DOMAIN Place /\ h.to \in Nodes /\ h.from \in Hears[h.to]
         /\ h.packet = HelloPacket(Place[h.from])
         /\ h.sent \in Nat /\ h.sent <= now /\ now <= h.sent + MaxDelay
         /\ h.sent + ShortestGap <= helloTimer[h.from] /\ helloTimer[h.from] <= h.sent + Gap
  <2>2. ASSUME NEW h \in air PROVE Fresh(h)'
    BY <1>2, <1>4, <2>1 DEF BeaconInv, AirIsFresh
  <2>3. ASSUME NEW h \in news PROVE Fresh(h)'
    BY <1>0, <1>2, <1>3, <1>4, <1>8
  <2>4. ASSUME NEW h \in air', NEW g \in air', g.from = h.from, g.to = h.to PROVE g = h
    BY <1>2, <1>7, <1>8, <2>4 DEF BeaconInv, AirIsFresh
  <2>. QED BY <1>2, <2>2, <2>3, <2>4 DEF AirIsFresh
<1>11. HeardInTime'
  <2>. SUFFICES ASSUME NEW k \in Nodes, NEW m \in heard[k]
                PROVE  /\ missed[k][m] = 0 => Awaited(m, k, table[k][m].time + Gap)'
                       /\ missed[k][m] = 1 => Awaited(m, k, table[k][m].time + 2 * Gap)'
    BY <1>2 DEF BeaconInv, HeardInTime
  <2>0. /\ m \in Nodes /\ m \in Hears[k]
        /\ missed[k][m] = 0 => Awaited(m, k, table[k][m].time + Gap)
        /\ missed[k][m] = 1 => Awaited(m, k, table[k][m].time + 2 * Gap)
    BY DEF BeaconInv, HeardInTime
  <2>1. CASE m = n
    <3>1. ~OnTheAir(m, k)
      BY <1>7, <2>1 DEF OnTheAir
    <3>2. OnTheAir(m, k)'
      BY <1>2, <1>9, <2>0, <2>1 DEF OnTheAir
    <3>3. \A h \in air' : h.from = m => h.sent = now
      BY <1>2, <1>7, <1>8, <2>1
    <3>4. ASSUME NEW time, Awaited(m, k, time) PROVE now <= time
      BY <1>2, <2>1, <3>1, <3>4 DEF Awaited
    <3>5. ASSUME NEW time, Awaited(m, k, time), time' = time PROVE Awaited(m, k, time)'
      BY <3>2, <3>3, <3>4, <3>5 DEF Awaited
    <3>6. /\ (table[k][m].time + Gap)' = table[k][m].time + Gap
          /\ (table[k][m].time + 2 * Gap)' = table[k][m].time + 2 * Gap
      BY <1>2 DEF Gap
    <3>. QED BY <1>2, <2>0, <3>5, <3>6
  <2>2. CASE m # n
    <3>1. \A h : h.from = m => (h \in air' <=> h \in air)
      BY <1>2, <1>8, <2>2
    <3>2. helloTimer'[m] = helloTimer[m]
      BY <1>4, <2>0, <2>2
    <3>. QED BY <1>2, <2>0, <3>1, <3>2 DEF Awaited, OnTheAir
  <2>. QED BY <2>1, <2>2
<1>. QED BY <1>5, <1>6, <1>10, <1>11 DEF BeaconInv

LEMMA BeaconSilent ==
  ASSUME BeaconInv, NEW n \in Nodes, SendHelloUnplaced(n)
  PROVE  BeaconInv'
<1>1. /\ n \notin DOMAIN Place /\ UNCHANGED <<now, air, table, heard, missed>>
      /\ helloTimer'[n] = NoTimer /\ \A m \in Nodes \ {n} : helloTimer'[m] = helloTimer[m]
      /\ helloTimer' \in [Nodes -> Nat \cup {NoTimer}]
  BY DEF SendHelloUnplaced, BeaconInv, BeaconTypeOK
<1>2. BeaconTypeOK' /\ TimersAhead'
  BY <1>1 DEF BeaconInv, BeaconTypeOK, TimersAhead
<1>3. AirIsFresh'
  BY <1>1 DEF BeaconInv, AirIsFresh
<1>4. HeardInTime'
  BY <1>1 DEF BeaconInv, HeardInTime, Awaited, OnTheAir
<1>. QED BY <1>2, <1>3, <1>4 DEF BeaconInv

\* A HELLO leaves the air, received or lost: the next one of its sender is awaited.
LEMMA AirAfter ==
  ASSUME BeaconInv, NEW h \in air, air' = air \ {h}, UNCHANGED <<now, helloTimer>>
  PROVE  /\ AirIsFresh' /\ TimersAhead'
         /\ h.from \in Nodes /\ h.to \in Nodes /\ h.from \in DOMAIN Place
         /\ h.from \in Hears[h.to]
         /\ h.sent \in Nat /\ h.sent <= now /\ helloTimer[h.from] <= h.sent + Gap
         /\ ~OnTheAir(h.from, h.to)'
         /\ \A g : g.from # h.from \/ g.to # h.to => (g \in air' <=> g \in air)
<1>1. AirIsFresh' /\ TimersAhead'
  BY DEF BeaconInv, AirIsFresh, TimersAhead
<1>. QED BY <1>1 DEF BeaconInv, AirIsFresh, OnTheAir

LEMMA BeaconReceive ==
  ASSUME BeaconInv, NEW h \in air, RecvGpsr(h)
  PROVE  BeaconInv'
<1>. DEFINE m == h.from
            n == h.to
<1>1. /\ air' = air \ {h} /\ UNCHANGED <<now, helloTimer>>
      /\ heard' = [heard EXCEPT ![n] = @ \cup {m}]
      /\ missed' = [missed EXCEPT ![n][m] = 0]
  BY DEF RecvGpsr
<1>2. /\ AirIsFresh' /\ TimersAhead'
      /\ m \in Nodes /\ n \in Nodes /\ m \in DOMAIN Place /\ m \in Hears[n]
      /\ h.sent \in Nat /\ h.sent <= now /\ helloTimer[m] <= h.sent + Gap
      /\ ~OnTheAir(m, n)'
      /\ \A g : g.from # m \/ g.to # n => (g \in air' <=> g \in air)
  BY <1>1, AirAfter
<1>3. IsHello(h.packet)
  BY <1>2, EveryHelloIsTakenForOne DEF BeaconInv, AirIsFresh
<1>4. PICK p : table' = [table EXCEPT ![n] = AddEntry(@, m, p, now)]
  BY <1>3 DEF RecvGpsr
<1>5. now \in Nat /\ Gap \in Nat /\ helloTimer[m] \in Int /\ helloTimer[m] <= now + Gap
  BY <1>2 DEF BeaconInv, BeaconTypeOK, Gap, NoTimer
<1>6. /\ heard'[n] = heard[n] \cup {m} /\ \A l \in Nodes \ {n} : heard'[l] = heard[l]
      /\ missed'[n][m] = 0
      /\ \A k, l \in Nodes : k # m \/ l # n => missed'[l][k] = missed[l][k]
  BY <1>1, <1>2 DEF BeaconInv, BeaconTypeOK
<1>7. /\ table'[n] = AddEntry(table[n], m, p, now) /\ DOMAIN table' = Nodes
      /\ \A l \in Nodes \ {n} : table'[l] = table[l]
  BY <1>2, <1>4 DEF BeaconInv, BeaconTypeOK
<1>8. /\ m \in DOMAIN table'[n] /\ table'[n][m].time = now
      /\ \A k \in DOMAIN table[n] \ {m} : k \in DOMAIN table'[n] /\ table'[n][k] = table[n][k]
  BY <1>7 DEF AddEntry
<1>9. BeaconTypeOK'
  <2>1. heard' \in [Nodes -> SUBSET Nodes] /\ missed' \in [Nodes -> [Nodes -> Nat]]
    BY <1>1, <1>2 DEF BeaconInv, BeaconTypeOK
  <2>. QED BY <1>1, <1>7, <2>1 DEF BeaconInv, BeaconTypeOK
<1>. HIDE DEF m, n
<1>10. HeardInTime'
  <2>. DEFINE Fine(k, l) ==
         /\ k \in DOMAIN Place /\ k \in Hears[l] /\ k \in DOMAIN table[l]
         /\ table[l][k].time \in Nat
         /\ missed[l][k] = 0 => Awaited(k, l, table[l][k].time + Gap)
         /\ missed[l][k] = 1 => Awaited(k, l, table[l][k].time + 2 * Gap)
  <2>1. Fine(m, n)'
    <3>1. ~\E g \in air' : g.from = m /\ g.to = n
      BY <1>2 DEF OnTheAir
    <3>2. Awaited(m, n, table[n][m].time + Gap)'
      <4>1. (table[n][m].time + Gap)' = now + Gap
        BY <1>8 DEF Gap
      <4>. QED BY <1>1, <1>5, <3>1, <4>1 DEF Awaited
    <3>. QED BY <1>2, <1>5, <1>6, <1>8, <3>2
  <2>2. ASSUME NEW l \in Nodes, NEW k \in heard'[l], k # m \/ l # n PROVE Fine(k, l)'
    <3>1. k \in heard[l] /\ k \in Nodes
      BY <1>6, <2>2 DEF BeaconInv, BeaconTypeOK
    <3>2. Fine(k, l)
      BY <3>1 DEF BeaconInv, HeardInTime
    <3>3. /\ k \in DOMAIN table'[l] /\ table'[l][k] = table[l][k]
          /\ missed'[l][k] = missed[l][k]
      BY <1>6, <1>7, <1>8, <2>2, <3>1, <3>2
    <3>4. \A g : g.from = k /\ g.to = l => (g \in air' <=> g \in air)
      BY <1>2, <2>2
    <3>. QED BY <1>1, <3>2, <3>3, <3>4 DEF Awaited, OnTheAir
  <2>. QED BY <2>1, <2>2 DEF HeardInTime
<1>. QED BY <1>2, <1>9, <1>10 DEF BeaconInv

LEMMA BeaconLose ==
  ASSUME BeaconInv, NEW h \in air, Lose(h)
  PROVE  BeaconInv'
<1>. DEFINE m == h.from
            n == h.to
<1>1. /\ air' = air \ {h} /\ UNCHANGED <<now, helloTimer, table, heard>>
      /\ missed' = [missed EXCEPT ![n][m] = @ + 1]
  BY DEF Lose
<1>2. /\ AirIsFresh' /\ TimersAhead'
      /\ m \in Nodes /\ n \in Nodes
      /\ h.sent \in Nat /\ helloTimer[m] <= h.sent + Gap /\ ~OnTheAir(m, n)'
      /\ \A g : g.from # m \/ g.to # n => (g \in air' <=> g \in air)
  BY <1>1, AirAfter
<1>3. now \in Nat /\ Gap \in Nat /\ helloTimer[m] \in Nat \cup {NoTimer}
  BY <1>2 DEF BeaconInv, BeaconTypeOK, Gap
<1>4. /\ missed[n][m] \in Nat /\ missed'[n][m] = missed[n][m] + 1
      /\ \A k, l \in Nodes : k # m \/ l # n => missed'[l][k] = missed[l][k]
  BY <1>1, <1>2 DEF BeaconInv, BeaconTypeOK
<1>5. BeaconTypeOK'
  <2>1. missed' \in [Nodes -> [Nodes -> Nat]]
    BY <1>1, <1>2 DEF BeaconInv, BeaconTypeOK
  <2>. QED BY <1>1, <2>1 DEF BeaconInv, BeaconTypeOK
<1>. HIDE DEF m, n
<1>6. HeardInTime'
  <2>. SUFFICES ASSUME NEW l \in Nodes, NEW k \in heard[l]
                PROVE  /\ missed'[l][k] = 0 => Awaited(k, l, table[l][k].time + Gap)'
                       /\ missed'[l][k] = 1 => Awaited(k, l, table[l][k].time + 2 * Gap)'
    BY <1>1 DEF BeaconInv, HeardInTime
  <2>1. /\ k \in Nodes /\ table[l][k].time \in Nat
        /\ missed[l][k] = 0 => Awaited(k, l, table[l][k].time + Gap)
        /\ missed[l][k] = 1 => Awaited(k, l, table[l][k].time + 2 * Gap)
    BY DEF BeaconInv, HeardInTime
  <2>2. CASE k = m /\ l = n
    <3>1. missed'[l][k] # 0
      BY <1>4, <2>2
    <3>2. ASSUME missed'[l][k] = 1 PROVE helloTimer[k] <= table[l][k].time + 2 * Gap
      <4>1. h.sent <= table[l][k].time + Gap
        BY <1>4, <2>1, <2>2, <3>2 DEF Awaited, m, n
      <4>2. /\ table[l][k].time \in Nat /\ helloTimer[k] \in Int /\ h.sent \in Nat
            /\ helloTimer[k] <= h.sent + Gap
        BY <1>2, <1>3, <2>1, <2>2 DEF NoTimer
      <4>. QED BY <1>3, <4>1, <4>2
    <3>3. ~\E g \in air' : g.from = m /\ g.to = n
      BY <1>2 DEF OnTheAir
    <3>4. (table[l][k].time + 2 * Gap)' = table[l][k].time + 2 * Gap
      BY <1>1 DEF Gap
    <3>. QED BY <1>1, <2>2, <3>1, <3>2, <3>3, <3>4 DEF Awaited
  <2>3. CASE k # m \/ l # n
    <3>1. \A g : g.from = k /\ g.to = l => (g \in air' <=> g \in air)
      BY <1>2, <2>3
    <3>. QED BY <1>1, <1>4, <2>1, <2>3, <3>1 DEF Awaited, OnTheAir
  <2>. QED BY <2>2, <2>3
<1>. QED BY <1>2, <1>5, <1>6 DEF BeaconInv

LEMMA BeaconNext == BeaconInv /\ [Next]_vars => BeaconInv'
<1>1. CASE UNCHANGED vars
  BY <1>1 DEF vars, BeaconInv, BeaconTypeOK, TimersAhead, AirIsFresh, HeardInTime, Awaited, OnTheAir
<1>. QED BY <1>1, BeaconTick, BeaconSend, BeaconSilent, BeaconReceive, BeaconLose DEF Next

-----------------------------------------------------------------------------
\* Whatever the interval, the jitter and the time a HELLO is on the air, as long as the
\* entry lifetime outlasts two gaps between HELLOs: a neighbour once heard stays known
\* until its next HELLO is on its way, unless two of its HELLOs in a row are lost.
THEOREM OneLostHelloIsHarmless == LifetimeSpansTwoGaps /\ Spec => []OneLossIsHarmless
<1>1. BeaconInv /\ LifetimeSpansTwoGaps => OneLossIsHarmless
  <2>. SUFFICES ASSUME BeaconInv, LifetimeSpansTwoGaps, NEW n \in Nodes, NEW m \in heard[n],
                       missed[n][m] <= 1,
                       ~OnTheAir(m, n)
                PROVE  m \in DOMAIN Purge(table[n], now)
    BY DEF OneLossIsHarmless
  <2>1. /\ m \in DOMAIN Place /\ m \in DOMAIN table[n]
        /\ table[n][m].time \in Nat /\ now \in Nat /\ Gap \in Nat
    BY DEF BeaconInv, BeaconTypeOK, HeardInTime, Gap
  <2>2. m \in Nodes /\ helloTimer[m] \in Nat /\ now <= helloTimer[m]
    <3>1. m \in Nodes /\ helloTimer[m] # NoTimer
      BY <2>1 DEF BeaconInv, TimersAhead
    <3>2. helloTimer[m] \in Nat \cup {NoTimer} /\ now <= helloTimer[m]
      BY <3>1 DEF BeaconInv, BeaconTypeOK, TimersAhead
    <3>. QED BY <3>1, <3>2
  <2>3. missed[n][m] = 0 \/ missed[n][m] = 1
    <3>1. missed[n][m] \in Nat
      BY <2>2 DEF BeaconInv, BeaconTypeOK
    <3>. QED BY <3>1
  <2>4. now <= table[n][m].time + 2 * Gap
    <3>1. helloTimer[m] <= table[n][m].time + Gap \/ helloTimer[m] <= table[n][m].time + 2 * Gap
      BY <2>3 DEF BeaconInv, HeardInTime, Awaited
    <3>. QED BY <2>1, <2>2, <3>1
  <2>5. Current(table[n][m], now)
    BY <2>1, <2>4 DEF Current, LifetimeSpansTwoGaps
  <2>. QED BY <2>1, <2>5 DEF Purge
<1>2. LifetimeSpansTwoGaps => [](LifetimeSpansTwoGaps)
  <2>1. LifetimeSpansTwoGaps => LifetimeSpansTwoGaps'
    BY DEF LifetimeSpansTwoGaps, Gap
  <2>. QED BY <2>1, PTL
<1>. QED BY <1>1, <1>2, BeaconInit, BeaconNext, PTL DEF Spec
=============================================================================
