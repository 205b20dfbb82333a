----------------------------- MODULE GpsrBeacon -----------------------------
(***************************************************************************)
(* Neighbour discovery: every node broadcasts a HELLO about once per       *)
(* HelloInterval and enters the HELLOs it hears into its neighbour table.  *)
(* Broadcasts may be lost.  A HELLO is on the air for up to MaxDelay, and  *)
(* not for the same time at every node that hears it.                      *)
(***************************************************************************)
EXTENDS GpsrHello

CONSTANTS
  Nodes,
  Hears,            \* the nodes each node is in range of
  Place,            \* the position of each node that has a mobility model
  HelloInterval,    \* m_helloInterval, in ticks
  MaxJitter,        \* GPSR_MAX_JITTER, in ticks
  Jitters,          \* the jitters SendHello may draw
  MaxDelay,         \* the longest a HELLO is on the air
  FirstHello,       \* the delays DoInitialize may draw for the first HELLO
  MaxMissed,        \* bound: HELLOs of one node lost in a row to another one
  EndTime           \* Simulator::Stop

ASSUME BeaconAssumption ==
  /\ Nodes \subseteq Addr
  /\ Hears \in [Nodes -> SUBSET Nodes]
  /\ DOMAIN Place \subseteq Nodes /\ Place \in [DOMAIN Place -> GridPoint]
  /\ HelloInterval \in Nat /\ MaxJitter \in Nat /\ 0 < MaxJitter /\ MaxJitter < HelloInterval
  /\ Jitters \subseteq -MaxJitter .. MaxJitter - 1     \* GetValue(min, max) is below max
  /\ MaxDelay \in Nat /\ MaxDelay < HelloInterval - MaxJitter
  /\ FirstHello \subseteq Nat /\ MaxMissed \in Nat /\ EndTime \in Nat

VARIABLES
  now,           \* Simulator::Now()
  helloTimer,    \* per node, the time m_helloTimer is due, or NoTimer
  air,           \* HELLOs on their way, as [from, to, packet, sent]
  table,         \* m_neighbors of every node
  heard,         \* history: per node, the nodes it has heard
  missed         \* history: per node, how many HELLOs of another were lost in a row

vars == <<now, helloTimer, air, table, heard, missed>>

NoTimer == -1

Init ==
  /\ now = 0 /\ air = {}
  /\ helloTimer \in [Nodes -> FirstHello]
  /\ table = [n \in Nodes |-> EmptyTable]
  /\ heard = [n \in Nodes |-> {}]
  /\ missed = [n \in Nodes |-> [m \in Nodes |-> 0]]

TimerDue(n) == helloTimer[n] # NoTimer /\ helloTimer[n] <= now

Tick ==
  /\ \A h \in air : now < h.sent + MaxDelay
  /\ \A n \in Nodes : ~TimerDue(n)
  /\ now < EndTime
  /\ now' = now + 1
  /\ UNCHANGED <<helloTimer, air, table, heard, missed>>

\* Fault: the jitter is drawn from its whole width instead of around zero.
NextHelloLate(time) == {time + HelloInterval + MaxJitter + j : j \in Jitters}

\* The times SendHello may draw for the next HELLO.
NextHello(time) == {time + HelloInterval + j : j \in Jitters}

\* SendHello: one broadcast, and the next one about an interval later.
SendHello(n) ==
  /\ TimerDue(n)
  /\ n \in DOMAIN Place
  /\ \E t \in NextHello(now) : helloTimer' = [helloTimer EXCEPT ![n] = t]
  /\ air' = air \cup
       {[from |-> n, to |-> m, packet |-> HelloPacket(Place[n]), sent |-> now] :
          m \in {k \in Nodes : n \in Hears[k]}}
  /\ UNCHANGED <<now, table, heard, missed>>

\* Without a mobility model SendHello returns before it sets the timer again.
SendHelloUnplaced(n) ==
  /\ TimerDue(n)
  /\ n \notin DOMAIN Place
  /\ helloTimer' = [helloTimer EXCEPT ![n] = NoTimer]
  /\ UNCHANGED <<now, air, table, heard, missed>>

\* RecvGpsr and UpdateRouteToNeighbor.
RecvGpsr(h) ==
  /\ air' = air \ {h}
  /\ table' = IF IsHello(h.packet)
              THEN [table EXCEPT ![h.to] =
                      AddEntry(@, h.from, HelloPosition(h.packet), now)]
              ELSE table
  /\ heard' = [heard EXCEPT ![h.to] = @ \cup {h.from}]
  /\ missed' = [missed EXCEPT ![h.to][h.from] = 0]
  /\ UNCHANGED <<now, helloTimer>>

\* A collision: nothing acknowledges a broadcast.
Lose(h) ==
  /\ missed[h.to][h.from] < MaxMissed
  /\ air' = air \ {h}
  /\ missed' = [missed EXCEPT ![h.to][h.from] = @ + 1]
  /\ UNCHANGED <<now, helloTimer, table, heard>>

Next ==
  \/ Tick
  \/ \E n \in Nodes : SendHello(n) \/ SendHelloUnplaced(n)
  \/ \E h \in air : RecvGpsr(h) \/ Lose(h)

Spec == Init /\ [][Next]_vars

-----------------------------------------------------------------------------
OnTheAir(m, n) == \E h \in air : h.from = m /\ h.to = n

\* Once heard, a neighbour stays in the purged table until its next HELLO is on its way,
\* as long as no two of its HELLOs are lost in a row, however the jitter of SendHello
\* falls: the entry lifetime of the table spans two intervals and their jitter, and every
\* HELLO is taken for one.  (The lifetime does not span what the second HELLO is longer
\* on the air than the one in the table was.)
OneLossIsHarmless ==
  \A n \in Nodes : \A m \in heard[n] :
    missed[n][m] <= 1 => m \in DOMAIN Purge(table[n], now) \/ OnTheAir(m, n)

\* "Create hello packet with my position": the table holds the position the neighbour
\* announced.
TableHoldsPlaces == \A n \in Nodes : \A m \in DOMAIN table[n] : table[n][m].pos = Place[m]

\* The longest time between two HELLOs of a node, and the shortest.
Gap         == HelloInterval + MaxJitter - 1
ShortestGap == HelloInterval - MaxJitter

\* The entry lifetime outlasts two of them, as 3 s do with an interval of 1 s and a
\* jitter of less than 0.5 s.
LifetimeSpansTwoGaps == 2 * Gap < EntryLifetime

\* What makes OneLossIsHarmless inductive.  The clock gets past no timer, and the timer
\* of a node with a place always runs.
TimersAhead ==
  /\ \A n \in Nodes : helloTimer[n] # NoTimer => now <= helloTimer[n]
  /\ \A n \in DOMAIN Place : helloTimer[n] # NoTimer

\* A HELLO on the air is its sender's last: the next one is due within a gap of it.
AirIsFresh ==
  \A h \in air :
    /\ h.from \in DOMAIN Place /\ h.to \in Nodes /\ h.from \in Hears[h.to]
    /\ h.packet = HelloPacket(Place[h.from])
    /\ h.sent \in Nat /\ h.sent <= now /\ now <= h.sent + MaxDelay
    /\ h.sent + ShortestGap <= helloTimer[h.from] /\ helloTimer[h.from] <= h.sent + Gap
    /\ \A g \in air : g.from = h.from /\ g.to = h.to => g = h

\* With no HELLO lost since the one in the table, the next is due, or was sent, within a
\* gap of it; with one lost, within two.
Awaited(m, n, time) ==
  /\ \A h \in air : h.from = m /\ h.to = n => h.sent <= time
  /\ ~OnTheAir(m, n) => helloTimer[m] <= time
HeardInTime ==
  \A n \in Nodes : \A m \in heard[n] :
    /\ m \in DOMAIN Place /\ m \in Hears[n] /\ m \in DOMAIN table[n]
    /\ table[n][m].time \in Nat
    /\ missed[n][m] = 0 => Awaited(m, n, table[n][m].time + Gap)
    /\ missed[n][m] = 1 => Awaited(m, n, table[n][m].time + 2 * Gap)

BeaconTypeOK ==
  /\ now \in Nat
  /\ helloTimer \in [Nodes -> Nat \cup {NoTimer}]
  /\ DOMAIN table = Nodes
  /\ heard \in [Nodes -> SUBSET Nodes]
  /\ missed \in [Nodes -> [Nodes -> Nat]]

BeaconInv == BeaconTypeOK /\ TimersAhead /\ AirIsFresh /\ HeardInTime
=============================================================================
