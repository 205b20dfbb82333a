------------------------- MODULE GpsrService_proofs -------------------------
(***************************************************************************)
(* What the queue and the next hop of a packet never do, and the agent as  *)
(* an implementation of PacketService.                                     *)
(***************************************************************************)
EXTENDS GpsrNode_proofs, GpsrPtable_proofs

-----------------------------------------------------------------------------
(* The queue: bounded, and without twins.                                  *)

\* m_queue.front() exists whenever the queue is not empty.
LEMMA FrontExists ==
  ASSUME NEW q, q # {}, \A e \in q : e.uid \in Nat
  PROVE  Front(q) # {}
<1>. DEFINE T == {e.uid : e \in q}
<1>1. T \in SUBSET Nat /\ T # {}
  OBVIOUS
<1>2. PICK x \in T : \A y \in T : x <= y
  <2>. HIDE DEF T
  <2>. QED BY <1>1, LeastNatural
<1>3. PICK e \in q : e.uid = x
  OBVIOUS
<1>. QED BY <1>2, <1>3 DEF Front

\* A queue of packets is bounded when it is finite and no longer than m_maxLen.
Bounded(q) == IsFiniteSet(q) /\ Cardinality(q) <= MaxQueueLen

\* Whatever is taken out, a bounded queue stays bounded.
LEMMA ShrinkBounded ==
  ASSUME NEW q, Bounded(q), NEW keep \in SUBSET q
  PROVE  Bounded(keep)
<1>1. IsFiniteSet(keep) /\ Cardinality(keep) <= Cardinality(q)
  BY FS_Subset DEF Bounded
<1>2. Cardinality(keep) \in Nat /\ Cardinality(q) \in Nat
  BY <1>1, FS_CardinalityType DEF Bounded
<1>. QED BY <1>1, <1>2, QueueAssumption DEF Bounded

\* Enqueue makes room before it adds: the equality test is enough because the queue
\* never gets past m_maxLen.
LEMMA EnqueueBounded ==
  ASSUME NEW q, Bounded(q), \A e \in q : e.uid \in Nat, NEW u, NEW h, NEW time
  PROVE  Bounded(Enqueue(q, u, h, time))
<1>0. Cardinality(q) \in Nat /\ IsFiniteSet(q)
  BY FS_CardinalityType DEF Bounded
<1>1. IsFiniteSet(MakeRoom(q)) /\ Cardinality(MakeRoom(q)) < MaxQueueLen
  <2>1. CASE Cardinality(q) = MaxQueueLen
    <3>1. q # {}
      BY <2>1, FS_EmptySet, QueueAssumption
    <3>2. PICK e : e \in Front(q)
      BY <3>1, FrontExists
    <3>3. MakeRoom(q) \subseteq q /\ e \in q /\ MakeRoom(q) # q
      BY <2>1, <3>2 DEF MakeRoom, Front
    <3>4. IsFiniteSet(MakeRoom(q)) /\ Cardinality(MakeRoom(q)) <= Cardinality(q)
      BY <1>0, <3>3, FS_Subset
    <3>5. Cardinality(MakeRoom(q)) # Cardinality(q)
      BY <1>0, <3>3, FS_Subset
    <3>6. Cardinality(MakeRoom(q)) \in Nat
      BY <3>4, FS_CardinalityType
    <3>. QED BY <2>1, <1>0, <3>4, <3>5, <3>6
  <2>2. CASE Cardinality(q) # MaxQueueLen
    BY <1>0, <2>2, QueueAssumption DEF Bounded, MakeRoom
  <2>. QED BY <2>1, <2>2
<1>2. /\ IsFiniteSet(MakeRoom(q) \cup {NewEntry(u, h, time)})
      /\ Cardinality(MakeRoom(q) \cup {NewEntry(u, h, time)}) <= Cardinality(MakeRoom(q)) + 1
  <2>1. Cardinality(MakeRoom(q)) \in Nat
    BY <1>1, FS_CardinalityType
  <2>. QED BY <1>1, <2>1, FS_AddElement
<1>3. /\ Cardinality(MakeRoom(q) \cup {NewEntry(u, h, time)}) \in Nat
      /\ Cardinality(MakeRoom(q)) \in Nat
  BY <1>1, <1>2, FS_CardinalityType
<1>. QED BY <1>1, <1>2, <1>3, QueueAssumption DEF Bounded, Enqueue

\* A step shortens the queue or enqueues one packet that is not a duplicate.
LEMMA QueueSteps ==
  ASSUME [Next]_vars
  PROVE  \/ queue' \subseteq queue
         \/ \E p \in lo : LET live == PurgeQueue(queue, now)
                          IN  /\ ~Duplicate(live, p.hdr)
                              /\ queue' = Enqueue(live, p.uid, p.hdr, now)
<1>1. CASE \/ Tick \/ CheckQueue \/ FinishCheck \/ UNCHANGED vars
           \/ (\E n \in Nbrs : RecvGpsr(n)) \/ (\E d \in Flaky : ChangeNodeList(d))
           \/ (\E d \in Dsts : RouteOutputUnlocated(d) \/ RouteOutputLocated(d))
           \/ (\E p \in Front(lo) : ForwardingGreedy(p))
  <2>1. UNCHANGED queue
    BY <1>1 DEF Tick, CheckQueue, FinishCheck, RecvGpsr, ChangeNodeList, vars,
                RouteOutputUnlocated, RouteOutputLocated, ForwardingGreedy
  <2>. QED BY <2>1
<1>2. ASSUME NEW p \in Front(lo), DeferredRouteOutput(p)
      PROVE  \/ queue' \subseteq queue
             \/ LET live == PurgeQueue(queue, now)
                IN  /\ ~Duplicate(live, p.hdr)
                    /\ queue' = Enqueue(live, p.uid, p.hdr, now)
  BY <1>2 DEF DeferredRouteOutput, PurgeQueue
<1>3. ASSUME NEW o \in pending, SendNothing(o) \/ SendUnlocated(o) \/ SendNext(o)
      PROVE  queue' \subseteq queue
  BY <1>3 DEF SendNothing, SendUnlocated, SendNext, PurgeQueue
<1>. QED BY <1>1, <1>2, <1>3
         DEF Next, Simulator, Surroundings, RouteInput, SendPacketFromQueue, Front

QueueOK == Bounded(queue) /\ NoTwins

LEMMA QueueInit == Init => QueueOK
  BY FS_EmptySet, QueueAssumption DEF Init, QueueOK, Bounded, NoTwins

LEMMA QueueStep == TypeOK /\ QueueOK /\ [Next]_vars => QueueOK'
<1>. SUFFICES ASSUME TypeOK, QueueOK, [Next]_vars PROVE QueueOK'
  OBVIOUS
<1>1. CASE queue' \subseteq queue
  <2>1. Bounded(queue')
    BY <1>1, ShrinkBounded DEF QueueOK
  <2>. QED BY <1>1, <2>1 DEF QueueOK, NoTwins, Bounded
<1>2. ASSUME NEW p \in lo, ~Duplicate(PurgeQueue(queue, now), p.hdr),
             queue' = Enqueue(PurgeQueue(queue, now), p.uid, p.hdr, now)
      PROVE  QueueOK'
  <2>. DEFINE live == PurgeQueue(queue, now)
  <2>1. Bounded(live)
    <3>1. live \in SUBSET queue
      BY DEF PurgeQueue
    <3>. QED BY <3>1, ShrinkBounded DEF QueueOK
  <2>2. Bounded(queue')
    <3>1. \A e \in live : e.uid \in Nat
      BY DEF TypeOK, PurgeQueue, Uid
    <3>. HIDE DEF live
    <3>. QED BY <1>2, <2>1, <3>1, EnqueueBounded DEF live
  <2>3. NoTwins'
    <3>1. live \subseteq queue /\ MakeRoom(live) \subseteq live
      BY DEF PurgeQueue, MakeRoom
    <3>2. \A e \in MakeRoom(live) : e.hdr # p.hdr
      BY <1>2, <3>1 DEF Duplicate
    <3>. QED BY <1>2, <3>1, <3>2 DEF QueueOK, NoTwins, Enqueue, NewEntry
  <2>. QED BY <2>2, <2>3 DEF QueueOK, Bounded
<1>. QED BY <1>1, <1>2, QueueSteps

LEMMA QueueHolds == Spec => []QueueOK
<1>1. Init => TypeOK /\ QueueOK
  BY TypeInit, QueueInit
<1>2. TypeOK /\ QueueOK /\ [Next]_vars => TypeOK' /\ QueueOK'
  BY TypeStep, QueueStep
<1>. QED BY <1>1, <1>2, PTL DEF Spec

\* The queue never exceeds its maximum length, whatever that is (the equality test in
\* Enqueue).
THEOREM QueueIsBounded == Spec => []QueueBound
<1>1. QueueOK => QueueBound
  BY DEF QueueOK, Bounded, QueueBound
<1>. QED BY <1>1, QueueHolds, PTL

\* The queue never holds two packets with the same IP header, however often
\* identifications repeat (the duplicate check in Enqueue).
THEOREM NoTwinsInQueue == Spec => []NoTwins
<1>1. QueueOK => NoTwins
  BY DEF QueueOK
<1>. QED BY <1>1, QueueHolds, PTL

-----------------------------------------------------------------------------
(* What a step may never do.                                               *)

\* Only three actions send a packet.
LEMMA SendSteps ==
  ASSUME [Next]_vars
  PROVE  \/ UNCHANGED sent
         \/ \E d \in Dsts : RouteOutputLocated(d)
         \/ \E p \in Front(lo) : ForwardingGreedy(p)
         \/ \E o \in pending : SendNext(o)
  BY DEF Next, Simulator, Surroundings, RouteInput, SendPacketFromQueue, Tick, CheckQueue,
         FinishCheck, RecvGpsr, ChangeNodeList, RouteOutputUnlocated, DeferredRouteOutput,
         SendNothing, SendUnlocated, vars, historyVars

\* A packet whose time in the queue is over is never sent, whatever the lifetime of
\* packets and the period of the checks.
THEOREM NeverLate == Spec => NoLateSend
<1>1. ASSUME TypeOK, Custody, [Next]_vars, NEW e \in queue, e.uid \in Uids(sent') \ Uids(sent)
      PROVE  now <= e.expire
  <2>1. e.uid \in 1 .. arrived /\ arrived \in Nat /\ e.uid \notin Uids(lo)
    BY <1>1 DEF Custody, KnownUids, OneVerdict, InFlight, Uids, TypeOK
  <2>2. CASE UNCHANGED sent
    BY <1>1, <2>2
  <2>3. ASSUME NEW d \in Dsts, RouteOutputLocated(d) PROVE FALSE
    <3>1. e.uid # arrived + 1
      BY <2>1
    <3>2. UNCHANGED sent \/ \E s : s.uid = arrived + 1 /\ sent' = sent \cup {s}
      BY <2>3 DEF RouteOutputLocated, uid
    <3>. QED BY <1>1, <3>1, <3>2 DEF Uids
  <2>4. ASSUME NEW p \in Front(lo), ForwardingGreedy(p) PROVE FALSE
    <3>1. PICK hop : Dispatch(p.uid, p.hdr.dst, hop, "forward", {})
      BY <2>4 DEF ForwardingGreedy
    <3>. QED BY <1>1, <2>1, <3>1 DEF Dispatch, Uids, Front
  <2>5. ASSUME NEW o \in pending, SendNext(o) PROVE now <= e.expire
    <3>1. PICK f \in PurgeQueue(queue, now) : \E hop :
            Dispatch(f.uid, o.dst, hop, "queue", Uids(queue \ PurgeQueue(queue, now)))
      BY <2>5 DEF SendNext, Front, ForDst
    <3>2. f.uid = e.uid /\ f \in queue
      BY <1>1, <3>1 DEF Dispatch, Uids, PurgeQueue
    <3>3. f = e
      BY <1>1, <3>2 DEF Custody, DistinctUids
    <3>. QED BY <1>1, <3>3 DEF PurgeQueue, Outdated, TypeOK
  <2>. QED BY <1>1, <2>2, <2>3, <2>4, <2>5, SendSteps
<1>2. TypeOK /\ Custody /\ [Next]_vars
        => [\A e \in queue : e.uid \in Uids(sent') \ Uids(sent) => now <= e.expire]_vars
  BY <1>1
<1>. QED BY <1>2, CustodyHolds, PTL DEF Spec, NoLateSend

\* The hop NextHop finds is a neighbour whose entry is current.
LEMMA HopIsCurrent ==
  ASSUME TypeOK, NEW goal, NEW prev, NextHop(goal, prev) # NoAddr
  PROVE  /\ NextHop(goal, prev) \in DOMAIN table
         /\ Current(table[NextHop(goal, prev)], now)
<1>. DEFINE t == Purge(table, now)
<1>1. IsTable(t)
  BY PurgeKeepsTable DEF TypeOK
<1>2. CASE GreedyHop(goal) # NoAddr
  <2>1. NextHop(goal, prev) = GreedyHop(goal) /\ GreedyHop(goal) = BestNeighbor(t, goal, MyPos)
    BY <1>2 DEF NextHop, GreedyHop
  <2>2. GreedyHop(goal) \in DOMAIN t
    BY <1>1, <1>2, <2>1, GreedyProgress
  <2>. QED BY <2>1, <2>2 DEF Purge
<1>3. CASE GreedyHop(goal) = NoAddr
  <2>1. NextHop(goal, prev) = BestAngle(t, MyPos, prev)
    BY <1>3 DEF NextHop
  <2>2. NextHop(goal, prev) \in DOMAIN t
    BY <2>1, PerimeterHop DEF Candidates
  <2>. QED BY <2>2 DEF Purge
<1>. QED BY <1>2, <1>3

\* A packet goes to a neighbour heard within the entry lifetime or, sent at once, to its
\* own destination, in every topology.
THEOREM NextHopIsFresh == Spec => FreshNextHop
<1>. DEFINE Fresh(s) == \/ s.how = "direct" /\ s.via = s.dst
                        \/ s.via \in DOMAIN table /\ Current(table[s.via], now)
<1>1. ASSUME TypeOK, [Next]_vars, NEW s \in sent' \ sent PROVE Fresh(s)
  <2>1. ASSUME NEW d \in Dsts, RouteOutputLocated(d) PROVE Fresh(s)
    <3>1. /\ OutputHop(d) \in Resolves
          /\ s = [uid |-> uid, dst |-> d, via |-> OutputHop(d), how |-> "direct"]
      BY <1>1, <2>1 DEF RouteOutputLocated
    <3>2. s.how = "direct" /\ s.via = OutputHop(d) /\ s.dst = d
      BY <3>1
    <3>3. CASE IsNeighbor(table, d)
      BY <3>2, <3>3 DEF OutputHop
    <3>4. CASE ~IsNeighbor(table, d)
      <4>. DEFINE t == Purge(table, now)
      <4>1. OutputHop(d) = BestNeighbor(t, Pos[d], MyPos)
        BY <3>4 DEF OutputHop, TableConsulted
      <4>2. OutputHop(d) # NoAddr
        BY <3>1, NodeAssumption DEF Addr
      <4>3. IsTable(t)
        BY <1>1, PurgeKeepsTable DEF TypeOK
      <4>4. OutputHop(d) \in DOMAIN t
        BY <4>1, <4>2, <4>3, GreedyProgress
      <4>. QED BY <3>2, <4>4 DEF Purge
    <3>. QED BY <3>3, <3>4
  <2>2. ASSUME NEW u, NEW d, NEW goal, NEW prev, NEW how, NEW lost,
               Dispatch(u, d, NextHop(goal, prev), how, lost)
        PROVE  Fresh(s)
    <3>. DEFINE hop == NextHop(goal, prev)
    <3>1. hop \in Resolves /\ s.via = hop
      <4>. HIDE DEF hop
      <4>1. Dispatch(u, d, hop, how, lost)
        BY <2>2 DEF hop
      <4>. QED BY <1>1, <4>1 DEF Dispatch
    <3>2. hop # NoAddr
      BY <3>1, NodeAssumption DEF Addr
    <3>. QED BY <1>1, <3>1, <3>2, HopIsCurrent
  <2>3. ASSUME NEW p \in Front(lo), ForwardingGreedy(p) PROVE Fresh(s)
    BY <2>2, <2>3 DEF ForwardingGreedy
  <2>4. ASSUME NEW o \in pending, SendNext(o) PROVE Fresh(s)
    BY <2>2, <2>4 DEF SendNext
  <2>. QED BY <1>1, <2>1, <2>3, <2>4, SendSteps
<1>2. TypeOK /\ [Next]_vars
        => [\A s \in sent' \ sent :
              \/ s.how = "direct" /\ s.via = s.dst
              \/ s.via \in DOMAIN table /\ Current(table[s.via], now)]_vars
  BY <1>1
<1>. QED BY <1>2, TypeCorrect, PTL DEF Spec, FreshNextHop

-----------------------------------------------------------------------------
(* The agent implements PacketService, as long as the NodeList keeps every *)
(* destination.                                                            *)

Held == {[uid |-> e.uid, dst |-> e.hdr.dst] : e \in lo \cup queue}

\* Without a destination that leaves, every destination stays located.
LEMMA AllLocated == Spec => [](Flaky = {} => located = Dsts)
<1>1. Init => (Flaky = {} => located = Dsts)
  BY DEF Init
<1>2. (Flaky = {} => located = Dsts) /\ [Next]_vars => (Flaky = {} => located = Dsts)'
  BY DEF Next, Simulator, Surroundings, RouteInput, SendPacketFromQueue, Tick, CheckQueue,
         FinishCheck, RecvGpsr, RouteOutputUnlocated, RouteOutputLocated,
         DeferredRouteOutput, ForwardingGreedy, SendNothing, SendUnlocated, SendNext, Visit,
         vars
<1>. QED BY <1>1, <1>2, PTL DEF Spec

\* Flaky is a constant.
LEMMA FlakyIsConstant == Flaky = {} => [](Flaky = {})
<1>1. Flaky = {} => (Flaky = {})'
  OBVIOUS
<1>. QED BY <1>1, PTL

\* The uids that leave Held are those that leave the loopback device and the queue.
LEMMA HeldUids ==
  ASSUME Custody, Held' \subseteq Held
  PROVE  {h.uid : h \in Held \ Held'} = InFlight \ InFlight'
<1>1. \A g, h \in Held : g.uid = h.uid => g = h
  BY DEF Held, Custody, DistinctUids, OneVerdict, Uids
<1>2. ASSUME NEW S
      PROVE  {h.uid : h \in {[uid |-> e.uid, dst |-> e.hdr.dst] : e \in S}} = Uids(S)
  <2>. DEFINE H == {[uid |-> e.uid, dst |-> e.hdr.dst] : e \in S}
  <2>1. \A h \in H : h.uid \in Uids(S)
    BY DEF Uids
  <2>2. ASSUME NEW e \in S PROVE \E h \in H : h.uid = e.uid
    <3>1. [uid |-> e.uid, dst |-> e.hdr.dst] \in H
      OBVIOUS
    <3>. QED BY <3>1
  <2>. HIDE DEF H
  <2>3. {h.uid : h \in H} = Uids(S)
    BY <2>1, <2>2 DEF Uids
  <2>. QED BY <2>3 DEF H
<1>3. /\ Uids(lo \cup queue) = InFlight
      /\ Uids(lo' \cup queue') = InFlight'
  BY DEF InFlight, Uids
<1>4. {h.uid : h \in Held} = InFlight /\ {h.uid : h \in Held'} = InFlight'
  BY <1>2, <1>3 DEF Held
<1>. HIDE DEF Held
<1>. QED BY <1>1, <1>4

\* A step of the agent that loses packets only with their error callback, and all but
\* perhaps one that is sent, is a step of the service.
LEMMA Settles ==
  ASSUME Custody, Held' \subseteq Held, UNCHANGED arrived,
         \/ /\ UNCHANGED sent
            /\ failed' \cup refused' = failed \cup refused \cup (InFlight \ InFlight')
         \/ \E u \in InFlight \ InFlight' :
               /\ Uids(sent') = Uids(sent) \cup {u}
               /\ failed' \cup refused'
                    = failed \cup refused \cup ((InFlight \ InFlight') \ {u})
  PROVE  Service!Settle
<1>. DEFINE stay == Held'
            gone == {h.uid : h \in Held \ stay}
<1>1. gone = InFlight \ InFlight'
  BY HeldUids
<1>2. \/ /\ failed' \cup refused' = (failed \cup refused) \cup gone
         /\ Uids(sent') = Uids(sent)
      \/ \E u \in gone : /\ Uids(sent') = Uids(sent) \cup {u}
                         /\ failed' \cup refused' = (failed \cup refused) \cup (gone \ {u})
  BY <1>1
<1>3. stay \in SUBSET Held /\ Held' = stay
  OBVIOUS
<1>. HIDE DEF stay
<1>. QED BY <1>2, <1>3 DEF Service!Settle, Held

\* Every packet dropped from the queue had its uid known only there.
LEMMA KeptAndDropped ==
  ASSUME Custody, NEW keep \in SUBSET queue
  PROVE  /\ Uids(queue) = Uids(keep) \cup Uids(queue \ keep)
         /\ Uids(keep) \cap Uids(queue \ keep) = {}
         /\ Uids(lo) \cap Uids(queue) = {}
         /\ Uids(keep) \subseteq Uids(queue)
<1>1. Uids(keep) \cap Uids(queue \ keep) = {}
  BY DEF Custody, DistinctUids, Uids
<1>. QED BY <1>1 DEF Custody, OneVerdict, Uids

LEMMA ServiceStep ==
  ASSUME TypeOK, Custody, located = Dsts, Flaky = {}, [Next]_vars
  PROVE  [Service!SNext]_Service!svars
<1>1. CASE UNCHANGED packetVars
  BY <1>1 DEF packetVars, Service!svars, Uids
<1>2. CASE \/ Tick \/ CheckQueue \/ FinishCheck \/ UNCHANGED vars
           \/ (\E n \in Nbrs : RecvGpsr(n))
  <2>1. UNCHANGED packetVars
    BY <1>2 DEF Tick, CheckQueue, FinishCheck, RecvGpsr, packetVars,
                vars, sourceVars, historyVars
  <2>. QED BY <1>1, <2>1
<1>3. ASSUME NEW d \in Dsts, RouteOutputUnlocated(d) PROVE FALSE
  BY <1>3 DEF RouteOutputUnlocated
<1>4. ASSUME NEW d \in Dsts, RouteOutputLocated(d) PROVE Service!Accept(d)
  <2>1. arrived' = arrived + 1 /\ UNCHANGED <<queue, failed, refused>>
    BY <1>4 DEF RouteOutputLocated, Identify, uid
  <2>2. CASE Loopback(d, TRUE) /\ UNCHANGED sent
    <3>1. PICK p : p.uid = arrived + 1 /\ p.hdr.dst = d /\ lo' = lo \cup {p}
      BY <2>2 DEF Loopback, uid
    <3>2. Held' = Held \cup {[uid |-> arrived + 1, dst |-> d]}
      BY <2>1, <3>1 DEF Held
    <3>. QED BY <2>1, <2>2, <3>2 DEF Service!Accept, Held
  <2>3. ASSUME NEW hop, UNCHANGED lo,
               sent' = sent \cup {[uid |-> uid, dst |-> d, via |-> hop, how |-> "direct"]}
        PROVE  Service!Accept(d)
    <3>1. PICK s : s.uid = arrived + 1 /\ sent' = sent \cup {s}
      BY <2>3 DEF uid
    <3>2. Uids(sent') = Uids(sent) \cup {arrived + 1}
      BY <3>1 DEF Uids
    <3>. QED BY <2>1, <2>3, <3>2 DEF Service!Accept
  <2>. QED BY <1>4, <2>2, <2>3 DEF RouteOutputLocated
<1>5. ASSUME NEW p \in Front(lo), DeferredRouteOutput(p) PROVE Service!Settle
  <2>. DEFINE live == PurgeQueue(queue, now)
  <2>0. p \in lo /\ p.uid \in Uids(lo) /\ p.uid \notin Uids(queue) /\ p.uid \notin Uids(lo \ {p})
    BY DEF Front, Uids, Custody, DistinctUids, OneVerdict
  <2>1. lo' = lo \ {p} /\ UNCHANGED <<sent, arrived>>
    BY <1>5 DEF DeferredRouteOutput, sourceVars
  <2>2. Uids(lo) = Uids(lo \ {p}) \cup {p.uid}
    BY <2>0 DEF Uids
  <2>3. CASE /\ refused' = refused \cup {p.uid} /\ queue' = live
             /\ failed' = failed \cup Uids(queue \ live)
    <3>1. live \in SUBSET queue
      BY DEF PurgeQueue
    <3>2. Held' \subseteq Held
      BY <2>1, <2>3, <3>1 DEF Held
    <3>3. InFlight \ InFlight' = Uids(queue \ live) \cup {p.uid}
      BY <2>0, <2>1, <2>2, <2>3, <3>1, KeptAndDropped DEF InFlight
    <3>. QED BY <2>1, <2>3, <3>2, <3>3, Settles
  <2>4. CASE /\ queue' = Enqueue(live, p.uid, p.hdr, now) /\ UNCHANGED refused
             /\ failed' = failed \cup Uids(queue \ MakeRoom(live))
    <3>1. PICK e : e.uid = p.uid /\ e.hdr = p.hdr /\ queue' = MakeRoom(live) \cup {e}
      BY <2>4 DEF Enqueue, NewEntry
    <3>2. MakeRoom(live) \in SUBSET queue
      BY DEF MakeRoom, PurgeQueue
    <3>3. Held' \subseteq Held
      BY <2>0, <2>1, <3>1, <3>2 DEF Held
    <3>4. Uids(queue') = Uids(MakeRoom(live)) \cup {p.uid}
      BY <3>1 DEF Uids
    <3>5. InFlight \ InFlight' = Uids(queue \ MakeRoom(live))
      BY <2>0, <2>1, <2>2, <3>2, <3>4, KeptAndDropped DEF InFlight
    <3>. QED BY <2>1, <2>4, <3>3, <3>5, Settles
  <2>. QED BY <1>5, <2>3, <2>4 DEF DeferredRouteOutput
<1>6. ASSUME NEW p \in Front(lo), ForwardingGreedy(p) PROVE Service!Settle
  <2>0. p \in lo /\ p.uid \in Uids(lo) /\ p.uid \notin Uids(queue) /\ p.uid \notin Uids(lo \ {p})
    BY DEF Front, Uids, Custody, DistinctUids, OneVerdict
  <2>1. lo' = lo \ {p} /\ UNCHANGED <<queue, refused, arrived>>
    BY <1>6 DEF ForwardingGreedy, sourceVars
  <2>2. Uids(lo) = Uids(lo \ {p}) \cup {p.uid}
    BY <2>0 DEF Uids
  <2>3. Held' \subseteq Held
    BY <2>1 DEF Held
  <2>4. InFlight \ InFlight' = {p.uid}
    BY <2>0, <2>1, <2>2 DEF InFlight
  <2>5. PICK hop : Dispatch(p.uid, p.hdr.dst, hop, "forward", {})
    BY <1>6 DEF ForwardingGreedy
  <2>6. CASE /\ failed' = failed
             /\ sent' = sent \cup {[uid |-> p.uid, dst |-> p.hdr.dst, via |-> hop,
                                    how |-> "forward"]}
    <3>1. Uids(sent') = Uids(sent) \cup {p.uid}
      <4>1. PICK s : s.uid = p.uid /\ sent' = sent \cup {s}
        BY <2>6
      <4>. QED BY <4>1 DEF Uids
    <3>. QED BY <2>1, <2>3, <2>4, <2>6, <3>1, Settles
  <2>7. CASE failed' = failed \cup {p.uid} /\ UNCHANGED sent
    BY <2>1, <2>3, <2>4, <2>7, Settles
  <2>. QED BY <2>5, <2>6, <2>7 DEF Dispatch
<1>7. ASSUME NEW o \in pending, SendNothing(o) PROVE Service!Settle
  <2>. DEFINE live == PurgeQueue(queue, now)
  <2>1. live \in SUBSET queue /\ queue' = live /\ failed' = failed \cup Uids(queue \ live)
    BY <1>7 DEF SendNothing, PurgeQueue
  <2>2. UNCHANGED <<lo, sent, refused, arrived>>
    BY <1>7 DEF SendNothing, Visit, sourceVars
  <2>3. Held' \subseteq Held
    BY <2>1, <2>2 DEF Held
  <2>4. InFlight \ InFlight' = Uids(queue \ live)
    BY <2>1, <2>2, KeptAndDropped DEF InFlight
  <2>. QED BY <2>1, <2>2, <2>3, <2>4, Settles
<1>8. ASSUME NEW o \in pending, SendUnlocated(o) PROVE FALSE
  BY <1>8 DEF SendUnlocated, TypeOK
<1>9. ASSUME NEW o \in pending, SendNext(o) PROVE Service!Settle
  <2>. DEFINE live == PurgeQueue(queue, now)
  <2>0. PICK e \in live : \E hop :
          queue' = live \ {e} /\ Dispatch(e.uid, o.dst, hop, "queue", Uids(queue \ live))
    BY <1>9 DEF SendNext, Front, ForDst
  <2>1. PICK hop : queue' = live \ {e} /\ Dispatch(e.uid, o.dst, hop, "queue", Uids(queue \ live))
    BY <2>0
  <2>2. live \in SUBSET queue /\ live \ {e} \in SUBSET queue
    BY DEF PurgeQueue
  <2>3. UNCHANGED <<lo, refused, arrived>>
    BY <1>9 DEF SendNext, Visit, sourceVars
  <2>4. Held' \subseteq Held
    BY <2>1, <2>2, <2>3 DEF Held
  <2>5. Uids(queue \ (live \ {e})) = Uids(queue \ live) \cup {e.uid}
    BY <2>2 DEF Uids
  <2>6. InFlight \ InFlight' = Uids(queue \ live) \cup {e.uid}
    BY <2>1, <2>2, <2>3, <2>5, KeptAndDropped DEF InFlight
  <2>7. e.uid \notin Uids(queue \ live)
    BY <2>2 DEF Uids, Custody, DistinctUids
  <2>8. CASE /\ sent' = sent \cup {[uid |-> e.uid, dst |-> o.dst, via |-> hop, how |-> "queue"]}
             /\ failed' = failed \cup Uids(queue \ live)
    <3>1. PICK s : s.uid = e.uid /\ sent' = sent \cup {s}
      BY <2>8
    <3>2. Uids(sent') = Uids(sent) \cup {e.uid}
      BY <3>1 DEF Uids
    <3>3. /\ e.uid \in InFlight \ InFlight'
          /\ failed' \cup refused' = failed \cup refused \cup ((InFlight \ InFlight') \ {e.uid})
      BY <2>3, <2>6, <2>7, <2>8
    <3>. QED BY <2>3, <2>4, <3>2, <3>3, Settles
  <2>9. CASE failed' = failed \cup Uids(queue \ live) \cup {e.uid} /\ UNCHANGED sent
    BY <2>3, <2>4, <2>6, <2>9, Settles
  <2>. QED BY <2>1, <2>8, <2>9 DEF Dispatch
<1>. QED BY <1>2, <1>3, <1>4, <1>5, <1>6, <1>7, <1>8, <1>9
         DEF Next, Simulator, Surroundings, RouteInput, SendPacketFromQueue, Service!SNext

\* As long as no destination leaves the NodeList, the agent implements PacketService: a
\* packet is sent at once or kept, and a packet kept gets one verdict and no other.
THEOREM AgentIsService == Spec /\ Flaky = {} => ImplementsService
<1>1. Init => Service!SInit
  BY DEF Init, Service!SInit, Uids
<1>2. TypeOK /\ Custody /\ (Flaky = {} => located = Dsts) /\ Flaky = {} /\ [Next]_vars
        => [Service!SNext]_Service!svars
  BY ServiceStep
<1>. QED BY <1>1, <1>2, CustodyHolds, AllLocated, FlakyIsConstant, PTL
         DEF Spec, ImplementsService, Service!SSpec

\* A step of PacketService neither loses a packet nor makes one up.
LEMMA NothingLostStep ==
  ASSUME TypeOK, NothingLost, [Service!SNext]_Service!svars
  PROVE  NothingLost'
<1>1. ASSUME NEW S PROVE {h.uid : h \in {[uid |-> e.uid, dst |-> e.hdr.dst] : e \in S}}
                         = Uids(S)
  <2>. DEFINE H == {[uid |-> e.uid, dst |-> e.hdr.dst] : e \in S}
  <2>1. ASSUME NEW e \in S PROVE \E h \in H : h.uid = e.uid
    <3>1. [uid |-> e.uid, dst |-> e.hdr.dst] \in H
      OBVIOUS
    <3>. HIDE DEF H
    <3>. QED BY <3>1
  <2>2. \A h \in H : \E e \in S : h.uid = e.uid
    OBVIOUS
  <2>. HIDE DEF H
  <2>3. {h.uid : h \in H} = {e.uid : e \in S}
    BY <2>1, <2>2
  <2>. QED BY <2>3 DEF H, Uids
<1>2. {h.uid : h \in Held} = InFlight /\ {h.uid : h \in Held'} = InFlight'
  <2>1. {h.uid : h \in Held} = Uids(lo \cup queue)
    BY <1>1 DEF Held
  <2>2. {h.uid : h \in Held'} = Uids(lo' \cup queue')
    BY <1>1 DEF Held
  <2>3. ASSUME NEW S, NEW T PROVE Uids(S \cup T) = Uids(S) \cup Uids(T)
    BY DEF Uids
  <2>4. Uids(lo') = Uids(lo)' /\ Uids(queue') = Uids(queue)'
    BY DEF Uids
  <2>. QED BY <2>1, <2>2, <2>3, <2>4 DEF InFlight
<1>. DEFINE held    == Held
            newheld == Held'
<1>3. ASSUME NEW d \in Dsts, Service!Accept(d) PROVE NothingLost'
  <2>1. arrived' = arrived + 1 /\ failed' \cup refused' = failed \cup refused
    BY <1>3 DEF Service!Accept
  <2>2. CASE newheld = held \cup {[uid |-> arrived + 1, dst |-> d]} /\ Uids(sent') = Uids(sent)
    <3>. HIDE DEF held, newheld
    <3>1. PICK k : k.uid = arrived + 1 /\ newheld = held \cup {k}
      BY <2>2
    <3>2. {h.uid : h \in newheld} = {h.uid : h \in held} \cup {arrived + 1}
      BY <3>1
    <3>3. InFlight' = InFlight \cup {arrived + 1}
      BY <1>2, <3>2 DEF held, newheld
    <3>4. Decided' = Decided
      BY <2>1, <2>2 DEF Decided, Uids
    <3>. QED BY <2>1, <3>3, <3>4 DEF NothingLost, TypeOK
  <2>3. CASE Uids(sent') = Uids(sent) \cup {arrived + 1} /\ newheld = held
    <3>1. InFlight' = InFlight /\ Decided' = Decided \cup {arrived + 1}
      BY <1>2, <2>1, <2>3 DEF Decided, Uids
    <3>. QED BY <2>1, <3>1 DEF NothingLost, TypeOK
  <2>. QED BY <1>3, <2>2, <2>3 DEF Service!Accept, Held
<1>4. CASE Service!Settle
  <2>1. PICK stay \in SUBSET held :
          LET gone == {h.uid : h \in held \ stay}
          IN  /\ newheld = stay
              /\ arrived' = arrived
              /\ \/ /\ failed' \cup refused' = failed \cup refused \cup gone
                    /\ Uids(sent') = Uids(sent)
                 \/ \E u \in gone :
                      /\ Uids(sent') = Uids(sent) \cup {u}
                      /\ failed' \cup refused' = failed \cup refused \cup (gone \ {u})
    BY <1>4 DEF Service!Settle, Held
  <2>. HIDE DEF held, newheld
  <2>2. {h.uid : h \in held} = {h.uid : h \in newheld} \cup {h.uid : h \in held \ stay}
    BY <2>1
  <2>3. /\ InFlight \cup Decided = InFlight' \cup Decided'
        /\ arrived' = arrived
    BY <1>2, <2>1, <2>2 DEF held, newheld, Decided
  <2>. QED BY <2>3 DEF NothingLost
<1>5. CASE UNCHANGED Service!svars
  BY <1>2, <1>5 DEF Service!svars, NothingLost, Decided, Held
<1>. QED BY <1>3, <1>4, <1>5 DEF Service!SNext

\* As long as no destination leaves the NodeList, no packet is lost without a trace:
\* whatever the application sent is still held by the agent or has its verdict (the
\* error callbacks of RouteOutput, DeferredRouteOutput, SendPacketFromQueue,
\* ForwardingGreedy and of the purges).
THEOREM NoPacketIsLost == Spec /\ Flaky = {} => []NothingLost
<1>1. Init => NothingLost
  BY DEF Init, NothingLost, InFlight, Decided, Uids
<1>2. TypeOK /\ Custody /\ (Flaky = {} => located = Dsts) /\ Flaky = {} /\ NothingLost
        /\ [Next]_vars => NothingLost'
  BY ServiceStep, NothingLostStep
<1>. QED BY <1>1, <1>2, CustodyHolds, AllLocated, FlakyIsConstant, PTL DEF Spec
=============================================================================
