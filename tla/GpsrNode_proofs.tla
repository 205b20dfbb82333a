-------------------------- MODULE GpsrNode_proofs --------------------------
(***************************************************************************)
(* Theorems about the routing agent of one node, for every topology, every *)
(* set of destinations and every value of the timing and queue parameters: *)
(* type correctness, and what happens to a packet once the application has *)
(* handed it over (the inductive invariant Custody).                       *)
(***************************************************************************)
EXTENDS GpsrNodeProps, TLAPS

-----------------------------------------------------------------------------
(* The neighbour table.                                                    *)

\* A HELLO leaves a neighbour table behind (AddEntry).
LEMMA TableKept ==
  ASSUME NEW t, IsTable(t), NEW n \in Addr, NEW p \in Point, NEW time \in Nat
  PROVE  IsTable(AddEntry(t, n, p, time))
BY DEF IsTable, AddEntry

\* A purge leaves a neighbour table behind (Purge).
LEMMA PurgeKeepsTable ==
  ASSUME NEW t, IsTable(t), NEW time \in Nat
  PROVE  IsTable(Purge(t, time))
<1>1. DOMAIN Purge(t, time) \subseteq DOMAIN t
  BY DEF Purge
<1>2. \A m \in DOMAIN Purge(t, time) : Purge(t, time)[m] = t[m]
  BY DEF Purge
<1>. QED BY <1>1, <1>2 DEF IsTable

-----------------------------------------------------------------------------
(* Type correctness.                                                       *)

LEMMA TypeInit == Init => TypeOK
<1>. SUFFICES ASSUME Init PROVE TypeOK
  OBVIOUS
<1>1. IsTable(table)
  BY DEF Init, IsTable, EmptyTable
<1>2. nextId \in [Dsts -> 0 .. IdSpace - 1] /\ queueTimer \in Nat
  BY NodeAssumption DEF Init
<1>. QED BY <1>1, <1>2 DEF Init, TypeOK

\* What Purge and Enqueue make of a queue is a queue of well-formed entries.
Entry == [uid : Uid, hdr : Header, expire : Nat]

LEMMA EnqueueType ==
  ASSUME NEW q \in SUBSET Entry, NEW u \in Uid, NEW h \in Header, NEW time \in Nat
  PROVE  /\ PurgeQueue(q, time) \in SUBSET Entry
         /\ MakeRoom(q) \in SUBSET Entry
         /\ Enqueue(q, u, h, time) \in SUBSET Entry
<1>1. PurgeQueue(q, time) \in SUBSET Entry
  BY DEF PurgeQueue
<1>2. MakeRoom(q) \in SUBSET Entry
  BY DEF MakeRoom
<1>3. NewEntry(u, h, time) \in Entry
  BY QueueAssumption DEF NewEntry, Entry
<1>. QED BY <1>1, <1>2, <1>3 DEF Enqueue

LEMMA UidsType ==
  ASSUME NEW q \in SUBSET Entry
  PROVE  Uids(q) \subseteq Uid
  BY DEF Uids, Entry

\* Handing a packet over keeps the types of the verdicts.
LEMMA DispatchType ==
  ASSUME TypeOK, NEW u \in Uid, NEW d \in Dsts, NEW hop,
         NEW how \in {"direct", "queue", "forward"}, NEW lost \in SUBSET Uid,
         Dispatch(u, d, hop, how, lost)
  PROVE  /\ sent' \subseteq [uid : Uid, dst : Dsts, via : Addr,
                             how : {"direct", "queue", "forward"}]
         /\ failed' \subseteq Uid
<1>1. CASE hop \in Resolves
  <2>1. hop \in Addr
    BY <1>1, NodeAssumption
  <2>. QED BY <2>1 DEF TypeOK, Dispatch
<1>2. CASE hop \notin Resolves
  BY <1>2 DEF TypeOK, Dispatch
<1>. QED BY <1>1, <1>2

\* So does sending a packet through the loopback device.
LEMMA LoopbackType ==
  ASSUME TypeOK, NEW d, NEW t \in BOOLEAN, uid \in Uid,
         [dst |-> d, id |-> nextId[d]] \in Header, Loopback(d, t)
  PROVE  lo' \subseteq [uid : Uid, hdr : Header, tagged : BOOLEAN]
<1>. DEFINE h == [dst |-> d, id |-> nextId[d]]
            u == uid
            p == [uid |-> u, hdr |-> h, tagged |-> t]
<1>1. lo' = lo \cup {p}
  BY DEF Loopback
<1>2. h \in Header /\ u \in Uid
  OBVIOUS
<1>. HIDE DEF h, u
<1>3. p \in [uid : Uid, hdr : Header, tagged : BOOLEAN]
  BY <1>2
<1>. HIDE DEF p
<1>. QED BY <1>1, <1>3 DEF TypeOK

LEMMA TypeStep == TypeOK /\ [Next]_vars => TypeOK'
<1>. SUFFICES ASSUME TypeOK, [Next]_vars PROVE TypeOK'
  OBVIOUS
<1>. USE NodeAssumption
<1>0. queue \in SUBSET Entry /\ now \in Nat
  BY DEF TypeOK, Entry
<1>1. CASE Tick
  BY <1>1 DEF Tick, TypeOK, checkVars, sourceVars, historyVars
<1>2. ASSUME NEW p \in Front(lo), DeferredRouteOutput(p) PROVE TypeOK'
  <2>. DEFINE live == PurgeQueue(queue, now)
  <2>1. p \in lo /\ p.uid \in Uid /\ p.hdr \in Header
    BY <1>2 DEF Front, TypeOK
  <2>2. live \in SUBSET Entry /\ queue' \in SUBSET Entry
    <3>1. live \in SUBSET Entry
      BY <1>0, <2>1, EnqueueType
    <3>2. Enqueue(live, p.uid, p.hdr, now) \in SUBSET Entry
      BY <1>0, <2>1, <3>1, EnqueueType
    <3>. QED BY <1>2, <3>1, <3>2 DEF DeferredRouteOutput
  <2>3. failed' \subseteq Uid /\ refused' \subseteq Uid
    <3>1. Uids(queue \ live) \subseteq Uid /\ Uids(queue \ MakeRoom(live)) \subseteq Uid
      BY <1>0, UidsType
    <3>. QED BY <1>2, <2>1, <3>1 DEF DeferredRouteOutput, TypeOK
  <2>4. queuedAddresses' \subseteq [at : Uid, dst : Dsts]
    <3>1. [at |-> p.uid, dst |-> p.hdr.dst] \in [at : Uid, dst : Dsts]
      BY <2>1 DEF Header
    <3>. QED BY <1>2, <3>1 DEF DeferredRouteOutput, TypeOK, Unique
  <2>5. queueTimer' \in Nat \cup {NoTimer} /\ fatal' \in BOOLEAN
    BY <1>2 DEF DeferredRouteOutput, TypeOK, RestartTimer, CheckTime
  <2>. QED BY <1>2, <2>2, <2>3, <2>4, <2>5
           DEF DeferredRouteOutput, TypeOK, checkVars, sourceVars, Entry
<1>3. ASSUME NEW p \in Front(lo), ForwardingGreedy(p) PROVE TypeOK'
  <2>1. p \in lo /\ p.uid \in Uid /\ p.hdr.dst \in Dsts
    BY <1>3 DEF Front, TypeOK, Header
  <2>2. PICK hop : Dispatch(p.uid, p.hdr.dst, hop, "forward", {})
    BY <1>3 DEF ForwardingGreedy
  <2>3. /\ sent' \subseteq [uid : Uid, dst : Dsts, via : Addr,
                            how : {"direct", "queue", "forward"}]
        /\ failed' \subseteq Uid
    <3>1. {} \in SUBSET Uid /\ "forward" \in {"direct", "queue", "forward"}
      OBVIOUS
    <3>. QED BY <2>1, <2>2, <3>1, DispatchType
  <2>4. IsTable(table')
    BY <1>3, <1>0, PurgeKeepsTable DEF ForwardingGreedy, TypeOK
  <2>. QED BY <1>3, <2>3, <2>4
           DEF ForwardingGreedy, TypeOK, clockVars, checkVars, sourceVars
<1>4. CASE CheckQueue
  BY <1>4 DEF CheckQueue, TypeOK, clockVars, sourceVars, historyVars
<1>5. ASSUME NEW o \in pending, SendNothing(o) PROVE TypeOK'
  <2>1. queue' \subseteq Entry /\ failed' \subseteq Uid
    <3>1. PurgeQueue(queue, now) \in SUBSET Entry
      BY <1>0 DEF PurgeQueue
    <3>2. Uids(queue \ PurgeQueue(queue, now)) \subseteq Uid
      BY <1>0, UidsType
    <3>. QED BY <1>5, <3>1, <3>2 DEF SendNothing, TypeOK
  <2>2. IsTable(table')
    BY <1>5, <1>0, PurgeKeepsTable DEF SendNothing, Visit, TypeOK
  <2>. QED BY <1>5, <2>1, <2>2 DEF SendNothing, Visit, TypeOK, sourceVars, Entry
<1>6. ASSUME NEW o \in pending, SendUnlocated(o) PROVE TypeOK'
  <2>. DEFINE live == PurgeQueue(queue, now)
              mine == ForDst(live, o.dst)
  <2>1. queue' \subseteq Entry /\ failed' \subseteq Uid
    <3>1. live \in SUBSET Entry /\ mine \in SUBSET Entry
      BY <1>0 DEF PurgeQueue, ForDst
    <3>2. Uids(queue \ live) \subseteq Uid /\ Uids(mine \ Front(mine)) \subseteq Uid
      BY <1>0, <3>1, UidsType
    <3>. QED BY <1>6, <3>1, <3>2 DEF SendUnlocated, TypeOK
  <2>2. IsTable(table')
    BY <1>6, <1>0, PurgeKeepsTable DEF SendUnlocated, Visit, TypeOK
  <2>. QED BY <1>6, <2>1, <2>2 DEF SendUnlocated, Visit, TypeOK, sourceVars, Entry
<1>7. ASSUME NEW o \in pending, SendNext(o) PROVE TypeOK'
  <2>. DEFINE live == PurgeQueue(queue, now)
              mine == ForDst(live, o.dst)
  <2>0. o.dst \in Dsts
    BY DEF TypeOK
  <2>1. PICK e \in Front(mine) :
          /\ queue' = live \ {e}
          /\ Dispatch(e.uid, o.dst, NextHop(Pos[o.dst], MyPos), "queue", Uids(queue \ live))
    BY <1>7 DEF SendNext
  <2>2. live \in SUBSET Entry /\ e \in Entry
    BY <1>0 DEF PurgeQueue, ForDst, Front
  <2>3. Uids(queue \ live) \subseteq Uid
    BY <1>0, UidsType
  <2>4. /\ sent' \subseteq [uid : Uid, dst : Dsts, via : Addr,
                            how : {"direct", "queue", "forward"}]
        /\ failed' \subseteq Uid
    <3>1. e.uid \in Uid
      BY <2>2 DEF Entry
    <3>. QED BY <2>0, <2>1, <2>3, <3>1, DispatchType
  <2>5. fatal' \in BOOLEAN /\ queueTimer' \in Nat \cup {NoTimer} /\ toRemove' \subseteq Dsts
    BY <1>0, <1>7, <2>0 DEF SendNext, Schedule, TypeOK
  <2>6. IsTable(table')
    BY <1>7, <1>0, PurgeKeepsTable DEF SendNext, Visit, TypeOK
  <2>7. Visit(o)
    BY <1>7 DEF SendNext
  <2>. QED BY <2>1, <2>2, <2>4, <2>5, <2>6, <2>7 DEF Visit, TypeOK, sourceVars, Entry
<1>8. CASE FinishCheck
  <2>1. CheckTime \in Nat
    BY <1>0 DEF CheckTime
  <2>2. fatal' \in BOOLEAN /\ queueTimer' \in Nat \cup {NoTimer}
    BY <1>8, <2>1 DEF FinishCheck, Schedule, TypeOK
  <2>. QED BY <1>8, <2>2 DEF FinishCheck, TypeOK, sourceVars, historyVars
<1>9. ASSUME NEW d \in Dsts, Identify(d)
      PROVE  /\ uid \in Uid /\ arrived' \in Nat
             /\ nextId' \in [Dsts -> 0 .. IdSpace - 1]
             /\ [dst |-> d, id |-> nextId[d]] \in Header
  <2>1. uid \in Uid /\ arrived' \in Nat
    BY <1>9 DEF Identify, uid, Uid, TypeOK
  <2>2. (nextId[d] + 1) % IdSpace \in 0 .. IdSpace - 1 /\ nextId[d] \in 0 .. IdSpace - 1
    BY DEF TypeOK
  <2>3. nextId' \in [Dsts -> 0 .. IdSpace - 1]
    BY <1>9, <2>2 DEF Identify, TypeOK
  <2>. QED BY <2>1, <2>2, <2>3 DEF Header
<1>10. ASSUME NEW d \in Dsts, RouteOutputUnlocated(d) PROVE TypeOK'
  <2>1. Identify(d)
    BY <1>10 DEF RouteOutputUnlocated
  <2>2. /\ uid \in Uid /\ [dst |-> d, id |-> nextId[d]] \in Header
        /\ arrived' \in Nat /\ nextId' \in [Dsts -> 0 .. IdSpace - 1]
    BY <1>9, <2>1
  <2>3. lo' \subseteq [uid : Uid, hdr : Header, tagged : BOOLEAN]
    BY <1>10, <2>2, LoopbackType DEF RouteOutputUnlocated
  <2>. QED BY <1>10, <2>2, <2>3
           DEF RouteOutputUnlocated, TypeOK, clockVars, checkVars, historyVars
<1>11. ASSUME NEW d \in Dsts, RouteOutputLocated(d) PROVE TypeOK'
  <2>1. Identify(d)
    BY <1>11 DEF RouteOutputLocated
  <2>2. IsTable(table')
    BY <1>0, <1>11, PurgeKeepsTable DEF RouteOutputLocated, TableConsulted, TypeOK
  <2>3. /\ uid \in Uid /\ [dst |-> d, id |-> nextId[d]] \in Header
        /\ arrived' \in Nat /\ nextId' \in [Dsts -> 0 .. IdSpace - 1]
    BY <1>9, <2>1
  <2>4. lo' \subseteq [uid : Uid, hdr : Header, tagged : BOOLEAN]
    <3>1. UNCHANGED lo \/ Loopback(d, TRUE)
      BY <1>11 DEF RouteOutputLocated
    <3>. QED BY <2>3, <3>1, LoopbackType DEF TypeOK
  <2>5. sent' \subseteq [uid : Uid, dst : Dsts, via : Addr,
                         how : {"direct", "queue", "forward"}]
    <3>1. CASE UNCHANGED sent
      BY <3>1 DEF TypeOK
    <3>2. ASSUME NEW hop \in Resolves,
                 sent' = sent \cup {[uid |-> uid, dst |-> d, via |-> hop, how |-> "direct"]}
          PROVE  sent' \subseteq [uid : Uid, dst : Dsts, via : Addr,
                                  how : {"direct", "queue", "forward"}]
      <4>1. hop \in Addr
        OBVIOUS
      <4>. QED BY <3>2, <4>1, <2>3 DEF TypeOK
    <3>. QED BY <1>11, <3>1, <3>2 DEF RouteOutputLocated
  <2>. QED BY <1>11, <2>2, <2>3, <2>4, <2>5
           DEF RouteOutputLocated, TypeOK, clockVars, checkVars
<1>12. ASSUME NEW n \in Nbrs, RecvGpsr(n) PROVE TypeOK'
  <2>1. n \in Addr /\ HelloPos[n] \in Point
    OBVIOUS
  <2>2. IsTable(table')
    BY <1>0, <1>12, <2>1, TableKept DEF RecvGpsr, TypeOK
  <2>. QED BY <1>12, <2>2 DEF RecvGpsr, TypeOK, clockVars, checkVars, sourceVars, historyVars
<1>13. ASSUME NEW d \in Flaky, ChangeNodeList(d) PROVE TypeOK'
  BY <1>13 DEF ChangeNodeList, TypeOK, clockVars, checkVars, sourceVars, historyVars
<1>14. CASE UNCHANGED vars
  BY <1>14 DEF vars, TypeOK, clockVars, checkVars, sourceVars, historyVars
<1>. QED BY <1>1, <1>2, <1>3, <1>4, <1>5, <1>6, <1>7, <1>8, <1>10, <1>11, <1>12, <1>13, <1>14
         DEF Next, Simulator, Surroundings, RouteInput, SendPacketFromQueue

\* Type correctness of the routing agent: every step of every handler of Gpsr keeps
\* its state within its types, and in particular a packet is only ever given to a real
\* address (the GetZero and interface checks before every unicast callback).
THEOREM TypeCorrect == Spec => []TypeOK
<1>1. Init => TypeOK
  BY TypeInit
<1>2. TypeOK /\ [Next]_vars => TypeOK'
  BY TypeStep
<1>. QED BY <1>1, <1>2, PTL DEF Spec

-----------------------------------------------------------------------------
(* The custody of a packet.                                                *)

LEMMA CustodyInit == Init => Custody
  BY DEF Init, Custody, KnownUids, DistinctUids, LoopbackLast, OneVerdict, NotOvertaken,
         InFlight, Decided, Uids

\* The packets an action of the agent may touch.
packetVars == <<lo, queue, sent, failed, refused, arrived>>

LEMMA CustodyQuiet == Custody /\ UNCHANGED packetVars => Custody'
  BY DEF packetVars, Custody, KnownUids, DistinctUids, LoopbackLast, OneVerdict,
         NotOvertaken, InFlight, Decided, Uids

\* A new packet goes into the loopback device (LoopbackRoute in RouteOutput).
LEMMA CustodyLoopback ==
  ASSUME TypeOK, Custody, NEW p, p.uid = arrived + 1, lo' = lo \cup {p},
         arrived' = arrived + 1, UNCHANGED <<queue, sent, failed, refused>>
  PROVE  Custody'
<1>. USE DEF Custody, InFlight, Decided, Uids
<1>0. /\ arrived \in Nat
      /\ \A q \in lo : q.uid \in 1 .. arrived
      /\ \A e \in queue : e.uid \in 1 .. arrived
      /\ \A s \in sent : s.uid \in 1 .. arrived
      /\ failed \subseteq 1 .. arrived /\ refused \subseteq 1 .. arrived
  BY DEF TypeOK, KnownUids
<1>1. KnownUids'
  BY <1>0 DEF KnownUids
<1>2. DistinctUids'
  BY <1>0 DEF DistinctUids
<1>3. LoopbackLast'
  BY <1>0 DEF LoopbackLast
<1>4. OneVerdict'
  BY <1>0 DEF OneVerdict
<1>5. NotOvertaken'
  BY DEF NotOvertaken
<1>. QED BY <1>1, <1>2, <1>3, <1>4, <1>5

\* A new packet goes to a neighbour at once (the route RouteOutput returns).
LEMMA CustodyDirect ==
  ASSUME TypeOK, Custody, NEW s, s.uid = arrived + 1, s.how = "direct",
         sent' = sent \cup {s}, arrived' = arrived + 1,
         UNCHANGED <<lo, queue, failed, refused>>
  PROVE  Custody'
<1>. USE DEF Custody, InFlight, Decided, Uids
<1>0. /\ arrived \in Nat
      /\ \A q \in lo : q.uid \in 1 .. arrived
      /\ \A e \in queue : e.uid \in 1 .. arrived
      /\ \A t \in sent : t.uid \in 1 .. arrived
      /\ failed \subseteq 1 .. arrived /\ refused \subseteq 1 .. arrived
  BY DEF TypeOK, KnownUids
<1>1. KnownUids'
  BY <1>0 DEF KnownUids
<1>2. DistinctUids'
  BY <1>0 DEF DistinctUids
<1>3. LoopbackLast'
  BY <1>0 DEF LoopbackLast
<1>4. OneVerdict'
  BY <1>0 DEF OneVerdict
<1>5. NotOvertaken'
  BY DEF NotOvertaken
<1>. QED BY <1>1, <1>2, <1>3, <1>4, <1>5

\* The oldest packet of the loopback device is deferred; some queued packets are
\* dropped with their error callback (DeferredRouteOutput and Enqueue).
LEMMA CustodyDefer ==
  ASSUME TypeOK, Custody, NEW p \in Front(lo), lo' = lo \ {p},
         NEW keep \in SUBSET queue, NEW e, e.uid = p.uid, queue' = keep \cup {e},
         failed' = failed \cup Uids(queue \ keep),
         UNCHANGED <<sent, refused, arrived>>
  PROVE  Custody'
<1>. USE DEF Custody, InFlight, Decided, Uids
<1>0. /\ arrived \in Nat
      /\ \A q \in lo : q.uid \in 1 .. arrived
      /\ \A f \in queue : f.uid \in 1 .. arrived
      /\ \A t \in sent : t.uid \in 1 .. arrived
      /\ failed \subseteq 1 .. arrived /\ refused \subseteq 1 .. arrived
      /\ p \in lo /\ \A q \in lo \ {p} : p.uid < q.uid
  BY DEF TypeOK, KnownUids, Front, DistinctUids
<1>1. KnownUids'
  BY <1>0 DEF KnownUids
<1>2. DistinctUids'
  BY <1>0 DEF DistinctUids, LoopbackLast
<1>3. LoopbackLast'
  BY <1>0 DEF LoopbackLast
<1>4. OneVerdict'
  <2>1. Uids(lo') \cap Uids(queue') = {}
    BY <1>0 DEF OneVerdict
  <2>2. Uids(lo)' \cap Decided' = {}
    BY <1>0 DEF OneVerdict
  <2>3. Uids(queue)' \cap Decided' = {}
    <3>1. Uids(keep) \cap Uids(queue \ keep) = {}
      BY DEF DistinctUids
    <3>2. p.uid \notin Uids(queue \ keep)
      BY <1>0 DEF OneVerdict
    <3>3. Uids(queue') = Uids(keep) \cup {p.uid}
      OBVIOUS
    <3>. QED BY <1>0, <3>1, <3>2, <3>3 DEF OneVerdict
  <2>4. /\ Uids(sent') \cap failed' = {} /\ failed' \cap refused' = {}
        /\ Uids(sent') \cap refused' = {}
    BY DEF OneVerdict
  <2>5. \A s, t \in sent' : s.uid = t.uid => s = t
    BY DEF OneVerdict
  <2>. QED BY <2>1, <2>2, <2>3, <2>4, <2>5 DEF OneVerdict
<1>5. NotOvertaken'
  BY <1>0 DEF NotOvertaken, LoopbackLast
<1>. QED BY <1>1, <1>2, <1>3, <1>4, <1>5

\* The oldest packet of the loopback device is refused as a duplicate (Enqueue).
LEMMA CustodyRefuse ==
  ASSUME TypeOK, Custody, NEW p \in Front(lo), lo' = lo \ {p},
         NEW keep \in SUBSET queue, queue' = keep,
         failed' = failed \cup Uids(queue \ keep), refused' = refused \cup {p.uid},
         UNCHANGED <<sent, arrived>>
  PROVE  Custody'
<1>. USE DEF Custody, InFlight, Decided, Uids
<1>0. /\ arrived \in Nat
      /\ \A q \in lo : q.uid \in 1 .. arrived
      /\ \A f \in queue : f.uid \in 1 .. arrived
      /\ \A t \in sent : t.uid \in 1 .. arrived
      /\ failed \subseteq 1 .. arrived /\ refused \subseteq 1 .. arrived
      /\ p \in lo /\ \A q \in lo \ {p} : p.uid < q.uid
  BY DEF TypeOK, KnownUids, Front, DistinctUids
<1>1. KnownUids'
  BY <1>0 DEF KnownUids
<1>2. DistinctUids'
  BY <1>0 DEF DistinctUids
<1>3. LoopbackLast'
  BY <1>0 DEF LoopbackLast
<1>4. OneVerdict'
  <2>1. Uids(lo') \cap Uids(queue') = {}
    BY <1>0 DEF OneVerdict
  <2>2. Uids(lo)' \cap Decided' = {}
    BY <1>0 DEF OneVerdict
  <2>3. Uids(queue)' \cap Decided' = {}
    <3>1. Uids(keep) \cap Uids(queue \ keep) = {}
      BY DEF DistinctUids
    <3>2. p.uid \notin Uids(keep)
      BY <1>0 DEF OneVerdict
    <3>. QED BY <1>0, <3>1, <3>2 DEF OneVerdict
  <2>4. /\ Uids(sent') \cap failed' = {} /\ failed' \cap refused' = {}
        /\ Uids(sent') \cap refused' = {}
    <3>1. p.uid \notin Uids(sent) \cup failed \cup Uids(queue \ keep)
      BY <1>0 DEF OneVerdict
    <3>. QED BY <3>1 DEF OneVerdict
  <2>5. \A s, t \in sent' : s.uid = t.uid => s = t
    BY DEF OneVerdict
  <2>. QED BY <2>1, <2>2, <2>3, <2>4, <2>5 DEF OneVerdict
<1>5. NotOvertaken'
  BY <1>0 DEF NotOvertaken
<1>. QED BY <1>1, <1>2, <1>3, <1>4, <1>5

\* The oldest packet of the loopback device is forwarded or given up
\* (ForwardingGreedy and RecoveryMode).
LEMMA CustodyForward ==
  ASSUME TypeOK, Custody, NEW p \in Front(lo), lo' = lo \ {p}, NEW d, NEW hop,
         Dispatch(p.uid, d, hop, "forward", {}),
         UNCHANGED <<queue, refused, arrived>>
  PROVE  Custody'
<1>. USE DEF Custody, InFlight, Decided, Uids
<1>0. /\ \A q \in lo : q.uid \in 1 .. arrived
      /\ p \in lo /\ \A q \in lo \ {p} : p.uid # q.uid
  BY DEF TypeOK, KnownUids, Front, DistinctUids
<1>1. CASE failed' = failed /\ sent' = sent \cup {[uid |-> p.uid, dst |-> d, via |-> hop,
                                                    how |-> "forward"]}
  <2>. DEFINE s == [uid |-> p.uid, dst |-> d, via |-> hop, how |-> "forward"]
  <2>0. s.uid = p.uid /\ s.how = "forward" /\ sent' = sent \cup {s}
    BY <1>1
  <2>. HIDE DEF s
  <2>1. KnownUids'
    BY <1>0, <1>1, <2>0 DEF KnownUids
  <2>2. DistinctUids'
    BY <1>0 DEF DistinctUids
  <2>3. LoopbackLast'
    BY <1>0, <2>0 DEF LoopbackLast
  <2>4. OneVerdict'
    BY <1>0, <1>1, <2>0 DEF OneVerdict
  <2>5. NotOvertaken'
    BY <1>0, <2>0 DEF NotOvertaken
  <2>. QED BY <2>1, <2>2, <2>3, <2>4, <2>5
<1>2. CASE failed' = failed \cup {p.uid} /\ sent' = sent
  <2>1. KnownUids'
    BY <1>0, <1>2 DEF KnownUids
  <2>2. DistinctUids'
    BY <1>0 DEF DistinctUids
  <2>3. LoopbackLast'
    BY <1>0, <1>2 DEF LoopbackLast
  <2>4. OneVerdict'
    BY <1>0, <1>2 DEF OneVerdict
  <2>5. NotOvertaken'
    BY <1>0, <1>2 DEF NotOvertaken
  <2>. QED BY <2>1, <2>2, <2>3, <2>4, <2>5
<1>. QED BY <1>1, <1>2 DEF Dispatch

\* Queued packets are dropped, some of them without their error callback
\* (SendPacketFromQueue when it sends nothing).
LEMMA CustodyDrop ==
  ASSUME TypeOK, Custody, NEW keep \in SUBSET queue, queue' = keep,
         NEW gone \in SUBSET Uids(queue \ keep), failed' = failed \cup gone,
         UNCHANGED <<lo, sent, refused, arrived>>
  PROVE  Custody'
<1>. USE DEF Custody, InFlight, Decided, Uids
<1>1. KnownUids'
  BY DEF KnownUids
<1>2. DistinctUids'
  BY DEF DistinctUids
<1>3. LoopbackLast'
  BY DEF LoopbackLast
<1>4. OneVerdict'
  <2>1. Uids(keep) \cap Uids(queue \ keep) = {}
    BY DEF DistinctUids
  <2>2. Uids(lo') \cap Uids(queue') = {} /\ Uids(lo') \cap Decided' = {}
    BY DEF OneVerdict
  <2>3. Uids(queue') \cap Decided' = {}
    BY <2>1 DEF OneVerdict
  <2>4. /\ Uids(sent') \cap failed' = {} /\ failed' \cap refused' = {}
        /\ Uids(sent') \cap refused' = {}
    BY DEF OneVerdict
  <2>5. \A s, t \in sent' : s.uid = t.uid => s = t
    BY DEF OneVerdict
  <2>. QED BY <2>2, <2>3, <2>4, <2>5 DEF OneVerdict
<1>5. NotOvertaken'
  BY DEF NotOvertaken
<1>. QED BY <1>1, <1>2, <1>3, <1>4, <1>5

\* The oldest queued packet for its destination is sent, others are dropped
\* (SendPacketFromQueue when it sends).
LEMMA CustodySend ==
  ASSUME TypeOK, Custody, NEW e \in queue, NEW keep \in SUBSET (queue \ {e}), queue' = keep,
         \A f \in keep : f.hdr.dst = e.hdr.dst => e.uid <= f.uid,
         NEW s, s.uid = e.uid, s.dst = e.hdr.dst, sent' = sent \cup {s},
         failed' = failed \cup Uids(queue \ (keep \cup {e})),
         UNCHANGED <<lo, refused, arrived>>
  PROVE  Custody'
<1>. USE DEF Custody, InFlight, Decided, Uids
<1>0. \A f \in queue \ {e} : f.uid # e.uid
  BY DEF DistinctUids
<1>1. KnownUids'
  BY DEF KnownUids
<1>2. DistinctUids'
  BY DEF DistinctUids
<1>3. LoopbackLast'
  BY DEF LoopbackLast
<1>4. OneVerdict'
  <2>1. /\ Uids(keep) \cap Uids(queue \ (keep \cup {e})) = {}
        /\ e.uid \notin Uids(queue \ (keep \cup {e})) /\ e.uid \notin Uids(keep)
    BY <1>0 DEF DistinctUids
  <2>2. e.uid \notin Uids(lo) \cup Uids(sent) \cup failed \cup refused
    BY DEF OneVerdict
  <2>3. Uids(lo') \cap Uids(queue') = {}
    BY DEF OneVerdict
  <2>4. Decided' = Decided \cup {e.uid} \cup Uids(queue \ (keep \cup {e}))
    OBVIOUS
  <2>5. Uids(lo') \cap Decided' = {} /\ Uids(queue') \cap Decided' = {}
    <3>1. Uids(lo) \cap Uids(queue) = {} /\ InFlight \cap Decided = {}
      BY DEF OneVerdict
    <3>2. Uids(lo') = Uids(lo) /\ Uids(queue') = Uids(keep) /\ Uids(keep) \subseteq Uids(queue)
      OBVIOUS
    <3>3. Uids(queue \ (keep \cup {e})) \subseteq Uids(queue) /\ e.uid \in Uids(queue)
      OBVIOUS
    <3>. HIDE DEF Uids, Decided
    <3>. QED BY <2>1, <2>4, <3>1, <3>2, <3>3
  <2>6. /\ Uids(sent') \cap failed' = {} /\ failed' \cap refused' = {}
        /\ Uids(sent') \cap refused' = {}
    BY <2>1, <2>2 DEF OneVerdict
  <2>7. \A t, u \in sent' : t.uid = u.uid => t = u
    BY <2>2 DEF OneVerdict
  <2>. QED BY <2>3, <2>5, <2>6, <2>7 DEF OneVerdict
<1>5. NotOvertaken'
  <2>1. \A f \in keep : f.uid \in Nat /\ e.uid \in Nat /\ f.uid # e.uid
    BY <1>0 DEF TypeOK, Uid
  <2>. QED BY <2>1 DEF NotOvertaken
<1>. QED BY <1>1, <1>2, <1>3, <1>4, <1>5

\* Every handler does one of these.
LEMMA CustodyStep == TypeOK /\ Custody /\ [Next]_vars => Custody'
<1>. SUFFICES ASSUME TypeOK, Custody, [Next]_vars PROVE Custody'
  OBVIOUS
<1>1. CASE \/ Tick \/ CheckQueue \/ FinishCheck \/ UNCHANGED vars
           \/ (\E n \in Nbrs : RecvGpsr(n)) \/ (\E d \in Flaky : ChangeNodeList(d))
  <2>1. UNCHANGED packetVars
    BY <1>1 DEF Tick, CheckQueue, FinishCheck, RecvGpsr, ChangeNodeList, packetVars,
                vars, sourceVars, historyVars
  <2>. QED BY <2>1, CustodyQuiet
<1>2. ASSUME NEW d \in Dsts, RouteOutputUnlocated(d) PROVE Custody'
  <2>1. PICK p : p.uid = arrived + 1 /\ lo' = lo \cup {p}
    BY <1>2 DEF RouteOutputUnlocated, Loopback, uid
  <2>. QED BY <1>2, <2>1, CustodyLoopback
           DEF RouteOutputUnlocated, Identify, uid, historyVars
<1>3. ASSUME NEW d \in Dsts, RouteOutputLocated(d) PROVE Custody'
  <2>1. arrived' = arrived + 1 /\ UNCHANGED <<queue, failed, refused>>
    BY <1>3 DEF RouteOutputLocated, Identify, uid
  <2>2. CASE Loopback(d, TRUE) /\ UNCHANGED sent
    <3>1. PICK p : p.uid = arrived + 1 /\ lo' = lo \cup {p}
      BY <2>2 DEF Loopback, uid
    <3>. QED BY <2>1, <2>2, <3>1, CustodyLoopback
  <2>3. ASSUME NEW hop, UNCHANGED lo,
               sent' = sent \cup {[uid |-> uid, dst |-> d, via |-> hop, how |-> "direct"]}
        PROVE  Custody'
    <3>1. PICK s : s.uid = arrived + 1 /\ s.how = "direct" /\ sent' = sent \cup {s}
      BY <2>3 DEF uid
    <3>. QED BY <2>1, <2>3, <3>1, CustodyDirect
  <2>. QED BY <1>3, <2>2, <2>3 DEF RouteOutputLocated
<1>4. ASSUME NEW p \in Front(lo), DeferredRouteOutput(p) PROVE Custody'
  <2>. DEFINE live == PurgeQueue(queue, now)
  <2>1. lo' = lo \ {p} /\ UNCHANGED <<sent, arrived>>
    BY <1>4 DEF DeferredRouteOutput, sourceVars
  <2>2. live \in SUBSET queue /\ MakeRoom(live) \in SUBSET queue
    BY DEF PurgeQueue, MakeRoom
  <2>3. CASE /\ refused' = refused \cup {p.uid} /\ queue' = live
             /\ failed' = failed \cup Uids(queue \ live)
    BY <2>1, <2>2, <2>3, CustodyRefuse
  <2>4. CASE /\ queue' = Enqueue(live, p.uid, p.hdr, now) /\ UNCHANGED refused
             /\ failed' = failed \cup Uids(queue \ MakeRoom(live))
    <3>1. PICK e : e.uid = p.uid /\ queue' = MakeRoom(live) \cup {e}
      BY <2>4 DEF Enqueue, NewEntry
    <3>. QED BY <2>1, <2>2, <2>4, <3>1, CustodyDefer
  <2>. QED BY <1>4, <2>3, <2>4 DEF DeferredRouteOutput
<1>5. ASSUME NEW p \in Front(lo), ForwardingGreedy(p) PROVE Custody'
  <2>1. PICK hop : Dispatch(p.uid, p.hdr.dst, hop, "forward", {})
    BY <1>5 DEF ForwardingGreedy
  <2>2. lo' = lo \ {p} /\ UNCHANGED <<queue, refused, arrived>>
    BY <1>5 DEF ForwardingGreedy, sourceVars
  <2>. QED BY <2>1, <2>2, CustodyForward
<1>6. ASSUME NEW o \in pending, SendNothing(o) PROVE Custody'
  <2>. DEFINE live == PurgeQueue(queue, now)
  <2>1. live \in SUBSET queue /\ queue' = live /\ failed' = failed \cup Uids(queue \ live)
    BY <1>6 DEF SendNothing, PurgeQueue
  <2>2. UNCHANGED <<lo, sent, refused, arrived>>
    BY <1>6 DEF SendNothing, Visit, sourceVars
  <2>. QED BY <2>1, <2>2, CustodyDrop
<1>7. ASSUME NEW o \in pending, SendUnlocated(o) PROVE Custody'
  <2>. DEFINE live == PurgeQueue(queue, now)
              mine == ForDst(live, o.dst)
              gone == Uids(queue \ live) \cup Uids(mine \ Front(mine))
  <2>1. live \ mine \in SUBSET queue /\ queue' = live \ mine /\ failed' = failed \cup gone
    BY <1>7 DEF SendUnlocated, PurgeQueue
  <2>2. gone \in SUBSET Uids(queue \ (live \ mine))
    BY DEF PurgeQueue, ForDst, Uids
  <2>3. UNCHANGED <<lo, sent, refused, arrived>>
    BY <1>7 DEF SendUnlocated, Visit, sourceVars
  <2>. QED BY <2>1, <2>2, <2>3, CustodyDrop
<1>8. ASSUME NEW o \in pending, SendNext(o) PROVE Custody'
  <2>. DEFINE live == PurgeQueue(queue, now)
              mine == ForDst(live, o.dst)
  <2>0. PICK e \in Front(mine) : \E hop :
          queue' = live \ {e} /\ Dispatch(e.uid, o.dst, hop, "queue", Uids(queue \ live))
    BY <1>8 DEF SendNext
  <2>1. PICK hop : queue' = live \ {e} /\ Dispatch(e.uid, o.dst, hop, "queue", Uids(queue \ live))
    BY <2>0
  <2>2. /\ e \in queue /\ e \in live /\ e.hdr.dst = o.dst /\ live \in SUBSET queue
        /\ \A f \in live : f.hdr.dst = o.dst => e.uid <= f.uid
    BY DEF Front, ForDst, PurgeQueue
  <2>3. UNCHANGED <<lo, refused, arrived>>
    BY <1>8 DEF SendNext, Visit, sourceVars
  <2>. HIDE DEF live
  <2>4. CASE /\ sent' = sent \cup {[uid |-> e.uid, dst |-> o.dst, via |-> hop, how |-> "queue"]}
             /\ failed' = failed \cup Uids(queue \ live)
    <3>1. PICK s : s.uid = e.uid /\ s.dst = e.hdr.dst /\ sent' = sent \cup {s}
      BY <2>2, <2>4
    <3>2. /\ (live \ {e}) \cup {e} = live /\ live \ {e} \in SUBSET (queue \ {e})
          /\ \A f \in live \ {e} : f.hdr.dst = e.hdr.dst => e.uid <= f.uid
      BY <2>2
    <3>. QED BY <2>1, <2>2, <2>3, <2>4, <3>1, <3>2, CustodySend
  <2>5. CASE failed' = failed \cup Uids(queue \ live) \cup {e.uid} /\ UNCHANGED sent
    <3>1. live \ {e} \in SUBSET queue
      BY <2>2
    <3>2. Uids(queue \ live) \cup {e.uid} \in SUBSET Uids(queue \ (live \ {e}))
      BY <2>2 DEF Uids
    <3>3. failed' = failed \cup (Uids(queue \ live) \cup {e.uid})
      BY <2>5
    <3>. QED BY <2>1, <2>3, <2>5, <3>1, <3>2, <3>3, CustodyDrop
  <2>. QED BY <2>1, <2>4, <2>5 DEF Dispatch
<1>. QED BY <1>1, <1>2, <1>3, <1>4, <1>5, <1>6, <1>7, <1>8
         DEF Next, Simulator, Surroundings, RouteInput, SendPacketFromQueue

\* Custody holds in every state of the agent.
THEOREM CustodyHolds == Spec => [](TypeOK /\ Custody)
<1>1. Init => TypeOK /\ Custody
  BY TypeInit, CustodyInit
<1>2. TypeOK /\ Custody /\ [Next]_vars => TypeOK' /\ Custody'
  BY TypeStep, CustodyStep
<1>. QED BY <1>1, <1>2, PTL DEF Spec

\* No packet ever gets a second verdict, in any topology and under any load: none is
\* both sent and reported lost, sent twice, or sent while a copy stays in the queue.
THEOREM VerdictsAreFinal == Spec => []OneVerdict
<1>1. Custody => OneVerdict
  BY DEF Custody
<1>. QED BY <1>1, CustodyHolds, PTL

\* The queue is first in, first out for every destination.
THEOREM QueueOrder == Spec => []NotOvertaken
<1>1. Custody => NotOvertaken
  BY DEF Custody
<1>. QED BY <1>1, CustodyHolds, PTL
=============================================================================
