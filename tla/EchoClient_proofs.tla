-------------------------- MODULE EchoClient_proofs --------------------------
(***************************************************************************)
(* The agent under the load of the echo client, for every topology, every  *)
(* interval longer than the period of the queue timer, every number of     *)
(* packets and every length of the queue and of the time in it: the client *)
(* never meets the cases in which the queue timer stops or aborts the run. *)
(***************************************************************************)
EXTENDS EchoClient, GpsrService_proofs

LEMMA ClientStep == [ClientNext]_clientVars => [Next]_vars
<1>1. Send => RouteOutputLocated(Server) /\ Server \in Dsts
  BY ClientAssumption DEF Send
<1>2. Run => Simulator
  BY DEF Run, Simulator
<1>3. Hear => \E n \in Nbrs : RecvGpsr(n)
  BY DEF Hear
<1>4. UNCHANGED clientVars => UNCHANGED vars
  BY DEF clientVars
<1>. QED BY <1>1, <1>2, <1>3, <1>4 DEF ClientNext, Next, Surroundings

\* The agent with its client is an agent: every theorem about Spec is one about
\* ClientSpec.
THEOREM ClientRunsTheAgent == ClientSpec => Spec
<1>1. ClientInit => Init
  BY DEF ClientInit
<1>. QED BY <1>1, ClientStep, PTL DEF ClientSpec, Spec

-----------------------------------------------------------------------------
(* What the handlers do as long as there is one packet.                    *)

\* In a list of one address, list::unique leaves one occurrence.
LEMMA OneOccurrence ==
  ASSUME NEW l \in SUBSET [at : Uid, dst : Dsts], \A o, p \in l : o = p,
         NEW n \in [at : Uid, dst : Dsts], \A o \in l : o.dst = n.dst
  PROVE  /\ Unique(l \cup {n}) \subseteq l \cup {n}
         /\ Unique(l \cup {n}) # {}
         /\ \A o, p \in Unique(l \cup {n}) : o = p
<1>. DEFINE u == Unique(l \cup {n})
<1>1. \A o \in l \cup {n} : o.at \in Nat /\ o.dst = n.dst
  BY DEF Uid
<1>2. \A o, p \in l \cup {n} : o.at = p.at => o = p
  OBVIOUS
<1>3. \A o \in l \cup {n} : o \in u <=> \A p \in l \cup {n} : p.at <= o.at
  BY <1>1 DEF Unique
<1>4. u \subseteq l \cup {n}
  BY DEF Unique
<1>. HIDE DEF u
<1>5. \A o, p \in u : o = p
  BY <1>1, <1>2, <1>3, <1>4
<1>6. u # {}
  <2>1. CASE l = {}
    BY <1>1, <1>3, <2>1
  <2>2. ASSUME NEW o \in l PROVE u # {}
    <3>1. l \cup {n} = {o, n} /\ o.at \in Nat /\ n.at \in Nat
      BY <1>1
    <3>2. o.at <= n.at \/ n.at <= o.at
      BY <3>1
    <3>3. o.at <= o.at /\ n.at <= n.at
      BY <3>1
    <3>. QED BY <1>3, <3>1, <3>2, <3>3
  <2>. QED BY <2>1, <2>2
<1>. QED BY <1>4, <1>5, <1>6 DEF u

\* A packet of the client is deferred into an empty queue: it gets the time of the timer
\* it restarts, and nothing is dropped (DeferredRouteOutput, Enqueue).
LEMMA DeferredAlone ==
  ASSUME ClientInv, NEW p \in Front(lo), DeferredRouteOutput(p)
  PROVE  /\ lo' = {} /\ queue' = {NewEntry(p.uid, p.hdr, now)}
         /\ RestartTimer
         /\ queuedAddresses' # {} /\ \A o, q \in queuedAddresses' : o = q
         /\ \A o \in queuedAddresses' : o.dst = Server
         /\ UNCHANGED <<failed, refused>>
<1>1. p \in lo /\ queue = {} /\ p.hdr.dst = Server /\ p.uid \in Uid
  BY DEF Front, ClientInv, OnePacket, OnlyServer, ClientTypeOK, TypeOK
<1>2. PurgeQueue(queue, now) = {} /\ MakeRoom({}) = {} /\ ~Duplicate({}, p.hdr) /\ Uids({}) = {}
  BY <1>1 DEF PurgeQueue, MakeRoom, Duplicate, Uids
<1>3. lo' = {}
  BY <1>1 DEF DeferredRouteOutput, ClientInv, OnePacket
<1>4. /\ queue' = {NewEntry(p.uid, p.hdr, now)} /\ RestartTimer
      /\ queuedAddresses' = Unique(queuedAddresses \cup {[at |-> p.uid, dst |-> Server]})
      /\ UNCHANGED <<failed, refused>>
  BY <1>1, <1>2 DEF DeferredRouteOutput, Enqueue
<1>. DEFINE n == [at |-> p.uid, dst |-> Server]
<1>5. n \in [at : Uid, dst : Dsts] /\ n.dst = Server
  BY <1>1, ClientAssumption
<1>6. queuedAddresses' = Unique(queuedAddresses \cup {n})
  BY <1>4
<1>. HIDE DEF n
<1>7. /\ queuedAddresses \in SUBSET [at : Uid, dst : Dsts]
      /\ \A o, q \in queuedAddresses : o = q
      /\ \A o \in queuedAddresses : o.dst = n.dst
  BY <1>5 DEF ClientInv, ClientTypeOK, TypeOK, OnePacket, OnlyServer
<1>8. /\ queuedAddresses' \subseteq queuedAddresses \cup {n}
      /\ queuedAddresses' # {} /\ \A o, q \in queuedAddresses' : o = q
  BY <1>5, <1>6, <1>7, OneOccurrence
<1>. QED BY <1>3, <1>4, <1>5, <1>7, <1>8

\* A look at the server's address leaves the queue empty and the timer alone, whether
\* the packet is sent, given up or too old (SendPacketFromQueue).
LEMMA LookedAt ==
  ASSUME ClientInv, NEW o \in pending, SendNothing(o) \/ SendUnlocated(o) \/ SendNext(o)
  PROVE  queue' = {} /\ UNCHANGED <<fatal, queueTimer>>
<1>. DEFINE live == PurgeQueue(queue, now)
<1>1. o.dst = Server /\ Server \in located
  BY ClientAssumption DEF ClientInv, OnlyServer
<1>2. live \subseteq queue /\ ForDst(live, o.dst) = live
  BY <1>1 DEF PurgeQueue, ForDst, ClientInv, OnlyServer
<1>3. \A e \in Front(live) : live = {e}
  BY <1>2 DEF Front, ClientInv, OnePacket
<1>. HIDE DEF live
<1>4. CASE SendNothing(o)
  BY <1>2, <1>4 DEF SendNothing, live
<1>5. CASE SendUnlocated(o)
  BY <1>1, <1>5 DEF SendUnlocated
<1>6. CASE SendNext(o)
  <2>1. PICK e \in Front(live) : queue' = live \ {e}
    BY <1>2, <1>6 DEF SendNext, live
  <2>2. live \ Front(live) = {}
    BY <1>3, <2>1
  <2>3. UNCHANGED <<fatal, queueTimer>>
    BY <1>2, <1>6, <2>2 DEF SendNext, live
  <2>. QED BY <1>3, <2>1, <2>3
<1>. QED BY <1>4, <1>5, <1>6

-----------------------------------------------------------------------------
(* The invariant.                                                          *)

LEMMA ClientInitInv == ClientInit => ClientInv
<1>. SUFFICES ASSUME ClientInit PROVE ClientInv
  OBVIOUS
<1>1. ClientTypeOK
  BY TypeInit, ClientAssumption DEF ClientInit, ClientTypeOK
<1>2. /\ lo = {} /\ queue = {} /\ queuedAddresses = {} /\ pending = {} /\ ~checking /\ ~fatal
      /\ located = Dsts /\ now = 0 /\ queueTimer = QueuePeriod
  BY DEF ClientInit, Init
<1>3. OnlyServer /\ OnePacket /\ CheckedInTime
  BY <1>2 DEF OnlyServer, OnePacket, CheckedInTime
<1>4. TimerInOrder
  BY <1>2, NodeAssumption DEF TimerInOrder
<1>. QED BY <1>1, <1>2, <1>3, <1>4 DEF ClientInv, NoAbort

LEMMA ClientInvStep == ClientInv /\ [ClientNext]_clientVars => ClientInv'
<1>. SUFFICES ASSUME ClientInv, [ClientNext]_clientVars PROVE ClientInv'
  OBVIOUS
<1>0. /\ now \in Nat /\ QueuePeriod \in Nat \ {0} /\ Interval \in Nat /\ Interval > QueuePeriod
      /\ MaxQueueTime \in Nat
      /\ queueTimer \in Nat \cup {NoTimer} /\ nextSend \in Nat \cup {NoTimer}
      /\ NoTimer \notin Nat
  BY NodeAssumption, QueueAssumption, ClientAssumption
     DEF ClientInv, ClientTypeOK, TypeOK, NoTimer
<1>1. ClientTypeOK'
  <2>1. TypeOK'
    BY TypeStep, ClientStep DEF ClientInv, ClientTypeOK
  <2>2. nextSend' \in Nat \cup {NoTimer}
    BY <1>0 DEF ClientNext, Send, Run, Hear, clientVars
  <2>. QED BY <2>1, <2>2 DEF ClientTypeOK
<1>. DEFINE Rest == /\ NoAbort /\ located = Dsts
                    /\ OnlyServer /\ OnePacket /\ TimerInOrder /\ CheckedInTime
<1>2. ASSUME Rest' PROVE ClientInv'
  BY <1>1, <1>2 DEF ClientInv
<1>3. CASE Send
  <2>1. Idle /\ nextSend # NoTimer /\ nextSend <= now
    BY <1>3 DEF Send, ClientDue, RouteOutputLocated, Identify
  <2>2. lo = {}
    BY <1>0, <2>1 DEF ClientInv, CheckedInTime, NotBefore
  <2>3. queue = {}
    BY <1>0, <2>1 DEF ClientInv, CheckedInTime, NotBefore, TimerInOrder, Idle
  <2>4. UNCHANGED <<clockVars, located, queue, queuedAddresses, queueTimer, checkVars>>
    BY <1>3 DEF Send, RouteOutputLocated
  <2>5. /\ \A p \in lo' : p.tagged /\ p.hdr.dst = Server
        /\ \A p, q \in lo' : p = q
    <3>1. lo' = lo \/ Loopback(Server, TRUE)
      BY <1>3 DEF Send, RouteOutputLocated
    <3>2. CASE lo' = lo
      BY <2>2, <3>2
    <3>3. CASE Loopback(Server, TRUE)
      <4>. DEFINE h == [dst |-> Server, id |-> nextId[Server]]
                  p == [uid |-> uid, hdr |-> h, tagged |-> TRUE]
      <4>1. lo' = {p} /\ p.tagged /\ p.hdr.dst = Server
        BY <2>2, <3>3 DEF Loopback
      <4>. HIDE DEF p
      <4>. QED BY <4>1
    <3>. QED BY <3>1, <3>2, <3>3
  <2>6. NotBefore(now + QueuePeriod)'
    <3>1. nextSend' \in {now + Interval, NoTimer} /\ now' = now
      BY <1>3, <2>4 DEF Send, clockVars
    <3>. QED BY <1>0, <3>1 DEF NotBefore
  <2>7. OnlyServer' /\ OnePacket'
    BY <2>3, <2>4, <2>5 DEF ClientInv, OnlyServer, OnePacket, checkVars
  <2>8. CheckedInTime' /\ TimerInOrder'
    BY <2>3, <2>4, <2>6 DEF ClientInv, CheckedInTime, TimerInOrder, checkVars, clockVars
  <2>. QED BY <1>2, <2>4, <2>7, <2>8 DEF ClientInv, NoAbort, clockVars
<1>4. CASE Tick /\ UNCHANGED nextSend
  <2>1. /\ lo = {} /\ (queueTimer # NoTimer => now < queueTimer) /\ now' = now + 1
        /\ UNCHANGED <<fatal, located, lo, queue, queuedAddresses, queueTimer, checkVars>>
    BY <1>0, <1>4 DEF Tick, TimerDue
  <2>2. OnlyServer' /\ OnePacket'
    BY <2>1 DEF ClientInv, OnlyServer, OnePacket, checkVars
  <2>3. TimerInOrder'
    BY <1>0, <2>1 DEF ClientInv, TimerInOrder, checkVars
  <2>4. CheckedInTime'
    BY <1>4, <2>1 DEF ClientInv, CheckedInTime, NotBefore, checkVars
  <2>. QED BY <1>2, <2>1, <2>2, <2>3, <2>4 DEF ClientInv, NoAbort
<1>5. ASSUME NEW p \in Front(lo), DeferredRouteOutput(p), UNCHANGED nextSend
      PROVE  ClientInv'
  <2>1. /\ lo' = {} /\ queue' = {NewEntry(p.uid, p.hdr, now)}
        /\ queueTimer' = now + QueuePeriod /\ UNCHANGED fatal
        /\ queuedAddresses' # {} /\ \A o, q \in queuedAddresses' : o = q
        /\ \A o \in queuedAddresses' : o.dst = Server
    BY <1>5, DeferredAlone DEF RestartTimer, CheckTime
  <2>2. /\ ~checking /\ p \in lo /\ p.hdr.dst = Server
        /\ UNCHANGED <<now, located, checking, pending>>
    BY <1>5 DEF DeferredRouteOutput, Idle, checkVars, Front, ClientInv, OnlyServer
  <2>3. \A e \in queue' : e.hdr.dst = Server /\ e.expire = now + MaxQueueTime
    BY <2>1, <2>2 DEF NewEntry
  <2>4. OnlyServer' /\ OnePacket'
    BY <2>1, <2>2, <2>3 DEF ClientInv, OnlyServer, OnePacket
  <2>5. TimerInOrder'
    BY <1>0, <2>1, <2>2 DEF TimerInOrder
  <2>6. NotBefore(now + QueuePeriod)
    BY <2>2 DEF ClientInv, CheckedInTime
  <2>7. NotBefore(queueTimer)' /\ queueTimer' # NoTimer
    BY <1>0, <1>5, <2>1, <2>6 DEF NotBefore
  <2>8. \A e \in queue' : queueTimer' = e.expire - MaxQueueTime + QueuePeriod
    BY <1>0, <2>1, <2>3
  <2>9. CheckedInTime'
    BY <2>1, <2>2, <2>7, <2>8 DEF CheckedInTime
  <2>. QED BY <1>2, <2>1, <2>2, <2>4, <2>5, <2>9 DEF ClientInv, NoAbort
<1>6. ASSUME NEW p \in Front(lo), ForwardingGreedy(p) PROVE FALSE
  BY <1>6 DEF ForwardingGreedy, Front, ClientInv, OnlyServer
<1>7. CASE CheckQueue /\ UNCHANGED nextSend
  <2>1. /\ ~checking /\ queueTimer' = NoTimer /\ checking' /\ pending' = queuedAddresses
        /\ UNCHANGED <<clockVars, located, lo, queue, queuedAddresses>>
    BY <1>7 DEF CheckQueue, Idle
  <2>2. OnlyServer' /\ OnePacket' /\ TimerInOrder'
    BY <2>1 DEF ClientInv, OnlyServer, OnePacket, TimerInOrder
  <2>3. CheckedInTime'
    BY <1>7, <2>1 DEF ClientInv, CheckedInTime, NotBefore, clockVars
  <2>. QED BY <1>2, <2>1, <2>2, <2>3 DEF ClientInv, NoAbort, clockVars
<1>8. ASSUME NEW o \in pending, SendNothing(o) \/ SendUnlocated(o) \/ SendNext(o),
             UNCHANGED nextSend
      PROVE  ClientInv'
  <2>1. queue' = {} /\ UNCHANGED <<fatal, queueTimer>>
    BY <1>8, LookedAt
  <2>2. /\ checking /\ pending' \subseteq pending
        /\ UNCHANGED <<now, located, lo, queuedAddresses, checking>>
    BY <1>8 DEF SendNothing, SendUnlocated, SendNext, Visit
  <2>3. OnlyServer' /\ OnePacket' /\ TimerInOrder'
    BY <2>1, <2>2 DEF ClientInv, OnlyServer, OnePacket, TimerInOrder
  <2>4. CheckedInTime'
    BY <1>8, <2>1, <2>2 DEF ClientInv, CheckedInTime, NotBefore
  <2>. QED BY <1>2, <2>1, <2>2, <2>3, <2>4 DEF ClientInv, NoAbort
<1>9. CASE FinishCheck /\ UNCHANGED nextSend
  <2>1. /\ checking /\ queueTimer = NoTimer /\ queue = {} /\ pending = {}
        /\ checking' = FALSE /\ queuedAddresses' \subseteq queuedAddresses
        /\ UNCHANGED <<now, located, lo, queue, pending>>
    BY <1>9 DEF FinishCheck, ClientInv, TimerInOrder, CheckedInTime
  <2>2. UNCHANGED fatal /\ queueTimer' \in {NoTimer, now + QueuePeriod}
    BY <1>9, <2>1 DEF FinishCheck, Schedule, CheckTime
  <2>3. OnlyServer' /\ OnePacket' /\ CheckedInTime'
    BY <1>9, <2>1 DEF ClientInv, OnlyServer, OnePacket, CheckedInTime, NotBefore
  <2>4. TimerInOrder'
    BY <1>0, <2>1, <2>2 DEF TimerInOrder
  <2>. QED BY <1>2, <2>1, <2>2, <2>3, <2>4 DEF ClientInv, NoAbort
<1>10. CASE \/ Hear \/ UNCHANGED clientVars
  <2>1. UNCHANGED <<clockVars, located, lo, queue, queuedAddresses, queueTimer, checkVars,
                    nextSend>>
    BY <1>10 DEF Hear, RecvGpsr, clientVars, vars
  <2>2. OnlyServer' /\ OnePacket' /\ TimerInOrder' /\ CheckedInTime'
    BY <2>1 DEF ClientInv, OnlyServer, OnePacket, TimerInOrder, CheckedInTime, NotBefore,
                clockVars, checkVars
  <2>. QED BY <1>2, <2>1, <2>2 DEF ClientInv, NoAbort, clockVars
<1>. QED BY <1>3, <1>4, <1>5, <1>6, <1>7, <1>8, <1>9, <1>10
         DEF ClientNext, Run, RouteInput, SendPacketFromQueue

LEMMA ClientInvHolds == ClientSpec => []ClientInv
  BY ClientInitInv, ClientInvStep, PTL DEF ClientSpec

-----------------------------------------------------------------------------
\* Every reachable state of the agent and its client is well typed.
THEOREM ClientTypeCorrect == ClientSpec => []ClientTypeOK
  BY ClientInvHolds, PTL DEF ClientInv

\* The agent never has two packets of the client in its hands: the first one has its
\* verdict before the client sends the second.
THEOREM ClientIsServedAlone == ClientSpec => []OneAtATime
<1>1. ClientInv => OneAtATime
  <2>. SUFFICES ASSUME ClientInv PROVE OneAtATime
    OBVIOUS
  <2>1. ASSUME NEW S, \A a, b \in S : a = b
        PROVE  Cardinality(S) = 0 \/ Cardinality(S) = 1
    <3>1. CASE S = {}
      BY <3>1, FS_EmptySet
    <3>2. ASSUME NEW a \in S PROVE Cardinality(S) = 1
      <4>1. S = {a}
        BY <2>1
      <4>. QED BY <4>1, FS_Singleton
    <3>. QED BY <3>1, <3>2
  <2>2. /\ Cardinality(lo) = 0 \/ Cardinality(lo) = 1
        /\ Cardinality(queue) = 0 \/ Cardinality(queue) = 1
    BY <2>1 DEF ClientInv, OnePacket
  <2>3. Cardinality(lo) = 0 \/ Cardinality(queue) = 0
    BY FS_EmptySet DEF ClientInv, OnePacket
  <2>. QED BY <2>2, <2>3 DEF OneAtATime
<1>. QED BY <1>1, ClientInvHolds, PTL

\* No packet of the client waits longer than one period of the queue timer.
THEOREM ClientIsServedPromptly == ClientSpec => []PromptService
<1>1. ClientInv => PromptService
  <2>. SUFFICES ASSUME ClientInv, Idle, ~TimerDue, NEW e \in queue
                PROVE  now < e.expire - MaxQueueTime + QueuePeriod
    BY DEF PromptService
  <2>1. queueTimer # NoTimer /\ queueTimer = e.expire - MaxQueueTime + QueuePeriod
    BY DEF ClientInv, CheckedInTime, Idle
  <2>2. now \in Nat /\ queueTimer \in Nat
    BY <2>1 DEF ClientInv, ClientTypeOK, TypeOK
  <2>. QED BY <2>1, <2>2 DEF TimerDue
<1>. QED BY <1>1, ClientInvHolds, PTL

\* With the client, the timer runs whenever a packet is queued ("Reschedule timer if
\* queue is not empty"), which it does not under every load.
THEOREM ClientKeepsTheTimer == ClientSpec => []TimerCoversQueue
<1>1. ClientInv => TimerCoversQueue
  BY DEF ClientInv, CheckedInTime, TimerCoversQueue, Idle
<1>. QED BY <1>1, ClientInvHolds, PTL

\* With the client, the timer is never scheduled while it is pending: the simulation is
\* never aborted, which it may be under another load.
THEOREM ClientNeverAborts == ClientSpec => []NoAbort
  BY ClientInvHolds, PTL DEF ClientInv

\* No packet of the client is lost without a trace: its node does not leave the
\* NodeList, so every packet is held by the agent or has its verdict.
THEOREM ClientLosesNothing == ClientSpec => []NothingLost
<1>1. Flaky = {}
  BY ClientAssumption
<1>. QED BY <1>1, ClientRunsTheAgent, NoPacketIsLost, PTL
=============================================================================
