--------------------------- MODULE GpsrNodeProps ---------------------------
(***************************************************************************)
(* What the routing agent of one node promises about the packets of its    *)
(* application, and what its comments say it does.                         *)
(***************************************************************************)
EXTENDS GpsrNode

InFlight  == Uids(lo) \cup Uids(queue)
Decided   == Uids(sent) \cup failed \cup refused
QueuedFor(d) == ForDst(queue, d)

\* A packet is never given a second verdict: it is on its way through loopback, in
\* the queue, given to a neighbour, reported by its error callback, or refused as a
\* duplicate, and never two of these (the callbacks of RouteOutput,
\* DeferredRouteOutput, the purges, SendPacketFromQueue and ForwardingGreedy).
OneVerdict ==
  /\ Uids(lo) \cap Uids(queue) = {}
  /\ InFlight \cap Decided = {}
  /\ Uids(sent) \cap failed = {} /\ Uids(sent) \cap refused = {} /\ failed \cap refused = {}
  /\ \A s, t \in sent : s.uid = t.uid => s = t

\* No packet is lost without a trace: whatever the application sent is still held by
\* the agent or has its verdict ("drop all packets for a destination and call error
\* callback" is how a packet that cannot be routed ends).
NothingLost == InFlight \cup Decided = 1 .. arrived

\* The queue never exceeds its maximum length (the equality test in Enqueue).
QueueBound == Cardinality(queue) <= MaxQueueLen

\* Two packets of the queue never carry the same IP header, whatever identifications
\* come round again (the duplicate check in Enqueue).
NoTwins == \A e, f \in queue : e.hdr = f.hdr => e = f

\* Packets of one destination leave the queue in the order they entered it: none is
\* sent from the queue while an older one for the same destination stays behind.
NotOvertaken ==
  \A s \in sent, e \in queue : s.how = "queue" /\ s.dst = e.hdr.dst => s.uid < e.uid

\* A packet is never sent from the queue after the time it may stay there is over
\* (Dequeue purges before it looks), however late CheckQueue comes.
NoLateSend ==
  [][\A e \in queue : e.uid \in Uids(sent') \ Uids(sent) => now <= e.expire]_vars

\* A packet goes to a neighbour heard within the entry lifetime, whoever sends it and
\* however long it waited: every search purges the table.  The one expired neighbour a
\* packet can meet is its own destination, which RouteOutput looks up before the purge.
FreshNextHop ==
  [][\A s \in sent' \ sent :
       \/ s.how = "direct" /\ s.via = s.dst
       \/ s.via \in DOMAIN table /\ Current(table[s.via], now)]_vars

\* The simulation reaches its end or aborts: CheckQueue, which may set its timer to
\* fire at once, never keeps the clock from advancing.
SimulationEnds == <>(now = EndTime \/ fatal)

\* "Reschedule timer if queue is not empty": between two events, a queued packet has
\* the timer running.
TimerCoversQueue == Idle /\ queue # {} => queueTimer # NoTimer

\* "Check queue again immediately": setting the timer again never aborts the
\* simulation, which Timer::Schedule does while the timer is pending.
NoAbort == ~fatal

\* What makes OneVerdict and NotOvertaken inductive: uids are never reused, and a packet
\* still in the loopback device is younger than any that has been in the queue.
KnownUids    == InFlight \cup Decided \subseteq 1 .. arrived
DistinctUids == /\ \A p, q \in lo : p.uid = q.uid => p = q
                /\ \A e, f \in queue : e.uid = f.uid => e = f
LoopbackLast == \A p \in lo : /\ \A e \in queue : e.uid < p.uid
                              /\ \A s \in sent : s.how = "queue" => s.uid < p.uid
Custody == KnownUids /\ DistinctUids /\ LoopbackLast /\ OneVerdict /\ NotOvertaken

\* The agent implements PacketService: the packets in the loopback device and in the
\* queue are the packets kept; an error callback or a refused duplicate gives one up.
Service ==
  INSTANCE PacketService WITH
    Destinations <- Dsts,
    accepted     <- arrived,
    held         <- {[uid |-> e.uid, dst |-> e.hdr.dst] : e \in lo \cup queue},
    delivered    <- Uids(sent),
    givenUp      <- failed \cup refused

ImplementsService == Service!SSpec
=============================================================================
