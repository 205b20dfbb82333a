----------------------------- MODULE GpsrNetwork -----------------------------
(***************************************************************************)
(* The agents of several nodes and the packets they forward to each other. *)
(* RouteOutput sends a packet to a first neighbour or parks it at its      *)
(* origin; RouteInput of the next node delivers it or forwards it, greedily*)
(* or around the perimeter, with the position header the packet carries.   *)
(* The deferred-route tag and the header travel with the packet, and what  *)
(* PeekHeader and RemoveHeader do to a packet without header decides where *)
(* it goes next and what is left of its payload.                           *)
(*                                                                         *)
(* The timers are left to GpsrNode and GpsrBeacon: here a neighbour is     *)
(* heard or forgotten at any time, and a queued packet is, as PacketService*)
(* says, offered to SendPacketFromQueue or given up at any time.  So the   *)
(* way of a packet does not depend on the other packets.                   *)
(*                                                                         *)
(* A packet reaches another node only if Resolves has the next hop.  ns-3's*)
(* GetInterfaceForAddress finds a node's own addresses alone (Resolves is  *)
(* empty): the ways of packets over several hops are what the agents do    *)
(* under a look-up that knows the neighbours, as the code expects.         *)
(***************************************************************************)
EXTENDS GpsrPtable, Sequences

CONSTANTS
  Place,           \* the position of each node; DOMAIN Place are the nodes
  HelloPos,        \* what RecvGpsr reads from the HELLO of each node (GpsrHello)
  Hears,           \* the nodes each node may hear
  Resolves,        \* the next hops GetInterfaceForAddress finds an interface for
  Flows,           \* who sends to whom: [src, dst]; dst need not be a node
  Payloads,        \* what PeekHeader may read off a packet that has no position header
  Perimeter,       \* the nodes whose m_perimeterMode is set
  MaxTtl,          \* the TTL of a new packet
  MaxPackets       \* bound: packets sent

Nodes == DOMAIN Place

\* GpsrPositionHeader.  The place where recovery began and the time of the update
\* travel along and are used by nobody.
PositionHeader == [dst : Point, prev : Point, recovery : BOOLEAN]

ASSUME NetworkAssumption ==
  /\ Nodes \subseteq Addr
  /\ Place \in [Nodes -> Point] /\ HelloPos \in [Nodes -> Point]
  /\ Hears \in [Nodes -> SUBSET Nodes]
  /\ Resolves \subseteq Nodes
  /\ Flows \subseteq [src : Nodes, dst : Addr]
  /\ Payloads \subseteq PositionHeader
  /\ Perimeter \subseteq Nodes
  /\ MaxTtl \in Nat \ {0} /\ MaxPackets \in Nat

VARIABLES
  knows,       \* per node, the addresses in m_neighbors
  loopback,    \* packets on their way through a loopback device
  air,         \* packets on their way to a neighbour
  parked,      \* packets in m_queue
  accepted,    \* history: number of packets sent
  delivered,   \* history: packets that reached their destination
  dropped      \* history: packets given up by an agent or lost on the air

vars == <<knows, loopback, air, parked, accepted, delivered, dropped>>

\* A packet, with its position headers, the last one added in front, and, as history,
\* how often a header was removed from its payload and how often it was queued.
Packet == [uid : Nat, src : Nodes, dst : Addr, ttl : Nat, tagged : BOOLEAN,
           headers : Seq(PositionHeader), payload : PositionHeader,
           cut : Nat, queued : Nat]

\* Packets are kept with the node that has them, or is to receive them.
Custody == [at : Nodes, packet : Packet]

TypeOK ==
  /\ knows \in [Nodes -> SUBSET Nodes]
  /\ loopback \subseteq Custody /\ air \subseteq Custody /\ parked \subseteq Custody
  /\ accepted \in Nat
  /\ delivered \subseteq Nat /\ dropped \subseteq Nat

Init ==
  /\ knows = [n \in Nodes |-> {}]
  /\ loopback = {} /\ air = {} /\ parked = {}
  /\ accepted = 0 /\ delivered = {} /\ dropped = {}

-----------------------------------------------------------------------------
(* The headers of a packet.                                                *)

\* PeekHeader never fails: without a header the bytes of the payload are read as one.
PeekPositionHeader(p) == IF p.headers = <<>> THEN p.payload ELSE Head(p.headers)

AddPositionHeader(p, header) == [p EXCEPT !.headers = <<header>> \o @]

\* RemoveHeader of a packet without header takes 53 bytes of its payload.
RemovePositionHeader(p) ==
  IF p.headers = <<>> THEN [p EXCEPT !.cut = @ + 1] ELSE [p EXCEPT !.headers = Tail(@)]

RecoveryHeader(n, goal) == [dst |-> goal, prev |-> Place[n], recovery |-> TRUE]

-----------------------------------------------------------------------------
(* The neighbour tables.                                                   *)

Table(n) == [m \in knows[n] |-> [pos |-> HelloPos[m], time |-> 0]]

GreedyHop(n, goal) == BestNeighbor(Table(n), goal, Place[n])

\* RecvGpsr of a HELLO from m.
Hear(n, m) ==
  /\ knows' = [knows EXCEPT ![n] = @ \cup {m}]
  /\ UNCHANGED <<loopback, air, parked, accepted, delivered, dropped>>

\* A purge finds the entry of m too old.
Forget(n, m) ==
  /\ knows' = [knows EXCEPT ![n] = @ \ {m}]
  /\ UNCHANGED <<loopback, air, parked, accepted, delivered, dropped>>

-----------------------------------------------------------------------------
(* RouteOutput: an application sends a packet.                             *)

NewPacket(f, tag, payload) ==
  [uid |-> accepted + 1, src |-> f.src, dst |-> f.dst, ttl |-> MaxTtl, tagged |-> tag,
   headers |-> <<>>, payload |-> payload, cut |-> 0, queued |-> 0]

Accept ==
  /\ accepted < MaxPackets
  /\ accepted' = accepted + 1
  /\ UNCHANGED <<knows, parked, delivered, dropped>>

\* No node has the destination's address: loopback, before the tag is added.
RouteOutputUnlocated(f) ==
  /\ Accept
  /\ f.dst \notin Nodes
  /\ \E payload \in Payloads :
       loopback' = loopback \cup {[at |-> f.src, packet |-> NewPacket(f, FALSE, payload)]}
  /\ UNCHANGED air

OutputHop(f) == IF f.dst \in knows[f.src] THEN f.dst ELSE GreedyHop(f.src, Place[f.dst])

\* The tag is added in both cases; with a hop and an interface the packet leaves at once.
RouteOutputLocated(f) ==
  /\ Accept
  /\ f.dst \in Nodes
  /\ \E payload \in Payloads :
       LET p == NewPacket(f, TRUE, payload)
       IN  \/ /\ OutputHop(f) \in Resolves
              /\ air' = air \cup {[at |-> OutputHop(f), packet |-> p]}
              /\ UNCHANGED loopback
           \/ /\ OutputHop(f) \notin Resolves
              /\ loopback' = loopback \cup {[at |-> f.src, packet |-> p]}
              /\ UNCHANGED air

-----------------------------------------------------------------------------
(* The two ways a packet leaves an agent.                                  *)

\* Faults: the interface is not looked up; a packet without next hop vanishes; a
\* packet is sent on with a new IP header.
TransmitUnchecked(rest, n, hop, p) ==
  \/ /\ p.ttl > 1
     /\ air' = rest \cup {[at |-> hop, packet |-> [p EXCEPT !.ttl = @ - 1]]}
     /\ UNCHANGED dropped
  \/ /\ p.ttl <= 1
     /\ dropped' = dropped \cup {p.uid}
     /\ air' = rest
TransmitSilently(rest, n, hop, p) ==
  /\ UNCHANGED dropped
  /\ air' = rest \cup {[at |-> m, packet |-> [p EXCEPT !.ttl = @ - 1]] :
                         m \in IF p.ttl > 1 THEN {hop} \cap Resolves ELSE {}}
TransmitAnew(rest, n, hop, p) ==
  \/ /\ hop \in Resolves
     /\ air' = rest \cup {[at |-> hop, packet |-> [p EXCEPT !.ttl = MaxTtl]]}
     /\ UNCHANGED dropped
  \/ /\ hop \notin Resolves
     /\ dropped' = dropped \cup {p.uid}
     /\ air' = rest

\* Node n hands p to its next hop with the forward callback, which counts the TTL down
\* and drops the packet when it runs out, or calls its error callback.  rest is what is
\* on the air besides p.
Transmit(rest, n, hop, p) ==
  \/ /\ hop \in Resolves /\ p.ttl > 1
     /\ air' = rest \cup {[at |-> hop, packet |-> [p EXCEPT !.ttl = @ - 1]]}
     /\ UNCHANGED dropped
  \/ /\ hop \notin Resolves \/ p.ttl <= 1
     /\ dropped' = dropped \cup {p.uid}
     /\ air' = rest

\* RecoveryMode: around the perimeter, with this node as the previous hop.
RecoveryMode(rest, n, p) ==
  LET header == PeekPositionHeader(p)
      onward == AddPositionHeader(RemovePositionHeader(p), [header EXCEPT !.prev = Place[n]])
  IN  Transmit(rest, n, BestAngle(Table(n), Place[n], header.prev), onward)

\* Without a neighbour nearer to goal: recovery with q, or the error callback.
Recover(rest, n, q) ==
  \/ /\ n \in Perimeter
     /\ RecoveryMode(rest, n, q)
  \/ /\ n \notin Perimeter
     /\ dropped' = dropped \cup {q.uid}
     /\ air' = rest

-----------------------------------------------------------------------------
(* RouteInput of a packet from the loopback device or from a neighbour.    *)

\* Fault: the tag stays on the packet that is queued.
DeferKeepingTag(p) == [p EXCEPT !.queued = @ + 1]

\* What DeferredRouteOutput queues.
Defer(p) == [p EXCEPT !.tagged = FALSE, !.queued = @ + 1]

ToQueue(e) == e.packet.tagged /\ e.packet.src = e.at

\* A tagged packet at its origin, whatever its destination.
DeferredRouteOutput(rest, e) ==
  /\ ToQueue(e)
  /\ parked' = parked \cup {[at |-> e.at, packet |-> Defer(e.packet)]}
  /\ air' = rest
  /\ UNCHANGED <<delivered, dropped>>

\* Local delivery: the packet is passed up as it is.
Deliver(rest, e) ==
  /\ ~ToQueue(e)
  /\ e.packet.dst = e.at
  /\ delivered' = delivered \cup {e.packet.uid}
  /\ air' = rest
  /\ UNCHANGED <<parked, dropped>>

\* Fault: the header is added without removing the one that may be there.
StartRecoveryOnTop(n, p) == AddPositionHeader(p, RecoveryHeader(n, PeekPositionHeader(p).dst))

\* Recovery begins here: "remove any potentially stale/incorrect position header".
StartRecovery(n, p) ==
  AddPositionHeader(RemovePositionHeader(p), RecoveryHeader(n, PeekPositionHeader(p).dst))

\* ForwardingGreedy towards the place the header, or the payload, names.
ForwardingGreedy(rest, e) ==
  LET n      == e.at
      p      == e.packet
      header == PeekPositionHeader(p)
      greedy == GreedyHop(n, header.dst)
  IN  /\ ~ToQueue(e)
      /\ p.dst # n
      /\ \/ /\ greedy # NoAddr
            /\ Transmit(rest, n, greedy, p)
         \/ /\ greedy = NoAddr
            /\ Recover(rest, n, IF header.recovery THEN p ELSE StartRecovery(n, p))
      /\ UNCHANGED <<parked, delivered>>

Handle(rest, e) ==
  DeferredRouteOutput(rest, e) \/ Deliver(rest, e) \/ ForwardingGreedy(rest, e)

FromLoopback ==
  /\ \E e \in loopback : Handle(air, e) /\ loopback' = loopback \ {e}
  /\ UNCHANGED <<knows, accepted>>

FromNeighbor ==
  /\ \E e \in air : Handle(air \ {e}, e)
  /\ UNCHANGED <<knows, loopback, accepted>>

-----------------------------------------------------------------------------
(* The queue and the channel.                                              *)

\* Fault: a header the packet may have is removed first.
FirstHeaderInstead(n, p) ==
  AddPositionHeader(RemovePositionHeader(p), RecoveryHeader(n, Place[p.dst]))

\* "Packet from queue is assumed not to have a position header yet."
FirstHeader(n, p) == AddPositionHeader(p, RecoveryHeader(n, Place[p.dst]))

\* SendPacketFromQueue, towards the place of the destination's node.
SendPacketFromQueue(e) ==
  LET n      == e.at
      p      == e.packet
      greedy == GreedyHop(n, Place[p.dst])
  IN  /\ parked' = parked \ {e}
      /\ \/ /\ greedy # NoAddr
            /\ Transmit(air, n, greedy, p)
         \/ /\ greedy = NoAddr
            /\ Recover(air, n, FirstHeader(n, p))
      /\ UNCHANGED <<knows, loopback, accepted, delivered>>

\* The queue gives a packet up: expired, pushed out, a duplicate.
GiveUp(e) ==
  /\ parked' = parked \ {e}
  /\ dropped' = dropped \cup {e.packet.uid}
  /\ UNCHANGED <<knows, loopback, air, accepted, delivered>>

\* The neighbour is out of range or the frame collides.
LoseFrame(e) ==
  /\ air' = air \ {e}
  /\ dropped' = dropped \cup {e.packet.uid}
  /\ UNCHANGED <<knows, loopback, parked, accepted, delivered>>

-----------------------------------------------------------------------------
RouteInput == FromLoopback \/ FromNeighbor

Next ==
  \/ RouteInput
  \/ \E f \in Flows : RouteOutputUnlocated(f) \/ RouteOutputLocated(f)
  \/ \E e \in parked : SendPacketFromQueue(e) \/ GiveUp(e)
  \/ \E e \in air : LoseFrame(e)
  \/ \E n \in Nodes : \E m \in Hears[n] : Hear(n, m) \/ Forget(n, m)

Spec == Init /\ [][Next]_vars
\* The simulator delivers what is on its way: weak fairness of RouteInput, which is
\* enabled when something is.  Nothing is assumed of the queues.
FairSpec == Spec /\ ([]<>(loopback \cup air = {}) \/ []<><<RouteInput>>_vars)

-----------------------------------------------------------------------------
InHand  == loopback \cup air \cup parked
Packets == {e.packet : e \in InHand}

\* A packet is queued at most once in its life and at its origin only, although the tag
\* that sends it there stays on every packet RouteOutput sends at once and comes back
\* with the packet when the perimeter leads to the origin (RouteInput removes the tag).
QueuedOnce ==
  /\ \A p \in Packets : p.queued <= 1
  /\ \A e \in parked : e.at = e.packet.src

\* The payload loses at most one header's worth of bytes, and the packet carries at most
\* one header more than was cut off (RemoveHeader before AddHeader in ForwardingGreedy,
\* AddHeader alone in SendPacketFromQueue).
SizeBound == \A p \in Packets : p.cut <= 1 /\ Len(p.headers) <= p.cut + 1

\* Where the header in front leads: once the origin's queue has added a header, to the
\* node of the destination, for the rest of the packet's life; before that, to wherever
\* the payload says.
HeaderGoal ==
  \A p \in Packets : p.headers # <<>> =>
    Head(p.headers).dst = IF Len(p.headers) > p.cut THEN Place[p.dst] ELSE p.payload.dst

\* Whatever the paths, packets do not circle for ever: again and again nothing is on
\* its way, although the perimeter search never notices that it has been round.
Quiet == []<>(loopback = {} /\ air = {})

\* The network as a whole implements PacketService: a packet is at one place, reaches
\* its destination once or is given up once, and nothing else happens to it.
EndToEnd ==
  INSTANCE PacketService WITH
    Destinations <- {f.dst : f \in Flows},
    held         <- {[uid |-> e.packet.uid, dst |-> e.packet.dst] : e \in InHand},
    givenUp      <- dropped

ImplementsService == EndToEnd!SSpec
=============================================================================
