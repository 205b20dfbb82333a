------------------------- MODULE GpsrNetwork_proofs -------------------------
(***************************************************************************)
(* Packets on their way through any network, whatever the topology, the    *)
(* positions read from HELLOs, the payloads and the number of packets.     *)
(* One invariant of each packet in hand ties the tag, the queue and the    *)
(* position headers together.                                              *)
(***************************************************************************)
EXTENDS GpsrNetwork, SequenceTheorems, TLAPS

USE NetworkAssumption

\* Where the header in front leads.
GoalOf(p) == IF Len(p.headers) > p.cut THEN Place[p.dst] ELSE p.payload.dst

\* A packet that was not queued has a header exactly if one was cut off its payload, and
\* only the queue adds one more; nothing is ever cut twice; the tag is gone once the
\* packet was queued, and is only on packets to a node.
Orderly(p) ==
  /\ p \in Packet
  /\ p.cut <= 1 /\ Len(p.headers) <= p.cut + 1
  /\ p.cut = 1 => p.headers # <<>>
  /\ p.queued <= 1
  /\ p.queued = 0 => Len(p.headers) = p.cut
  /\ p.tagged => p.queued = 0 /\ p.dst \in Nodes
  /\ p.headers # <<>> => Head(p.headers).dst = GoalOf(p)

OrderlyCustody == {e \in Custody : Orderly(e.packet)}

\* In the queue: at the origin, for a node, and with no more headers than were cut off.
OrderlyParked ==
  {e \in OrderlyCustody : /\ e.at = e.packet.src
                          /\ e.packet.dst \in Nodes
                          /\ ~e.packet.tagged /\ e.packet.queued = 1
                          /\ Len(e.packet.headers) = e.packet.cut}

NetInv ==
  /\ TypeOK
  /\ loopback \subseteq OrderlyCustody /\ air \subseteq OrderlyCustody
  /\ parked \subseteq OrderlyParked

-----------------------------------------------------------------------------
(* Headers.                                                                *)

LEMMA FrontOfConcat ==
  ASSUME NEW h \in PositionHeader, NEW s \in Seq(PositionHeader)
  PROVE  /\ <<h>> \o s \in Seq(PositionHeader)
         /\ <<h>> \o s # <<>>
         /\ Head(<<h>> \o s) = h
         /\ Len(<<h>> \o s) = Len(s) + 1
<1>1. <<h>> \in Seq(PositionHeader) /\ Len(<<h>>) = 1 /\ <<h>>[1] = h
  OBVIOUS
<1>2. /\ <<h>> \o s \in Seq(PositionHeader)
      /\ Len(<<h>> \o s) = Len(s) + 1
      /\ (<<h>> \o s)[1] = h
  BY <1>1, ConcatProperties
<1>3. <<h>> \o s # <<>>
  BY <1>2, EmptySeq
<1>. QED BY <1>2, <1>3

LEMMA TailOfHeaders ==
  ASSUME NEW s \in Seq(PositionHeader), s # <<>>
  PROVE  /\ Tail(s) \in Seq(PositionHeader)
         /\ Len(Tail(s)) = Len(s) - 1
         /\ Head(s) \in PositionHeader
         /\ Len(s) \in Nat \ {0}
  BY HeadTailProperties, EmptySeq

\* What travels with a packet and no header operation changes.
SameButHeaders(p, q) ==
  /\ q.uid = p.uid /\ q.src = p.src /\ q.dst = p.dst /\ q.ttl = p.ttl
  /\ q.tagged = p.tagged /\ q.payload = p.payload /\ q.queued = p.queued

LEMMA PeekIsHeader ==
  ASSUME NEW p, Orderly(p)
  PROVE  PeekPositionHeader(p) \in PositionHeader
  BY TailOfHeaders DEF Orderly, PeekPositionHeader, Packet

LEMMA WithHeaders ==
  ASSUME NEW p \in Packet, NEW hs \in Seq(PositionHeader)
  PROVE  LET q == [p EXCEPT !.headers = hs]
         IN  q \in Packet /\ SameButHeaders(p, q) /\ q.headers = hs /\ q.cut = p.cut
  BY DEF Packet, SameButHeaders

LEMMA WithCut ==
  ASSUME NEW p \in Packet, NEW c \in Nat
  PROVE  LET q == [p EXCEPT !.cut = c]
         IN  q \in Packet /\ SameButHeaders(p, q) /\ q.headers = p.headers /\ q.cut = c
  BY DEF Packet, SameButHeaders

LEMMA HeaderAdded ==
  ASSUME NEW p \in Packet, NEW h \in PositionHeader
  PROVE  LET q == AddPositionHeader(p, h)
         IN  /\ q \in Packet /\ SameButHeaders(p, q) /\ q.cut = p.cut
             /\ q.headers # <<>> /\ Head(q.headers) = h
             /\ Len(q.headers) = Len(p.headers) + 1
<1>. DEFINE hs == <<h>> \o p.headers
<1>1. p.headers \in Seq(PositionHeader)
  BY DEF Packet
<1>2. hs \in Seq(PositionHeader) /\ hs # <<>> /\ Head(hs) = h /\ Len(hs) = Len(p.headers) + 1
  BY <1>1, FrontOfConcat
<1>3. AddPositionHeader(p, h) = [p EXCEPT !.headers = hs]
  BY DEF AddPositionHeader
<1>. HIDE DEF hs
<1>. QED BY <1>2, <1>3, WithHeaders

LEMMA HeaderRemoved ==
  ASSUME NEW p \in Packet
  PROVE  LET r == RemovePositionHeader(p)
         IN  /\ r \in Packet /\ SameButHeaders(p, r)
             /\ p.headers = <<>> => r.headers = <<>> /\ r.cut = p.cut + 1
             /\ p.headers # <<>> => Len(r.headers) = Len(p.headers) - 1 /\ r.cut = p.cut
<1>1. p.headers \in Seq(PositionHeader) /\ p.cut \in Nat
  BY DEF Packet
<1>2. CASE p.headers = <<>>
  <2>. DEFINE c == p.cut + 1
  <2>1. RemovePositionHeader(p) = [p EXCEPT !.cut = c] /\ c \in Nat
    BY <1>1, <1>2 DEF RemovePositionHeader
  <2>. HIDE DEF c
  <2>2. /\ RemovePositionHeader(p) \in Packet /\ SameButHeaders(p, RemovePositionHeader(p))
        /\ RemovePositionHeader(p).headers = p.headers /\ RemovePositionHeader(p).cut = c
    BY <2>1, WithCut
  <2>. QED BY <1>2, <2>2 DEF c
<1>3. CASE p.headers # <<>>
  <2>. DEFINE hs == Tail(p.headers)
  <2>1. hs \in Seq(PositionHeader) /\ Len(hs) = Len(p.headers) - 1
    BY <1>1, <1>3, TailOfHeaders
  <2>2. RemovePositionHeader(p) = [p EXCEPT !.headers = hs]
    BY <1>3 DEF RemovePositionHeader
  <2>. HIDE DEF hs
  <2>3. /\ RemovePositionHeader(p) \in Packet /\ SameButHeaders(p, RemovePositionHeader(p))
        /\ RemovePositionHeader(p).headers = hs /\ RemovePositionHeader(p).cut = p.cut
    BY <2>1, <2>2, WithHeaders
  <2>. QED BY <1>3, <2>1, <2>3
<1>. QED BY <1>2, <1>3

\* RemoveHeader and AddHeader together keep a packet in order as long as the new header
\* leads where the old one did.
LEMMA ReplaceHeader ==
  ASSUME NEW p, Orderly(p), NEW h \in PositionHeader, h.dst = PeekPositionHeader(p).dst
  PROVE  LET q == AddPositionHeader(RemovePositionHeader(p), h)
         IN  Orderly(q) /\ SameButHeaders(p, q)
<1>. DEFINE r == RemovePositionHeader(p)
            q == AddPositionHeader(r, h)
<1>0. p \in Packet /\ p.headers \in Seq(PositionHeader) /\ Len(p.headers) \in Nat
      /\ p.cut \in Nat
  BY LenProperties DEF Orderly, Packet
<1>1. /\ r \in Packet /\ SameButHeaders(p, r)
      /\ p.headers = <<>> => r.headers = <<>> /\ r.cut = p.cut + 1
      /\ p.headers # <<>> => Len(r.headers) = Len(p.headers) - 1 /\ r.cut = p.cut
  BY <1>0, HeaderRemoved
<1>. HIDE DEF r
<1>2. /\ q \in Packet /\ SameButHeaders(r, q) /\ q.cut = r.cut
      /\ q.headers # <<>> /\ Head(q.headers) = h /\ Len(q.headers) = Len(r.headers) + 1
  BY <1>1, HeaderAdded
<1>3. SameButHeaders(p, q)
  BY <1>1, <1>2 DEF SameButHeaders
<1>. HIDE DEF q
<1>4. ASSUME p.headers = <<>> PROVE Orderly(q)
  <2>1. p.cut = 0 /\ Len(p.headers) = 0 /\ h.dst = p.payload.dst
    BY <1>0, <1>4 DEF Orderly, PeekPositionHeader
  <2>2. q.cut = 1 /\ Len(q.headers) = 1
    BY <1>1, <1>2, <1>4, <2>1
  <2>3. q.cut \in Nat /\ Len(q.headers) = q.cut /\ q.cut <= 1 /\ Len(q.headers) <= q.cut + 1
    BY <2>2
  <2>4. GoalOf(q) = p.payload.dst
    BY <1>3, <2>3 DEF SameButHeaders, GoalOf
  <2>. QED BY <1>2, <1>3, <2>1, <2>3, <2>4 DEF Orderly, SameButHeaders
<1>5. ASSUME p.headers # <<>> PROVE Orderly(q)
  <2>1. q.cut = p.cut /\ Len(q.headers) = Len(p.headers) /\ h.dst = Head(p.headers).dst
    BY <1>0, <1>1, <1>2, <1>5 DEF PeekPositionHeader
  <2>. QED BY <1>2, <1>3, <1>5, <2>1 DEF Orderly, SameButHeaders, GoalOf
<1>. QED BY <1>3, <1>4, <1>5 DEF q, r

\* The queue adds a header to the destination's node.
LEMMA FirstHeaderAdded ==
  ASSUME NEW e \in OrderlyParked
  PROVE  LET q == FirstHeader(e.at, e.packet)
         IN  Orderly(q) /\ SameButHeaders(e.packet, q)
<1>. DEFINE p == e.packet
            h == RecoveryHeader(e.at, Place[p.dst])
            q == AddPositionHeader(p, h)
<1>1. /\ Orderly(p) /\ p \in Packet /\ e.at \in Nodes /\ p.dst \in Nodes
      /\ ~p.tagged /\ p.queued = 1 /\ Len(p.headers) = p.cut
  BY DEF OrderlyParked, OrderlyCustody, Orderly, Custody
<1>2. h \in PositionHeader /\ h.dst = Place[p.dst]
  BY <1>1 DEF RecoveryHeader, PositionHeader
<1>. HIDE DEF h
<1>3. /\ q \in Packet /\ SameButHeaders(p, q) /\ q.cut = p.cut
      /\ q.headers # <<>> /\ Head(q.headers) = h /\ Len(q.headers) = Len(p.headers) + 1
  BY <1>1, <1>2, HeaderAdded
<1>4. p.cut \in Nat
  BY <1>1 DEF Packet
<1>. HIDE DEF p, q
<1>5. Orderly(q) /\ SameButHeaders(p, q)
  BY <1>1, <1>2, <1>3, <1>4 DEF Orderly, SameButHeaders, GoalOf
<1>. QED BY <1>5 DEF p, h, q, FirstHeader

-----------------------------------------------------------------------------
(* What the agents do with a packet.                                       *)

SameJourney(p, q) == q.uid = p.uid /\ q.dst = p.dst

\* Packet p goes on over the air, or is given up.
PassedOn(rest, p) ==
  \/ \E f \in OrderlyCustody : /\ SameJourney(p, f.packet)
                               /\ air' = rest \cup {f}
                               /\ UNCHANGED dropped
  \/ air' = rest /\ dropped' = dropped \cup {p.uid}

\* What RouteInput does with e.
Handled(rest, e) ==
  \/ PassedOn(rest, e.packet) /\ UNCHANGED <<parked, delivered>>
  \/ /\ \E f \in OrderlyParked : /\ SameJourney(e.packet, f.packet)
                                 /\ parked' = parked \cup {f}
     /\ air' = rest
     /\ UNCHANGED <<delivered, dropped>>
  \/ /\ air' = rest
     /\ delivered' = delivered \cup {e.packet.uid}
     /\ UNCHANGED <<parked, dropped>>

LEMMA PassedOnSame ==
  ASSUME NEW rest, NEW p, NEW q, SameButHeaders(p, q), PassedOn(rest, q)
  PROVE  PassedOn(rest, p)
  BY DEF PassedOn, SameButHeaders, SameJourney

\* One less to live.
LEMMA OneHopOlder ==
  ASSUME NEW p, Orderly(p), p.ttl > 1
  PROVE  LET q == [p EXCEPT !.ttl = @ - 1] IN Orderly(q) /\ SameJourney(p, q)
<1>. DEFINE q == [p EXCEPT !.ttl = p.ttl - 1]
<1>1. p \in Packet /\ p.ttl - 1 \in Nat
  BY DEF Orderly, Packet
<1>2. /\ q \in Packet /\ q.uid = p.uid /\ q.dst = p.dst /\ q.headers = p.headers
      /\ q.cut = p.cut /\ q.queued = p.queued /\ q.tagged = p.tagged
      /\ q.payload = p.payload
  BY <1>1 DEF Packet
<1>. HIDE DEF q
<1>3. GoalOf(q) = GoalOf(p)
  BY <1>2 DEF GoalOf
<1>4. Orderly(q) /\ SameJourney(p, q)
  BY <1>2, <1>3 DEF Orderly, SameJourney
<1>. QED BY <1>4 DEF q

LEMMA TransmitPasses ==
  ASSUME NEW rest, NEW n, NEW hop, NEW p, Orderly(p), Transmit(rest, n, hop, p)
  PROVE  PassedOn(rest, p)
<1>1. CASE hop \in Resolves /\ p.ttl > 1
  <2>. DEFINE q == [p EXCEPT !.ttl = @ - 1]
              f == [at |-> hop, packet |-> q]
  <2>1. Orderly(q) /\ SameJourney(p, q)
    BY <1>1, OneHopOlder
  <2>2. air' = rest \cup {f} /\ UNCHANGED dropped
    <3>1. p.ttl \in Nat
      BY DEF Orderly, Packet
    <3>. QED BY <1>1, <3>1 DEF Transmit
  <2>. HIDE DEF q
  <2>3. q \in Packet /\ hop \in Nodes
    BY <1>1, <2>1 DEF Orderly
  <2>4. f \in OrderlyCustody /\ f.packet = q
    BY <2>1, <2>3 DEF OrderlyCustody, Custody
  <2>. QED BY <2>1, <2>2, <2>4 DEF PassedOn
<1>2. CASE ~(hop \in Resolves /\ p.ttl > 1)
  BY <1>2 DEF Transmit, PassedOn
<1>. QED BY <1>1, <1>2

LEMMA RecoveryModePasses ==
  ASSUME NEW rest, NEW n \in Nodes, NEW p, Orderly(p), RecoveryMode(rest, n, p)
  PROVE  PassedOn(rest, p)
<1>. DEFINE header == PeekPositionHeader(p)
            onward == AddPositionHeader(RemovePositionHeader(p),
                                        [header EXCEPT !.prev = Place[n]])
            hop    == BestAngle(Table(n), Place[n], header.prev)
<1>1. header \in PositionHeader
  BY PeekIsHeader
<1>2. /\ [header EXCEPT !.prev = Place[n]] \in PositionHeader
      /\ [header EXCEPT !.prev = Place[n]].dst = header.dst
  BY <1>1 DEF PositionHeader
<1>3. Orderly(onward) /\ SameButHeaders(p, onward)
  BY <1>2, ReplaceHeader
<1>4. Transmit(rest, n, hop, onward)
  BY DEF RecoveryMode
<1>. HIDE DEF onward, hop
<1>. QED BY <1>3, <1>4, TransmitPasses, PassedOnSame

LEMMA RecoverPasses ==
  ASSUME NEW rest, NEW n \in Nodes, NEW q, Orderly(q), Recover(rest, n, q)
  PROVE  PassedOn(rest, q)
  BY RecoveryModePasses DEF Recover, PassedOn

\* StartRecovery keeps the goal.
LEMMA StartRecoveryKeeps ==
  ASSUME NEW n \in Nodes, NEW p, Orderly(p)
  PROVE  Orderly(StartRecovery(n, p)) /\ SameButHeaders(p, StartRecovery(n, p))
<1>. DEFINE h == RecoveryHeader(n, PeekPositionHeader(p).dst)
<1>1. h \in PositionHeader /\ h.dst = PeekPositionHeader(p).dst
  BY PeekIsHeader DEF RecoveryHeader, PositionHeader
<1>. HIDE DEF h
<1>2. LET q == AddPositionHeader(RemovePositionHeader(p), h)
      IN  Orderly(q) /\ SameButHeaders(p, q)
  BY <1>1, ReplaceHeader
<1>. QED BY <1>2 DEF StartRecovery, h

LEMMA ForwardingPasses ==
  ASSUME NEW rest, NEW e \in OrderlyCustody, ForwardingGreedy(rest, e)
  PROVE  PassedOn(rest, e.packet) /\ UNCHANGED <<parked, delivered>>
<1>. DEFINE n == e.at
            p == e.packet
            q == IF PeekPositionHeader(p).recovery THEN p ELSE StartRecovery(n, p)
<1>1. n \in Nodes /\ Orderly(p)
  BY DEF OrderlyCustody, Custody
<1>2. Orderly(q) /\ SameButHeaders(p, q)
  BY <1>1, StartRecoveryKeeps DEF SameButHeaders
<1>3. \/ \E hop : Transmit(rest, n, hop, p)
      \/ Recover(rest, n, q)
  BY DEF ForwardingGreedy
<1>. HIDE DEF n, p, q
<1>4. PassedOn(rest, p)
  BY <1>1, <1>2, <1>3, TransmitPasses, RecoverPasses, PassedOnSame
<1>. QED BY <1>4 DEF ForwardingGreedy, p

LEMMA Untagged ==
  ASSUME NEW p \in Packet
  PROVE  LET q == [p EXCEPT !.tagged = FALSE, !.queued = 1]
         IN  /\ q \in Packet /\ q.uid = p.uid /\ q.dst = p.dst /\ q.src = p.src
             /\ q.headers = p.headers /\ q.payload = p.payload
             /\ q.cut = p.cut /\ q.queued = 1 /\ ~q.tagged
  BY DEF Packet

LEMMA DeferralParks ==
  ASSUME NEW e \in OrderlyCustody, ToQueue(e)
  PROVE  LET f == [at |-> e.at, packet |-> Defer(e.packet)]
         IN  f \in OrderlyParked /\ SameJourney(e.packet, f.packet)
<1>. DEFINE p == e.packet
            q == Defer(p)
            f == [at |-> e.at, packet |-> q]
<1>1. e.at \in Nodes /\ Orderly(p) /\ p \in Packet /\ p.tagged /\ p.src = e.at
  BY DEF OrderlyCustody, Custody, Orderly, ToQueue
<1>2. p.queued = 0 /\ p.dst \in Nodes /\ Len(p.headers) = p.cut
  BY <1>1 DEF Orderly
<1>3. q = [p EXCEPT !.tagged = FALSE, !.queued = 1]
  BY <1>2 DEF Defer
<1>4. /\ q \in Packet /\ q.uid = p.uid /\ q.dst = p.dst /\ q.src = p.src
      /\ q.headers = p.headers /\ q.payload = p.payload
      /\ q.cut = p.cut /\ q.queued = 1 /\ ~q.tagged
  <2>. HIDE DEF p, q
  <2>. QED BY <1>1, <1>3, Untagged
<1>. HIDE DEF q
<1>5. GoalOf(q) = GoalOf(p)
  BY <1>4 DEF GoalOf
<1>6. Orderly(q)
  BY <1>1, <1>2, <1>4, <1>5 DEF Orderly
<1>. HIDE DEF p
<1>7. f \in OrderlyParked /\ f.packet = q
  BY <1>1, <1>2, <1>4, <1>6 DEF OrderlyParked, OrderlyCustody, Custody
<1>. QED BY <1>4, <1>7 DEF SameJourney, p, q

LEMMA HandleEffect ==
  ASSUME NEW rest, NEW e \in OrderlyCustody, Handle(rest, e)
  PROVE  Handled(rest, e)
<1>1. CASE DeferredRouteOutput(rest, e)
  BY <1>1, DeferralParks DEF DeferredRouteOutput, Handled
<1>2. CASE Deliver(rest, e)
  BY <1>2 DEF Deliver, Handled
<1>3. CASE ForwardingGreedy(rest, e)
  BY <1>3, ForwardingPasses DEF Handled
<1>. QED BY <1>1, <1>2, <1>3 DEF Handle

LEMMA QueueEffect ==
  ASSUME NEW e \in OrderlyParked, SendPacketFromQueue(e)
  PROVE  /\ PassedOn(air, e.packet)
         /\ parked' = parked \ {e}
         /\ UNCHANGED <<knows, loopback, accepted, delivered>>
<1>. DEFINE n == e.at
            p == e.packet
            q == FirstHeader(n, p)
<1>1. n \in Nodes /\ Orderly(p)
  BY DEF OrderlyParked, OrderlyCustody, Custody
<1>2. Orderly(q) /\ SameButHeaders(p, q)
  BY FirstHeaderAdded
<1>3. \/ \E hop : Transmit(air, n, hop, p)
      \/ Recover(air, n, q)
  BY DEF SendPacketFromQueue
<1>. HIDE DEF n, p, q
<1>4. PassedOn(air, p)
  BY <1>1, <1>2, <1>3, TransmitPasses, RecoverPasses, PassedOnSame
<1>. QED BY <1>4 DEF SendPacketFromQueue, p

-----------------------------------------------------------------------------
(* The invariant.                                                          *)

\* A new packet is in order.
LEMMA NewIsOrderly ==
  ASSUME NetInv, NEW f \in Flows, NEW tag \in BOOLEAN, NEW payload \in Payloads,
         tag => f.dst \in Nodes
  PROVE  LET p == NewPacket(f, tag, payload)
         IN  Orderly(p) /\ p.uid = accepted + 1 /\ p.dst = f.dst
<1>. DEFINE p == NewPacket(f, tag, payload)
<1>1. f.src \in Nodes /\ f.dst \in Addr /\ payload \in PositionHeader
      /\ accepted + 1 \in Nat
  BY DEF NetInv, TypeOK
<1>2. <<>> \in Seq(PositionHeader) /\ Len(<<>>) = 0
  BY EmptySeq
<1>3. /\ p.uid = accepted + 1 /\ p.dst = f.dst /\ p.headers = <<>> /\ p.cut = 0
      /\ p.queued = 0 /\ p.tagged = tag
  BY DEF NewPacket
<1>4. p \in Packet
  BY <1>1, <1>2 DEF NewPacket, Packet
<1>. HIDE DEF p
<1>5. Orderly(p)
  BY <1>2, <1>3, <1>4 DEF Orderly
<1>. QED BY <1>3, <1>5 DEF p

\* RouteOutput adds one packet in order.
LEMMA OutputEffect ==
  ASSUME NetInv, NEW f \in Flows, RouteOutputUnlocated(f) \/ RouteOutputLocated(f)
  PROVE  /\ \E e \in OrderlyCustody :
              /\ e.packet.uid = accepted + 1 /\ e.packet.dst = f.dst
              /\ \/ loopback' = loopback \cup {e} /\ UNCHANGED air
                 \/ air' = air \cup {e} /\ UNCHANGED loopback
         /\ accepted' = accepted + 1
         /\ UNCHANGED <<knows, parked, delivered, dropped>>
<1>1. PICK tag \in BOOLEAN, payload \in Payloads, at \in Nodes :
        /\ tag => f.dst \in Nodes
        /\ LET e == [at |-> at, packet |-> NewPacket(f, tag, payload)]
           IN  \/ loopback' = loopback \cup {e} /\ UNCHANGED air
               \/ air' = air \cup {e} /\ UNCHANGED loopback
  BY DEF RouteOutputUnlocated, RouteOutputLocated
<1>. DEFINE p == NewPacket(f, tag, payload)
            e == [at |-> at, packet |-> p]
<1>2. Orderly(p) /\ p.uid = accepted + 1 /\ p.dst = f.dst
  BY <1>1, NewIsOrderly
<1>. HIDE DEF p
<1>3. e \in OrderlyCustody /\ e.packet = p
  BY <1>2 DEF OrderlyCustody, Custody, Orderly
<1>4. \/ loopback' = loopback \cup {e} /\ UNCHANGED air
      \/ air' = air \cup {e} /\ UNCHANGED loopback
  BY <1>1 DEF p
<1>5. accepted' = accepted + 1 /\ UNCHANGED <<knows, parked, delivered, dropped>>
  BY DEF RouteOutputUnlocated, RouteOutputLocated, Accept
<1>. HIDE DEF e
<1>. QED BY <1>2, <1>3, <1>4, <1>5

LEMMA ParkedIsOrderly == OrderlyParked \subseteq OrderlyCustody
  BY DEF OrderlyParked

\* A packet in hand that is passed on or handled leaves everything in order.
LEMMA HandledKeepsOrder ==
  ASSUME NetInv, NEW rest, rest \subseteq air, NEW e \in OrderlyCustody,
         \/ PassedOn(rest, e.packet) /\ UNCHANGED <<parked, delivered>>
         \/ Handled(rest, e)
  PROVE  /\ air' \subseteq OrderlyCustody
         /\ parked' \subseteq OrderlyParked
         /\ delivered' \subseteq Nat /\ dropped' \subseteq Nat
<1>1. e.packet.uid \in Nat
  BY DEF OrderlyCustody, Orderly, Packet
<1>2. ASSUME PassedOn(rest, e.packet)
      PROVE  air' \subseteq OrderlyCustody /\ dropped' \subseteq Nat
  BY <1>1, <1>2 DEF PassedOn, NetInv, TypeOK
<1>. QED BY <1>1, <1>2 DEF Handled, NetInv, TypeOK

\* The parts of the invariant, put together.
LEMMA Assemble ==
  ASSUME knows' \in [Nodes -> SUBSET Nodes], accepted' \in Nat,
         delivered' \subseteq Nat, dropped' \subseteq Nat,
         loopback' \subseteq OrderlyCustody, air' \subseteq OrderlyCustody,
         parked' \subseteq OrderlyParked
  PROVE  NetInv'
  BY DEF NetInv, TypeOK, OrderlyCustody, OrderlyParked

LEMMA NetInit == Init => NetInv
  BY DEF Init, NetInv, TypeOK

LEMMA NetNext == NetInv /\ [Next]_vars => NetInv'
<1>. SUFFICES ASSUME NetInv, [Next]_vars PROVE NetInv'
  OBVIOUS
<1>0. /\ knows \in [Nodes -> SUBSET Nodes] /\ accepted \in Nat
      /\ delivered \subseteq Nat /\ dropped \subseteq Nat
      /\ loopback \subseteq OrderlyCustody /\ air \subseteq OrderlyCustody
      /\ parked \subseteq OrderlyParked
  BY DEF NetInv, TypeOK
<1>1. ASSUME NEW e \in loopback, Handle(air, e), loopback' = loopback \ {e},
             UNCHANGED <<knows, accepted>>
      PROVE  NetInv'
  <2>1. Handled(air, e)
    BY <1>0, <1>1, HandleEffect
  <2>. QED BY <1>0, <1>1, <2>1, HandledKeepsOrder, Assemble
<1>2. ASSUME NEW e \in air, Handle(air \ {e}, e), UNCHANGED <<knows, loopback, accepted>>
      PROVE  NetInv'
  <2>1. Handled(air \ {e}, e)
    BY <1>0, <1>2, HandleEffect
  <2>. QED BY <1>0, <1>2, <2>1, HandledKeepsOrder, Assemble
<1>3. ASSUME NEW f \in Flows, RouteOutputUnlocated(f) \/ RouteOutputLocated(f)
      PROVE  NetInv'
  <2>1. PICK e \in OrderlyCustody : \/ loopback' = loopback \cup {e} /\ UNCHANGED air
                                    \/ air' = air \cup {e} /\ UNCHANGED loopback
    BY <1>3, OutputEffect
  <2>2. loopback' \subseteq OrderlyCustody /\ air' \subseteq OrderlyCustody
    BY <1>0, <2>1
  <2>3. accepted' = accepted + 1 /\ UNCHANGED <<knows, parked, delivered, dropped>>
    BY <1>3, OutputEffect
  <2>. QED BY <1>0, <2>2, <2>3, Assemble
<1>4. ASSUME NEW e \in parked, SendPacketFromQueue(e) PROVE NetInv'
  <2>1. /\ PassedOn(air, e.packet) /\ parked' = parked \ {e}
        /\ UNCHANGED <<knows, loopback, accepted, delivered>>
    BY <1>0, <1>4, QueueEffect
  <2>2. e \in OrderlyCustody /\ e.packet.uid \in Nat
    BY <1>0 DEF OrderlyParked, OrderlyCustody, Orderly, Packet
  <2>3. air' \subseteq OrderlyCustody /\ dropped' \subseteq Nat
    BY <1>0, <2>1, <2>2 DEF PassedOn
  <2>. QED BY <1>0, <2>1, <2>3, Assemble
<1>5. ASSUME NEW e \in parked, GiveUp(e) PROVE NetInv'
  <2>1. e.packet.uid \in Nat
    BY <1>0 DEF OrderlyParked, OrderlyCustody, Orderly, Packet
  <2>. QED BY <1>0, <1>5, <2>1, Assemble DEF GiveUp
<1>6. ASSUME NEW e \in air, LoseFrame(e) PROVE NetInv'
  <2>1. e.packet.uid \in Nat
    BY <1>0 DEF OrderlyCustody, Orderly, Packet
  <2>. QED BY <1>0, <1>6, <2>1, Assemble DEF LoseFrame
<1>7. ASSUME NEW n \in Nodes, NEW m \in Hears[n], Hear(n, m) \/ Forget(n, m) PROVE NetInv'
  <2>1. knows' \in [Nodes -> SUBSET Nodes]
    <3>1. Hears[n] \subseteq Nodes
      OBVIOUS
    <3>2. m \in Nodes /\ knows[n] \subseteq Nodes
      BY <1>0, <3>1
    <3>. QED BY <1>0, <1>7, <3>2 DEF Hear, Forget
  <2>2. UNCHANGED <<loopback, air, parked, accepted, delivered, dropped>>
    BY <1>7 DEF Hear, Forget
  <2>. QED BY <1>0, <2>1, <2>2, Assemble
<1>8. CASE UNCHANGED vars
  BY <1>0, <1>8, Assemble DEF vars
<1>. QED BY <1>1, <1>2, <1>3, <1>4, <1>5, <1>6, <1>7, <1>8
         DEF Next, RouteInput, FromLoopback, FromNeighbor

LEMMA NetInvHolds == Spec => []NetInv
  BY NetInit, NetNext, PTL DEF Spec

\* Every reachable state of the network is well typed.
THEOREM NetworkTypeCorrect == Spec => []TypeOK
  BY NetInvHolds, PTL DEF NetInv

LEMMA InHandIsOrderly ==
  ASSUME NetInv, NEW p \in Packets
  PROVE  Orderly(p)
  BY ParkedIsOrderly DEF NetInv, Packets, InHand, OrderlyCustody

\* No packet is queued twice or away from its origin, whatever tags it carries about and
\* wherever the perimeter leads it.
THEOREM NoSecondQueueing == Spec => []QueuedOnce
<1>1. NetInv => QueuedOnce
  BY InHandIsOrderly DEF QueuedOnce, NetInv, Orderly, OrderlyParked
<1>. QED BY <1>1, NetInvHolds, PTL

\* However often recovery begins and ends, a payload loses one header's worth of bytes at
\* most, and at most one header too many is delivered.
THEOREM SizesAreBounded == Spec => []SizeBound
<1>1. NetInv => SizeBound
  BY InHandIsOrderly DEF SizeBound, Orderly
<1>. QED BY <1>1, NetInvHolds, PTL

\* The header in front leads where the queue, or the payload, said, for the rest of the
\* packet's life.
THEOREM HeaderKeepsGoal == Spec => []HeaderGoal
<1>1. NetInv => HeaderGoal
  BY InHandIsOrderly DEF HeaderGoal, Orderly, GoalOf
<1>. QED BY <1>1, NetInvHolds, PTL

-----------------------------------------------------------------------------
(* The network implements PacketService.                                   *)

\* A packet is in one place only.
OneCopy ==
  /\ \A e, f \in InHand : e.packet.uid = f.packet.uid => e = f
  /\ loopback \cap air = {} /\ loopback \cap parked = {} /\ air \cap parked = {}
  /\ \A e \in InHand : e.packet.uid <= accepted

\* Packet e is replaced by f, in one of the three places, or by nothing.
LEMMA MoveKeepsOneCopy ==
  ASSUME OneCopy, NEW e \in InHand, NEW f, f.packet.uid = e.packet.uid,
         UNCHANGED accepted,
         loopback' \subseteq loopback \ {e},
         \/ air' \subseteq (air \ {e}) \cup {f} /\ parked' \subseteq parked \ {e}
         \/ air' \subseteq air \ {e} /\ parked' \subseteq (parked \ {e}) \cup {f}
  PROVE  OneCopy'
<1>1. f \in InHand => f = e
  BY DEF OneCopy
<1>2. f \notin (loopback \ {e}) \cup (air \ {e}) \cup (parked \ {e})
  BY <1>1 DEF InHand
<1>3. \A g \in InHand \ {e} : g.packet.uid # f.packet.uid
  BY DEF OneCopy
<1>4. InHand' \subseteq (InHand \ {e}) \cup {f}
  BY DEF InHand
<1>5. \A g, h \in InHand' : g.packet.uid = h.packet.uid => g = h
  BY <1>3, <1>4 DEF OneCopy
<1>6. /\ loopback' \cap air' = {} /\ loopback' \cap parked' = {}
      /\ air' \cap parked' = {}
  BY <1>2 DEF OneCopy, InHand
<1>7. \A g \in InHand' : g.packet.uid <= accepted'
  BY <1>4 DEF OneCopy
<1>. QED BY <1>5, <1>6, <1>7 DEF OneCopy

Held == {[uid |-> e.packet.uid, dst |-> e.packet.dst] : e \in InHand}

\* A packet that moves is still held.
LEMMA MovesAreStutters ==
  ASSUME NEW e \in InHand, NEW f, SameJourney(e.packet, f.packet),
         InHand' = (InHand \ {e}) \cup {f}
  PROVE  Held' = Held
<1>. DEFINE H(g) == [uid |-> g.packet.uid, dst |-> g.packet.dst]
<1>1. H(f) = H(e)
  BY DEF SameJourney
<1>2. Held = {H(g) : g \in InHand} /\ Held' = {H(g) : g \in InHand'}
  BY DEF Held
<1>. HIDE DEF H
<1>. QED BY <1>1, <1>2

\* A packet that leaves is the one that is no longer held.
LEMMA LeaversAreSettled ==
  ASSUME OneCopy, NEW e \in InHand, InHand' = InHand \ {e}, UNCHANGED accepted,
         \/ delivered' = delivered \cup {e.packet.uid} /\ UNCHANGED dropped
         \/ dropped' = dropped \cup {e.packet.uid} /\ UNCHANGED delivered
  PROVE  EndToEnd!Settle
<1>. DEFINE H(g) == [uid |-> g.packet.uid, dst |-> g.packet.dst]
            u    == e.packet.uid
<1>1. \A g \in InHand : H(g) = H(e) => g = e
  BY DEF OneCopy
<1>2. H(e).uid = u
  OBVIOUS
<1>3. Held = {H(g) : g \in InHand} /\ Held' = {H(g) : g \in InHand'}
  BY DEF Held
<1>. HIDE DEF H, u
<1>4. Held' = Held \ {H(e)} /\ H(e) \in Held
  BY <1>1, <1>3
<1>5. {h.uid : h \in Held \ Held'} = {u}
  BY <1>2, <1>4
<1>6. /\ Held' \in SUBSET Held
      /\ \/ delivered' = delivered \cup {u} /\ dropped' = dropped \cup ({u} \ {u})
         \/ dropped' = dropped \cup {u} /\ UNCHANGED delivered
  BY <1>4 DEF u
<1>. QED BY <1>5, <1>6 DEF EndToEnd!Settle, Held

\* What passing on or handling a packet of loopback \cup air means for PacketService.
LEMMA HandledServes ==
  ASSUME NetInv, OneCopy, NEW e \in InHand, UNCHANGED accepted,
         loopback' = loopback \ {e}, NEW rest, rest = air \ {e},
         \/ /\ PassedOn(rest, e.packet) /\ UNCHANGED delivered
            /\ parked' = parked \ {e}
         \/ Handled(rest, e) /\ e \notin parked
  PROVE  OneCopy' /\ [EndToEnd!SNext]_EndToEnd!svars
<1>1. ASSUME NEW f, SameJourney(e.packet, f.packet), UNCHANGED <<delivered, dropped>>,
             \/ air' = rest \cup {f} /\ parked' = parked \ {e}
             \/ air' = rest /\ parked' = (parked \ {e}) \cup {f}
      PROVE  OneCopy' /\ [EndToEnd!SNext]_EndToEnd!svars
  <2>1. OneCopy'
    BY <1>1, MoveKeepsOneCopy DEF SameJourney
  <2>2. InHand' = (InHand \ {e}) \cup {f}
    BY <1>1 DEF InHand
  <2>3. Held' = Held
    BY <1>1, <2>2, MovesAreStutters
  <2>. QED BY <1>1, <2>1, <2>3 DEF EndToEnd!svars, Held
<1>2. ASSUME air' = rest, parked' = parked \ {e},
             \/ delivered' = delivered \cup {e.packet.uid} /\ UNCHANGED dropped
             \/ dropped' = dropped \cup {e.packet.uid} /\ UNCHANGED delivered
      PROVE  OneCopy' /\ [EndToEnd!SNext]_EndToEnd!svars
  <2>1. OneCopy'
    BY <1>2, MoveKeepsOneCopy
  <2>2. InHand' = InHand \ {e}
    BY <1>2 DEF InHand
  <2>. QED BY <1>2, <2>1, <2>2, LeaversAreSettled DEF EndToEnd!SNext
<1>3. e \notin parked => parked = parked \ {e}
  OBVIOUS
<1>. QED BY <1>1, <1>2, <1>3 DEF PassedOn, Handled

LEMMA NetworkStep ==
  ASSUME NetInv, OneCopy, [Next]_vars
  PROVE  OneCopy' /\ [EndToEnd!SNext]_EndToEnd!svars
<1>0. /\ accepted \in Nat
      /\ loopback \subseteq OrderlyCustody /\ air \subseteq OrderlyCustody
      /\ parked \subseteq OrderlyParked
  BY DEF NetInv, TypeOK
<1>1. ASSUME NEW e \in loopback, Handle(air, e), loopback' = loopback \ {e},
             UNCHANGED <<knows, accepted>>
      PROVE  OneCopy' /\ [EndToEnd!SNext]_EndToEnd!svars
  <2>1. Handled(air, e)
    BY <1>0, <1>1, HandleEffect
  <2>2. air = air \ {e} /\ e \in InHand /\ e \notin parked
    BY DEF OneCopy, InHand
  <2>. QED BY <1>1, <2>1, <2>2, HandledServes
<1>2. ASSUME NEW e \in air, Handle(air \ {e}, e), UNCHANGED <<knows, loopback, accepted>>
      PROVE  OneCopy' /\ [EndToEnd!SNext]_EndToEnd!svars
  <2>1. Handled(air \ {e}, e)
    BY <1>0, <1>2, HandleEffect
  <2>2. loopback' = loopback \ {e} /\ e \in InHand /\ e \notin parked
    BY <1>2 DEF OneCopy, InHand
  <2>. QED BY <1>2, <2>1, <2>2, HandledServes
<1>3. ASSUME NEW f \in Flows, RouteOutputUnlocated(f) \/ RouteOutputLocated(f)
      PROVE  OneCopy' /\ [EndToEnd!SNext]_EndToEnd!svars
  <2>1. PICK e \in OrderlyCustody :
          /\ e.packet.uid = accepted + 1 /\ e.packet.dst = f.dst
          /\ \/ loopback' = loopback \cup {e} /\ UNCHANGED air
             \/ air' = air \cup {e} /\ UNCHANGED loopback
    BY <1>3, OutputEffect
  <2>2. accepted' = accepted + 1 /\ UNCHANGED <<parked, delivered, dropped>>
    BY <1>3, OutputEffect
  <2>3. \A g \in InHand : g.packet.uid \in Nat /\ g.packet.uid <= accepted
    BY <1>0 DEF OneCopy, InHand, OrderlyParked, OrderlyCustody, Orderly, Packet
  <2>4. \A g \in InHand : g.packet.uid # e.packet.uid
    BY <1>0, <2>1, <2>3
  <2>5. InHand' = InHand \cup {e} /\ e \notin InHand
    BY <2>1, <2>2, <2>4 DEF InHand
  <2>6. OneCopy'
    <3>1. \A g, h \in InHand' : g.packet.uid = h.packet.uid => g = h
      BY <2>4, <2>5 DEF OneCopy
    <3>2. /\ loopback' \cap air' = {} /\ loopback' \cap parked' = {}
          /\ air' \cap parked' = {}
      BY <2>1, <2>2, <2>5 DEF OneCopy, InHand
    <3>3. \A g \in InHand' : g.packet.uid <= accepted'
      BY <1>0, <2>1, <2>2, <2>3, <2>5
    <3>. QED BY <3>1, <3>2, <3>3 DEF OneCopy
  <2>7. Held' = Held \cup {[uid |-> accepted + 1, dst |-> f.dst]}
    <3>. DEFINE H(g) == [uid |-> g.packet.uid, dst |-> g.packet.dst]
    <3>1. H(e) = [uid |-> accepted + 1, dst |-> f.dst]
      BY <2>1
    <3>2. Held = {H(g) : g \in InHand} /\ Held' = {H(g) : g \in InHand'}
      BY DEF Held
    <3>. HIDE DEF H
    <3>. QED BY <2>5, <3>1, <3>2
  <2>8. EndToEnd!Accept(f.dst)
    BY <2>2, <2>7 DEF EndToEnd!Accept, Held
  <2>. QED BY <2>6, <2>8 DEF EndToEnd!SNext
<1>4. ASSUME NEW e \in parked, SendPacketFromQueue(e)
      PROVE  OneCopy' /\ [EndToEnd!SNext]_EndToEnd!svars
  <2>1. /\ PassedOn(air, e.packet) /\ parked' = parked \ {e}
        /\ UNCHANGED <<knows, loopback, accepted, delivered>>
    BY <1>0, <1>4, QueueEffect
  <2>2. loopback' = loopback \ {e} /\ air = air \ {e} /\ e \in InHand
    BY <2>1 DEF OneCopy, InHand
  <2>. QED BY <2>1, <2>2, HandledServes
<1>5. ASSUME NEW e \in InHand, InHand' = InHand \ {e}, loopback' = loopback \ {e},
             air' = air \ {e}, parked' = parked \ {e}, UNCHANGED <<accepted, delivered>>,
             dropped' = dropped \cup {e.packet.uid}
      PROVE  OneCopy' /\ [EndToEnd!SNext]_EndToEnd!svars
  <2>1. OneCopy'
    BY <1>5, MoveKeepsOneCopy
  <2>. QED BY <1>5, <2>1, LeaversAreSettled DEF EndToEnd!SNext
<1>6. CASE UNCHANGED <<loopback, air, parked, accepted, delivered, dropped>>
  BY <1>6 DEF OneCopy, InHand, EndToEnd!svars
<1>7. ASSUME NEW n \in Nodes, NEW m \in Hears[n], Hear(n, m) \/ Forget(n, m)
      PROVE  UNCHANGED <<loopback, air, parked, accepted, delivered, dropped>>
  BY <1>7 DEF Hear, Forget
<1>8. CASE RouteInput
  BY <1>1, <1>2, <1>8 DEF RouteInput, FromLoopback, FromNeighbor
<1>9. ASSUME NEW e \in parked, GiveUp(e)
      PROVE  OneCopy' /\ [EndToEnd!SNext]_EndToEnd!svars
  <2>1. /\ loopback' = loopback \ {e} /\ air' = air \ {e} /\ parked' = parked \ {e}
        /\ UNCHANGED <<accepted, delivered>> /\ dropped' = dropped \cup {e.packet.uid}
    BY <1>9 DEF GiveUp, OneCopy
  <2>2. e \in InHand /\ InHand' = InHand \ {e}
    BY <2>1 DEF InHand
  <2>. QED BY <1>5, <2>1, <2>2
<1>10. ASSUME NEW e \in air, LoseFrame(e)
       PROVE  OneCopy' /\ [EndToEnd!SNext]_EndToEnd!svars
  <2>1. /\ loopback' = loopback \ {e} /\ air' = air \ {e} /\ parked' = parked \ {e}
        /\ UNCHANGED <<accepted, delivered>> /\ dropped' = dropped \cup {e.packet.uid}
    BY <1>10 DEF LoseFrame, OneCopy
  <2>2. e \in InHand /\ InHand' = InHand \ {e}
    BY <2>1 DEF InHand
  <2>. QED BY <1>5, <2>1, <2>2
<1>11. CASE \E n \in Nodes : \E m \in Hears[n] : Hear(n, m) \/ Forget(n, m)
  BY <1>6, <1>7, <1>11
<1>12. CASE UNCHANGED vars
  BY <1>6, <1>12 DEF vars
<1>. QED BY <1>3, <1>4, <1>8, <1>9, <1>10, <1>11, <1>12 DEF Next

\* The network implements PacketService, in every topology: each packet is in one place
\* until it is delivered, once, or given up, once, and then it is gone.
THEOREM NetworkIsService == Spec => ImplementsService
<1>1. Init => OneCopy /\ EndToEnd!SInit
  BY DEF Init, OneCopy, InHand, EndToEnd!SInit
<1>2. NetInv /\ OneCopy /\ [Next]_vars => OneCopy' /\ [EndToEnd!SNext]_EndToEnd!svars
  BY NetworkStep
<1>. QED BY <1>1, <1>2, NetInvHolds, PTL DEF Spec, ImplementsService, EndToEnd!SSpec
=============================================================================
