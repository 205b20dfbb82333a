----------------------------- MODULE GpsrRqueue -----------------------------
(***************************************************************************)
(* The queue of packets a node could not route when they were sent (class  *)
(* GpsrRqueue).  An entry is [uid, hdr, expire]: hdr = [dst, id] stands    *)
(* for the IP fields Enqueue compares (source and protocol are the same    *)
(* for every packet of one node's application) and expire is the absolute  *)
(* time of SetExpireTime.  Packets are numbered in the order they reach    *)
(* the node and enqueued in that order, so the vector m_queue is a set of  *)
(* entries: its front is the entry with the least uid.                     *)
(***************************************************************************)
EXTENDS Integers, FiniteSets

CONSTANTS MaxQueueLen,     \* m_maxLen
          MaxQueueTime     \* m_queueTimeout, in clock ticks

ASSUME QueueAssumption == MaxQueueLen \in Nat \ {0} /\ MaxQueueTime \in Nat

\* Fault: the youngest entry is taken for the oldest.
Back(q)  == {e \in q : \A f \in q : e.uid >= f.uid}

\* The oldest entry of q, as a set: {} when q is empty.
Front(q) == {e \in q : \A f \in q : e.uid <= f.uid}

\* The entries for destination d, in the order Dequeue and Find meet them.
ForDst(q, d) == {e \in q : e.hdr.dst = d}

\* Fault: a tick of grace.
OutdatedLate(e, now) == e.expire + 1 < now

\* Purge drops an entry only once its expire time is over: GetExpireTime() < 0.
Outdated(e, now)     == e.expire < now
PurgeQueue(q, now)   == {e \in q : ~Outdated(e, now)}

\* Fault: only the front of the queue is compared.
DuplicateOfFront(q, hdr) == \E e \in Front(q) : e.hdr = hdr

\* Enqueue refuses a packet whose IP header is already queued.
Duplicate(q, hdr) == \E e \in q : e.hdr = hdr

\* Fault: the queue grows one past its limit first.
MakeRoomLate(q) == IF Cardinality(q) > MaxQueueLen THEN q \ Front(q) ELSE q

\* A full queue gives up its most aged packet.
MakeRoom(q) == IF Cardinality(q) = MaxQueueLen THEN q \ Front(q) ELSE q

NewEntry(uid, hdr, now) == [uid |-> uid, hdr |-> hdr, expire |-> now + MaxQueueTime]

\* Enqueue on a purged queue, for a packet that is not a duplicate.
Enqueue(q, uid, hdr, now) == MakeRoom(q) \cup {NewEntry(uid, hdr, now)}
=============================================================================
