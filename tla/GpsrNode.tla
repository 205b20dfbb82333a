------------------------------ MODULE GpsrNode ------------------------------
(***************************************************************************)
(* The routing agent of one node (class Gpsr): what happens to the packets *)
(* the node's own application sends.  RouteOutput either finds a next hop  *)
(* at once or sends the packet through the loopback device; RouteInput     *)
(* then parks it in the queue (DeferredRouteOutput) or, when it carries no *)
(* deferred-route tag, forwards it (ForwardingGreedy); a timer runs        *)
(* CheckQueue, which offers one queued packet of each listed destination   *)
(* to SendPacketFromQueue.  HELLOs of the neighbours arrive, or stop, at   *)
(* any time.                                                               *)
(*                                                                         *)
(* The simulator runs one event at a time.  CheckQueue is one event; its   *)
(* loop over m_queuedAddresses is a step per address here and nothing else *)
(* runs until FinishCheck.  One clock tick is the 0.5 s of the queue timer *)
(* when QueuePeriod = 1.                                                   *)
(***************************************************************************)
EXTENDS GpsrPtable, GpsrRqueue

CONSTANTS
  Dsts,            \* the destinations the application uses
  Pos,             \* the position of each destination's node (NodeList lookup)
  MyPos,           \* the position of this node
  HelloPos,        \* what RecvGpsr reads from each neighbour's HELLO (GpsrHello)
  Resolves,        \* the next hops GetInterfaceForAddress finds an interface for
  Flaky,           \* the destinations whose address may leave and rejoin the NodeList
  Junk,            \* what PeekHeader may read off a packet that has no position header
  PerimeterMode,   \* m_perimeterMode
  QueuePeriod,     \* the 0.5 s of m_queueTimer, in clock ticks
  IdSpace,         \* number of IP identifications before they repeat (2^16)
  MaxPackets,      \* bound: packets the application sends
  EndTime          \* Simulator::Stop

Nbrs == DOMAIN HelloPos

JunkHeader == [dst : Point, prev : Point, recovery : BOOLEAN]

ASSUME NodeAssumption ==
  /\ Dsts \subseteq Addr /\ Nbrs \subseteq Addr /\ Resolves \subseteq Addr
  /\ Pos \in [Dsts -> Point] /\ HelloPos \in [Nbrs -> Point]
  /\ MyPos \in Point
  /\ Flaky \subseteq Dsts
  /\ Junk \subseteq JunkHeader
  /\ PerimeterMode \in BOOLEAN
  /\ QueuePeriod \in Nat \ {0} /\ IdSpace \in Nat \ {0}
  /\ MaxPackets \in Nat /\ EndTime \in Nat

VARIABLES
  now,              \* Simulator::Now()
  fatal,            \* a Timer was scheduled while pending: NS_FATAL_ERROR
  located,          \* the destinations the NodeList lookup finds
  table,            \* m_neighbors
  lo,               \* packets on their way through the loopback device
  queue,            \* m_queue
  queuedAddresses,  \* m_queuedAddresses: occurrences [at, dst], newest in front
  queueTimer,       \* the time m_queueTimer is due, or NoTimer
  checking,         \* CheckQueue is in its loop
  pending,          \* ... the occurrences the loop has not reached
  toRemove,         \* ... the addresses SendPacketFromQueue returned true for
  nextId,           \* per destination, the identification of its next packet
  arrived,          \* history: number of packets the application sent
  sent,             \* history: packets given to a neighbour
  failed,           \* history: packets whose error callback was called
  refused           \* history: duplicates Enqueue turned away

clockVars   == <<now, fatal>>
checkVars   == <<checking, pending, toRemove>>
historyVars == <<sent, failed, refused>>
sourceVars  == <<nextId, arrived>>
vars == <<clockVars, located, table, lo, queue, queuedAddresses, queueTimer,
          checkVars, sourceVars, historyVars>>

NoTimer == -1

Uid    == Nat \ {0}
Header == [dst : Dsts, id : 0 .. IdSpace - 1]

TypeOK ==
  /\ now \in Nat /\ fatal \in BOOLEAN
  /\ located \subseteq Dsts
  /\ IsTable(table)
  /\ lo \subseteq [uid : Uid, hdr : Header, tagged : BOOLEAN]
  /\ queue \subseteq [uid : Uid, hdr : Header, expire : Nat]
  /\ queuedAddresses \subseteq [at : Uid, dst : Dsts]
  /\ queueTimer \in Nat \cup {NoTimer}
  /\ checking \in BOOLEAN
  /\ pending \subseteq [at : Uid, dst : Dsts]
  /\ toRemove \subseteq Dsts
  /\ nextId \in [Dsts -> 0 .. IdSpace - 1]
  /\ arrived \in Nat
  /\ sent \subseteq [uid : Uid, dst : Dsts, via : Addr, how : {"direct", "queue", "forward"}]
  /\ failed \subseteq Uid /\ refused \subseteq Uid

Init ==
  /\ now = 0 /\ fatal = FALSE
  /\ located = Dsts
  /\ table = EmptyTable
  /\ lo = {} /\ queue = {} /\ queuedAddresses = {}
  /\ queueTimer = QueuePeriod
  /\ checking = FALSE /\ pending = {} /\ toRemove = {}
  /\ nextId = [d \in Dsts |-> 0] /\ arrived = 0
  /\ sent = {} /\ failed = {} /\ refused = {}

\* No event is running and the simulation has not been aborted.
Idle == ~checking /\ ~fatal

Uids(S) == {e.uid : e \in S}

-----------------------------------------------------------------------------
(* The environment: the clock, the neighbours' HELLOs, the NodeList.       *)

TimerDue == queueTimer # NoTimer /\ queueTimer <= now

\* Time passes when no event is left for the present.
Tick ==
  /\ Idle /\ lo = {} /\ ~TimerDue
  /\ now < EndTime
  /\ now' = now + 1
  /\ UNCHANGED <<fatal, located, table, lo, queue, queuedAddresses, queueTimer,
                 checkVars, sourceVars, historyVars>>

\* RecvGpsr of a HELLO, down to AddEntry.
RecvGpsr(n) ==
  /\ Idle
  /\ table' = AddEntry(table, n, HelloPos[n], now)
  /\ UNCHANGED <<clockVars, located, lo, queue, queuedAddresses, queueTimer,
                 checkVars, sourceVars, historyVars>>

\* The node of d loses, or gets back, its address.
ChangeNodeList(d) ==
  /\ Idle
  /\ located' = IF d \in located THEN located \ {d} ELSE located \cup {d}
  /\ UNCHANGED <<clockVars, table, lo, queue, queuedAddresses, queueTimer,
                 checkVars, sourceVars, historyVars>>

-----------------------------------------------------------------------------
(* RouteOutput: the application sends a packet.                            *)

uid == arrived + 1

Identify(d) ==
  /\ Idle /\ arrived < MaxPackets
  /\ arrived' = uid
  /\ nextId' = [nextId EXCEPT ![d] = (@ + 1) % IdSpace]

Loopback(d, t) ==
  lo' = lo \cup {[uid |-> uid, hdr |-> [dst |-> d, id |-> nextId[d]], tagged |-> t]}

\* The lookup of the destination failed: loopback, before the tag is added.
RouteOutputUnlocated(d) ==
  /\ Identify(d)
  /\ d \notin located
  /\ Loopback(d, FALSE)
  /\ UNCHANGED <<clockVars, located, table, queue, queuedAddresses, queueTimer,
                 checkVars, historyVars>>

\* The destination itself if the table holds it, expired or not; else the best
\* neighbour of the purged table.
TableConsulted(d) == IF IsNeighbor(table, d) THEN table ELSE Purge(table, now)
OutputHop(d) ==
  IF IsNeighbor(table, d) THEN d ELSE BestNeighbor(TableConsulted(d), Pos[d], MyPos)

RouteOutputLocated(d) ==
  /\ Identify(d)
  /\ d \in located
  /\ table' = TableConsulted(d)
  /\ \/ /\ OutputHop(d) \in Resolves
        /\ sent' = sent \cup {[uid |-> uid, dst |-> d, via |-> OutputHop(d), how |-> "direct"]}
        /\ UNCHANGED lo
     \/ /\ OutputHop(d) \notin Resolves
        /\ Loopback(d, TRUE)
        /\ UNCHANGED sent
  /\ UNCHANGED <<clockVars, located, queue, queuedAddresses, queueTimer,
                 checkVars, failed, refused>>

-----------------------------------------------------------------------------
(* RouteInput of a packet that comes back from the loopback device.        *)

\* list::unique drops an occurrence behind one of the same address.
Unique(l) ==
  {o \in l : ~\E p \in l : /\ p.at > o.at
                           /\ \A q \in l : q.at > o.at /\ q.at <= p.at => q.dst = o.dst}

\* Timer::Schedule aborts the simulation when the timer is pending.
Schedule(time) ==
  \/ /\ queueTimer = NoTimer
     /\ queueTimer' = time
     /\ UNCHANGED fatal
  \/ /\ queueTimer # NoTimer
     /\ fatal' = TRUE
     /\ UNCHANGED queueTimer

\* Faults: the next regular check is due at once, or two periods away.
CheckAtOnce == now
CheckLate   == now + 2 * QueuePeriod

\* The next regular check is 0.5 s away.
CheckTime == now + QueuePeriod

\* Faults: Schedule without Cancel, or neither.
ScheduleOnly == Schedule(CheckTime)
LeaveTimer   == UNCHANGED <<fatal, queueTimer>>

\* Cancel, then Schedule.
RestartTimer == queueTimer' = CheckTime /\ UNCHANGED fatal

\* DeferredRouteOutput.
DeferredRouteOutput(p) ==
  LET live == PurgeQueue(queue, now)
  IN  /\ Idle
      /\ p.tagged
      /\ lo' = lo \ {p}
      /\ \/ live = {} /\ RestartTimer
         \/ live # {} /\ UNCHANGED <<fatal, queueTimer>>
      /\ \/ /\ Duplicate(live, p.hdr)
            /\ refused' = refused \cup {p.uid}
            /\ queue' = live
            /\ failed' = failed \cup Uids(queue \ live)
            /\ UNCHANGED queuedAddresses
         \/ /\ ~Duplicate(live, p.hdr)
            /\ queue' = Enqueue(live, p.uid, p.hdr, now)
            /\ failed' = failed \cup Uids(queue \ MakeRoom(live))
            /\ queuedAddresses' =
                 Unique(queuedAddresses \cup {[at |-> p.uid, dst |-> p.hdr.dst]})
            /\ UNCHANGED refused
      /\ UNCHANGED <<now, located, table, checkVars, sourceVars, sent>>

\* The next hop of a packet for the place goal: greedy, else around the perimeter
\* from prev.  Both searches purge the table.
GreedyHop(goal) == BestNeighbor(Purge(table, now), goal, MyPos)
NextHop(goal, prev) ==
  CASE GreedyHop(goal) # NoAddr -> GreedyHop(goal)
    [] GreedyHop(goal) = NoAddr /\ PerimeterMode -> BestAngle(Purge(table, now), MyPos, prev)
    [] OTHER -> NoAddr

\* Fault: the hop is used without looking for its interface.
DispatchUnchecked(u, d, hop, how, lost) ==
  /\ sent' = sent \cup {[uid |-> u, dst |-> d, via |-> hop, how |-> how]}
  /\ failed' = failed \cup lost

\* Fault: a packet without next hop gets no error callback.
DispatchSilently(u, d, hop, how, lost) ==
  /\ failed' = failed \cup lost
  /\ IF hop \in Resolves
     THEN sent' = sent \cup {[uid |-> u, dst |-> d, via |-> hop, how |-> how]}
     ELSE UNCHANGED sent

\* Fault: the error callback is called for a packet that was sent, too.
DispatchThenError(u, d, hop, how, lost) ==
  /\ failed' = failed \cup lost \cup {u}
  /\ IF hop \in Resolves
     THEN sent' = sent \cup {[uid |-> u, dst |-> d, via |-> hop, how |-> how]}
     ELSE UNCHANGED sent

\* Hand packet u for d to hop, or call its error callback; drop the packets in lost.
Dispatch(u, d, hop, how, lost) ==
  \/ /\ hop \in Resolves
     /\ sent' = sent \cup {[uid |-> u, dst |-> d, via |-> hop, how |-> how]}
     /\ failed' = failed \cup lost
  \/ /\ hop \notin Resolves
     /\ failed' = failed \cup lost \cup {u}
     /\ UNCHANGED sent

\* ForwardingGreedy and RecoveryMode of an untagged packet: PeekHeader reads a
\* position header off the payload, so the NodeList lookup is never reached.
\* Recovery starts here unless the header read says it has already started.
ForwardingGreedy(p) ==
  /\ Idle
  /\ ~p.tagged
  /\ lo' = lo \ {p}
  /\ table' = Purge(table, now)
  /\ \E h \in Junk :
       Dispatch(p.uid, p.hdr.dst,
                NextHop(h.dst, IF h.recovery THEN h.prev ELSE MyPos), "forward", {})
  /\ UNCHANGED <<clockVars, located, queue, queuedAddresses, queueTimer,
                 checkVars, sourceVars, refused>>

-----------------------------------------------------------------------------
(* CheckQueue and SendPacketFromQueue.                                     *)

CheckQueue ==
  /\ Idle /\ TimerDue
  /\ queueTimer' = NoTimer
  /\ checking' = TRUE
  /\ pending' = queuedAddresses
  /\ toRemove' = {}
  /\ UNCHANGED <<clockVars, located, table, lo, queue, queuedAddresses,
                 sourceVars, historyVars>>

\* SendPacketFromQueue(o.dst) for the next occurrence o of the loop: both purges.
Visit(o) ==
  /\ checking /\ ~fatal
  /\ \A p \in pending : p.at <= o.at
  /\ pending' = pending \ {o}
  /\ table' = Purge(table, now)
  /\ UNCHANGED <<now, located, lo, queuedAddresses, checking, sourceVars, refused>>

\* No packet for the address: return false.
SendNothing(o) ==
  LET live == PurgeQueue(queue, now)
  IN  /\ Visit(o)
      /\ ForDst(live, o.dst) = {}
      /\ queue' = live
      /\ failed' = failed \cup Uids(queue \ live)
      /\ UNCHANGED <<fatal, queueTimer, toRemove, sent>>

\* The destination has no position: the error callbacks of the other packets for
\* it are called, the one already taken out gets none.  Return false.
SendUnlocated(o) ==
  LET live == PurgeQueue(queue, now)
      mine == ForDst(live, o.dst)
  IN  /\ Visit(o)
      /\ mine # {}
      /\ o.dst \notin located
      /\ queue' = live \ mine
      /\ failed' = failed \cup Uids(queue \ live) \cup Uids(mine \ Front(mine))
      /\ UNCHANGED <<fatal, queueTimer, toRemove, sent>>

\* The oldest packet for the address leaves, by a neighbour or by its error
\* callback.  A greedy hop without interface returns false; else, when more packets
\* wait for the address, the timer is set to fire at once, and true is returned.
SendNext(o) ==
  LET live   == PurgeQueue(queue, now)
      mine   == ForDst(live, o.dst)
      greedy == GreedyHop(Pos[o.dst])
      done   == greedy = NoAddr \/ greedy \in Resolves
  IN  /\ Visit(o)
      /\ o.dst \in located
      /\ \E e \in Front(mine) :
           /\ queue' = live \ {e}
           /\ Dispatch(e.uid, o.dst, NextHop(Pos[o.dst], MyPos), "queue",
                       Uids(queue \ live))
      /\ \/ /\ done /\ mine \ Front(mine) # {}
            /\ Schedule(now)
         \/ /\ ~done \/ mine \ Front(mine) = {}
            /\ UNCHANGED <<fatal, queueTimer>>
      /\ toRemove' = IF done THEN toRemove \cup {o.dst} ELSE toRemove

\* The end of CheckQueue: forget the addresses served, look again in 0.5 s for the
\* others.
FinishCheck ==
  /\ checking /\ ~fatal
  /\ pending = {}
  /\ checking' = FALSE
  /\ toRemove' = {}
  /\ queuedAddresses' = {o \in queuedAddresses : o.dst \notin toRemove}
  /\ \/ /\ queuedAddresses' # {}
        /\ Schedule(CheckTime)
     \/ /\ queuedAddresses' = {}
        /\ UNCHANGED <<fatal, queueTimer>>
  /\ UNCHANGED <<now, located, table, lo, queue, pending, sourceVars, historyVars>>

-----------------------------------------------------------------------------
RouteInput == \E p \in Front(lo) : DeferredRouteOutput(p) \/ ForwardingGreedy(p)
SendPacketFromQueue ==
  \E o \in pending : SendNothing(o) \/ SendUnlocated(o) \/ SendNext(o)

\* What the simulator runs by itself, and what the surroundings may do.
Simulator == Tick \/ RouteInput \/ CheckQueue \/ SendPacketFromQueue \/ FinishCheck
Surroundings ==
  \/ \E d \in Dsts : RouteOutputUnlocated(d) \/ RouteOutputLocated(d)
  \/ \E n \in Nbrs : RecvGpsr(n)
  \/ \E d \in Flaky : ChangeNodeList(d)

Next == Simulator \/ Surroundings

Spec == Init /\ [][Next]_vars
\* Simulator::Run executes the events it holds until Stop.
FairSpec == Spec /\ WF_vars(Simulator)
=============================================================================
