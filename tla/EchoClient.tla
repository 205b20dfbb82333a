----------------------------- MODULE EchoClient -----------------------------
(***************************************************************************)
(* The routing agent under the load ConfigureApplications puts on it: one  *)
(* echo client that sends a packet to the server every Interval from       *)
(* StartAt on, until StopAt or until it has sent MaxPackets.  The paced    *)
(* client is what keeps the queue handling of GpsrNode within the cases it *)
(* gets right, as long as Interval exceeds the period of the queue timer.  *)
(***************************************************************************)
EXTENDS GpsrNodeProps

CONSTANTS Server, StartAt, Interval, StopAt

ASSUME ClientAssumption ==
  /\ Server \in Dsts /\ Flaky = {}
  /\ StartAt \in Nat /\ StopAt \in Nat
  /\ Interval \in Nat /\ Interval > QueuePeriod
  /\ StopAt + QueuePeriod < EndTime

VARIABLE nextSend      \* the time of the client's next packet, or NoTimer

clientVars == <<vars, nextSend>>

ClientTypeOK == TypeOK /\ nextSend \in Nat \cup {NoTimer}

ClientInit == Init /\ nextSend = StartAt

\* StopApplication cancels what the client has left to send.
ClientDue == nextSend # NoTimer /\ nextSend <= now /\ now < StopAt

\* Send, then ScheduleTransmit while the count is not exhausted.
Send ==
  /\ ClientDue
  /\ RouteOutputLocated(Server)
  /\ nextSend' = IF uid < MaxPackets THEN now + Interval ELSE NoTimer

Run ==
  /\ \/ Tick /\ ~ClientDue
     \/ RouteInput \/ CheckQueue \/ SendPacketFromQueue \/ FinishCheck
  /\ UNCHANGED nextSend

Hear == (\E n \in Nbrs : RecvGpsr(n)) /\ UNCHANGED nextSend

ClientNext == Send \/ Run \/ Hear

ClientSpec == ClientInit /\ [][ClientNext]_clientVars
FairClientSpec == ClientSpec /\ WF_clientVars(Send \/ Run)

-----------------------------------------------------------------------------
\* No packet waits in the queue longer than one period of the queue timer: a packet
\* deferred into the empty queue restarts the timer, and the CheckQueue it starts
\* gives the packet its verdict, so the next packet finds the queue empty again.
PromptService ==
  Idle /\ ~TimerDue => \A e \in queue : now < e.expire - MaxQueueTime + QueuePeriod

\* At most one packet of the client is in the agent's hands at any time.
OneAtATime == Cardinality(lo) + Cardinality(queue) <= 1

\* What makes OneAtATime and PromptService inductive.  The agent handles packets for the
\* server only, and all of them come back from the loopback device with their tag.
OnlyServer ==
  /\ \A p \in lo : p.tagged /\ p.hdr.dst = Server
  /\ \A e \in queue : e.hdr.dst = Server
  /\ \A o \in queuedAddresses \cup pending : o.dst = Server

\* There is one packet, in the loopback device or in the queue, and one occurrence of
\* the server's address.
OnePacket ==
  /\ lo = {} \/ queue = {}
  /\ \A p, q \in lo : p = q
  /\ \A e, f \in queue : e = f
  /\ \A o, p \in queuedAddresses : o = p

\* The timer is not set during a check, and the clock does not get past it.
TimerInOrder ==
  /\ checking => queueTimer = NoTimer
  /\ queueTimer # NoTimer => now <= queueTimer

NotBefore(time) == nextSend # NoTimer => time < nextSend

\* A packet in the loopback device was sent at this very time; one in the queue is
\* looked at a period after it came, and before the next one is sent.
CheckedInTime ==
  /\ lo # {} => NotBefore(now + QueuePeriod)
  /\ checking /\ queue # {} => pending # {}
  /\ ~checking /\ queue # {} =>
       /\ queuedAddresses # {}
       /\ queueTimer # NoTimer /\ NotBefore(queueTimer)
       /\ \A e \in queue : queueTimer = e.expire - MaxQueueTime + QueuePeriod

ClientInv ==
  /\ ClientTypeOK /\ NoAbort /\ located = Dsts
  /\ OnlyServer /\ OnePacket /\ TimerInOrder /\ CheckedInTime

\* Every packet the client sends gets a verdict before the simulation ends.
EveryPacketSettles == \A u \in 1 .. MaxPackets : u <= arrived ~> u \in Decided
=============================================================================
