# TLA+ models of the GPSR routing agent

This directory holds TLA+ models of the GPSR implementation in `src/src/gpsr`, the TLC
configurations that check them on small instances, and proofs, checked by TLAPS, of the
main safety properties for every instance. File and line numbers refer to the repository.

## 1. The system

The program is an ns-3 simulation: ten nodes on a grid run a GPSR agent each, and a UDP echo
client on the first node talks to a server on the last. ns-3 itself is not part of the
repository; it is modelled by what the code asks of it.

### Components, their state and operations

| Component | State | Operations |
|---|---|---|
| Neighbour table, `gpsr-ptable.cpp` | `m_table` (address → position, time), `m_entryLifetime` | `AddEntry`, `Purge`, `IsNeighbor`, `BestNeighbor`, `BestAngle`, `GetAngle`; `Clear`; `DeleteEntry`, `GetPosition`, `GetEntryUpdateTime` are never called |
| Packet queue, `gpsr-rqueue.cpp` | `m_queue` (packet, IP header, callbacks, expire time), `m_maxLen`, `m_queueTimeout` | `Enqueue`, `Dequeue`, `Find`, `GetSize`, `Purge`, `Drop` |
| Routing agent, `gpsr.cpp` | table, queue, `m_queuedAddresses`, `m_queueTimer`, `m_helloTimer`, `m_socketAddresses` | `RouteOutput`, `RouteInput`, `DeferredRouteOutput`, `CheckQueue`, `SendPacketFromQueue`, `DropPacketWithDst`, `ForwardingGreedy`, `RecoveryMode`, `SendHello`, `RecvGpsr`, the interface notifications |
| Headers, `gpsr-packet.cpp` | type, HELLO and position header | `Serialize`, `Deserialize` |
| Helper, `gpsr-helper.cpp` | an object factory | `Create`, `Set` |
| Simulations, `src/src/simulations`, `main.cpp` | nodes, devices, applications | `SetupTopology`, `ConfigureApplications`, `RunSimulation`, reports |

### How they interact

* An application sends a packet: the UDP socket calls `RouteOutput`, which reads the
  destination's position from the global `NodeList` and asks the table for a next hop. With a
  hop and an interface it returns a route and the agent never sees the packet again. Without,
  it returns a route through the **loopback device**; before that it has added the deferred-route
  tag, unless the destination's position was not found.
* The loopback device hands the packet back to `RouteInput` as an event of its own. With the tag
  it is queued (`DeferredRouteOutput`); without, `ForwardingGreedy` treats it like a packet in
  transit, and reads a position header off a payload that has none.
* The **queue timer** runs `CheckQueue`, which calls `SendPacketFromQueue` once for every address
  in `m_queuedAddresses`. A packet leaves the queue by its forward callback, by its error
  callback, by expiry (`Purge`, called by every queue operation but `Find`) or to make room.
* A packet **in transit** reaches `RouteInput` of the next node. It is queued there if it carries the
  tag and comes from this node, delivered if it is for this node, and otherwise forwarded: greedily to
  the place its position header names, or around the perimeter, with the header rewritten at each hop.
* ns-3 calls the four **notifications** when an interface goes up or down or an address comes or goes.
  They keep `m_socketAddresses`: `SendHello` sends on its sockets, `IsMyOwnAddress` compares with its
  addresses, and without an entry nothing is routed.
* The **HELLO timer** runs `SendHello`; `RecvGpsr` of the nodes in range writes their tables,
  which every search reads and purges.

All of this runs in one thread, one event at a time. What is hard is not preemption but the
order of events: sends between two checks, expiry by whichever operation comes first, HELLOs
that stop, destinations that cannot be found for a while, a timer set inside its own handler, a
packet that comes back to where it began, notifications in an order nobody expected.

### What makes each component correct

* **Table**: once purged it holds exactly the neighbours heard within the lifetime, at the place
  they last announced; the greedy search makes progress; the perimeter search takes the first
  edge counter-clockwise.
* **Queue**: its length and deadlines hold, no header is queued twice, each destination's packets
  leave in order.
* **Agent**: a packet is settled exactly once; what waits is eventually looked at; only current
  neighbours are used; simulated time goes on.
* **Transit**: a packet is in one place, comes to rest, is queued once, keeps its size up to one
  header and its goal once the origin has set it.
* **Sockets**: one per usable interface and no other; a node that can hear goes on hearing.
* **Discovery**: a neighbour in range stays in the table, despite an occasional lost HELLO, until the
  next one is on its way.

## 2. Modules

| Module | Models |
|---|---|
| `GpsrPtable` | the operations of the neighbour table, as operators on a function from addresses to entries |
| `GpsrRqueue` | the operations of the packet queue, as operators on a set of entries |
| `GpsrNode` | the agent of one node and the packets of its own application; uses both |
| `GpsrNodeProps` | the properties of `GpsrNode`, and its refinement mapping to `PacketService` |
| `PacketService` | the abstract promise: a packet is delivered at once or kept, and a kept packet is settled once |
| `GpsrNetwork` | the agents of several nodes and the packets between them, with tag, position headers and TTL; uses `GpsrPtable`, maps to `PacketService` |
| `GpsrSockets` | the sockets of one agent under the interface notifications |
| `EchoClient` | `GpsrNode` driven by the client of `ConfigureApplications` instead of an arbitrary one |
| `GpsrHello` | the bytes of a HELLO, as written by `SendHello` and read by `RecvGpsr` |
| `GpsrBeacon` | the HELLO timers, the channel and the tables of several nodes; uses `GpsrHello` and `GpsrPtable` |
| `GridMC` | the grid of `SetupTopology`, for the instances below |
| `GpsrNodeMC`, `EchoClientMC`, `GpsrBeaconMC`, `GpsrNetworkMC`, `GpsrSocketsMC`, `GpsrPtableMC` | instances; the last also holds the reference loops the searches are compared with |
| `*_proofs` | theorems about the module they are named after; `GpsrService_proofs` continues `GpsrNode_proofs` |

Definitions marked *Fault* in the modules are plausible mistakes in the definition that follows
them. No specification uses them; put in its place, each makes a property of section 3 fail.

### From the code to the model

* **Actions of `GpsrNode`.** `RouteOutputUnlocated` and `RouteOutputLocated` are `RouteOutput`
  (`gpsr.cpp:193-328`), before and after its early return. `DeferredRouteOutput` and
  `ForwardingGreedy` are what `RouteInput` does with the packet at the head of the loopback
  device (`lo`). `CheckQueue` is one event; its loop is cut into `SendNothing`, `SendUnlocated`
  and `SendNext`, one call of `SendPacketFromQueue` each, and `FinishCheck`, and `Idle` keeps
  every other event out until it is over. `RecoveryMode`, `DropPacketWithDst` and the purges are
  part of the actions that call them.
* **Actions of `GpsrNetwork`.** `FromLoopback` and `FromNeighbor` are `RouteInput` of one packet,
  with its three outcomes `DeferredRouteOutput`, `Deliver` and `ForwardingGreedy`. `GreedyHop` and
  `RecoveryMode` choose the next hop, `Transmit` is the forward callback with the TTL that ns-3 counts
  down in it, or the error callback. `Hear` and `Forget` change a table at any time; `SendPacketFromQueue`
  and `GiveUp` take a packet from a queue at any time. That is what `GpsrBeacon` and `GpsrNode` allow
  and more, so no timer is needed, and the way of one packet does not depend on the others.
* **Position headers.** `PeekHeader` and `RemoveHeader` cannot fail (`gpsr-packet.cpp:280-303`): on a
  packet without header they read, or cut off, 53 bytes of the payload. A packet has a sequence of
  `headers`, the `payload` as it would be read, and the number of times it was `cut`.
* **Actions of `GpsrBeacon`.** A HELLO is delivered or lost within `MaxDelay` of being sent, at each
  hearer by itself. `Jitters` are the values that the draw in `SendHello` may give.
* **Actions of `GpsrSockets`** are the four changes ns-3 makes, each with the notification it sends;
  `SetUp` and `SetDown` notify whatever the interface was before.
  All sockets bind to the same port of any address, so the first one holds it and gets the HELLOs of
  every interface; a socket that was erased but not closed goes on holding it (`holder`).
  `GetAddress(i, 0)` of an interface without address is a fatal error.
* **History variables** `sent`, `failed` and `refused` record the callbacks and the duplicates.
* **Containers.** Packets are numbered in the order in which they reach the agent. They are queued
  in that order too, so `m_queue` is a set whose front is the entry with the least number, and
  `m_queuedAddresses` a set of occurrences ordered by the packet that inserted them.
  `list::unique` removes only adjacent repeats (`Unique`), `list::remove` all of them.
* **Timer.** `Timer::Schedule` on a pending timer is a fatal error in ns-3: it sets `fatal`, after
  which nothing happens. `Cancel` and then `Schedule` never does.
* **Interfaces.** `Resolves` is the set of next hops for which `GetInterfaceForAddress` finds an
  interface; the code takes both outcomes into account, and so do the runs. The theorems hold for
  every value. ns-3's own `GetInterfaceForAddress` knows only a node's own addresses: that is
  `Resolves = {}`, with which every send takes the error branch (`gpsr.cpp:301-304`) and no packet
  leaves. The runs that contradict a comment about the queue use it. That `network` gives every
  neighbour an interface is a *premise*, without which it would have no path to look at: what it shows
  of packets over several hops is latent until the look-up finds neighbours.
* **Positions** are integer points. Distances are compared squared and angles by cross products.
  Rounding is modelled where it decides something: `GpsrHello` shows that the coordinates of a
  HELLO arrive as 0 or as a *trifle*, a double below 10^-300, and `Grain` makes `DistSq`, `Vec`
  and `Heading` lose a trifle next to a distance and keep it next to another trifle.
* **Identifications** are taken from a counter per destination modulo `IdSpace` (65536 in ns-3).
* **Clock.** `now` is a number of ticks, and expiry compares absolute times as the code does
  (`<=` for the table, `< 0` for the queue). A tick passes when no event is due.
* **Bounds** are constants in guards: `MaxPackets`, `EndTime`, `MaxMissed`, `MaxChanges`.

## 3. Model checking

All constants are in the `.cfg` files. Passing runs:

| Run | Question | Instance |
|---|---|---|
| `node_queue` | the life of every packet: `OneVerdict`, `NothingLost`, `QueueBound`, `NoTwins`, `NotOvertaken`, `NoLateSend`, `FreshNextHop`, and `ImplementsService` | node 5 sends four packets to its neighbour 4 and to node 2; queue of two, lifetime and queue time two periods, two identifications |
| `node_flaky` | `OneVerdict`, `FreshNextHop` and `SimulationEnds` (no chain of immediate checks stops the clock) when a destination leaves and rejoins the `NodeList` and payloads are read as position headers | two packets, fair simulator; only node 10 has an interface, so greedy hops fail and perimeter hops may succeed |
| `echo_client` | the paced client: `PromptService`, `OneAtATime`, `TimerCoversQueue`, `NoAbort`, `EveryPacketSettles` | node 1 sends three packets to node 10, 1 s apart and the first at 0.25 s, while the timer `Start` set is still running; ticks of 0.25 s |
| `ptable` | the table over time and both searches against the loops in the code | three neighbours that move among eleven places, all destinations and previous hops |
| `beacon` | `OneLossIsHarmless`: interval, jitter and lifetime together survive a lost HELLO | nodes 4, 5 and 10, the last without mobility model; ticks of 10 ms, jitter at its extremes −0.5 s and 0.49 s, HELLOs up to 20 ms on the air, up to two losses in a row |
| `network` | `QueuedOnce`, `SizeBound`, `HeaderGoal`, `ImplementsService`, and `Quiet`: whatever the path, packets come to rest | the corner of the grid, nodes 1, 2, 6 and 7; four flows (across the corner, along its diagonal, to the sender itself, to nobody); two payloads; perimeter mode off at node 6; TTL 6 |
| `sockets` | `UsableHasSocket`, `SocketsMatch`, `HearsAlone`, `ForgetsWithLastAddress` | two interfaces, one with two addresses; eight changes in any order |

**Why the bounds suffice.** Two destinations and four packets give every situation the queue
handling distinguishes: a first and a further packet for an address, a listed address without
packets, an address listed twice around another one, a full queue, a repeated identification. Six
ticks let a packet expire before, at and after a check, and an entry of the table before and after
the packet that uses it. The searches compare pairs of neighbours; three give a best, a tie and a
worse one in every order. In `network` six hops take a packet around the corner and back to its
origin and on again after it was queued; `MaxPackets = 1` loses nothing, since packets do not meet.
In `beacon` the two longest gaps take 2.98 s of the 3 s, and with a lifetime of 2.98 s the run
fails. Finer ticks would bring the two gaps nearer to 3 s, and the doubles that the code draws bring them
as near as one likes; then the delay of the HELLO that follows decides, and the entry may run out
while that HELLO is on the air. It does so in the run, which is why `OneLossIsHarmless` asks for the
entry only *until the next HELLO is on its way*. Only the extremes of the jitter are drawn: they make the
longest and the shortest gap. The jitter of the first HELLO, at most 10 ms (`gpsr.cpp:128`), is left out.
`EndTime` lies past the end of the first entry's lifetime.
Node 7 stands 10^-12 m off the grid, so that its HELLO is read as a place far away and both searches
have a choice that the grid alone, whose HELLOs all read as the origin, does not give. In `sockets`
eight changes bring both interfaces up, take each down, and change the first address of one.

Deadlock is not checked where the simulation stops by itself, at `EndTime` or by a fatal error;
`ptable` can always look up and `network` always hear a neighbour, and both check it.

**Fairness.** `WF_vars(Simulator)`: `Simulator::Run` executes the next event as long as there is one
before the stop time, and the clock is one of its events here. Nothing is assumed of applications,
neighbours or the channel. `GpsrNetwork` asks for the same of `RouteInput` alone, with its enabling
condition (a packet is on its way) written out; its queues may keep a packet for ever. `EchoClient`
adds the client's own send, which is a scheduled event too.

**What the client run adds.** `TimerCoversQueue` and `NoAbort` fail for arbitrary traffic (below) and
hold for the client, because each packet finds the queue empty and restarts the timer; `Interval >
QueuePeriod` is the assumption that makes it so.

Five runs check what a comment or a help text says and find it violated:

| Run | The text | What happens |
|---|---|---|
| `claim_hello` | "Create hello packet with my position", `gpsr.cpp:507` | the headers are written in one order and read in the other; neighbours are entered next to the origin |
| `claim_timer` | "Reschedule timer if queue is not empty", `gpsr.cpp:661` | the list of addresses is looked at, and it runs empty before the queue |
| `claim_abort` | "Check queue again immediately", `gpsr.cpp:791` | the timer is scheduled again in the same `CheckQueue`: fatal error |
| `claim_lost` | "drop all packets for a destination and call error callback", `gpsr.cpp:797` | the packet already dequeued gets no callback |
| `claim_sockets` | "Create a socket to listen only on this interface", `gpsr.cpp:345` | the first socket takes the port for every interface; closed with its own, it leaves the other interface deaf (a node with two interfaces; the simulations give each one) |

Consequences of the same defects that have no run of their own: a packet left without timer stays
past its maximum time; an address whose packets expired stays listed and keeps the timer running
over an empty queue. Two more places where a comment and the code disagree are built into the models
and exempted in their properties: `IsNeighbor` does not purge, so that `RouteOutput` may send to a
destination whose entry has expired ("Time after which a neighbor entry is considered expired.",
`gpsr-ptable.cpp:27`; `FreshNextHop` allows it when the next hop is the destination); and a packet
to the node's own address is tagged and queued before anything looks at its destination ("Loopback
route for self-addressed packets", `gpsr.h:85`; flow 7 to 7 of `network`).

One comment would be contradicted if `GetInterfaceForAddress` found neighbours: "Packet from queue is
assumed not to have a position header yet." (`gpsr.cpp:735`). `RouteOutput` tags a packet that it sends at
once (270-273), too; a neighbour in recovery adds a header, the perimeter leads back to the origin, and
the packet is queued with its header (174-178), in front of which the queue may put a second one (748).
With ns-3's own look-up no packet gets that far, so there is no run for it; `SizeBound` and
`HeaderGoal` allow for the second header.

## 4. Proofs

Assumptions: the `ASSUME`s on the constants, and the hypotheses named below. Each theorem is about
`Spec` (no fairness) or, the geometric ones, about every table and all positions.

| Theorem | States | Argument |
|---|---|---|
| `TypeCorrect` | `TypeOK` | one step per action; lemmas on `Enqueue`, `Dispatch`, `Loopback`, `Purge` |
| `VerdictsAreFinal`, `QueueOrder` | `OneVerdict`, `NotOvertaken` | from `CustodyHolds` |
| `QueueIsBounded`, `NoTwinsInQueue` | `QueueBound`, `NoTwins` | `QueueHolds`: inductive with the finiteness of the queue |
| `NeverLate` | `NoLateSend` | the entry sent survived the purge of the same step |
| `NextHopIsFresh` | `FreshNextHop` | both searches return addresses of the purged table (`GreedyChoice`, `PerimeterHop`); the hop that is not searched for is the destination |
| `AgentIsService` | `ImplementsService` | initial states map to initial states, each step to `Accept`, `Settle` or a stutter |
| `NoPacketIsLost` | `NothingLost` | every step hands each packet on or settles it |
| `ClientRunsTheAgent` | `ClientSpec => Spec` | every step of the client's system is one of the agent's |
| `ClientIsServedAlone`, `ClientIsServedPromptly`, `ClientKeepsTheTimer`, `ClientNeverAborts`, `ClientLosesNothing` | `OneAtATime`, `PromptService`, `TimerCoversQueue`, `NoAbort`, `NothingLost` | from `ClientInv` and the theorems on the agent |
| `GreedyProgress`, `RecoveryOnlyAtLocalMinimum` | what `BestNeighbor` returns, and when it returns nothing | a set of naturals has a least element (`LeastNatural`) |
| `PerimeterSearch` | what `BestAngle` returns | `AngleLess` orders the places around the node (`AngleOrder`), and a finite order has a least element |
| `TableHoldsTheRecentlyHeard` | `HoldsTheRecentlyHeard` | `Remembers`: what the table has forgotten is outdated |
| `GreedySearchIsTheLoop`, `PerimeterSearchIsTheLoop` | `GreedyIsTheScan`, `PerimeterIsTheSweep` | a loop invariant (`FirstLeast`), for any number of neighbours |
| `OneLostHelloIsHarmless` | `OneLossIsHarmless` | from `BeaconInv` |
| `NetworkTypeCorrect` | `GpsrNetwork!TypeOK` | one lemma per outcome of `RouteInput`, used at the loopback device and on the air |
| `NoSecondQueueing`, `SizesAreBounded`, `HeaderKeepsGoal` | `QueuedOnce`, `SizeBound`, `HeaderGoal` | from `NetInv` |
| `NetworkIsService` | `ImplementsService` of the network | `NetInv` and `OneCopy`: a uid names one packet in one place |
| `SocketsTypeCorrect`, `UsableInterfacesAreServed`, `NoSocketIsLeftOver` | `GpsrSockets!TypeOK`, `UsableHasSocket`, `SocketsMatch` | from `SocketsInv`; one lemma for what a change of one interface leaves to the others |
| `NoSocketsNoNeighbors` | `ForgetsWithLastAddress` | the same invariant, action by action |
| `OneInterfaceHears` | `HearsAlone` | from `HearsInv` |

### The invariants

**Custody of packets.** Neither `OneVerdict` nor `NotOvertaken` is inductive. `Custody` adds what their
preservation needs: every number in play is at most `arrived` (a new packet is new), a number names one
entry of the queue and one of the loopback device, and a packet in the loopback device is younger than
any that has been queued (queueing it keeps the order). Each kind of change to the packets has a lemma
(`CustodyLoopback`, `CustodyDefer`, `CustodySend`, ...); the actions are then instances of them.

**The client.** Under arbitrary traffic `TimerCoversQueue` and `NoAbort` are false, so the proof has to
use the clock. `ClientInv` says that there is one packet, in the loopback device or in the queue, and one
occurrence of the server's address (`OnePacket`, `OnlyServer`); that the clock does not get past the timer,
which is off during a check (`TimerInOrder`); and that a waiting packet is looked at exactly one period
after it came and before the next one is sent (`CheckedInTime`). The last part is where `Interval >
QueuePeriod` is needed: with a packet still queued, the next one would not restart the timer.

**Discovery.** `BeaconInv` measures for each neighbour how long it can still be silent: the HELLO on the
air is its sender's last, sent at most `MaxDelay` ago, and the next is due within a gap of its sending
(`AirIsFresh`); the HELLO after the one in the table was sent, or is due, within one gap, or two if one was
lost (`HeardInTime`). That every HELLO is taken
for one, though its bytes are read in the wrong order, is proved from their layout: the first byte of a
coordinate on the grid is 0, which is `GPSR_HELLO` (`EveryHelloIsTakenForOne`).

**The network.** None of `QueuedOnce`, `SizeBound` and `HeaderGoal` is inductive, and they depend on each
other: a second queueing would add a header that the size does not allow for, and a header that the queue
did not add decides where a packet goes. `NetInv` says of every packet (`Orderly`) that a tag means it has
not been queued and its destination is a node, that a packet not queued yet has as many headers as were
cut off its payload and a queued one at most one more, that a cut packet has a header, and where the front
header leads in either case.

**Sockets.** `SocketsInv` adds to the three socket properties that each list of addresses holds the
addresses of its own interface, so that a change of one interface cannot take the socket of another.
`HearsInv` adds that only interfaces that were brought up are up or have sockets (so that a notification
about another one closes nothing), and that the one that is up, if there is no other, finds the port held,
unless bringing it up without an address stopped the run.

**Searches.** The cross products that compare two directions with a third satisfy an identity of degree
four (`TurnsAddUp`); with it and a sign analysis `AngleLess` is transitive for all integer positions.
The loops of the code are recursive functions; that each round keeps `FirstLeast` is a lemma, and
that the last one has it follows from the least round that would not, since induction over data is out of
reach of the provers.

### Hypotheses

* `AgentIsService` and `NoPacketIsLost` assume `Flaky = {}`, that no destination's address is ever
  withdrawn. With a destination that cannot be found the agent loses a packet (`claim_lost`), which the
  service does not. The `NodeList` of the simulations does not change while they run.
* `OneLostHelloIsHarmless` assumes `LifetimeSpansTwoGaps`. The code has 3 s for the lifetime
  (`gpsr-ptable.cpp:28`), 1 s for the interval and less than 0.5 s of jitter (`gpsr.cpp:65`, `:25`).
  That a HELLO is not on the air as long as the shortest gap (0.5 s) is an `ASSUME`.
* The client's theorems assume `Interval > QueuePeriod`: 1 s against 500 ms.
* `PerimeterSearchIsTheLoop` is about the places of the run `ptable` (`Grain = 1`, `Places` among
  `MCPlaces`), because the loop compares angles in degrees, and the reference loop names them by their
  index among the directions of these places. For other places `PerimeterSearch` says that no neighbour is
  passed over.

### Only model-checked

The three liveness properties, `EveryPacketSettles`, `SimulationEnds` and `Quiet`: fairness is out of the
provers' reach. Every invariant and action property of the passing runs is a theorem.

## 5. Not modelled

* A node without mobility model other than as a silent neighbour, broadcast destinations, and a null
  packet in `RouteOutput`; the echo server's replies (the same path on another node).
* What a surplus position header, or a payload cut short, means to the application that receives it.
* The composition of `GpsrSockets` with the other models: these have one interface that stays up.
* The `DropPacketWithDst` of the queue, its setters and `IsEqual`; `AddHeaders` of the agent. Nothing
  calls them.
* The way of a HELLO through ns-3: a broadcast on the interface's broadcast address is taken to
  reach nodes in range, or be lost. (ns-3 sends a subnet broadcast on its interface
  whatever route `RouteOutput` returns for it, and `RouteInput` delivers it as one of the node's own
  addresses; a HELLO to 255.255.255.255, which an interface with a /32 mask would send, is refused
  by `RouteInput`, `gpsr.cpp:162`.)
* The rounding of doubles other than trifles, the wrap-around of `Time`, logging, tracing, reports.
* Attributes: `MaxQueueLen` and `MaxQueueTime` never reach `m_queue`, which is built from the
  defaults (`gpsr.cpp:84-88`); the constants are the limits the queue really has.
* `GpsrHelper`, the Wi-Fi set-up and the statistics have no behaviour of their own. `ProtocolBase.hpp`,
  `Node.hpp`, `GPSR.hpp` and `examples/main.cpp` are not part of the build.

## 6. Plan

1. *Done:* table, queue, agent, abstract service, client, discovery, and their theorems.
2. *Done:* `GpsrNetwork`, with the network's refinement of `PacketService` and its proof.
3. *Done:* `GpsrSockets` and its theorems.
4. *Done:* the client's theorems, the converse of `GreedyProgress`, `HearsAlone` for any number of
   interfaces, the harmless loss for every interval and jitter, and the searches against the loops.
5. What is left to prove: a measure that decreases along the path of a packet (its TTL), which would
   bound the number of steps before `Quiet` without fairness; that a packet under greedy forwarding
   comes strictly nearer at every hop (`GreedyProgress` along a path); and the places that a HELLO can
   put into a table, of which only one kind occurs.
