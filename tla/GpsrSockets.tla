----------------------------- MODULE GpsrSockets -----------------------------
(***************************************************************************)
(* The sockets of the routing agent of one node.  ns-3 tells the agent     *)
(* when an interface goes up or down and when an address comes or goes;    *)
(* the agent keeps one socket, and the address it stands for, per usable   *)
(* interface in m_socketAddresses.  All sockets bind to the same port of   *)
(* any address, so only one of them can hold it; it receives the HELLOs of *)
(* every interface.                                                        *)
(*                                                                         *)
(* A socket that leaves m_socketAddresses without being closed goes on     *)
(* holding the port and calling RecvGpsr.                                  *)
(***************************************************************************)
EXTENDS Integers, FiniteSets, SequencesExt

CONSTANTS
  Interfaces,      \* the interfaces of the node besides the loopback interface
  Loopback,        \* the interface of 127.0.0.1
  Localhost,       \* 127.0.0.1
  Assignable,      \* per interface, the addresses it may be given
  Neighbors,       \* the nodes in range
  MaxChanges       \* bound: changes of interfaces and addresses

ASSUME SocketsAssumption ==
  /\ Loopback \notin Interfaces
  /\ \A i \in Interfaces : Localhost \notin Assignable[i]
  /\ \A i, j \in Interfaces : i # j => Assignable[i] \cap Assignable[j] = {}
  /\ MaxChanges \in Nat

AllInterfaces == Interfaces \cup {Loopback}
Addresses     == UNION {Assignable[i] : i \in Interfaces}

VARIABLES
  up,           \* the interfaces that are up
  addresses,    \* per interface, its addresses in the order they were added
  sockets,      \* m_socketAddresses, as [id, addr]
  holder,       \* the socket bound to GPSR_PORT, or NoSocket
  created,      \* number of sockets created
  neighbors,    \* the addresses in m_neighbors
  fatal,        \* GetAddress was asked for an address that does not exist
  changes,      \* number of changes made so far
  used,         \* history: the interfaces that were ever brought up
  again         \* history: an interface was brought up while it was up

vars == <<up, addresses, sockets, holder, created, neighbors, fatal, changes, used, again>>

NoSocket == 0

TypeOK ==
  /\ up \subseteq AllInterfaces
  /\ addresses \in [AllInterfaces -> Seq(Addresses \cup {Localhost})]
  /\ sockets \subseteq [id : 1 .. created, addr : Addresses]
  /\ created \in Nat /\ holder \in 0 .. created
  /\ neighbors \subseteq Neighbors
  /\ fatal \in BOOLEAN /\ changes \in Nat
  /\ used \subseteq AllInterfaces /\ again \in BOOLEAN

\* SetIpv4: the loopback interface is there already.
Init ==
  /\ up = {Loopback}
  /\ addresses = [i \in AllInterfaces |-> IF i = Loopback THEN <<Localhost>> ELSE <<>>]
  /\ sockets = {} /\ holder = NoSocket /\ created = 0
  /\ neighbors = {}
  /\ fatal = FALSE /\ changes = 0 /\ used = {} /\ again = FALSE

-----------------------------------------------------------------------------
\* FindSocketWithInterfaceAddress: in a map ordered by pointer, any of these.
Standing(addr) == {s \in sockets : s.addr = addr}

IsMyOwnAddress(addr) == \E s \in sockets : addr = s.addr

\* A new socket for addr beside those in rest; the port is free or it is not.
CreateSocket(rest, addr) ==
  /\ created' = created + 1
  /\ sockets' = rest \cup {[id |-> created + 1, addr |-> addr]}
  /\ holder' = IF holder = NoSocket THEN created + 1 ELSE holder

KeepSockets == UNCHANGED <<sockets, holder, created>>

Change ==
  /\ ~fatal /\ changes < MaxChanges
  /\ changes' = changes + 1

-----------------------------------------------------------------------------
(* The notifications, each with the change ns-3 makes before it.           *)

\* Fault: the loopback interface gets a socket, too.
NotifyInterfaceUpAny(i) ==
  \/ addresses[i] = <<>> /\ fatal' = TRUE /\ KeepSockets
  \/ addresses[i] # <<>> /\ CreateSocket(sockets, Head(addresses[i])) /\ UNCHANGED fatal

\* No look whether the interface has a socket already.
NotifyInterfaceUp(i) ==
  \/ /\ addresses[i] = <<>>
     /\ fatal' = TRUE
     /\ KeepSockets
  \/ /\ addresses[i] # <<>>
     /\ IF Head(addresses[i]) = Localhost THEN KeepSockets
        ELSE CreateSocket(sockets, Head(addresses[i]))
     /\ UNCHANGED fatal

SetUp(i) ==
  /\ Change
  /\ up' = up \cup {i}
  /\ used' = used \cup ({i} \cap Interfaces)
  /\ again' = (again \/ i \in up)
  /\ NotifyInterfaceUp(i)
  /\ UNCHANGED <<addresses, neighbors>>

\* One socket of the interface is closed, if there is one; the neighbours stay.  ns-3
\* notifies of an interface that is down already, too.
NotifyInterfaceDown(i) ==
  \/ /\ addresses[i] = <<>>
     /\ fatal' = TRUE
     /\ KeepSockets
  \/ /\ addresses[i] # <<>>
     /\ Standing(Head(addresses[i])) = {}
     /\ KeepSockets
     /\ UNCHANGED fatal
  \/ /\ addresses[i] # <<>>
     /\ \E s \in Standing(Head(addresses[i])) :
          /\ sockets' = sockets \ {s}
          /\ holder' = IF holder = s.id THEN NoSocket ELSE holder
     /\ UNCHANGED <<created, fatal>>

SetDown(i) ==
  /\ Change
  /\ up' = up \ {i}
  /\ NotifyInterfaceDown(i)
  /\ UNCHANGED <<addresses, neighbors, used, again>>

\* Fault: a socket is created for an interface that is down, too.
NotifyAddAddressAlways(i, list) ==
  IF Standing(Head(list)) = {} THEN CreateSocket(sockets, Head(list)) ELSE KeepSockets

\* A socket for the first address of an interface that is up.  list is its addresses.
NotifyAddAddress(i, list) ==
  \/ /\ i \in up /\ Len(list) = 1
     /\ Standing(Head(list)) = {} /\ Head(list) # Localhost
     /\ CreateSocket(sockets, Head(list))
  \/ /\ i \notin up \/ Len(list) # 1 \/ Standing(Head(list)) # {} \/ Head(list) = Localhost
     /\ KeepSockets

AddAddress(i, a) ==
  /\ Change
  /\ a \notin ToSet(addresses[i])
  /\ addresses' = [addresses EXCEPT ![i] = Append(@, a)]
  /\ NotifyAddAddress(i, addresses'[i])
  /\ UNCHANGED <<up, neighbors, fatal, used, again>>

\* Faults: no socket takes the place of the forgotten one; the one that does is created
\* first and the old one closed then; the neighbours are kept.
NotifyRemoveAddressOnly(a, list) ==
  \/ /\ Standing(a) = {}
     /\ KeepSockets
     /\ UNCHANGED neighbors
  \/ /\ \E s \in Standing(a) : sockets' = sockets \ {s}
     /\ neighbors' = IF sockets' = {} THEN {} ELSE neighbors
     /\ UNCHANGED <<holder, created>>
NotifyRemoveAddressClosing(a, list) ==
  /\ \/ Standing(a) = {} /\ KeepSockets
     \/ \E s \in Standing(a) :
          /\ created' = created + 1
          /\ sockets' = (sockets \ {s}) \cup
               {[id |-> created + 1, addr |-> list[k]] : k \in DOMAIN list \cap {1}}
          /\ holder' = IF holder = s.id THEN NoSocket ELSE holder
  /\ neighbors' = IF sockets' = {} THEN {} ELSE neighbors
NotifyRemoveAddressKeeping(a, list) ==
  /\ UNCHANGED neighbors
  /\ \/ /\ Standing(a) = {}
        /\ KeepSockets
     \/ \E s \in Standing(a) :
          IF list = <<>> THEN sockets' = sockets \ {s} /\ UNCHANGED <<holder, created>>
          ELSE CreateSocket(sockets \ {s}, Head(list))

\* The socket of the address is forgotten, not closed; one for the first of the
\* addresses that are left takes its place.  Without any socket, without neighbours.
NotifyRemoveAddress(a, list) ==
  \/ /\ Standing(a) = {}
     /\ KeepSockets
     /\ UNCHANGED neighbors
  \/ /\ \E s \in Standing(a) :
          \/ /\ list = <<>>
             /\ sockets' = sockets \ {s}
             /\ UNCHANGED <<holder, created>>
          \/ /\ list # <<>>
             /\ CreateSocket(sockets \ {s}, Head(list))
     /\ neighbors' = IF sockets' = {} THEN {} ELSE neighbors

RemoveAddress(i, k) ==
  /\ Change
  /\ addresses' = [addresses EXCEPT ![i] = RemoveAt(@, k)]
  /\ NotifyRemoveAddress(addresses[i][k], addresses'[i])
  /\ UNCHANGED <<up, fatal, used, again>>

-----------------------------------------------------------------------------
Usable(i) == i \in up /\ addresses[i] # <<>> /\ Head(addresses[i]) # Localhost

\* A HELLO of n on the broadcast address of interface i: RouteInput turns it away when
\* there is no socket, and UDP when nobody holds the port.
RecvGpsr(i, n) ==
  /\ ~fatal
  /\ Usable(i)
  /\ sockets # {}
  /\ holder # NoSocket
  /\ neighbors' = neighbors \cup {n}
  /\ UNCHANGED <<up, addresses, sockets, holder, created, fatal, changes, used, again>>

Next ==
  \/ \E i \in AllInterfaces : SetUp(i) \/ SetDown(i)
  \/ \E i \in Interfaces :
       \/ \E a \in Assignable[i] : AddAddress(i, a)
       \/ \E k \in DOMAIN addresses[i] : RemoveAddress(i, k)
       \/ \E n \in Neighbors : RecvGpsr(i, n)

Spec == Init /\ [][Next]_vars

-----------------------------------------------------------------------------
\* Whatever the order of the notifications, the first address of every usable interface
\* has a socket: SendHello sends by the sockets, and RouteInput queues a packet of the
\* node's own only if its source address IsMyOwnAddress.
UsableHasSocket ==
  \A i \in Interfaces : Usable(i) => IsMyOwnAddress(Head(addresses[i]))

\* As long as no interface is brought up twice, the sockets are those of the usable
\* interfaces, one each: none is left over from an address that has gone.
SocketsMatch ==
  ~again =>
    /\ \A s \in sockets : \E i \in Interfaces : Usable(i) /\ s.addr = Head(addresses[i])
    /\ \A s, t \in sockets : s.addr = t.addr => s = t

\* A node that has brought up one interface only never turns deaf, however often that
\* interface goes down and up and its addresses change: some socket, perhaps one that is
\* forgotten, holds the port.  (With two interfaces, the port is closed with the first.)
HearsAlone == Cardinality(used) <= 1 => \A i \in used : Usable(i) => holder # NoSocket

\* A node that loses its last socket forgets its neighbours unless the socket goes with
\* its interface, all addresses in place.  It hears of none until it has a socket again,
\* although a forgotten socket may hold the port.
ForgetsWithLastAddress ==
  [][sockets' = {} /\ neighbors' # {} =>
       neighbors' \subseteq neighbors /\ (sockets = {} \/ addresses' = addresses)]_vars

\* What gpsr.cpp:345, 419 and 448 say, "Create a socket to listen only on this
\* interface": one usable interface listens whatever becomes of the others.
EveryInterfaceListens == \A i \in Interfaces : Usable(i) => holder # NoSocket
=============================================================================
