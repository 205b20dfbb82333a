------------------------- MODULE GpsrSockets_proofs -------------------------
(***************************************************************************)
(* The sockets of a node with any number of interfaces and addresses, under*)
(* any sequence of notifications.                                          *)
(***************************************************************************)
EXTENDS GpsrSockets, SequenceTheorems, FiniteSetTheorems, TLAPS

USE SocketsAssumption

\* The addresses of an interface are its own.
Lists ==
  /\ addresses[Loopback] = <<Localhost>>
  /\ \A i \in Interfaces : addresses[i] \in Seq(Assignable[i])

SocketsInv == TypeOK /\ Lists /\ UsableHasSocket /\ SocketsMatch

-----------------------------------------------------------------------------
(* Lists of addresses.                                                     *)

LEMMA AddressRemoved ==
  ASSUME NEW S, NEW s \in Seq(S), NEW k \in 1 .. Len(s)
  PROVE  /\ RemoveAt(s, k) \in Seq(S)
         /\ k # 1 => RemoveAt(s, k) # <<>> /\ Head(RemoveAt(s, k)) = Head(s)
<1>. DEFINE before == SubSeq(s, 1, k - 1)
            after  == SubSeq(s, k + 1, Len(s))
<1>0. Len(s) \in Nat /\ k \in Nat /\ \A j \in 1 .. Len(s) : s[j] \in S
  BY LenProperties, ElementOfSeq
<1>1. /\ before \in Seq(S) /\ Len(before) = k - 1
      /\ \A j \in 1 .. k - 1 : before[j] = s[j]
  BY <1>0, SubSeqProperties
<1>2. after \in Seq(S)
  BY <1>0, SubSeqProperties
<1>. HIDE DEF before, after
<1>3. /\ before \o after \in Seq(S)
      /\ Len(before \o after) = Len(before) + Len(after)
      /\ \A j \in 1 .. Len(before) + Len(after) :
           (before \o after)[j] = IF j <= Len(before) THEN before[j] ELSE after[j - Len(before)]
  BY <1>1, <1>2, ConcatProperties
<1>4. Len(after) \in Nat
  BY <1>2, LenProperties
<1>5. ASSUME k # 1
      PROVE  before \o after # <<>> /\ Head(before \o after) = Head(s)
  <2>1. 1 \in 1 .. k - 1 /\ 1 \in 1 .. Len(before) + Len(after) /\ 1 <= Len(before)
    BY <1>0, <1>1, <1>4, <1>5
  <2>2. (before \o after)[1] = s[1] /\ Len(before \o after) > 0
    BY <1>1, <1>3, <1>4, <2>1
  <2>. QED BY <2>2, <1>3, EmptySeq
<1>. QED BY <1>3, <1>5 DEF RemoveAt, before, after

LEMMA AddressAppended ==
  ASSUME NEW S, NEW s \in Seq(S), NEW a \in S
  PROVE  /\ Append(s, a) \in Seq(S) /\ Append(s, a) # <<>>
         /\ s # <<>> => Len(Append(s, a)) # 1 /\ Head(Append(s, a)) = Head(s)
         /\ s = <<>> => Len(Append(s, a)) = 1
<1>. DEFINE list == Append(s, a)
<1>1. /\ list \in Seq(S) /\ list # <<>> /\ Len(list) = Len(s) + 1
      /\ \A j \in 1 .. Len(s) : list[j] = s[j]
  BY AppendProperties
<1>2. Len(s) \in Nat /\ Len(<<>>) = 0 /\ (s # <<>> => Len(s) > 0)
  BY LenProperties, EmptySeq
<1>3. s # <<>> => list[1] = s[1]
  BY <1>1, <1>2
<1>. HIDE DEF list
<1>4. s # <<>> => Head(list) = Head(s)
  BY <1>3
<1>. QED BY <1>1, <1>2, <1>4 DEF list

LEMMA FirstAddress ==
  ASSUME NEW S, NEW s \in Seq(S), s # <<>>
  PROVE  Head(s) \in S
  BY HeadTailProperties

\* The first address of a list is its interface's, and no other's.
LEMMA OwnHead ==
  ASSUME Lists, NEW i \in Interfaces, addresses[i] # <<>>
  PROVE  Head(addresses[i]) \in Assignable[i] /\ Head(addresses[i]) # Localhost
  BY FirstAddress DEF Lists

\* How a change of one list leaves the lists in order.
LEMMA ListsChange ==
  ASSUME TypeOK, Lists, NEW i \in Interfaces, NEW list \in Seq(Assignable[i]),
         addresses' = [addresses EXCEPT ![i] = list]
  PROVE  /\ Lists' /\ addresses'[i] = list
         /\ \A j \in Interfaces \ {i} : addresses'[j] = addresses[j]
         /\ addresses' \in [AllInterfaces -> Seq(Addresses \cup {Localhost})]
<1>1. list \in Seq(Addresses \cup {Localhost})
  BY SeqMonotonic DEF Addresses
<1>2. i \in AllInterfaces /\ Loopback \in AllInterfaces /\ i # Loopback
  BY DEF AllInterfaces
<1>. QED BY <1>1, <1>2 DEF Lists, TypeOK, AllInterfaces

-----------------------------------------------------------------------------
(* Types.                                                                  *)

LEMMA CreatedIsTyped ==
  ASSUME TypeOK, NEW rest \in SUBSET sockets, NEW addr \in Addresses, CreateSocket(rest, addr)
  PROVE  /\ sockets' \subseteq [id : 1 .. created', addr : Addresses]
         /\ created' \in Nat /\ holder' \in 0 .. created'
<1>1. /\ created \in Nat /\ created' = created + 1 /\ holder \in 0 .. created
      /\ sockets \subseteq [id : 1 .. created, addr : Addresses]
  BY DEF TypeOK, CreateSocket
<1>2. [id : 1 .. created, addr : Addresses] \subseteq [id : 1 .. created', addr : Addresses]
  BY <1>1
<1>3. [id |-> created + 1, addr |-> addr] \in [id : 1 .. created', addr : Addresses]
  BY <1>1
<1>. QED BY <1>1, <1>2, <1>3 DEF CreateSocket, NoSocket

LEMMA FewerIsTyped ==
  ASSUME TypeOK, sockets' \subseteq sockets, UNCHANGED created,
         holder' = holder \/ holder' = NoSocket
  PROVE  /\ sockets' \subseteq [id : 1 .. created', addr : Addresses]
         /\ created' \in Nat /\ holder' \in 0 .. created'
  BY DEF TypeOK, NoSocket

\* The addresses that get sockets.
LEMMA HeadIsAddress ==
  ASSUME Lists, NEW i \in AllInterfaces, addresses[i] # <<>>, Head(addresses[i]) # Localhost
  PROVE  i \in Interfaces /\ Head(addresses[i]) \in Addresses
<1>1. i # Loopback
  BY DEF Lists
<1>. QED BY <1>1, OwnHead DEF AllInterfaces, Addresses

LEMMA TypeNext == TypeOK /\ Lists /\ [Next]_vars => TypeOK' /\ Lists'
<1>. SUFFICES ASSUME TypeOK, Lists, [Next]_vars PROVE TypeOK' /\ Lists'
  OBVIOUS
<1>1. ASSUME NEW i \in AllInterfaces, SetUp(i) PROVE TypeOK' /\ Lists'
  <2>1. CASE KeepSockets
    <3>1. fatal' \in BOOLEAN
      BY <1>1 DEF SetUp, NotifyInterfaceUp, TypeOK
    <3>2. /\ UNCHANGED <<addresses, neighbors, sockets, holder, created>>
          /\ changes' = changes + 1 /\ again' = (again \/ i \in up)
          /\ up' = up \cup {i} /\ used' = used \cup ({i} \cap Interfaces)
      BY <1>1, <2>1 DEF SetUp, Change, KeepSockets
    <3>. QED BY <3>1, <3>2 DEF TypeOK, Lists, AllInterfaces
  <2>2. CASE ~KeepSockets
    <3>1. /\ addresses[i] # <<>> /\ Head(addresses[i]) # Localhost /\ UNCHANGED fatal
          /\ CreateSocket(sockets, Head(addresses[i]))
      BY <1>1, <2>2 DEF SetUp, NotifyInterfaceUp
    <3>2. /\ sockets' \subseteq [id : 1 .. created', addr : Addresses]
          /\ created' \in Nat /\ holder' \in 0 .. created'
      BY <3>1, HeadIsAddress, CreatedIsTyped
    <3>. QED BY <1>1, <3>1, <3>2 DEF SetUp, Change, TypeOK, Lists
  <2>. QED BY <2>1, <2>2
<1>2. ASSUME NEW i \in AllInterfaces, SetDown(i) PROVE TypeOK' /\ Lists'
  <2>1. /\ sockets' \subseteq sockets /\ UNCHANGED created /\ fatal' \in BOOLEAN
        /\ holder' = holder \/ holder' = NoSocket
    BY <1>2 DEF SetDown, NotifyInterfaceDown, KeepSockets, TypeOK
  <2>. QED BY <1>2, <2>1, FewerIsTyped DEF SetDown, Change, TypeOK, Lists
<1>3. ASSUME NEW i \in Interfaces, NEW a \in Assignable[i], AddAddress(i, a)
      PROVE  TypeOK' /\ Lists'
  <2>. DEFINE list == Append(addresses[i], a)
  <2>1. list \in Seq(Assignable[i]) /\ list # <<>>
    <3>1. addresses[i] \in Seq(Assignable[i])
      BY DEF Lists
    <3>. QED BY <3>1, AddressAppended
  <2>2. /\ addresses' = [addresses EXCEPT ![i] = list] /\ NotifyAddAddress(i, addresses'[i])
        /\ changes' = changes + 1 /\ UNCHANGED <<up, neighbors, fatal, used, again>>
    BY <1>3 DEF AddAddress, Change
  <2>. HIDE DEF list
  <2>3. /\ Lists' /\ addresses'[i] = list
        /\ addresses' \in [AllInterfaces -> Seq(Addresses \cup {Localhost})]
    BY <2>1, <2>2, ListsChange
  <2>4. Head(list) \in Addresses
    BY <2>1, FirstAddress DEF Addresses
  <2>5. CreateSocket(sockets, Head(list)) \/ KeepSockets
    BY <2>2, <2>3 DEF NotifyAddAddress
  <2>6. /\ sockets' \subseteq [id : 1 .. created', addr : Addresses]
        /\ created' \in Nat /\ holder' \in 0 .. created'
    BY <2>4, <2>5, CreatedIsTyped, FewerIsTyped DEF KeepSockets
  <2>. QED BY <2>2, <2>3, <2>6 DEF TypeOK
<1>4. ASSUME NEW i \in Interfaces, NEW k \in DOMAIN addresses[i], RemoveAddress(i, k)
      PROVE  TypeOK' /\ Lists'
  <2>. DEFINE list == RemoveAt(addresses[i], k)
              a    == addresses[i][k]
  <2>1. list \in Seq(Assignable[i])
    <3>1. addresses[i] \in Seq(Assignable[i]) /\ k \in 1 .. Len(addresses[i])
      BY LenProperties DEF Lists
    <3>. QED BY <3>1, AddressRemoved
  <2>2. /\ addresses' = [addresses EXCEPT ![i] = list] /\ NotifyRemoveAddress(a, addresses'[i])
        /\ changes' = changes + 1 /\ UNCHANGED <<up, fatal, used, again>>
    BY <1>4 DEF RemoveAddress, Change
  <2>. HIDE DEF list, a
  <2>3. /\ Lists' /\ addresses'[i] = list
        /\ addresses' \in [AllInterfaces -> Seq(Addresses \cup {Localhost})]
    BY <2>1, <2>2, ListsChange
  <2>4. \/ sockets' \subseteq sockets /\ UNCHANGED <<holder, created>>
        \/ list # <<>> /\ \E rest \in SUBSET sockets : CreateSocket(rest, Head(list))
    BY <2>2, <2>3 DEF NotifyRemoveAddress, KeepSockets
  <2>5. list # <<>> => Head(list) \in Addresses
    BY <2>1, FirstAddress DEF Addresses
  <2>6. /\ sockets' \subseteq [id : 1 .. created', addr : Addresses]
        /\ created' \in Nat /\ holder' \in 0 .. created'
    BY <2>4, <2>5, CreatedIsTyped, FewerIsTyped
  <2>7. neighbors' \subseteq Neighbors
    BY <2>2 DEF NotifyRemoveAddress, TypeOK
  <2>. QED BY <2>2, <2>3, <2>6, <2>7 DEF TypeOK
<1>5. ASSUME NEW i \in Interfaces, NEW n \in Neighbors, RecvGpsr(i, n)
      PROVE  TypeOK' /\ Lists'
  BY <1>5 DEF RecvGpsr, TypeOK, Lists
<1>6. CASE UNCHANGED vars
  BY <1>6 DEF vars, TypeOK, Lists
<1>. QED BY <1>1, <1>2, <1>3, <1>4, <1>5, <1>6 DEF Next

LEMMA TypeInit == Init => TypeOK /\ Lists
<1>1. <<>> \in Seq(Addresses \cup {Localhost}) /\ <<Localhost>> \in Seq(Addresses \cup {Localhost})
  OBVIOUS
<1>2. \A i \in Interfaces : <<>> \in Seq(Assignable[i])
  OBVIOUS
<1>. SUFFICES ASSUME Init PROVE TypeOK /\ Lists
  OBVIOUS
<1>3. Lists
  BY <1>2 DEF Init, Lists, AllInterfaces
<1>4. addresses \in [AllInterfaces -> Seq(Addresses \cup {Localhost})]
  BY <1>1 DEF Init
<1>5. /\ fatal \in BOOLEAN /\ again \in BOOLEAN
      /\ up \subseteq AllInterfaces /\ used \subseteq AllInterfaces
  BY DEF Init, AllInterfaces
<1>6. /\ created \in Nat /\ holder \in 0 .. created /\ changes \in Nat
      /\ sockets \subseteq [id : 1 .. created, addr : Addresses]
      /\ neighbors \subseteq Neighbors
  BY DEF Init, NoSocket
<1>. QED BY <1>3, <1>4, <1>5, <1>6 DEF TypeOK

\* Every reachable state of the sockets is well typed.
THEOREM SocketsTypeCorrect == Spec => []TypeOK
<1>1. Spec => [](TypeOK /\ Lists)
  BY TypeInit, TypeNext, PTL DEF Spec
<1>. QED BY <1>1, PTL

-----------------------------------------------------------------------------
(* The sockets and the usable interfaces.                                  *)

\* A socket whose address belongs to interface i.
OfInterface(i) == {s \in sockets : s.addr \in Assignable[i]}

\* Unless an interface was brought up twice, its socket is the one SocketsMatch says.
LEMMA SocketOfInterface ==
  ASSUME Lists, SocketsMatch, ~again, NEW i \in Interfaces, NEW s \in OfInterface(i)
  PROVE  Usable(i) /\ s.addr = Head(addresses[i])
<1>1. PICK j \in Interfaces : Usable(j) /\ s.addr = Head(addresses[j])
  BY DEF SocketsMatch, OfInterface
<1>2. s.addr \in Assignable[j]
  BY <1>1, OwnHead DEF Usable
<1>3. j = i
  BY <1>2 DEF OfInterface
<1>. QED BY <1>1, <1>3

\* A change of interface i leaves the sockets of the others and serves i if it is usable.
LEMMA OthersKeepSockets ==
  ASSUME Lists, UsableHasSocket, NEW i \in AllInterfaces,
         \A j \in Interfaces \ {i} :
           addresses'[j] = addresses[j] /\ (j \in up <=> j \in up'),
         \A j \in Interfaces \ {i} : \A s \in sockets \ sockets' : s.addr \notin Assignable[j],
         i \in Interfaces /\ Usable(i)' => Standing(Head(addresses[i]))' # {}
  PROVE  UsableHasSocket'
<1>1. ASSUME NEW j \in Interfaces \ {i}, Usable(j)' PROVE Standing(Head(addresses[j]))' # {}
  <2>1. Usable(j)
    BY <1>1 DEF Usable
  <2>2. PICK s \in sockets : s.addr = Head(addresses[j])
    BY <2>1 DEF UsableHasSocket, Standing, IsMyOwnAddress
  <2>3. s.addr \in Assignable[j]
    BY <2>1, <2>2, OwnHead DEF Usable
  <2>4. s \in sockets'
    BY <2>3
  <2>. QED BY <2>2, <2>4 DEF Standing
<1>. QED BY <1>1 DEF UsableHasSocket, IsMyOwnAddress, Standing

\* A change of interface i leaves the sockets of the others and at most one for i.
LEMMA MatchKept ==
  ASSUME Lists, Lists', SocketsMatch, ~again, NEW i \in Interfaces, NEW own,
         \A j \in Interfaces \ {i} :
           addresses'[j] = addresses[j] /\ (j \in up <=> j \in up'),
         sockets' \subseteq (sockets \ OfInterface(i)) \cup own,
         \A s \in own : Usable(i)' /\ s.addr = Head(addresses'[i]),
         \A s, t \in own : s = t
  PROVE  SocketsMatch'
<1>1. ASSUME NEW s \in sockets \ OfInterface(i)
      PROVE  /\ s.addr \notin Assignable[i]
             /\ \E j \in Interfaces \ {i} : Usable(j)' /\ s.addr = Head(addresses'[j])
  <2>1. PICK j \in Interfaces : Usable(j) /\ s.addr = Head(addresses[j])
    BY DEF SocketsMatch
  <2>2. s.addr \in Assignable[j] /\ s.addr \notin Assignable[i]
    BY <2>1, OwnHead DEF Usable, OfInterface
  <2>3. j # i
    BY <2>2
  <2>4. Usable(j)' /\ s.addr = Head(addresses'[j])
    BY <2>1, <2>3 DEF Usable
  <2>. QED BY <2>2, <2>3, <2>4
<1>2. ASSUME NEW s \in own PROVE s.addr \in Assignable[i]
  BY FirstAddress DEF Lists, Usable
<1>3. \A s \in sockets' : \E j \in Interfaces : Usable(j)' /\ s.addr = Head(addresses'[j])
  BY <1>1
<1>4. ASSUME NEW s \in sockets', NEW t \in sockets', s.addr = t.addr PROVE s = t
  <2>1. CASE s \in sockets \ OfInterface(i) /\ t \in sockets \ OfInterface(i)
    BY <1>4, <2>1 DEF SocketsMatch
  <2>2. CASE s \in own /\ t \in own
    BY <2>2
  <2>3. CASE s \in own /\ t \in sockets \ OfInterface(i)
    BY <1>1, <1>2, <1>4, <2>3
  <2>4. CASE t \in own /\ s \in sockets \ OfInterface(i)
    BY <1>1, <1>2, <1>4, <2>4
  <2>. QED BY <2>1, <2>2, <2>3, <2>4
<1>. QED BY <1>3, <1>4 DEF SocketsMatch

\* An interface without usable address has no socket.
LEMMA NoneOfInterface ==
  ASSUME Lists, SocketsMatch, ~again, NEW i \in Interfaces, ~Usable(i)
  PROVE  OfInterface(i) = {}
  BY SocketOfInterface

\* The loopback interface has no socket and its changes touch none.
LEMMA LoopbackHasNone ==
  ASSUME TypeOK, Lists
  PROVE  Head(addresses[Loopback]) = Localhost /\ Standing(Localhost) = {}
<1>1. Localhost \notin Addresses
  BY DEF Addresses
<1>. QED BY <1>1 DEF TypeOK, Lists, Standing

LEMMA LoopbackStep ==
  ASSUME SocketsInv, Lists', SetUp(Loopback) \/ SetDown(Loopback)
  PROVE  UsableHasSocket' /\ SocketsMatch'
<1>1. addresses[Loopback] # <<>> /\ Head(addresses[Loopback]) = Localhost
      /\ Standing(Localhost) = {}
  BY LoopbackHasNone DEF SocketsInv, Lists
<1>2. UNCHANGED <<sockets, addresses>>
  BY <1>1 DEF SetUp, SetDown, NotifyInterfaceUp, NotifyInterfaceDown, KeepSockets
<1>3. \A j \in Interfaces : j \in up <=> j \in up'
  BY DEF SetUp, SetDown
<1>4. ~again' => ~again
  BY DEF SetUp, SetDown, SocketsInv, TypeOK
<1>5. \A j \in Interfaces : Usable(j)' <=> Usable(j)
  BY <1>2, <1>3 DEF Usable
<1>. QED BY <1>2, <1>4, <1>5 DEF SocketsInv, UsableHasSocket, SocketsMatch, Standing, IsMyOwnAddress

LEMMA SetUpStep ==
  ASSUME SocketsInv, Lists', NEW i \in Interfaces, SetUp(i)
  PROVE  UsableHasSocket' /\ SocketsMatch'
<1>. DEFINE new == [id |-> created + 1, addr |-> Head(addresses[i])]
<1>1. /\ up' = up \cup {i} /\ UNCHANGED addresses
      /\ \/ addresses[i] = <<>> /\ sockets' = sockets
         \/ addresses[i] # <<>> /\ sockets' = sockets \cup {new}
  <2>1. addresses[i] # <<>> => Head(addresses[i]) # Localhost
    BY OwnHead DEF SocketsInv
  <2>. QED BY <2>1 DEF SetUp, NotifyInterfaceUp, KeepSockets, CreateSocket
<1>2. new.addr = Head(addresses[i])
  OBVIOUS
<1>3. \A j \in Interfaces \ {i} : addresses'[j] = addresses[j] /\ (j \in up <=> j \in up')
  BY <1>1
<1>. HIDE DEF new
<1>4. UsableHasSocket'
  <2>1. Usable(i)' => Standing(Head(addresses[i]))' # {}
    BY <1>1, <1>2 DEF Usable, Standing
  <2>. QED BY <1>1, <1>3, <2>1, OthersKeepSockets DEF SocketsInv, AllInterfaces
<1>5. ASSUME ~again' PROVE SocketsMatch'
  <2>1. ~again /\ i \notin up
    BY <1>5 DEF SetUp, SocketsInv, TypeOK
  <2>2. OfInterface(i) = {}
    BY <2>1, NoneOfInterface DEF SocketsInv, Usable
  <2>. DEFINE own == IF addresses[i] = <<>> THEN {} ELSE {new}
  <2>3. sockets' \subseteq (sockets \ OfInterface(i)) \cup own
    BY <1>1, <2>2
  <2>4. \A s \in own : Usable(i)' /\ s.addr = Head(addresses'[i])
    <3>1. addresses[i] # <<>> => Head(addresses[i]) # Localhost
      BY OwnHead DEF SocketsInv
    <3>. QED BY <1>1, <1>2, <3>1 DEF Usable
  <2>5. \A s, t \in own : s = t
    OBVIOUS
  <2>. HIDE DEF own
  <2>. QED BY <1>3, <2>1, <2>3, <2>4, <2>5, MatchKept DEF SocketsInv
<1>. QED BY <1>4, <1>5 DEF SocketsMatch

LEMMA SetDownStep ==
  ASSUME SocketsInv, Lists', NEW i \in Interfaces, SetDown(i)
  PROVE  UsableHasSocket' /\ SocketsMatch'
<1>1. /\ up' = up \ {i} /\ UNCHANGED <<addresses, again>>
      /\ \/ addresses[i] = <<>> /\ sockets' = sockets
         \/ /\ addresses[i] # <<>> /\ Standing(Head(addresses[i])) = {}
            /\ sockets' = sockets
         \/ /\ addresses[i] # <<>>
            /\ \E s \in Standing(Head(addresses[i])) : sockets' = sockets \ {s}
  BY DEF SetDown, NotifyInterfaceDown, KeepSockets
<1>2. \A j \in Interfaces \ {i} : addresses'[j] = addresses[j] /\ (j \in up <=> j \in up')
  BY <1>1
<1>3. addresses[i] # <<>> => Head(addresses[i]) \in Assignable[i]
  BY OwnHead DEF SocketsInv
<1>4. UsableHasSocket'
  <2>1. \A s \in sockets \ sockets' : s.addr \in Assignable[i]
    BY <1>1, <1>3 DEF Standing
  <2>2. \A j \in Interfaces \ {i} : \A s \in sockets \ sockets' : s.addr \notin Assignable[j]
    BY <2>1
  <2>. QED BY <1>1, <1>2, <2>2, OthersKeepSockets DEF SocketsInv, AllInterfaces, Usable
<1>5. ASSUME ~again' PROVE SocketsMatch'
  <2>1. ~again
    BY <1>1, <1>5
  <2>2. \A s \in OfInterface(i) : addresses[i] # <<>> /\ s.addr = Head(addresses[i])
    BY <2>1, SocketOfInterface DEF SocketsInv, Usable
  <2>3. sockets' \subseteq (sockets \ OfInterface(i)) \cup {}
    BY <1>1, <2>1, <2>2 DEF Standing, OfInterface, SocketsInv, SocketsMatch
  <2>. DEFINE own == {}
  <2>4. sockets' \subseteq (sockets \ OfInterface(i)) \cup own
    BY <2>3
  <2>5. (\A s \in own : Usable(i)' /\ s.addr = Head(addresses'[i])) /\ \A s, t \in own : s = t
    OBVIOUS
  <2>. HIDE DEF own
  <2>. QED BY <1>2, <2>1, <2>4, <2>5, MatchKept DEF SocketsInv
<1>. QED BY <1>4, <1>5 DEF SocketsMatch

LEMMA AddAddressStep ==
  ASSUME SocketsInv, Lists', NEW i \in Interfaces, NEW a \in Assignable[i], AddAddress(i, a)
  PROVE  UsableHasSocket' /\ SocketsMatch'
<1>. DEFINE list == Append(addresses[i], a)
            new  == [id |-> created + 1, addr |-> Head(list)]
<1>1. addresses[i] \in Seq(Assignable[i])
  BY DEF SocketsInv, Lists
<1>2. /\ list \in Seq(Assignable[i]) /\ list # <<>>
      /\ addresses[i] # <<>> => Len(list) # 1 /\ Head(list) = Head(addresses[i])
      /\ addresses[i] = <<>> => Len(list) = 1
  BY <1>1, AddressAppended
<1>3. /\ addresses' = [addresses EXCEPT ![i] = list] /\ NotifyAddAddress(i, addresses'[i])
      /\ UNCHANGED <<up, again>>
  BY DEF AddAddress
<1>4. new.addr = Head(list)
  OBVIOUS
<1>. HIDE DEF list
<1>5. /\ addresses'[i] = list /\ \A j \in Interfaces \ {i} : addresses'[j] = addresses[j]
  BY <1>2, <1>3, ListsChange DEF SocketsInv
<1>6. \/ /\ i \in up /\ Len(list) = 1 /\ Standing(Head(list)) = {}
         /\ sockets' = sockets \cup {new}
      \/ /\ i \notin up \/ Len(list) # 1 \/ Standing(Head(list)) # {} \/ Head(list) = Localhost
         /\ sockets' = sockets
  BY <1>3, <1>5 DEF NotifyAddAddress, CreateSocket, KeepSockets
<1>7. Head(list) \in Assignable[i] /\ Head(list) # Localhost
  BY <1>2, FirstAddress
<1>. HIDE DEF new
<1>8. UsableHasSocket'
  <2>1. ASSUME Usable(i)' PROVE Standing(Head(addresses[i]))' # {}
    <3>1. CASE sockets' = sockets \cup {new}
      BY <1>4, <1>5, <3>1 DEF Standing
    <3>2. CASE sockets' = sockets /\ Standing(Head(list)) # {}
      BY <1>5, <3>2 DEF Standing
    <3>3. CASE sockets' = sockets /\ Len(list) # 1
      <4>1. Usable(i) /\ Head(list) = Head(addresses[i])
        BY <1>2, <1>3, <1>5, <1>7, <2>1, <3>3 DEF Usable
      <4>2. Standing(Head(addresses[i])) # {}
        BY <4>1 DEF SocketsInv, UsableHasSocket, IsMyOwnAddress, Standing
      <4>. QED BY <1>5, <3>3, <4>1, <4>2 DEF Standing
    <3>. QED BY <1>3, <1>6, <1>7, <2>1, <3>1, <3>2, <3>3 DEF Usable
  <2>. QED BY <1>3, <1>5, <1>6, <2>1, OthersKeepSockets DEF SocketsInv, AllInterfaces
<1>9. ASSUME ~again' PROVE SocketsMatch'
  <2>1. ~again
    BY <1>3, <1>9
  <2>2. CASE addresses[i] = <<>>
    <3>1. OfInterface(i) = {}
      BY <2>1, <2>2, NoneOfInterface DEF SocketsInv, Usable
    <3>. DEFINE own == sockets' \ sockets
    <3>2. sockets' \subseteq (sockets \ OfInterface(i)) \cup own
      BY <3>1
    <3>3. \A s \in own : s = new /\ i \in up
      BY <1>6
    <3>4. \A s \in own : Usable(i)' /\ s.addr = Head(addresses'[i])
      BY <1>2, <1>3, <1>4, <1>5, <1>7, <3>3 DEF Usable
    <3>. HIDE DEF own
    <3>. QED BY <1>3, <1>5, <2>1, <3>2, <3>3, <3>4, MatchKept DEF SocketsInv
  <2>3. CASE addresses[i] # <<>>
    <3>. DEFINE own == OfInterface(i)
    <3>1. sockets' \subseteq (sockets \ OfInterface(i)) \cup own
      BY <1>2, <1>6, <2>3
    <3>2. \A s \in own : Usable(i) /\ s.addr = Head(addresses[i])
      BY <2>1, SocketOfInterface DEF SocketsInv
    <3>3. \A s \in own : Usable(i)' /\ s.addr = Head(addresses'[i])
      BY <1>2, <1>3, <1>5, <2>3, <3>2 DEF Usable
    <3>4. \A s, t \in own : s = t
      BY <2>1, <3>2 DEF SocketsInv, SocketsMatch, OfInterface
    <3>. HIDE DEF own
    <3>. QED BY <1>3, <1>5, <2>1, <3>1, <3>3, <3>4, MatchKept DEF SocketsInv
  <2>. QED BY <2>2, <2>3
<1>. QED BY <1>8, <1>9 DEF SocketsMatch

LEMMA RemoveAddressStep ==
  ASSUME SocketsInv, Lists', NEW i \in Interfaces, NEW k \in DOMAIN addresses[i],
         RemoveAddress(i, k)
  PROVE  UsableHasSocket' /\ SocketsMatch'
<1>. DEFINE list == RemoveAt(addresses[i], k)
            a    == addresses[i][k]
            new  == [id |-> created + 1, addr |-> Head(list)]
<1>1. addresses[i] \in Seq(Assignable[i]) /\ k \in 1 .. Len(addresses[i])
  BY LenProperties DEF SocketsInv, Lists
<1>2. /\ list \in Seq(Assignable[i]) /\ a \in Assignable[i] /\ addresses[i] # <<>>
      /\ k # 1 => list # <<>> /\ Head(list) = Head(addresses[i])
      /\ k = 1 => a = Head(addresses[i])
  BY <1>1, AddressRemoved, ElementOfSeq, EmptySeq
<1>3. /\ addresses' = [addresses EXCEPT ![i] = list] /\ NotifyRemoveAddress(a, addresses'[i])
      /\ UNCHANGED <<up, again>>
  BY DEF RemoveAddress
<1>4. new.addr = Head(list)
  OBVIOUS
<1>. HIDE DEF list, a
<1>5. /\ addresses'[i] = list /\ \A j \in Interfaces \ {i} : addresses'[j] = addresses[j]
  BY <1>2, <1>3, ListsChange DEF SocketsInv
<1>6. \/ Standing(a) = {} /\ sockets' = sockets
      \/ \E s \in Standing(a) :
           \/ list = <<>> /\ sockets' = sockets \ {s}
           \/ list # <<>> /\ sockets' = (sockets \ {s}) \cup {new}
  BY <1>3, <1>5 DEF NotifyRemoveAddress, CreateSocket, KeepSockets
<1>. HIDE DEF new
<1>7. UsableHasSocket'
  <2>1. ASSUME Usable(i)' PROVE Standing(Head(addresses[i]))' # {}
    <3>1. CASE new \in sockets'
      BY <1>4, <1>5, <3>1 DEF Standing
    <3>2. CASE Standing(a) = {} /\ sockets' = sockets
      <4>1. Usable(i)
        BY <1>2, <1>3, <2>1, OwnHead DEF Usable, SocketsInv
      <4>2. Standing(Head(addresses[i])) # {}
        BY <4>1 DEF SocketsInv, UsableHasSocket, IsMyOwnAddress, Standing
      <4>3. Head(list) = Head(addresses[i])
        BY <1>2, <3>2, <4>2
      <4>. QED BY <1>5, <3>2, <4>2, <4>3 DEF Standing
    <3>. QED BY <1>5, <1>6, <2>1, <3>1, <3>2 DEF Usable
  <2>2. \A s \in sockets \ sockets' : s.addr \in Assignable[i]
    BY <1>2, <1>6 DEF Standing
  <2>3. \A j \in Interfaces \ {i} : \A s \in sockets \ sockets' : s.addr \notin Assignable[j]
    BY <2>2
  <2>. QED BY <1>3, <1>5, <2>1, <2>3, OthersKeepSockets DEF SocketsInv, AllInterfaces
<1>8. ASSUME ~again' PROVE SocketsMatch'
  <2>1. ~again
    BY <1>3, <1>8
  <2>2. \A s \in OfInterface(i) : Usable(i) /\ s.addr = Head(addresses[i])
    BY <2>1, SocketOfInterface DEF SocketsInv
  <2>3. CASE Standing(a) = {} /\ sockets' = sockets
    <3>. DEFINE own == OfInterface(i)
    <3>1. sockets' \subseteq (sockets \ OfInterface(i)) \cup own
      BY <2>3
    <3>2. ASSUME NEW s \in own PROVE Usable(i)' /\ s.addr = Head(addresses'[i])
      <4>1. Usable(i) /\ s.addr = Head(addresses[i]) /\ s.addr # a
        BY <2>2, <2>3 DEF Standing, OfInterface
      <4>2. k # 1
        BY <1>2, <4>1
      <4>. QED BY <1>2, <1>3, <1>5, <4>1, <4>2 DEF Usable
    <3>3. \A s, t \in own : s = t
      BY <2>1, <2>2 DEF SocketsInv, SocketsMatch, OfInterface
    <3>. HIDE DEF own
    <3>. QED BY <1>3, <1>5, <2>1, <3>1, <3>2, <3>3, MatchKept DEF SocketsInv
  <2>4. ASSUME NEW s \in Standing(a),
               \/ list = <<>> /\ sockets' = sockets \ {s}
               \/ list # <<>> /\ sockets' = (sockets \ {s}) \cup {new}
        PROVE  SocketsMatch'
    <3>1. s \in OfInterface(i)
      BY <1>2 DEF Standing, OfInterface
    <3>2. OfInterface(i) = {s}
      BY <2>1, <2>2, <3>1 DEF SocketsInv, SocketsMatch, OfInterface
    <3>. DEFINE own == IF list = <<>> THEN {} ELSE {new}
    <3>3. sockets' \subseteq (sockets \ OfInterface(i)) \cup own
      BY <2>4, <3>2
    <3>4. list # <<>> => Head(list) # Localhost
      BY <1>2, FirstAddress
    <3>5. \A t \in own : Usable(i)' /\ t.addr = Head(addresses'[i])
      BY <1>3, <1>4, <1>5, <2>2, <3>1, <3>4 DEF Usable
    <3>6. \A t, v \in own : t = v
      OBVIOUS
    <3>. HIDE DEF own
    <3>. QED BY <1>3, <1>5, <2>1, <3>3, <3>5, <3>6, MatchKept DEF SocketsInv
  <2>. QED BY <1>6, <2>3, <2>4
<1>. QED BY <1>7, <1>8 DEF SocketsMatch

LEMMA SocketsInit == Init => SocketsInv
<1>1. Init => UsableHasSocket /\ SocketsMatch
  BY DEF Init, UsableHasSocket, SocketsMatch, Usable, IsMyOwnAddress, Standing
<1>. QED BY <1>1, TypeInit DEF SocketsInv

LEMMA SocketsNext == SocketsInv /\ [Next]_vars => SocketsInv'
<1>. SUFFICES ASSUME SocketsInv, [Next]_vars PROVE UsableHasSocket' /\ SocketsMatch'
  BY TypeNext DEF SocketsInv
<1>1. TypeOK' /\ Lists'
  BY TypeNext DEF SocketsInv
<1>2. ASSUME NEW i \in AllInterfaces, SetUp(i) \/ SetDown(i)
      PROVE  UsableHasSocket' /\ SocketsMatch'
  BY <1>1, <1>2, LoopbackStep, SetUpStep, SetDownStep DEF AllInterfaces
<1>3. ASSUME NEW i \in Interfaces, NEW a \in Assignable[i], AddAddress(i, a)
      PROVE  UsableHasSocket' /\ SocketsMatch'
  BY <1>1, <1>3, AddAddressStep
<1>4. ASSUME NEW i \in Interfaces, NEW k \in DOMAIN addresses[i], RemoveAddress(i, k)
      PROVE  UsableHasSocket' /\ SocketsMatch'
  BY <1>1, <1>4, RemoveAddressStep
<1>5. CASE UNCHANGED <<up, addresses, sockets, again>>
  BY <1>5 DEF SocketsInv, UsableHasSocket, SocketsMatch, Usable, Standing, IsMyOwnAddress
<1>6. ASSUME NEW i \in Interfaces, NEW n \in Neighbors, RecvGpsr(i, n)
      PROVE  UsableHasSocket' /\ SocketsMatch'
  BY <1>5, <1>6 DEF RecvGpsr
<1>7. CASE UNCHANGED vars
  BY <1>5, <1>7 DEF vars
<1>. QED BY <1>2, <1>3, <1>4, <1>6, <1>7 DEF Next

\* Every usable interface has a socket, after any sequence of notifications.
THEOREM UsableInterfacesAreServed == Spec => []UsableHasSocket
<1>1. Spec => []SocketsInv
  BY SocketsInit, SocketsNext, PTL DEF Spec
<1>. QED BY <1>1, PTL DEF SocketsInv

\* Unless an interface is brought up while it is up, the sockets are those of the usable
\* interfaces, one each.
THEOREM NoSocketIsLeftOver == Spec => []SocketsMatch
<1>1. Spec => []SocketsInv
  BY SocketsInit, SocketsNext, PTL DEF Spec
<1>. QED BY <1>1, PTL DEF SocketsInv

\* Without sockets none is heard of, and the neighbours are forgotten unless the last
\* socket goes with its interface.
THEOREM NoSocketsNoNeighbors == Spec => ForgetsWithLastAddress
<1>1. ASSUME [Next]_vars, sockets' = {}, neighbors' # {}
      PROVE  neighbors' \subseteq neighbors /\ (sockets = {} \/ addresses' = addresses)
  <2>1. ASSUME NEW i \in AllInterfaces, SetUp(i) PROVE UNCHANGED neighbors /\ sockets = {}
    BY <1>1, <2>1 DEF SetUp, NotifyInterfaceUp, CreateSocket, KeepSockets
  <2>2. ASSUME NEW i \in AllInterfaces, SetDown(i) PROVE UNCHANGED <<neighbors, addresses>>
    BY <2>2 DEF SetDown
  <2>3. ASSUME NEW i \in Interfaces, NEW a \in Assignable[i], AddAddress(i, a)
        PROVE  UNCHANGED neighbors /\ sockets = {}
    BY <1>1, <2>3 DEF AddAddress, NotifyAddAddress, CreateSocket, KeepSockets
  <2>4. ASSUME NEW i \in Interfaces, NEW k \in DOMAIN addresses[i], RemoveAddress(i, k)
        PROVE  UNCHANGED neighbors /\ sockets = {}
    BY <1>1, <2>4 DEF RemoveAddress, NotifyRemoveAddress, CreateSocket, KeepSockets
  <2>5. ASSUME NEW i \in Interfaces, NEW n \in Neighbors, RecvGpsr(i, n) PROVE FALSE
    BY <1>1, <2>5 DEF RecvGpsr
  <2>6. CASE UNCHANGED vars
    BY <1>1, <2>6 DEF vars
  <2>. QED BY <1>1, <2>1, <2>2, <2>3, <2>4, <2>5, <2>6 DEF Next
<1>2. [Next]_vars => [sockets' = {} /\ neighbors' # {} =>
                        neighbors' \subseteq neighbors /\ (sockets = {} \/ addresses' = addresses)]_vars
  BY <1>1
<1>. QED BY <1>2, PTL DEF Spec, ForgetsWithLastAddress

-----------------------------------------------------------------------------
(* The port of a node with one interface in use.                           *)

\* Every socket stands for an address of an interface that was brought up.
SocketsOwned == \A s \in sockets : \E i \in used : s.addr \in Assignable[i]

\* Only interfaces that were brought up are up or have sockets; the one that is up, if
\* there is no other, finds the port held, unless bringing it up without an address
\* stopped the run.
HearsInv ==
  /\ IsFiniteSet(used) /\ used \subseteq Interfaces /\ up \cap Interfaces \subseteq used
  /\ SocketsOwned
  /\ (\A i, j \in used : i = j) =>
       \A i \in used \cap up : holder # NoSocket \/ (fatal /\ addresses[i] = <<>>)

LEMMA HearsInit == Init => HearsInv
  BY FS_EmptySet DEF Init, HearsInv, SocketsOwned

\* New sockets are for addresses of used interfaces.
LEMMA CreatedIsOwned ==
  ASSUME SocketsOwned, used \subseteq used', NEW rest \in SUBSET sockets,
         NEW i \in used', NEW addr \in Assignable[i], CreateSocket(rest, addr)
  PROVE  SocketsOwned'
  BY DEF SocketsOwned, CreateSocket

LEMMA OwnedNext == TypeOK /\ Lists /\ HearsInv /\ [Next]_vars => SocketsOwned'
<1>. SUFFICES ASSUME TypeOK, Lists, HearsInv, [Next]_vars PROVE SocketsOwned'
  OBVIOUS
<1>1. SocketsOwned /\ used \subseteq Interfaces /\ up \cap Interfaces \subseteq used
  BY DEF HearsInv
<1>2. CASE sockets' \subseteq sockets /\ used \subseteq used'
  BY <1>1, <1>2 DEF SocketsOwned
<1>3. ASSUME NEW i \in AllInterfaces, SetUp(i) PROVE SocketsOwned'
  <2>1. used' = used \cup ({i} \cap Interfaces) /\ NotifyInterfaceUp(i)
    BY <1>3 DEF SetUp
  <2>2. CASE KeepSockets
    BY <1>2, <2>1, <2>2 DEF KeepSockets
  <2>3. CASE ~KeepSockets
    <3>1. /\ addresses[i] # <<>> /\ Head(addresses[i]) # Localhost
          /\ CreateSocket(sockets, Head(addresses[i]))
      BY <2>1, <2>3 DEF NotifyInterfaceUp
    <3>2. i \in Interfaces /\ i \in used'
      BY <2>1, <3>1, HeadIsAddress
    <3>3. Head(addresses[i]) \in Assignable[i]
      BY <3>1, <3>2, OwnHead
    <3>. QED BY <1>1, <2>1, <3>1, <3>2, <3>3, CreatedIsOwned
  <2>. QED BY <2>2, <2>3
<1>4. ASSUME NEW i \in AllInterfaces, SetDown(i) PROVE SocketsOwned'
  BY <1>2, <1>4 DEF SetDown, NotifyInterfaceDown, KeepSockets
<1>5. ASSUME NEW i \in Interfaces, NEW a \in Assignable[i], AddAddress(i, a)
      PROVE  SocketsOwned'
  <2>. DEFINE list == Append(addresses[i], a)
  <2>1. list \in Seq(Assignable[i]) /\ list # <<>>
    <3>1. addresses[i] \in Seq(Assignable[i])
      BY DEF Lists
    <3>. QED BY <3>1, AddressAppended
  <2>2. /\ addresses' = [addresses EXCEPT ![i] = list] /\ NotifyAddAddress(i, addresses'[i])
        /\ UNCHANGED used
    BY <1>5 DEF AddAddress
  <2>. HIDE DEF list
  <2>3. addresses'[i] = list
    BY <2>1, <2>2, ListsChange
  <2>4. KeepSockets \/ (i \in up /\ CreateSocket(sockets, Head(list)))
    BY <2>2, <2>3 DEF NotifyAddAddress
  <2>5. Head(list) \in Assignable[i]
    BY <2>1, FirstAddress
  <2>. QED BY <1>1, <1>2, <2>2, <2>4, <2>5, CreatedIsOwned DEF KeepSockets
<1>6. ASSUME NEW i \in Interfaces, NEW k \in DOMAIN addresses[i], RemoveAddress(i, k)
      PROVE  SocketsOwned'
  <2>. DEFINE list == RemoveAt(addresses[i], k)
              a    == addresses[i][k]
  <2>1. list \in Seq(Assignable[i]) /\ a \in Assignable[i]
    <3>1. addresses[i] \in Seq(Assignable[i]) /\ k \in 1 .. Len(addresses[i])
      BY LenProperties DEF Lists
    <3>. QED BY <3>1, AddressRemoved, ElementOfSeq
  <2>2. /\ addresses' = [addresses EXCEPT ![i] = list] /\ NotifyRemoveAddress(a, addresses'[i])
        /\ UNCHANGED used
    BY <1>6 DEF RemoveAddress
  <2>. HIDE DEF list, a
  <2>3. addresses'[i] = list
    BY <2>1, <2>2, ListsChange
  <2>4. \/ sockets' \subseteq sockets
        \/ list # <<>> /\ \E s \in Standing(a) : CreateSocket(sockets \ {s}, Head(list))
    BY <2>2, <2>3 DEF NotifyRemoveAddress, KeepSockets
  <2>5. ASSUME NEW s \in Standing(a), list # <<>>, CreateSocket(sockets \ {s}, Head(list))
        PROVE  SocketsOwned'
    <3>1. s \in sockets /\ s.addr \in Assignable[i]
      BY <2>1 DEF Standing
    <3>2. i \in used'
      BY <1>1, <2>2, <3>1 DEF SocketsOwned
    <3>3. Head(list) \in Assignable[i]
      BY <2>1, <2>5, FirstAddress
    <3>. QED BY <1>1, <2>2, <2>5, <3>2, <3>3, CreatedIsOwned
  <2>. QED BY <1>2, <2>2, <2>4, <2>5
<1>7. ASSUME NEW i \in Interfaces, NEW n \in Neighbors, RecvGpsr(i, n) PROVE SocketsOwned'
  BY <1>2, <1>7 DEF RecvGpsr
<1>8. CASE UNCHANGED vars
  BY <1>2, <1>8 DEF vars
<1>. QED BY <1>3, <1>4, <1>5, <1>6, <1>7, <1>8 DEF Next

LEMMA HearsNext == TypeOK /\ Lists /\ HearsInv /\ [Next]_vars => HearsInv'
<1>. SUFFICES ASSUME TypeOK, Lists, HearsInv, [Next]_vars PROVE HearsInv'
  OBVIOUS
<1>. DEFINE Single == \A i, j \in used : i = j
<1>0. holder \in Nat /\ created \in Nat
  BY DEF TypeOK
<1>1. /\ IsFiniteSet(used)' /\ used \subseteq used'
      /\ (used \subseteq Interfaces)' /\ (up \cap Interfaces \subseteq used)'
  <2>1. ASSUME NEW i, used' = used \cup ({i} \cap Interfaces) PROVE IsFiniteSet(used)'
    <3>1. used' = used \/ used' = used \cup {i}
      BY <2>1
    <3>. QED BY <3>1, FS_AddElement DEF HearsInv
  <2>2. ASSUME NEW i \in AllInterfaces, SetUp(i)
        PROVE  /\ IsFiniteSet(used)' /\ used \subseteq used'
               /\ (used \subseteq Interfaces)' /\ (up \cap Interfaces \subseteq used)'
    <3>1. used' = used \cup ({i} \cap Interfaces) /\ up' = up \cup {i}
      BY <2>2 DEF SetUp
    <3>. QED BY <2>1, <3>1 DEF HearsInv
  <2>3. CASE used' = used /\ up' \subseteq up
    BY <2>3 DEF HearsInv
  <2>. QED BY <2>2, <2>3 DEF Next, SetDown, AddAddress, RemoveAddress, RecvGpsr, vars
<1>2. CASE UNCHANGED vars
  BY <1>2 DEF HearsInv, SocketsOwned, vars
<1>. SUFFICES ASSUME Single', ~UNCHANGED vars, NEW i \in (used \cap up)'
              PROVE  (holder # NoSocket \/ (fatal /\ addresses[i] = <<>>))'
  BY <1>1, <1>2, OwnedNext DEF HearsInv
<1>3. /\ Single /\ i \in Interfaces
      /\ i \in up => holder # NoSocket \/ (fatal /\ addresses[i] = <<>>)
  BY <1>1 DEF HearsInv
<1>4. ASSUME NEW rest, NEW addr, CreateSocket(rest, addr) PROVE holder' # NoSocket
  BY <1>0, <1>4 DEF CreateSocket, NoSocket
<1>5. /\ addresses[Loopback] # <<>> /\ Head(addresses[Loopback]) = Localhost
      /\ Standing(Localhost) = {}
  BY LoopbackHasNone DEF Lists
<1>6. ASSUME NEW j \in AllInterfaces, SetUp(j)
      PROVE  (holder # NoSocket \/ (fatal /\ addresses[i] = <<>>))'
  <2>1. ~fatal /\ NotifyInterfaceUp(j) /\ UNCHANGED addresses /\ up' = up \cup {j}
        /\ used' = used \cup ({j} \cap Interfaces)
    BY <1>6 DEF SetUp, Change
  <2>2. CASE j = Loopback
    <3>1. KeepSockets
      BY <1>5, <2>1, <2>2 DEF NotifyInterfaceUp
    <3>2. i \in up
      BY <1>3, <2>1, <2>2
    <3>. QED BY <1>3, <2>1, <3>1, <3>2 DEF KeepSockets
  <2>3. CASE j \in Interfaces
    <3>1. i = j
      BY <2>1, <2>3
    <3>2. CASE addresses[j] = <<>>
      BY <2>1, <3>1, <3>2 DEF NotifyInterfaceUp
    <3>3. CASE addresses[j] # <<>>
      <4>1. Head(addresses[j]) # Localhost
        BY <2>3, <3>3, OwnHead
      <4>. QED BY <1>4, <2>1, <3>3, <4>1 DEF NotifyInterfaceUp
    <3>. QED BY <3>2, <3>3
  <2>. QED BY <2>2, <2>3 DEF AllInterfaces
<1>7. ASSUME NEW j \in AllInterfaces, SetDown(j) PROVE holder' # NoSocket
  <2>1. ~fatal /\ NotifyInterfaceDown(j) /\ UNCHANGED <<addresses, used>>
        /\ up' = up \ {j}
    BY <1>7 DEF SetDown, Change
  <2>2. holder # NoSocket /\ j # i /\ i \in used
    BY <1>3, <2>1
  <2>3. addresses[j] # <<>> => Standing(Head(addresses[j])) = {}
    <3>1. CASE j = Loopback
      BY <1>5, <3>1
    <3>2. CASE j \in Interfaces
      <4>1. \A s \in sockets : s.addr \in Assignable[i]
        BY <1>3, <2>2 DEF HearsInv, SocketsOwned
      <4>2. \A s \in sockets : s.addr \notin Assignable[j]
        BY <1>3, <2>2, <3>2, <4>1
      <4>. QED BY <3>2, <4>2, OwnHead DEF Standing
    <3>. QED BY <3>1, <3>2 DEF AllInterfaces
  <2>4. KeepSockets
    BY <2>1, <2>3 DEF NotifyInterfaceDown
  <2>. QED BY <2>2, <2>4 DEF KeepSockets
<1>8. ASSUME NEW j \in Interfaces, NEW a \in Assignable[j], AddAddress(j, a)
      PROVE  holder' # NoSocket
  <2>1. ~fatal /\ UNCHANGED <<up, used>>
    BY <1>8 DEF AddAddress, Change
  <2>2. UNCHANGED holder \/ \E rest, addr : CreateSocket(rest, addr)
    BY <1>8 DEF AddAddress, NotifyAddAddress, KeepSockets
  <2>. QED BY <1>3, <1>4, <2>1, <2>2
<1>9. ASSUME NEW j \in Interfaces, NEW k \in DOMAIN addresses[j], RemoveAddress(j, k)
      PROVE  holder' # NoSocket
  <2>1. ~fatal /\ UNCHANGED <<up, used>>
    BY <1>9 DEF RemoveAddress, Change
  <2>2. UNCHANGED holder \/ \E rest, addr : CreateSocket(rest, addr)
    BY <1>9 DEF RemoveAddress, NotifyRemoveAddress, KeepSockets
  <2>. QED BY <1>3, <1>4, <2>1, <2>2
<1>10. ASSUME NEW j \in Interfaces, NEW n \in Neighbors, RecvGpsr(j, n)
       PROVE  holder' # NoSocket
  BY <1>3, <1>10 DEF RecvGpsr
<1>. QED BY <1>6, <1>7, <1>8, <1>9, <1>10 DEF Next

\* A node that uses one interface only is never deaf while it is usable, after any
\* sequence of changes of that interface and of addresses.
THEOREM OneInterfaceHears == Spec => []HearsAlone
<1>1. HearsInv => HearsAlone
  <2>. SUFFICES ASSUME HearsInv, Cardinality(used) <= 1, NEW i \in used, Usable(i)
                PROVE  holder # NoSocket
    BY DEF HearsAlone
  <2>1. \A j, k \in used : j = k
    <3>1. Cardinality(used) \in Nat
      BY FS_CardinalityType DEF HearsInv
    <3>2. Cardinality(used) = 0 \/ Cardinality(used) = 1
      BY <3>1
    <3>3. CASE Cardinality(used) = 0
      BY <3>3, FS_EmptySet DEF HearsInv
    <3>4. CASE Cardinality(used) = 1
      <4>1. PICK x : used = {x}
        BY <3>4, FS_Singleton DEF HearsInv
      <4>. QED BY <4>1
    <3>. QED BY <3>2, <3>3, <3>4
  <2>. QED BY <2>1 DEF HearsInv, Usable
<1>2. TypeOK /\ Lists /\ HearsInv /\ [Next]_vars => TypeOK' /\ Lists' /\ HearsInv'
  BY TypeNext, HearsNext
<1>3. Init => TypeOK /\ Lists /\ HearsInv
  BY TypeInit, HearsInit
<1>. QED BY <1>1, <1>2, <1>3, PTL DEF Spec
=============================================================================
