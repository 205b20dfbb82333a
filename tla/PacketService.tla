--------------------------- MODULE PacketService ---------------------------
(***************************************************************************)
(* What an application may count on when it hands a packet over, whatever  *)
(* the tables, the queues and the timers do: the packet is delivered at    *)
(* once or kept; a packet that is kept is, once, delivered or given up;    *)
(* nothing else ever happens to it.                                        *)
(*                                                                         *)
(* Two things implement it.  For the agent of one node, GpsrNode, a packet *)
(* is delivered when it is given to a neighbour; for all the agents,       *)
(* GpsrNetwork, when it reaches its destination.                           *)
(***************************************************************************)
EXTENDS Integers

CONSTANT Destinations

VARIABLES accepted,    \* number of packets taken over so far
          held,        \* the packets kept, as [uid, dst]
          delivered,   \* uids of the packets delivered
          givenUp      \* uids of the packets given up

svars == <<accepted, held, delivered, givenUp>>

SInit == accepted = 0 /\ held = {} /\ delivered = {} /\ givenUp = {}

Accept(d) ==
  /\ accepted' = accepted + 1
  /\ \/ /\ held' = held \cup {[uid |-> accepted + 1, dst |-> d]}
        /\ UNCHANGED delivered
     \/ /\ delivered' = delivered \cup {accepted + 1}
        /\ UNCHANGED held
  /\ UNCHANGED givenUp

\* Some of the packets held are given up, and at most one is delivered.
Settle ==
  \E stay \in SUBSET held :
    LET gone == {h.uid : h \in held \ stay}
    IN  /\ held' = stay
        /\ \/ /\ givenUp' = givenUp \cup gone
              /\ UNCHANGED delivered
           \/ \E u \in gone : /\ delivered' = delivered \cup {u}
                              /\ givenUp' = givenUp \cup (gone \ {u})
  /\ UNCHANGED accepted

SNext == (\E d \in Destinations : Accept(d)) \/ Settle

SSpec == SInit /\ [][SNext]_svars
=============================================================================
