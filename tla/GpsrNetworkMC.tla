--------------------------- MODULE GpsrNetworkMC ---------------------------
(***************************************************************************)
(* A corner of the grid: nodes 1 and 2 above nodes 6 and 7.  Every node    *)
(* has two neighbours.  The positions read from the HELLOs of the grid are *)
(* next to the origin, where node 1 is.  Node 7 stands 10^-12 m off the    *)
(* grid, at y = 100.00000000000092: the last byte of that double is 65,    *)
(* the byte RecvGpsr reads as the first of x, so that x is 2142720 m.      *)
(***************************************************************************)
EXTENDS GpsrNetwork, GridMC

Corner == {1, 2, 6, 7}

MCPlace    == [n \in Corner |-> Grid[n]]
MCHelloPos == [n \in Corner |-> IF n = 7 THEN [x |-> 21427 * Grain, y |-> 1]
                                 ELSE HelloPosition(HelloPacket(Grid[n]))]
MCHears    == [n \in Corner |-> InRange(n) \cap Corner]

\* Node 2 sends to node 6 across the corner, node 1 to node 7, node 7 to itself, and
\* node 2 to an address nobody has.
MCFlows == {[src |-> 2, dst |-> 6], [src |-> 1, dst |-> 7], [src |-> 7, dst |-> 7],
            [src |-> 2, dst |-> 9]}

\* An echo request begins with a UDP header, a trifle as a double, and zeros; other
\* bytes may claim a packet in recovery to node 7 that comes from node 1.
MCPayloads == {[dst |-> [x |-> 1, y |-> 0], prev |-> MCPlace[1], recovery |-> FALSE],
               [dst |-> MCPlace[7], prev |-> MCPlace[1], recovery |-> TRUE]}
=============================================================================
