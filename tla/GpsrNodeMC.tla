----------------------------- MODULE GpsrNodeMC -----------------------------
(***************************************************************************)
(* Node 5, a corner of the grid: it hears nodes 4 and 10.  It sends to     *)
(* node 4, its neighbour, and to node 2, which no recorded neighbour lies  *)
(* between: the positions read from the HELLOs are next to the origin, so  *)
(* the greedy search finds a hop for node 2 and none for node 4.           *)
(***************************************************************************)
EXTENDS GpsrNodeProps, GridMC

MCMyPos    == Grid[5]
MCPos      == [d \in Dsts |-> Grid[d]]
MCHelloPos == Announced(5)

\* What a payload may look like to PeekHeader: the zeros of an echo request, bytes
\* that claim a destination at node 5, and bytes that claim recovery with node 4 as
\* the previous hop.
MCJunk == {[dst |-> Grid[1], prev |-> Grid[1], recovery |-> FALSE],
           [dst |-> Grid[5], prev |-> Grid[1], recovery |-> FALSE],
           [dst |-> Grid[5], prev |-> Grid[4], recovery |-> TRUE]}
=============================================================================
