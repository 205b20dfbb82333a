------------------------------- MODULE GridMC -------------------------------
(***************************************************************************)
(* The grid of StaticSimulationGPSR (SetupTopology): ten nodes, five to a  *)
(* row, Grain = 100 m apart.  A node hears the nodes next to it in its row *)
(* and its column.                                                         *)
(***************************************************************************)
EXTENDS GpsrHello

Grid == [n \in 1 .. 10 |-> [x |-> Grain * ((n - 1) % 5), y |-> Grain * ((n - 1) \div 5)]]

InRange(n) == {m \in 1 .. 10 : DistSq(Grid[n], Grid[m]) = 1}

\* What the node reads from the HELLOs in its range.
Announced(n) == [m \in InRange(n) |-> HelloPosition(HelloPacket(Grid[m]))]
=============================================================================
