---------------------------- MODULE EchoClientMC ----------------------------
(***************************************************************************)
(* The client of StaticSimulationGPSR: node 1 of the grid, which hears     *)
(* nodes 2 and 6, sends to node 10; one tick is 0.25 s.                    *)
(***************************************************************************)
EXTENDS EchoClient, GridMC

MCMyPos    == Grid[1]
MCPos      == [d \in Dsts |-> Grid[d]]
MCHelloPos == Announced(1)
=============================================================================
