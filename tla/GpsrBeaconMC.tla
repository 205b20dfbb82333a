---------------------------- MODULE GpsrBeaconMC ----------------------------
(***************************************************************************)
(* Nodes 4, 5 and 10 of the grid, where 4 and 10 are in range of 5 and     *)
(* node 10 has no mobility model; one tick is 10 ms.  Of the jitters, the  *)
(* least and the greatest decide.                                          *)
(***************************************************************************)
EXTENDS GpsrBeacon, GridMC

MCHears == [n \in Nodes |-> InRange(n) \cap Nodes]
MCPlace == [n \in {4, 5} |-> Grid[n]]
MCJitters == {-MaxJitter, MaxJitter - 1}
=============================================================================
