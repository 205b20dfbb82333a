---------------------------- MODULE GpsrSocketsMC ----------------------------
(***************************************************************************)
(* A node with two interfaces; the first may have two addresses.           *)
(***************************************************************************)
EXTENDS GpsrSockets

MCAssignable == [i \in {1, 2} |-> IF i = 1 THEN {"10.1.1.1", "10.1.1.2"} ELSE {"10.1.2.1"}]
=============================================================================
