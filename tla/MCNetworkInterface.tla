-------------------------- MODULE MCNetworkInterface --------------------------
(***************************************************************************)
(* A model of NetworkInterface for TLC: one next hop that changes its      *)
(* Ethernet address, and one that does not.                                *)
(***************************************************************************)
EXTENDS NetworkInterface, TLC

CONSTANTS A, B, C

MCEth == {A, B, C}
MCOwner == A :> 2 @@ B :> 2 @@ C :> 3

=============================================================================
