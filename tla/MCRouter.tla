------------------------------- MODULE MCRouter -------------------------------
(***************************************************************************)
(* A model of Router for TLC: addresses of two bits, two interfaces with   *)
(* addresses 1 and 0, a host with address 2 and one with address 3, each   *)
(* on an interface of its own, a default route, a route to a directly      *)
(* attached network and a host route.                                      *)
(***************************************************************************)
EXTENDS Router, TLC

CONSTANTS E0, E1, H2, H3

MCInterfaceIP == <<1, 0>>
MCInterfaceEth == <<E0, E1>>
MCAttached == 2 :> 0 @@ 3 :> 1
MCHostEth == 2 :> H2 @@ 3 :> H3
MCRoutes == {[prefix |-> 0, length |-> 0, next_hop |-> 2],
             [prefix |-> 2, length |-> 1, next_hop |-> NoHop],
             [prefix |-> 3, length |-> 2, next_hop |-> 2]}

=============================================================================
