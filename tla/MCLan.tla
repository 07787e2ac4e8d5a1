--------------------------------- MODULE MCLan ---------------------------------
(***************************************************************************)
(* A model of Lan for TLC: addresses of three bits, hosts 2 and 3 on the   *)
(* network of interface 0 (address 1), host 5 on that of interface 1       *)
(* (address 4).  Host 5 is also the next hop of the default route, so that *)
(* it gets what is sent to address 6.                                      *)
(***************************************************************************)
EXTENDS Lan, TLC

CONSTANTS E0, E1, H2, H3, H5

MCInterfaceIP == <<1, 4>>
MCInterfaceEth == <<E0, E1>>
MCAttached == 2 :> 0 @@ 3 :> 0 @@ 5 :> 1
MCHostEth == 2 :> H2 @@ 3 :> H3 @@ 5 :> H5
MCRouteList == << <<0, [prefix |-> 0, length |-> 1, next_hop |-> NoHop]>>,
                  <<1, [prefix |-> 0, length |-> 0, next_hop |-> 5]>>,
                  <<1, [prefix |-> 5, length |-> 3, next_hop |-> NoHop]>> >>

==============================================================================
