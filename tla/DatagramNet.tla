----------------------------- MODULE DatagramNet ------------------------------
(***************************************************************************)
(* What the interfaces and the router promise to the hosts: a datagram     *)
(* arrives at most once, at the host that the routes say, as it was sent   *)
(* except for the hop it has made.  It may also be lost.                   *)
(***************************************************************************)
EXTENDS Naturals, Sequences

CONSTANTS Host,      \* addresses of the hosts
          Home       \* the host that gets the datagrams for a destination

VARIABLES sent,      \* the datagrams sent
          inbox      \* the datagrams each host has received

vars == <<sent, inbox>>

Init == sent = {} /\ inbox = [h \in Host |-> <<>>]

Send(d) ==
    /\ \A e \in sent : e.id # d.id
    /\ sent' = sent \union {d}
    /\ UNCHANGED inbox

HasArrived(d) == \E h \in Host : \E i \in DOMAIN inbox[h] : inbox[h][i].id = d.id

Deliver(d) ==
    /\ ~HasArrived(d) /\ d.ttl > 1
    /\ inbox' = [inbox EXCEPT ![Home[d.dst]] =
                    Append(@, [d EXCEPT !.ttl = d.ttl - 1, !.cksum = d.ttl - 1])]
    /\ UNCHANGED sent

Next == (\E d \in sent' \ sent : Send(d)) \/ (\E d \in sent : Deliver(d))

Spec == Init /\ [][Next]_vars

==============================================================================
