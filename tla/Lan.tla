---------------------------------- MODULE Lan ----------------------------------
(***************************************************************************)
(* A Router between two networks of hosts, each host with a                *)
(* NetworkInterface of its own whose next hop is the router, connected the *)
(* way tests/router.cc connects them: a frame that leaves an interface is  *)
(* received at once by all others on the same network.  Unlike there, the  *)
(* interfaces, the router and time proceed in any order, and MaxLost       *)
(* frames are lost.                                                        *)
(*                                                                         *)
(* The interfaces and routes of the router are complete at the start.      *)
(***************************************************************************)
EXTENDS Router

CONSTANTS RouteList,   \* <<interface, route>> in the order of the add_route calls
          MaxLost      \* bound: frames lost

VARIABLES hosts,       \* the interface of each host
          inbox,       \* the datagrams it has received
          sent,        \* the datagrams sent, as they left
          refused,     \* identities of those that were given up
          lost         \* number of frames lost

router == <<interfaces, datagrams_in, router_table, arrived, added>>
lanVars == <<interfaces, datagrams_in, router_table, arrived, added, hosts, inbox, sent, refused, lost>>

Host == DOMAIN HostEth
On(i) == {h \in Host : Attached[h] = i}
Gateway(h) == InterfaceIP[Attached[h] + 1]

TableOf(list) ==
    FoldLeft(LAMBDA table, x : [Resized(table, x[1] + 1) EXCEPT ![x[1] + 1] = Append(@, x[2])],
             <<>>, list)

LanInit ==
    /\ interfaces = [i \in DOMAIN InterfaceIP |-> NewInterface(InterfaceEth[i], InterfaceIP[i])]
    /\ datagrams_in = [i \in DOMAIN InterfaceIP |-> <<>>]
    /\ router_table = TableOf(RouteList)
    /\ added = RouteList
    /\ arrived = 0
    /\ hosts = [h \in Host |-> NewInterface(HostEth[h], h)]
    /\ inbox = [h \in Host |-> <<>>]
    /\ sent = {}
    /\ refused = {}
    /\ lost = 0

Carries(n, id) == \E d \in Outgoing(n) : d.id = id

\* A host sends a datagram; send_datagram drops it if a request is unanswered.
HostSend(h, dst, ttl) ==
    LET d == [id |-> arrived + 1, dst |-> dst, ttl |-> ttl, ttl_in |-> ttl, cksum |-> ttl]
    IN  /\ arrived < MaxDatagrams
        /\ arrived' = arrived + 1
        /\ sent' = sent \union {d}
        /\ hosts' = [hosts EXCEPT ![h] = send_datagram(@, d, Gateway(h))]
        /\ refused' = refused \union (IF Carries(hosts'[h], d.id) THEN {} ELSE {d.id})
        /\ UNCHANGED <<interfaces, datagrams_in, router_table, added, inbox, lost>>

\* The hosts of network i that are among the given ones receive a frame.
HostsReceive(before, group, frame) ==
    /\ hosts' = [h \in Host |-> IF h \in group THEN recv_frame(before[h], frame) ELSE before[h]]
    /\ inbox' = [h \in Host |-> IF h \in group THEN inbox[h] \o Received(before[h], frame)
                                ELSE inbox[h]]

\* A frame leaves a host, for the router's interface and its neighbours.
HostTransmit(h) ==
    LET frame == Head(hosts[h].frames)
    IN  /\ hosts[h].frames # <<>>
        /\ HostsReceive([hosts EXCEPT ![h] = maybe_send(@)], On(Attached[h]) \ {h}, frame)
        /\ RecvFrame(Attached[h], frame)
        /\ UNCHANGED <<arrived, sent, refused, lost>>

RouterTransmit(i) ==
    /\ MaybeSend(i)
    /\ HostsReceive(hosts, On(i), Head(interfaces[i + 1].frames))
    /\ UNCHANGED <<sent, refused, lost>>

\* A frame leaves an interface and is lost.
Lose ==
    /\ lost < MaxLost
    /\ lost' = lost + 1
    /\ \/ \E h \in Host :
             /\ hosts[h].frames # <<>>
             /\ hosts' = [hosts EXCEPT ![h] = maybe_send(@)]
             /\ UNCHANGED router
       \/ \E i \in Numbers : MaybeSend(i) /\ UNCHANGED hosts
    /\ UNCHANGED <<inbox, sent, refused>>

\* What route takes and does not pass on has been given up.
RouterRoute ==
    /\ Route
    /\ refused' = refused \union
         {id \in 1..arrived :
             /\ \E i \in Numbers : \E d \in ToSet(datagrams_in[i + 1]) : d.id = id
             /\ \A i \in Numbers :
                    /\ \A d \in ToSet(datagrams_in'[i + 1]) : d.id # id
                    /\ ~Carries(interfaces'[i + 1], id)}
    /\ UNCHANGED <<hosts, inbox, sent, lost>>

\* The owners' calls of tick, on all interfaces or on the router's only.
LanTick ==
    /\ \E group \in {Host, {}} :
          /\ \A h \in group : hosts[h].timestamp < MaxTime
          /\ hosts' = [h \in Host |-> IF h \in group THEN tick(hosts[h], 1) ELSE hosts[h]]
    /\ \A i \in Numbers : interfaces[i + 1].timestamp < MaxTime
    /\ interfaces' = [i \in DOMAIN interfaces |-> tick(interfaces[i], 1)]
    /\ UNCHANGED <<datagrams_in, router_table, arrived, added, inbox, sent, refused, lost>>

LanNext ==
    \/ \E h \in Host, dst \in Destinations, ttl \in Ttls : HostSend(h, dst, ttl)
    \/ \E h \in Host : HostTransmit(h)
    \/ \E i \in Numbers : RouterTransmit(i)
    \/ RouterRoute \/ LanTick \/ Lose

LanSpec == LanInit /\ [][LanNext]_lanVars

\* As simulate does (tests/router.cc:221-225), frames are exchanged and route
\* is called again and again; each condition is weak fairness of the action
\* with what enables it written out.
LanFairness ==
    /\ []<>RouteIdle \/ []<><<RouterRoute>>_lanVars
    /\ \A h \in Host : []<>(hosts[h].frames = <<>>) \/ []<><<HostTransmit(h)>>_lanVars
    /\ \A i \in 0..Len(InterfaceIP) - 1 :
           []<>(interfaces[i + 1].frames = <<>>) \/ []<><<RouterTransmit(i)>>_lanVars

FairLanSpec == LanSpec /\ LanFairness

------------------------------------------------------------------------------
\* The host that the longest of the routes for a destination leads to.
Home ==
    [dst \in Destinations |->
        LET Matching == {x \in ToSet(RouteList) : ipPrefixMatched(dst, x[2].prefix, x[2].length)}
            best == CHOOSE x \in Matching : \A y \in Matching : y[2].length <= x[2].length
        IN  IF best[2].next_hop = NoHop THEN dst ELSE best[2].next_hop]

Net == INSTANCE DatagramNet

\* The ARP exchanges of all parties, the broadcasts that everybody hears, the
\* queues of the interfaces and the router between them show the hosts
\* nothing but DatagramNet: no datagram arrives twice, at a neighbour, or
\* with anything but its ttl and checksum changed.
ImplementsNet == Net!Spec

Arrives(id) == \E h \in Host : \E d \in ToSet(inbox[h]) : d.id = id

\* Every datagram arrives at its host in the end, unless it was given up on
\* the way (because a request for its next hop was unanswered, its ttl was
\* spent or no route was found) or a frame was lost.
EventuallyArrives ==
    \A id \in 1..MaxDatagrams : arrived >= id ~> id \in refused \/ Arrives(id) \/ lost > 0

------------------------------------------------------------------------------
\* A datagram that waits for an answer does not wait for good, even if the
\* answer, or the request, was lost: what network_interface.cc:32 does not do,
\* since a request is repeated only when another datagram is to be sent.
WaitsAreFinite ==
    \A id \in 1..MaxDatagrams :
        (\E h \in Host, ip \in IP : \E d \in ToSet(hosts[h].arp_table[ip].pending) : d.id = id)
        ~> (\A h \in Host, ip \in IP : \A d \in ToSet(hosts[h].arp_table[ip].pending) : d.id # id)

==============================================================================
