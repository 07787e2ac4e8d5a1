-------------------------------- MODULE Router --------------------------------
(***************************************************************************)
(* A Router (src/router.cc, src/router.hh) with its interfaces: interfaces *)
(* and routes are added, frames come in from the attached networks, time   *)
(* passes, route() is called, and frames are taken for transmission.       *)
(*                                                                         *)
(* Interface i of the code is element i + 1 of the sequences.  An address  *)
(* has Width bits.  A datagram carries the ttl it arrived with as ttl_in.  *)
(***************************************************************************)
EXTENDS NetworkInterfaceOps, SequencesExt

CONSTANTS Width,            \* bits of an address: 32 in the code
          InterfaceIP,      \* addresses of the interfaces to be added, in order
          InterfaceEth,     \* and their Ethernet addresses
          HostEth,          \* the Ethernet addresses of the hosts off the router
          Attached,         \* the number of the interface a host is attached to
          Routes,           \* arguments of add_route: [prefix, length, next_hop]
          NoHop,            \* nullopt: the network is directly attached
          Dangling,         \* a pointer to a node that has been freed
          GrowAnytime,      \* whether interfaces are added after traffic began
          AnyRouteOrder,    \* whether routes come in any order of interfaces
          Ttls,             \* ttl fields of the datagrams that arrive
          Destinations,     \* and their destination addresses
          MaxDatagrams,     \* bound: datagrams that arrive
          MaxRoutes,        \* bound: calls of add_route
          MaxTime           \* bound: milliseconds that pass

ASSUME WidthAssumption == Width \in Nat \ {0} /\ IP = 0..2^Width - 1

ASSUME RoutesAssumption ==
    Routes \subseteq [prefix : IP, length : 0..Width, next_hop : IP \union {NoHop}]

ASSUME NetworksAssumption ==
    InterfaceIP \in Seq(IP) /\ Destinations \subseteq IP /\ DOMAIN HostEth \subseteq IP

ASSUME TrafficAssumption == Ttls \subseteq Nat /\ MaxDatagrams \in Nat

VARIABLES interfaces,     \* interfaces_
          datagrams_in,   \* datagrams_in_ of each of them
          router_table,   \* router_table_
          arrived,        \* datagrams taken in so far
          added           \* <<interface, route>> of every call of add_route

vars == <<interfaces, datagrams_in, router_table, arrived, added>>

Numbers == 0..Len(interfaces) - 1

Init ==
    /\ interfaces = <<>>
    /\ datagrams_in = <<>>
    /\ router_table = <<>>
    /\ arrived = 0
    /\ added = <<>>

------------------------------------------------------------------------------
(* add_interface *)

\* libstdc++ doubles a vector that is full.
Reallocates(size) == \E k \in 0..size : size = 2^k

\* Reallocation copies the interfaces, since moving a deque may throw.  The
\* pointers of the copy still lead into the queues of the original, which is
\* then destroyed.
CopiedEntry(entry) ==
    [entry EXCEPT !.mapping = IF @ = NoNode THEN NoNode ELSE Dangling,
                  !.request = IF @ = NoNode THEN NoNode ELSE Dangling]

Copied(n) == [n EXCEPT !.arp_table = [ip \in IP |-> CopiedEntry(@[ip])]]

NoPointers(n) ==
    \A ip \in IP : n.arp_table[ip].mapping = NoNode /\ n.arp_table[ip].request = NoNode

AddInterface ==
    LET size == Len(interfaces)
        old == IF Reallocates(size) THEN [i \in 1..size |-> Copied(interfaces[i])] ELSE interfaces
    IN  /\ size < Len(InterfaceIP)
        /\ GrowAnytime \/ (arrived = 0 /\ \A i \in 1..size : NoPointers(interfaces[i]))
        /\ interfaces' = Append(old, NewInterface(InterfaceEth[size + 1], InterfaceIP[size + 1]))
        /\ datagrams_in' = Append(datagrams_in, <<>>)
        /\ UNCHANGED <<router_table, arrived, added>>

------------------------------------------------------------------------------
(* add_route *)

\* vector::resize: the routes of the interfaces beyond size are dropped.
Resized(table, size) == [i \in 1..size |-> IF i <= Len(table) THEN table[i] ELSE <<>>]

AddRoute(num, route) ==
    /\ Len(added) < MaxRoutes
    /\ AnyRouteOrder \/ num + 1 >= Len(router_table)
    /\ router_table' = [Resized(router_table, num + 1) EXCEPT ![num + 1] = Append(@, route)]
    /\ added' = Append(added, <<num, route>>)
    /\ UNCHANGED <<interfaces, datagrams_in, arrived>>

------------------------------------------------------------------------------
(* route *)

\* Comparing under the mask is comparing what is left of the other bits.
ipPrefixMatched(dst, prefix, length) ==
    \/ length = 0
    \/ dst \div 2^(Width - length) = prefix \div 2^(Width - length)

NoMatch == [interface |-> NoNode, length |-> 0, next_hop |-> NoHop]

\* A plausible slip: > for >=, with which a route of length 0 never matches.
MutantBetter(best, num, route, dst) ==
    IF ipPrefixMatched(dst, route.prefix, route.length) /\ route.length > best.length
    THEN [interface |-> num, length |-> route.length, next_hop |-> route.next_hop]
    ELSE best

Better(best, num, route, dst) ==
    IF ipPrefixMatched(dst, route.prefix, route.length) /\ route.length >= best.length
    THEN [interface |-> num, length |-> route.length, next_hop |-> route.next_hop]
    ELSE best

\* The inner loop: what is best after the routes of row num of the table.
Scan(table, num, best, dst) ==
    LET after[k \in 0..Len(table[num])] ==
            IF k = 0 THEN best ELSE Better(after[k - 1], num - 1, table[num][k], dst)
    IN  after[Len(table[num])]

\* The outer loop: what is best after all rows.
Lookup(table, dst) ==
    LET overall[num \in 0..Len(table)] ==
            IF num = 0 THEN NoMatch ELSE Scan(table, num, overall[num - 1], dst)
    IN  overall[Len(table)]

\* A plausible slip: a datagram with ttl 1 is still forwarded.
MutantTtlExpired(dgram) == dgram.ttl = 0

TtlExpired(dgram) == dgram.ttl \in {0, 1}

\* The ttl goes down; the checksum stays what it was.
Forward(ifs, dgram, match) ==
    LET hop == IF match.next_hop = NoHop THEN dgram.dst ELSE match.next_hop
        sent == [dgram EXCEPT !.ttl = @ - 1]
    IN  [ifs EXCEPT ![match.interface + 1] = send_datagram(@, sent, hop)]

\* One round of the loop over the interfaces: at most one datagram of
\* interface i is taken, and is forwarded or dropped.
RouteFrom(s, i) ==
    LET queue == s.datagrams_in[i]
        dgram == Head(queue)
        match == Lookup(router_table, dgram.dst)
    IN  IF queue = <<>> THEN s
        ELSE [datagrams_in |-> [s.datagrams_in EXCEPT ![i] = Tail(@)],
              interfaces |-> IF match = NoMatch \/ TtlExpired(dgram)
                             THEN s.interfaces ELSE Forward(s.interfaces, dgram, match)]

\* A plausible slip: break for continue at an interface that has no datagram.
MutantRouted(s) ==
    LET after[i \in 0..Len(s.interfaces)] ==
            IF i = 0 \/ \E j \in 1..i : s.datagrams_in[j] = <<>> THEN s
            ELSE RouteFrom(after[i - 1], i)
    IN  after[Len(s.interfaces)]

\* The loop over the interfaces.
Routed(s) ==
    LET after[i \in 0..Len(s.interfaces)] == IF i = 0 THEN s ELSE RouteFrom(after[i - 1], i)
    IN  after[Len(s.interfaces)]

Route ==
    LET s == Routed([interfaces |-> interfaces, datagrams_in |-> datagrams_in])
    IN  /\ interfaces' = s.interfaces
        /\ datagrams_in' = s.datagrams_in
        /\ UNCHANGED <<router_table, arrived, added>>

------------------------------------------------------------------------------
(* Frames and time.  AsyncNetworkInterface::recv_frame keeps what          *)
(* NetworkInterface::recv_frame returns.                                   *)

RecvFrame(i, frame) ==
    /\ interfaces' = [interfaces EXCEPT ![i + 1] = recv_frame(@, frame)]
    /\ datagrams_in' = [datagrams_in EXCEPT ![i + 1] = @ \o Received(interfaces[i + 1], frame)]
    /\ UNCHANGED <<router_table, added>>

\* A datagram from the network attached to interface i.
RecvDatagram(i) ==
    \E dst \in Destinations, ttl \in Ttls :
        /\ arrived < MaxDatagrams
        /\ arrived' = arrived + 1
        /\ RecvFrame(i, [dst |-> interfaces[i + 1].ethernet_address, src |-> HostEth[dst], type |-> "IPv4",
                         payload |-> [id |-> arrived + 1, dst |-> dst, ttl |-> ttl,
                                      ttl_in |-> ttl, cksum |-> ttl]])

\* A host of the network answers a request, late or unasked as it may be.
RecvARP(i) ==
    \E ip \in {h \in DOMAIN HostEth : Attached[h] = i} :
        /\ RecvFrame(i, [dst |-> interfaces[i + 1].ethernet_address, src |-> HostEth[ip],
                         type |-> "ARP",
                         payload |-> [opcode |-> "reply", sender_ip |-> ip, sender_eth |-> HostEth[ip],
                                      target_ip |-> interfaces[i + 1].ipv4,
                                      target_eth |-> interfaces[i + 1].ethernet_address]])
        /\ UNCHANGED arrived

Tick(i) ==
    /\ interfaces[i + 1].timestamp < MaxTime
    /\ interfaces' = [interfaces EXCEPT ![i + 1] = tick(@, 1)]
    /\ UNCHANGED <<datagrams_in, router_table, arrived, added>>

MaybeSend(i) ==
    /\ interfaces[i + 1].frames # <<>>
    /\ interfaces' = [interfaces EXCEPT ![i + 1] = maybe_send(@)]
    /\ UNCHANGED <<datagrams_in, router_table, arrived, added>>

------------------------------------------------------------------------------
\* Every pointer of every interface leads to a node of its own queues.
PointersOwned ==
    \A num \in Numbers, ip \in IP :
        /\ interfaces[num + 1].arp_table[ip].mapping # Dangling
        /\ interfaces[num + 1].arp_table[ip].request # Dangling

\* Reading through a dangling pointer has no defined outcome.
Next ==
    /\ PointersOwned
    /\ \/ AddInterface
       \/ \E num \in Numbers, route \in Routes : AddRoute(num, route)
       \/ Route
       \/ \E i \in Numbers : RecvDatagram(i) \/ RecvARP(i) \/ Tick(i) \/ MaybeSend(i)

Spec == Init /\ [][Next]_vars

\* A call of route would change nothing.
RouteIdle ==
    LET s == [interfaces |-> interfaces, datagrams_in |-> datagrams_in] IN Routed(s) = s

\* The owner of the router keeps calling route (tests/router.cc:221).  This is
\* WF_vars(Route) with its ENABLED written out, which TLC evaluates faster.
FairSpec == Spec /\ ([]<>RouteIdle \/ []<><<Route>>_vars)

------------------------------------------------------------------------------
Eth == {HostEth[h] : h \in DOMAIN HostEth}

MappingNode == [ipv4 : IP, eth_addr : Eth, timestamp : Nat]
RequestNode == [ipv4 : IP, timestamp : Nat]

\* Neither a null pointer nor one that dangles points at a node, and nullptr is
\* not the number of an interface.
ASSUME NullAssumption ==
    NoNode \notin MappingNode \union RequestNode \union Nat
    /\ Dangling \notin MappingNode \union RequestNode

Outgoing(n) ==
    {n.frames[i].payload : i \in {j \in DOMAIN n.frames : n.frames[j].type = "IPv4"}}
    \union UNION {ToSet(n.arp_table[ip].pending) : ip \in IP}

\* What the fields of the router hold.
TypeOK ==
    /\ Len(datagrams_in) = Len(interfaces)
    /\ Len(interfaces) <= Len(InterfaceIP)
    /\ router_table \in Seq(Seq(Routes)) /\ Len(router_table) <= Len(interfaces)
    /\ \A num \in Numbers :
           /\ interfaces[num + 1].ipv4 = InterfaceIP[num + 1]
           /\ \A d \in ToSet(datagrams_in[num + 1]) \union Outgoing(interfaces[num + 1]) :
                  d.id \in 1..arrived
    /\ arrived \in 0..MaxDatagrams

\* The router "chooses the outbound interface and next-hop as specified by
\* the route with the longest prefix_length that matches" (router.hh:97-99):
\* what the loops over the table find is a route that was added and matches,
\* none that matches is longer, and there is one whenever some route matches.
LongestPrefix ==
    \A dst \in Destinations :
        LET match == Lookup(router_table, dst)
            Matching == {x \in ToSet(added) : ipPrefixMatched(dst, x[2].prefix, x[2].length)}
        IN  /\ match = NoMatch <=> Matching = {}
            /\ match # NoMatch =>
                 /\ \E x \in Matching : x[1] = match.interface /\ x[2].length = match.length
                                        /\ x[2].next_hop = match.next_hop
                 /\ \A x \in Matching : x[2].length <= match.length

\* A datagram is never in two places: it leaves its input queue when it is
\* forwarded, to one interface.  What leaves has lost one hop of its ttl and
\* has one left, and leaves on an interface that has a route for it.
ForwardedOnce ==
    \A a, b \in Numbers :
        /\ \A d \in ToSet(datagrams_in[a + 1]), e \in Outgoing(interfaces[b + 1]) : d.id # e.id
        /\ \A d \in Outgoing(interfaces[a + 1]), e \in Outgoing(interfaces[b + 1]) :
               d.id = e.id => a = b /\ d = e
        /\ \A d \in Outgoing(interfaces[a + 1]) :
               /\ d.ttl = d.ttl_in - 1 /\ d.ttl > 0
               /\ \E x \in ToSet(added) :
                      x[1] = a /\ ipPrefixMatched(d.dst, x[2].prefix, x[2].length)

\* Every datagram that has arrived is taken from its input queue in the end,
\* whatever the other interfaces hold.
EventuallyRouted ==
    \A id \in 1..MaxDatagrams :
        (\E num \in Numbers : \E d \in ToSet(datagrams_in[num + 1]) : d.id = id)
        ~> (\A num \in Numbers : \A d \in ToSet(datagrams_in[num + 1]) : d.id # id)

------------------------------------------------------------------------------
\* router.hh:94-96: route uses maybe_receive "to consume every incoming
\* datagram".
ConsumesAll == [][Route => \A num \in Numbers : datagrams_in'[num + 1] = <<>>]_vars

\* router.hh:88: add_route will "Add a route (a forwarding rule)": no call
\* takes a route away.
RoutesKept ==
    \A x \in ToSet(added) : Len(router_table) > x[1] /\ x[2] \in ToSet(router_table[x[1] + 1])

=============================================================================
