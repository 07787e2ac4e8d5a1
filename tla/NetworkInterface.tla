--------------------------- MODULE NetworkInterface ---------------------------
(***************************************************************************)
(* One NetworkInterface under its owner (datagrams to send, the passing of *)
(* time, frames taken for transmission) and a network of hosts that answer *)
(* late, repeatedly, unasked or not at all, and may change their Ethernet  *)
(* addresses.                                                              *)
(***************************************************************************)
EXTENDS NetworkInterfaceOps, FiniteSets

CONSTANTS MyIP, MyEth,
          Hop,            \* the other hosts' addresses, used as next hops
          Eth,            \* Ethernet addresses of the other hosts
          Owner,          \* the host that an Ethernet address belongs to
          MaxDatagrams,   \* bound: calls of send_datagram
          MaxTime,        \* bound: milliseconds that pass
          Ticks,          \* arguments of tick
          MaxFrames       \* bound: frames awaiting transmission

ASSUME HostsAssumption ==
    /\ MyIP \in IP \ {0} /\ Hop \subseteq IP \ {MyIP, 0}
    /\ MyEth \notin Eth \union {ETHERNET_BROADCAST, NoEth}
    /\ ETHERNET_BROADCAST \notin Eth
    /\ Owner \in [Eth -> Hop]

ASSUME BoundsAssumption == MaxDatagrams \in Nat /\ Ticks \subseteq Nat

VARIABLES n,          \* the interface
          given,      \* datagrams handed to send_datagram so far
          released,   \* identities of the datagrams maybe_send has released
          asked       \* when the last request for an address was made

vars == <<n, given, released, asked>>
Bookkeeping == <<given, released, asked>>

Init ==
    /\ n = NewInterface(MyEth, MyIP)
    /\ given = 0
    /\ released = {}
    /\ asked = [ip \in Hop |-> NoNode]

IsRequestFor(frame, ip) ==
    frame.type = "ARP" /\ frame.payload.opcode = "request" /\ frame.payload.target_ip = ip

RequestCount(frames, ip) == Cardinality({i \in DOMAIN frames : IsRequestFor(frames[i], ip)})

SendDatagram(hop) ==
    /\ given < MaxDatagrams
    /\ Len(n.frames) < MaxFrames
    /\ given' = given + 1
    /\ n' = send_datagram(n, [id |-> given + 1, hop |-> hop, ttl |-> 1, cksum |-> 1], hop)
    /\ asked' = [ip \in Hop |-> IF RequestCount(n'.frames, ip) > RequestCount(n.frames, ip)
                                THEN n.timestamp ELSE asked[ip]]
    /\ UNCHANGED released

\* The messages a host sends about itself, to this interface or past it.
ARPFrames ==
    {[dst |-> dst, src |-> eth, type |-> "ARP",
      payload |-> [opcode |-> opcode, sender_ip |-> Owner[eth], sender_eth |-> eth,
                   target_ip |-> target, target_eth |-> NoEth]] :
        dst \in {MyEth, ETHERNET_BROADCAST, NoEth}, eth \in Eth,
        opcode \in {"request", "reply", "other"}, target \in {MyIP, 0}}

RecvARP(frame) ==
    /\ Len(n.frames) < MaxFrames
    /\ n' = recv_frame(n, frame)
    /\ UNCHANGED Bookkeeping

Tick(ms) ==
    /\ n.timestamp + ms <= MaxTime
    /\ n' = tick(n, ms)
    /\ UNCHANGED Bookkeeping

MaybeSend ==
    /\ n.frames # <<>>
    /\ n' = maybe_send(n)
    /\ released' = released \union
         (IF Head(n.frames).type = "IPv4" THEN {Head(n.frames).payload.id} ELSE {})
    /\ UNCHANGED <<given, asked>>

Next ==
    \/ \E hop \in Hop : SendDatagram(hop)
    \/ \E frame \in ARPFrames : RecvARP(frame)
    \/ \E ms \in Ticks : Tick(ms)
    \/ MaybeSend

Spec == Init /\ [][Next]_vars

------------------------------------------------------------------------------
MappingNode == [ipv4 : Hop, eth_addr : Eth, timestamp : Nat]
RequestNode == [ipv4 : Hop, timestamp : Nat]
Datagram(count) == [id : 1..count, hop : Hop, ttl : {1}, cksum : {1}]

Entry(count) == [mapping : MappingNode \union {NoNode}, request : RequestNode \union {NoNode},
                 pending : Seq(Datagram(count))]

DatagramFrame(count) == [dst : Eth, src : {MyEth}, type : {"IPv4"}, payload : Datagram(count)]

ARPFrame == [dst : Eth \union {ETHERNET_BROADCAST}, src : {MyEth}, type : {"ARP"},
             payload : [opcode : {"request", "reply"}, sender_eth : {MyEth}, sender_ip : {MyIP},
                        target_eth : Eth \union {NoEth}, target_ip : Hop]]

Interface(count) ==
    [ethernet_address : {MyEth}, ipv4 : {MyIP}, frames : Seq(DatagramFrame(count) \union ARPFrame),
     mappings : Seq(MappingNode), requests : Seq(RequestNode), arp_table : [IP -> Entry(count)],
     timestamp : Nat]

\* What the fields of the interface and the bookkeeping hold.
TypeOK ==
    /\ n \in Interface(given)
    /\ given \in 0..MaxDatagrams /\ released \subseteq 1..given
    /\ asked \in [Hop -> Nat \union {NoNode}]

\* A null pointer points at no node.
ASSUME NullAssumption == NoNode \notin MappingNode \union RequestNode

Sorted(queue) ==
    \A i, j \in DOMAIN queue : i <= j => queue[i].timestamp <= queue[j].timestamp

\* Whether the pointers of the table and the nodes of a queue are in step.
Matches(queue, pointer) ==
    /\ \A i, j \in DOMAIN queue : i # j => queue[i].ipv4 # queue[j].ipv4
    /\ \A ip \in IP : \/ pointer[ip] = NoNode /\ \A i \in DOMAIN queue : queue[i].ipv4 # ip
                      \/ \E i \in DOMAIN queue : queue[i] = pointer[ip] /\ queue[i].ipv4 = ip

\* An entry's raw pointer is set exactly while the node it points at is in
\* its queue, and no two nodes are for one address, so that expiry of a node
\* clears the pointer to it and to no other (network_interface.cc:109, 124).
PointersMatchNodes ==
    /\ Matches(n.mappings, [ip \in IP |-> n.arp_table[ip].mapping])
    /\ Matches(n.requests, [ip \in IP |-> n.arp_table[ip].request])

\* Looking at the front of the queues is enough: they are sorted by time, and
\* after every call no mapping of 30 s and no request of 5 s is left anywhere
\* in them (network_interface.cc:104-105, 119-120).
NothingOutlivesItsTime ==
    /\ Sorted(n.mappings) /\ Sorted(n.requests)
    /\ \A i \in DOMAIN n.mappings : n.timestamp < n.mappings[i].timestamp + ArpTableEntryTimeoutMs
    /\ \A i \in DOMAIN n.requests : n.timestamp < n.requests[i].timestamp + ArpRequestWaitingMs

FramesTo(hop) ==
    LET mine == {i \in DOMAIN n.frames : n.frames[i].type = "IPv4" /\ n.frames[i].payload.hop = hop}
    IN  {<<i, n.frames[i].payload.id>> : i \in mine}

\* The datagrams for one next hop leave in the order send_datagram was
\* called, those that waited for ARP included, and each leaves once.
InOrderOnce ==
    \A hop \in Hop :
        LET waiting == n.arp_table[hop].pending
        IN  /\ \A x, y \in FramesTo(hop) : x[1] < y[1] => x[2] < y[2]
            /\ \A x \in FramesTo(hop), i \in DOMAIN waiting : x[2] < waiting[i].id
            /\ \A i, j \in DOMAIN waiting : i < j => waiting[i].id < waiting[j].id
            /\ \A x \in FramesTo(hop) : x[2] \notin released
            /\ \A i \in DOMAIN waiting : waiting[i].id \notin released

\* A datagram is sent to an Ethernet address of its next hop.
SentToNextHop ==
    \A i \in DOMAIN n.frames :
        n.frames[i].type = "IPv4" =>
            n.frames[i].dst \in Eth /\ Owner[n.frames[i].dst] = n.frames[i].payload.hop

Ids(datagrams) == {datagrams[i].id : i \in DOMAIN datagrams}

Kept == released
        \union (UNION {Ids(n.arp_table[hop].pending) : hop \in Hop})
        \union {n.frames[i].payload.id : i \in {j \in DOMAIN n.frames : n.frames[j].type = "IPv4"}}

\* Once accepted, a datagram is never lost: neither the expiry of the request
\* nor that of the mapping discards it.
AcceptedIsKept == [][Kept \subseteq Kept']_vars

\* Requests for one address are at least 5 s apart, whatever is sent, learnt
\* and forgotten in between (network_interface.hh:95).
RequestsSpaced ==
    [][\A ip \in Hop : /\ asked[ip] # NoNode
                       /\ RequestCount(n'.frames, ip) > RequestCount(n.frames, ip)
                       => n.timestamp >= asked[ip] + ArpRequestWaitingMs]_vars

------------------------------------------------------------------------------
\* network_interface.hh:105: send_datagram "Sends an IPv4 datagram, ... Will
\* need to use ARP to look up the Ethernet destination address": every
\* datagram handed over is sent or waits for ARP.
NoneDropped == 1..given \subseteq Kept

\* network_interface.hh:114-115: on an ARP request or reply, "learn a mapping
\* from the 'sender' fields": the sender's Ethernet address is the one in use
\* afterwards.
LearnsSender ==
    [][\A frame \in ARPFrames :
          /\ RecvARP(frame)
          /\ ForMe(n, frame) /\ frame.payload.opcode # "other" /\ frame.payload.target_ip = MyIP
          => n'.arp_table[frame.payload.sender_ip].mapping.eth_addr = frame.src]_vars

=============================================================================
