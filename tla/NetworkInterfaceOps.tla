-------------------------- MODULE NetworkInterfaceOps --------------------------
(***************************************************************************)
(* The operations of NetworkInterface (src/network_interface.cc): IPv4     *)
(* datagrams in Ethernet frames, with next hops resolved by ARP.           *)
(*                                                                         *)
(* An interface is a record.  frames is eth_frames_to_be_sent_, mappings   *)
(* and requests are the two time queues, and arp_table has an entry for    *)
(* every address (operator[] creates the empty ones on demand).  A pointer *)
(* of an entry is modelled by the node it points at: nodes never change,   *)
(* and a deque keeps references valid over push_back and pop_front.        *)
(*                                                                         *)
(* A frame carries an ARP message or a datagram.  An Internet datagram is  *)
(* a record with at least ttl and cksum; ttl is the one field of its       *)
(* header that changes on the way, so the value the checksum was computed  *)
(* over is identified with the ttl it covers.                              *)
(***************************************************************************)
EXTENDS Naturals, Sequences

CONSTANTS IP,                       \* IPv4 addresses, 0 is one of them
          ETHERNET_BROADCAST,
          NoEth,                    \* the all-zero Ethernet address
          NoNode,                   \* nullptr
          ArpTableEntryTimeoutMs,   \* how long a mapping is kept
          ArpRequestWaitingMs       \* how long a request is not repeated

\* A mapping outlives the request it answers: 30'000 and 5'000 in the code.
ASSUME TimeoutsAssumption ==
    /\ ArpRequestWaitingMs \in Nat \ {0}
    /\ ArpTableEntryTimeoutMs \in Nat
    /\ ArpRequestWaitingMs <= ArpTableEntryTimeoutMs

ASSUME AddressAssumption == 0 \in IP

EmptyEntry == [mapping |-> NoNode, request |-> NoNode, pending |-> <<>>]

NewInterface(eth, ip) ==
    [ethernet_address |-> eth, ipv4 |-> ip, frames |-> <<>>, mappings |-> <<>>,
     requests |-> <<>>, arp_table |-> [i \in IP |-> EmptyEntry], timestamp |-> 0]

------------------------------------------------------------------------------
(* Headers and messages. *)

\* IPv4Header::compute_checksum, as far as forwarding can tell checksums apart.
Checksum(dgram) == dgram.ttl

\* IPv4Header::parse overwrites cksum by the value it computes; that the two
\* differ only sets an error that recv_frame does not look at.
ParseDatagram(dgram) == [dgram EXCEPT !.cksum = Checksum(dgram)]

\* ARPMessage::parse leaves the addresses zero when the opcode is unknown.
ParseARP(msg) ==
    IF msg.opcode \in {"request", "reply"}
    THEN msg
    ELSE [msg EXCEPT !.sender_ip = 0, !.sender_eth = NoEth, !.target_ip = 0, !.target_eth = NoEth]

IPv4Frame(n, dst, dgram) ==
    [dst |-> dst, src |-> n.ethernet_address, type |-> "IPv4", payload |-> dgram]

RequestFrame(n, ip) ==
    [dst |-> ETHERNET_BROADCAST, src |-> n.ethernet_address, type |-> "ARP",
     payload |-> [opcode |-> "request", sender_eth |-> n.ethernet_address,
                  sender_ip |-> n.ipv4, target_eth |-> NoEth, target_ip |-> ip]]

ReplyFrame(n, msg) ==
    [dst |-> msg.sender_eth, src |-> n.ethernet_address, type |-> "ARP",
     payload |-> [opcode |-> "reply", sender_eth |-> n.ethernet_address, sender_ip |-> n.ipv4,
                  target_eth |-> msg.sender_eth, target_ip |-> msg.sender_ip]]

------------------------------------------------------------------------------
(* send_datagram *)

\* A plausible slip: the request is sent again for every datagram.
MutantMayAsk(entry) == TRUE

MayAsk(entry) == entry.request = NoNode

\* The request goes out and the datagram waits for the answer.
Ask(n, dgram, next_hop) ==
    LET node == [ipv4 |-> next_hop, timestamp |-> n.timestamp]
    IN  [n EXCEPT !.frames = Append(@, RequestFrame(n, next_hop)),
                  !.requests = Append(@, node),
                  !.arp_table[next_hop].request = node,
                  !.arp_table[next_hop].pending = Append(@, dgram)]

\* With a request on its way and no answer yet, the datagram goes nowhere.
send_datagram(n, dgram, next_hop) ==
    LET entry == n.arp_table[next_hop]
    IN  IF entry.mapping # NoNode
        THEN [n EXCEPT !.frames = Append(@, IPv4Frame(n, entry.mapping.eth_addr, dgram))]
        ELSE IF MayAsk(entry) THEN Ask(n, dgram, next_hop) ELSE n

------------------------------------------------------------------------------
(* recv_frame *)

\* A plausible slip: the waiting datagrams are sent but not taken off the
\* queue.
MutantLearn(n, ip, eth) ==
    LET node == [ipv4 |-> ip, eth_addr |-> eth, timestamp |-> n.timestamp]
        pending == n.arp_table[ip].pending
    IN  [n EXCEPT !.mappings = Append(@, node),
                  !.arp_table[ip].mapping = node,
                  !.frames = @ \o [i \in 1..Len(pending) |-> IPv4Frame(n, eth, pending[i])]]

\* The mapping is remembered and everything that waited for it is sent.
Learn(n, ip, eth) ==
    LET node == [ipv4 |-> ip, eth_addr |-> eth, timestamp |-> n.timestamp]
        pending == n.arp_table[ip].pending
    IN  [n EXCEPT !.mappings = Append(@, node),
                  !.arp_table[ip].mapping = node,
                  !.arp_table[ip].pending = <<>>,
                  !.frames = @ \o [i \in 1..Len(pending) |-> IPv4Frame(n, eth, pending[i])]]

\* A plausible slip: every message adds a node, known address or not.
MutantUnknown(entry) == TRUE

Unknown(entry) == entry.mapping = NoNode

\* A plausible slip: the other Ethernet address of the message is learnt.
MutantSenderEth(msg) == msg.target_eth

SenderEth(msg) == msg.sender_eth

\* A mapping that is known is neither replaced nor given more time.
TakeARP(n, msg) ==
    LET learnt == IF Unknown(n.arp_table[msg.sender_ip])
                  THEN Learn(n, msg.sender_ip, SenderEth(msg)) ELSE n
    IN  IF msg.target_ip # n.ipv4 THEN n
        ELSE IF msg.opcode = "request"
             THEN [learnt EXCEPT !.frames = Append(@, ReplyFrame(n, msg))]
             ELSE learnt

ForMe(n, frame) == frame.dst \in {n.ethernet_address, ETHERNET_BROADCAST}

\* A type other than the two throws, before anything has changed.
recv_frame(n, frame) ==
    IF ForMe(n, frame) /\ frame.type = "ARP" THEN TakeARP(n, ParseARP(frame.payload)) ELSE n

\* The datagrams recv_frame returns: one or none.
Received(n, frame) ==
    IF ForMe(n, frame) /\ frame.type = "IPv4" THEN <<ParseDatagram(frame.payload)>> ELSE <<>>

------------------------------------------------------------------------------
(* tick and maybe_send *)

\* A plausible slip: <= for < keeps a node one millisecond longer.
MutantExpired(node, now, wait) == now > node.timestamp + wait

Expired(node, now, wait) == now >= node.timestamp + wait

\* How many nodes the loop takes off the front of a queue.
ExpiredCount(queue, now, wait) ==
    CHOOSE k \in 0..Len(queue) :
        /\ \A i \in 1..k : Expired(queue[i], now, wait)
        /\ k < Len(queue) => ~Expired(queue[k + 1], now, wait)

Addresses(queue, k) == {queue[i].ipv4 : i \in 1..k}

\* A plausible slip: what waits for the answer is thrown away with the request.
MutantForget(entry, ip, unmapped, unasked) ==
    [mapping |-> IF ip \in unmapped THEN NoNode ELSE entry.mapping,
     request |-> IF ip \in unasked THEN NoNode ELSE entry.request,
     pending |-> IF ip \in unasked THEN <<>> ELSE entry.pending]

Forget(entry, ip, unmapped, unasked) ==
    [entry EXCEPT !.mapping = IF ip \in unmapped THEN NoNode ELSE @,
                  !.request = IF ip \in unasked THEN NoNode ELSE @]

tick(n, ms) ==
    LET now == n.timestamp + ms
        m == ExpiredCount(n.mappings, now, ArpTableEntryTimeoutMs)
        q == ExpiredCount(n.requests, now, ArpRequestWaitingMs)
        unmapped == Addresses(n.mappings, m)
        unasked == Addresses(n.requests, q)
    IN  [n EXCEPT !.timestamp = now,
                  !.mappings = SubSeq(@, m + 1, Len(@)),
                  !.requests = SubSeq(@, q + 1, Len(@)),
                  !.arp_table = [ip \in IP |-> Forget(@[ip], ip, unmapped, unasked)]]

maybe_send(n) == [n EXCEPT !.frames = Tail(@)]

=============================================================================
