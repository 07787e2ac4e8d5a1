--------------------------------- MODULE Wire ---------------------------------
(***************************************************************************)
(* An Internet datagram or an ARP message on its way through the network:  *)
(* serialized into the payload of an Ethernet frame, handed over as it is  *)
(* or serialized again and carried as bytes that arrive in other pieces    *)
(* than they left in, or damaged, or cut off, parsed, and, if it is a      *)
(* datagram, forwarded as Router::route does, with its ttl lowered.  The   *)
(* receiver is NetworkInterface::recv_frame, which looks at the object     *)
(* that parse leaves and not at what it returns.                           *)
(***************************************************************************)
EXTENDS Headers, FiniteSets

CONSTANTS Datagrams,      \* datagrams that are sent, checksums not yet computed
          Messages,       \* ARP messages that are sent
          Link,           \* the header of every frame but its type: [dst, src]
          MaxHops,        \* bound: hops of a datagram
          DamageBytes     \* what a byte may be replaced by

VARIABLES sent,       \* what the first node sent: [type, body]
          held,       \* what the node at hand holds, or Nothing
          frame,      \* the EthernetFrame on its way, or Nothing
          wire,       \* its bytes while a driver carries them, or Nothing
          fault,      \* "none", "damaged" or "truncated"
          outcome,    \* what the last parse came to: "fresh", "accepted", "rejected", "thrown"
          undefined,  \* whether a parser has read from an empty view
          hops,       \* how often the object has been sent
          carried     \* whether a driver has carried it, which happens once

vars == <<sent, held, frame, wire, fault, outcome, undefined, hops, carried>>

Nothing == <<>>

TypeOf(body) == IF "header" \in DOMAIN body THEN TYPE_IPv4 ELSE TYPE_ARP

\* The sender of a datagram computes its checksum; the constructors of ARPMessage
\* set its kind.
Ready(d) == [d EXCEPT !.header = compute_checksum(@)]

Init ==
    /\ sent \in {Ready(d) : d \in Datagrams} \union Messages
    /\ held = sent
    /\ frame = Nothing
    /\ wire = Nothing
    /\ fault = "none"
    /\ outcome = "fresh"
    /\ undefined = FALSE
    /\ hops = 0
    /\ carried = FALSE

------------------------------------------------------------------------------
\* Router::route: a datagram that was received goes on with a lower ttl and
\* the checksum that parse has left in it.
Lowered(body) == [body EXCEPT !.header.ttl = @ - 1]

Payload(body) ==
    IF TypeOf(body) = TYPE_IPv4 THEN SerializeDatagram(body) ELSE SerializeARPMessage(body)

Put(body) ==
    /\ frame' = [header |-> [dst |-> Link.dst, src |-> Link.src, type |-> TypeOf(body)],
                 payload |-> Payload(body)]
    /\ held' = Nothing
    /\ hops' = hops + 1
    /\ UNCHANGED <<sent, wire, fault, outcome, undefined, carried>>

SendFirst == held # Nothing /\ outcome = "fresh" /\ Put(held)

\* What parse has found wrong does not keep a datagram from being forwarded.
Forward ==
    /\ held # Nothing /\ outcome \in {"accepted", "rejected"}
    /\ TypeOf(held) = TYPE_IPv4 /\ held.header.ttl > 1
    /\ hops < MaxHops
    /\ Put(Lowered(held))

------------------------------------------------------------------------------
(* A driver (not part of the repository) *)

\* The ways to cut bytes into at most three pieces, none of them empty.
Pieces(bytes) ==
    {LET ends == SetToSortSeq({i, j, Len(bytes)}, <)
     IN  [k \in DOMAIN ends |-> SubSeq(bytes, IF k = 1 THEN 1 ELSE ends[k - 1] + 1, ends[k])] :
        i, j \in 1..Len(bytes)}

Transmit ==
    /\ frame # Nothing /\ ~carried
    /\ carried' = TRUE
    /\ wire' \in Pieces(FlattenSeq(SerializeFrame(frame)))
    /\ frame' = Nothing
    /\ UNCHANGED <<sent, held, fault, outcome, undefined, hops>>

\* A byte of the IPv4 header is replaced by another.
Damage ==
    /\ wire # Nothing /\ fault = "none" /\ Len(wire) = 1 /\ TypeOf(sent) = TYPE_IPv4
    /\ \E i \in 15..14 + LENGTH, b \in DamageBytes :
          /\ wire[1][i] # b
          /\ wire' = [wire EXCEPT ![1][i] = b]
    /\ fault' = "damaged"
    /\ UNCHANGED <<sent, held, frame, outcome, undefined, hops, carried>>

\* Only the first k bytes arrive, in one piece.
Truncate ==
    /\ wire # Nothing /\ fault = "none" /\ Len(wire) = 1
    /\ \E k \in 0..Len(wire[1]) - 1 : wire' = <<SubSeq(wire[1], 1, k)>>
    /\ fault' = "truncated"
    /\ UNCHANGED <<sent, held, frame, outcome, undefined, hops, carried>>

\* The bytes are parsed as a frame, which is passed on unless that fails.
Arrive ==
    /\ wire # Nothing
    /\ wire' = Nothing
    /\ \E r \in {ParseFrame(NewParser(wire), NewFrame)} :
          /\ frame' = IF r.p.error THEN Nothing ELSE r.frame
          /\ undefined' = (undefined \/ r.p.undefined)
    /\ UNCHANGED <<sent, held, fault, outcome, hops, carried>>

------------------------------------------------------------------------------
\* The part of recv_frame that reads the payload.
Parsed(parser, type) ==
    IF type = TYPE_IPv4 THEN ParseDatagram(parser, NewDatagram)
    ELSE ParseARPMessage(parser, NewARPMessage)

Receive ==
    /\ frame # Nothing
    /\ frame' = Nothing
    /\ \E r \in {Parsed(NewParser(frame.payload), frame.header.type)} :
          /\ held' = r.body
          /\ outcome' = IF r.thrown THEN "thrown" ELSE IF r.p.error THEN "rejected" ELSE "accepted"
          /\ undefined' = (undefined \/ r.p.undefined)
    /\ UNCHANGED <<sent, wire, fault, hops, carried>>

Next == SendFirst \/ Forward \/ Transmit \/ Damage \/ Truncate \/ Arrive \/ Receive

Spec == Init /\ [][Next]_vars

------------------------------------------------------------------------------
Arrived == held # Nothing /\ outcome # "fresh"

\* The header that was sent, as it is after some hops.
Travelled(header, k) == compute_checksum([header EXCEPT !.ttl = @ - k])

\* RFC 1071: the words of the header, its checksum among them, add up to zero
\* in one's complement.
Verifies(h) ==
    LET bytes == FlattenSeq([i \in DOMAIN IPv4Fields(h) |->
                                 Bytes(IPv4Fields(h)[i][2], IPv4Fields(h)[i][1])])
    IN  FoldLeft(LAMBDA n, i : n + Number(SubSeq(bytes, 2 * i - 1, 2 * i)), 0,
                 [i \in 1..LENGTH \div 2 |-> i]) % (Word - 1) = 0

\* Whatever buffers it goes through, a datagram or message that meets no
\* fault arrives with every field and every byte it left with, except that a
\* datagram has lost a hop of its ttl for each router, and has the checksum
\* that RFC 1071 asks for.  parse accepts it if no router has touched it, and finds
\* the checksum wrong if one has (router.cc:70, network_interface.cc:59).
Transparent ==
    /\ frame # Nothing =>
          frame.header = [dst |-> Link.dst, src |-> Link.src, type |-> TypeOf(sent)]
    /\ Arrived /\ fault = "none" =>
          /\ TypeOf(held) = TypeOf(sent)
          /\ IF TypeOf(sent) = TYPE_IPv4
             THEN /\ held.header = Travelled(sent.header, hops - 1)
                  /\ Verifies(held.header)
                  /\ FlattenSeq(held.payload) = FlattenSeq(sent.payload)
                  /\ payload_length(held.header) = Total(held.payload)
                  /\ outcome = IF hops = 1 THEN "accepted" ELSE "rejected"
             ELSE held = sent /\ outcome = "accepted"

\* Before a router has made the checksum wrong, one wrong byte in the IPv4
\* header makes parse fail, or throw, or else is the bit of the flags that
\* nobody reads; and so does a header that is cut off.  An ARP message that is
\* cut off is never accepted (ipv4_header.cc:34-47, arp_message.cc:42).
DamageNoticed ==
    /\ Arrived /\ outcome = "accepted" /\ fault # "none" => TypeOf(sent) = TYPE_IPv4
    /\ Arrived /\ outcome = "accepted" /\ hops = 1 /\ TypeOf(sent) = TYPE_IPv4 =>
          held.header = sent.header

\* No parser ever reads the front of an empty view: check_size counts the
\* bytes of all buffers, and every buffer but an empty one in front has been
\* taken off by then (parser.hh:115, 141).
NeverReadsEmpty == ~undefined

------------------------------------------------------------------------------
\* parser.hh:236: parse tells by its result whether the object could be
\* parsed: it does not throw.
NeverThrows == outcome # "thrown"

\* network_interface.cc:59 takes what parse leaves for a datagram: whatever
\* arrives complete enough to be accepted has the length its header states.
LengthHolds ==
    Arrived /\ outcome = "accepted" /\ TypeOf(sent) = TYPE_IPv4 =>
        payload_length(held.header) = Total(held.payload)

==============================================================================
