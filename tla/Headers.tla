-------------------------------- MODULE Headers --------------------------------
(***************************************************************************)
(* The headers and messages that the interfaces put on the wire and read   *)
(* from it: IPv4Header, IPv4Datagram, EthernetHeader, EthernetFrame and    *)
(* ARPMessage (src/util).  A struct is a record of its fields, an Ethernet *)
(* address a sequence of six bytes.  Each parse operator takes the value   *)
(* of the object before, since fields that are not read keep it.           *)
(***************************************************************************)
EXTENDS InternetChecksum

Word == Word16

\* How the integers of a byte each are read or written.
ByteFields(bytes) == [i \in DOMAIN bytes |-> <<1, bytes[i]>>]

------------------------------------------------------------------------------
(* IPv4Header *)

LENGTH == 20
DEFAULT_TTL == ByteSize \div 2

NewIPv4Header ==
    [ver |-> 4, hlen |-> LENGTH \div 4, tos |-> 0, len |-> 0, id |-> 0, df |-> TRUE, mf |-> FALSE,
     offset |-> 0, ttl |-> DEFAULT_TTL, proto |-> 6, cksum |-> 0, src |-> 0, dst |-> 0]

\* The flags and the offset share a word, whose highest bit is not used.
DontFragment == Word \div 4
MoreFragments == Word \div 8

\* A plausible slip: the bit of "more fragments" is not written.
MutantFoVal(h) == (IF h.df THEN DontFragment ELSE 0) + (h.offset % MoreFragments)

FoVal(h) ==
    (IF h.df THEN DontFragment ELSE 0) + (IF h.mf THEN MoreFragments ELSE 0)
        + (h.offset % MoreFragments)

IPv4Fields(h) ==
    << <<1, h.ver * Nibble + h.hlen>>, <<1, h.tos>>, <<2, h.len>>, <<2, h.id>>, <<2, FoVal(h)>>,
       <<1, h.ttl>>, <<1, h.proto>>, <<2, h.cksum>>, <<4, h.src>>, <<4, h.dst>> >>

\* IPv4Header::serialize throws for any other version.
Serializable(h) == h.ver = 4

payload_length(h) == (h.len - 4 * h.hlen) % Word

compute_checksum(h) ==
    LET zeroed == [h EXCEPT !.cksum = 0]
    IN  [h EXCEPT !.cksum =
            value(add_all(NewChecksum, output(put_integers(NewSerializer, IPv4Fields(zeroed)))))]

\* The header that the values of the ten integers make.
FromValues(v) ==
    [ver |-> v[1] \div Nibble, hlen |-> v[1] % Nibble, tos |-> v[2], len |-> v[3], id |-> v[4],
     df |-> (v[5] \div DontFragment) % 2 = 1, mf |-> (v[5] \div MoreFragments) % 2 = 1,
     offset |-> v[5] % MoreFragments, ttl |-> v[6], proto |-> v[7], cksum |-> v[8],
     src |-> v[9], dst |-> v[10]]

Malformed(h) == h.ver # 4 \/ h.hlen < LENGTH \div 4

\* A plausible slip: the given checksum is saved when it is overwritten.
MutantWrongChecksum(given, computed) == computed.cksum # computed.cksum

WrongChecksum(given, computed) == given.cksum # computed.cksum

\* The length of the options, which is negative and so wraps around to more
\* than any list holds if hlen is below 5.
Options(h, l) == IF 4 * h.hlen < LENGTH THEN l.size ELSE 4 * h.hlen - LENGTH

\* What parse does when the integers have been read.  For a version other
\* than 4 compute_checksum throws; otherwise cksum holds the computed value,
\* whatever was given.
Compared(p, given, computed) ==
    [p |-> skip_bytes(set_error(p, Malformed(given) \/ WrongChecksum(given, computed)),
                      Options(given, p.input)),
     header |-> computed, thrown |-> ~Serializable(given)]

Checked(p, given) ==
    Compared(p, given, IF Serializable(given) THEN compute_checksum(given) ELSE given)

ParseIPv4Header(parser, h) ==
    LET Finish(r) == Checked(r.p, FromValues(r.values))
    IN  Finish(integers(parser,
            << <<1, 0>>, <<1, h.tos>>, <<2, h.len>>, <<2, h.id>>, <<2, 0>>, <<1, h.ttl>>,
               <<1, h.proto>>, <<2, h.cksum>>, <<4, h.src>>, <<4, h.dst>> >>))

------------------------------------------------------------------------------
(* IPv4Datagram *)

NewDatagram == [header |-> NewIPv4Header, payload |-> <<>>]

ParseDatagram(p, d) ==
    LET Finish(r) == [p |-> r.p, thrown |-> r.thrown,
                      body |-> [header |-> r.header, payload |-> all_remaining(r.p)]]
    IN  Finish(ParseIPv4Header(p, d.header))

SerializeDatagram(d) ==
    output(put_buffers(put_integers(NewSerializer, IPv4Fields(d.header)), d.payload))

------------------------------------------------------------------------------
(* EthernetHeader and EthernetFrame *)

TYPE_IPv4 == 2048
TYPE_ARP == 2054

NewEthernetHeader == [dst |-> <<0, 0, 0, 0, 0, 0>>, src |-> <<0, 0, 0, 0, 0, 0>>, type |-> 0]

EthernetFields(h) == ByteFields(h.dst) \o ByteFields(h.src) \o << <<2, h.type>> >>

ParseEthernetHeader(p, h) ==
    LET Finish(r) == [p |-> r.p, header |-> [dst |-> SubSeq(r.values, 1, 6),
                                             src |-> SubSeq(r.values, 7, 12),
                                             type |-> r.values[13]]]
    IN  Finish(integers(p, EthernetFields(h)))

NewFrame == [header |-> NewEthernetHeader, payload |-> <<>>]

ParseFrame(p, f) ==
    LET Finish(r) == [p |-> r.p, frame |-> [header |-> r.header, payload |-> all_remaining(r.p)]]
    IN  Finish(ParseEthernetHeader(p, f.header))

SerializeFrame(f) ==
    output(put_buffers(put_integers(NewSerializer, EthernetFields(f.header)), f.payload))

------------------------------------------------------------------------------
(* ARPMessage *)

OPCODE_REQUEST == 1
OPCODE_REPLY == 2

NewARPMessage ==
    [hardware_type |-> 1, protocol_type |-> TYPE_IPv4, hardware_address_size |-> 6,
     protocol_address_size |-> 4, opcode |-> 0,
     sender_ethernet_address |-> <<0, 0, 0, 0, 0, 0>>, sender_ip_address |-> 0,
     target_ethernet_address |-> <<0, 0, 0, 0, 0, 0>>, target_ip_address |-> 0]

supported(m) ==
    /\ m.hardware_type = 1 /\ m.protocol_type = TYPE_IPv4
    /\ m.hardware_address_size = 6 /\ m.protocol_address_size = 4
    /\ m.opcode \in {OPCODE_REQUEST, OPCODE_REPLY}

ARPKinds(m) ==
    << <<2, m.hardware_type>>, <<2, m.protocol_type>>, <<1, m.hardware_address_size>>,
       <<1, m.protocol_address_size>>, <<2, m.opcode>> >>

ARPAddresses(m) ==
    ByteFields(m.sender_ethernet_address) \o << <<4, m.sender_ip_address>> >>
        \o ByteFields(m.target_ethernet_address) \o << <<4, m.target_ip_address>> >>

WithKinds(m, v) ==
    [m EXCEPT !.hardware_type = v[1], !.protocol_type = v[2], !.hardware_address_size = v[3],
              !.protocol_address_size = v[4], !.opcode = v[5]]

WithAddresses(m, v) ==
    [m EXCEPT !.sender_ethernet_address = SubSeq(v, 1, 6), !.sender_ip_address = v[7],
              !.target_ethernet_address = SubSeq(v, 8, 13), !.target_ip_address = v[14]]

\* The addresses are read only if the message is of a supported kind.
ParseARPMessage(parser, m) ==
    LET Finish(read, r) == [p |-> r.p, body |-> WithAddresses(read, r.values), thrown |-> FALSE]
        Addresses(p, read) ==
            IF supported(read) THEN Finish(read, integers(p, ARPAddresses(m)))
            ELSE [p |-> set_error(p, TRUE), body |-> read, thrown |-> FALSE]
        Kinds(r) == Addresses(r.p, WithKinds(m, r.values))
    IN  Kinds(integers(parser, ARPKinds(m)))

\* ARPMessage::serialize, which throws for a message that is not supported.
SerializeARPMessage(m) == output(put_integers(NewSerializer, ARPKinds(m) \o ARPAddresses(m)))
==============================================================================
