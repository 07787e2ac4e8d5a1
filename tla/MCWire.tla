-------------------------------- MODULE MCWire --------------------------------
(***************************************************************************)
(* A model of Wire for TLC, with bytes of six bits: datagrams with one,    *)
(* three and no buffers of payload, one of the three empty, with fields at *)
(* both ends of their ranges, and both kinds of ARP messages.              *)
(***************************************************************************)
EXTENDS Wire

MCLink == [dst |-> <<1, 2, 3, 4, 5, 6>>, src |-> <<7, 8, 9, 10, 11, 63>>]

Plain(payload) ==
    [header |-> [NewIPv4Header EXCEPT !.src = 5, !.dst = 2^23 + 65, !.ttl = 3,
                                      !.len = LENGTH + Total(payload)],
     payload |-> payload]

MCDatagrams ==
    {Plain(<< <<1, 62>> >>), Plain(<< <<>>, <<7>>, <<63>> >>),
     [header |-> [NewIPv4Header EXCEPT !.tos = 63, !.len = LENGTH, !.id = Word - 1, !.df = FALSE,
                                       !.mf = TRUE, !.offset = MoreFragments - 1, !.ttl = 2,
                                       !.src = 2^24 - 1],
      payload |-> <<>>]}

MCMessages ==
    {[NewARPMessage EXCEPT !.opcode = opcode, !.sender_ethernet_address = MCLink.src,
                           !.sender_ip_address = 2^24 - 2, !.target_ip_address = 77,
                           !.target_ethernet_address[1] = opcode - 1] :
        opcode \in {OPCODE_REQUEST, OPCODE_REPLY}}

==============================================================================
