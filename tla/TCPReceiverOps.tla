---------------------------- MODULE TCPReceiverOps ----------------------------
(***************************************************************************)
(* TCPReceiver (src/src/tcp_receiver.hh, tcp_receiver.cc), as operators on *)
(* a record of its private members.  A TCPSenderMessage is a record with   *)
(* fields seqno (a raw Wrap32 value), SYN, payload and FIN.                *)
(***************************************************************************)
EXTENDS ReassemblerOps, WrappingIntegers

CONSTANTS None,        \* std::nullopt
          MaxWindow    \* UINT16_MAX

NewReceiver ==
    [isn |-> None, first_unassembled |-> 0, meet_FIN |-> FALSE,
     is_finished |-> FALSE]

\* The argument of insert at line 19; a message that carries the SYN counts
\* from the sequence number behind it (line 11).  Unsigned: 0 - 1 wraps.
StreamIndex(message, isn, checkpoint) ==
    LET seqno == IF message.SYN THEN Plus(message.seqno, 1) ELSE message.seqno
    IN  (unwrap(seqno, isn, checkpoint) - 1) % Wide

\* A plausible slip: the FIN alone finishes, whether or not there is a gap.
MutantFinishes(v, inbound) == v.meet_FIN

\* Line 22.
Finishes(v, inbound) == v.is_finished \/ (v.meet_FIN /\ inbound.closed)

\* A plausible slip: the index is read before the insert.
MutantNextNeeded(before, after) == before.first_unassembled

\* Line 26: the copy of the Reassembler's index that send reports.
NextNeeded(before, after) == after.first_unassembled

\* TCPReceiver::receive: receiver, reassembler and stream afterwards.
receive(v, r, inbound, message) ==
    LET isn == IF message.SYN THEN message.seqno ELSE v.isn
    IN  IF isn = None THEN [v |-> v, r |-> r, inbound |-> inbound]
        ELSE LET met == [v EXCEPT !.isn = isn, !.meet_FIN = @ \/ message.FIN]
                 res == insert(r, inbound,
                               StreamIndex(message, isn, r.first_unassembled),
                               message.payload, message.FIN)
             IN  [v |-> [met EXCEPT !.is_finished = Finishes(met, res.output),
                                    !.first_unassembled = NextNeeded(r, res.r)],
                  r |-> res.r,
                  inbound |-> res.output]

\* The absolute acknowledgment number that send wraps at line 34.
AckPosition(v) == v.first_unassembled + 1 + (IF v.is_finished THEN 1 ELSE 0)

\* Line 38.
Window(inbound) == Smaller(available_capacity(inbound), MaxWindow)

\* TCPReceiver::send
send(v, inbound) ==
    [ackno |-> IF v.isn = None THEN None ELSE wrap(AckPosition(v), v.isn),
     window_size |-> Window(inbound)]
==============================================================================
