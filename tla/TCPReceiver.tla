------------------------------ MODULE TCPReceiver ------------------------------
(***************************************************************************)
(* A TCPReceiver with its Reassembler and inbound ByteStream, fed with the *)
(* segments of one connection: cut in any way, reordered, repeated or      *)
(* lost.  The Reassembler is that of module Reassembler; what it is fed is *)
(* here what receive makes of a segment.                                   *)
(***************************************************************************)
EXTENDS Reassembler, TCPReceiverOps

CONSTANT Isn   \* the peer's initial sequence number, a raw value

\* An initial sequence number is one of the word; acknowledgments run two
\* numbers ahead of the stream.
ASSUME ReceiverAssumption ==
    /\ MaxWindow \in Nat
    /\ HalfWord \in Nat /\ HalfWord > 2
    /\ Isn \in 0..Word - 1 /\ None # Isn

VARIABLE receiver

receiverVars == <<receiver, reassembler, inbound>>

ReceiverInit == Init /\ receiver = NewReceiver

\* The segment whose first sequence number is the absolute one given: 0 is
\* the SYN, p is byte p - 1 of the stream, StreamLen + 1 is the FIN.
Segment(position, len, fin) ==
    LET first == IF position = 0 THEN 0 ELSE position - 1
    IN  [seqno |-> wrap(position, Isn), SYN |-> position = 0,
         payload |-> [i \in 1..len |-> first + i - 1], FIN |-> fin]

\* A segment the network may still deliver: an old one is less than half a
\* word behind what the receiver waits for, as TCP has to assume.
Plausible(position, len, fin) ==
    LET first == IF position = 0 THEN 0 ELSE position - 1
    IN  /\ first + len <= StreamLen
        /\ fin => first + len = StreamLen
        /\ position + HalfWord > reassembler.first_unassembled
        /\ position < reassembler.first_unassembled + HalfWord

Receive(message) ==
    LET res == receive(receiver, reassembler, inbound, message)
    IN  /\ receiver' = res.v
        /\ reassembler' = res.r
        /\ inbound' = res.inbound

\* An empty message before the SYN has the sequence number of the SYN
\* (TCPSender::send_empty_message).
ReceiveEmptyFirst ==
    /\ reassembler.first_unassembled < HalfWord
    /\ Receive([seqno |-> Isn, SYN |-> FALSE, payload |-> <<>>, FIN |-> FALSE])

ReceiveSegment ==
    \E position \in 0..StreamLen + 1, len \in 0..MaxSegment, fin \in BOOLEAN :
        /\ Plausible(position, len, fin)
        /\ Receive(Segment(position, len, fin))

ReadInbound(len) == Read(len) /\ UNCHANGED receiver

ReceiverNext ==
    \/ ReceiveEmptyFirst
    \/ ReceiveSegment
    \/ \E len \in 1..Capacity : ReadInbound(len)

ReceiverSpec == ReceiverInit /\ [][ReceiverNext]_receiverVars

------------------------------------------------------------------------------
\* What the fields of the receiver and its stream hold.
ReceiverTypeOK ==
    /\ receiver.isn \in {None} \union (0..Word - 1)
    /\ receiver.first_unassembled \in 0..StreamLen
    /\ receiver.meet_FIN \in BOOLEAN /\ receiver.is_finished \in BOOLEAN
    /\ inbound.queue \in Seq(0..StreamLen - 1)

\* What send reports, read back by a peer that knows it within half a word,
\* is one beyond the bytes written, two once the stream is closed: the copy
\* kept in the receiver is never stale and the wrapping is undone.  And what
\* it acknowledges is the sender's: after the numbers have wrapped, every byte
\* is still at the place in the stream where the sender had it.
AckMatchesStream ==
    /\ receiver.isn # None =>
        unwrap(send(receiver, inbound).ackno, Isn, inbound.bytes_pushed)
          = inbound.bytes_pushed + 1 + (IF inbound.closed THEN 1 ELSE 0)
    /\ \A i \in 1..Len(inbound.queue) : inbound.queue[i] = inbound.bytes_popped + i - 1

\* The right edge of the window, first byte wanted plus window size, never
\* moves back, and the acknowledgment number never decreases.
WindowNeverShrinks ==
    [][/\ AckPosition(receiver) <= AckPosition(receiver)'
       /\ receiver.first_unassembled + Window(inbound)
            <= receiver.first_unassembled' + Window(inbound)']_receiverVars
==============================================================================
