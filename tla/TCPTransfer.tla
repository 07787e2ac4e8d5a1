------------------------------ MODULE TCPTransfer ------------------------------
(***************************************************************************)
(* One direction of a connection: a TCPSender and the stream it reads, a   *)
(* TCPReceiver with its Reassembler and the stream it writes, and a        *)
(* network between them that reorders freely and, MaxFaults times, loses   *)
(* or repeats a message.  A byte is represented by its index in the        *)
(* stream.                                                                 *)
(*                                                                         *)
(* The owners of the two ends are not part of the repository.  They are    *)
(* modelled after its tests: an acknowledgment is followed by a push, the  *)
(* queue is emptied with maybe_send before the next call, and the receiver *)
(* answers each segment with what send returns.                            *)
(***************************************************************************)
EXTENDS TCPReceiver

CONSTANTS InitialRTO,
          MaxFaults,    \* bound on lost and repeated messages
          MaxRetx,      \* bound on retransmissions while messages are under way
          FinInOrder,   \* whether the network keeps a FIN from overtaking data
          FinFits       \* whether it keeps a FIN back until there is room for
                        \* the bytes in front of it

\* The segments are those of the sender.
Sender == INSTANCE TCPSenderOps WITH MAX_PAYLOAD_SIZE <- MaxSegment

VARIABLES sender, outbound,
          segments,     \* TCPSenderMessages under way
          acks,         \* TCPReceiverMessages under way
          faults        \* messages lost or repeated so far

senderVars == <<sender, outbound>>
connectionVars == <<senderVars, receiverVars, segments, acks, faults>>

ConnectionInit ==
    /\ sender = Sender!NewSender(Isn)
    /\ outbound = push(NewStream(StreamLen), Substring(0, StreamLen))
    /\ ReceiverInit
    /\ segments = {} /\ acks = {} /\ faults = 0

Drained == sender.unsent_msgs = <<>>

\* The application ends the outbound stream; the owner pushes.
CloseDue == Drained /\ ~sender.has_not_sent_SYN /\ ~outbound.closed

Close ==
    /\ CloseDue
    /\ LET res == Sender!push_stream(sender, close(outbound))
       IN  sender' = res.s /\ outbound' = res.outbound
    /\ UNCHANGED <<receiverVars, segments, acks, faults>>

MaybeSend ==
    LET res == Sender!maybe_send(sender)
    IN  /\ res.msg # None
        /\ sender' = res.s
        /\ segments' = segments \union {res.msg}
        /\ UNCHANGED <<outbound, receiverVars, acks, faults>>

\* The FIN waits until the bytes before its message have been assembled, and
\* until those of its message have room.
MayArrive(msg) ==
    LET fu    == reassembler.first_unassembled
        start == unwrap(msg.seqno, Isn, fu)
    IN  /\ FinInOrder /\ msg.FIN => start <= fu + 1
        /\ FinFits /\ msg.FIN =>
             start + Sender!sequence_length(msg) <= inbound.bytes_popped + Capacity + 2

\* Time passes until the retransmission timer expires.
TimeoutDue ==
    /\ Drained /\ sender.timer.is_on
    /\ \/ sender.consecutive_retransmissions < MaxRetx
       \/ acks = {} /\ \A msg \in segments : ~MayArrive(msg)

Timeout ==
    /\ TimeoutDue
    /\ sender' = Sender!tick(sender, sender.timer.timeout)
    /\ UNCHANGED <<outbound, receiverVars, segments, acks, faults>>

Arrive(msg) ==
    /\ Receive(msg)
    /\ acks' = acks \union {send(receiver', inbound')}
    /\ UNCHANGED senderVars

DeliverSegment(msg) ==
    /\ msg \in segments /\ MayArrive(msg)
    /\ Arrive(msg)
    /\ segments' = segments \ {msg}
    /\ UNCHANGED faults

TakeAck(ack) ==
    LET res == Sender!push_stream(Sender!receive(sender, ack), outbound)
    IN  /\ Drained
        /\ sender' = res.s
        /\ outbound' = res.outbound
        /\ UNCHANGED <<receiverVars, segments>>

DeliverAck(ack) ==
    /\ ack \in acks
    /\ TakeAck(ack)
    /\ acks' = acks \ {ack}
    /\ UNCHANGED faults

\* A message is lost, or arrives and stays under way to arrive again.
Fault ==
    /\ faults < MaxFaults
    /\ faults' = faults + 1
    /\ \/ \E msg \in segments :
            /\ segments' = segments \ {msg}
            /\ UNCHANGED <<senderVars, receiverVars, acks>>
       \/ \E ack \in acks :
            /\ acks' = acks \ {ack}
            /\ UNCHANGED <<senderVars, receiverVars, segments>>
       \/ \E msg \in segments : MayArrive(msg) /\ Arrive(msg) /\ UNCHANGED segments
       \/ \E ack \in acks : TakeAck(ack) /\ UNCHANGED acks

ReadAll ==
    /\ inbound.queue # <<>>
    /\ ReadInbound(Capacity)
    /\ UNCHANGED <<senderVars, segments, acks, faults>>

ConnectionNext ==
    \/ Close \/ MaybeSend \/ Timeout \/ Fault \/ ReadAll
    \/ \E msg \in segments : DeliverSegment(msg)
    \/ \E ack \in acks : DeliverAck(ack)

ConnectionSpec == ConnectionInit /\ [][ConnectionNext]_connectionVars

\* The owners call maybe_send and tick again and again, the application reads
\* and closes, and the network goes on delivering segments and acknowledgments,
\* in whatever order.  Acknowledgments may have to wait for the queue to be
\* emptied, hence strong fairness for them.  The last three conditions are
\* weak and strong fairness with the condition that enables the action
\* written out.
Fairness ==
    /\ WF_connectionVars(ReadAll) /\ WF_connectionVars(MaybeSend) /\ WF_connectionVars(Timeout)
    /\ []<>(~CloseDue) \/ []<><<Close>>_connectionVars
    /\ []<>(~\E msg \in segments : MayArrive(msg))
         \/ []<><<\E msg \in segments : DeliverSegment(msg)>>_connectionVars
    /\ <>[](~(Drained /\ acks # {}))
         \/ []<><<\E ack \in acks : DeliverAck(ack)>>_connectionVars

FairSpec == ConnectionSpec /\ Fairness

------------------------------------------------------------------------------
Reliable ==
    INSTANCE TransferSpec WITH
        closed <- outbound.closed, queue <- inbound.queue,
        read <- inbound.bytes_popped, finished <- inbound.closed

\* Sender, network and receiver together are a reliable byte stream: the
\* segments, acknowledgments, windows, retransmissions and reassembly between
\* the two ByteStreams show the applications nothing but TransferSpec.
ImplementsTransfer == Reliable!Spec

\* The part of it that no step may break: nothing but the bytes that were
\* written, in order, then the end.
SafeTransfer == Reliable!SafeSpec

\* The first sequence number the sender still holds a message for.
OldestKept ==
    sender.next_seqno - Sender!sequence_numbers_in_flight(sender)

\* The sender forgets a sequence number only after the receiver has taken it:
\* no byte is dropped at one end before it is safe at the other.
AckedIsDelivered ==
    OldestKept <= (IF receiver.isn = None THEN 0 ELSE reassembler.first_unassembled + 1)
                    + (IF reassembler.first_unassembled = StreamLen
                          /\ receiver.is_finished THEN 1 ELSE 0)

\* The stream reaches its end on the reader's side, complete, and the sender
\* learns of it: nothing is outstanding and the timer is off for good.
Finished ==
    /\ is_finished(inbound) /\ inbound.bytes_popped = StreamLen
    /\ ~sender.has_not_sent_FIN /\ Sender!sequence_numbers_in_flight(sender) = 0
    /\ ~sender.timer.is_on

EventuallyFinished == <>[]Finished
==============================================================================
