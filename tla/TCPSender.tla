------------------------------- MODULE TCPSender -------------------------------
(***************************************************************************)
(* A TCPSender and the outbound ByteStream it reads, driven by its owner:  *)
(* the writer fills and closes the stream, the owner calls push,           *)
(* maybe_send, receive and tick in any order, and acknowledgments of every *)
(* kind arrive, old, partial and impossible ones included.  A byte is      *)
(* represented by its index in the stream.                                 *)
(*                                                                         *)
(* The repository has no owner of a TCPSender besides its tests.  They     *)
(* empty the queue with maybe_send after each call that may fill it and    *)
(* send the SYN before any data; DrainedSpec is the sender under such an   *)
(* owner, SynFirstSpec under one that only sends the SYN first, and Spec   *)
(* under one that keeps to no order.                                       *)
(***************************************************************************)
EXTENDS TCPSenderOps, SequencesExt

CONSTANTS Isn,            \* isn_, a raw value
          StreamLen,      \* number of bytes written to the outbound stream
          WindowSizes,    \* window sizes the peer may announce
          TickMs,         \* arguments of tick
          MaxRetx         \* bound on consecutive retransmissions, for TLC

ASSUME SenderAssumption ==
    /\ Isn \in 0..Word - 1 /\ StreamLen \in Nat
    /\ WindowSizes \subseteq Nat /\ TickMs \subseteq Nat

VARIABLES sender, outbound,
          undefined,   \* tick has read the front of an empty deque
          probes       \* new messages sent into a window of zero since the
                       \* window last dropped to zero (history)

vars == <<sender, outbound, undefined, probes>>

Init ==
    /\ sender = NewSender(Isn)
    /\ outbound = NewStream(StreamLen)
    /\ undefined = FALSE
    /\ probes = 0

\* The application writes the next byte of the stream, or ends the stream.
WriteByte ==
    /\ outbound.bytes_pushed < StreamLen /\ ~outbound.closed
    /\ outbound' = push(outbound, <<outbound.bytes_pushed>>)
    /\ UNCHANGED <<sender, undefined, probes>>

CloseStream ==
    /\ outbound' = close(outbound)
    /\ UNCHANGED <<sender, undefined, probes>>

CountProbe ==
    probes' = probes + One(sender.window_size = 0
                           /\ sender'.next_seqno > sender.next_seqno)

Push ==
    /\ LET res == push_stream(sender, outbound)
       IN  sender' = res.s /\ outbound' = res.outbound
    /\ CountProbe
    /\ UNCHANGED undefined

MaybeSend ==
    /\ sender' = maybe_send(sender).s
    /\ CountProbe
    /\ UNCHANGED <<outbound, undefined>>

\* Acknowledgments of any position so far, and of one that was never sent.
Receive ==
    \E ackno \in {None} \union {wrap(p, Isn) : p \in 0..sender.next_seqno + 1},
       window_size \in WindowSizes :
        /\ sender' = receive(sender, [ackno |-> ackno, window_size |-> window_size])
        /\ probes' = IF window_size = 0 THEN probes ELSE 0
        /\ UNCHANGED <<outbound, undefined>>

Tick(ms) ==
    /\ Expires(sender, ms) => sender.consecutive_retransmissions < MaxRetx
    /\ IF Expires(sender, ms) /\ sender.unacked_msgs = <<>>
         THEN undefined' = TRUE /\ UNCHANGED sender
         ELSE sender' = tick(sender, ms) /\ UNCHANGED undefined
    /\ UNCHANGED <<outbound, probes>>

Next ==
    \/ WriteByte \/ CloseStream
    \/ Push \/ MaybeSend \/ Receive
    \/ \E ms \in TickMs : Tick(ms)

Spec == Init /\ [][Next]_vars

\* push finds data only once the SYN has been sent.
SynFirst == sender.has_not_sent_SYN => outbound.queue = <<>>

SynFirstNext ==
    \/ WriteByte \/ CloseStream
    \/ SynFirst /\ Push
    \/ MaybeSend \/ Receive
    \/ \E ms \in TickMs : Tick(ms)

SynFirstSpec == Init /\ [][SynFirstNext]_vars

\* maybe_send has been called until nothing was queued.
Drained == sender.unsent_msgs = <<>>

DrainedNext ==
    \/ WriteByte \/ CloseStream
    \/ SynFirst /\ Drained /\ Push
    \/ MaybeSend
    \/ Drained /\ Receive
    \/ Drained /\ \E ms \in TickMs : Tick(ms)

DrainedSpec == Init /\ [][DrainedNext]_vars

------------------------------------------------------------------------------
Queued == [i \in 1..Len(sender.unsent_msgs) |-> sender.unsent_msgs[i].msg]

\* The messages not acknowledged yet, in the order of the stream: what waits
\* to be sent again goes first, what is new goes last.
Outstanding ==
    IF Queued # <<>> /\ Head(sender.unsent_msgs).is_retransmitted
      THEN Queued \o sender.unacked_msgs
      ELSE sender.unacked_msgs \o Queued

Start(msg) == unwrap(msg.seqno, Isn, sender.next_seqno)
End(msg) == Start(msg) + sequence_length(msg)

Total(msgs) ==
    LET total[i \in 0..Len(msgs)] ==
          IF i = 0 THEN 0 ELSE total[i - 1] + sequence_length(msgs[i])
    IN  total[Len(msgs)]

Message == [seqno : 0..Word - 1, SYN : BOOLEAN,
            payload : BoundedSeq(0..StreamLen - 1, MAX_PAYLOAD_SIZE), FIN : BOOLEAN]

\* What the sender's fields hold; a running timer has time left and no more
\* than the timeout.
TypeOK ==
    /\ \A i \in DOMAIN Outstanding : Outstanding[i] \in Message
    /\ sender.unsent_seqnos \in 0..Word - 1 /\ sender.unacked_seqnos \in 0..Word - 1
    /\ sender.next_seqno \in 0..StreamLen + 2
    /\ sender.timer.is_on => sender.timer.timeout \in 1..sender.timer.RTO

\* "These two variables stores the total seqnos in unsent_msgs_ and
\* unacked_msgs_" (tcp_sender.hh:83).
CountersMatchQueues ==
    /\ sender.unsent_seqnos = Total(Queued)
    /\ sender.unacked_seqnos = Total(sender.unacked_msgs)

\* Each message carries the bytes that belong at its sequence number, and the
\* SYN exactly at number zero.
InPlace(msg) ==
    /\ msg.SYN <=> Start(msg) = 0
    /\ \A k \in DOMAIN msg.payload : msg.payload[k] = Start(msg) + One(msg.SYN) + k - 2

\* Through retransmission and resegmentation, the outstanding messages cover
\* the sequence numbers up to next_seqno without a gap or an overlap, each
\* with what belongs there, and next_seqno is what has been sent of the SYN,
\* the stream and the FIN.
OutstandingIsStream ==
    /\ \A i \in DOMAIN Outstanding : InPlace(Outstanding[i])
    /\ \A i \in DOMAIN Outstanding :
         End(Outstanding[i]) = IF i = Len(Outstanding) THEN sender.next_seqno
                               ELSE Start(Outstanding[i + 1])
    /\ sender.next_seqno = One(~sender.has_not_sent_SYN) + outbound.bytes_popped
                             + One(~sender.has_not_sent_FIN)

\* "If set, it means the payload represents the ending of the byte stream."
\* (tcp_sender_message.hh:22)
FinOnlyAtEnd ==
    \A i \in DOMAIN Outstanding :
        Outstanding[i].FIN =>
            is_finished(outbound) /\ End(Outstanding[i]) = outbound.bytes_pushed + 2

\* A FIN that the sender thinks it has sent is in a message still to be
\* acknowledged, or everything has been acknowledged.
FinNotLost ==
    ~sender.has_not_sent_FIN =>
        \/ Outstanding = <<>>
        \/ \E i \in DOMAIN Outstanding : Outstanding[i].FIN

\* The timer runs while a message is unacknowledged (or the message would
\* never be sent again), and only then: tick finds a message to requeue and
\* the assertions on is_on hold.
TimerRunsForUnacked ==
    /\ sender.unacked_msgs # <<>> => sender.timer.is_on
    /\ sender.timer.is_on =>
         \/ sender.unacked_msgs # <<>>
         \/ Queued # <<>> /\ Head(sender.unsent_msgs).is_retransmitted

\* The initial timeout, doubled n times.
Doubled[n \in Nat] == IF n = 0 THEN InitialRTO ELSE 2 * Doubled[n - 1]

\* The retransmission timeout is the initial one doubled once for every
\* consecutive retransmission counted, so neither is reset without the other.
BackoffExact ==
    sender.timer.RTO = Doubled[sender.consecutive_retransmissions]

\* New sequence numbers are used only within the window last announced ("the
\* total unsent and unacked messages cannot exceed the window size"), except
\* for the first message, which may hold SYN and FIN, and a window of zero.
WindowRespected ==
    [][sender'.next_seqno > sender.next_seqno
         /\ sender.next_seqno > 0 /\ sender.window_size > 0
       => sequence_numbers_in_flight(sender') <= sender.window_size]_vars

\* tick never reads the front of an empty unacked_msgs ("once the timer
\* expired, we move the first msgs in the unacked msgs buffer",
\* tcp_sender.hh:61).
NeverEmptyFront == ~undefined

\* "the special case should happen only once each time window size dropped to
\* 0" (tcp_sender.cc:56).
ProbedOnce == probes <= 1

==============================================================================
