----------------------------- MODULE TCPSenderOps -----------------------------
(***************************************************************************)
(* TCPSender and its Timer (src/src/tcp_sender.hh, tcp_sender.cc), as      *)
(* operators on a record of the private members.  A TCPSenderMessage is a  *)
(* record with fields seqno (a raw Wrap32 value), SYN, payload and FIN; an *)
(* element of unsent_msgs is the wrapper of a message with its             *)
(* is_retransmitted flag.  The counters are uint32_t, so they are taken    *)
(* modulo Word.                                                            *)
(***************************************************************************)
EXTENDS ByteQueue, WrappingIntegers

CONSTANTS None,               \* std::nullopt
          InitialRTO,         \* initial_RTO_ms_
          MAX_PAYLOAD_SIZE    \* TCPConfig::MAX_PAYLOAD_SIZE

ASSUME SizesAssumption == InitialRTO \in Nat \ {0} /\ MAX_PAYLOAD_SIZE \in Nat \ {0}

One(b) == IF b THEN 1 ELSE 0

sequence_length(msg) == One(msg.SYN) + Len(msg.payload) + One(msg.FIN)

------------------------------------------------------------------------------
(* class Timer *)

NewTimer == [is_on |-> FALSE, RTO |-> InitialRTO, timeout |-> InitialRTO]

timer_tick(t, ms) ==
    [t EXCEPT !.timeout = IF @ <= ms THEN 0 ELSE @ - ms]

timer_start(t) == [t EXCEPT !.is_on = TRUE, !.timeout = t.RTO]

\* A plausible slip: the timer is never started.
MutantStartIfOff(t) == t

\* Lines 59-61 and 89-91 of tcp_sender.cc.
StartIfOff(t) == IF t.is_on THEN t ELSE timer_start(t)

------------------------------------------------------------------------------
NewSender(isn) ==
    [isn |-> isn, has_not_sent_SYN |-> TRUE, has_not_sent_FIN |-> TRUE,
     stream_is_finished |-> FALSE, zero_window_flag |-> FALSE,
     unsent_msgs |-> <<>>, unacked_msgs |-> <<>>,
     unsent_seqnos |-> 0, unacked_seqnos |-> 0,
     next_seqno |-> 0, window_size |-> 1, consecutive_retransmissions |-> 0,
     timer |-> NewTimer]

sequence_numbers_in_flight(s) == (s.unsent_seqnos + s.unacked_seqnos) % Word

\* A plausible slip: a full window has room.
MutantMaySendNew(s) == s.window_size >= sequence_numbers_in_flight(s)

\* The condition of lines 39-40 and 107: room in the window, or a window of
\* zero that may be probed once.
MaySendNew(s) ==
    \/ s.window_size = 0 /\ s.zero_window_flag
    \/ s.window_size > sequence_numbers_in_flight(s)

\* Lines 55 and 128.
SpendProbe(s) == s.zero_window_flag /\ s.window_size # 0

\* A plausible slip: the FIN does not wait for the end of the stream.
MutantCanSendFIN(s) == s.has_not_sent_FIN

\* maybe_send, lines 37-63: nothing is queued, but the SYN or the FIN is due.
CanSendFIN(s) == s.has_not_sent_FIN /\ s.stream_is_finished

FlagsDue(s) ==
    /\ s.unsent_msgs = <<>>
    /\ s.has_not_sent_SYN \/ CanSendFIN(s)
    /\ MaySendNew(s)

SendFlags(s) ==
    LET msg == [seqno |-> wrap(s.next_seqno, s.isn), SYN |-> s.has_not_sent_SYN,
                payload |-> <<>>, FIN |-> CanSendFIN(s)]
        len == sequence_length(msg)
    IN  [s |-> [s EXCEPT !.next_seqno = @ + len,
                         !.unacked_seqnos = (@ + len) % Word,
                         !.unacked_msgs = Append(@, msg),
                         !.has_not_sent_SYN = FALSE,
                         !.has_not_sent_FIN = ~CanSendFIN(s),
                         !.zero_window_flag = SpendProbe(s),
                         !.timer = StartIfOff(@)],
         msg |-> msg]

\* A plausible slip: a message that is sent again goes to the back of the queue.
MutantTrack(unacked, msg, is_retransmitted) == Append(unacked, msg)

\* Lines 84-88.
Track(unacked, msg, is_retransmitted) ==
    IF is_retransmitted THEN <<msg>> \o unacked ELSE Append(unacked, msg)

\* maybe_send, lines 67-92: the first queued message leaves, with the SYN if
\* that has not been sent.
SendQueued(s) ==
    LET front == Head(s.unsent_msgs)
        msg   == [front.msg EXCEPT !.SYN = @ \/ s.has_not_sent_SYN]
        len   == sequence_length(msg)
    IN  [s |-> [s EXCEPT !.has_not_sent_SYN = FALSE,
                         !.unsent_seqnos = (@ - len) % Word,
                         !.unacked_seqnos = (@ + len) % Word,
                         !.unsent_msgs = Tail(@),
                         !.unacked_msgs = Track(@, msg, front.is_retransmitted),
                         !.timer = StartIfOff(@)],
         msg |-> msg]

\* TCPSender::maybe_send: the sender afterwards and the message, or None.
maybe_send(s) ==
    IF s.unsent_msgs # <<>> THEN SendQueued(s)
    ELSE IF FlagsDue(s) THEN SendFlags(s)
    ELSE [s |-> s, msg |-> None]

------------------------------------------------------------------------------
\* push, lines 102-135: how many bytes the loop takes from the stream: one if
\* it probes a window of zero, else what the window has room for.
BytesToTake(s, outbound) ==
    IF ~MaySendNew(s) THEN 0
    ELSE Smaller(bytes_buffered(outbound),
                 IF s.window_size = 0 THEN 1
                 ELSE s.window_size - sequence_numbers_in_flight(s))

\* The segments the loop cuts them into.
Segments(s, outbound) ==
    LET taken == BytesToTake(s, outbound)
        max   == MAX_PAYLOAD_SIZE
        count == (taken + max - 1) \div max
    IN  [k \in 1..count |->
           [msg |-> [seqno |-> wrap(s.next_seqno + (k - 1) * max, s.isn),
                     SYN |-> FALSE,
                     payload |-> SubSeq(outbound.queue, (k - 1) * max + 1,
                                        Smaller(k * max, taken)),
                     FIN |-> FALSE],
            is_retransmitted |-> FALSE]]

\* Line 140.
FINFits(s) == s.window_size >= (sequence_numbers_in_flight(s) + 1) % Word

\* A plausible slip: the FIN counts as sent although no message carries it.
MutantAttachFIN(s) ==
    LET FIN_flag == s.has_not_sent_FIN /\ s.stream_is_finished /\ FINFits(s)
    IN  IF s.unsent_msgs = <<>> THEN [s EXCEPT !.has_not_sent_FIN = @ /\ ~FIN_flag]
        ELSE [s EXCEPT !.unsent_msgs[Len(s.unsent_msgs)].msg.FIN = FIN_flag,
                       !.has_not_sent_FIN = @ /\ ~FIN_flag,
                       !.unsent_seqnos = (@ + One(FIN_flag)) % Word,
                       !.next_seqno = @ + One(FIN_flag)]

\* Lines 139-150: the last queued message, if there is one, carries the FIN
\* or, overwriting the flag, does not.
AttachFIN(s) ==
    LET FIN_flag == s.has_not_sent_FIN /\ s.stream_is_finished /\ FINFits(s)
    IN  IF s.unsent_msgs = <<>> THEN s
        ELSE [s EXCEPT !.unsent_msgs[Len(s.unsent_msgs)].msg.FIN = FIN_flag,
                       !.has_not_sent_FIN = @ /\ ~FIN_flag,
                       !.unsent_seqnos = (@ + One(FIN_flag)) % Word,
                       !.next_seqno = @ + One(FIN_flag)]

\* TCPSender::push: the sender and the outbound stream afterwards.
push_stream(s, outbound) ==
    LET taken == BytesToTake(s, outbound)
        rest  == pop(outbound, taken)
        cut   == [s EXCEPT !.unsent_msgs = @ \o Segments(s, outbound),
                           !.unsent_seqnos = (@ + taken) % Word,
                           !.next_seqno = @ + taken,
                           !.zero_window_flag =
                               IF taken > 0 THEN SpendProbe(s) ELSE @,
                           !.stream_is_finished = is_finished(rest)]
    IN  [s |-> AttachFIN(cut), outbound |-> rest]

\* TCPSender::send_empty_message
send_empty_message(s) ==
    [seqno |-> wrap(s.next_seqno, s.isn), SYN |-> FALSE, payload |-> <<>>,
     FIN |-> FALSE]

------------------------------------------------------------------------------
\* Lines 178-179.
FullyAcked(s, msg, ackno) ==
    unwrap(msg.seqno, s.isn, s.next_seqno) + sequence_length(msg) <= ackno

\* How many messages the loop of lines 175-189 takes off unacked_msgs.
AckedCount(s, ackno) ==
    CHOOSE n \in 0..Len(s.unacked_msgs) :
        /\ \A i \in 1..n : FullyAcked(s, s.unacked_msgs[i], ackno)
        /\ n < Len(s.unacked_msgs) => ~FullyAcked(s, s.unacked_msgs[n + 1], ackno)

\* The sequence numbers of the first n unacked messages.
SeqnosOfFirst(s, n) ==
    LET total[i \in 0..n] ==
          IF i = 0 THEN 0
          ELSE total[i - 1] + sequence_length(s.unacked_msgs[i])
    IN  total[n]

\* Lines 193-203.
TimerAfterAck(t, empty) ==
    LET reset == [t EXCEPT !.RTO = InitialRTO]
    IN  IF empty THEN [reset EXCEPT !.is_on = FALSE] ELSE timer_start(reset)

\* Lines 175-204.
TakeAck(s, ackno) ==
    LET n    == AckedCount(s, ackno)
        rest == SubSeq(s.unacked_msgs, n + 1, Len(s.unacked_msgs))
    IN  IF n = 0 THEN s
        ELSE [s EXCEPT !.unacked_seqnos = (@ - SeqnosOfFirst(s, n)) % Word,
                       !.unacked_msgs = rest,
                       !.consecutive_retransmissions = 0,
                       !.timer = TimerAfterAck(@, rest = <<>>)]

\* Lines 171-174.
Impossible(s, ackno) == ackno > s.next_seqno

\* TCPSender::receive: the window is taken over even from a message whose
\* acknowledgment is ignored.
receive(s, msg) ==
    LET w == [s EXCEPT !.window_size = msg.window_size,
                       !.zero_window_flag = (msg.window_size = 0)]
    IN  IF msg.ackno = None THEN w
        ELSE LET ackno == unwrap(msg.ackno, s.isn, s.next_seqno)
             IN  IF Impossible(s, ackno) THEN w ELSE TakeAck(w, ackno)

------------------------------------------------------------------------------
\* A plausible slip: the retransmission is counted outside the condition.
MutantBackOff(s) ==
    [s EXCEPT !.consecutive_retransmissions = @ + 1,
              !.timer.RTO = IF s.window_size = 0 THEN @ ELSE @ * 2]

\* Lines 223-226.
BackOff(s) ==
    IF s.window_size = 0 THEN s
    ELSE [s EXCEPT !.consecutive_retransmissions = @ + 1, !.timer.RTO = @ * 2]

\* A plausible slip: the counters of the two queues are left alone.
MutantRequeue(s) ==
    LET msg == Head(s.unacked_msgs)
        q   == [s EXCEPT !.unacked_msgs = Tail(@),
                         !.unsent_msgs = <<[msg |-> msg, is_retransmitted |-> TRUE]>> \o @]
        b   == BackOff(q)
    IN  [b EXCEPT !.timer = timer_start(@)]

\* Lines 214-227: the oldest unacked message is queued again, in front.
Requeue(s) ==
    LET msg == Head(s.unacked_msgs)
        len == sequence_length(msg)
        q   == [s EXCEPT !.unacked_seqnos = (@ - len) % Word,
                         !.unsent_seqnos = (@ + len) % Word,
                         !.unacked_msgs = Tail(@),
                         !.unsent_msgs = <<[msg |-> msg, is_retransmitted |-> TRUE]>> \o @]
        b   == BackOff(q)
    IN  [b EXCEPT !.timer = timer_start(@)]

\* Whether a tick makes the timer expire.
Expires(s, ms) == s.timer.is_on /\ timer_tick(s.timer, ms).timeout = 0

\* TCPSender::tick, where unacked_msgs is not empty or the timer does not
\* expire: front() of an empty deque (line 215) has no defined result.
tick(s, ms) ==
    IF ~s.timer.is_on THEN s
    ELSE LET t == [s EXCEPT !.timer = timer_tick(@, ms)]
         IN  IF Expires(s, ms) THEN Requeue(t) ELSE t
==============================================================================
