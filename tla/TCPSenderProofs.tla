---------------------------- MODULE TCPSenderProofs ----------------------------
(***************************************************************************)
(* What a TCPSender holds as outstanding, and its timer, for every stream, *)
(* segment size, word size and sequence of windows, under the owner of     *)
(* DrainedSpec.  The inductive invariant gives every outstanding message   *)
(* its absolute position in the stream, which the code itself never        *)
(* stores: Laid(msgs, p) says that the messages lie one behind the other   *)
(* from position p[1] on.                                                  *)
(*                                                                         *)
(* One hypothesis about the peer is needed, FlightFits: the sender cannot  *)
(* tell positions a whole word apart, so that what is in flight must fit   *)
(* into half the sequence space.  Windows are of 16 bits and the word has  *)
(* 32, but the size of a window alone does not bound what is in flight:    *)
(* each announcement of a window of zero allows one more byte.  A stream   *)
(* that is itself shorter than half the space fits in any case             *)
(* (ShortStreamsFit).                                                      *)
(***************************************************************************)
EXTENDS TCPSender, InductionLemmas, SequenceTheorems

\* The position of a sequence number is found again by unwrap.
Seqno == INSTANCE SeqnoConversionProofs
           WITH MaxPosition <- 0, raw_value <- 0, zero_point <- 0, checkpoint <- 0

USE HalfWordAssumption, SizesAssumption, SenderAssumption

------------------------------------------------------------------------------
(* The types of the members. *)

Msg == [seqno : 0..Word - 1, SYN : BOOLEAN, payload : Seq(0..StreamLen - 1), FIN : BOOLEAN]

Wrapped == [msg : Msg, is_retransmitted : BOOLEAN]

Timer == [is_on : BOOLEAN, RTO : Nat, timeout : Nat]

Sender ==
    [isn : {Isn}, has_not_sent_SYN : BOOLEAN, has_not_sent_FIN : BOOLEAN,
     stream_is_finished : BOOLEAN, zero_window_flag : BOOLEAN,
     unsent_msgs : Seq(Wrapped), unacked_msgs : Seq(Msg),
     unsent_seqnos : Nat, unacked_seqnos : Nat,
     next_seqno : Nat, window_size : Nat, consecutive_retransmissions : Nat,
     timer : Timer]

Stream ==
    [capacity : {StreamLen}, queue : Seq(0..StreamLen - 1), closed : BOOLEAN,
     error : BOOLEAN, bytes_pushed : 0..StreamLen, bytes_popped : Nat]

------------------------------------------------------------------------------
(* The inductive invariant, on a sender s and the stream o it reads. *)

MsgsIn(wrapped) == [i \in 1..Len(wrapped) |-> wrapped[i].msg]

\* The first queued message waits to be sent again.
Again(s) == s.unsent_msgs # <<>> /\ Head(s.unsent_msgs).is_retransmitted

Line(s) == IF Again(s) THEN MsgsIn(s.unsent_msgs) \o s.unacked_msgs
           ELSE s.unacked_msgs \o MsgsIn(s.unsent_msgs)

\* A message at position p of the stream.
At(msg, p) ==
    /\ msg.seqno = wrap(p, Isn)
    /\ msg.SYN <=> p = 0
    /\ \A k \in DOMAIN msg.payload : msg.payload[k] = p + One(msg.SYN) + k - 2
    /\ Len(msg.payload) <= MAX_PAYLOAD_SIZE
    /\ sequence_length(msg) > 0

Positions(msgs) == [1..Len(msgs) + 1 -> Nat]

Laid(msgs, p) ==
    \A i \in 1..Len(msgs) :
        /\ At(msgs[i], p[i])
        /\ p[i + 1] = p[i] + sequence_length(msgs[i])
        /\ msgs[i].FIN => i = Len(msgs)

\* Only what is requeued alone is ever marked as sent before.
QueueShape(s) ==
    IF Again(s) THEN Len(s.unsent_msgs) = 1
    ELSE \A i \in 1..Len(s.unsent_msgs) : ~s.unsent_msgs[i].is_retransmitted

\* Where the second of the two queues begins in the line.
Border(s) == IF Again(s) THEN 2 ELSE Len(s.unacked_msgs) + 1

Counted(s, p) ==
    LET first  == p[Border(s)] - p[1]
        second == s.next_seqno - p[Border(s)]
    IN  IF Again(s) THEN s.unsent_seqnos = first /\ s.unacked_seqnos = second
        ELSE s.unacked_seqnos = first /\ s.unsent_seqnos = second

LiesAt(s, p) ==
    /\ p \in Positions(Line(s))
    /\ Laid(Line(s), p)
    /\ p[Len(Line(s)) + 1] = s.next_seqno
    /\ Counted(s, p)

FlightInv(s) == QueueShape(s) /\ \E p : LiesAt(s, p)

\* The bytes in the stream, and its end.
StreamInv(o) ==
    /\ o.bytes_popped + Len(o.queue) = o.bytes_pushed
    /\ \A k \in 1..Len(o.queue) : o.queue[k] = o.bytes_popped + k - 1

\* How far the sender has got, and with what.
ProgressInv(s, o) ==
    /\ s.next_seqno = One(~s.has_not_sent_SYN) + o.bytes_popped + One(~s.has_not_sent_FIN)
    /\ s.has_not_sent_SYN => o.bytes_popped = 0 /\ Line(s) = <<>> /\ s.has_not_sent_FIN
    /\ s.stream_is_finished => is_finished(o)
    /\ ~s.has_not_sent_FIN => s.stream_is_finished
    /\ Line(s) # <<>> => (Line(s)[Len(Line(s))].FIN <=> ~s.has_not_sent_FIN)

TimerInv(s) ==
    /\ s.timer.is_on <=> s.unacked_msgs # <<>> \/ Again(s)
    /\ s.timer.is_on => s.timer.timeout \in 1..s.timer.RTO
    /\ s.timer.RTO = Doubled[s.consecutive_retransmissions]

Coherent(s, o) ==
    /\ s \in Sender /\ o \in Stream
    /\ FlightInv(s)
    /\ StreamInv(o)
    /\ ProgressInv(s, o)
    /\ TimerInv(s)

Inv == Coherent(sender, outbound)

\* What is in flight fits into half the sequence space.
Fits(s) == Total(Line(s)) <= HalfWord

FlightFits == Fits(sender)

------------------------------------------------------------------------------
(* Arithmetic and the positions of messages. *)

\* Half the sequence space is less than the whole of it.
LEMMA WordType == Word \in Nat /\ HalfWord \in Nat /\ Word = 2 * HalfWord /\ Word > HalfWord
  BY DEF Word

\* unwrap undoes wrap for a position at most half a word behind the checkpoint.
LEMMA RoundTrip ==
    ASSUME NEW c \in Nat, NEW a \in Nat, a <= c, c <= a + HalfWord
    PROVE  unwrap(wrap(a, Isn), Isn, c) = a
  <1>1. a < c + HalfWord
    OBVIOUS
  <1> QED
    BY <1>1, Seqno!RoundTripHolds
    DEF Word, Seqno!Word, unwrap, Seqno!unwrap, wrap, Seqno!wrap, Plus, Seqno!Plus,
        Diff, Seqno!Diff

\* Whatever a peer acknowledges unwraps to a position.
LEMMA UnwrapType ==
    ASSUME NEW raw \in 0..Word - 1, NEW c \in Nat
    PROVE  unwrap(raw, Isn, c) \in Nat
  BY Seqno!InverseHolds
     DEF Word, Seqno!Word, unwrap, Seqno!unwrap, wrap, Seqno!wrap, Plus, Seqno!Plus,
         Diff, Seqno!Diff

\* wrap yields a sequence number.
LEMMA WrapType ==
    ASSUME NEW a \in Nat
    PROVE  wrap(a, Isn) \in 0..Word - 1
  <1>1. \A b \in Int : b % Word \in 0..Word - 1
    BY WordType
  <1>2. a % Word \in Int /\ Isn \in Int
    BY <1>1, WordType
  <1> QED BY <1>1, <1>2 DEF wrap, Plus

\* The counters do not wrap below a word.
LEMMA SmallMod ==
    ASSUME NEW a \in Nat, a <= HalfWord
    PROVE  a % Word = a
  BY WordType

\* The length of a message counts its flags and its payload.
LEMMA LengthType ==
    ASSUME NEW msg \in Msg
    PROVE  /\ sequence_length(msg) \in Nat
           /\ sequence_length(msg) = One(msg.SYN) + Len(msg.payload) + One(msg.FIN)
           /\ One(msg.SYN) \in 0..1 /\ One(msg.FIN) \in 0..1 /\ Len(msg.payload) \in Nat
  <1>1. msg.SYN \in BOOLEAN /\ msg.FIN \in BOOLEAN /\ msg.payload \in Seq(0..StreamLen - 1)
    BY DEF Msg
  <1>2. Len(msg.payload) \in Nat
    BY <1>1
  <1>3. One(msg.SYN) \in 0..1 /\ One(msg.FIN) \in 0..1
    BY DEF One
  <1> QED BY <1>2, <1>3 DEF sequence_length

\* Messages that lie behind each other have increasing positions.
LEMMA PositionsIncrease ==
    ASSUME NEW O \in Seq(Msg), NEW p \in Positions(O), Laid(O, p),
           NEW i \in 1..Len(O) + 1, NEW j \in 1..Len(O) + 1, i <= j
    PROVE  p[i] <= p[j]
  <1> DEFINE S == {n \in Nat : i + n <= Len(O) + 1 => p[i] <= p[i + n]}
  <1>1. \A m \in 1..Len(O) + 1 : p[m] \in Nat
    BY DEF Positions
  <1>2. 0 \in S
    BY <1>1
  <1>3. ASSUME NEW n \in Nat, n \in S PROVE n + 1 \in S
    <2> SUFFICES ASSUME i + (n + 1) <= Len(O) + 1 PROVE p[i] <= p[i + (n + 1)]
      OBVIOUS
    <2>1. i + n \in 1..Len(O) /\ i + (n + 1) = (i + n) + 1
      OBVIOUS
    <2>2. p[(i + n) + 1] = p[i + n] + sequence_length(O[i + n])
      BY <2>1 DEF Laid
    <2>3. sequence_length(O[i + n]) \in Nat
      BY <2>1, LengthType
    <2>4. p[i] <= p[i + n] /\ p[i] \in Nat /\ p[i + n] \in Nat
      BY <1>1, <1>3, <2>1
    <2> QED BY <2>1, <2>2, <2>3, <2>4
  <1>4. j - i \in S
    <2> HIDE DEF S
    <2>1. Nat \subseteq S
      BY <1>2, <1>3, SetInduction
    <2> QED BY <2>1
  <1> QED BY <1>4

\* f gives the sums of the lengths of the first messages, up to the n-th.
SumsUp(f, msgs, n) ==
    f = [i \in 0..n |-> IF i = 0 THEN 0 ELSE f[i - 1] + sequence_length(msgs[i])]

\* The sum of lengths that the code's loops compute is a difference of
\* positions.
LEMMA SumIsSpan ==
    ASSUME NEW O \in Seq(Msg), NEW p \in Positions(O), Laid(O, p), NEW n \in 0..Len(O),
           NEW f, SumsUp(f, O, n)
    PROVE  f[n] = p[n + 1] - p[1]
  <1>0. f = [i \in 0..n |-> IF i = 0 THEN 0 ELSE f[i - 1] + sequence_length(O[i])]
    BY DEF SumsUp
  <1> DEFINE S == {m \in Nat : m <= n => f[m] = p[m + 1] - p[1]}
  <1>1. \A m \in 1..Len(O) + 1 : p[m] \in Nat
    BY DEF Positions
  <1>2. 0 \in S
    BY <1>0, <1>1
  <1>3. ASSUME NEW m \in Nat, m \in S PROVE m + 1 \in S
    <2> SUFFICES ASSUME m + 1 <= n PROVE f[m + 1] = p[m + 2] - p[1]
      OBVIOUS
    <2>1. m + 1 \in 1..Len(O) /\ m + 1 \in 0..n /\ m + 1 # 0 /\ (m + 1) - 1 = m
      OBVIOUS
    <2>2. f[m + 1] = f[m] + sequence_length(O[m + 1])
      BY <1>0, <2>1
    <2>3. p[m + 2] = p[m + 1] + sequence_length(O[m + 1])
      BY <2>1 DEF Laid
    <2>4. sequence_length(O[m + 1]) \in Nat
      BY <2>1, LengthType
    <2>5. f[m] = p[m + 1] - p[1]
      BY <1>3
    <2> QED BY <1>1, <2>1, <2>2, <2>3, <2>4, <2>5, SMTT(60)
  <1>4. n \in S
    <2> HIDE DEF S
    <2>1. Nat \subseteq S
      BY <1>2, <1>3, SetInduction
    <2> QED BY <2>1
  <1> QED BY <1>4

\* Such a sum exists.
LEMMA SumExists ==
    ASSUME NEW O \in Seq(Msg), NEW p \in Positions(O), Laid(O, p), NEW n \in 0..Len(O)
    PROVE  \E f : SumsUp(f, O, n)
  <1> DEFINE g == [i \in 0..n |-> p[i + 1] - p[1]]
  <1>1. ASSUME NEW i \in 0..n
        PROVE  g[i] = IF i = 0 THEN 0 ELSE g[i - 1] + sequence_length(O[i])
    <2>1. \A m \in 1..Len(O) + 1 : p[m] \in Nat
      BY DEF Positions
    <2>2. CASE i = 0
      BY <2>1, <2>2
    <2>3. CASE i # 0
      <3>1. i \in 1..Len(O) /\ i - 1 \in 0..n
        BY <2>3
      <3>2. p[i + 1] = p[i] + sequence_length(O[i]) /\ sequence_length(O[i]) \in Nat
        BY <3>1, LengthType, SMTT(60) DEF Laid
      <3>3. g[i] = p[i + 1] - p[1] /\ g[i - 1] = p[i] - p[1]
        BY <3>1
      <3> QED BY <2>1, <2>3, <3>1, <3>2, <3>3
    <2> QED BY <2>2, <2>3
  <1>2. g = [i \in 0..n |-> IF i = 0 THEN 0 ELSE g[i - 1] + sequence_length(O[i])]
    <2>1. g = [i \in 0..n |-> g[i]]
      OBVIOUS
    <2> HIDE DEF g
    <2> QED BY <1>1, <2>1
  <1> QED BY <1>2 DEF SumsUp

\* The lengths of messages that lie one behind the other add up to what they span.
LEMMA TotalIsSpan ==
    ASSUME NEW O \in Seq(Msg), NEW p \in Positions(O), Laid(O, p)
    PROVE  Total(O) = p[Len(O) + 1] - p[1]
  <1> DEFINE f == CHOOSE g : SumsUp(g, O, Len(O))
  <1>1. Len(O) \in 0..Len(O)
    OBVIOUS
  <1>2. SumsUp(f, O, Len(O))
    BY <1>1, SumExists
  <1>3. Total(O) = f[Len(O)]
    BY DEF Total, SumsUp
  <1> HIDE DEF f
  <1> QED BY <1>1, <1>2, <1>3, SumIsSpan

\* Doubled is the function its equations describe.
LEMMA DoubledValues ==
    /\ Doubled[0] = InitialRTO
    /\ \A n \in Nat : Doubled[n] \in Nat /\ Doubled[n] > 0 /\ Doubled[n + 1] = 2 * Doubled[n]
  <1> DEFINE X == Nat \ {0}
             h == [x \in X |-> 2 * x]
  <1>1. h \in [X -> X] /\ InitialRTO \in X
    OBVIOUS
  <1>2. PICK f \in [Nat -> X] : f[0] = InitialRTO /\ \A n \in Nat : f[n + 1] = h[f[n]]
    <2>1. \E f : Iterates(f, X, InitialRTO, h)
      <3> HIDE DEF X, h
      <3> QED BY <1>1, Iteration
    <2> QED BY <2>1 DEF Iterates
  <1>3. f = [n \in Nat |-> IF n = 0 THEN InitialRTO ELSE 2 * f[n - 1]]
    <2>1. ASSUME NEW n \in Nat PROVE f[n] = IF n = 0 THEN InitialRTO ELSE 2 * f[n - 1]
      <3>1. CASE n = 0
        BY <1>2, <3>1
      <3>2. CASE n # 0
        <4>1. n - 1 \in Nat /\ (n - 1) + 1 = n
          BY <3>2
        <4>2. f[n] = h[f[n - 1]] /\ f[n - 1] \in X
          BY <1>2, <4>1
        <4> QED BY <3>2, <4>2
      <3> QED BY <3>1, <3>2
    <2>2. f = [n \in Nat |-> f[n]]
      OBVIOUS
    <2> QED BY <2>1, <2>2
  <1>4. Doubled = [n \in Nat |-> IF n = 0 THEN InitialRTO ELSE 2 * Doubled[n - 1]]
    BY <1>3, Zenon DEF Doubled
  <1>5. Doubled[0] = InitialRTO
    BY <1>4
  <1>6. ASSUME NEW n \in Nat PROVE Doubled[n + 1] = 2 * Doubled[n]
    <2>1. n + 1 \in Nat /\ n + 1 # 0 /\ (n + 1) - 1 = n
      OBVIOUS
    <2> QED BY <1>4, <2>1
  <1>7. \A n \in Nat : Doubled[n] \in X
    <2> DEFINE S == {n \in Nat : Doubled[n] \in X}
    <2>1. 0 \in S
      BY <1>5
    <2>2. ASSUME NEW n \in Nat, n \in S PROVE n + 1 \in S
      BY <1>6, <2>2
    <2>3. Nat \subseteq S
      <3> HIDE DEF S
      <3> QED BY <2>1, <2>2, SetInduction
    <2> QED BY <2>3
  <1> QED BY <1>5, <1>6, <1>7

------------------------------------------------------------------------------
(* What the operations do to the members. *)

\* The counters are reduced to a word.
LEMMA ModType ==
    ASSUME NEW a \in Int
    PROVE  a % Word \in Nat
  BY WordType

\* The members of a sender, one by one.
LEMMA SenderMembers ==
    ASSUME NEW s \in Sender
    PROVE  /\ s.isn = Isn /\ s.has_not_sent_SYN \in BOOLEAN /\ s.has_not_sent_FIN \in BOOLEAN
           /\ s.stream_is_finished \in BOOLEAN /\ s.zero_window_flag \in BOOLEAN
           /\ s.unsent_msgs \in Seq(Wrapped) /\ s.unacked_msgs \in Seq(Msg)
           /\ s.unsent_seqnos \in Nat /\ s.unacked_seqnos \in Nat /\ s.next_seqno \in Nat
           /\ s.window_size \in Nat /\ s.consecutive_retransmissions \in Nat
           /\ s.timer \in Timer
  BY DEF Sender

\* The members of a timer, one by one.
LEMMA TimerMembers ==
    ASSUME NEW t \in Timer
    PROVE  t.is_on \in BOOLEAN /\ t.RTO \in Nat /\ t.timeout \in Nat
  BY DEF Timer

\* maybe_send starts a timer only when it is off.
LEMMA StartIfOffEffect ==
    ASSUME NEW t \in Timer
    PROVE  /\ StartIfOff(t) \in Timer
           /\ StartIfOff(t).is_on /\ StartIfOff(t).RTO = t.RTO
           /\ StartIfOff(t).timeout = IF t.is_on THEN t.timeout ELSE t.RTO
  BY DEF Timer, StartIfOff, timer_start

\* The number of sequence numbers in flight is a natural number.
LEMMA InFlightType ==
    ASSUME NEW s \in Sender
    PROVE  sequence_numbers_in_flight(s) \in Nat
  <1>1. s.unsent_seqnos + s.unacked_seqnos \in Int
    BY SenderMembers
  <1> QED BY <1>1, ModType DEF sequence_numbers_in_flight

\* What a sender s is after it has sent the front of its queue.
QueuedSent(s, t, front) ==
    /\ t \in Sender /\ front \in Wrapped /\ front.msg \in Msg
    /\ t.unsent_msgs = Tail(s.unsent_msgs)
    /\ t.unacked_msgs = Track(s.unacked_msgs, front.msg, front.is_retransmitted)
    /\ t.unsent_seqnos = (s.unsent_seqnos - sequence_length(front.msg)) % Word
    /\ t.unacked_seqnos = (s.unacked_seqnos + sequence_length(front.msg)) % Word
    /\ t.timer = StartIfOff(s.timer)
    /\ t.has_not_sent_SYN = FALSE /\ t.has_not_sent_FIN = s.has_not_sent_FIN
    /\ t.stream_is_finished = s.stream_is_finished /\ t.next_seqno = s.next_seqno
    /\ t.window_size = s.window_size
    /\ t.consecutive_retransmissions = s.consecutive_retransmissions

\* maybe_send moves the front of the queue to the messages it tracks.
LEMMA SendQueuedEffect ==
    ASSUME NEW s \in Sender, s.unsent_msgs # <<>>, ~s.has_not_sent_SYN
    PROVE  QueuedSent(s, SendQueued(s).s, Head(s.unsent_msgs))
  <1> DEFINE t == SendQueued(s).s
             front == Head(s.unsent_msgs)
  <1>1. front \in Wrapped /\ Tail(s.unsent_msgs) \in Seq(Wrapped)
    BY SenderMembers
  <1>2. front.msg \in Msg /\ front.is_retransmitted \in BOOLEAN
    BY <1>1 DEF Wrapped
  <1> DEFINE sent == [front.msg EXCEPT !.SYN = @ \/ s.has_not_sent_SYN]
  <1>3. sent = front.msg
    BY <1>2, SenderMembers DEF Msg
  <1>4. Track(s.unacked_msgs, front.msg, front.is_retransmitted) \in Seq(Msg)
    <2> DEFINE u == s.unacked_msgs
               m == front.msg
    <2>1. u \in Seq(Msg) /\ m \in Msg
      BY <1>2, SenderMembers
    <2> HIDE DEF u, m
    <2>2. Append(u, m) \in Seq(Msg) /\ <<m>> \in Seq(Msg)
      BY <2>1
    <2>3. <<m>> \o u \in Seq(Msg)
      BY <2>1, <2>2, ConcatProperties
    <2> QED BY <2>2, <2>3 DEF Track, u, m
  <1> DEFINE unsent == Tail(s.unsent_msgs)
             unacked == Track(s.unacked_msgs, front.msg, front.is_retransmitted)
             n1 == (s.unsent_seqnos - sequence_length(front.msg)) % Word
             n2 == (s.unacked_seqnos + sequence_length(front.msg)) % Word
             tm == StartIfOff(s.timer)
  <1>5. t = [s EXCEPT !.has_not_sent_SYN = FALSE, !.unsent_seqnos = n1, !.unacked_seqnos = n2,
                      !.unsent_msgs = unsent, !.unacked_msgs = unacked, !.timer = tm]
    BY <1>3 DEF SendQueued
  <1>6. n1 \in Nat /\ n2 \in Nat
    <2>1. sequence_length(front.msg) \in Nat
      BY <1>2, LengthType
    <2>2. /\ s.unsent_seqnos - sequence_length(front.msg) \in Int
          /\ s.unacked_seqnos + sequence_length(front.msg) \in Int
      BY <2>1, SenderMembers
    <2> QED BY <2>2, ModType
  <1>7. tm \in Timer
    BY SenderMembers, StartIfOffEffect
  <1>8. unsent \in Seq(Wrapped) /\ unacked \in Seq(Msg)
    BY <1>1, <1>4
  <1> HIDE DEF n1, n2, tm, unsent, unacked
  <1>9. /\ t.unsent_msgs = unsent /\ t.unacked_msgs = unacked
        /\ t.unsent_seqnos = n1 /\ t.unacked_seqnos = n2 /\ t.timer = tm
        /\ t.has_not_sent_SYN = FALSE /\ t.has_not_sent_FIN = s.has_not_sent_FIN
        /\ t.stream_is_finished = s.stream_is_finished /\ t.next_seqno = s.next_seqno
        /\ t.window_size = s.window_size
        /\ t.consecutive_retransmissions = s.consecutive_retransmissions
    BY <1>5 DEF Sender
  <1>10. t \in Sender
    BY <1>5, <1>6, <1>7, <1>8, ZenonT(60) DEF Sender
  <1> QED BY <1>1, <1>2, <1>9, <1>10 DEF n1, n2, tm, unsent, unacked, QueuedSent

\* The message of SendFlags lies at next_seqno: it holds the SYN, the FIN or both.
FlagsSent(s, t, msg) ==
    /\ t \in Sender /\ msg \in Msg
    /\ msg.seqno = wrap(s.next_seqno, Isn) /\ msg.payload = <<>>
    /\ msg.SYN = s.has_not_sent_SYN /\ msg.FIN = CanSendFIN(s)
    /\ s.unsent_msgs = <<>> /\ t.unsent_msgs = <<>>
    /\ t.unacked_msgs = Append(s.unacked_msgs, msg)
    /\ t.unsent_seqnos = s.unsent_seqnos
    /\ t.unacked_seqnos = (s.unacked_seqnos + sequence_length(msg)) % Word
    /\ t.next_seqno = s.next_seqno + sequence_length(msg)
    /\ t.timer = StartIfOff(s.timer)
    /\ t.has_not_sent_SYN = FALSE /\ t.has_not_sent_FIN = ~CanSendFIN(s)
    /\ t.stream_is_finished = s.stream_is_finished
    /\ t.consecutive_retransmissions = s.consecutive_retransmissions

\* maybe_send makes a message of flags alone when the queue is empty.
LEMMA SendFlagsEffect ==
    ASSUME NEW s \in Sender, FlagsDue(s), NEW t, t = SendFlags(s).s,
           NEW msg, msg = SendFlags(s).msg
    PROVE  FlagsSent(s, t, msg)
  <1>1. CanSendFIN(s) \in BOOLEAN /\ SpendProbe(s) \in BOOLEAN
    BY SenderMembers DEF CanSendFIN, SpendProbe
  <1>2. msg = [seqno |-> wrap(s.next_seqno, Isn), SYN |-> s.has_not_sent_SYN,
               payload |-> <<>>, FIN |-> CanSendFIN(s)]
    BY SenderMembers DEF SendFlags
  <1>3. wrap(s.next_seqno, Isn) \in 0..Word - 1
    BY SenderMembers, WrapType
  <1>4. msg \in Msg
    <2> DEFINE w == wrap(s.next_seqno, Isn)
    <2>1. <<>> \in Seq(0..StreamLen - 1)
      OBVIOUS
    <2> HIDE DEF w
    <2> QED BY <1>1, <1>2, <1>3, <2>1, SenderMembers DEF Msg, w
  <1>5. /\ msg.seqno = wrap(s.next_seqno, Isn) /\ msg.payload = <<>>
        /\ msg.SYN = s.has_not_sent_SYN /\ msg.FIN = CanSendFIN(s)
    BY <1>2
  <1> DEFINE unacked == Append(s.unacked_msgs, msg)
             len == sequence_length(msg)
             n1 == (s.unacked_seqnos + len) % Word
             n2 == s.next_seqno + len
             tm == StartIfOff(s.timer)
             nofin == ~CanSendFIN(s)
             z == SpendProbe(s)
  <1>6. t = [s EXCEPT !.next_seqno = n2, !.unacked_seqnos = n1, !.unacked_msgs = unacked,
                      !.has_not_sent_SYN = FALSE, !.has_not_sent_FIN = nofin,
                      !.zero_window_flag = z, !.timer = tm]
    BY DEF SendFlags
  <1>7. n1 \in Nat /\ n2 \in Nat
    <2>1. len \in Nat
      BY <1>4, LengthType
    <2> HIDE DEF len
    <2>2. s.unacked_seqnos + len \in Int /\ n2 \in Nat
      BY <2>1, SenderMembers
    <2>3. n1 \in Nat
      BY <2>2, ModType
    <2> QED BY <2>2, <2>3
  <1>8. tm \in Timer /\ unacked \in Seq(Msg)
    BY <1>4, SenderMembers, StartIfOffEffect
  <1>9. nofin \in BOOLEAN /\ z \in BOOLEAN
    BY <1>1
  <1> HIDE DEF n1, n2, tm, unacked, nofin, z
  <1>10. /\ t.unsent_msgs = s.unsent_msgs /\ t.unacked_msgs = unacked
         /\ t.unsent_seqnos = s.unsent_seqnos /\ t.unacked_seqnos = n1 /\ t.timer = tm
         /\ t.has_not_sent_SYN = FALSE /\ t.has_not_sent_FIN = nofin
         /\ t.stream_is_finished = s.stream_is_finished /\ t.next_seqno = n2
         /\ t.window_size = s.window_size
         /\ t.consecutive_retransmissions = s.consecutive_retransmissions
    BY <1>6 DEF Sender
  <1>11. t \in Sender
    BY <1>6, <1>7, <1>8, <1>9, ZenonT(60) DEF Sender
  <1> HIDE DEF len
  <1>12. s.unsent_msgs = <<>>
    BY DEF FlagsDue
  <1> QED BY <1>4, <1>5, <1>10, <1>11, <1>12 DEF n1, n2, tm, unacked, len, nofin, FlagsSent

\* timer_start: the time left is the whole RTO.
LEMMA TimerStartEffect ==
    ASSUME NEW t \in Timer
    PROVE  /\ timer_start(t) \in Timer
           /\ timer_start(t).is_on /\ timer_start(t).RTO = t.RTO
           /\ timer_start(t).timeout = t.RTO
  BY DEF Timer, timer_start

\* timer_tick: the time left does not go below zero.
LEMMA TimerTickEffect ==
    ASSUME NEW t \in Timer, NEW ms \in TickMs
    PROVE  /\ timer_tick(t, ms) \in Timer
           /\ timer_tick(t, ms).is_on = t.is_on /\ timer_tick(t, ms).RTO = t.RTO
           /\ timer_tick(t, ms).timeout = IF t.timeout <= ms THEN 0 ELSE t.timeout - ms
  <1> DEFINE left == IF t.timeout <= ms THEN 0 ELSE t.timeout - ms
  <1>1. left \in Nat
    BY TimerMembers
  <1>2. timer_tick(t, ms) = [t EXCEPT !.timeout = left]
    BY DEF timer_tick
  <1> HIDE DEF left
  <1>3. /\ timer_tick(t, ms) \in Timer
        /\ timer_tick(t, ms).is_on = t.is_on /\ timer_tick(t, ms).RTO = t.RTO
        /\ timer_tick(t, ms).timeout = left
    BY <1>1, <1>2 DEF Timer
  <1> QED BY <1>3 DEF left

\* A tick that does not make the timer expire changes what it has left.
LEMMA TickEffect ==
    ASSUME NEW s \in Sender, NEW ms \in TickMs, s.timer.is_on, ~Expires(s, ms),
           NEW t, t = tick(s, ms)
    PROVE  /\ t = [s EXCEPT !.timer = timer_tick(s.timer, ms)]
           /\ t \in Sender
           /\ t.timer = timer_tick(s.timer, ms)
           /\ t.unsent_msgs = s.unsent_msgs /\ t.unacked_msgs = s.unacked_msgs
           /\ t.unsent_seqnos = s.unsent_seqnos /\ t.unacked_seqnos = s.unacked_seqnos
           /\ t.next_seqno = s.next_seqno /\ t.stream_is_finished = s.stream_is_finished
           /\ t.has_not_sent_SYN = s.has_not_sent_SYN /\ t.has_not_sent_FIN = s.has_not_sent_FIN
           /\ t.consecutive_retransmissions = s.consecutive_retransmissions
  <1> DEFINE tm == timer_tick(s.timer, ms)
  <1>1. t = [s EXCEPT !.timer = tm]
    BY DEF tick
  <1>2. tm \in Timer
    BY SenderMembers, TimerTickEffect
  <1> HIDE DEF tm
  <1>3. /\ t \in Sender
        /\ t.timer = tm
        /\ t.unsent_msgs = s.unsent_msgs /\ t.unacked_msgs = s.unacked_msgs
        /\ t.unsent_seqnos = s.unsent_seqnos /\ t.unacked_seqnos = s.unacked_seqnos
        /\ t.next_seqno = s.next_seqno /\ t.stream_is_finished = s.stream_is_finished
        /\ t.has_not_sent_SYN = s.has_not_sent_SYN /\ t.has_not_sent_FIN = s.has_not_sent_FIN
        /\ t.consecutive_retransmissions = s.consecutive_retransmissions
    BY <1>1, <1>2 DEF Sender
  <1> QED BY <1>1, <1>3 DEF tm

\* The timer expired: the oldest unacked message is queued again and, unless the
\* window is zero, the timeout is doubled.
Expired(s, t, msg, w) ==
    /\ t \in Sender /\ msg \in Msg /\ w \in Wrapped
    /\ t.unsent_msgs = <<w>> \o s.unsent_msgs
    /\ t.unacked_msgs = Tail(s.unacked_msgs)
    /\ t.unsent_seqnos = (s.unsent_seqnos + sequence_length(msg)) % Word
    /\ t.unacked_seqnos = (s.unacked_seqnos - sequence_length(msg)) % Word
    /\ t.next_seqno = s.next_seqno /\ t.stream_is_finished = s.stream_is_finished
    /\ t.has_not_sent_SYN = s.has_not_sent_SYN /\ t.has_not_sent_FIN = s.has_not_sent_FIN
    /\ t.timer.is_on /\ t.timer.timeout = t.timer.RTO
    /\ \/ /\ t.timer.RTO = s.timer.RTO
          /\ t.consecutive_retransmissions = s.consecutive_retransmissions
       \/ /\ t.timer.RTO = s.timer.RTO * 2
          /\ t.consecutive_retransmissions = s.consecutive_retransmissions + 1

\* tick at an expiry requeues the first tracked message and backs off.
LEMMA ExpiryEffect ==
    ASSUME NEW s \in Sender, NEW ms \in TickMs, Expires(s, ms), s.unacked_msgs # <<>>,
           NEW t, t = tick(s, ms),
           NEW msg, msg = Head(s.unacked_msgs),
           NEW w, w = [msg |-> msg, is_retransmitted |-> TRUE]
    PROVE  Expired(s, t, msg, w)
  <1> DEFINE tm == timer_tick(s.timer, ms)
             len == sequence_length(msg)
             n1 == (s.unacked_seqnos - len) % Word
             n2 == (s.unsent_seqnos + len) % Word
             unsent == <<w>> \o s.unsent_msgs
             unacked == Tail(s.unacked_msgs)
  <1>1. tm \in Timer /\ tm.RTO = s.timer.RTO
    BY SenderMembers, TimerTickEffect
  <1>2. msg \in Msg /\ unacked \in Seq(Msg)
    BY SenderMembers
  <1>3. w \in Wrapped
    BY <1>2 DEF Wrapped
  <1>4. unsent \in Seq(Wrapped)
    <2>1. <<w>> \in Seq(Wrapped) /\ s.unsent_msgs \in Seq(Wrapped)
      BY <1>3, SenderMembers
    <2> QED BY <2>1, ConcatProperties
  <1>5. n1 \in Nat /\ n2 \in Nat
    <2>1. len \in Nat
      BY <1>2, LengthType
    <2> HIDE DEF len
    <2>2. s.unacked_seqnos - len \in Int /\ s.unsent_seqnos + len \in Int
      BY <2>1, SenderMembers
    <2> QED BY <2>2, ModType
  <1> DEFINE u == [s EXCEPT !.timer = tm]
             q == [u EXCEPT !.unacked_seqnos = n1, !.unsent_seqnos = n2,
                            !.unacked_msgs = unacked, !.unsent_msgs = unsent]
             b == BackOff(q)
  <1>6. t = [b EXCEPT !.timer = timer_start(@)]
    <2>1. s.timer.is_on
      BY DEF Expires
    <2>2. t = Requeue(u)
      BY <2>1 DEF tick
    <2>3. /\ u.unacked_msgs = s.unacked_msgs /\ u.unsent_msgs = s.unsent_msgs
          /\ u.unacked_seqnos = s.unacked_seqnos /\ u.unsent_seqnos = s.unsent_seqnos
      BY DEF Sender
    <2> QED BY <2>2, <2>3 DEF Requeue
  <1> HIDE DEF tm, n1, n2, unsent, unacked
  <1>7. /\ q \in Sender /\ q.unsent_msgs = unsent /\ q.unacked_msgs = unacked
        /\ q.unsent_seqnos = n2 /\ q.unacked_seqnos = n1 /\ q.timer = tm
        /\ q.next_seqno = s.next_seqno /\ q.stream_is_finished = s.stream_is_finished
        /\ q.has_not_sent_SYN = s.has_not_sent_SYN /\ q.has_not_sent_FIN = s.has_not_sent_FIN
        /\ q.consecutive_retransmissions = s.consecutive_retransmissions
    BY <1>1, <1>2, <1>4, <1>5 DEF Sender
  <1> HIDE DEF q
  <1>8. /\ b \in Sender /\ b.unsent_msgs = unsent /\ b.unacked_msgs = unacked
        /\ b.unsent_seqnos = n2 /\ b.unacked_seqnos = n1
        /\ b.next_seqno = s.next_seqno /\ b.stream_is_finished = s.stream_is_finished
        /\ b.has_not_sent_SYN = s.has_not_sent_SYN /\ b.has_not_sent_FIN = s.has_not_sent_FIN
        /\ \/ /\ b.timer.RTO = s.timer.RTO
              /\ b.consecutive_retransmissions = s.consecutive_retransmissions
           \/ /\ b.timer.RTO = s.timer.RTO * 2
              /\ b.consecutive_retransmissions = s.consecutive_retransmissions + 1
    <2>1. CASE q.window_size = 0
      BY <1>1, <1>7, <2>1 DEF BackOff
    <2>2. CASE q.window_size # 0
      <3> DEFINE r == [tm EXCEPT !.RTO = @ * 2]
                 c == q.consecutive_retransmissions + 1
      <3>1. r \in Timer /\ r.RTO = s.timer.RTO * 2
        BY <1>1, SMTT(60) DEF Timer
      <3>2. c \in Nat
        BY <1>7, SenderMembers
      <3>3. b = [q EXCEPT !.consecutive_retransmissions = c, !.timer = r]
        BY <1>7, <2>2 DEF BackOff, Sender
      <3> HIDE DEF r, c, b
      <3>4. b \in Sender /\ b.timer = r /\ b.consecutive_retransmissions = c
        BY <1>7, <3>1, <3>2, <3>3 DEF Sender
      <3>5. /\ b.unsent_msgs = q.unsent_msgs /\ b.unacked_msgs = q.unacked_msgs
            /\ b.unsent_seqnos = q.unsent_seqnos /\ b.unacked_seqnos = q.unacked_seqnos
            /\ b.next_seqno = q.next_seqno /\ b.stream_is_finished = q.stream_is_finished
            /\ b.has_not_sent_SYN = q.has_not_sent_SYN /\ b.has_not_sent_FIN = q.has_not_sent_FIN
        BY <3>3 DEF Sender
      <3> QED BY <1>7, <3>1, <3>4, <3>5 DEF c
    <2> QED BY <2>1, <2>2
  <1> HIDE DEF b
  <1> DEFINE started == timer_start(b.timer)
  <1>9. /\ started \in Timer /\ started.is_on /\ started.RTO = b.timer.RTO
        /\ started.timeout = b.timer.RTO
    BY <1>8, SenderMembers, TimerStartEffect
  <1>10. t = [b EXCEPT !.timer = started]
    BY <1>6
  <1> HIDE DEF started
  <1>11. /\ t \in Sender /\ t.timer = started
         /\ t.unsent_msgs = b.unsent_msgs /\ t.unacked_msgs = b.unacked_msgs
         /\ t.unsent_seqnos = b.unsent_seqnos /\ t.unacked_seqnos = b.unacked_seqnos
         /\ t.next_seqno = b.next_seqno /\ t.stream_is_finished = b.stream_is_finished
         /\ t.has_not_sent_SYN = b.has_not_sent_SYN /\ t.has_not_sent_FIN = b.has_not_sent_FIN
         /\ t.consecutive_retransmissions = b.consecutive_retransmissions
    BY <1>8, <1>9, <1>10, ZenonT(60) DEF Sender
  <1> QED BY <1>2, <1>3, <1>8, <1>9, <1>11 DEF n1, n2, unsent, unacked, len, Expired

\* The loop of TakeAck stops at the first message that is not acknowledged.
LEMMA AckedCountExists ==
    ASSUME NEW s \in Sender, NEW ackno \in Nat, NEW n, n = AckedCount(s, ackno)
    PROVE  /\ n \in 0..Len(s.unacked_msgs)
           /\ \A i \in 1..n : FullyAcked(s, s.unacked_msgs[i], ackno)
  <1> DEFINE L == Len(s.unacked_msgs)
             full(i) == FullyAcked(s, s.unacked_msgs[i], ackno)
             T == {m \in 0..L : m < L => ~full(m + 1)}
             stops(m) == (\A i \in 1..m : full(i)) /\ (m < L => ~full(m + 1))
  <1>1. L \in Nat
    BY SenderMembers
  <1>2. n = CHOOSE m \in 0..L : stops(m)
    BY DEF AckedCount
  <1> HIDE DEF L, full
  <1>3. T \in SUBSET Nat /\ L \in T
    BY <1>1
  <1>4. PICK m \in T : \A k \in T : m <= k
    <2> HIDE DEF T
    <2> QED BY <1>3, LeastNatural
  <1>5. ASSUME NEW i \in 1..m PROVE full(i)
    <2>1. i - 1 \in 0..L /\ i - 1 < L /\ ~(m <= i - 1) /\ (i - 1) + 1 = i
      BY <1>1, <1>4
    <2>2. i - 1 \notin T
      BY <1>4, <2>1
    <2> QED BY <2>1, <2>2
  <1>6. \E k \in 0..L : stops(k)
    BY <1>4, <1>5
  <1> HIDE DEF stops
  <1>7. n \in 0..L /\ stops(n)
    BY <1>2, <1>6
  <1> QED BY <1>7 DEF L, stops, full

AckEffect(s, t, n, acked) ==
    LET rest == SubSeq(s.unacked_msgs, n + 1, Len(s.unacked_msgs))
    IN  /\ n \in 1..Len(s.unacked_msgs) /\ rest \in Seq(Msg)
        /\ t \in Sender
        /\ t.unacked_msgs = rest
        /\ t.unacked_seqnos = (s.unacked_seqnos - acked) % Word
        /\ t.unsent_msgs = s.unsent_msgs /\ t.unsent_seqnos = s.unsent_seqnos
        /\ t.next_seqno = s.next_seqno /\ t.stream_is_finished = s.stream_is_finished
        /\ t.has_not_sent_SYN = s.has_not_sent_SYN /\ t.has_not_sent_FIN = s.has_not_sent_FIN
        /\ t.timer.is_on <=> rest # <<>>
        /\ t.timer.RTO = InitialRTO /\ t.consecutive_retransmissions = 0
        /\ t.timer.is_on => t.timer.timeout = InitialRTO

\* receive drops what the acknowledgment covers and resets the timer.
LEMMA TakeAckEffect ==
    ASSUME NEW s \in Sender, NEW ackno \in Nat, AckedCount(s, ackno) # 0,
           SeqnosOfFirst(s, AckedCount(s, ackno)) \in Int
    PROVE  AckEffect(s, TakeAck(s, ackno), AckedCount(s, ackno),
                     SeqnosOfFirst(s, AckedCount(s, ackno)))
  <1> DEFINE n == AckedCount(s, ackno)
             acked == SeqnosOfFirst(s, n)
             rest == SubSeq(s.unacked_msgs, n + 1, Len(s.unacked_msgs))
             t == TakeAck(s, ackno)
  <1>1. n \in 1..Len(s.unacked_msgs)
    <2>1. n \in 0..Len(s.unacked_msgs)
      BY AckedCountExists
    <2> QED BY <2>1
  <1>2. rest \in Seq(Msg)
    BY <1>1, SenderMembers
  <1> DEFINE tm == TimerAfterAck(s.timer, rest = <<>>)
             n1 == (s.unacked_seqnos - acked) % Word
  <1>3. t = [s EXCEPT !.unacked_seqnos = n1, !.unacked_msgs = rest,
                      !.consecutive_retransmissions = 0, !.timer = tm]
    BY DEF TakeAck
  <1>4. n1 \in Nat
    <2>1. s.unacked_seqnos - acked \in Int
      BY SenderMembers
    <2> QED BY <2>1, ModType
  <1>5. /\ tm \in Timer /\ tm.RTO = InitialRTO
        /\ tm.is_on <=> rest # <<>>
        /\ tm.is_on => tm.timeout = InitialRTO
    <2> DEFINE reset == [s.timer EXCEPT !.RTO = InitialRTO]
    <2>1. reset \in Timer /\ reset.RTO = InitialRTO
      BY SenderMembers DEF Timer
    <2>2. CASE rest = <<>>
      <3>1. tm = [reset EXCEPT !.is_on = FALSE]
        BY <2>2 DEF TimerAfterAck
      <3> HIDE DEF reset, tm
      <3> QED BY <2>1, <2>2, <3>1 DEF Timer
    <2>3. CASE rest # <<>>
      <3>1. tm = timer_start(reset)
        BY <2>3 DEF TimerAfterAck
      <3> HIDE DEF reset, tm
      <3> QED BY <2>1, <2>3, <3>1, TimerStartEffect
    <2> QED BY <2>2, <2>3
  <1> HIDE DEF tm, n1, rest, n, acked, t
  <1>6. t \in Sender
    <2>1. tm \in Timer /\ 0 \in Nat
      BY <1>5
    <2> QED BY <1>2, <1>3, <1>4, <2>1 DEF Sender
  <1>7. /\ t.unacked_msgs = rest /\ t.unacked_seqnos = n1
        /\ t.unsent_msgs = s.unsent_msgs /\ t.unsent_seqnos = s.unsent_seqnos
        /\ t.next_seqno = s.next_seqno /\ t.stream_is_finished = s.stream_is_finished
        /\ t.has_not_sent_SYN = s.has_not_sent_SYN /\ t.has_not_sent_FIN = s.has_not_sent_FIN
        /\ t.timer = tm /\ t.consecutive_retransmissions = 0
    BY <1>3 DEF Sender
  <1> QED BY <1>1, <1>2, <1>5, <1>6, <1>7 DEF n1, n, acked, rest, t, AckEffect

\* The window is taken over before the acknowledgment is looked at.
Announced(s, size) ==
    [s EXCEPT !.window_size = size, !.zero_window_flag = (size = 0)]

WindowTaken(s, w) ==
    /\ w \in Sender /\ w.isn = s.isn
    /\ w.unacked_msgs = s.unacked_msgs /\ w.unacked_seqnos = s.unacked_seqnos
    /\ w.unsent_msgs = s.unsent_msgs /\ w.unsent_seqnos = s.unsent_seqnos
    /\ w.next_seqno = s.next_seqno /\ w.stream_is_finished = s.stream_is_finished
    /\ w.has_not_sent_SYN = s.has_not_sent_SYN /\ w.has_not_sent_FIN = s.has_not_sent_FIN
    /\ w.timer = s.timer
    /\ w.consecutive_retransmissions = s.consecutive_retransmissions

\* receive takes the window of the peer over.
LEMMA WindowEffect ==
    ASSUME NEW s \in Sender, NEW size \in WindowSizes
    PROVE  WindowTaken(s, Announced(s, size))
  <1> DEFINE w == Announced(s, size)
  <1> DEFINE z == (size = 0)
  <1>1. z \in BOOLEAN /\ size \in Nat
    OBVIOUS
  <1>2. w = [s EXCEPT !.window_size = size, !.zero_window_flag = z]
    BY DEF Announced
  <1> HIDE DEF z, w
  <1>3. WindowTaken(s, w)
    BY <1>1, <1>2 DEF Sender, WindowTaken
  <1> QED BY <1>3 DEF w

\* What push takes from the stream fits the window, or probes a window of zero.
LEMMA TakenBounds ==
    ASSUME NEW s \in Sender, NEW o \in Stream, NEW taken, taken = BytesToTake(s, o)
    PROVE  /\ taken \in 0..Len(o.queue)
           /\ taken > 0 => MaySendNew(s)
           /\ s.window_size > 0 /\ taken > 0
                => taken <= s.window_size - sequence_numbers_in_flight(s)
  <1> DEFINE L == Len(o.queue)
             room == s.window_size - sequence_numbers_in_flight(s)
  <1>1. L \in Nat /\ s.window_size \in Nat /\ sequence_numbers_in_flight(s) \in Nat
    BY SenderMembers, InFlightType DEF Stream
  <1>2. taken = IF ~MaySendNew(s) THEN 0
                ELSE Smaller(L, IF s.window_size = 0 THEN 1 ELSE room)
    BY DEF BytesToTake, bytes_buffered
  <1>3. MaySendNew(s) => s.window_size = 0 \/ room > 0
    BY <1>1 DEF MaySendNew
  <1> HIDE DEF L
  <1>4. room \in Int
    BY <1>1
  <1> HIDE DEF room
  <1>5. /\ taken \in 0..L
        /\ taken > 0 => MaySendNew(s)
        /\ s.window_size > 0 /\ taken > 0 => taken <= room
    BY <1>1, <1>2, <1>3, <1>4 DEF Smaller
  <1> QED BY <1>5 DEF L, room

\* Multiplication by a natural number is monotone.
LEMMA Multiples ==
    ASSUME NEW a \in Nat, NEW b \in Nat, a <= b, NEW M \in Nat
    PROVE  a * M <= b * M
  <1>1. (b - a) * M >= 0
    OBVIOUS
  <1> QED BY <1>1

\* How often the loop of push runs.
Count(taken) == (taken + MAX_PAYLOAD_SIZE - 1) \div MAX_PAYLOAD_SIZE

\* It runs once for every segment begun.
LEMMA SegmentCount ==
    ASSUME NEW taken \in Nat
    PROVE  /\ Count(taken) \in Nat
           /\ taken <= Count(taken) * MAX_PAYLOAD_SIZE
           /\ \A k \in 1..Count(taken) : (k - 1) * MAX_PAYLOAD_SIZE < taken
           /\ Count(taken) = 0 <=> taken = 0
  <1> DEFINE M == MAX_PAYLOAD_SIZE
             c == Count(taken)
  <1>0. M \in Nat \ {0} /\ c = (taken + M - 1) \div M
    BY DEF Count
  <1> HIDE DEF M, c
  <1>1. c \in Int /\ c * M <= taken + M - 1 /\ taken + M - 1 < c * M + M
    <2> DEFINE a == taken + M - 1
    <2>1. a \in Nat /\ c = a \div M
      BY <1>0
    <2> HIDE DEF a
    <2>2. a = (a \div M) * M + (a % M) /\ a % M \in 0..M - 1 /\ a \div M \in Int
      BY <1>0, <2>1
    <2>3. c \in Int /\ c * M <= a /\ a < c * M + M
      BY <1>0, <2>1, <2>2
    <2> QED BY <2>3 DEF a
  <1>2. taken <= c * M
    BY <1>0, <1>1
  <1>3. c \in Nat
    <2>1. CASE c < 0
      <3>1. -c - 1 \in Nat /\ 0 <= -c - 1
        BY <1>1, <2>1
      <3>2. (-c - 1) * M >= 0
        BY <1>0, <3>1
      <3>3. c * M <= -M
        BY <1>0, <1>1, <3>2
      <3> QED BY <1>0, <1>1, <1>2, <3>3
    <2> QED BY <1>1, <2>1
  <1>4. ASSUME NEW k \in 1..c PROVE (k - 1) * M < taken
    <2>1. k - 1 \in Nat /\ c - 1 \in Nat /\ k - 1 <= c - 1
      BY <1>3
    <2>2. (k - 1) * M <= (c - 1) * M
      BY <1>0, <2>1, Multiples
    <2>3. (c - 1) * M = c * M - M
      BY <1>0, <1>3
    <2> QED BY <1>0, <1>1, <1>3, <2>1, <2>2, <2>3
  <1>5. c = 0 => taken = 0
    <2> SUFFICES ASSUME c = 0 PROVE taken = 0
      OBVIOUS
    <2>1. c * M = 0
      BY <1>0
    <2> QED BY <1>2, <2>1
  <1>6. taken = 0 => c = 0
    <2> SUFFICES ASSUME taken = 0, c # 0 PROVE FALSE
      OBVIOUS
    <2>1. 1 \in 1..c
      BY <1>3
    <2>2. (1 - 1) * M = 0
      BY <1>0
    <2> QED BY <1>4, <2>1, <2>2
  <1> QED BY <1>2, <1>3, <1>4, <1>5, <1>6 DEF M, c

\* push between its loop and its treatment of the FIN.
Cut(s, o) ==
    LET taken == BytesToTake(s, o)
    IN  [s EXCEPT !.unsent_msgs = @ \o Segments(s, o),
                  !.unsent_seqnos = (@ + taken) % Word,
                  !.next_seqno = @ + taken,
                  !.zero_window_flag = IF taken > 0 THEN SpendProbe(s) ELSE @,
                  !.stream_is_finished = is_finished(pop(o, taken))]

\* push cuts the bytes it takes into segments, then attaches the FIN.
LEMMA PushIsCut ==
    ASSUME NEW s, NEW o
    PROVE  /\ push_stream(s, o).s = AttachFIN(Cut(s, o))
           /\ push_stream(s, o).outbound = pop(o, BytesToTake(s, o))
  BY DEF push_stream, Cut

\* How many bytes of what push takes are in its first k segments.
Covered(k, taken) == Smaller(k * MAX_PAYLOAD_SIZE, taken)

\* The first k segments cover no more than was taken.
LEMMA CoveredType ==
    ASSUME NEW k \in Nat, NEW taken \in Nat
    PROVE  /\ Covered(k, taken) \in 0..taken
           /\ Covered(0, taken) = 0
  <1>1. k * MAX_PAYLOAD_SIZE \in Nat /\ 0 * MAX_PAYLOAD_SIZE = 0
    OBVIOUS
  <1> DEFINE x == k * MAX_PAYLOAD_SIZE
  <1>2. Covered(k, taken) = Smaller(x, taken) /\ Covered(0, taken) = Smaller(0, taken)
    BY <1>1 DEF Covered
  <1> HIDE DEF x
  <1>3. x \in Nat
    BY <1>1 DEF x
  <1> QED BY <1>2, <1>3 DEF Smaller

\* Each segment holds the bytes that belong at its sequence number.
LEMMA SegmentPlace ==
    ASSUME NEW s \in Sender, NEW o \in Stream, StreamInv(o),
           NEW taken, taken = BytesToTake(s, o), s.next_seqno = o.bytes_popped + 1,
           NEW k \in 1..Len(Segments(s, o)),
           NEW w, w = Segments(s, o)[k]
    PROVE  /\ w \in Wrapped /\ ~w.is_retransmitted /\ ~w.msg.FIN
           /\ At(w.msg, s.next_seqno + Covered(k - 1, taken))
           /\ s.next_seqno + Covered(k, taken)
                = s.next_seqno + Covered(k - 1, taken) + sequence_length(w.msg)
  <1> DEFINE M == MAX_PAYLOAD_SIZE
             c == Count(taken)
             before == (k - 1) * M
             upto == Smaller(k * M, taken)
             payload == SubSeq(o.queue, before + 1, upto)
             pos == s.next_seqno + before
  <1>1. taken \in Nat /\ taken <= Len(o.queue) /\ Len(o.queue) \in Nat
    BY TakenBounds DEF Stream
  <1>2. c \in Nat /\ \A i \in 1..c : (i - 1) * M < taken
    BY <1>1, SegmentCount
  <1>3. Len(Segments(s, o)) = c
    BY <1>2 DEF Segments, Count
  <1>4. k \in Nat /\ k >= 1 /\ k \in 1..c
    BY <1>2, <1>3
  <1>5. before \in Nat /\ before < taken /\ k * M = before + M /\ M \in Nat \ {0}
    BY <1>2, <1>4
  <1>6. w = [msg |-> [seqno |-> wrap(pos, s.isn), SYN |-> FALSE, payload |-> payload,
                      FIN |-> FALSE],
             is_retransmitted |-> FALSE]
    BY <1>3, <1>4 DEF Segments, Count
  <1>7. Covered(k - 1, taken) = before /\ Covered(k, taken) = upto
    BY <1>1, <1>5 DEF Covered, Smaller
  <1>8. upto \in Nat /\ before < upto /\ upto <= before + M /\ upto <= taken
    BY <1>1, <1>5 DEF Smaller
  <1> HIDE DEF c, before, upto, M
  <1>9. /\ payload \in Seq(0..StreamLen - 1) /\ Len(payload) = upto - before
        /\ \A j \in 1..Len(payload) : payload[j] = o.queue[before + j]
    <2> DEFINE q == o.queue
    <2>1. q \in Seq(0..StreamLen - 1)
      BY DEF Stream
    <2>2. Len(q) \in Nat /\ upto <= Len(q)
      BY <1>1, <1>8
    <2> HIDE DEF q
    <2>3. SubSeq(q, before + 1, upto) \in Seq(0..StreamLen - 1)
      BY <1>5, <1>8, <2>1, <2>2, SMTT(60)
    <2>4. Len(SubSeq(q, before + 1, upto)) = upto - before
      BY <1>5, <1>8, <2>1, <2>2
    <2>5. \A j \in 1..(upto - before) : SubSeq(q, before + 1, upto)[j] = q[before + j]
      BY <1>5, <1>8, <2>1, <2>2
    <2> QED BY <2>3, <2>4, <2>5 DEF q
  <1>10. pos \in Nat /\ pos > 0 /\ pos = o.bytes_popped + 1 + before /\ o.bytes_popped \in Nat
    BY <1>5, SenderMembers, SMTT(60) DEF Stream
  <1>11. wrap(pos, s.isn) = wrap(pos, Isn) /\ wrap(pos, Isn) \in 0..Word - 1
    BY <1>10, SenderMembers, WrapType
  <1> HIDE DEF payload, pos
  <1> DEFINE raw == wrap(pos, Isn)
  <1>12. w.msg = [seqno |-> raw, SYN |-> FALSE, payload |-> payload, FIN |-> FALSE]
         /\ w.is_retransmitted = FALSE /\ w = [msg |-> w.msg, is_retransmitted |-> FALSE]
    BY <1>6, <1>11
  <1>13. raw \in 0..Word - 1
    BY <1>11
  <1> HIDE DEF raw
  <1> DEFINE msg == w.msg
  <1>14. msg \in Msg /\ w \in Wrapped
    <2>1. [seqno |-> raw, SYN |-> FALSE, payload |-> payload, FIN |-> FALSE] \in Msg
      BY <1>9, <1>13 DEF Msg
    <2>2. msg \in Msg
      BY <1>12, <2>1
    <2> HIDE DEF msg
    <2>3. [msg |-> msg, is_retransmitted |-> FALSE] \in Wrapped
      BY <2>2 DEF Wrapped
    <2> QED BY <1>12, <2>2, <2>3 DEF msg
  <1>15. /\ msg.seqno = raw /\ msg.SYN = FALSE /\ msg.payload = payload /\ msg.FIN = FALSE
    BY <1>12
  <1> HIDE DEF msg
  <1>16. One(msg.SYN) = 0 /\ One(msg.FIN) = 0
    BY <1>15 DEF One
  <1>17. sequence_length(msg) = upto - before
    BY <1>5, <1>8, <1>9, <1>15, <1>16 DEF sequence_length
  <1>18. ASSUME NEW j \in DOMAIN msg.payload
         PROVE  msg.payload[j] = pos + One(msg.SYN) + j - 2
    <2>1. j \in 1..Len(payload) /\ j \in Nat /\ Len(payload) \in Nat
      BY <1>5, <1>8, <1>9, <1>15, SMTT(60)
    <2>2. payload[j] = o.queue[before + j]
      BY <1>9, <2>1
    <2>0. /\ before \in Nat /\ upto \in Nat /\ upto <= taken /\ j >= 1
          /\ j <= upto - before /\ pos \in Nat /\ pos = o.bytes_popped + 1 + before /\ o.bytes_popped \in Nat
      BY <1>5, <1>8, <1>9, <1>10, <2>1, SMTT(60)
    <2>3. before + j \in 1..Len(o.queue)
      BY <1>1, <2>0, <2>1, SMTT(60)
    <2>4. o.queue[before + j] = o.bytes_popped + (before + j) - 1
      BY <2>3 DEF StreamInv
    <2>5. pos + 0 + j - 2 = o.bytes_popped + (before + j) - 1
      <3> DEFINE b == o.bytes_popped
      <3>1. b \in Nat /\ before \in Nat /\ j \in Nat /\ pos = b + 1 + before
        BY <2>0, <2>1
      <3> HIDE DEF b
      <3>2. pos + 0 + j - 2 = b + (before + j) - 1
        BY <3>1
      <3> QED BY <3>2 DEF b
    <2> QED BY <1>15, <1>16, <2>2, <2>4, <2>5
  <1>19. At(msg, pos)
    <2>1. msg.seqno = wrap(pos, Isn)
      BY <1>15 DEF raw
    <2>2. msg.SYN <=> pos = 0
      BY <1>10, <1>15
    <2>3. Len(msg.payload) <= MAX_PAYLOAD_SIZE /\ sequence_length(msg) > 0
      BY <1>5, <1>8, <1>9, <1>15, <1>17, SMTT(60) DEF M
    <2> QED BY <1>18, <2>1, <2>2, <2>3 DEF At
  <1>20. s.next_seqno + Covered(k, taken)
           = s.next_seqno + Covered(k - 1, taken) + sequence_length(msg)
    BY <1>5, <1>7, <1>8, <1>17, SenderMembers
  <1>21. pos = s.next_seqno + Covered(k - 1, taken)
    BY <1>7 DEF pos
  <1> QED BY <1>12, <1>14, <1>15, <1>19, <1>20, <1>21 DEF msg

\* push makes as many segments as its loop runs.
LEMMA SegmentsType ==
    ASSUME NEW s \in Sender, NEW o \in Stream, StreamInv(o),
           NEW taken, taken = BytesToTake(s, o), taken > 0 => s.next_seqno = o.bytes_popped + 1
    PROVE  Segments(s, o) \in Seq(Wrapped) /\ Len(Segments(s, o)) = Count(taken)
  <1> DEFINE segs == Segments(s, o)
  <1>1. taken \in Nat
    BY TakenBounds DEF Stream
  <1>2. Count(taken) \in Nat /\ (Count(taken) = 0 <=> taken = 0)
    BY <1>1, SegmentCount
  <1>3. segs = [k \in 1..Count(taken) |-> segs[k]] /\ Len(segs) = Count(taken)
    <2>1. Len(segs) = Count(taken) /\ DOMAIN segs = 1..Count(taken)
      BY <1>2 DEF Segments, Count
    <2>2. segs = [k \in DOMAIN segs |-> segs[k]]
      BY DEF Segments
    <2> HIDE DEF segs
    <2> QED BY <2>1, <2>2
  <1>4. ASSUME NEW k \in 1..Count(taken) PROVE segs[k] \in Wrapped
    <2>1. s.next_seqno = o.bytes_popped + 1 /\ k \in 1..Len(segs)
      BY <1>1, <1>2, <1>3, <1>4
    <2> QED BY <2>1, SegmentPlace
  <1> HIDE DEF segs
  <1> DEFINE n == Count(taken)
  <1> HIDE DEF n
  <1>5. segs \in Seq(Wrapped)
    <2>1. n \in Nat /\ segs = [k \in 1..n |-> segs[k]] /\ \A k \in 1..n : segs[k] \in Wrapped
      BY <1>2, <1>3, <1>4 DEF n
    <2>2. segs \in [1..n -> Wrapped]
      BY <2>1
    <2> QED BY <2>1, <2>2
  <1> QED BY <1>3, <1>5 DEF segs

\* What taking bytes from the stream leaves of it.
LEMMA PopEffect ==
    ASSUME NEW o \in Stream, StreamInv(o), NEW taken \in 0..Len(o.queue),
           NEW r, r = pop(o, taken)
    PROVE  /\ r \in Stream /\ StreamInv(r)
           /\ r.bytes_popped = o.bytes_popped + taken /\ r.bytes_pushed = o.bytes_pushed
           /\ r.closed = o.closed
           /\ r.queue = <<>> <=> taken = Len(o.queue)
  <1> DEFINE q == o.queue
             left == SubSeq(q, taken + 1, Len(q))
             n == o.bytes_popped + taken
  <1>1. q \in Seq(0..StreamLen - 1) /\ Len(q) \in Nat /\ taken \in Nat /\ taken <= Len(q)
        /\ o.bytes_popped \in Nat
    BY DEF Stream
  <1>2. r = [o EXCEPT !.queue = left, !.bytes_popped = n]
    BY <1>1 DEF pop, bytes_buffered, Smaller
  <1> HIDE DEF q
  <1>3. /\ left \in Seq(0..StreamLen - 1) /\ Len(left) = Len(q) - taken
        /\ \A k \in 1..Len(q) - taken : left[k] = q[taken + k]
    BY <1>1, SMTT(60)
  <1>4. n \in Nat
    BY <1>1
  <1> HIDE DEF left
  <1>5. /\ r \in Stream /\ r.queue = left /\ r.bytes_popped = n
        /\ r.bytes_pushed = o.bytes_pushed /\ r.closed = o.closed
    <2> HIDE DEF n
    <2> QED BY <1>2, <1>3, <1>4 DEF Stream
  <1>6. left = <<>> <=> taken = Len(q)
    BY <1>1, <1>3
  <1>7. StreamInv(r)
    <2>1. o.bytes_popped + Len(q) = o.bytes_pushed
          /\ \A k \in 1..Len(q) : q[k] = o.bytes_popped + k - 1
      BY DEF StreamInv, q
    <2>2. n + Len(left) = o.bytes_pushed
      BY <1>1, <1>3, <2>1
    <2>3. ASSUME NEW k \in 1..Len(left) PROVE left[k] = n + k - 1
      <3>1. k \in Nat /\ k \in 1..Len(q) - taken /\ taken + k \in 1..Len(q)
        BY <1>1, <1>3
      <3>2. left[k] = o.bytes_popped + (taken + k) - 1
        BY <1>3, <2>1, <3>1
      <3> QED BY <1>1, <3>1, <3>2, SMTT(60)
    <2> QED BY <1>5, <2>2, <2>3 DEF StreamInv
  <1> QED BY <1>5, <1>6, <1>7 DEF n, q

\* The members between the loop of push and its treatment of the FIN.
WasCut(s, o, taken, q) ==
    /\ q \in Sender
    /\ q.unsent_msgs = Segments(s, o) /\ q.unacked_msgs = s.unacked_msgs
    /\ q.unsent_seqnos = (s.unsent_seqnos + taken) % Word
    /\ q.unacked_seqnos = s.unacked_seqnos
    /\ q.next_seqno = s.next_seqno + taken
    /\ q.stream_is_finished = is_finished(pop(o, taken))
    /\ q.has_not_sent_SYN = s.has_not_sent_SYN /\ q.has_not_sent_FIN = s.has_not_sent_FIN
    /\ q.window_size = s.window_size /\ q.timer = s.timer
    /\ q.consecutive_retransmissions = s.consecutive_retransmissions

\* What the loop of push does to the members.
LEMMA CutEffect ==
    ASSUME NEW s \in Sender, NEW o \in Stream, StreamInv(o), s.unsent_msgs = <<>>,
           NEW taken, taken = BytesToTake(s, o), taken > 0 => s.next_seqno = o.bytes_popped + 1
    PROVE  WasCut(s, o, taken, Cut(s, o))
  <1> DEFINE q == Cut(s, o)
  <1> DEFINE segs == Segments(s, o)
             n1 == (s.unsent_seqnos + taken) % Word
             n2 == s.next_seqno + taken
             z == IF taken > 0 THEN SpendProbe(s) ELSE s.zero_window_flag
             fin == is_finished(pop(o, taken))
  <1>1. segs \in Seq(Wrapped)
    BY SegmentsType
  <1>2. taken \in Nat
    BY TakenBounds DEF Stream
  <1>3. n1 \in Nat /\ n2 \in Nat
    <2>1. s.unsent_seqnos + taken \in Int /\ n2 \in Nat
      BY <1>2, SenderMembers
    <2>2. n1 \in Nat
      BY <2>1, ModType
    <2> QED BY <2>1, <2>2
  <1>4. z \in BOOLEAN
    BY SenderMembers DEF SpendProbe
  <1>5. fin \in BOOLEAN
    <2>1. pop(o, taken) \in Stream
      BY TakenBounds, PopEffect
    <2> QED BY <2>1 DEF is_finished, Stream
  <1>6. q = [s EXCEPT !.unsent_msgs = @ \o segs, !.unsent_seqnos = n1, !.next_seqno = n2,
                      !.zero_window_flag = z, !.stream_is_finished = fin]
    BY DEF Cut
  <1> HIDE DEF segs, q
  <1>7. <<>> \o segs = segs
    BY <1>1, ConcatEmptySeq
  <1>8. q = [s EXCEPT !.unsent_msgs = segs, !.unsent_seqnos = n1, !.next_seqno = n2,
                      !.zero_window_flag = z, !.stream_is_finished = fin]
    BY <1>6, <1>7
  <1> HIDE DEF n1, n2, z, fin
  <1>9. q \in Sender
    BY <1>1, <1>3, <1>4, <1>5, <1>8 DEF Sender
  <1>10. /\ q.unsent_msgs = segs /\ q.unacked_msgs = s.unacked_msgs
         /\ q.unsent_seqnos = n1 /\ q.unacked_seqnos = s.unacked_seqnos
         /\ q.next_seqno = n2 /\ q.stream_is_finished = fin
         /\ q.has_not_sent_SYN = s.has_not_sent_SYN /\ q.has_not_sent_FIN = s.has_not_sent_FIN
         /\ q.window_size = s.window_size /\ q.timer = s.timer
         /\ q.consecutive_retransmissions = s.consecutive_retransmissions
    BY <1>8 DEF Sender
  <1> QED BY <1>9, <1>10 DEF q, segs, n1, n2, fin, WasCut

FINDue(q) == q.has_not_sent_FIN /\ q.stream_is_finished /\ FINFits(q)

\* The members after the treatment of the FIN, last being the last queued message.
FINAttached(q, t, n, last) ==
    /\ t \in Sender /\ n \in Nat \ {0} /\ last \in Wrapped
    /\ Len(t.unsent_msgs) = n
    /\ \A i \in 1..n : t.unsent_msgs[i] = IF i = n THEN last ELSE q.unsent_msgs[i]
    /\ t.has_not_sent_FIN = (q.has_not_sent_FIN /\ ~FINDue(q))
    /\ t.unsent_seqnos = (q.unsent_seqnos + One(FINDue(q))) % Word
    /\ t.next_seqno = q.next_seqno + One(FINDue(q))
    /\ t.unacked_msgs = q.unacked_msgs /\ t.unacked_seqnos = q.unacked_seqnos
    /\ t.stream_is_finished = q.stream_is_finished
    /\ t.has_not_sent_SYN = q.has_not_sent_SYN
    /\ t.window_size = q.window_size /\ t.timer = q.timer
    /\ t.consecutive_retransmissions = q.consecutive_retransmissions

\* push puts the FIN on the last message it queued.
LEMMA AttachFINEffect ==
    ASSUME NEW q \in Sender, q.unsent_msgs # <<>>, NEW t, t = AttachFIN(q),
           NEW n, n = Len(q.unsent_msgs),
           NEW last, last = [q.unsent_msgs[n] EXCEPT !.msg.FIN = FINDue(q)]
    PROVE  FINAttached(q, t, n, last)
  <1> DEFINE u == q.unsent_msgs
             flag == FINDue(q)
             unsent == [u EXCEPT ![n] = last]
             nofin == q.has_not_sent_FIN /\ ~flag
             n1 == (q.unsent_seqnos + One(flag)) % Word
             n2 == q.next_seqno + One(flag)
  <1>1. u \in Seq(Wrapped) /\ n \in Nat \ {0} /\ n \in 1..Len(u)
    BY SenderMembers
  <1>2. flag \in BOOLEAN
    BY SenderMembers DEF FINDue, FINFits
  <1>3. last \in Wrapped
    <2>1. u[n] \in Wrapped
      BY <1>1
    <2> HIDE DEF flag, u
    <2>2. last = [u[n] EXCEPT !.msg.FIN = flag]
      BY DEF u, flag
    <2>3. [u[n].msg EXCEPT !.FIN = flag] \in Msg
      BY <1>2, <2>1 DEF Wrapped, Msg
    <2> QED BY <2>1, <2>2, <2>3 DEF Wrapped
  <1>4. unsent \in Seq(Wrapped) /\ Len(unsent) = n
        /\ \A i \in 1..n : unsent[i] = IF i = n THEN last ELSE u[i]
    <2> HIDE DEF u
    <2>1. n = Len(u)
      BY DEF u
    <2>2. unsent \in [1..n -> Wrapped]
      BY <1>1, <1>3, <2>1
    <2> QED BY <1>1, <1>3, <2>1, <2>2
  <1>5. One(flag) \in 0..1
    BY DEF One
  <1>6. nofin \in BOOLEAN
    BY SenderMembers, <1>2
  <1>7. n1 \in Nat /\ n2 \in Nat
    <2> HIDE DEF flag
    <2>1. q.unsent_seqnos + One(flag) \in Int /\ n2 \in Nat
      BY <1>5, SenderMembers
    <2>2. n1 \in Nat
      BY <2>1, ModType
    <2> QED BY <2>1, <2>2
  <1>8. t = [q EXCEPT !.unsent_msgs = unsent, !.has_not_sent_FIN = nofin,
                      !.unsent_seqnos = n1, !.next_seqno = n2]
    <2>1. t = [q EXCEPT !.unsent_msgs[Len(u)].msg.FIN = flag, !.has_not_sent_FIN = @ /\ ~flag,
                        !.unsent_seqnos = (@ + One(flag)) % Word, !.next_seqno = @ + One(flag)]
      BY DEF AttachFIN, FINDue
    <2>2. q.unsent_msgs = u /\ n = Len(u)
      OBVIOUS
    <2>3. unsent = [u EXCEPT ![Len(u)].msg.FIN = flag]
      BY <2>2
    <2> HIDE DEF flag
    <2> QED BY <2>1, <2>2, <2>3
  <1> HIDE DEF unsent, nofin, n1, n2, flag, u
  <1>9. t \in Sender
    BY <1>4, <1>6, <1>7, <1>8, ZenonT(60) DEF Sender
  <1>10. /\ t.unsent_msgs = unsent /\ t.has_not_sent_FIN = nofin
         /\ t.unsent_seqnos = n1 /\ t.next_seqno = n2
         /\ t.unacked_msgs = q.unacked_msgs /\ t.unacked_seqnos = q.unacked_seqnos
         /\ t.stream_is_finished = q.stream_is_finished
         /\ t.has_not_sent_SYN = q.has_not_sent_SYN
         /\ t.window_size = q.window_size /\ t.timer = q.timer
         /\ t.consecutive_retransmissions = q.consecutive_retransmissions
    BY <1>8 DEF Sender
  <1> QED BY <1>1, <1>3, <1>4, <1>9, <1>10 DEF u, nofin, n1, n2, flag, FINAttached

------------------------------------------------------------------------------
(* The line of outstanding messages. *)

\* The messages of a queue, without their marks.
LEMMA MsgsInType ==
    ASSUME NEW q \in Seq(Wrapped)
    PROVE  /\ MsgsIn(q) \in Seq(Msg) /\ Len(MsgsIn(q)) = Len(q)
           /\ \A i \in 1..Len(q) : MsgsIn(q)[i] = q[i].msg
  <1>1. ASSUME NEW i \in 1..Len(q) PROVE q[i].msg \in Msg
    <2>1. q[i] \in Wrapped
      BY ElementOfSeq
    <2> QED BY <2>1 DEF Wrapped
  <1>2. Len(q) \in Nat
    OBVIOUS
  <1>3. MsgsIn(q) \in [1..Len(q) -> Msg]
    BY <1>1 DEF MsgsIn
  <1>4. \A i \in 1..Len(q) : MsgsIn(q)[i] = q[i].msg
    BY DEF MsgsIn
  <1> QED BY <1>2, <1>3, <1>4

\* The elements of two sequences, one behind the other.
LEMMA ConcatElements ==
    ASSUME NEW x \in Seq(Msg), NEW y \in Seq(Msg)
    PROVE  /\ x \o y \in Seq(Msg) /\ Len(x \o y) = Len(x) + Len(y)
           /\ \A i \in 1..Len(x) : (x \o y)[i] = x[i]
           /\ \A i \in 1..Len(y) : (x \o y)[Len(x) + i] = y[i]
  OBVIOUS

\* Where the messages of the two queues are in the line.
LEMMA LineType ==
    ASSUME NEW s \in Sender
    PROVE  LET a == Len(s.unacked_msgs)
               b == Len(s.unsent_msgs)
           IN  /\ Line(s) \in Seq(Msg) /\ a \in Nat /\ b \in Nat /\ Len(Line(s)) = a + b
               /\ Again(s) => /\ \A i \in 1..b : Line(s)[i] = s.unsent_msgs[i].msg
                              /\ \A i \in 1..a : Line(s)[b + i] = s.unacked_msgs[i]
               /\ ~Again(s) => /\ \A i \in 1..a : Line(s)[i] = s.unacked_msgs[i]
                               /\ \A i \in 1..b : Line(s)[a + i] = s.unsent_msgs[i].msg
  <1> DEFINE u == s.unacked_msgs
             m == MsgsIn(s.unsent_msgs)
             a == Len(s.unacked_msgs)
             b == Len(s.unsent_msgs)
             L == Len(Line(s))
  <1>1. /\ u \in Seq(Msg) /\ m \in Seq(Msg) /\ Len(u) = a /\ Len(m) = b
        /\ a \in Nat /\ b \in Nat
        /\ \A i \in 1..b : m[i] = s.unsent_msgs[i].msg
    <2>1. s.unacked_msgs \in Seq(Msg) /\ s.unsent_msgs \in Seq(Wrapped)
      BY SenderMembers
    <2>2. a \in Nat /\ b \in Nat
      BY <2>1
    <2>3. /\ m \in Seq(Msg) /\ Len(m) = b
          /\ \A i \in 1..b : m[i] = s.unsent_msgs[i].msg
      BY <2>1, MsgsInType
    <2> QED BY <2>1, <2>2, <2>3
  <1>2. Line(s) = IF Again(s) THEN m \o u ELSE u \o m
    BY DEF Line
  <1> HIDE DEF u, m, a, b
  <1>3. u \in Seq(Msg) /\ m \in Seq(Msg)
    BY <1>1
  <1>4. a \in Nat /\ b \in Nat /\ Len(u) = a /\ Len(m) = b
    BY <1>1
  <1>5. CASE Again(s)
    <2>1. Line(s) = m \o u
      BY <1>2, <1>5
    <2>2. /\ m \o u \in Seq(Msg) /\ Len(m \o u) = Len(m) + Len(u)
          /\ \A i \in 1..Len(m) : (m \o u)[i] = m[i]
          /\ \A i \in 1..Len(u) : (m \o u)[Len(m) + i] = u[i]
      BY <1>3, ConcatElements
    <2>3. L = a + b
      <3>1. L = Len(m) + Len(u)
        BY <2>1, <2>2
      <3>2. Len(m) + Len(u) = a + b
        <4>1. \A i, j \in Nat : j + i = i + j
          OBVIOUS
        <4> QED BY <1>4, <4>1
      <3> QED BY <3>1, <3>2
    <2> QED BY <1>1, <1>4, <1>5, <2>1, <2>2, <2>3 DEF u, a, b
  <1>6. CASE ~Again(s)
    <2>1. Line(s) = u \o m
      BY <1>2, <1>6
    <2>2. /\ u \o m \in Seq(Msg) /\ Len(u \o m) = Len(u) + Len(m)
          /\ \A i \in 1..Len(u) : (u \o m)[i] = u[i]
          /\ \A i \in 1..Len(m) : (u \o m)[Len(u) + i] = m[i]
      BY <1>3, ConcatElements
    <2>3. L = a + b
      BY <1>4, <2>1, <2>2
    <2> QED BY <1>1, <1>4, <1>6, <2>1, <2>2, <2>3 DEF u, a, b
  <1> QED BY <1>5, <1>6 DEF a, b

\* With an empty queue the line is what is tracked.
LEMMA DrainedLine ==
    ASSUME NEW s \in Sender, s.unsent_msgs = <<>>
    PROVE  /\ ~Again(s) /\ Line(s) = s.unacked_msgs /\ QueueShape(s)
           /\ Border(s) = Len(s.unacked_msgs) + 1
  <1>1. ~Again(s)
    BY DEF Again
  <1>2. MsgsIn(s.unsent_msgs) = <<>>
    <2>1. <<>> \in Seq(Wrapped)
      OBVIOUS
    <2>2. Len(MsgsIn(<<>>)) = 0 /\ MsgsIn(<<>>) \in Seq(Msg)
      BY <2>1, MsgsInType
    <2> QED BY <2>2, EmptySeq
  <1>3. s.unacked_msgs \o <<>> = s.unacked_msgs
    BY SenderMembers, ConcatEmptySeq
  <1>4. \A i \in 1..Len(s.unsent_msgs) : ~s.unsent_msgs[i].is_retransmitted
    OBVIOUS
  <1>5. QueueShape(s)
    BY <1>1, <1>4 DEF QueueShape
  <1>6. Line(s) = s.unacked_msgs
    BY <1>1, <1>2, <1>3 DEF Line
  <1> QED BY <1>1, <1>5, <1>6 DEF Border

\* The same messages in a line: equal lengths and elements.
LEMMA SameLine ==
    ASSUME NEW x \in Seq(Msg), NEW y \in Seq(Msg), Len(x) = Len(y),
           \A i \in 1..Len(x) : x[i] = y[i]
    PROVE  x = y
  BY SeqEqual

\* A message lies between the start of the line and next_seqno.
LEMMA LiesAtSpan ==
    ASSUME NEW s \in Sender, NEW p, LiesAt(s, p), NEW i \in 1..Len(Line(s)) + 1
    PROVE  p[1] \in Nat /\ p[i] \in Nat /\ p[1] <= p[i] /\ p[i] <= s.next_seqno
  <1> DEFINE O == Line(s)
             n == Len(O) + 1
  <1>1. O \in Seq(Msg) /\ p \in Positions(O) /\ Laid(O, p) /\ p[n] = s.next_seqno
    BY LineType DEF LiesAt
  <1> HIDE DEF O
  <1>2. 1 \in 1..Len(O) + 1 /\ n \in 1..Len(O) + 1 /\ i \in 1..Len(O) + 1 /\ 1 <= i /\ i <= n
    BY <1>1 DEF O
  <1>3. p[1] <= p[i] /\ p[i] <= p[n]
    BY <1>1, <1>2, PositionsIncrease
  <1>4. p[1] \in Nat /\ p[i] \in Nat
    BY <1>1, <1>2 DEF Positions
  <1> QED BY <1>1, <1>3, <1>4

------------------------------------------------------------------------------
(* maybe_send moves a queued message from one part of the line to the other *)
(* and leaves the line as it is.                                            *)

\* The elements of a queue whose front was taken.
LEMMA TailElements ==
    ASSUME NEW W, NEW q \in Seq(W), q # <<>>, NEW r, r = Tail(q)
    PROVE  /\ r \in Seq(W) /\ Len(r) = Len(q) - 1 /\ Len(r) \in Nat /\ Len(q) \in Nat
           /\ \A i \in 1..Len(r) : r[i] = q[i + 1]
           /\ Head(q) = q[1] /\ Head(q) \in W
  OBVIOUS

\* The elements of a queue with one more at its end.
Appended(W, q, e, r) ==
    /\ r \in Seq(W) /\ Len(r) = Len(q) + 1 /\ Len(q) \in Nat /\ r # <<>>
    /\ \A i \in 1..Len(q) : r[i] = q[i]
    /\ r[Len(q) + 1] = e

\* What Appended says is what Append gives.
LEMMA AppendElements ==
    ASSUME NEW W, NEW q \in Seq(W), NEW e \in W
    PROVE  Appended(W, q, e, Append(q, e))
  <1> DEFINE r == Append(q, e)
  <1>1. /\ r \in Seq(W) /\ Len(r) = Len(q) + 1 /\ Len(q) \in Nat
        /\ \A i \in 1..Len(q) : r[i] = q[i]
        /\ r[Len(q) + 1] = e
    OBVIOUS
  <1>2. r # <<>>
    BY <1>1
  <1> QED BY <1>1, <1>2 DEF Appended

\* The elements of a queue with one more at its front.
Prepended(W, q, e, r) ==
    /\ r \in Seq(W) /\ Len(r) = Len(q) + 1 /\ Len(q) \in Nat /\ r # <<>>
    /\ \A i \in 1..Len(q) : r[i + 1] = q[i]
    /\ r[1] = e

\* What Prepended says is what concatenation in front gives.
LEMMA PrependElements ==
    ASSUME NEW W, NEW q \in Seq(W), NEW e \in W
    PROVE  Prepended(W, q, e, <<e>> \o q)
  BY DEF Prepended

\* A new message at the head of the queue.
LEMMA SendNewKeeps ==
    ASSUME NEW s \in Sender, s.unsent_msgs # <<>>, ~s.has_not_sent_SYN, QueueShape(s),
           ~Again(s), NEW p, LiesAt(s, p), s.next_seqno - p[1] <= HalfWord,
           NEW t, t = SendQueued(s).s
    PROVE  /\ ~Again(t) /\ Line(t) = Line(s) /\ QueueShape(t) /\ LiesAt(t, p)
           /\ t.unacked_msgs # <<>>
  <1> DEFINE front == Head(s.unsent_msgs)
             a == Len(s.unacked_msgs)
             b == Len(s.unsent_msgs)
             O == Line(s)
             rest == Tail(s.unsent_msgs)
             more == Append(s.unacked_msgs, front.msg)
             len == sequence_length(front.msg)
  <1>1. /\ rest \in Seq(Wrapped) /\ Len(rest) = b - 1 /\ b \in Nat /\ b > 0
        /\ \A i \in 1..b - 1 : rest[i] = s.unsent_msgs[i + 1]
        /\ front = s.unsent_msgs[1] /\ front \in Wrapped
    BY SenderMembers, TailElements
  <1>2. front.is_retransmitted = FALSE
    BY <1>1 DEF Again, Wrapped
  <1>3. /\ t \in Sender /\ front.msg \in Msg
        /\ t.unsent_msgs = rest /\ t.unacked_msgs = more
        /\ t.unsent_seqnos = (s.unsent_seqnos - len) % Word
        /\ t.unacked_seqnos = (s.unacked_seqnos + len) % Word
        /\ t.next_seqno = s.next_seqno
    <2>1. QueuedSent(s, t, front)
      BY SendQueuedEffect
    <2>2. t.unacked_msgs = Track(s.unacked_msgs, front.msg, FALSE)
      BY <1>2, <2>1 DEF QueuedSent
    <2>3. t.unacked_msgs = more
      BY <2>2 DEF Track
    <2> QED BY <2>1, <2>3 DEF QueuedSent
  <1>4. /\ more \in Seq(Msg) /\ Len(more) = a + 1 /\ a \in Nat /\ more # <<>>
        /\ \A i \in 1..a : more[i] = s.unacked_msgs[i]
        /\ more[a + 1] = front.msg
    <2>1. s.unacked_msgs \in Seq(Msg) /\ front.msg \in Msg
      BY <1>3, SenderMembers
    <2>2. Appended(Msg, s.unacked_msgs, front.msg, more)
      BY <2>1, AppendElements
    <2> QED BY <2>2 DEF Appended
  <1>5. \A i \in 1..b : ~s.unsent_msgs[i].is_retransmitted
    BY DEF QueueShape
  <1>6. ~Again(t) /\ QueueShape(t)
    <2>1. \A i \in 1..Len(rest) : ~rest[i].is_retransmitted
      BY <1>1, <1>5
    <2>2. rest # <<>> => Head(rest) = rest[1] /\ 1 \in 1..Len(rest)
      BY <1>1
    <2>3. ~Again(t)
      BY <1>3, <2>1, <2>2 DEF Again
    <2> QED BY <1>3, <2>1, <2>3 DEF QueueShape
  <1>7. /\ O \in Seq(Msg) /\ Len(O) = a + b
        /\ \A i \in 1..a : O[i] = s.unacked_msgs[i]
        /\ \A i \in 1..b : O[a + i] = s.unsent_msgs[i].msg
    BY LineType
  <1>8. /\ Line(t) \in Seq(Msg) /\ Len(Line(t)) = (a + 1) + (b - 1)
        /\ \A i \in 1..a + 1 : Line(t)[i] = more[i]
        /\ \A i \in 1..b - 1 : Line(t)[(a + 1) + i] = rest[i].msg
    <2>1. /\ Line(t) \in Seq(Msg) /\ Len(Line(t)) = Len(t.unacked_msgs) + Len(t.unsent_msgs)
          /\ \A i \in 1..Len(t.unacked_msgs) : Line(t)[i] = t.unacked_msgs[i]
          /\ \A i \in 1..Len(t.unsent_msgs) :
               Line(t)[Len(t.unacked_msgs) + i] = t.unsent_msgs[i].msg
      BY <1>3, <1>6, LineType
    <2>2. Len(t.unacked_msgs) = a + 1 /\ Len(t.unsent_msgs) = b - 1
      BY <1>1, <1>3, <1>4
    <2> HIDE DEF rest, more, a, b
    <2> QED BY <1>3, <2>1, <2>2
  <1> HIDE DEF O, rest, more, front, a, b
  <1>9. Line(t) = O
    <2>1. Len(Line(t)) = Len(O)
      BY <1>1, <1>4, <1>7, <1>8
    <2>2. ASSUME NEW i \in 1..Len(O) PROVE Line(t)[i] = O[i]
      <3>1. CASE i <= a
        BY <1>1, <1>4, <1>7, <1>8, <3>1
      <3>2. CASE i = a + 1
        <4>1. i \in 1..a + 1 /\ 1 \in 1..b
          BY <1>1, <1>4, <3>2
        <4>2. O[a + 1] = s.unsent_msgs[1].msg /\ Line(t)[a + 1] = front.msg
          BY <1>4, <1>7, <1>8, <3>2, <4>1
        <4> QED BY <1>1, <3>2, <4>2
      <3>3. CASE i > a + 1
        <4> DEFINE j == i - (a + 1)
        <4>1. j \in 1..b - 1 /\ i = (a + 1) + j /\ j + 1 \in 1..b /\ i = a + (j + 1)
          BY <1>1, <1>4, <1>7, <3>3
        <4> HIDE DEF j
        <4>2. Line(t)[i] = rest[j].msg /\ O[i] = s.unsent_msgs[j + 1].msg
          BY <1>7, <1>8, <4>1
        <4>3. rest[j] = s.unsent_msgs[j + 1]
          BY <1>1, <4>1
        <4> QED BY <4>2, <4>3
      <3> QED BY <1>1, <1>4, <1>7, <3>1, <3>2, <3>3
    <2> QED BY <1>7, <1>8, <2>1, <2>2, SameLine
  <1>10. O[a + 1] = front.msg /\ a + 1 \in 1..Len(O)
    <2>1. a + 1 \in 1..a + 1 /\ a + 1 \in 1..Len(O)
      BY <1>1, <1>4, <1>7
    <2> QED BY <1>4, <1>8, <1>9, <2>1
  <1>11. p \in Positions(O) /\ Laid(O, p) /\ p[Len(O) + 1] = s.next_seqno
         /\ s.unacked_seqnos = p[a + 1] - p[1] /\ s.unsent_seqnos = s.next_seqno - p[a + 1]
    BY DEF LiesAt, Counted, Border, O, a
  <1>12. p[(a + 1) + 1] = p[a + 1] + len
    BY <1>10, <1>11 DEF Laid
  <1>13. /\ p[1] \in Nat /\ p[a + 1] \in Nat /\ p[(a + 1) + 1] \in Nat
         /\ p[1] <= p[a + 1] /\ p[1] <= p[(a + 1) + 1] /\ p[(a + 1) + 1] <= s.next_seqno
    <2>1. a + 1 \in 1..Len(O) + 1 /\ (a + 1) + 1 \in 1..Len(O) + 1
      BY <1>4, <1>7, <1>10
    <2> QED BY <2>1, LiesAtSpan DEF O
  <1>14. len \in Nat /\ s.next_seqno \in Nat
    BY <1>3, LengthType, SenderMembers
  <1> HIDE DEF len
  <1>15. t.unacked_seqnos = p[(a + 1) + 1] - p[1] /\ t.unsent_seqnos = s.next_seqno - p[(a + 1) + 1]
    <2> DEFINE x == p[(a + 1) + 1] - p[1]
               y == s.next_seqno - p[(a + 1) + 1]
    <2>1. s.unacked_seqnos + len = x /\ s.unsent_seqnos - len = y
      BY <1>11, <1>12, <1>13, <1>14, SMTT(60)
    <2>2. x \in Nat /\ x <= HalfWord /\ y \in Nat /\ y <= HalfWord
      BY <1>13, <1>14, SMTT(60)
    <2> HIDE DEF x, y
    <2>3. x % Word = x /\ y % Word = y
      BY <2>2, SmallMod
    <2> QED BY <1>3, <2>1, <2>3 DEF x, y
  <1>16. Border(t) = (a + 1) + 1
    BY <1>3, <1>4, <1>6 DEF Border
  <1>17. Counted(t, p)
    BY <1>3, <1>6, <1>15, <1>16 DEF Counted
  <1> QED BY <1>3, <1>4, <1>6, <1>9, <1>11, <1>17 DEF LiesAt, O

\* A message that is sent again.
LEMMA SendAgainKeeps ==
    ASSUME NEW s \in Sender, ~s.has_not_sent_SYN, QueueShape(s),
           Again(s), NEW p, LiesAt(s, p), s.next_seqno - p[1] <= HalfWord,
           NEW t, t = SendQueued(s).s
    PROVE  /\ t.unsent_msgs = <<>> /\ Line(t) = Line(s) /\ LiesAt(t, p)
           /\ t.unacked_msgs # <<>>
  <1> DEFINE front == Head(s.unsent_msgs)
             a == Len(s.unacked_msgs)
             O == Line(s)
             rest == Tail(s.unsent_msgs)
             more == <<front.msg>> \o s.unacked_msgs
             len == sequence_length(front.msg)
  <1>0. Len(s.unsent_msgs) = 1 /\ s.unsent_msgs # <<>>
    BY DEF QueueShape, Again
  <1>1. rest = <<>> /\ front = s.unsent_msgs[1] /\ front \in Wrapped
    <2>1. rest \in Seq(Wrapped) /\ Len(rest) = 0 /\ front = s.unsent_msgs[1] /\ front \in Wrapped
      BY <1>0, SenderMembers, TailElements
    <2> QED BY <2>1, EmptySeq
  <1>2. front.is_retransmitted
    BY DEF Again
  <1>3. /\ t \in Sender /\ front.msg \in Msg
        /\ t.unsent_msgs = rest /\ t.unacked_msgs = more
        /\ t.unsent_seqnos = (s.unsent_seqnos - len) % Word
        /\ t.unacked_seqnos = (s.unacked_seqnos + len) % Word
        /\ t.next_seqno = s.next_seqno
    <2>1. QueuedSent(s, t, front)
      BY <1>0, SendQueuedEffect
    <2>2. front.is_retransmitted = TRUE
      BY <1>1, <1>2 DEF Wrapped
    <2>3. t.unacked_msgs = Track(s.unacked_msgs, front.msg, TRUE)
      BY <2>1, <2>2 DEF QueuedSent
    <2>4. t.unacked_msgs = more
      BY <2>3 DEF Track
    <2> QED BY <2>1, <2>4 DEF QueuedSent
  <1>4. /\ more \in Seq(Msg) /\ Len(more) = a + 1 /\ a \in Nat /\ more # <<>>
        /\ \A i \in 1..a : more[i + 1] = s.unacked_msgs[i]
        /\ more[1] = front.msg
    <2>1. s.unacked_msgs \in Seq(Msg) /\ front.msg \in Msg
      BY <1>3, SenderMembers
    <2>2. Prepended(Msg, s.unacked_msgs, front.msg, more)
      BY <2>1, PrependElements
    <2> QED BY <2>2 DEF Prepended
  <1>5. /\ O \in Seq(Msg) /\ Len(O) = a + 1
        /\ O[1] = front.msg
        /\ \A i \in 1..a : O[1 + i] = s.unacked_msgs[i]
    <2>1. /\ O \in Seq(Msg) /\ Len(O) = a + Len(s.unsent_msgs)
          /\ \A i \in 1..Len(s.unsent_msgs) : O[i] = s.unsent_msgs[i].msg
          /\ \A i \in 1..a : O[Len(s.unsent_msgs) + i] = s.unacked_msgs[i]
      BY LineType
    <2>2. 1 \in 1..1
      OBVIOUS
    <2> QED BY <1>0, <1>1, <2>1, <2>2
  <1>6. /\ Line(t) = more /\ ~Again(t) /\ Border(t) = Len(more) + 1
    BY <1>1, <1>3, DrainedLine
  <1> HIDE DEF O, rest, more, front, a
  <1>7. more = O
    <2>1. ASSUME NEW i \in 1..Len(O) PROVE more[i] = O[i]
      <3>1. CASE i = 1
        BY <1>4, <1>5, <3>1
      <3>2. CASE i # 1
        <4>1. i - 1 \in 1..a /\ (i - 1) + 1 = i /\ 1 + (i - 1) = i
          BY <1>4, <1>5, <3>2
        <4>2. more[(i - 1) + 1] = s.unacked_msgs[i - 1] /\ O[1 + (i - 1)] = s.unacked_msgs[i - 1]
          BY <1>4, <1>5, <4>1
        <4> QED BY <4>1, <4>2
      <3> QED BY <3>1, <3>2
    <2> QED BY <1>4, <1>5, <2>1, SameLine
  <1>8. p \in Positions(O) /\ Laid(O, p) /\ p[Len(O) + 1] = s.next_seqno
        /\ s.unsent_seqnos = p[2] - p[1] /\ s.unacked_seqnos = s.next_seqno - p[2]
    BY DEF LiesAt, Counted, Border, O
  <1>9. p[2] = p[1] + len
    <2>1. 1 \in 1..Len(O)
      BY <1>4, <1>5
    <2> QED BY <1>5, <1>8, <2>1 DEF Laid
  <1>10. p[1] \in Nat /\ p[2] \in Nat /\ p[1] <= p[2] /\ p[2] <= s.next_seqno
    <2>1. 2 \in 1..Len(O) + 1 /\ 1 \in 1..Len(O) + 1
      BY <1>4, <1>5
    <2> QED BY <2>1, LiesAtSpan DEF O
  <1>11. len \in Nat /\ s.next_seqno \in Nat
    BY <1>3, LengthType, SenderMembers
  <1> HIDE DEF len
  <1>12. t.unsent_seqnos = 0 /\ t.unacked_seqnos = s.next_seqno - p[1]
    <2> DEFINE x == s.next_seqno - p[1]
    <2>1. s.unacked_seqnos + len = x /\ s.unsent_seqnos - len = 0
      BY <1>8, <1>9, <1>10, <1>11, SMTT(60)
    <2>2. x \in Nat /\ x <= HalfWord
      BY <1>10, <1>11
    <2> HIDE DEF x
    <2>3. x % Word = x /\ 0 % Word = 0
      BY <2>2, SmallMod
    <2> QED BY <1>3, <2>1, <2>3 DEF x
  <1>13. Counted(t, p)
    <2>1. p[Border(t)] = s.next_seqno
      BY <1>6, <1>7, <1>8
    <2>2. s.next_seqno - s.next_seqno = 0
      BY <1>11
    <2> QED BY <1>3, <1>6, <1>12, <2>1, <2>2 DEF Counted
  <1>14. LiesAt(t, p)
    BY <1>3, <1>6, <1>7, <1>8, <1>13 DEF LiesAt
  <1> QED BY <1>1, <1>3, <1>4, <1>6, <1>7, <1>14 DEF O

NoFIN(msgs) == \A i \in 1..Len(msgs) : ~msgs[i].FIN

\* The positions p of n messages, and the position behind one more.
Extended(p, n, next) == [i \in 1..n + 2 |-> IF i = n + 2 THEN next ELSE p[i]]

\* A message added at the end of a line, where the next sequence number is.
LEMMA LongerLine ==
    ASSUME NEW O \in Seq(Msg), NEW p \in Positions(O), Laid(O, p),
           NoFIN(O), NEW msg \in Msg, At(msg, p[Len(O) + 1])
    PROVE  LET more == Append(O, msg)
               next == p[Len(O) + 1] + sequence_length(msg)
               r    == Extended(p, Len(O), next)
           IN  /\ more \in Seq(Msg) /\ Len(more) = Len(O) + 1
               /\ r \in Positions(more) /\ Laid(more, r)
               /\ r[1] = p[1] /\ r[Len(more) + 1] = next
  <1> DEFINE n == Len(O)
             next == p[n + 1] + sequence_length(msg)
             more == Append(O, msg)
             r == Extended(p, n, next)
  <1>1. /\ more \in Seq(Msg) /\ Len(more) = n + 1 /\ n \in Nat
        /\ \A i \in 1..n : more[i] = O[i]
        /\ more[n + 1] = msg
    BY AppendElements
  <1>2. \A i \in 1..n + 1 : p[i] \in Nat
    BY DEF Positions
  <1>3. next \in Nat
    <2>1. n + 1 \in 1..n + 1
      BY <1>1
    <2>2. p[n + 1] \in Nat /\ sequence_length(msg) \in Nat
      BY <1>2, <2>1, LengthType
    <2> QED BY <2>2
  <1>4. r = [i \in 1..n + 2 |-> IF i = n + 2 THEN next ELSE p[i]]
    BY DEF Extended
  <1> HIDE DEF n, next, more, r
  <1>5. /\ r \in [1..n + 2 -> Nat] /\ r[n + 2] = next
        /\ \A i \in 1..n + 1 : r[i] = p[i]
    BY <1>1, <1>2, <1>3, <1>4
  <1>6. Laid(more, r)
    <2> SUFFICES ASSUME NEW i \in 1..n + 1
                 PROVE  /\ At(more[i], r[i])
                        /\ r[i + 1] = r[i] + sequence_length(more[i])
                        /\ more[i].FIN => i = n + 1
      BY <1>1 DEF Laid
    <2>1. CASE i \in 1..n
      <3>1. i + 1 \in 1..n + 1
        BY <1>1, <2>1
      <3>2. At(O[i], p[i]) /\ p[i + 1] = p[i] + sequence_length(O[i]) /\ ~O[i].FIN
        BY <2>1 DEF Laid, NoFIN, n
      <3> QED BY <1>1, <1>5, <2>1, <3>1, <3>2
    <2>2. CASE i = n + 1
      <3>1. r[n + 1] = p[n + 1] /\ r[(n + 1) + 1] = next /\ more[n + 1] = msg
        BY <1>1, <1>5
      <3> QED BY <2>2, <3>1 DEF n, next
    <2> QED BY <1>1, <2>1, <2>2
  <1>7. r \in Positions(more) /\ r[1] = p[1] /\ r[Len(more) + 1] = next
    <2>1. Len(more) + 1 = n + 2 /\ 1 \in 1..n + 1
      BY <1>1
    <2> QED BY <1>5, <2>1 DEF Positions
  <1> QED BY <1>1, <1>6, <1>7 DEF n, next, more, r

SynFollows(s) == s.has_not_sent_SYN <=> s.next_seqno = 0

\* A message that is sent at once, with the SYN or the FIN and no data.
LEMMA SendFlagsKeeps ==
    ASSUME NEW s \in Sender, FlagsDue(s), NEW p, LiesAt(s, p),
           NoFIN(Line(s)),
           SynFollows(s),
           NEW t, t = SendFlags(s).s, NEW msg, msg = SendFlags(s).msg
    PROVE  /\ t \in Sender /\ t.unsent_msgs = <<>> /\ FlagsSent(s, t, msg)
           /\ Total(Line(t)) = (s.next_seqno + sequence_length(msg)) - p[1]
           /\ Line(t) = Append(Line(s), msg) /\ t.unacked_msgs # <<>>
           /\ Fits(t) => \E r : LiesAt(t, r) /\ r[1] = p[1]
  <1> DEFINE O == Line(s)
             len == sequence_length(msg)
             n == Len(O)
  <1>0. FlagsSent(s, t, msg)
    BY SendFlagsEffect
  <1>1. /\ t \in Sender /\ msg \in Msg
        /\ msg.seqno = wrap(s.next_seqno, Isn) /\ msg.payload = <<>>
        /\ msg.SYN = s.has_not_sent_SYN /\ msg.FIN = CanSendFIN(s)
        /\ s.unsent_msgs = <<>> /\ t.unsent_msgs = <<>>
        /\ t.unacked_msgs = Append(s.unacked_msgs, msg)
        /\ t.unsent_seqnos = s.unsent_seqnos
        /\ t.unacked_seqnos = (s.unacked_seqnos + sequence_length(msg)) % Word
        /\ t.next_seqno = s.next_seqno + sequence_length(msg)
    BY <1>0 DEF FlagsSent
  <1>2. O = s.unacked_msgs /\ ~Again(s) /\ Border(s) = n + 1
    BY <1>1, DrainedLine
  <1>3. Line(t) = Append(O, msg) /\ ~Again(t) /\ Border(t) = Len(Append(O, msg)) + 1
    BY <1>1, <1>2, DrainedLine
  <1>4. p \in Positions(O) /\ Laid(O, p) /\ p[n + 1] = s.next_seqno
        /\ s.unacked_seqnos = s.next_seqno - p[1] /\ s.unsent_seqnos = s.next_seqno - s.next_seqno
    BY <1>2 DEF LiesAt, Counted
  <1>5. O \in Seq(Msg) /\ n \in Nat
    BY <1>2, SenderMembers
  <1>6. len \in 1..2
    <2>1. One(msg.SYN) + Len(msg.payload) + One(msg.FIN) = len
      BY DEF sequence_length
    <2>2. Len(msg.payload) = 0
      BY <1>1
    <2>3. One(msg.SYN) = 1 \/ One(msg.FIN) = 1
      BY <1>1 DEF FlagsDue, One
    <2>4. One(msg.SYN) \in 0..1 /\ One(msg.FIN) \in 0..1
      BY DEF One
    <2> HIDE DEF len
    <2> QED BY <2>1, <2>2, <2>3, <2>4
  <1>7. At(msg, s.next_seqno)
    <2>1. DOMAIN msg.payload = {} /\ Len(msg.payload) = 0
      BY <1>1
    <2>2. Len(msg.payload) <= MAX_PAYLOAD_SIZE /\ len > 0
      BY <1>6, <2>1
    <2> QED BY <1>1, <2>1, <2>2 DEF At, SynFollows
  <1> DEFINE more == Append(O, msg)
             r == Extended(p, n, p[n + 1] + len)
  <1>8. NoFIN(O)
    OBVIOUS
  <1>9. At(msg, p[n + 1])
    BY <1>4, <1>7
  <1> HIDE DEF O
  <1>10. /\ more \in Seq(Msg) /\ Len(more) = n + 1
         /\ r \in Positions(more) /\ Laid(more, r)
         /\ r[1] = p[1] /\ r[Len(more) + 1] = p[n + 1] + len
    BY <1>1, <1>4, <1>5, <1>8, <1>9, LongerLine
  <1>11. p[1] \in Nat /\ p[1] <= s.next_seqno /\ s.next_seqno \in Nat
    <2>1. 1 \in 1..Len(O) + 1
      BY <1>5
    <2> QED BY <2>1, LiesAtSpan, SenderMembers DEF O
  <1> HIDE DEF more, r, n, len
  <1>17. Total(Line(t)) = (s.next_seqno + len) - p[1]
    <2>1. Total(more) = r[Len(more) + 1] - r[1]
      BY <1>10, TotalIsSpan
    <2>2. Line(t) = more
      BY <1>3 DEF more
    <2>3. r[Len(more) + 1] = s.next_seqno + len /\ r[1] = p[1]
      BY <1>4, <1>10
    <2> QED BY <2>1, <2>2, <2>3
  <1>12. ASSUME Fits(t)
         PROVE  t.unacked_seqnos = t.next_seqno - p[1] /\ t.unsent_seqnos = 0
    <2> DEFINE x == (s.next_seqno + len) - p[1]
    <2>1. s.unacked_seqnos + len = x /\ x \in Nat /\ x <= HalfWord
      BY <1>4, <1>6, <1>11, <1>12, <1>17 DEF len, Fits
    <2> HIDE DEF x
    <2>2. x % Word = x
      BY <2>1, SmallMod
    <2>3. t.unacked_seqnos = x
      BY <1>1, <2>1, <2>2 DEF len
    <2>4. t.next_seqno - p[1] = x
      <3>1. t.next_seqno = s.next_seqno + len
        BY <1>1 DEF len
      <3>2. len \in Nat /\ p[1] \in Nat /\ s.next_seqno \in Nat
        BY <1>6, <1>11 DEF len
      <3> QED BY <3>1, <3>2 DEF x
    <2>5. t.unsent_seqnos = 0
      BY <1>1, <1>4, <1>11
    <2> QED BY <2>3, <2>4, <2>5
  <1>13. r[Len(more) + 1] = t.next_seqno /\ t.next_seqno \in Nat
    BY <1>1, <1>4, <1>6, <1>10, <1>11 DEF len
  <1>14. ASSUME Fits(t) PROVE Counted(t, r)
    <2>1. r[Border(t)] = t.next_seqno /\ t.next_seqno - t.next_seqno = 0
      BY <1>3, <1>13 DEF more
    <2> QED BY <1>3, <1>10, <1>12, <1>14, <2>1 DEF Counted
  <1>15. ASSUME Fits(t) PROVE LiesAt(t, r)
    BY <1>3, <1>10, <1>13, <1>14, <1>15 DEF LiesAt, more
  <1>16. t.unacked_msgs # <<>>
    <2>1. Len(more) # 0
      BY <1>5, <1>10
    <2>2. more # <<>>
      BY <2>1, SMTT(60)
    <2> QED BY <1>1, <1>2, <2>2 DEF more, O
  <1> QED BY <1>0, <1>1, <1>3, <1>10, <1>15, <1>16, <1>17 DEF O, more, len

------------------------------------------------------------------------------
(* An acknowledgment takes the front of the line away; a timeout moves the  *)
(* first message back to the queue.                                         *)

Dropped(p, n, len) == [i \in 1..len + 1 |-> p[n + i]]

\* A line without its first n messages still lies in place.
LEMMA ShorterLine ==
    ASSUME NEW O \in Seq(Msg), NEW p \in Positions(O), Laid(O, p), NEW n \in 1..Len(O)
    PROVE  LET rest == SubSeq(O, n + 1, Len(O))
               r    == Dropped(p, n, Len(rest))
           IN  /\ rest \in Seq(Msg) /\ Len(rest) = Len(O) - n
               /\ r \in Positions(rest) /\ Laid(rest, r)
               /\ r[1] = p[n + 1] /\ r[Len(rest) + 1] = p[Len(O) + 1]
               /\ rest # <<>> => rest[Len(rest)] = O[Len(O)]
  <1> DEFINE L == Len(O)
             rest == SubSeq(O, n + 1, L)
             m == L - n
             r == Dropped(p, n, Len(rest))
  <1>1. /\ L \in Nat /\ n \in Nat /\ m \in Nat /\ n + m = L
        /\ rest \in Seq(Msg) /\ Len(rest) = m
        /\ \A i \in 1..m : rest[i] = O[n + i]
    OBVIOUS
  <1>2. \A i \in 1..L + 1 : p[i] \in Nat
    BY SMTT(60) DEF Positions
  <1>3. r = [i \in 1..m + 1 |-> p[n + i]]
    BY <1>1 DEF Dropped
  <1> HIDE DEF L, rest, m, r
  <1>4. \A i \in 1..m + 1 : n + i \in 1..L + 1
    BY <1>1
  <1>5. r \in [1..m + 1 -> Nat] /\ \A i \in 1..m + 1 : r[i] = p[n + i]
    BY <1>2, <1>3, <1>4
  <1>6. Laid(rest, r)
    <2> SUFFICES ASSUME NEW i \in 1..m
                 PROVE  /\ At(rest[i], r[i])
                        /\ r[i + 1] = r[i] + sequence_length(rest[i])
                        /\ rest[i].FIN => i = m
      BY <1>1 DEF Laid
    <2>1. n + i \in 1..L /\ i \in 1..m + 1 /\ i + 1 \in 1..m + 1 /\ n + (i + 1) = (n + i) + 1
      BY <1>1
    <2>2. /\ At(O[n + i], p[n + i])
          /\ p[(n + i) + 1] = p[n + i] + sequence_length(O[n + i])
          /\ O[n + i].FIN => n + i = L
      BY <2>1 DEF Laid, L
    <2>3. n + i = L => i = m
      BY <1>1
    <2> QED BY <1>1, <1>5, <2>1, <2>2, <2>3
  <1>7. r[1] = p[n + 1] /\ r[m + 1] = p[L + 1]
    <2>1. 1 \in 1..m + 1 /\ m + 1 \in 1..m + 1 /\ n + (m + 1) = L + 1
      BY <1>1
    <2> QED BY <1>5, <2>1
  <1>8. rest # <<>> => rest[m] = O[L]
    <2> SUFFICES ASSUME rest # <<>> PROVE rest[m] = O[L]
      OBVIOUS
    <2>1. m # 0
      BY <1>1
    <2>2. m \in 1..m
      BY <1>1, <2>1
    <2> QED BY <1>1, <2>2
  <1>9. r \in Positions(rest)
    BY <1>1, <1>5 DEF Positions
  <1> QED BY <1>1, <1>6, <1>7, <1>8, <1>9, Zenon DEF L, rest, m, r

AckTaken(s, t, rest, r) ==
    /\ t.unsent_msgs = <<>> /\ Line(t) = rest /\ LiesAt(t, r)
    /\ rest # <<>> => rest[Len(rest)] = Line(s)[Len(Line(s))] /\ Line(s) # <<>>

\* An acknowledgment leaves the rest of the line where it lies.
LEMMA TakeAckKeeps ==
    ASSUME NEW s \in Sender, s.unsent_msgs = <<>>, NEW p, LiesAt(s, p),
           s.next_seqno - p[1] <= HalfWord,
           NEW ackno \in Nat, AckedCount(s, ackno) # 0
    PROVE  /\ SeqnosOfFirst(s, AckedCount(s, ackno)) \in Int
           /\ \E rest, r : AckTaken(s, TakeAck(s, ackno), rest, r) /\ r[1] <= ackno
  <1> DEFINE n == AckedCount(s, ackno)
             O == Line(s)
             L == Len(O)
             t == TakeAck(s, ackno)
             acked == SeqnosOfFirst(s, n)
             rest == SubSeq(O, n + 1, L)
             r == Dropped(p, n, Len(rest))
  <1>1. O = s.unacked_msgs /\ ~Again(s) /\ Border(s) = L + 1 /\ O \in Seq(Msg)
    BY DrainedLine, SenderMembers
  <1>2. n \in 1..L /\ FullyAcked(s, O[n], ackno)
    <2>1. n \in 0..Len(s.unacked_msgs) /\ \A i \in 1..n : FullyAcked(s, s.unacked_msgs[i], ackno)
      BY AckedCountExists
    <2> HIDE DEF n
    <2>2. n \in 1..L /\ n \in 1..n
      BY <1>1, <2>1 DEF n
    <2> QED BY <1>1, <2>1, <2>2
  <1>3. p \in Positions(O) /\ Laid(O, p) /\ p[L + 1] = s.next_seqno
        /\ s.unacked_seqnos = s.next_seqno - p[1] /\ s.unsent_seqnos = s.next_seqno - s.next_seqno
    BY <1>1 DEF LiesAt, Counted
  <1>4. acked = p[n + 1] - p[1]
    <2> DEFINE f == CHOOSE g : SumsUp(g, O, n)
    <2>1. n \in 0..L
      BY <1>2
    <2> HIDE DEF n
    <2>2. SumsUp(f, O, n)
      BY <1>1, <1>3, <2>1, SumExists
    <2>3. acked = f[n]
      BY <1>1 DEF SeqnosOfFirst, SumsUp
    <2> HIDE DEF f, O
    <2> QED BY <1>1, <1>3, <2>1, <2>2, <2>3, SumIsSpan
  <1>5. /\ p[1] \in Nat /\ p[n + 1] \in Nat /\ p[1] <= p[n + 1] /\ p[n + 1] <= s.next_seqno
        /\ s.next_seqno \in Nat
    <2>1. n + 1 \in 1..L + 1
      BY <1>2
    <2> HIDE DEF n
    <2> QED BY <2>1, LiesAtSpan, SenderMembers
  <1>6. acked \in Int
    BY <1>4, <1>5
  <1>7. /\ t \in Sender /\ t.unacked_msgs = rest
        /\ t.unacked_seqnos = (s.unacked_seqnos - acked) % Word
        /\ t.unsent_msgs = s.unsent_msgs /\ t.unsent_seqnos = s.unsent_seqnos
        /\ t.next_seqno = s.next_seqno
    <2>1. AckEffect(s, t, n, acked)
      BY <1>6, TakeAckEffect
    <2> HIDE DEF n, acked, t, O
    <2> QED BY <1>1, <2>1 DEF AckEffect
  <1>8. /\ rest \in Seq(Msg) /\ Len(rest) = L - n
        /\ r \in Positions(rest) /\ Laid(rest, r)
        /\ r[1] = p[n + 1] /\ r[Len(rest) + 1] = p[L + 1]
        /\ rest # <<>> => rest[Len(rest)] = O[L]
    <2> HIDE DEF n, O
    <2> QED BY <1>1, <1>2, <1>3, ShorterLine, ZenonT(60)
  <1> HIDE DEF n, t, acked, rest, r
  <1>9. Line(t) = rest /\ ~Again(t) /\ Border(t) = Len(rest) + 1
    BY <1>7, DrainedLine
  <1>10. t.unacked_seqnos = t.next_seqno - r[1] /\ t.unsent_seqnos = 0
    <2> DEFINE x == s.next_seqno - p[n + 1]
    <2>1. s.unacked_seqnos - acked = x /\ x \in Nat /\ x <= HalfWord
      BY <1>3, <1>4, <1>5, SMTT(60)
    <2> HIDE DEF x
    <2>2. x % Word = x
      BY <2>1, SmallMod
    <2>3. t.unacked_seqnos = x
      BY <1>7, <2>1, <2>2
    <2>4. t.next_seqno - r[1] = x
      BY <1>7, <1>8 DEF x
    <2>5. t.unsent_seqnos = 0
      BY <1>3, <1>5, <1>7
    <2> QED BY <2>3, <2>4, <2>5
  <1>11. r[Len(rest) + 1] = t.next_seqno
    BY <1>3, <1>7, <1>8
  <1>12. Counted(t, r)
    <2>1. r[Border(t)] = t.next_seqno /\ t.next_seqno - t.next_seqno = 0
      BY <1>5, <1>7, <1>9, <1>11
    <2> QED BY <1>9, <1>10, <2>1 DEF Counted
  <1>13. LiesAt(t, r)
    BY <1>8, <1>9, <1>11, <1>12 DEF LiesAt
  <1>14. O # <<>>
    BY <1>1, <1>2
  <1>15. AckTaken(s, t, rest, r)
    BY <1>7, <1>8, <1>9, <1>13, <1>14 DEF AckTaken
  <1>16. r[1] <= ackno
    <2>1. n \in 1..L + 1 /\ n \in 1..L
      BY <1>1, <1>2
    <2>2. /\ p[n] \in Nat /\ p[1] <= p[n] /\ p[n] <= s.next_seqno
          /\ s.next_seqno <= p[n] + HalfWord
      <3>1. p[n] \in Nat /\ p[1] <= p[n] /\ p[n] <= s.next_seqno
        BY <1>1, <2>1, LiesAtSpan
      <3>2. \A a, b, c, h \in Nat : a <= b /\ b <= c /\ c - a <= h => c <= b + h
        OBVIOUS
      <3> QED BY <1>5, <3>1, <3>2, WordType
    <2>3. O[n].seqno = wrap(p[n], Isn) /\ p[n + 1] = p[n] + sequence_length(O[n])
      BY <1>3, <2>1 DEF Laid, At
    <2>4. unwrap(O[n].seqno, s.isn, s.next_seqno) = p[n]
      BY <1>5, <2>2, <2>3, RoundTrip, SenderMembers
    <2> QED BY <1>2, <1>8, <2>3, <2>4 DEF FullyAcked
  <1> QED BY <1>6, <1>15, <1>16 DEF t, acked, n

\* The members after a tick that makes the timer expire: see ExpiryEffect.
LEMMA ExpiryKeeps ==
    ASSUME NEW s \in Sender, s.unsent_msgs = <<>>, s.unacked_msgs # <<>>,
           NEW p, LiesAt(s, p), s.next_seqno - p[1] <= HalfWord,
           NEW ms \in TickMs, Expires(s, ms),
           NEW t, t = tick(s, ms)
    PROVE  Again(t) /\ QueueShape(t) /\ Line(t) = Line(s) /\ LiesAt(t, p)
  <1> DEFINE O == Line(s)
             L == Len(O)
             msg == Head(s.unacked_msgs)
             w == [msg |-> msg, is_retransmitted |-> TRUE]
             rest == Tail(s.unacked_msgs)
             len == sequence_length(msg)
  <1>1. O = s.unacked_msgs /\ ~Again(s) /\ Border(s) = L + 1 /\ O \in Seq(Msg)
    BY DrainedLine, SenderMembers
  <1>2. /\ rest \in Seq(Msg) /\ Len(rest) = L - 1 /\ L - 1 \in Nat /\ L \in Nat
        /\ \A i \in 1..L - 1 : rest[i] = O[i + 1]
        /\ msg = O[1]
    <2> HIDE DEF O
    <2> QED BY <1>1, TailElements
  <1>3. /\ t \in Sender /\ msg \in Msg /\ w \in Wrapped
        /\ t.unsent_msgs = <<w>> \o s.unsent_msgs
        /\ t.unacked_msgs = rest
        /\ t.unsent_seqnos = (s.unsent_seqnos + len) % Word
        /\ t.unacked_seqnos = (s.unacked_seqnos - len) % Word
        /\ t.next_seqno = s.next_seqno
    <2>1. Expired(s, t, msg, w)
      BY ExpiryEffect
    <2> QED BY <2>1 DEF Expired
  <1>4. /\ t.unsent_msgs = <<w>> /\ Len(t.unsent_msgs) = 1 /\ t.unsent_msgs[1] = w
        /\ Head(t.unsent_msgs) = w /\ t.unsent_msgs # <<>>
    <2> HIDE DEF w
    <2>1. <<w>> \o <<>> = <<w>>
      BY <1>3, ConcatEmptySeq
    <2> QED BY <1>3, <2>1
  <1>5. w.is_retransmitted /\ w.msg = msg
    OBVIOUS
  <1>6. Again(t) /\ QueueShape(t) /\ Border(t) = 2
    BY <1>4, <1>5 DEF Again, QueueShape, Border
  <1> HIDE DEF O, rest, w, msg, L
  <1>7. /\ Line(t) \in Seq(Msg) /\ Len(Line(t)) = (L - 1) + 1
        /\ Line(t)[1] = msg
        /\ \A i \in 1..L - 1 : Line(t)[1 + i] = rest[i]
    <2>1. /\ Line(t) \in Seq(Msg) /\ Len(Line(t)) = Len(t.unacked_msgs) + Len(t.unsent_msgs)
          /\ \A i \in 1..Len(t.unsent_msgs) : Line(t)[i] = t.unsent_msgs[i].msg
          /\ \A i \in 1..Len(t.unacked_msgs) :
               Line(t)[Len(t.unsent_msgs) + i] = t.unacked_msgs[i]
      BY <1>3, <1>6, LineType
    <2>2. Len(t.unacked_msgs) = L - 1 /\ 1 \in 1..1
      BY <1>2, <1>3
    <2> QED BY <1>3, <1>4, <1>5, <2>1, <2>2
  <1>8. Line(t) = O
    <2>1. Len(Line(t)) = Len(O)
      BY <1>2, <1>7 DEF L
    <2>2. ASSUME NEW i \in 1..Len(O) PROVE Line(t)[i] = O[i]
      <3>1. CASE i = 1
        BY <1>2, <1>7, <3>1
      <3>2. CASE i # 1
        <4>1. i - 1 \in 1..L - 1 /\ (i - 1) + 1 = i /\ 1 + (i - 1) = i
          BY <1>2, <3>2 DEF L
        <4>2. Line(t)[1 + (i - 1)] = rest[i - 1] /\ rest[i - 1] = O[(i - 1) + 1]
          BY <1>2, <1>7, <4>1
        <4> QED BY <4>1, <4>2
      <3> QED BY <3>1, <3>2
    <2> QED BY <1>1, <1>7, <2>1, <2>2, SameLine
  <1>9. p \in Positions(O) /\ Laid(O, p) /\ p[L + 1] = s.next_seqno
        /\ s.unacked_seqnos = s.next_seqno - p[1] /\ s.unsent_seqnos = s.next_seqno - s.next_seqno
    BY <1>1 DEF LiesAt, Counted, O, L
  <1>10. p[1 + 1] = p[1] + len
    <2>1. 1 \in 1..L
      BY <1>2
    <2> QED BY <1>2, <1>9, <2>1 DEF Laid, L
  <1>11. p[1] \in Nat /\ p[2] \in Nat /\ p[1] <= p[2] /\ p[2] <= s.next_seqno
         /\ s.next_seqno \in Nat
    <2>1. 2 \in 1..L + 1 /\ 1 \in 1..L + 1
      BY <1>2
    <2> QED BY <2>1, LiesAtSpan, SenderMembers DEF O, L
  <1>12. len \in Nat
    BY <1>3, LengthType
  <1> HIDE DEF len
  <1>13. t.unsent_seqnos = p[2] - p[1] /\ t.unacked_seqnos = s.next_seqno - p[2]
    <2> DEFINE x == p[2] - p[1]
               y == s.next_seqno - p[2]
    <2>1. s.unsent_seqnos + len = x /\ s.unacked_seqnos - len = y
      BY <1>9, <1>10, <1>11, <1>12
    <2>2. x \in Nat /\ x <= HalfWord /\ y \in Nat /\ y <= HalfWord
      BY <1>11, SMTT(60)
    <2> HIDE DEF x, y
    <2>3. x % Word = x /\ y % Word = y
      BY <2>2, SmallMod
    <2> QED BY <1>3, <2>1, <2>3 DEF x, y
  <1>14. Counted(t, p)
    BY <1>3, <1>6, <1>13 DEF Counted
  <1>15. LiesAt(t, p)
    BY <1>3, <1>8, <1>9, <1>14 DEF LiesAt, L
  <1> QED BY <1>6, <1>8, <1>15 DEF O

\* The members that a queue does not concern do not move the line.
LEMMA SameQueues ==
    ASSUME NEW s \in Sender, NEW t \in Sender,
           t.unsent_msgs = s.unsent_msgs, t.unacked_msgs = s.unacked_msgs,
           t.unsent_seqnos = s.unsent_seqnos, t.unacked_seqnos = s.unacked_seqnos,
           t.next_seqno = s.next_seqno
    PROVE  /\ Line(t) = Line(s) /\ (Again(t) <=> Again(s)) /\ (QueueShape(t) <=> QueueShape(s))
           /\ \A p : LiesAt(s, p) => LiesAt(t, p)
  <1>1. Again(t) <=> Again(s)
    BY DEF Again
  <1>2. Line(t) = Line(s) /\ Border(t) = Border(s)
    BY <1>1 DEF Line, Border
  <1>3. QueueShape(t) <=> QueueShape(s)
    BY <1>1 DEF QueueShape
  <1>4. ASSUME NEW p, LiesAt(s, p) PROVE LiesAt(t, p)
    <2>1. Counted(t, p)
      BY <1>1, <1>2, <1>4 DEF Counted, LiesAt
    <2> QED BY <1>2, <1>4, <2>1 DEF LiesAt
  <1> QED BY <1>1, <1>2, <1>3, <1>4

------------------------------------------------------------------------------
(* push cuts what it takes from the stream into segments behind the line.   *)

\* The members after a push that takes something.
Segmented(s, o, t, taken, flag) ==
    LET segs == Segments(s, o)
        c    == Len(segs)
    IN  /\ t \in Sender /\ c \in Nat \ {0} /\ c = Count(taken) /\ flag \in BOOLEAN
        /\ Len(t.unsent_msgs) = c
        /\ \A i \in 1..c :
             /\ t.unsent_msgs[i].msg = IF i = c THEN [segs[i].msg EXCEPT !.FIN = flag]
                                       ELSE segs[i].msg
             /\ ~t.unsent_msgs[i].is_retransmitted
        /\ t.unacked_msgs = s.unacked_msgs
        /\ t.unsent_seqnos = (((s.unsent_seqnos + taken) % Word) + One(flag)) % Word
        /\ t.unacked_seqnos = s.unacked_seqnos
        /\ t.next_seqno = s.next_seqno + taken + One(flag)
        /\ t.stream_is_finished = is_finished(pop(o, taken))
        /\ t.has_not_sent_SYN = s.has_not_sent_SYN /\ t.has_not_sent_FIN = ~flag
        /\ flag => t.stream_is_finished
        /\ t.timer = s.timer /\ t.consecutive_retransmissions = s.consecutive_retransmissions

\* What push does when it takes bytes: new segments, the last of them with the FIN.
LEMMA PushEffect ==
    ASSUME NEW s \in Sender, NEW o \in Stream, StreamInv(o), s.unsent_msgs = <<>>,
           NEW taken, taken = BytesToTake(s, o), taken > 0,
           s.next_seqno = o.bytes_popped + 1, s.has_not_sent_FIN,
           NEW q, q = Cut(s, o), NEW t, t = AttachFIN(q)
    PROVE  Segmented(s, o, t, taken, FINDue(q))
  <1> DEFINE segs == Segments(s, o)
             flag == FINDue(q)
             c == Len(segs)
             last == [segs[c] EXCEPT !.msg.FIN = flag]
  <1>1. taken \in Nat
    BY TakenBounds DEF Stream
  <1>2. segs \in Seq(Wrapped) /\ c = Count(taken) /\ c \in Nat \ {0}
    BY <1>1, SegmentsType, SegmentCount
  <1>3. /\ q \in Sender
        /\ q.unsent_msgs = Segments(s, o) /\ q.unacked_msgs = s.unacked_msgs
        /\ q.unsent_seqnos = (s.unsent_seqnos + taken) % Word
        /\ q.unacked_seqnos = s.unacked_seqnos
        /\ q.next_seqno = s.next_seqno + taken
        /\ q.stream_is_finished = is_finished(pop(o, taken))
        /\ q.has_not_sent_SYN = s.has_not_sent_SYN /\ q.has_not_sent_FIN = s.has_not_sent_FIN
        /\ q.timer = s.timer
        /\ q.consecutive_retransmissions = s.consecutive_retransmissions
    <2>1. WasCut(s, o, taken, q)
      BY CutEffect
    <2> QED BY <2>1 DEF WasCut
  <1>4. q.unsent_msgs = segs /\ q.unsent_msgs # <<>>
    BY <1>2, <1>3
  <1>5. flag \in BOOLEAN /\ (flag => q.stream_is_finished)
    BY <1>3, SenderMembers DEF FINDue, FINFits
  <1> HIDE DEF flag, segs
  <1>6. /\ t \in Sender /\ last \in Wrapped
        /\ Len(t.unsent_msgs) = c
        /\ \A i \in 1..c : t.unsent_msgs[i] = IF i = c THEN last ELSE segs[i]
        /\ t.has_not_sent_FIN = (q.has_not_sent_FIN /\ ~flag)
        /\ t.unsent_seqnos = (q.unsent_seqnos + One(flag)) % Word
        /\ t.next_seqno = q.next_seqno + One(flag)
        /\ t.unacked_msgs = q.unacked_msgs /\ t.unacked_seqnos = q.unacked_seqnos
        /\ t.stream_is_finished = q.stream_is_finished
        /\ t.has_not_sent_SYN = q.has_not_sent_SYN
        /\ t.timer = q.timer
        /\ t.consecutive_retransmissions = q.consecutive_retransmissions
    <2>1. FINAttached(q, t, c, last)
      BY <1>3, <1>4, AttachFINEffect DEF flag
    <2> QED BY <1>4, <2>1 DEF FINAttached, flag
  <1>7. ASSUME NEW i \in 1..c PROVE segs[i] \in Wrapped /\ ~segs[i].is_retransmitted
    BY <1>1, SegmentPlace DEF segs
  <1>8. last.msg = [segs[c].msg EXCEPT !.FIN = flag] /\ ~last.is_retransmitted
    <2>1. segs[c] \in Wrapped /\ ~segs[c].is_retransmitted
      BY <1>2, <1>7
    <2> QED BY <2>1 DEF Wrapped
  <1> HIDE DEF last
  <1>9. ASSUME NEW i \in 1..c
        PROVE  /\ t.unsent_msgs[i].msg = IF i = c THEN [segs[i].msg EXCEPT !.FIN = flag]
                                       ELSE segs[i].msg
               /\ ~t.unsent_msgs[i].is_retransmitted
    BY <1>6, <1>7, <1>8
  <1>10. t.has_not_sent_FIN = ~flag
    BY <1>3, <1>5, <1>6
  <1> QED BY <1>2, <1>3, <1>5, <1>6, <1>9, <1>10 DEF segs, flag, Segmented

\* A message with the FIN lies where it lay, and is longer by the FIN.
LEMMA WithFIN ==
    ASSUME NEW msg \in Msg, ~msg.FIN, NEW pos \in Nat, At(msg, pos), NEW flag \in BOOLEAN,
           NEW m, m = [msg EXCEPT !.FIN = flag]
    PROVE  /\ m \in Msg /\ At(m, pos) /\ (m.FIN <=> flag)
           /\ sequence_length(m) = sequence_length(msg) + One(flag)
  <1>1. /\ m \in Msg /\ m.FIN = flag /\ m.seqno = msg.seqno /\ m.SYN = msg.SYN
        /\ m.payload = msg.payload
    BY DEF Msg
  <1>2. /\ sequence_length(m) = One(msg.SYN) + Len(msg.payload) + One(flag)
        /\ sequence_length(msg) = One(msg.SYN) + Len(msg.payload) + One(msg.FIN)
        /\ One(msg.SYN) \in Nat /\ Len(msg.payload) \in Nat
    BY <1>1, LengthType DEF sequence_length
  <1>3. One(msg.FIN) = 0 /\ One(flag) \in Nat
    BY DEF One
  <1>4. sequence_length(m) = sequence_length(msg) + One(flag)
    <2>1. \A a, b, f, z \in Nat : z = 0 => a + b + f = (a + b + z) + f
      OBVIOUS
    <2>2. One(msg.SYN) + Len(msg.payload) + One(flag)
            = (One(msg.SYN) + Len(msg.payload) + One(msg.FIN)) + One(flag)
      BY <1>2, <1>3, <2>1
    <2> QED BY <1>2, <2>2
  <1>5. At(m, pos)
    <2>1. sequence_length(m) > 0
      BY <1>2, <1>3, <1>4 DEF At
    <2>2. m.seqno = wrap(pos, Isn) /\ (m.SYN <=> pos = 0) /\ Len(m.payload) <= MAX_PAYLOAD_SIZE
      BY <1>1 DEF At
    <2>3. \A k \in DOMAIN m.payload : m.payload[k] = pos + One(m.SYN) + k - 2
      BY <1>1 DEF At
    <2> QED BY <2>1, <2>2, <2>3 DEF At
  <1> QED BY <1>1, <1>4, <1>5

\* The positions p of L messages, those of the c segments behind them, and the end.
Prolonged(p, L, c, next, taken, end) ==
    [i \in 1..L + c + 1 |->
       IF i <= L THEN p[i] ELSE IF i = L + c + 1 THEN end
       ELSE next + Covered(i - (L + 1), taken)]

PushedAt(s, t, p, r) ==
    /\ r \in Positions(Line(t)) /\ Laid(Line(t), r)
    /\ r[1] = p[1] /\ r[Border(t)] = s.next_seqno
    /\ r[Len(Line(t)) + 1] = t.next_seqno
    /\ ~Again(t) /\ QueueShape(t) /\ Line(t) # <<>>
    /\ Line(t)[Len(Line(t))].FIN <=> ~t.has_not_sent_FIN

\* The segments of push lie behind the line, in place.
LEMMA PushLays ==
    ASSUME NEW s \in Sender, NEW o \in Stream, StreamInv(o), s.unsent_msgs = <<>>,
           NEW p, LiesAt(s, p), NoFIN(Line(s)),
           NEW taken, taken = BytesToTake(s, o), taken > 0,
           s.next_seqno = o.bytes_popped + 1,
           NEW t, NEW flag, Segmented(s, o, t, taken, flag)
    PROVE  \E r : PushedAt(s, t, p, r)
  <1> DEFINE segs == Segments(s, o)
             c == Len(segs)
             O == Line(s)
             L == Len(O)
             next == s.next_seqno
             end == t.next_seqno
             r == Prolonged(p, L, c, next, taken, end)
  <1>1. taken \in Nat /\ next \in Nat
    BY TakenBounds, SenderMembers DEF Stream
  <1>2. /\ t \in Sender /\ c \in Nat \ {0} /\ c = Count(taken) /\ flag \in BOOLEAN
        /\ Len(t.unsent_msgs) = c
        /\ \A i \in 1..c :
             /\ t.unsent_msgs[i].msg = IF i = c THEN [segs[i].msg EXCEPT !.FIN = flag]
                                       ELSE segs[i].msg
             /\ ~t.unsent_msgs[i].is_retransmitted
        /\ t.unacked_msgs = s.unacked_msgs
        /\ end = next + taken + One(flag)
        /\ t.has_not_sent_FIN = ~flag
    BY DEF Segmented
  <1>3. /\ O = s.unacked_msgs /\ ~Again(s) /\ O \in Seq(Msg) /\ L \in Nat
        /\ p \in Positions(O) /\ Laid(O, p) /\ p[L + 1] = next
    BY DrainedLine, SenderMembers DEF LiesAt
  <1>4. ~Again(t) /\ QueueShape(t)
    <2>1. \A i \in 1..Len(t.unsent_msgs) : ~t.unsent_msgs[i].is_retransmitted
      BY <1>2
    <2>2. Head(t.unsent_msgs) = t.unsent_msgs[1] /\ 1 \in 1..Len(t.unsent_msgs)
      BY <1>2, SenderMembers
    <2>3. ~Again(t)
      BY <2>1, <2>2 DEF Again
    <2> QED BY <2>1, <2>3 DEF QueueShape
  <1>5. /\ Line(t) \in Seq(Msg) /\ Len(Line(t)) = L + c
        /\ \A i \in 1..L : Line(t)[i] = O[i]
        /\ \A i \in 1..c : Line(t)[L + i] = t.unsent_msgs[i].msg
    <2>1. /\ Line(t) \in Seq(Msg) /\ Len(Line(t)) = Len(t.unacked_msgs) + Len(t.unsent_msgs)
          /\ \A i \in 1..Len(t.unacked_msgs) : Line(t)[i] = t.unacked_msgs[i]
          /\ \A i \in 1..Len(t.unsent_msgs) :
               Line(t)[Len(t.unacked_msgs) + i] = t.unsent_msgs[i].msg
      BY <1>2, <1>4, LineType
    <2>2. t.unacked_msgs = O /\ Len(t.unsent_msgs) = c
      BY <1>2, <1>3
    <2> HIDE DEF O, c
    <2> QED BY <2>1, <2>2
  <1>6. Border(t) = L + 1
    BY <1>2, <1>3, <1>4 DEF Border
  <1>7. NoFIN(O)
    OBVIOUS
  <1>8. ASSUME NEW k \in 1..c
        PROVE  /\ segs[k].msg \in Msg /\ ~segs[k].msg.FIN
               /\ At(segs[k].msg, next + Covered(k - 1, taken))
               /\ next + Covered(k, taken)
                    = next + Covered(k - 1, taken) + sequence_length(segs[k].msg)
    <2>1. /\ segs[k] \in Wrapped /\ ~segs[k].msg.FIN
          /\ At(segs[k].msg, next + Covered(k - 1, taken))
          /\ next + Covered(k, taken)
               = next + Covered(k - 1, taken) + sequence_length(segs[k].msg)
      BY SegmentPlace
    <2> QED BY <2>1 DEF Wrapped
  <1>9. Covered(c, taken) = taken /\ Covered(0, taken) = 0
        /\ \A k \in Nat : Covered(k, taken) \in Nat
    <2>1. taken <= c * MAX_PAYLOAD_SIZE
      BY <1>1, <1>2, SegmentCount
    <2>2. Covered(c, taken) = taken
      <3> DEFINE x == c * MAX_PAYLOAD_SIZE
      <3>1. x \in Nat /\ taken <= x /\ Covered(c, taken) = Smaller(x, taken)
        BY <1>2, <2>1 DEF Covered
      <3> HIDE DEF x
      <3> QED BY <1>1, <3>1 DEF Smaller
    <2>3. ASSUME NEW k \in Nat PROVE Covered(k, taken) \in Nat /\ Covered(0, taken) = 0
      <3>1. Covered(k, taken) \in 0..taken /\ Covered(0, taken) = 0
        BY <1>1, CoveredType
      <3> QED BY <1>1, <3>1
    <2> QED BY <2>2, <2>3
  <1>10. r = [i \in 1..L + c + 1 |->
               IF i <= L THEN p[i] ELSE IF i = L + c + 1 THEN end
               ELSE next + Covered(i - (L + 1), taken)]
    BY DEF Prolonged
  <1>11. end \in Nat /\ One(flag) \in 0..1
    BY <1>1, <1>2 DEF One
  <1> HIDE DEF segs, c, O, L, next, end, r
  <1>12. \A i \in 1..L + 1 : p[i] \in Nat
    BY <1>3 DEF Positions, L
  <1>13. /\ r \in [1..L + c + 1 -> Nat] /\ r[L + c + 1] = end
         /\ \A i \in 1..L : r[i] = p[i]
         /\ \A k \in 1..c : r[L + k] = next + Covered(k - 1, taken)
    <2>1. ASSUME NEW i \in 1..L + c + 1
          PROVE  (IF i <= L THEN p[i] ELSE IF i = L + c + 1 THEN end
                  ELSE next + Covered(i - (L + 1), taken)) \in Nat
      <3>1. CASE i <= L
        BY <1>2, <1>3, <1>12, <3>1
      <3>2. CASE i > L
        <4>1. i - (L + 1) \in Nat
          BY <1>2, <1>3, <3>2, SMTT(60)
        <4>2. Covered(i - (L + 1), taken) \in Nat
          BY <1>9, <4>1
        <4> QED BY <1>1, <1>3, <1>11, <3>2, <4>2
      <3> QED BY <1>3, <3>1, <3>2
    <2>2. r \in [1..L + c + 1 -> Nat]
      BY <1>10, <2>1
    <2>3. r[L + c + 1] = end
      BY <1>2, <1>3, <1>10, SMTT(60)
    <2>4. \A i \in 1..L : r[i] = p[i]
      BY <1>2, <1>3, <1>10
    <2>5. ASSUME NEW k \in 1..c PROVE r[L + k] = next + Covered(k - 1, taken)
      <3>1. L + k \in 1..L + c + 1 /\ ~(L + k <= L) /\ L + k # L + c + 1
            /\ (L + k) - (L + 1) = k - 1
        BY <1>2, <1>3, SMTT(60)
      <3> QED BY <1>10, <3>1
    <2> QED BY <2>2, <2>3, <2>4, <2>5
  <1>14. r[L + 1] = next
    <2>1. 1 \in 1..c /\ 1 - 1 = 0
      BY <1>2
    <2>2. r[L + 1] = next + Covered(1 - 1, taken)
      BY <1>13, <2>1
    <2> QED BY <1>1, <1>9, <2>1, <2>2, SMTT(60) DEF next
  <1>15. \A i \in 1..L + 1 : r[i] = p[i]
    BY <1>3, <1>13, <1>14 DEF L, next
  <1>16. ASSUME NEW i \in 1..L
         PROVE  /\ At(Line(t)[i], r[i])
                /\ r[i + 1] = r[i] + sequence_length(Line(t)[i])
                /\ ~Line(t)[i].FIN
    <2>1. i + 1 \in 1..L + 1 /\ i \in 1..L + 1
      BY <1>3
    <2>2. At(O[i], p[i]) /\ p[i + 1] = p[i] + sequence_length(O[i]) /\ ~O[i].FIN
      BY <1>3, <1>7 DEF Laid, NoFIN, L
    <2> QED BY <1>5, <1>15, <2>1, <2>2
  <1>17. ASSUME NEW k \in 1..c, k # c
         PROVE  /\ At(Line(t)[L + k], r[L + k])
                /\ r[L + k + 1] = r[L + k] + sequence_length(Line(t)[L + k])
                /\ ~Line(t)[L + k].FIN
    <2>1. k + 1 \in 1..c /\ (k + 1) - 1 = k /\ L + k + 1 = L + (k + 1)
      <3>1. c \in Nat /\ L \in Nat /\ k \in 1..c /\ k # c
        BY <1>2, <1>3, <1>17
      <3>2. \A a, b, d \in Nat : a \in 1..b /\ a # b =>
              a + 1 \in 1..b /\ (a + 1) - 1 = a /\ d + a + 1 = d + (a + 1)
        OBVIOUS
      <3>3. k \in Nat
        BY <3>1
      <3> QED BY <3>1, <3>2, <3>3
    <2>2. Line(t)[L + k] = segs[k].msg
      BY <1>2, <1>5, <1>17
    <2>3. r[L + (k + 1)] = next + Covered((k + 1) - 1, taken)
          /\ r[L + k] = next + Covered(k - 1, taken)
      BY <1>13, <2>1
    <2>4. r[L + k + 1] = next + Covered(k, taken)
      BY <2>1, <2>3
    <2> QED BY <1>8, <2>2, <2>3, <2>4
  <1>18. /\ At(Line(t)[L + c], r[L + c])
         /\ r[L + c + 1] = r[L + c] + sequence_length(Line(t)[L + c])
         /\ Line(t)[L + c].FIN <=> flag
    <2> DEFINE msg == segs[c].msg
               m == [msg EXCEPT !.FIN = flag]
               pos == next + Covered(c - 1, taken)
    <2>1. c \in 1..c /\ c - 1 \in Nat
      BY <1>2
    <2>2. msg \in Msg /\ ~msg.FIN /\ At(msg, pos) /\ next + taken = pos + sequence_length(msg)
      BY <1>8, <1>9, <2>1
    <2>3. pos \in Nat /\ Covered(c - 1, taken) \in Nat
      BY <1>1, <1>9, <2>1 DEF next
    <2>4. Line(t)[L + c] = m
      BY <1>2, <1>5, <2>1
    <2>5. r[L + c] = pos
      BY <1>13, <2>1
    <2>6. sequence_length(msg) \in Nat
      BY <2>2, LengthType
    <2> HIDE DEF pos, msg
    <2>7. At(m, pos) /\ (m.FIN <=> flag) /\ sequence_length(m) = sequence_length(msg) + One(flag)
      BY <1>2, <2>2, <2>3, WithFIN
    <2> HIDE DEF m
    <2>8. end = pos + sequence_length(m)
      BY <1>2, <1>11, <2>2, <2>3, <2>6, <2>7, SMTT(60) DEF end
    <2> QED BY <1>13, <2>4, <2>5, <2>7, <2>8
  <1>19. Laid(Line(t), r)
    <2> SUFFICES ASSUME NEW i \in 1..L + c
                 PROVE  /\ At(Line(t)[i], r[i])
                        /\ r[i + 1] = r[i] + sequence_length(Line(t)[i])
                        /\ Line(t)[i].FIN => i = L + c
      BY <1>5 DEF Laid
    <2>1. CASE i <= L
      BY <1>16, <2>1
    <2>2. CASE i > L
      <3> DEFINE k == i - L
      <3>1. k \in 1..c /\ i = L + k
        BY <1>2, <1>3, <2>2, SMTT(60)
      <3> HIDE DEF k
      <3> QED BY <1>17, <1>18, <3>1
    <2> QED BY <1>3, <2>1, <2>2
  <1>20. r \in Positions(Line(t)) /\ r[Len(Line(t)) + 1] = t.next_seqno /\ Line(t) # <<>>
    <2>1. Len(Line(t)) # 0
      BY <1>2, <1>3, <1>5
    <2> QED BY <1>5, <1>13, <2>1 DEF Positions, end
  <1>21. r[1] = p[1]
    BY <1>3, <1>15
  <1>22. Line(t)[Len(Line(t))].FIN <=> ~t.has_not_sent_FIN
    BY <1>2, <1>5, <1>18
  <1> QED BY <1>4, <1>6, <1>14, <1>19, <1>20, <1>21, <1>22 DEF PushedAt, next

------------------------------------------------------------------------------
(* Every operation keeps the sender and its stream coherent. *)

\* The line begins where it began: nothing has been given up.
SameStart(s, t) == \E p, r : LiesAt(s, p) /\ LiesAt(t, r) /\ r[1] = p[1]

\* A line that fits spans at most half a word.
LEMMA FitsSpan ==
    ASSUME NEW s \in Sender, NEW p, LiesAt(s, p), Fits(s)
    PROVE  s.next_seqno - p[1] <= HalfWord /\ Total(Line(s)) = s.next_seqno - p[1]
  <1> DEFINE O == Line(s)
  <1>1. O \in Seq(Msg) /\ p \in Positions(O) /\ Laid(O, p) /\ p[Len(O) + 1] = s.next_seqno
    BY LineType DEF LiesAt
  <1> HIDE DEF O
  <1>2. Total(O) = s.next_seqno - p[1]
    BY <1>1, TotalIsSpan
  <1> QED BY <1>2 DEF Fits, O

\* The two counters together are the span of the line.
LEMMA InFlightIsSpan ==
    ASSUME NEW s \in Sender, NEW p, LiesAt(s, p), s.next_seqno - p[1] <= HalfWord
    PROVE  sequence_numbers_in_flight(s) = s.next_seqno - p[1]
  <1> DEFINE b == p[Border(s)]
             x == s.next_seqno - p[1]
  <1>1. Border(s) \in 1..Len(Line(s)) + 1
    <2>1. Len(Line(s)) = Len(s.unacked_msgs) + Len(s.unsent_msgs)
          /\ Len(s.unacked_msgs) \in Nat /\ Len(s.unsent_msgs) \in Nat
      BY LineType
    <2>2. Again(s) => Len(s.unsent_msgs) # 0
      BY SenderMembers DEF Again
    <2>3. \A m, n \in Nat : /\ m + 1 \in 1..(m + n) + 1
                           /\ n # 0 => 2 \in 1..(m + n) + 1
      OBVIOUS
    <2>4. Again(s) => Border(s) = 2
      BY DEF Border
    <2>5. ~Again(s) => Border(s) = Len(s.unacked_msgs) + 1
      BY DEF Border
    <2> DEFINE m == Len(s.unacked_msgs)
               n == Len(s.unsent_msgs)
               L == Len(Line(s))
    <2>6. m \in Nat /\ n \in Nat /\ L = m + n
      BY <2>1
    <2> HIDE DEF m, n, L
    <2>7. 1 + m = m + 1 /\ m + 1 \in 1..L + 1 /\ (n # 0 => 2 \in 1..L + 1)
      BY <2>3, <2>6
    <2>8. CASE Again(s)
      BY <2>2, <2>4, <2>7, <2>8 DEF n, L
    <2>9. CASE ~Again(s)
      BY <2>5, <2>7, <2>9 DEF m, L
    <2> QED BY <2>8, <2>9
  <1>2. p[1] \in Nat /\ b \in Nat /\ p[1] <= b /\ b <= s.next_seqno /\ s.next_seqno \in Nat
    BY <1>1, LiesAtSpan, SenderMembers
  <1>3. \/ s.unsent_seqnos = b - p[1] /\ s.unacked_seqnos = s.next_seqno - b
        \/ s.unacked_seqnos = b - p[1] /\ s.unsent_seqnos = s.next_seqno - b
    BY DEF LiesAt, Counted
  <1> HIDE DEF b
  <1>4. s.unsent_seqnos + s.unacked_seqnos = x /\ x \in Nat /\ x <= HalfWord
    BY <1>2, <1>3
  <1> HIDE DEF x
  <1>5. x % Word = x
    BY <1>4, SmallMod
  <1> QED BY <1>4, <1>5 DEF sequence_numbers_in_flight, x

\* As long as no FIN was sent, the line holds none.
LEMMA LastFIN ==
    ASSUME NEW s \in Sender, NEW o \in Stream, FlightInv(s), ProgressInv(s, o),
           s.has_not_sent_FIN
    PROVE  NoFIN(Line(s))
  <1> DEFINE O == Line(s)
  <1>1. PICK p : LiesAt(s, p)
    BY DEF FlightInv
  <1>2. Laid(O, p)
    BY <1>1 DEF LiesAt
  <1>3. \A i \in 1..Len(O) : O[i].FIN => i = Len(O)
    BY <1>2 DEF Laid
  <1>4. O # <<>> => (O[Len(O)].FIN <=> ~s.has_not_sent_FIN)
    BY DEF ProgressInv
  <1>5. O \in Seq(Msg)
    BY LineType
  <1> HIDE DEF O
  <1>6. ASSUME NEW i \in 1..Len(O) PROVE ~O[i].FIN
    <2>1. O # <<>>
      BY <1>5
    <2> QED BY <1>3, <1>4, <2>1
  <1> QED BY <1>6 DEF NoFIN, O

\* push keeps the invariant when there is nothing to take.
LEMMA PushNothing ==
    ASSUME NEW s, NEW o, Coherent(s, o), s.unsent_msgs = <<>>, BytesToTake(s, o) = 0
    PROVE  /\ Coherent(AttachFIN(Cut(s, o)), pop(o, 0))
           /\ AttachFIN(Cut(s, o)).next_seqno = s.next_seqno
           /\ SameStart(s, AttachFIN(Cut(s, o)))
  <1> DEFINE t == Cut(s, o)
             x == pop(o, 0)
  <1>1. /\ s \in Sender /\ o \in Stream /\ FlightInv(s) /\ StreamInv(o)
        /\ ProgressInv(s, o) /\ TimerInv(s)
    BY DEF Coherent
  <1>2. PICK p : LiesAt(s, p)
    BY <1>1 DEF FlightInv
  <1>3. WasCut(s, o, 0, t)
    <2>1. WasCut(s, o, BytesToTake(s, o), t)
      BY <1>1, CutEffect
    <2> QED BY <2>1
  <1>4. Segments(s, o) = <<>>
    <2>1. Segments(s, o) \in Seq(Wrapped) /\ Len(Segments(s, o)) = Count(0)
      BY <1>1, SegmentsType
    <2>2. Count(0) = 0
      BY SegmentCount
    <2> QED BY <2>1, <2>2, EmptySeq
  <1> HIDE DEF t
  <1>5. /\ t \in Sender /\ t.unsent_msgs = <<>> /\ t.unacked_msgs = s.unacked_msgs
        /\ t.unsent_seqnos = (s.unsent_seqnos + 0) % Word
        /\ t.unacked_seqnos = s.unacked_seqnos /\ t.next_seqno = s.next_seqno + 0
        /\ t.stream_is_finished = is_finished(x)
        /\ t.has_not_sent_SYN = s.has_not_sent_SYN /\ t.has_not_sent_FIN = s.has_not_sent_FIN
        /\ t.timer = s.timer /\ t.consecutive_retransmissions = s.consecutive_retransmissions
    BY <1>3, <1>4 DEF WasCut
  <1>6. AttachFIN(t) = t
    BY <1>5 DEF AttachFIN
  <1>7. s.unsent_seqnos = 0 /\ t.unsent_seqnos = 0 /\ t.next_seqno = s.next_seqno
    <2>1. ~Again(s) /\ Border(s) = Len(Line(s)) + 1
      BY <1>1, DrainedLine
    <2>2. s.unsent_seqnos = s.next_seqno - s.next_seqno
      BY <1>2, <2>1 DEF LiesAt, Counted
    <2>3. s.unsent_seqnos = 0
      BY <1>1, <2>2, SenderMembers
    <2>4. (0 + 0) % Word = 0
      BY SmallMod, WordType
    <2>5. s.next_seqno + 0 = s.next_seqno
      BY <1>1, SenderMembers
    <2> QED BY <1>5, <2>3, <2>4, <2>5
  <1>8. Line(t) = Line(s) /\ QueueShape(t) /\ LiesAt(t, p) /\ (Again(t) <=> Again(s))
    <2>1. /\ Line(t) = Line(s) /\ (Again(t) <=> Again(s))
          /\ \A r : LiesAt(s, r) => LiesAt(t, r)
      BY <1>1, <1>5, <1>7, SameQueues
    <2>2. QueueShape(t)
      BY <1>5, DrainedLine
    <2> QED BY <1>2, <2>1, <2>2
  <1>9. /\ x \in Stream /\ StreamInv(x)
        /\ x.bytes_popped = o.bytes_popped /\ (is_finished(x) <=> is_finished(o))
    <2>1. 0 \in 0..Len(o.queue) /\ o.bytes_popped + 0 = o.bytes_popped
          /\ (o.queue = <<>> <=> 0 = Len(o.queue))
      BY <1>1 DEF Stream
    <2>2. /\ x \in Stream /\ StreamInv(x)
          /\ x.bytes_popped = o.bytes_popped + 0 /\ x.closed = o.closed
          /\ x.queue = <<>> <=> 0 = Len(o.queue)
      BY <1>1, <2>1, PopEffect
    <2> QED BY <2>1, <2>2 DEF is_finished
  <1> HIDE DEF x
  <1>10. ProgressInv(t, x)
    <2>1. t.next_seqno = One(~t.has_not_sent_SYN) + x.bytes_popped + One(~t.has_not_sent_FIN)
      BY <1>1, <1>5, <1>7, <1>9 DEF ProgressInv
    <2>2. t.has_not_sent_SYN => x.bytes_popped = 0 /\ Line(t) = <<>> /\ t.has_not_sent_FIN
      BY <1>1, <1>5, <1>8, <1>9 DEF ProgressInv
    <2>3. t.stream_is_finished => is_finished(x)
      BY <1>5
    <2>4. ~t.has_not_sent_FIN => t.stream_is_finished
      BY <1>1, <1>5, <1>9 DEF ProgressInv
    <2>5. Line(t) # <<>> => (Line(t)[Len(Line(t))].FIN <=> ~t.has_not_sent_FIN)
      BY <1>1, <1>5, <1>8 DEF ProgressInv
    <2> QED BY <2>1, <2>2, <2>3, <2>4, <2>5 DEF ProgressInv
  <1>11. TimerInv(t)
    BY <1>1, <1>5, <1>8 DEF TimerInv
  <1>12. Coherent(t, x)
    BY <1>5, <1>8, <1>9, <1>10, <1>11 DEF Coherent, FlightInv
  <1>13. SameStart(s, t)
    BY <1>2, <1>8 DEF SameStart
  <1> QED BY <1>6, <1>7, <1>12, <1>13 DEF t, x

\* The arithmetic of a line from a to b, k more bytes and f flags.
LEMMA SpanArithmetic ==
    \A a, b, k, f, h \in Nat : a <= b /\ (b + k + f) - a <= h =>
        /\ k <= h /\ k + f <= h /\ k + f \in Nat
        /\ k + (b - a) \in Nat /\ k + (b - a) <= h
        /\ (k + (b - a)) + f \in Nat /\ (k + (b - a)) + f <= h
        /\ \A w \in Nat : /\ k <= w - (b - a) /\ f = 0 => (b + k + f) - a <= w
                          /\ w >= (k + (b - a)) + f => (b + k + f) - a <= w
  OBVIOUS

\* The window leaves room for what push takes and for the FIN it attaches.
WithinWindow(s, t) ==
    t.next_seqno > s.next_seqno /\ s.next_seqno > 0 /\ s.window_size > 0
      => Total(Line(t)) <= s.window_size

\* push keeps the invariant when it takes bytes, and respects the window.
LEMMA PushSomething ==
    ASSUME NEW s, NEW o, Coherent(s, o), s.unsent_msgs = <<>>,
           s.has_not_sent_SYN => o.queue = <<>>, Fits(s),
           NEW taken, taken = BytesToTake(s, o), taken > 0,
           NEW t, t = AttachFIN(Cut(s, o)), Fits(t)
    PROVE  /\ Coherent(t, pop(o, taken)) /\ WithinWindow(s, t)
           /\ SameStart(s, t) /\ s.next_seqno <= t.next_seqno
  <1> DEFINE q == Cut(s, o)
             flag == FINDue(q)
             x == pop(o, taken)
  <1>1. /\ s \in Sender /\ o \in Stream /\ FlightInv(s) /\ StreamInv(o)
        /\ ProgressInv(s, o) /\ TimerInv(s)
    BY DEF Coherent
  <1>2. PICK p : LiesAt(s, p)
    BY <1>1 DEF FlightInv
  <1>3. /\ taken \in Nat /\ taken \in 0..Len(o.queue) /\ o.bytes_popped \in Nat
        /\ s.window_size > 0 => taken <= s.window_size - sequence_numbers_in_flight(s)
    BY <1>1, TakenBounds DEF Stream
  <1>4. o.queue # <<>>
    BY <1>1, <1>3 DEF Stream
  <1>5. s.has_not_sent_SYN = FALSE /\ s.has_not_sent_FIN = TRUE
    BY <1>1, <1>4, SenderMembers DEF ProgressInv, is_finished
  <1>6. s.next_seqno = o.bytes_popped + 1
    <2>1. s.next_seqno = One(~s.has_not_sent_SYN) + o.bytes_popped + One(~s.has_not_sent_FIN)
      BY <1>1 DEF ProgressInv
    <2>2. One(~s.has_not_sent_SYN) = 1 /\ One(~s.has_not_sent_FIN) = 0
      BY <1>5 DEF One
    <2> QED BY <1>3, <2>1, <2>2
  <1>7. NoFIN(Line(s))
    BY <1>1, <1>5, LastFIN
  <1>8. Segmented(s, o, t, taken, flag)
    BY <1>1, <1>5, <1>6, PushEffect
  <1>9. PICK r : PushedAt(s, t, p, r)
    BY <1>1, <1>2, <1>6, <1>7, <1>8, PushLays
  <1>10. WasCut(s, o, taken, q)
    BY <1>1, <1>6, CutEffect
  <1> HIDE DEF q, flag, x
  <1>11. /\ t \in Sender /\ flag \in BOOLEAN /\ t.unacked_msgs = s.unacked_msgs
         /\ t.unsent_seqnos = (((s.unsent_seqnos + taken) % Word) + One(flag)) % Word
         /\ t.unacked_seqnos = s.unacked_seqnos
         /\ t.next_seqno = s.next_seqno + taken + One(flag)
         /\ t.stream_is_finished = is_finished(x)
         /\ t.has_not_sent_SYN = s.has_not_sent_SYN /\ t.has_not_sent_FIN = ~flag
         /\ flag => t.stream_is_finished
         /\ t.timer = s.timer /\ t.consecutive_retransmissions = s.consecutive_retransmissions
    BY <1>8 DEF Segmented, x
  <1>12. /\ r \in Positions(Line(t)) /\ Laid(Line(t), r)
         /\ r[1] = p[1] /\ r[Border(t)] = s.next_seqno
         /\ r[Len(Line(t)) + 1] = t.next_seqno
         /\ ~Again(t) /\ QueueShape(t) /\ Line(t) # <<>>
         /\ Line(t)[Len(Line(t))].FIN <=> ~t.has_not_sent_FIN
    BY <1>9 DEF PushedAt
  <1>13. Total(Line(t)) = t.next_seqno - p[1] /\ t.next_seqno - p[1] <= HalfWord
    <2>1. Line(t) \in Seq(Msg)
      BY <1>11, LineType
    <2>2. Total(Line(t)) = r[Len(Line(t)) + 1] - r[1]
      BY <1>12, <2>1, TotalIsSpan
    <2> QED BY <1>12, <2>2 DEF Fits
  <1>14. p[1] \in Nat /\ p[1] <= s.next_seqno /\ s.next_seqno \in Nat /\ One(flag) \in 0..1
    <2>1. 1 \in 1..Len(Line(s)) + 1
      BY <1>1, LineType
    <2> QED BY <1>1, <1>2, <2>1, LiesAtSpan, SenderMembers DEF One
  <1>15. s.unsent_seqnos = 0 /\ s.unacked_seqnos = s.next_seqno - p[1] /\ ~Again(s)
    <2>1. ~Again(s) /\ Border(s) = Len(Line(s)) + 1
      BY <1>1, DrainedLine
    <2>2. /\ s.unsent_seqnos = s.next_seqno - s.next_seqno
          /\ s.unacked_seqnos = s.next_seqno - p[1]
      BY <1>2, <2>1 DEF LiesAt, Counted
    <2> QED BY <1>14, <2>1, <2>2
  <1> DEFINE f == One(flag)
  <1>16. /\ f \in 0..1 /\ t.next_seqno = s.next_seqno + taken + f
         /\ t.unsent_seqnos = (((s.unsent_seqnos + taken) % Word) + f) % Word
         /\ f = One(flag)
    BY <1>11, <1>14
  <1> HIDE DEF f
  <1>17. taken <= HalfWord /\ taken + f <= HalfWord /\ taken + f \in Nat /\ f \in Nat
         /\ taken + (s.next_seqno - p[1]) \in Nat /\ taken + (s.next_seqno - p[1]) <= HalfWord
         /\ (taken + (s.next_seqno - p[1])) + f \in Nat
         /\ (taken + (s.next_seqno - p[1])) + f <= HalfWord
    <2>1. f \in Nat /\ (s.next_seqno + taken + f) - p[1] <= HalfWord
      BY <1>13, <1>16
    <2> DEFINE a == p[1]
               b == s.next_seqno
    <2>2. /\ a \in Nat /\ b \in Nat /\ taken \in Nat /\ f \in Nat /\ HalfWord \in Nat
          /\ a <= b /\ (b + taken + f) - a <= HalfWord
      BY <1>3, <1>14, <2>1
    <2> HIDE DEF a, b
    <2>3. /\ taken <= HalfWord /\ taken + f <= HalfWord /\ taken + f \in Nat
          /\ taken + (b - a) \in Nat /\ taken + (b - a) <= HalfWord
          /\ (taken + (b - a)) + f \in Nat /\ (taken + (b - a)) + f <= HalfWord
      BY <2>2, SpanArithmetic, SMTT(60)
    <2> QED BY <2>1, <2>3 DEF a, b
  <1>18. t.unsent_seqnos = t.next_seqno - s.next_seqno
    <2>1. s.unsent_seqnos + taken = taken
      BY <1>3, <1>15
    <2>2. taken % Word = taken
      BY <1>3, <1>17, SmallMod
    <2>3. (taken + f) % Word = taken + f
      <3> DEFINE z == taken + f
      <3>1. z \in Nat /\ z <= HalfWord
        BY <1>17
      <3> HIDE DEF z
      <3>2. z % Word = z
        BY <3>1, SmallMod
      <3> QED BY <3>2 DEF z
    <2>4. t.next_seqno - s.next_seqno = taken + f
      BY <1>3, <1>14, <1>16
    <2> QED BY <1>16, <2>1, <2>2, <2>3, <2>4
  <1>19. FlightInv(t) /\ SameStart(s, t)
    <2>1. Counted(t, r)
      BY <1>11, <1>12, <1>15, <1>18 DEF Counted
    <2>2. LiesAt(t, r)
      BY <1>12, <2>1 DEF LiesAt
    <2> QED BY <1>2, <1>12, <2>2 DEF FlightInv, SameStart
  <1>20. x \in Stream /\ StreamInv(x) /\ x.bytes_popped = o.bytes_popped + taken
    BY <1>1, <1>3, PopEffect DEF x
  <1>21. ProgressInv(t, x)
    <2>1. One(~t.has_not_sent_SYN) = 1 /\ One(~t.has_not_sent_FIN) = f
      BY <1>5, <1>11 DEF One, f
    <2>2. t.next_seqno = 1 + x.bytes_popped + f
      BY <1>3, <1>6, <1>16, <1>20
    <2>3. ~t.has_not_sent_SYN
      BY <1>5, <1>11
    <2>4. ~t.has_not_sent_FIN => t.stream_is_finished
      BY <1>11
    <2> QED BY <1>11, <1>12, <2>1, <2>2, <2>3, <2>4 DEF ProgressInv
  <1>22. TimerInv(t)
    BY <1>1, <1>11, <1>12, <1>15 DEF TimerInv
  <1>23. WithinWindow(s, t)
    <2> SUFFICES ASSUME s.window_size > 0 PROVE Total(Line(t)) <= s.window_size
      BY DEF WithinWindow
    <2>1. sequence_numbers_in_flight(s) = s.next_seqno - p[1]
      BY <1>1, <1>2, FitsSpan, InFlightIsSpan
    <2>2. taken <= s.window_size - (s.next_seqno - p[1]) /\ s.window_size \in Nat
      BY <1>1, <1>3, <2>1, SenderMembers
    <2>3. CASE ~flag
      <3>1. f = 0
        BY <1>16, <2>3 DEF One
      <3>2. (s.next_seqno + taken + f) - p[1] <= HalfWord
        BY <1>13, <1>16
      <3>3. (s.next_seqno + taken + f) - p[1] <= s.window_size
        BY <1>3, <1>14, <1>17, <2>2, <3>1, <3>2, SpanArithmetic
      <3> QED BY <1>13, <1>16, <3>3
    <2>4. CASE flag
      <3>1. f = 1
        BY <1>16, <2>4 DEF One
      <3>2. FINFits(q)
        BY <2>4 DEF flag, FINDue
      <3>3. /\ q.unsent_seqnos = (s.unsent_seqnos + taken) % Word
            /\ q.unacked_seqnos = s.unacked_seqnos /\ q.window_size = s.window_size
        BY <1>10 DEF WasCut
      <3>4. q.unsent_seqnos = taken
        <4>1. s.unsent_seqnos + taken = taken
          BY <1>3, <1>15
        <4> QED BY <1>3, <1>17, <3>3, <4>1, SmallMod
      <3> DEFINE y == taken + (s.next_seqno - p[1])
      <3>5. y \in Nat /\ y + 1 \in Nat /\ y <= HalfWord /\ y + 1 <= HalfWord
            /\ q.unsent_seqnos + q.unacked_seqnos = y
        BY <1>15, <1>17, <3>1, <3>3, <3>4
      <3> HIDE DEF y
      <3>6. y % Word = y /\ (y + 1) % Word = y + 1
        BY <3>5, SmallMod
      <3>7. s.window_size >= y + 1
        BY <3>2, <3>3, <3>5, <3>6 DEF FINFits, sequence_numbers_in_flight
      <3>8. s.window_size >= (taken + (s.next_seqno - p[1])) + f
        BY <3>1, <3>7 DEF y
      <3>9. (s.next_seqno + taken + f) - p[1] <= HalfWord
        BY <1>13, <1>16
      <3>10. (s.next_seqno + taken + f) - p[1] <= s.window_size
        BY <1>3, <1>14, <1>17, <2>2, <3>8, <3>9, SpanArithmetic
      <3> QED BY <1>13, <1>16, <3>10
    <2> QED BY <1>11, <2>3, <2>4
  <1>24. s.next_seqno <= t.next_seqno
    BY <1>3, <1>14, <1>16
  <1> QED BY <1>11, <1>19, <1>20, <1>21, <1>22, <1>23, <1>24 DEF Coherent, x

\* Sending starts the timer and does not disturb the backoff.
LEMMA StartedTimer ==
    ASSUME NEW s \in Sender, TimerInv(s), NEW t, t.timer = StartIfOff(s.timer),
           t.consecutive_retransmissions = s.consecutive_retransmissions,
           t.unacked_msgs # <<>>
    PROVE  TimerInv(t)
  <1> DEFINE tm == s.timer
             n == s.consecutive_retransmissions
  <1>1. tm \in Timer /\ n \in Nat
    BY SenderMembers
  <1>2. tm.RTO = Doubled[n] /\ (tm.is_on => tm.timeout \in 1..tm.RTO)
    BY DEF TimerInv
  <1> HIDE DEF tm, n
  <1>3. Doubled[n] \in Nat /\ Doubled[n] > 0
    BY <1>1, DoubledValues
  <1>4. /\ t.timer.is_on /\ t.timer.RTO = tm.RTO
        /\ t.timer.timeout = IF tm.is_on THEN tm.timeout ELSE tm.RTO
    BY <1>1, StartIfOffEffect DEF tm
  <1>5. t.timer.timeout \in 1..t.timer.RTO
    BY <1>2, <1>3, <1>4
  <1> QED BY <1>2, <1>4, <1>5 DEF TimerInv, n

\* Sending from the queue keeps the invariant.
LEMMA SendQueuedKeeps ==
    ASSUME NEW s, NEW o, Coherent(s, o), s.unsent_msgs # <<>>, Fits(s),
           NEW t, t = SendQueued(s).s
    PROVE  Coherent(t, o) /\ t.next_seqno = s.next_seqno
  <1>1. /\ s \in Sender /\ o \in Stream /\ FlightInv(s) /\ StreamInv(o)
        /\ ProgressInv(s, o) /\ TimerInv(s)
    BY DEF Coherent
  <1>2. PICK p : LiesAt(s, p)
    BY <1>1 DEF FlightInv
  <1>3. QueueShape(s) /\ s.next_seqno - p[1] <= HalfWord
    BY <1>1, <1>2, FitsSpan DEF FlightInv
  <1>4. ~s.has_not_sent_SYN
    <2>1. Len(s.unsent_msgs) # 0
      BY <1>1, SenderMembers
    <2>2. Len(Line(s)) = Len(s.unacked_msgs) + Len(s.unsent_msgs)
          /\ Len(s.unacked_msgs) \in Nat /\ Len(s.unsent_msgs) \in Nat
      BY <1>1, LineType
    <2>3. \A m, n \in Nat : n # 0 => m + n # 0
      OBVIOUS
    <2>4. Len(Line(s)) # 0
      BY <2>1, <2>2, <2>3
    <2>5. Line(s) # <<>>
      BY <2>4
    <2> QED BY <1>1, <2>5 DEF ProgressInv
  <1> DEFINE front == Head(s.unsent_msgs)
  <1>5. /\ t \in Sender
        /\ t.timer = StartIfOff(s.timer)
        /\ t.has_not_sent_SYN = FALSE /\ t.has_not_sent_FIN = s.has_not_sent_FIN
        /\ t.stream_is_finished = s.stream_is_finished /\ t.next_seqno = s.next_seqno
        /\ t.consecutive_retransmissions = s.consecutive_retransmissions
    <2>1. QueuedSent(s, t, front)
      BY <1>1, <1>4, SendQueuedEffect
    <2> QED BY <2>1 DEF QueuedSent
  <1>6. Line(t) = Line(s) /\ QueueShape(t) /\ LiesAt(t, p) /\ t.unacked_msgs # <<>>
    <2>1. CASE Again(s)
      BY <1>1, <1>2, <1>3, <1>4, <1>5, <2>1, SendAgainKeeps, DrainedLine
    <2>2. CASE ~Again(s)
      BY <1>1, <1>2, <1>3, <1>4, <2>2, SendNewKeeps
    <2> QED BY <2>1, <2>2
  <1>7. TimerInv(t)
    BY <1>1, <1>5, <1>6, StartedTimer
  <1>8. ProgressInv(t, o)
    <2>1. s.has_not_sent_SYN = FALSE
      BY <1>1, <1>4, SenderMembers
    <2> QED BY <1>1, <1>5, <1>6, <2>1 DEF ProgressInv
  <1> QED BY <1>1, <1>2, <1>5, <1>6, <1>7, <1>8 DEF Coherent, FlightInv

\* Sending flags alone keeps the invariant and respects the window.
LEMMA SendFlagsCoherent ==
    ASSUME NEW s, NEW o, Coherent(s, o), FlagsDue(s), Fits(s),
           NEW t, t = SendFlags(s).s, Fits(t)
    PROVE  Coherent(t, o) /\ WithinWindow(s, t)
  <1> DEFINE msg == SendFlags(s).msg
             len == sequence_length(msg)
             fin == CanSendFIN(s)
  <1>1. /\ s \in Sender /\ o \in Stream /\ FlightInv(s) /\ StreamInv(o)
        /\ ProgressInv(s, o) /\ TimerInv(s)
    BY DEF Coherent
  <1>2. PICK p : LiesAt(s, p)
    BY <1>1 DEF FlightInv
  <1>3. s.has_not_sent_FIN
    BY <1>1 DEF FlagsDue, CanSendFIN, ProgressInv
  <1>4. NoFIN(Line(s))
    BY <1>1, <1>3, LastFIN
  <1>5. /\ s.next_seqno = One(~s.has_not_sent_SYN) + o.bytes_popped
        /\ o.bytes_popped \in Nat /\ One(~s.has_not_sent_SYN) \in Nat
    <2>1. /\ s.next_seqno = One(~s.has_not_sent_SYN) + o.bytes_popped + One(~s.has_not_sent_FIN)
          /\ o.bytes_popped \in Nat
      BY <1>1 DEF ProgressInv, Stream
    <2>2. One(~s.has_not_sent_FIN) = 0 /\ One(~s.has_not_sent_SYN) \in Nat
      BY <1>3 DEF One
    <2> QED BY <2>1, <2>2
  <1>6. SynFollows(s)
    <2>1. s.has_not_sent_SYN => o.bytes_popped = 0 /\ One(~s.has_not_sent_SYN) = 0
      BY <1>1 DEF ProgressInv, One
    <2>2. ~s.has_not_sent_SYN => One(~s.has_not_sent_SYN) = 1
      BY DEF One
    <2> QED BY <1>5, <2>1, <2>2 DEF SynFollows
  <1>7. /\ t \in Sender /\ t.unsent_msgs = <<>> /\ FlagsSent(s, t, msg)
        /\ Total(Line(t)) = (s.next_seqno + len) - p[1]
        /\ Line(t) = Append(Line(s), msg) /\ t.unacked_msgs # <<>>
        /\ \E r : LiesAt(t, r) /\ r[1] = p[1]
    BY <1>1, <1>2, <1>4, <1>6, SendFlagsKeeps
  <1> HIDE DEF msg
  <1>8. /\ msg \in Msg /\ msg.payload = <<>>
        /\ msg.SYN = s.has_not_sent_SYN /\ msg.FIN = fin
        /\ t.next_seqno = s.next_seqno + len
        /\ t.timer = StartIfOff(s.timer)
        /\ t.has_not_sent_SYN = FALSE /\ t.has_not_sent_FIN = ~fin
        /\ t.stream_is_finished = s.stream_is_finished
        /\ t.consecutive_retransmissions = s.consecutive_retransmissions
    BY <1>7 DEF FlagsSent
  <1>9. fin \in BOOLEAN /\ (fin => s.stream_is_finished)
    BY <1>1, SenderMembers DEF CanSendFIN
  <1>10. len = One(s.has_not_sent_SYN) + One(fin)
    <2>1. len = One(msg.SYN) + Len(msg.payload) + One(msg.FIN)
      BY DEF sequence_length
    <2>2. Len(msg.payload) = 0
      BY <1>8
    <2>3. One(msg.SYN) = One(s.has_not_sent_SYN) /\ One(msg.FIN) = One(fin)
      BY <1>8
    <2>4. One(msg.SYN) \in Nat /\ One(msg.FIN) \in Nat
      BY DEF One
    <2> HIDE DEF len, fin
    <2> QED BY <2>1, <2>2, <2>3, <2>4
  <1> HIDE DEF len, fin
  <1>11. ProgressInv(t, o)
    <2>1. t.next_seqno = One(~t.has_not_sent_SYN) + o.bytes_popped + One(~t.has_not_sent_FIN)
      <3>1. One(~t.has_not_sent_SYN) = 1 /\ One(~t.has_not_sent_FIN) = One(fin)
            /\ One(fin) \in Nat
        BY <1>8, <1>9 DEF One
      <3>2. One(s.has_not_sent_SYN) + One(~s.has_not_sent_SYN) = 1
            /\ One(s.has_not_sent_SYN) \in Nat
        BY DEF One
      <3>3. \A a, b, c, d \in Nat : a + b = 1 => (b + c) + (a + d) = 1 + c + d
        OBVIOUS
      <3>4. t.next_seqno = (One(~s.has_not_sent_SYN) + o.bytes_popped)
                           + (One(s.has_not_sent_SYN) + One(fin))
        BY <1>5, <1>8, <1>10
      <3>5. t.next_seqno = 1 + o.bytes_popped + One(fin)
        BY <1>5, <3>1, <3>2, <3>3, <3>4
      <3> QED BY <3>1, <3>5
    <2>2. ~t.has_not_sent_SYN
      BY <1>8
    <2>3. t.stream_is_finished => is_finished(o)
      BY <1>1, <1>8 DEF ProgressInv
    <2>4. ~t.has_not_sent_FIN => t.stream_is_finished
      BY <1>8, <1>9
    <2>5. Line(t)[Len(Line(t))].FIN <=> ~t.has_not_sent_FIN
      <3>1. Line(s) \in Seq(Msg)
        BY <1>1, LineType
      <3>2. Len(Line(t)) = Len(Line(s)) + 1 /\ Line(t)[Len(Line(s)) + 1] = msg
        BY <1>7, <1>8, <3>1, AppendElements
      <3> QED BY <1>8, <1>9, <3>2
    <2> QED BY <2>1, <2>2, <2>3, <2>4, <2>5 DEF ProgressInv
  <1>12. TimerInv(t)
    BY <1>1, <1>7, <1>8, StartedTimer
  <1>13. FlightInv(t)
    BY <1>7, DrainedLine DEF FlightInv
  <1>14. WithinWindow(s, t)
    <2> SUFFICES ASSUME s.next_seqno > 0, s.window_size > 0
                 PROVE  Total(Line(t)) <= s.window_size
      BY DEF WithinWindow
    <2>1. s.next_seqno - p[1] <= HalfWord
      BY <1>1, <1>2, FitsSpan
    <2>2. sequence_numbers_in_flight(s) = s.next_seqno - p[1]
      BY <1>1, <1>2, <2>1, InFlightIsSpan
    <2>3. s.window_size > s.next_seqno - p[1] /\ s.window_size \in Nat
      BY <1>1, <2>2, SenderMembers DEF FlagsDue, MaySendNew
    <2>4. len \in 0..1
      <3>1. ~s.has_not_sent_SYN
        BY <1>6, <1>1, SenderMembers DEF SynFollows
      <3>2. One(s.has_not_sent_SYN) = 0 /\ One(fin) \in 0..1
        BY <3>1 DEF One
      <3> QED BY <1>10, <3>2
    <2>5. p[1] \in Nat /\ s.next_seqno \in Nat
      <3>1. 1 \in 1..Len(Line(s)) + 1
        BY <1>1, LineType
      <3> QED BY <1>1, <1>2, <3>1, LiesAtSpan, SenderMembers
    <2>6. \A a, b, w \in Nat, k \in 0..1 : w > b - a => b + k - a <= w
      OBVIOUS
    <2> QED BY <1>7, <2>3, <2>4, <2>5, <2>6
  <1> QED BY <1>1, <1>7, <1>11, <1>12, <1>13, <1>14 DEF Coherent

\* Members that leave queues, stream and timer alone keep both coherent.
SameMembers(s, t) ==
    /\ t \in Sender
    /\ t.unsent_msgs = s.unsent_msgs /\ t.unacked_msgs = s.unacked_msgs
    /\ t.unsent_seqnos = s.unsent_seqnos /\ t.unacked_seqnos = s.unacked_seqnos
    /\ t.next_seqno = s.next_seqno /\ t.stream_is_finished = s.stream_is_finished
    /\ t.has_not_sent_SYN = s.has_not_sent_SYN /\ t.has_not_sent_FIN = s.has_not_sent_FIN

\* Members that stay as they are keep what the invariant says of them.
LEMMA SameMembersKeep ==
    ASSUME NEW s, NEW o, Coherent(s, o), NEW t, SameMembers(s, t)
    PROVE  /\ t \in Sender /\ FlightInv(t) /\ ProgressInv(t, o) /\ Line(t) = Line(s)
           /\ (Again(t) <=> Again(s)) /\ \A p : LiesAt(s, p) => LiesAt(t, p)
  <1>1. s \in Sender /\ FlightInv(s) /\ ProgressInv(s, o)
    BY DEF Coherent
  <1>2. /\ t \in Sender
        /\ t.unsent_msgs = s.unsent_msgs /\ t.unacked_msgs = s.unacked_msgs
        /\ t.unsent_seqnos = s.unsent_seqnos /\ t.unacked_seqnos = s.unacked_seqnos
        /\ t.next_seqno = s.next_seqno /\ t.stream_is_finished = s.stream_is_finished
        /\ t.has_not_sent_SYN = s.has_not_sent_SYN /\ t.has_not_sent_FIN = s.has_not_sent_FIN
    BY DEF SameMembers
  <1>3. /\ Line(t) = Line(s) /\ (Again(t) <=> Again(s)) /\ (QueueShape(t) <=> QueueShape(s))
        /\ \A p : LiesAt(s, p) => LiesAt(t, p)
    BY <1>1, <1>2, SameQueues
  <1>4. FlightInv(t)
    BY <1>1, <1>3 DEF FlightInv
  <1>5. ProgressInv(t, o)
    BY <1>1, <1>2, <1>3 DEF ProgressInv
  <1> QED BY <1>2, <1>3, <1>4, <1>5

\* Taking a window over keeps the invariant.
LEMMA WindowKeeps ==
    ASSUME NEW s, NEW o, Coherent(s, o), NEW size \in WindowSizes,
           NEW w, w = Announced(s, size)
    PROVE  /\ Coherent(w, o) /\ Line(w) = Line(s) /\ w.next_seqno = s.next_seqno
           /\ w.unsent_msgs = s.unsent_msgs /\ w.isn = Isn
  <1>1. s \in Sender /\ o \in Stream /\ StreamInv(o) /\ TimerInv(s)
    BY DEF Coherent
  <1>2. /\ w \in Sender /\ w.isn = s.isn
        /\ w.unacked_msgs = s.unacked_msgs /\ w.unacked_seqnos = s.unacked_seqnos
        /\ w.unsent_msgs = s.unsent_msgs /\ w.unsent_seqnos = s.unsent_seqnos
        /\ w.next_seqno = s.next_seqno /\ w.stream_is_finished = s.stream_is_finished
        /\ w.has_not_sent_SYN = s.has_not_sent_SYN /\ w.has_not_sent_FIN = s.has_not_sent_FIN
        /\ w.timer = s.timer
        /\ w.consecutive_retransmissions = s.consecutive_retransmissions
    <2>1. WindowTaken(s, w)
      BY <1>1, WindowEffect
    <2> QED BY <2>1 DEF WindowTaken
  <1>3. SameMembers(s, w)
    BY <1>2 DEF SameMembers
  <1>4. /\ FlightInv(w) /\ ProgressInv(w, o) /\ Line(w) = Line(s) /\ (Again(w) <=> Again(s))
    BY <1>3, SameMembersKeep
  <1>5. TimerInv(w)
    BY <1>1, <1>2, <1>4 DEF TimerInv
  <1> QED BY <1>1, <1>2, <1>4, <1>5, SenderMembers DEF Coherent

\* Taking an acknowledgment keeps the invariant.
LEMMA AckKeeps ==
    ASSUME NEW s, NEW o, Coherent(s, o), s.unsent_msgs = <<>>, Fits(s),
           NEW ackno \in Nat, AckedCount(s, ackno) # 0
    PROVE  /\ Coherent(TakeAck(s, ackno), o) /\ TakeAck(s, ackno).next_seqno = s.next_seqno
           /\ \E r : LiesAt(TakeAck(s, ackno), r) /\ r[1] <= ackno
  <1> DEFINE t == TakeAck(s, ackno)
             n == AckedCount(s, ackno)
             acked == SeqnosOfFirst(s, n)
             left == SubSeq(s.unacked_msgs, n + 1, Len(s.unacked_msgs))
  <1>1. /\ s \in Sender /\ o \in Stream /\ FlightInv(s) /\ StreamInv(o)
        /\ ProgressInv(s, o) /\ TimerInv(s)
    BY DEF Coherent
  <1>2. PICK p : LiesAt(s, p)
    BY <1>1 DEF FlightInv
  <1>3. s.next_seqno - p[1] <= HalfWord
    BY <1>1, <1>2, FitsSpan
  <1>4. acked \in Int /\ \E rest, r : AckTaken(s, t, rest, r) /\ r[1] <= ackno
    BY <1>1, <1>2, <1>3, TakeAckKeeps
  <1>5. PICK rest, r : AckTaken(s, t, rest, r) /\ r[1] <= ackno
    BY <1>4
  <1>6. AckEffect(s, t, n, acked)
    BY <1>1, <1>4, TakeAckEffect
  <1> HIDE DEF t, n, acked
  <1>7. /\ n \in 1..Len(s.unacked_msgs) /\ t \in Sender
        /\ t.unacked_msgs = left
        /\ t.next_seqno = s.next_seqno /\ t.stream_is_finished = s.stream_is_finished
        /\ t.has_not_sent_SYN = s.has_not_sent_SYN /\ t.has_not_sent_FIN = s.has_not_sent_FIN
        /\ t.timer.is_on <=> left # <<>>
        /\ t.timer.RTO = InitialRTO /\ t.consecutive_retransmissions = 0
        /\ t.timer.is_on => t.timer.timeout = InitialRTO
    BY <1>6 DEF AckEffect
  <1>8. /\ t.unsent_msgs = <<>> /\ Line(t) = rest /\ LiesAt(t, r)
        /\ rest # <<>> => rest[Len(rest)] = Line(s)[Len(Line(s))] /\ Line(s) # <<>>
    BY <1>5 DEF AckTaken
  <1>9. ~Again(t) /\ QueueShape(t)
    BY <1>7, <1>8, DrainedLine
  <1>10. ~s.has_not_sent_SYN
    <2>1. s.unacked_msgs # <<>>
      BY <1>7
    <2> QED BY <1>1, <2>1, DrainedLine DEF ProgressInv
  <1>11. ProgressInv(t, o)
    <2>1. s.has_not_sent_SYN = FALSE
      BY <1>1, <1>10, SenderMembers
    <2>2. t.next_seqno = One(~t.has_not_sent_SYN) + o.bytes_popped + One(~t.has_not_sent_FIN)
      BY <1>1, <1>7 DEF ProgressInv
    <2>3. t.stream_is_finished => is_finished(o)
      BY <1>1, <1>7 DEF ProgressInv
    <2>4. ~t.has_not_sent_FIN => t.stream_is_finished
      BY <1>1, <1>7 DEF ProgressInv
    <2>5. Line(t) # <<>> => (Line(t)[Len(Line(t))].FIN <=> ~t.has_not_sent_FIN)
      BY <1>1, <1>7, <1>8 DEF ProgressInv
    <2> QED BY <1>7, <2>1, <2>2, <2>3, <2>4, <2>5 DEF ProgressInv
  <1>12. TimerInv(t)
    <2>1. t.timer.is_on => t.timer.timeout \in 1..t.timer.RTO
      BY <1>7
    <2>2. t.timer.RTO = Doubled[t.consecutive_retransmissions]
      BY <1>7, DoubledValues
    <2> QED BY <1>7, <1>9, <2>1, <2>2 DEF TimerInv
  <1>13. \E q : LiesAt(t, q) /\ q[1] <= ackno
    BY <1>5, <1>8
  <1> QED BY <1>1, <1>7, <1>8, <1>9, <1>11, <1>12, <1>13 DEF Coherent, FlightInv, t

\* receive keeps the invariant.
LEMMA ReceiveKeeps ==
    ASSUME NEW s, NEW o, Coherent(s, o), s.unsent_msgs = <<>>, Fits(s),
           NEW raw \in {None} \union (0..Word - 1), NEW size \in WindowSizes,
           NEW t, t = receive(s, [ackno |-> raw, window_size |-> size])
    PROVE  Coherent(t, o) /\ t.next_seqno = s.next_seqno
  <1> DEFINE w == Announced(s, size)
             ackno == unwrap(raw, s.isn, s.next_seqno)
  <1>1. s \in Sender /\ s.next_seqno \in Nat /\ s.isn = Isn
    BY SenderMembers DEF Coherent
  <1>2. t = IF raw = None \/ Impossible(s, ackno) THEN w ELSE TakeAck(w, ackno)
    BY DEF receive, Announced
  <1>3. /\ Coherent(w, o) /\ Line(w) = Line(s) /\ w.next_seqno = s.next_seqno
        /\ w.unsent_msgs = s.unsent_msgs
    BY WindowKeeps, ZenonT(60)
  <1> HIDE DEF w
  <1>4. CASE raw = None \/ Impossible(s, ackno)
    BY <1>2, <1>3, <1>4
  <1>5. CASE raw # None /\ ~Impossible(s, ackno)
    <2>3. ackno \in Nat
      BY <1>1, <1>5, UnwrapType
    <2> HIDE DEF ackno
    <2>4. t = TakeAck(w, ackno)
      BY <1>2, <1>5
    <2>5. CASE AckedCount(w, ackno) = 0
      BY <1>3, <2>4, <2>5 DEF TakeAck
    <2>6. CASE AckedCount(w, ackno) # 0
      <3>1. Fits(w)
        BY <1>3 DEF Fits
      <3> QED BY <1>3, <2>3, <2>4, <2>6, <3>1, AckKeeps
    <2> QED BY <2>5, <2>6
  <1> QED BY <1>4, <1>5

\* Under its owner, tick finds an unacknowledged message when the timer expires.
LEMMA ExpiryFindsMessage ==
    ASSUME NEW s, NEW o, Coherent(s, o), s.unsent_msgs = <<>>, NEW ms \in TickMs,
           Expires(s, ms)
    PROVE  s.unacked_msgs # <<>>
  BY DEF Coherent, TimerInv, Expires, Again

\* tick keeps the invariant.
LEMMA TickKeeps ==
    ASSUME NEW s, NEW o, Coherent(s, o), s.unsent_msgs = <<>>, Fits(s), NEW ms \in TickMs,
           NEW t, t = tick(s, ms)
    PROVE  Coherent(t, o) /\ t.next_seqno = s.next_seqno /\ SameStart(s, t)
  <1>1. /\ s \in Sender /\ o \in Stream /\ FlightInv(s) /\ StreamInv(o)
        /\ ProgressInv(s, o) /\ TimerInv(s)
    BY DEF Coherent
  <1>2. CASE ~s.timer.is_on
    BY <1>1, <1>2 DEF tick, FlightInv, SameStart
  <1>3. CASE s.timer.is_on /\ ~Expires(s, ms)
    <2>1. /\ t \in Sender
          /\ t.timer = timer_tick(s.timer, ms)
          /\ t.unsent_msgs = s.unsent_msgs /\ t.unacked_msgs = s.unacked_msgs
          /\ t.unsent_seqnos = s.unsent_seqnos /\ t.unacked_seqnos = s.unacked_seqnos
          /\ t.next_seqno = s.next_seqno /\ t.stream_is_finished = s.stream_is_finished
          /\ t.has_not_sent_SYN = s.has_not_sent_SYN /\ t.has_not_sent_FIN = s.has_not_sent_FIN
          /\ t.consecutive_retransmissions = s.consecutive_retransmissions
      BY <1>1, <1>3, TickEffect
    <2>2. SameMembers(s, t)
      BY <2>1 DEF SameMembers
    <2>3. FlightInv(t) /\ ProgressInv(t, o) /\ (Again(t) <=> Again(s)) /\ SameStart(s, t)
      <3>1. /\ FlightInv(t) /\ ProgressInv(t, o) /\ (Again(t) <=> Again(s))
            /\ \A p : LiesAt(s, p) => LiesAt(t, p)
        BY <2>2, SameMembersKeep
      <3> QED BY <1>1, <3>1 DEF FlightInv, SameStart
    <2>4. TimerInv(t)
      <3> DEFINE tm == s.timer
      <3>1. tm \in Timer /\ tm.is_on /\ tm.timeout \in 1..tm.RTO /\ tm.RTO \in Nat
        BY <1>1, <1>3, SenderMembers, TimerMembers DEF TimerInv
      <3> HIDE DEF tm
      <3>2. /\ t.timer.is_on = tm.is_on /\ t.timer.RTO = tm.RTO
            /\ t.timer.timeout = IF tm.timeout <= ms THEN 0 ELSE tm.timeout - ms
        <4>1. t.timer = timer_tick(tm, ms)
          BY <2>1 DEF tm
        <4>2. /\ timer_tick(tm, ms).is_on = tm.is_on /\ timer_tick(tm, ms).RTO = tm.RTO
              /\ timer_tick(tm, ms).timeout = IF tm.timeout <= ms THEN 0 ELSE tm.timeout - ms
          BY <3>1, TimerTickEffect, Zenon
        <4> QED BY <4>1, <4>2
      <3>3. t.timer.timeout # 0
        BY <1>3, <2>1 DEF Expires
      <3>4. t.timer.timeout \in 1..t.timer.RTO
        <4> DEFINE left == tm.timeout
                   rto == tm.RTO
                   now == t.timer.timeout
        <4>1. /\ rto \in Nat /\ left \in 1..rto /\ ms \in Nat /\ now # 0
              /\ now = IF left <= ms THEN 0 ELSE left - ms
          BY <3>1, <3>2, <3>3
        <4> HIDE DEF left, rto, now
        <4>2. now \in 1..rto
          BY <4>1, SMTT(60)
        <4> QED BY <3>2, <4>2 DEF now, rto
      <3> QED BY <1>1, <2>1, <2>3, <3>1, <3>2, <3>4 DEF TimerInv, tm
    <2> QED BY <1>1, <2>1, <2>3, <2>4 DEF Coherent
  <1>4. CASE Expires(s, ms)
    <2>1. s.unacked_msgs # <<>>
      BY <1>4, ExpiryFindsMessage
    <2>2. PICK p : LiesAt(s, p)
      BY <1>1 DEF FlightInv
    <2>3. s.next_seqno - p[1] <= HalfWord
      BY <1>1, <2>2, FitsSpan
    <2>4. Again(t) /\ QueueShape(t) /\ Line(t) = Line(s) /\ LiesAt(t, p)
      BY <1>1, <1>4, <2>1, <2>2, <2>3, ExpiryKeeps
    <2> DEFINE msg == Head(s.unacked_msgs)
               n == s.consecutive_retransmissions
               R == s.timer.RTO
    <2>5. Expired(s, t, msg, [msg |-> msg, is_retransmitted |-> TRUE])
      BY <1>1, <1>4, <2>1, ExpiryEffect
    <2>6. /\ t \in Sender
          /\ t.next_seqno = s.next_seqno /\ t.stream_is_finished = s.stream_is_finished
          /\ t.has_not_sent_SYN = s.has_not_sent_SYN /\ t.has_not_sent_FIN = s.has_not_sent_FIN
          /\ t.timer.is_on /\ t.timer.timeout = t.timer.RTO
          /\ \/ t.timer.RTO = R /\ t.consecutive_retransmissions = n
             \/ t.timer.RTO = R * 2 /\ t.consecutive_retransmissions = n + 1
      BY <2>5 DEF Expired
    <2>7. ProgressInv(t, o)
      BY <1>1, <2>4, <2>6 DEF ProgressInv
    <2>8. TimerInv(t)
      <3>1. n \in Nat /\ R = Doubled[n]
        BY <1>1, SenderMembers DEF TimerInv
      <3> HIDE DEF n, R
      <3>2. /\ Doubled[n] \in Nat /\ Doubled[n] > 0 /\ Doubled[n + 1] = 2 * Doubled[n]
        BY <3>1, DoubledValues
      <3>3. t.timer.RTO = Doubled[t.consecutive_retransmissions]
        BY <2>6, <3>1, <3>2
      <3>4. t.timer.RTO \in Nat /\ t.timer.RTO > 0
        <4>1. R \in Nat /\ R > 0
          BY <3>1, <3>2
        <4>2. R * 2 \in Nat /\ R * 2 > 0
          BY <4>1
        <4> QED BY <2>6, <4>1, <4>2
      <3>5. t.timer.timeout \in 1..t.timer.RTO
        BY <2>6, <3>4
      <3> QED BY <2>4, <2>6, <3>3, <3>5 DEF TimerInv
    <2>9. SameStart(s, t)
      BY <2>2, <2>4 DEF SameStart
    <2> QED BY <1>1, <2>4, <2>6, <2>7, <2>8, <2>9 DEF Coherent, FlightInv
  <1> QED BY <1>2, <1>3, <1>4 DEF Expires

\* push keeps the invariant and respects the window.
LEMMA PushKeeps ==
    ASSUME NEW s, NEW o, Coherent(s, o), s.unsent_msgs = <<>>,
           s.has_not_sent_SYN => o.queue = <<>>, Fits(s),
           NEW t, t = push_stream(s, o).s, NEW x, x = push_stream(s, o).outbound, Fits(t)
    PROVE  /\ Coherent(t, x) /\ WithinWindow(s, t)
           /\ SameStart(s, t) /\ s.next_seqno <= t.next_seqno
  <1> DEFINE taken == BytesToTake(s, o)
  <1>1. t = AttachFIN(Cut(s, o)) /\ x = pop(o, taken)
    BY PushIsCut
  <1>2. taken \in Nat /\ s.next_seqno \in Nat
    BY TakenBounds, SenderMembers DEF Coherent, Stream
  <1> HIDE DEF taken
  <1>3. CASE taken = 0
    <2>1. Coherent(t, x) /\ t.next_seqno = s.next_seqno /\ SameStart(s, t)
      BY <1>1, <1>3, PushNothing DEF taken
    <2> QED BY <1>2, <2>1 DEF WithinWindow
  <1>4. CASE taken > 0
    BY <1>1, <1>4, PushSomething DEF taken
  <1> QED BY <1>2, <1>3, <1>4

\* maybe_send keeps the invariant and respects the window.
LEMMA MaybeSendKeeps ==
    ASSUME NEW s, NEW o, Coherent(s, o), Fits(s), NEW t, t = maybe_send(s).s, Fits(t)
    PROVE  Coherent(t, o) /\ WithinWindow(s, t)
  <1>1. s.next_seqno \in Nat
    BY SenderMembers DEF Coherent
  <1>2. CASE s.unsent_msgs # <<>>
    <2>1. t = SendQueued(s).s
      BY <1>2 DEF maybe_send
    <2>2. Coherent(t, o) /\ t.next_seqno = s.next_seqno
      BY <1>2, <2>1, SendQueuedKeeps
    <2> QED BY <1>1, <2>2 DEF WithinWindow
  <1>3. CASE s.unsent_msgs = <<>> /\ FlagsDue(s)
    <2>1. t = SendFlags(s).s
      BY <1>3 DEF maybe_send
    <2> QED BY <1>3, <2>1, SendFlagsCoherent
  <1>4. CASE s.unsent_msgs = <<>> /\ ~FlagsDue(s)
    <2>1. t = s
      BY <1>4 DEF maybe_send
    <2> QED BY <1>1, <2>1 DEF WithinWindow
  <1> QED BY <1>2, <1>3, <1>4

\* The writer does not touch what the sender has taken.
LEMMA WriteKeeps ==
    ASSUME NEW s, NEW o, Coherent(s, o), o.bytes_pushed < StreamLen, ~o.closed,
           NEW x, x = push(o, <<o.bytes_pushed>>)
    PROVE  Coherent(s, x)
  <1> DEFINE q == o.queue
             b == o.bytes_pushed
             queue == Append(q, b)
             n == b + 1
  <1>1. /\ s \in Sender /\ o \in Stream /\ FlightInv(s) /\ StreamInv(o)
        /\ ProgressInv(s, o) /\ TimerInv(s)
    BY DEF Coherent
  <1>2. /\ q \in Seq(0..StreamLen - 1) /\ b \in 0..StreamLen /\ o.bytes_popped \in Nat
        /\ o.bytes_popped + Len(q) = b /\ \A k \in 1..Len(q) : q[k] = o.bytes_popped + k - 1
        /\ o.capacity = StreamLen
    BY <1>1 DEF Stream, StreamInv
  <1>3. b \in 0..StreamLen - 1 /\ n \in 0..StreamLen /\ b \in Nat
    BY <1>2
  <1>4. x = [o EXCEPT !.queue = queue, !.bytes_pushed = n]
    <2>1. Smaller(Len(<<b>>), available_capacity(o)) = 1
      <3>1. Len(<<b>>) = 1 /\ available_capacity(o) = StreamLen - Len(q)
        BY <1>2 DEF available_capacity, bytes_buffered
      <3>2. Len(q) \in Nat /\ 1 <= StreamLen - Len(q)
        <4> DEFINE L == Len(q)
                   e == o.bytes_popped
        <4>1. L \in Nat /\ e \in Nat /\ b \in Nat /\ e + L = b /\ b < StreamLen
          BY <1>2, <1>3
        <4> HIDE DEF L, e, b
        <4>2. 1 <= StreamLen - L
          BY <4>1
        <4> QED BY <4>1, <4>2 DEF L
      <3> QED BY <3>1, <3>2 DEF Smaller
    <2>2. SubSeq(<<b>>, 1, 1) = <<b>>
      <3> HIDE DEF b
      <3>1. <<b>> \in Seq({b}) /\ Len(<<b>>) = 1 /\ <<b>>[1] = b
        OBVIOUS
      <3> DEFINE z == SubSeq(<<b>>, 1, 1)
      <3>2. z \in Seq({b}) /\ Len(z) = 1 /\ z[1] = b
        BY <3>1
      <3> HIDE DEF z
      <3>3. z = <<b>>
        BY <3>1, <3>2
      <3> QED BY <3>3 DEF z
    <2>3. q \o <<b>> = queue
      BY <1>2, <1>3
    <2> HIDE DEF queue
    <2> QED BY <2>1, <2>2, <2>3 DEF push
  <1>5. /\ queue \in Seq(0..StreamLen - 1) /\ Len(queue) = Len(q) + 1 /\ Len(q) \in Nat
        /\ \A k \in 1..Len(q) : queue[k] = q[k]
        /\ queue[Len(q) + 1] = b
    <2> DEFINE W == 0..StreamLen - 1
    <2>1. q \in Seq(W) /\ b \in W
      BY <1>2, <1>3
    <2> HIDE DEF W, q, b
    <2> QED BY <2>1, AppendElements DEF W
  <1> HIDE DEF queue, n
  <1>6. /\ x \in Stream /\ x.queue = queue /\ x.bytes_pushed = n /\ x.closed = o.closed
        /\ x.bytes_popped = o.bytes_popped
    BY <1>1, <1>3, <1>4, <1>5 DEF Stream
  <1>7. StreamInv(x)
    <2> DEFINE L == Len(q)
               e == o.bytes_popped
    <2>1. L \in Nat /\ e \in Nat /\ e + L = b /\ n = b + 1
      BY <1>2 DEF n
    <2>2. Len(queue) = L + 1
      BY <1>5
    <2>3. ASSUME NEW k \in 1..L + 1 PROVE queue[k] = e + k - 1
      <3>1. CASE k \in 1..L
        BY <1>2, <1>5, <3>1
      <3>2. CASE k = L + 1
        <4>1. queue[k] = b
          BY <1>5, <3>2
        <4> HIDE DEF L, e, b
        <4> QED BY <2>1, <3>2, <4>1
      <3> HIDE DEF L
      <3> QED BY <2>1, <3>1, <3>2
    <2> HIDE DEF L, e, b
    <2>4. e + (L + 1) = n
      BY <2>1
    <2> QED BY <1>6, <2>2, <2>3, <2>4 DEF StreamInv, e
  <1>8. ProgressInv(s, x)
    <2>1. ~s.stream_is_finished
      BY <1>1 DEF ProgressInv, is_finished
    <2> QED BY <1>1, <1>6, <2>1 DEF ProgressInv
  <1> QED BY <1>1, <1>6, <1>7, <1>8 DEF Coherent

\* Closing the stream keeps the invariant.
LEMMA CloseKeeps ==
    ASSUME NEW s, NEW o, Coherent(s, o), NEW x, x = close(o)
    PROVE  Coherent(s, x)
  <1>1. /\ s \in Sender /\ o \in Stream /\ FlightInv(s) /\ StreamInv(o)
        /\ ProgressInv(s, o) /\ TimerInv(s)
    BY DEF Coherent
  <1>2. /\ x \in Stream /\ x.queue = o.queue /\ x.bytes_pushed = o.bytes_pushed
        /\ x.closed /\ x.bytes_popped = o.bytes_popped
    BY <1>1 DEF close, Stream
  <1>3. StreamInv(x)
    BY <1>1, <1>2 DEF StreamInv
  <1>4. is_finished(o) => is_finished(x)
    BY <1>2 DEF is_finished
  <1>5. ProgressInv(s, x)
    BY <1>1, <1>2, <1>4 DEF ProgressInv
  <1> QED BY <1>1, <1>2, <1>3, <1>5 DEF Coherent

\* A new sender and its stream satisfy the invariant.
LEMMA NewIsCoherent == Coherent(NewSender(Isn), NewStream(StreamLen))
  <1> DEFINE s == NewSender(Isn)
             o == NewStream(StreamLen)
             p == [i \in 1..1 |-> 0]
  <1>1. NewTimer \in Timer /\ NewTimer.is_on = FALSE /\ NewTimer.RTO = InitialRTO
    BY DEF NewTimer, Timer
  <1>2. s \in Sender
    <2>1. <<>> \in Seq(Wrapped) /\ <<>> \in Seq(Msg) /\ 0 \in Nat /\ 1 \in Nat
      OBVIOUS
    <2> QED BY <1>1, <2>1 DEF NewSender, Sender
  <1>3. /\ s.unsent_msgs = <<>> /\ s.unacked_msgs = <<>> /\ s.unsent_seqnos = 0
        /\ s.unacked_seqnos = 0 /\ s.next_seqno = 0 /\ s.has_not_sent_SYN = TRUE
        /\ s.has_not_sent_FIN = TRUE /\ s.stream_is_finished = FALSE
        /\ s.consecutive_retransmissions = 0 /\ s.timer = NewTimer
    BY DEF NewSender
  <1>4. /\ o \in Stream /\ o.queue = <<>> /\ o.bytes_pushed = 0 /\ o.bytes_popped = 0
    <2>1. <<>> \in Seq(0..StreamLen - 1) /\ 0 \in 0..StreamLen
      OBVIOUS
    <2> QED BY <2>1 DEF NewStream, Stream
  <1> HIDE DEF s, o
  <1>5. Line(s) = <<>> /\ ~Again(s) /\ QueueShape(s) /\ Border(s) = 1
    BY <1>2, <1>3, DrainedLine
  <1>6. LiesAt(s, p)
    <2>1. p \in [1..1 -> Nat] /\ p[1] = 0 /\ Len(<<>>) = 0
      OBVIOUS
    <2> HIDE DEF p
    <2>2. p \in Positions(Line(s)) /\ Laid(Line(s), p)
      BY <1>5, <2>1 DEF Positions, Laid
    <2>3. p[Len(Line(s)) + 1] = s.next_seqno
      BY <1>3, <1>5, <2>1
    <2>4. Counted(s, p)
      BY <1>3, <1>5, <2>1 DEF Counted
    <2> QED BY <2>2, <2>3, <2>4 DEF LiesAt
  <1>7. FlightInv(s)
    BY <1>5, <1>6 DEF FlightInv
  <1>8. StreamInv(o)
    BY <1>4 DEF StreamInv
  <1>9. ProgressInv(s, o)
    BY <1>3, <1>4, <1>5 DEF ProgressInv, One
  <1>10. TimerInv(s)
    BY <1>1, <1>3, <1>5, DoubledValues DEF TimerInv
  <1> QED BY <1>2, <1>4, <1>7, <1>8, <1>9, <1>10 DEF Coherent, s, o

------------------------------------------------------------------------------
(* The invariant of the specification. *)

\* The invariant holds at first.
LEMMA InitInv == Init => Inv /\ ~undefined
  BY NewIsCoherent DEF Init, Inv

\* Every step of the owner keeps the invariant; new sequence numbers fit the window.
LEMMA NextInv ==
    ASSUME Inv, ~undefined, FlightFits, FlightFits', [DrainedNext]_vars
    PROVE  /\ Inv' /\ ~undefined'
           /\ WithinWindow(sender, sender') \/ sender'.next_seqno = sender.next_seqno
  <1>1. Coherent(sender, outbound) /\ Fits(sender) /\ Fits(sender')
    BY DEF Inv, FlightFits, Fits
  <1>2. CASE WriteByte
    BY <1>1, <1>2, WriteKeeps DEF WriteByte, Inv
  <1>3. CASE CloseStream
    BY <1>1, <1>3, CloseKeeps DEF CloseStream, Inv
  <1>4. CASE SynFirst /\ Drained /\ Push
    <2>1. Coherent(sender', outbound') /\ WithinWindow(sender, sender')
      BY <1>1, <1>4, PushKeeps DEF SynFirst, Drained, Push
    <2> QED BY <1>4, <2>1 DEF Push, Inv
  <1>5. CASE MaybeSend
    <2>1. Coherent(sender', outbound) /\ WithinWindow(sender, sender')
      BY <1>1, <1>5, MaybeSendKeeps DEF MaybeSend
    <2> QED BY <1>5, <2>1 DEF MaybeSend, Inv
  <1>6. CASE Drained /\ Receive
    <2>1. PICK raw \in {None} \union {wrap(p, Isn) : p \in 0..sender.next_seqno + 1},
               size \in WindowSizes :
            sender' = receive(sender, [ackno |-> raw, window_size |-> size])
      BY <1>6 DEF Receive
    <2>2. raw \in {None} \union (0..Word - 1)
      <3>1. sender.next_seqno \in Nat
        BY <1>1, SenderMembers DEF Coherent
      <3> QED BY <2>1, <3>1, WrapType
    <2>3. Coherent(sender', outbound) /\ sender'.next_seqno = sender.next_seqno
      BY <1>1, <1>6, <2>1, <2>2, ReceiveKeeps, SMTT(60) DEF Drained
    <2> QED BY <1>6, <2>3 DEF Receive, Inv
  <1>7. CASE Drained /\ \E ms \in TickMs : Tick(ms)
    <2>1. PICK ms \in TickMs : Tick(ms)
      BY <1>7
    <2>2. ~(Expires(sender, ms) /\ sender.unacked_msgs = <<>>)
      BY <1>1, <1>7, ExpiryFindsMessage DEF Drained
    <2>3. sender' = tick(sender, ms) /\ undefined' = undefined /\ outbound' = outbound
      BY <2>1, <2>2 DEF Tick
    <2>4. Coherent(sender', outbound) /\ sender'.next_seqno = sender.next_seqno
      BY <1>1, <1>7, <2>3, TickKeeps DEF Drained
    <2> QED BY <2>3, <2>4 DEF Inv
  <1>8. CASE UNCHANGED vars
    BY <1>1, <1>8 DEF vars, Inv
  <1> QED BY <1>2, <1>3, <1>4, <1>5, <1>6, <1>7, <1>8 DEF DrainedNext

\* The invariant holds throughout.
LEMMA InvHolds == DrainedSpec /\ []FlightFits => [](Inv /\ ~undefined)
  <1> DEFINE I == Inv /\ ~undefined
  <1>1. Init => I
    BY InitInv
  <1>2. I /\ FlightFits /\ FlightFits' /\ [DrainedNext]_vars => I'
    BY NextInv
  <1> QED BY <1>1, <1>2, PTL DEF DrainedSpec

------------------------------------------------------------------------------
(* A stream of less than half the sequence space fits, whatever its peer    *)
(* announces, so that nothing has to be assumed about the peer.             *)

ShortStream == StreamLen + 2 <= HalfWord

\* Of the sequence numbers of a short stream, at most half a word is in flight.
LEMMA CoherentFits ==
    ASSUME ShortStream, NEW s, NEW o, Coherent(s, o)
    PROVE  Fits(s)
  <1>1. s \in Sender /\ o \in Stream /\ FlightInv(s) /\ StreamInv(o) /\ ProgressInv(s, o)
    BY DEF Coherent
  <1>2. PICK p : LiesAt(s, p)
    BY <1>1 DEF FlightInv
  <1>3. Total(Line(s)) = s.next_seqno - p[1]
    <2>1. /\ Line(s) \in Seq(Msg) /\ p \in Positions(Line(s)) /\ Laid(Line(s), p)
          /\ p[Len(Line(s)) + 1] = s.next_seqno
      BY <1>1, <1>2, LineType DEF LiesAt
    <2> QED BY <2>1, TotalIsSpan
  <1>4. p[1] \in Nat /\ s.next_seqno \in Nat
    <2>1. 1 \in 1..Len(Line(s)) + 1
      BY <1>1, LineType
    <2> QED BY <1>1, <1>2, <2>1, LiesAtSpan, SenderMembers
  <1>5. s.next_seqno <= StreamLen + 2
    <2>1. /\ s.next_seqno = One(~s.has_not_sent_SYN) + o.bytes_popped + One(~s.has_not_sent_FIN)
          /\ One(~s.has_not_sent_SYN) \in 0..1 /\ One(~s.has_not_sent_FIN) \in 0..1
      BY <1>1 DEF ProgressInv, One
    <2>2. o.bytes_popped \in Nat /\ o.bytes_popped <= StreamLen /\ StreamLen \in Nat
      BY <1>1 DEF StreamInv, Stream
    <2> QED BY <2>1, <2>2
  <1>6. StreamLen \in Nat /\ HalfWord \in Nat /\ StreamLen + 2 <= HalfWord
    BY DEF ShortStream
  <1> QED BY <1>3, <1>4, <1>5, <1>6 DEF Fits

\* What push queues of a short stream fits.
LEMMA PushFits ==
    ASSUME ShortStream, NEW s, NEW o, Coherent(s, o), s.unsent_msgs = <<>>,
           s.has_not_sent_SYN => o.queue = <<>>,
           NEW taken, taken = BytesToTake(s, o), taken > 0,
           NEW t, t = AttachFIN(Cut(s, o))
    PROVE  Fits(t)
  <1> DEFINE flag == FINDue(Cut(s, o))
  <1>1. /\ s \in Sender /\ o \in Stream /\ FlightInv(s) /\ StreamInv(o) /\ ProgressInv(s, o)
    BY DEF Coherent
  <1>2. PICK p : LiesAt(s, p)
    BY <1>1 DEF FlightInv
  <1>3. /\ taken \in Nat /\ taken \in 0..Len(o.queue) /\ o.bytes_popped \in Nat
        /\ Len(o.queue) \in Nat
    BY <1>1, TakenBounds DEF Stream
  <1>4. s.has_not_sent_SYN = FALSE /\ s.has_not_sent_FIN = TRUE
    <2>1. o.queue # <<>>
      BY <1>1, <1>3 DEF Stream
    <2> QED BY <1>1, <2>1, SenderMembers DEF ProgressInv, is_finished
  <1>5. s.next_seqno = o.bytes_popped + 1
    <2>1. s.next_seqno = One(~s.has_not_sent_SYN) + o.bytes_popped + One(~s.has_not_sent_FIN)
      BY <1>1 DEF ProgressInv
    <2>2. One(~s.has_not_sent_SYN) = 1 /\ One(~s.has_not_sent_FIN) = 0
      BY <1>4 DEF One
    <2> QED BY <1>3, <2>1, <2>2
  <1>6. NoFIN(Line(s))
    BY <1>1, <1>4, LastFIN
  <1>7. Segmented(s, o, t, taken, flag)
    BY <1>1, <1>4, <1>5, PushEffect
  <1>8. PICK r : PushedAt(s, t, p, r)
    BY <1>1, <1>2, <1>5, <1>6, <1>7, PushLays
  <1> HIDE DEF flag
  <1>9. t \in Sender /\ t.next_seqno = s.next_seqno + taken + One(flag) /\ One(flag) \in 0..1
    BY <1>7 DEF Segmented, One
  <1>10. Total(Line(t)) = t.next_seqno - p[1]
    <2>1. Line(t) \in Seq(Msg)
      BY <1>9, LineType
    <2>2. /\ r \in Positions(Line(t)) /\ Laid(Line(t), r)
          /\ r[1] = p[1] /\ r[Len(Line(t)) + 1] = t.next_seqno
      BY <1>8 DEF PushedAt
    <2> QED BY <2>1, <2>2, TotalIsSpan
  <1>11. p[1] \in Nat
    <2>1. 1 \in 1..Len(Line(s)) + 1
      BY <1>1, LineType
    <2> QED BY <1>1, <1>2, <2>1, LiesAtSpan
  <1>12. o.bytes_popped + Len(o.queue) <= StreamLen
    BY <1>1 DEF StreamInv, Stream
  <1>13. StreamLen \in Nat /\ HalfWord \in Nat /\ StreamLen + 2 <= HalfWord
    BY DEF ShortStream
  <1> DEFINE f == One(flag)
             n == Len(o.queue)
             e == o.bytes_popped
  <1>14. /\ f \in 0..1 /\ n \in Nat /\ e \in Nat /\ e + n <= StreamLen /\ taken <= n
         /\ t.next_seqno = (e + 1) + taken + f
    BY <1>3, <1>5, <1>9, <1>12
  <1> HIDE DEF f, n, e
  <1>15. t.next_seqno - p[1] <= HalfWord
    BY <1>3, <1>11, <1>13, <1>14, SMTT(60)
  <1> QED BY <1>10, <1>15 DEF Fits

\* The flags that maybe_send adds to a short stream fit.
LEMMA FlagsFit ==
    ASSUME ShortStream, NEW s, NEW o, Coherent(s, o), FlagsDue(s),
           NEW t, t = SendFlags(s).s
    PROVE  Fits(t)
  <1> DEFINE msg == SendFlags(s).msg
             len == sequence_length(msg)
  <1>1. s \in Sender /\ o \in Stream /\ FlightInv(s) /\ StreamInv(o) /\ ProgressInv(s, o)
    BY DEF Coherent
  <1>2. PICK p : LiesAt(s, p)
    BY <1>1 DEF FlightInv
  <1>3. s.has_not_sent_FIN
    BY <1>1 DEF FlagsDue, CanSendFIN, ProgressInv
  <1>4. NoFIN(Line(s))
    BY <1>1, <1>3, LastFIN
  <1>5. /\ s.next_seqno = One(~s.has_not_sent_SYN) + o.bytes_popped
        /\ o.bytes_popped \in Nat /\ o.bytes_popped <= StreamLen
        /\ One(~s.has_not_sent_SYN) \in Nat
    <2>1. /\ s.next_seqno = One(~s.has_not_sent_SYN) + o.bytes_popped + One(~s.has_not_sent_FIN)
          /\ o.bytes_popped \in Nat /\ o.bytes_popped <= StreamLen
      BY <1>1 DEF ProgressInv, StreamInv, Stream
    <2>2. One(~s.has_not_sent_FIN) = 0 /\ One(~s.has_not_sent_SYN) \in Nat
      BY <1>3 DEF One
    <2> QED BY <2>1, <2>2
  <1>6. SynFollows(s)
    <2>1. s.has_not_sent_SYN => o.bytes_popped = 0 /\ One(~s.has_not_sent_SYN) = 0
      BY <1>1 DEF ProgressInv, One
    <2>2. ~s.has_not_sent_SYN => One(~s.has_not_sent_SYN) = 1
      BY DEF One
    <2> QED BY <1>5, <2>1, <2>2 DEF SynFollows
  <1>7. FlagsSent(s, t, msg) /\ Total(Line(t)) = (s.next_seqno + len) - p[1]
    BY <1>1, <1>2, <1>4, <1>6, SendFlagsKeeps
  <1>8. p[1] \in Nat
    <2>1. 1 \in 1..Len(Line(s)) + 1
      BY <1>1, LineType
    <2> QED BY <1>1, <1>2, <2>1, LiesAtSpan
  <1> HIDE DEF msg
  <1>9. One(~s.has_not_sent_SYN) + len <= 2 /\ len \in Nat
    <2>1. len = One(msg.SYN) + Len(msg.payload) + One(msg.FIN)
      BY DEF sequence_length
    <2>2. msg.payload = <<>> /\ msg.SYN = s.has_not_sent_SYN
      BY <1>7 DEF FlagsSent
    <2>3. Len(msg.payload) = 0
      BY <2>2
    <2>4. One(~s.has_not_sent_SYN) + One(msg.SYN) = 1 /\ One(msg.FIN) \in 0..1
          /\ One(msg.SYN) \in 0..1
      BY <2>2 DEF One
    <2> HIDE DEF len
    <2> QED BY <1>5, <2>1, <2>3, <2>4
  <1>10. StreamLen \in Nat /\ HalfWord \in Nat /\ StreamLen + 2 <= HalfWord
    BY DEF ShortStream
  <1> HIDE DEF len
  <1>11. (s.next_seqno + len) - p[1] <= HalfWord
    BY <1>5, <1>8, <1>9, <1>10
  <1> QED BY <1>7, <1>11 DEF Fits

\* A step from a state that fits leads to one that fits.
LEMMA NextFits ==
    ASSUME ShortStream, Inv, ~undefined, [DrainedNext]_vars
    PROVE  FlightFits'
  <1>1. Coherent(sender, outbound) /\ Fits(sender)
    BY CoherentFits DEF Inv
  <1> SUFFICES Fits(sender')
    BY DEF FlightFits, Fits
  <1>2. CASE WriteByte \/ CloseStream \/ UNCHANGED vars
    BY <1>1, <1>2 DEF WriteByte, CloseStream, vars
  <1>3. CASE SynFirst /\ Drained /\ Push
    <2> DEFINE taken == BytesToTake(sender, outbound)
    <2>1. sender' = AttachFIN(Cut(sender, outbound))
      BY <1>3, PushIsCut DEF Push
    <2>2. taken \in Nat
      BY <1>1, TakenBounds DEF Coherent, Stream
    <2>3. sender.unsent_msgs = <<>> /\ (sender.has_not_sent_SYN => outbound.queue = <<>>)
      BY <1>3 DEF SynFirst, Drained
    <2> HIDE DEF taken
    <2>4. CASE taken = 0
      <3>1. Coherent(sender', pop(outbound, 0))
        BY <1>1, <2>1, <2>3, <2>4, PushNothing DEF taken
      <3> QED BY <3>1, CoherentFits
    <2>5. CASE taken > 0
      BY <1>1, <2>1, <2>3, <2>5, PushFits DEF taken
    <2> QED BY <2>2, <2>4, <2>5
  <1>4. CASE MaybeSend
    <2>1. sender' = maybe_send(sender).s
      BY <1>4 DEF MaybeSend
    <2>2. CASE sender.unsent_msgs # <<>>
      <3>1. sender' = SendQueued(sender).s
        BY <2>1, <2>2 DEF maybe_send
      <3>2. Coherent(sender', outbound)
        BY <1>1, <2>2, <3>1, SendQueuedKeeps
      <3> QED BY <3>2, CoherentFits
    <2>3. CASE sender.unsent_msgs = <<>> /\ FlagsDue(sender)
      <3>1. sender' = SendFlags(sender).s
        BY <2>1, <2>3 DEF maybe_send
      <3> QED BY <1>1, <2>3, <3>1, FlagsFit
    <2>4. CASE sender.unsent_msgs = <<>> /\ ~FlagsDue(sender)
      BY <1>1, <2>1, <2>4 DEF maybe_send
    <2> QED BY <2>2, <2>3, <2>4
  <1>5. CASE Drained /\ Receive
    <2>1. PICK raw \in {None} \union {wrap(p, Isn) : p \in 0..sender.next_seqno + 1},
               size \in WindowSizes :
            sender' = receive(sender, [ackno |-> raw, window_size |-> size])
      BY <1>5 DEF Receive
    <2>2. raw \in {None} \union (0..Word - 1)
      <3>1. sender.next_seqno \in Nat
        BY <1>1, SenderMembers DEF Coherent
      <3> QED BY <2>1, <3>1, WrapType
    <2>3. Coherent(sender', outbound)
      BY <1>1, <1>5, <2>1, <2>2, ReceiveKeeps, SMTT(60) DEF Drained
    <2> QED BY <2>3, CoherentFits
  <1>6. CASE Drained /\ \E ms \in TickMs : Tick(ms)
    <2>1. PICK ms \in TickMs : Tick(ms)
      BY <1>6
    <2>2. ~(Expires(sender, ms) /\ sender.unacked_msgs = <<>>)
      BY <1>1, <1>6, ExpiryFindsMessage DEF Drained
    <2>3. sender' = tick(sender, ms)
      BY <2>1, <2>2 DEF Tick
    <2>4. Coherent(sender', outbound)
      BY <1>1, <1>6, <2>3, TickKeeps DEF Drained
    <2> QED BY <2>4, CoherentFits
  <1> QED BY <1>2, <1>3, <1>4, <1>5, <1>6 DEF DrainedNext

\* A stream of less than half the sequence space, 2 GiB in the code, cannot put
\* more in flight than unwrap can tell apart, whatever windows are announced.
THEOREM ShortStreamsFit == ASSUME ShortStream PROVE DrainedSpec => []FlightFits
  <1> DEFINE I == Inv /\ ~undefined
  <1>1. Inv => FlightFits
    BY CoherentFits DEF Inv, FlightFits
  <1>2. Init => I
    BY InitInv
  <1>3. I /\ [DrainedNext]_vars => I'
    BY <1>1, NextFits, NextInv
  <1> QED BY <1>1, <1>2, <1>3, PTL DEF DrainedSpec

------------------------------------------------------------------------------
(* What the invariant says of the queues as the specification names them. *)

\* The line is what the specification names Outstanding.
LEMMA OutstandingIsLine ==
    ASSUME sender \in Sender
    PROVE  /\ Outstanding = Line(sender) /\ Queued = MsgsIn(sender.unsent_msgs)
           /\ (Queued # <<>> /\ Head(sender.unsent_msgs).is_retransmitted <=> Again(sender))
  <1>1. sender.unsent_msgs \in Seq(Wrapped)
    BY SenderMembers
  <1>2. Queued = MsgsIn(sender.unsent_msgs)
    BY DEF Queued, MsgsIn
  <1>3. Queued \in Seq(Msg) /\ Len(Queued) = Len(sender.unsent_msgs)
    BY <1>1, <1>2, MsgsInType
  <1>4. Queued # <<>> <=> sender.unsent_msgs # <<>>
    <2>1. Queued = <<>> <=> Len(Queued) = 0
      BY <1>3
    <2>2. sender.unsent_msgs = <<>> <=> Len(sender.unsent_msgs) = 0
      BY <1>1
    <2> QED BY <1>3, <2>1, <2>2
  <1>5. Queued # <<>> /\ Head(sender.unsent_msgs).is_retransmitted <=> Again(sender)
    BY <1>4 DEF Again
  <1> QED BY <1>2, <1>5 DEF Outstanding, Line

\* The totals of the two queues are the two parts of the span.
LEMMA SplitTotals ==
    ASSUME NEW x \in Seq(Msg), NEW y \in Seq(Msg),
           NEW p \in Positions(x \o y), Laid(x \o y, p)
    PROVE  /\ Total(x) = p[Len(x) + 1] - p[1]
           /\ Total(y) = p[(Len(x) + Len(y)) + 1] - p[Len(x) + 1]
  <1> DEFINE a == Len(x)
             b == Len(y)
             z == x \o y
             head == [i \in 1..a + 1 |-> p[i]]
             tail == [i \in 1..b + 1 |-> p[a + i]]
  <1>1. /\ a \in Nat /\ b \in Nat /\ Len(z) = a + b
        /\ \A i \in 1..a : z[i] = x[i]
        /\ \A i \in 1..b : z[a + i] = y[i]
    <2>1. /\ Len(x \o y) = Len(x) + Len(y)
          /\ \A i \in 1..Len(x) : (x \o y)[i] = x[i]
          /\ \A i \in 1..Len(y) : (x \o y)[Len(x) + i] = y[i]
      BY ConcatElements
    <2> QED BY <2>1
  <1>2. \A i \in 1..(a + b) + 1 : p[i] \in Nat
    BY <1>1 DEF Positions
  <1>3. \A i \in 1..a + b : /\ At(z[i], p[i])
                            /\ p[i + 1] = p[i] + sequence_length(z[i])
                            /\ z[i].FIN => i = a + b
    BY <1>1 DEF Laid
  <1>4. Laid(x, head) /\ head \in Positions(x) /\ head[1] = p[1] /\ head[a + 1] = p[a + 1]
    <2> HIDE DEF a, b, z
    <2>1. \A i \in 1..a + 1 : i \in 1..(a + b) + 1
      BY <1>1
    <2>2. \A i \in 1..a : i \in 1..a + b /\ i + 1 \in 1..a + 1 /\ i \in 1..a + 1
                          /\ (i = a + b => i = a)
      BY <1>1
    <2>3. \A i \in 1..a + 1 : head[i] = p[i]
      OBVIOUS
    <2>4. head \in [1..a + 1 -> Nat]
      BY <1>2, <2>1
    <2>5. 1 \in 1..a + 1 /\ a + 1 \in 1..a + 1
      BY <1>1
    <2> HIDE DEF head
    <2>6. Laid(x, head)
      BY <1>1, <1>3, <2>2, <2>3 DEF Laid, a
    <2> QED BY <2>3, <2>4, <2>5, <2>6 DEF Positions, a
  <1>5. Laid(y, tail) /\ tail \in Positions(y) /\ tail[1] = p[a + 1]
        /\ tail[b + 1] = p[(a + b) + 1]
    <2> HIDE DEF a, b, z
    <2>1. \A i \in 1..b + 1 : a + i \in 1..(a + b) + 1
      BY <1>1
    <2>2. \A i \in 1..b : /\ a + i \in 1..a + b /\ i + 1 \in 1..b + 1 /\ i \in 1..b + 1
                          /\ a + (i + 1) = (a + i) + 1
                          /\ (a + i = a + b => i = b)
      BY <1>1
    <2>3. \A i \in 1..b + 1 : tail[i] = p[a + i]
      OBVIOUS
    <2>4. tail \in [1..b + 1 -> Nat]
      BY <1>2, <2>1
    <2>5. 1 \in 1..b + 1 /\ b + 1 \in 1..b + 1 /\ a + (b + 1) = (a + b) + 1
      BY <1>1
    <2> HIDE DEF tail
    <2>6. Laid(y, tail)
      <3> SUFFICES ASSUME NEW i \in 1..b
                   PROVE  /\ At(y[i], tail[i])
                          /\ tail[i + 1] = tail[i] + sequence_length(y[i])
                          /\ y[i].FIN => i = b
        BY DEF Laid, b
      <3>1. tail[i] = p[a + i] /\ tail[i + 1] = p[(a + i) + 1] /\ z[a + i] = y[i]
        BY <1>1, <2>2, <2>3
      <3>2. /\ At(z[a + i], p[a + i])
            /\ p[(a + i) + 1] = p[a + i] + sequence_length(z[a + i])
            /\ z[a + i].FIN => a + i = a + b
        BY <1>3, <2>2
      <3> QED BY <2>2, <3>1, <3>2
    <2> QED BY <2>3, <2>4, <2>5, <2>6 DEF Positions, b
  <1> HIDE DEF head, tail
  <1> QED BY <1>4, <1>5, TotalIsSpan

\* The counters of the two queues, of a sender s.
LEMMA CountersFollow ==
    ASSUME NEW s \in Sender, NEW p, LiesAt(s, p), QueueShape(s)
    PROVE  /\ s.unsent_seqnos = Total(MsgsIn(s.unsent_msgs))
           /\ s.unacked_seqnos = Total(s.unacked_msgs)
  <1> DEFINE u == s.unacked_msgs
             m == MsgsIn(s.unsent_msgs)
  <1>1. u \in Seq(Msg) /\ m \in Seq(Msg) /\ Len(m) = Len(s.unsent_msgs)
    BY SenderMembers, MsgsInType
  <1>2. /\ p \in Positions(Line(s)) /\ Laid(Line(s), p)
        /\ p[Len(Line(s)) + 1] = s.next_seqno /\ Counted(s, p)
    BY DEF LiesAt
  <1>3. Len(Line(s)) = Len(u) + Len(s.unsent_msgs) /\ Len(u) \in Nat /\ Len(m) \in Nat
    BY <1>1, LineType
  <1>4. CASE Again(s)
    <2>1. Line(s) = m \o u /\ Len(s.unsent_msgs) = 1 /\ Border(s) = 2
      BY <1>4 DEF Line, QueueShape, Border
    <2>2. s.unsent_seqnos = p[2] - p[1] /\ s.unacked_seqnos = s.next_seqno - p[2]
      BY <1>2, <1>4, <2>1 DEF Counted
    <2> HIDE DEF u, m
    <2>3. Total(m) = p[Len(m) + 1] - p[1] /\ Total(u) = p[(Len(m) + Len(u)) + 1] - p[Len(m) + 1]
      BY <1>1, <1>2, <2>1, SplitTotals, ZenonT(60)
    <2>4. Len(m) + 1 = 2 /\ Len(m) + Len(u) = Len(Line(s))
      <3>1. Len(m) = 1 /\ Len(Line(s)) = Len(u) + 1 /\ Len(u) \in Nat
        BY <1>1, <1>3, <2>1
      <3> QED BY <3>1
    <2> QED BY <1>2, <2>2, <2>3, <2>4 DEF u, m
  <1>5. CASE ~Again(s)
    <2>1. Line(s) = u \o m /\ Border(s) = Len(u) + 1
      BY <1>5 DEF Line, Border
    <2>2. /\ s.unacked_seqnos = p[Len(u) + 1] - p[1]
          /\ s.unsent_seqnos = s.next_seqno - p[Len(u) + 1]
      BY <1>2, <1>5, <2>1 DEF Counted
    <2> HIDE DEF u, m
    <2>3. Total(u) = p[Len(u) + 1] - p[1] /\ Total(m) = p[(Len(u) + Len(m)) + 1] - p[Len(u) + 1]
      BY <1>1, <1>2, <2>1, SplitTotals
    <2>4. Len(u) + Len(m) = Len(Line(s))
      BY <1>1, <1>3
    <2> QED BY <1>2, <2>2, <2>3, <2>4 DEF u, m
  <1> QED BY <1>4, <1>5

\* What unwrap makes of the i-th message of the line: the absolute place it lies at.
FoundAt(s, p, i) ==
    /\ At(Line(s)[i], p[i]) /\ p[i] \in Nat
    /\ unwrap(Line(s)[i].seqno, Isn, s.next_seqno) = p[i]
    /\ p[i] + sequence_length(Line(s)[i]) = p[i + 1]
    /\ Line(s)[i].FIN => i = Len(Line(s))
    /\ p[Len(Line(s)) + 1] = s.next_seqno

\* A message of the line is found where it lies.
LEMMA FoundAgain ==
    ASSUME NEW s \in Sender, NEW p, LiesAt(s, p), s.next_seqno - p[1] <= HalfWord,
           NEW i \in 1..Len(Line(s))
    PROVE  FoundAt(s, p, i)
  <1> DEFINE O == Line(s)
             L == Len(O)
  <1>1. L \in Nat /\ i \in 1..L + 1 /\ i + 1 \in 1..L + 1
    BY LineType
  <1>2. /\ p[1] \in Nat /\ p[i] \in Nat /\ p[1] <= p[i] /\ p[i] <= s.next_seqno
        /\ s.next_seqno \in Nat
    BY <1>1, LiesAtSpan, SenderMembers
  <1>3. At(O[i], p[i]) /\ p[i + 1] = p[i] + sequence_length(O[i]) /\ (O[i].FIN => i = L)
        /\ p[L + 1] = s.next_seqno
    BY DEF LiesAt, Laid
  <1>4. unwrap(wrap(p[i], Isn), Isn, s.next_seqno) = p[i]
    <2> DEFINE a == p[i]
               c == s.next_seqno
               b == p[1]
    <2>1. a \in Nat /\ c \in Nat /\ b \in Nat /\ a <= c /\ b <= a /\ c - b <= HalfWord
      BY <1>2
    <2> HIDE DEF a, b, c
    <2>2. c <= a + HalfWord
      BY <2>1
    <2>3. unwrap(wrap(a, Isn), Isn, c) = a
      BY <2>1, <2>2, RoundTrip
    <2> QED BY <2>3 DEF a, c
  <1> QED BY <1>2, <1>3, <1>4 DEF At, FoundAt

------------------------------------------------------------------------------
(* The properties of the run. *)

\* Positions give the counters.
LEMMA CountersImplied == Inv => CountersMatchQueues
  <1> SUFFICES ASSUME Inv PROVE CountersMatchQueues
    OBVIOUS
  <1>1. sender \in Sender /\ FlightInv(sender)
    BY DEF Inv, Coherent
  <1>2. PICK p : LiesAt(sender, p)
    BY <1>1 DEF FlightInv
  <1>3. Queued = MsgsIn(sender.unsent_msgs)
    BY <1>1, OutstandingIsLine
  <1> QED BY <1>1, <1>2, <1>3, CountersFollow DEF FlightInv, CountersMatchQueues

\* The counters of the sequence numbers in flight are the totals of the two queues.
THEOREM CountersAreTotals == DrainedSpec /\ []FlightFits => []CountersMatchQueues
  BY InvHolds, CountersImplied, PTL

\* Positions give the place of every message in the stream.
LEMMA OutstandingImplied == Inv /\ FlightFits => OutstandingIsStream
  <1> SUFFICES ASSUME Inv, FlightFits PROVE OutstandingIsStream
    OBVIOUS
  <1> DEFINE O == Line(sender)
             L == Len(O)
             next == sender.next_seqno
  <1>1. sender \in Sender /\ FlightInv(sender) /\ ProgressInv(sender, outbound)
        /\ Outstanding = O
    BY OutstandingIsLine DEF Inv, Coherent
  <1>2. PICK p : LiesAt(sender, p)
    BY <1>1 DEF FlightInv
  <1>3. next - p[1] <= HalfWord
    BY <1>1, <1>2, FitsSpan DEF FlightFits
  <1>4. O \in Seq(Msg) /\ DOMAIN O = 1..L /\ L \in Nat
    <2>1. O \in Seq(Msg)
      BY <1>1, LineType
    <2> HIDE DEF O
    <2> QED BY <2>1
  <1>5. ASSUME NEW i \in 1..L
        PROVE  /\ At(O[i], p[i]) /\ p[i] \in Nat
               /\ Start(O[i]) = p[i] /\ End(O[i]) = p[i + 1]
               /\ p[L + 1] = next
    <2>1. FoundAt(sender, p, i)
      BY <1>1, <1>2, <1>3, FoundAgain
    <2> QED BY <2>1 DEF FoundAt, Start, End
  <1> HIDE DEF O, L, next
  <1>6. ASSUME NEW i \in 1..L PROVE InPlace(O[i])
    <2>1. /\ O[i].SYN <=> Start(O[i]) = 0
          /\ \A k \in DOMAIN O[i].payload :
               O[i].payload[k] = Start(O[i]) + One(O[i].SYN) + k - 2
      BY <1>5 DEF At
    <2> QED BY <2>1 DEF InPlace
  <1>7. ASSUME NEW i \in 1..L
        PROVE  End(O[i]) = IF i = L THEN next ELSE Start(O[i + 1])
    <2>1. CASE i = L
      BY <1>5, <2>1
    <2>2. CASE i # L
      <3>1. i + 1 \in 1..L
        BY <1>4, <2>2
      <3> QED BY <1>5, <2>2, <3>1
    <2> QED BY <2>1, <2>2
  <1>8. next = One(~sender.has_not_sent_SYN) + outbound.bytes_popped
               + One(~sender.has_not_sent_FIN)
    BY <1>1 DEF ProgressInv, next
  <1>9. \A i \in DOMAIN O : InPlace(O[i])
    BY <1>4, <1>6
  <1>10. \A i \in DOMAIN O : End(O[i]) = IF i = Len(O) THEN sender.next_seqno
                                        ELSE Start(O[i + 1])
    <2> TAKE i \in DOMAIN O
    <2>1. i \in 1..L
      BY <1>4
    <2> QED BY <1>7, <2>1, Zenon DEF L, next
  <1> QED BY <1>1, <1>8, <1>9, <1>10 DEF OutstandingIsStream, next

\* Retransmission and resegmentation neither lose nor repeat a sequence number: the
\* outstanding messages are the stream from the first unacknowledged one on.
THEOREM OutstandingIsWhole == DrainedSpec /\ []FlightFits => []OutstandingIsStream
  BY InvHolds, OutstandingImplied, PTL

\* Positions give the place of the FIN.
LEMMA FinImplied == Inv /\ FlightFits => FinOnlyAtEnd /\ FinNotLost
  <1> SUFFICES ASSUME Inv, FlightFits PROVE FinOnlyAtEnd /\ FinNotLost
    OBVIOUS
  <1> DEFINE O == Line(sender)
             L == Len(O)
             next == sender.next_seqno
             finished == is_finished(outbound)
  <1>1. /\ sender \in Sender /\ FlightInv(sender) /\ ProgressInv(sender, outbound)
        /\ outbound \in Stream /\ StreamInv(outbound) /\ Outstanding = O
    BY OutstandingIsLine DEF Inv, Coherent
  <1>2. PICK p : LiesAt(sender, p)
    BY <1>1 DEF FlightInv
  <1>3. next - p[1] <= HalfWord
    BY <1>1, <1>2, FitsSpan DEF FlightFits
  <1>4. O \in Seq(Msg) /\ DOMAIN O = 1..L /\ L \in Nat
    <2>1. O \in Seq(Msg)
      BY <1>1, LineType
    <2> HIDE DEF O
    <2> QED BY <2>1
  <1>5. ASSUME NEW i \in 1..L, O[i].FIN
        PROVE  i = L /\ End(O[i]) = next
    <2>1. FoundAt(sender, p, i)
      BY <1>1, <1>2, <1>3, FoundAgain
    <2> QED BY <1>5, <2>1 DEF FoundAt, Start, End
  <1>6. /\ next = One(~sender.has_not_sent_SYN) + outbound.bytes_popped
                  + One(~sender.has_not_sent_FIN)
        /\ sender.has_not_sent_SYN => sender.has_not_sent_FIN
        /\ ~sender.has_not_sent_FIN => finished
        /\ O # <<>> => (O[L].FIN <=> ~sender.has_not_sent_FIN)
    BY <1>1 DEF ProgressInv
  <1>7. finished => outbound.bytes_popped = outbound.bytes_pushed
                    /\ outbound.bytes_popped \in Nat
    BY <1>1 DEF is_finished, StreamInv, Stream
  <1>8. L # 0 => O # <<>>
    BY <1>4
  <1>9. O # <<>> => L \in 1..L
    BY <1>4
  <1> HIDE DEF O, L, next, finished
  <1>10. ASSUME NEW i \in 1..L, O[i].FIN
         PROVE  finished /\ End(O[i]) = outbound.bytes_pushed + 2
    <2>1. i = L /\ End(O[i]) = next
      BY <1>5, <1>10
    <2>2. O # <<>>
      BY <1>4, <1>8
    <2>3. ~sender.has_not_sent_FIN /\ ~sender.has_not_sent_SYN
      BY <1>6, <1>10, <2>1, <2>2
    <2>4. One(~sender.has_not_sent_SYN) = 1 /\ One(~sender.has_not_sent_FIN) = 1
      BY <2>3 DEF One
    <2> QED BY <1>6, <1>7, <2>1, <2>3, <2>4
  <1>11. FinOnlyAtEnd
    BY <1>1, <1>4, <1>10 DEF FinOnlyAtEnd, finished
  <1>12. FinNotLost
    BY <1>1, <1>4, <1>6, <1>9 DEF FinNotLost
  <1> QED BY <1>11, <1>12

\* A FIN is sent only behind the last byte of a stream that has ended.
THEOREM FinIsLast == DrainedSpec /\ []FlightFits => []FinOnlyAtEnd
  BY InvHolds, FinImplied, PTL

\* A FIN that counts as sent is in a message until it is acknowledged.
THEOREM FinIsKept == DrainedSpec /\ []FlightFits => []FinNotLost
  BY InvHolds, FinImplied, PTL

\* The invariant of the timer gives its two properties.
LEMMA TimerImplied == Inv => TimerRunsForUnacked /\ BackoffExact
  <1> SUFFICES ASSUME Inv PROVE TimerRunsForUnacked /\ BackoffExact
    OBVIOUS
  <1>1. sender \in Sender /\ TimerInv(sender)
    BY DEF Inv, Coherent
  <1>2. Again(sender) <=> Queued # <<>> /\ Head(sender.unsent_msgs).is_retransmitted
    BY <1>1, OutstandingIsLine
  <1> QED BY <1>1, <1>2 DEF TimerInv, TimerRunsForUnacked, BackoffExact

\* The timer runs exactly while something is unacknowledged.
THEOREM TimerRuns == DrainedSpec /\ []FlightFits => []TimerRunsForUnacked
  BY InvHolds, TimerImplied, PTL

\* The timeout is doubled once for each retransmission counted, and both are reset
\* together.
THEOREM BackoffFollows == DrainedSpec /\ []FlightFits => []BackoffExact
  BY InvHolds, TimerImplied, PTL

\* When the timer expires, tick finds a message to queue again.
THEOREM TickFindsMessage == DrainedSpec /\ []FlightFits => []NeverEmptyFront
  BY InvHolds, PTL DEF NeverEmptyFront

\* A step that sends new sequence numbers respects the window.
LEMMA WindowStep ==
    ASSUME Inv, ~undefined, FlightFits, FlightFits', [DrainedNext]_vars
    PROVE  sender'.next_seqno > sender.next_seqno
             /\ sender.next_seqno > 0 /\ sender.window_size > 0
           => sequence_numbers_in_flight(sender') <= sender.window_size
  <1> SUFFICES ASSUME sender'.next_seqno > sender.next_seqno, sender.next_seqno > 0,
                      sender.window_size > 0
               PROVE  sequence_numbers_in_flight(sender') <= sender.window_size
    OBVIOUS
  <1>1. Coherent(sender', outbound') /\ WithinWindow(sender, sender')
    <2>1. sender.next_seqno \in Nat
      BY SenderMembers DEF Inv, Coherent
    <2>2. sender'.next_seqno # sender.next_seqno
      BY <2>1
    <2> QED BY <2>2, NextInv DEF Inv
  <1>2. Total(Line(sender')) <= sender.window_size
    BY <1>1 DEF WithinWindow
  <1>3. sender' \in Sender /\ FlightInv(sender') /\ Fits(sender')
    BY <1>1 DEF Coherent, FlightFits, Fits
  <1> DEFINE t == sender'
  <1> HIDE DEF t
  <1>4. t \in Sender /\ FlightInv(t) /\ Fits(t)
    BY <1>3 DEF t
  <1>5. PICK p : LiesAt(t, p)
    BY <1>4 DEF FlightInv
  <1>6. t.next_seqno - p[1] <= HalfWord /\ Total(Line(t)) = t.next_seqno - p[1]
    BY <1>4, <1>5, FitsSpan
  <1>7. sequence_numbers_in_flight(t) = t.next_seqno - p[1]
    BY <1>4, <1>5, <1>6, InFlightIsSpan
  <1> QED BY <1>2, <1>6, <1>7 DEF t

\* New sequence numbers stay within the window last announced.
THEOREM WindowIsRespected == DrainedSpec /\ []FlightFits => WindowRespected
  <1>1. Inv /\ ~undefined /\ FlightFits /\ FlightFits' /\ [DrainedNext]_vars
          => [sender'.next_seqno > sender.next_seqno
                /\ sender.next_seqno > 0 /\ sender.window_size > 0
              => sequence_numbers_in_flight(sender') <= sender.window_size]_vars
    BY WindowStep
  <1> QED BY <1>1, InvHolds, PTL DEF DrainedSpec, WindowRespected

\* All of this holds of a short stream without any assumption about the peer.
THEOREM ShortStreamsAreSafe ==
    ASSUME ShortStream
    PROVE  DrainedSpec => /\ []CountersMatchQueues /\ []OutstandingIsStream
                          /\ []FinOnlyAtEnd /\ []FinNotLost
                          /\ []TimerRunsForUnacked /\ []BackoffExact
                          /\ WindowRespected
  BY ShortStreamsFit, CountersAreTotals, OutstandingIsWhole, FinIsLast, FinIsKept,
     TimerRuns, BackoffFollows, WindowIsRespected, PTL

-------------------------------------------------------------------------------
(* What a connection needs of its sender: where each message lies that leaves, *)
(* and how far the sender has forgotten what it sent.                          *)

\* The first number the sender still holds a message for.
Kept(s) == s.next_seqno - sequence_numbers_in_flight(s)

\* That is where the line begins.
LEMMA KeptIsFirst ==
    ASSUME ShortStream, NEW s, NEW o, Coherent(s, o), NEW p, LiesAt(s, p)
    PROVE  /\ Kept(s) = p[1] /\ p[1] \in Nat /\ p[1] <= s.next_seqno
           /\ s.next_seqno - p[1] <= HalfWord
           /\ Kept(s) = s.next_seqno - Total(Line(s))
  <1>1. s \in Sender /\ Fits(s)
    BY CoherentFits DEF Coherent
  <1>2. s.next_seqno - p[1] <= HalfWord /\ Total(Line(s)) = s.next_seqno - p[1]
    BY <1>1, FitsSpan
  <1>3. sequence_numbers_in_flight(s) = s.next_seqno - p[1]
    BY <1>1, <1>2, InFlightIsSpan
  <1>4. p[1] \in Nat /\ p[1] <= s.next_seqno /\ s.next_seqno \in Nat
    <2>1. 1 \in 1..Len(Line(s)) + 1
      BY <1>1, LineType
    <2> QED BY <1>1, <2>1, LiesAtSpan, SenderMembers
  <1> QED BY <1>2, <1>3, <1>4 DEF Kept

\* The next number is within the stream, its SYN and FIN.
LEMMA NextBounds ==
    ASSUME NEW s, NEW o, Coherent(s, o)
    PROVE  /\ s.next_seqno \in Nat /\ s.next_seqno <= StreamLen + 2
           /\ s.has_not_sent_SYN <=> s.next_seqno = 0
           /\ ~s.has_not_sent_FIN /\ o.bytes_pushed = StreamLen
                => s.next_seqno = StreamLen + 2 /\ o.closed
  <1>1. /\ s \in Sender /\ o \in Stream /\ StreamInv(o) /\ ProgressInv(s, o)
    BY DEF Coherent
  <1>2. /\ s.next_seqno = One(~s.has_not_sent_SYN) + o.bytes_popped + One(~s.has_not_sent_FIN)
        /\ s.has_not_sent_SYN => o.bytes_popped = 0 /\ s.has_not_sent_FIN
        /\ ~s.has_not_sent_FIN => o.closed /\ o.queue = <<>>
    BY <1>1 DEF ProgressInv, is_finished
  <1>3. /\ o.bytes_popped \in Nat /\ o.bytes_pushed \in 0..StreamLen /\ Len(o.queue) \in Nat
        /\ o.bytes_popped + Len(o.queue) = o.bytes_pushed
        /\ s.has_not_sent_SYN \in BOOLEAN /\ s.has_not_sent_FIN \in BOOLEAN
    BY <1>1, SenderMembers DEF Stream, StreamInv
  <1>4. o.queue = <<>> => Len(o.queue) = 0
    OBVIOUS
  <1> DEFINE next == s.next_seqno
             n == Len(o.queue)
             popped == o.bytes_popped
             pushed == o.bytes_pushed
             a == One(~s.has_not_sent_SYN)
             b == One(~s.has_not_sent_FIN)
  <1>5. /\ next = a + popped + b /\ a \in 0..1 /\ b \in 0..1
        /\ (s.has_not_sent_SYN <=> a = 0) /\ (s.has_not_sent_FIN <=> b = 0)
    BY <1>2, <1>3 DEF One
  <1>6. /\ (a = 0 => popped = 0 /\ b = 0) /\ (b # 0 => n = 0)
        /\ popped \in Nat /\ pushed \in 0..StreamLen /\ n \in Nat /\ popped + n = pushed
    <2> HIDE DEF a, b, popped, pushed, n
    <2>1. (a = 0 => popped = 0 /\ b = 0) /\ (b # 0 => n = 0)
      BY <1>2, <1>4, <1>5 DEF popped, n
    <2> QED BY <1>3, <2>1 DEF popped, pushed, n
  <1> HIDE DEF next, n, popped, pushed, a, b
  <1>7. next \in Nat /\ next <= StreamLen + 2 /\ (a = 0 <=> next = 0)
    BY <1>5, <1>6
  <1>8. b # 0 /\ pushed = StreamLen => next = StreamLen + 2
    BY <1>5, <1>6
  <1> QED BY <1>2, <1>5, <1>7, <1>8 DEF next, pushed

\* A message as the sender lets it go, at its place in the stream.
Placed(msg, p) ==
    /\ msg \in Msg /\ p \in Nat /\ At(msg, p)
    /\ msg.FIN => p + sequence_length(msg) = StreamLen + 2

Leaves(msg, s, o) ==
    /\ \E p : Placed(msg, p)
    /\ msg.FIN => o.closed
    /\ ~s.has_not_sent_SYN

\* maybe_send keeps what is outstanding, and its message is in its place.
LEMMA SendKeeps ==
    ASSUME ShortStream, NEW s, NEW o, Coherent(s, o), o.bytes_pushed = StreamLen,
           NEW t, t = maybe_send(s).s, NEW msg, msg = maybe_send(s).msg, msg # None
    PROVE  /\ Coherent(t, o) /\ Kept(t) = Kept(s) /\ s.next_seqno <= t.next_seqno
           /\ Leaves(msg, t, o)
  <1>1. /\ s \in Sender /\ FlightInv(s) /\ ProgressInv(s, o) /\ Fits(s)
    BY CoherentFits DEF Coherent
  <1>2. PICK p : LiesAt(s, p)
    BY <1>1 DEF FlightInv
  <1>3. CASE s.unsent_msgs # <<>>
    <2>1. t = SendQueued(s).s /\ msg = SendQueued(s).msg
      BY <1>3 DEF maybe_send
    <2>2. Coherent(t, o) /\ t.next_seqno = s.next_seqno
      BY <1>1, <1>3, <2>1, SendQueuedKeeps
    <2> DEFINE a == Len(s.unacked_msgs)
               b == Len(s.unsent_msgs)
               i == IF Again(s) THEN 1 ELSE a + 1
               front == Head(s.unsent_msgs)
    <2>3. /\ a \in Nat /\ b \in Nat /\ b # 0 /\ Len(Line(s)) = a + b /\ i \in 1..Len(Line(s))
          /\ Line(s)[i] = front.msg /\ Line(s) # <<>> /\ front \in Wrapped /\ front.msg \in Msg
      <3>1. /\ Line(s) \in Seq(Msg) /\ a \in Nat /\ b \in Nat /\ Len(Line(s)) = a + b
            /\ Again(s) => \A j \in 1..b : Line(s)[j] = s.unsent_msgs[j].msg
            /\ ~Again(s) => \A j \in 1..b : Line(s)[a + j] = s.unsent_msgs[j].msg
        BY <1>1, LineType
      <3>2. front = s.unsent_msgs[1] /\ front \in Wrapped /\ b # 0
        BY <1>1, <1>3, SenderMembers
      <3>3. front.msg \in Msg
        BY <3>2 DEF Wrapped
      <3> HIDE DEF a, b, front
      <3>4. 1 \in 1..b /\ 1 \in 1..a + b /\ a + 1 \in 1..a + b
        BY <3>1, <3>2
      <3>5. Line(s)[i] = front.msg /\ i \in 1..a + b
        BY <3>1, <3>2, <3>4
      <3>6. Line(s) # <<>>
        BY <3>1, <3>4
      <3> QED BY <3>1, <3>2, <3>3, <3>5, <3>6
    <2>4. ~s.has_not_sent_SYN
      BY <1>1, <2>3 DEF ProgressInv
    <2>5. ~t.has_not_sent_SYN
      BY <1>1, <1>3, <2>1, <2>4, SendQueuedEffect DEF QueuedSent
    <2>6. msg = front.msg
      <3> DEFINE m == front.msg
      <3>1. msg = [m EXCEPT !.SYN = @ \/ s.has_not_sent_SYN]
        BY <2>1 DEF SendQueued
      <3>2. m \in Msg /\ s.has_not_sent_SYN = FALSE
        BY <1>1, <2>3, <2>4, SenderMembers
      <3> HIDE DEF m
      <3>3. m.SYN \in BOOLEAN
        BY <3>2 DEF Msg
      <3>4. msg = m
        BY <3>1, <3>2, <3>3 DEF Msg
      <3> QED BY <3>4 DEF m
    <2>7. Line(t) = Line(s) /\ LiesAt(t, p)
      <3>1. s.next_seqno - p[1] <= HalfWord /\ QueueShape(s)
        BY <1>1, <1>2, FitsSpan DEF FlightInv
      <3>2. CASE Again(s)
        BY <1>1, <1>2, <2>1, <2>4, <3>1, <3>2, SendAgainKeeps
      <3>3. CASE ~Again(s)
        BY <1>1, <1>2, <1>3, <2>1, <2>4, <3>1, <3>3, SendNewKeeps
      <3> QED BY <3>2, <3>3
    <2>8. Kept(t) = Kept(s)
      <3>1. Kept(s) = p[1]
        BY <1>2, KeptIsFirst
      <3>2. Kept(t) = p[1]
        BY <2>2, <2>7, KeptIsFirst
      <3> QED BY <3>1, <3>2
    <2>9. FoundAt(s, p, i)
      <3>1. s.next_seqno - p[1] <= HalfWord
        BY <1>1, <1>2, FitsSpan
      <3> HIDE DEF i
      <3> QED BY <1>1, <1>2, <2>3, <3>1, FoundAgain
    <2> HIDE DEF i, front
    <2>10. At(msg, p[i]) /\ p[i] \in Nat /\ msg \in Msg
      BY <2>3, <2>6, <2>9 DEF FoundAt
    <2>11. ASSUME msg.FIN PROVE p[i] + sequence_length(msg) = StreamLen + 2 /\ o.closed
      <3>1. i = Len(Line(s)) /\ p[i] + sequence_length(msg) = s.next_seqno
        BY <2>3, <2>6, <2>9, <2>11 DEF FoundAt
      <3>2. ~s.has_not_sent_FIN
        BY <1>1, <2>3, <2>6, <2>11, <3>1 DEF ProgressInv
      <3> QED BY <3>1, <3>2, NextBounds
    <2>12. Placed(msg, p[i])
      BY <2>10, <2>11 DEF Placed
    <2>13. s.next_seqno <= t.next_seqno
      BY <1>1, <2>2, SenderMembers
    <2> QED BY <2>2, <2>5, <2>8, <2>11, <2>12, <2>13 DEF Leaves
  <1>4. CASE s.unsent_msgs = <<>>
    <2>1. FlagsDue(s) /\ t = SendFlags(s).s /\ msg = SendFlags(s).msg
      BY <1>4 DEF maybe_send
    <2>2. Fits(t)
      BY <2>1, FlagsFit
    <2>3. Coherent(t, o)
      BY <1>1, <2>1, <2>2, SendFlagsCoherent
    <2>4. s.has_not_sent_FIN
      BY <1>1, <2>1 DEF FlagsDue, CanSendFIN, ProgressInv
    <2>5. NoFIN(Line(s))
      BY <1>1, <2>4, LastFIN DEF Coherent
    <2>6. SynFollows(s)
      BY NextBounds DEF SynFollows
    <2>7. FlagsSent(s, t, msg) /\ \E r : LiesAt(t, r) /\ r[1] = p[1]
      BY <1>1, <1>2, <2>1, <2>2, <2>5, <2>6, SendFlagsKeeps
    <2>8. Kept(t) = Kept(s)
      <3>1. PICK r : LiesAt(t, r) /\ r[1] = p[1]
        BY <2>7
      <3>2. Kept(s) = p[1] /\ Kept(t) = r[1]
        BY <1>2, <2>3, <3>1, KeptIsFirst
      <3> QED BY <3>1, <3>2
    <2> DEFINE len == sequence_length(msg)
    <2>9. /\ msg \in Msg /\ msg.seqno = wrap(s.next_seqno, Isn) /\ msg.payload = <<>>
          /\ msg.SYN = s.has_not_sent_SYN /\ msg.FIN = CanSendFIN(s)
          /\ t.next_seqno = s.next_seqno + len
          /\ t.has_not_sent_SYN = FALSE /\ t.has_not_sent_FIN = ~CanSendFIN(s)
      BY <2>7 DEF FlagsSent
    <2>10. len \in Nat /\ len > 0
      <3>1. len = One(msg.SYN) + Len(msg.payload) + One(msg.FIN) /\ Len(msg.payload) = 0
            /\ One(msg.SYN) \in 0..1 /\ One(msg.FIN) \in 0..1
        BY <2>9, LengthType
      <3>2. msg.SYN \/ msg.FIN
        BY <2>1, <2>9 DEF FlagsDue
      <3>3. One(msg.SYN) = 1 \/ One(msg.FIN) = 1
        BY <3>2 DEF One
      <3> HIDE DEF len
      <3> QED BY <3>1, <3>3
    <2> HIDE DEF len
    <2>11. s.next_seqno \in Nat /\ (s.has_not_sent_SYN <=> s.next_seqno = 0)
      BY NextBounds
    <2>12. At(msg, s.next_seqno)
      <3>1. msg.payload = <<>> /\ 0 <= MAX_PAYLOAD_SIZE
        BY <2>9
      <3>2. DOMAIN <<>> = {} /\ Len(<<>>) = 0
        OBVIOUS
      <3>3. /\ \A k \in DOMAIN msg.payload : msg.payload[k] = s.next_seqno + One(msg.SYN) + k - 2
            /\ Len(msg.payload) <= MAX_PAYLOAD_SIZE
        BY <3>1, <3>2
      <3> QED BY <2>9, <2>10, <2>11, <3>3 DEF At, len
    <2>13. msg.FIN => s.next_seqno + sequence_length(msg) = StreamLen + 2 /\ o.closed
      <3>1. msg.FIN => ~t.has_not_sent_FIN
        BY <2>9
      <3> QED BY <2>3, <2>9, <3>1, NextBounds DEF len
    <2>14. Placed(msg, s.next_seqno)
      BY <2>9, <2>11, <2>12, <2>13 DEF Placed
    <2>15. s.next_seqno <= t.next_seqno
      BY <2>9, <2>10, <2>11
    <2> QED BY <2>3, <2>8, <2>9, <2>13, <2>14, <2>15 DEF Leaves
  <1> QED BY <1>3, <1>4

\* A line that begins where it began: nothing has been given up.
LEMMA StartIsKept ==
    ASSUME ShortStream, NEW s, NEW o, Coherent(s, o), NEW t, NEW x, Coherent(t, x), SameStart(s, t)
    PROVE  Kept(t) = Kept(s)
  <1>1. PICK p, r : LiesAt(s, p) /\ LiesAt(t, r) /\ r[1] = p[1]
    BY DEF SameStart
  <1>2. Kept(s) = p[1]
    BY <1>1, KeptIsFirst
  <1>3. Kept(t) = r[1]
    BY <1>1, KeptIsFirst
  <1> QED BY <1>1, <1>2, <1>3

\* What an operation of the sender leaves behind.
Continues(s, o, t, x) ==
    /\ Coherent(t, x) /\ s.next_seqno <= t.next_seqno
    /\ x.bytes_pushed = o.bytes_pushed /\ x.closed = o.closed

\* push gives nothing up,
LEMMA PushContinues ==
    ASSUME ShortStream, NEW s, NEW o, Coherent(s, o), s.unsent_msgs = <<>>, ~s.has_not_sent_SYN,
           NEW t, t = push_stream(s, o).s, NEW x, x = push_stream(s, o).outbound
    PROVE  Continues(s, o, t, x) /\ Kept(t) = Kept(s)
  <1> DEFINE taken == BytesToTake(s, o)
  <1>1. t = AttachFIN(Cut(s, o)) /\ x = pop(o, taken)
    BY PushIsCut
  <1>2. s \in Sender /\ o \in Stream /\ StreamInv(o) /\ s.next_seqno \in Nat
    BY SenderMembers DEF Coherent
  <1>3. taken \in 0..Len(o.queue)
    BY <1>2, TakenBounds
  <1>4. x.bytes_pushed = o.bytes_pushed /\ x.closed = o.closed
    BY <1>1, <1>2, <1>3, PopEffect
  <1>5. taken \in Nat
    BY <1>2, <1>3 DEF Stream
  <1>6. Fits(s)
    BY CoherentFits
  <1> HIDE DEF taken
  <1>7. Coherent(t, x) /\ SameStart(s, t) /\ s.next_seqno <= t.next_seqno
    <2>1. CASE taken = 0
      <3>1. Coherent(t, x) /\ t.next_seqno = s.next_seqno /\ SameStart(s, t)
        BY <1>1, <2>1, PushNothing DEF taken
      <3> QED BY <1>2, <3>1
    <2>2. CASE taken > 0
      <3>1. Fits(t)
        BY <1>1, <2>2, PushFits DEF taken
      <3> QED BY <1>1, <1>6, <2>2, <3>1, PushSomething DEF taken
    <2> QED BY <1>5, <2>1, <2>2
  <1>8. Kept(t) = Kept(s)
    BY <1>7, StartIsKept
  <1> QED BY <1>4, <1>7, <1>8 DEF Continues

\* and so does tick,
LEMMA TickContinues ==
    ASSUME ShortStream, NEW s, NEW o, Coherent(s, o), s.unsent_msgs = <<>>, NEW ms \in TickMs,
           NEW t, t = tick(s, ms)
    PROVE  Continues(s, o, t, o) /\ Kept(t) = Kept(s)
  <1>1. Fits(s) /\ s.next_seqno \in Nat
    BY CoherentFits, SenderMembers DEF Coherent
  <1>2. Coherent(t, o) /\ t.next_seqno = s.next_seqno /\ SameStart(s, t)
    BY <1>1, TickKeeps
  <1>3. Kept(t) = Kept(s)
    BY <1>2, StartIsKept
  <1> QED BY <1>1, <1>2, <1>3 DEF Continues

\* while receive gives up at most what is acknowledged.
LEMMA ReceiveContinues ==
    ASSUME ShortStream, NEW s, NEW o, Coherent(s, o), s.unsent_msgs = <<>>,
           NEW raw \in {None} \union (0..Word - 1), NEW size \in WindowSizes,
           NEW t, t = receive(s, [ackno |-> raw, window_size |-> size])
    PROVE  /\ Continues(s, o, t, o) /\ t.unsent_msgs = <<>>
           /\ Kept(t) = Kept(s) \/ (raw # None /\ Kept(t) <= unwrap(raw, Isn, s.next_seqno))
  <1> DEFINE w == Announced(s, size)
             ackno == unwrap(raw, s.isn, s.next_seqno)
  <1>1. /\ s \in Sender /\ s.next_seqno \in Nat /\ s.isn = Isn /\ Fits(s)
    BY CoherentFits, SenderMembers DEF Coherent
  <1>2. t = IF raw = None \/ Impossible(s, ackno) THEN w ELSE TakeAck(w, ackno)
    BY DEF receive, Announced
  <1>3. Coherent(t, o) /\ t.next_seqno = s.next_seqno
    BY <1>1, ReceiveKeeps
  <1>4. Continues(s, o, t, o)
    BY <1>1, <1>3 DEF Continues
  <1>5. /\ Coherent(w, o) /\ Line(w) = Line(s) /\ w.next_seqno = s.next_seqno
        /\ w.unsent_msgs = <<>>
    BY WindowKeeps, ZenonT(60)
  <1>6. Kept(w) = Kept(s)
    <2>1. WindowTaken(s, w)
      BY <1>1, WindowEffect
    <2> HIDE DEF w
    <2> QED BY <2>1 DEF WindowTaken, Kept, sequence_numbers_in_flight
  <1> HIDE DEF w
  <1>7. CASE raw = None \/ Impossible(s, ackno)
    BY <1>2, <1>4, <1>5, <1>6, <1>7
  <1>8. CASE raw # None /\ ~Impossible(s, ackno)
    <2>1. ackno \in Nat /\ ackno = unwrap(raw, Isn, s.next_seqno)
      BY <1>1, <1>8, UnwrapType
    <2>2. t = TakeAck(w, ackno)
      BY <1>2, <1>8
    <2> HIDE DEF ackno
    <2>3. CASE AckedCount(w, ackno) = 0
      BY <1>4, <1>5, <1>6, <2>2, <2>3 DEF TakeAck
    <2>4. CASE AckedCount(w, ackno) # 0
      <3>1. Fits(w) /\ w \in Sender
        BY <1>1, <1>5 DEF Fits, Coherent
      <3>2. PICK r : LiesAt(t, r) /\ r[1] <= ackno
        BY <1>5, <2>1, <2>2, <2>4, <3>1, AckKeeps
      <3>3. Kept(t) = r[1]
        BY <1>3, <3>2, KeptIsFirst
      <3>4. t.unsent_msgs = <<>>
        <4>1. PICK q : LiesAt(w, q)
          BY <1>5 DEF Coherent, FlightInv
        <4>2. w.next_seqno - q[1] <= HalfWord
          BY <3>1, <4>1, FitsSpan
        <4>3. \E rest, p : AckTaken(w, t, rest, p)
          BY <1>5, <2>1, <2>2, <2>4, <3>1, <4>1, <4>2, TakeAckKeeps
        <4> QED BY <4>3 DEF AckTaken
      <3> QED BY <1>4, <1>8, <2>1, <3>2, <3>3, <3>4
    <2> QED BY <2>3, <2>4
  <1> QED BY <1>7, <1>8

\* A new sender, and a stream to which everything has been written.
LEMMA WrittenIsCoherent ==
    ASSUME NEW o, o = push(NewStream(StreamLen), [i \in 1..StreamLen |-> i - 1])
    PROVE  /\ Coherent(NewSender(Isn), o) /\ o.bytes_pushed = StreamLen /\ ~o.closed
           /\ Kept(NewSender(Isn)) = 0
  <1> DEFINE s == NewSender(Isn)
             n == NewStream(StreamLen)
             d == [i \in 1..StreamLen |-> i - 1]
  <1>1. Coherent(s, n)
    BY NewIsCoherent
  <1>2. /\ n.capacity = StreamLen /\ n.queue = <<>> /\ n.closed = FALSE /\ n.error = FALSE
        /\ n.bytes_pushed = 0 /\ n.bytes_popped = 0
    BY DEF NewStream
  <1>3. /\ d \in Seq(0..StreamLen - 1) /\ Len(d) = StreamLen
        /\ \A k \in 1..StreamLen : d[k] = k - 1
        /\ SubSeq(d, 1, StreamLen) = d /\ <<>> \o d = d
    OBVIOUS
  <1> HIDE DEF d
  <1>4. o = [capacity |-> StreamLen, queue |-> d, closed |-> FALSE, error |-> FALSE,
             bytes_pushed |-> StreamLen, bytes_popped |-> 0]
    <2>1. available_capacity(n) = StreamLen
      BY <1>2 DEF available_capacity, bytes_buffered
    <2>2. Smaller(Len(d), StreamLen) = StreamLen
      BY <1>3 DEF Smaller
    <2>3. o = [n EXCEPT !.queue = <<>> \o SubSeq(d, 1, StreamLen), !.bytes_pushed = 0 + StreamLen]
      BY <1>2, <2>1, <2>2 DEF push, d
    <2>4. 0 + StreamLen = StreamLen
      OBVIOUS
    <2> QED BY <1>3, <2>3, <2>4 DEF NewStream
  <1>5. StreamLen \in Nat /\ StreamLen \in 0..StreamLen /\ StreamLen + 0 = StreamLen
    BY SenderAssumption
  <1>6. /\ o.capacity = StreamLen /\ o.queue = d /\ o.closed = FALSE /\ o.error = FALSE
        /\ o.bytes_pushed = StreamLen /\ o.bytes_popped = 0
    BY <1>4
  <1> HIDE DEF n
  <1>7. d \in Seq(0..StreamLen - 1) /\ Len(d) = StreamLen
    BY <1>3
  <1>8. 0 \in Nat /\ FALSE \in BOOLEAN
    OBVIOUS
  <1>9. o \in Stream
    BY ONLY <1>7, <1>8, <1>4, <1>5, SMT DEF Stream
  <1>10. \A k \in 1..Len(d) : d[k] = 0 + k - 1
    BY <1>3
  <1>11. StreamInv(o)
    <2>1. 0 + Len(d) = StreamLen
      BY <1>7
    <2> QED BY ONLY <2>1, <1>10, <1>6, Zenon DEF StreamInv
  <1>12. /\ s.next_seqno = 0 /\ s.has_not_sent_SYN = TRUE /\ s.has_not_sent_FIN = TRUE
        /\ s.stream_is_finished = FALSE /\ s.unsent_seqnos = 0 /\ s.unacked_seqnos = 0
    BY DEF NewSender
  <1> HIDE DEF s
  <1>13. ProgressInv(s, o)
    BY <1>1, <1>2, <1>4, <1>12 DEF Coherent, ProgressInv
  <1>14. Kept(s) = 0
    BY <1>12, SmallMod, WordType DEF Kept, sequence_numbers_in_flight
  <1> QED BY <1>1, <1>4, <1>9, <1>11, <1>13, <1>14 DEF Coherent, s

\* A position of the stream is read as it is meant, once the SYN has left.
LEMMA PositionRead ==
    ASSUME ShortStream, NEW q \in 0..StreamLen + 2, NEW next \in 1..StreamLen + 2
    PROVE  unwrap(wrap(q, Isn), Isn, next) = q
  <1>1. q \in Nat /\ next \in Nat /\ q < next + HalfWord /\ next <= q + HalfWord
    BY DEF ShortStream
  <1>2. HalfWord \in Nat \ {0} /\ Isn \in 0..Seqno!Word - 1
    BY DEF Seqno!Word, Word
  <1> QED BY <1>1, <1>2, Seqno!RoundTripHolds DEF Seqno!unwrap, unwrap, Seqno!wrap, wrap, Seqno!Plus, Plus, Seqno!Diff, Diff, Seqno!Word, Word

=============================================================================
