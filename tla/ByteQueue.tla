------------------------------ MODULE ByteQueue ------------------------------
(***************************************************************************)
(* What the Writer and Reader interfaces of a ByteStream promise           *)
(* (src/src/byte_stream.hh, byte_stream.cc), as pure operators on a        *)
(* record: the unread bytes in order, the two flag bits and the two        *)
(* cumulative counters.  Module ByteStream models the flat buffer that     *)
(* implements it; the modules of the TCP half use these operators for the  *)
(* streams they read and write.                                            *)
(***************************************************************************)
EXTENDS Naturals, Sequences

Smaller(a, b) == IF a <= b THEN a ELSE b

\* A freshly constructed ByteStream of the given capacity.
NewStream(capacity) ==
    [capacity |-> capacity, queue |-> <<>>, closed |-> FALSE, error |-> FALSE,
     bytes_pushed |-> 0, bytes_popped |-> 0]

bytes_buffered(s) == Len(s.queue)

available_capacity(s) == s.capacity - bytes_buffered(s)

\* Writer::push keeps what fits and drops the rest; it does not look at the
\* closed flag.
push(s, data) ==
    LET len_pushed == Smaller(Len(data), available_capacity(s))
    IN  [s EXCEPT !.queue = @ \o SubSeq(data, 1, len_pushed),
                  !.bytes_pushed = @ + len_pushed]

close(s) == [s EXCEPT !.closed = TRUE]

set_error(s) == [s EXCEPT !.error = TRUE]

\* Reader::pop removes at most what is buffered.
pop(s, len) ==
    LET len_popped == Smaller(len, bytes_buffered(s))
    IN  [s EXCEPT !.queue = SubSeq(@, len_popped + 1, Len(@)),
                  !.bytes_popped = @ + len_popped]

is_finished(s) == s.closed /\ s.queue = <<>>
==============================================================================
