------------------------------- MODULE Parsing -------------------------------
(***************************************************************************)
(* Parser with its BufferList, and Serializer (src/util/parser.hh).  A     *)
(* Buffer is a sequence of bytes; a BufferList is a record of the buffers, *)
(* the number of bytes in them and the number of bytes of the first buffer *)
(* that have been read.                                                    *)
(***************************************************************************)
EXTENDS Integers, SequencesExt

CONSTANT Nibble   \* 16: half a byte, in which IPv4Header packs two fields

ASSUME NibbleAssumption == Nibble \in Nat \ 0..5

Byte == 0..Nibble * Nibble - 1
ByteSize == Nibble * Nibble

\* The integer that bytes stand for, most significant first, and back.
Number(bytes) == FoldLeft(LAMBDA n, b : n * ByteSize + b, 0, bytes)

Bytes(n, width) == [i \in 1..width |-> (n \div ByteSize ^ (width - i)) % ByteSize]

Total(buffers) == FoldLeft(LAMBDA n, b : n + Len(b), 0, buffers)

------------------------------------------------------------------------------
(* Parser::BufferList *)

NewList(buffers) == [buffers |-> buffers, size |-> Total(buffers), skip |-> 0]

peek(l) == SubSeq(Head(l.buffers), l.skip + 1, Len(Head(l.buffers)))

\* How many bytes are unread in the first k buffers.
Ahead(l, k) == IF k = 0 THEN 0 ELSE Total(SubSeq(l.buffers, 1, k)) - l.skip

\* A plausible slip: a buffer goes when more is to be read, not when it ends.
MutantExhausted(l, len) ==
    LET n == Len(l.buffers)
    IN  CHOOSE k \in 0..n :
            /\ k = n \/ Ahead(l, k + 1) >= len
            /\ \A j \in 0..k - 1 : Ahead(l, j + 1) < len

\* The loop of remove_prefix takes off the buffers it has read to the end,
\* and stops as soon as len is used up, in front of empty ones.
Exhausted(l, len) ==
    LET n == Len(l.buffers)
    IN  CHOOSE k \in 0..n :
            /\ k = n \/ Ahead(l, k) = len \/ Ahead(l, k + 1) > len
            /\ \A j \in 0..k - 1 : Ahead(l, j) < len /\ Ahead(l, j + 1) <= len

\* What is left of the list when k buffers have been taken off.
WithoutFirst(l, len, k) ==
    [buffers |-> SubSeq(l.buffers, k + 1, Len(l.buffers)),
     size |-> l.size - (IF len < l.size THEN len ELSE l.size),
     skip |-> IF k = Len(l.buffers) THEN 0
              ELSE (IF k = 0 THEN l.skip ELSE 0) + len - Ahead(l, k)]

remove_prefix(l, len) == WithoutFirst(l, len, Exhausted(l, len))

\* dump_all: nothing if no byte is left, else the rest of the first buffer
\* and the buffers behind it, empty ones included.
dump_all(l) == IF l.size = 0 THEN <<>> ELSE <<peek(l)>> \o Tail(l.buffers)

\* The bytes that are left.
Contents(l) == FlattenSeq(dump_all(l))

------------------------------------------------------------------------------
(* Parser.  undefined records a front() of an empty view, whose result is  *)
(* not defined.                                                            *)

NewParser(buffers) == [input |-> NewList(buffers), error |-> FALSE, undefined |-> FALSE]

set_error(p, condition) == [p EXCEPT !.error = @ \/ condition]

check_size(p, n) == set_error(p, n > p.input.size)

\* Whether one of the next n reads of a single byte finds an empty view.
ReadsNothing(l, n) == \E i \in 0..n - 1 : peek(remove_prefix(l, i)) = <<>>

\* Parser::integer for a type of `width` bytes: the parser afterwards and the
\* value of the variable, which keeps its old one after an error.
CheckedInteger(p, width, old) ==
    IF p.error THEN [p |-> p, value |-> old]
    ELSE [p |-> [p EXCEPT !.input = remove_prefix(@, width),
                          !.undefined = @ \/ ReadsNothing(p.input, width)],
          value |-> Number(SubSeq(Contents(p.input), 1, width))]

integer(p, width, old) == CheckedInteger(check_size(p, width), width, old)

\* A series of such calls, as <<width, old value>>.
integers(p, fields) ==
    LET AndThen(values, res) == [p |-> res.p, values |-> Append(values, res.value)]
    IN  FoldLeft(LAMBDA acc, f : AndThen(acc.values, integer(acc.p, f[1], f[2])),
                 [p |-> p, values |-> <<>>], fields)

\* Parser::remove_prefix, where the number of bytes may exceed what is left.
skip_bytes(p, n) == [p EXCEPT !.input = remove_prefix(@, n)]

all_remaining(p) == dump_all(p.input)

------------------------------------------------------------------------------
(* Serializer *)

NewSerializer == [output |-> <<>>, buffer |-> <<>>]

\* The series of calls of integer, as <<width, value>>.
put_integers(s, fields) ==
    [s EXCEPT !.buffer = @ \o FlattenSeq([i \in DOMAIN fields |-> Bytes(fields[i][2], fields[i][1])])]

\* Serializer::buffer: the working buffer is flushed first, even if empty.
put_buffer(s, buf) ==
    [output |-> s.output \o <<s.buffer, buf>>, buffer |-> <<>>]

put_buffers(s, bufs) == FoldLeft(put_buffer, s, bufs)

\* Serializer::output flushes, too.
output(s) == Append(s.output, s.buffer)
==============================================================================
