------------------------------ MODULE Reassembler ------------------------------
(***************************************************************************)
(* A Reassembler and the ByteStream it writes to: substrings of one stream *)
(* arrive in any order, overlapping, repeated or cut differently, while a  *)
(* reader takes bytes out.  A byte is represented by its index in the      *)
(* stream, so that a byte in the wrong place is visible.                   *)
(***************************************************************************)
EXTENDS ReassemblerOps

CONSTANTS Capacity,     \* capacity_ of the inbound stream
          StreamLen,    \* number of bytes of the original stream
          MaxSegment    \* longest substring inserted

ASSUME StreamAssumption ==
    /\ Capacity \in Nat /\ MaxSegment \in Nat
    /\ StreamLen \in Nat /\ Wide \in Nat /\ StreamLen < Wide

VARIABLES reassembler,
          inbound        \* the stream it writes to, as TCPReceiver calls it

vars == <<reassembler, inbound>>

\* The substring of the stream from index first on.
Substring(first, len) == [i \in 1..len |-> first + i - 1]

Init ==
    /\ reassembler = NewReassembler
    /\ inbound = NewStream(Capacity)

\* The substring that ends the stream may or may not be marked as the last.
Insert(first, len, is_last) ==
    LET res == insert(reassembler, inbound, first, Substring(first, len), is_last)
    IN  /\ first + len <= StreamLen
        /\ is_last => first + len = StreamLen
        /\ reassembler' = res.r
        /\ inbound' = res.output

Read(len) ==
    /\ inbound' = pop(inbound, len)
    /\ UNCHANGED reassembler

Next ==
    \/ \E first \in 0..StreamLen, len \in 0..MaxSegment, is_last \in BOOLEAN :
           Insert(first, len, is_last)
    \/ \E len \in 1..Capacity : Read(len)

Spec == Init /\ [][Next]_vars

------------------------------------------------------------------------------
Size == reassembler.buffer_size
FirstUnassembled == reassembler.first_unassembled

\* The indices of the bytes stored behind the first gap, read off the bitmap.
Held == {i \in FirstUnassembled..FirstUnassembled + Size - 1 : get(reassembler.bitmap, i % Size)}

\* No substring wraps around the window into the block of the bitmap it begins
\* in.  In TCPConfig they are 1000 bytes long, of 64000, with blocks of 32.
ShortSubstrings == MaxSegment + BlockSize <= Capacity + 1

\* What the fields of the Reassembler and its stream hold.
TypeOK ==
    /\ FirstUnassembled \in 0..StreamLen
    /\ reassembler.bytes_pending \in 0..Capacity
    /\ reassembler.reach_end \in BOOLEAN
    /\ Size \in {0, Capacity}
    /\ \A w \in 0..Size - 1 :
         reassembler.sliding_window[w] \in 0..StreamLen - 1 \union {NoByte}
    /\ inbound.queue \in Seq(0..StreamLen - 1)

\* The stream delivers the original bytes in order and without holes, however
\* the ring of the window wraps and whatever the reader leaves unread.
StreamIntact ==
    /\ inbound.bytes_pushed = FirstUnassembled
    /\ \A i \in 1..Len(inbound.queue) : inbound.queue[i] = inbound.bytes_popped + i - 1

\* bytes_pending counts the bits that are set, each slot whose bit is set
\* holds the byte of its index, and the next byte is never left in the window.
WindowConsistent ==
    /\ reassembler.bytes_pending = Cardinality(Held)
    /\ \A i \in Held : reassembler.sliding_window[i % Size] = i
    /\ FirstUnassembled \notin Held

\* Once every byte has been written and the end has been announced, the
\* stream is closed: no order of arrival forgets the end of the stream.
CompleteIsClosed ==
    reassembler.reach_end /\ FirstUnassembled = StreamLen => inbound.closed

\* Nothing the Reassembler has learnt is dropped, nothing beyond the capacity
\* is kept, and the gapless prefix is always written out.
Abstract == INSTANCE ReassemblerSpec WITH
    known <- 0..FirstUnassembled - 1 \union Held, popped <- inbound.bytes_popped

ImplementsReassembler == Abstract!Spec

\* "The Reassembler should close the stream after writing the last byte."
\* (reassembler.hh:30)
ClosedMeansComplete == inbound.closed => FirstUnassembled = StreamLen
==============================================================================
