---------------------------- MODULE ReassemblerOps ----------------------------
(***************************************************************************)
(* Reassembler (src/src/reassembler.hh, reassembler.cc), as operators on a *)
(* record that holds its private members.  The output stream is a record   *)
(* of module ByteQueue.  TCPReceiver calls insert with an index of type    *)
(* uint64_t that may have wrapped below zero; Wide is the number of such   *)
(* indices.                                                                *)
(***************************************************************************)
EXTENDS Bitmap, ByteQueue

CONSTANTS Wide,     \* 2^64 in the code
          NoByte    \* the char a std::vector value-initialises to

NewReassembler ==
    [first_unassembled |-> 0, bytes_pending |-> 0, reach_end |-> FALSE,
     buffer_size |-> 0, sliding_window |-> <<>>, bitmap |-> NewBitmap(0)]

\* Lines 7-9.
MarkEnd(r, is_last) == [r EXCEPT !.reach_end = @ \/ is_last]

\* Lines 11-15: the window takes its size from the stream at the first insert.
SizeWindow(r, output) ==
    IF r.buffer_size # 0 THEN r
    ELSE LET n == available_capacity(output)
         IN  [r EXCEPT !.buffer_size = n,
                       !.sliding_window = [i \in 0..n - 1 |-> NoByte],
                       !.bitmap = NewBitmap(n)]

\* Line 24: the end of the part of the data that the stream has room for.
DataTail(r, output, first_index, data) ==
    Smaller((first_index + Len(data)) % Wide,
            r.first_unassembled + available_capacity(output))

\* A plausible slip: the bytes stored behind the new data are not written.
MutantPendingRun(r, m, tail) == 0

\* Lines 52-61: how many bytes stored from `tail` on have no gap before them.
\* The loop clears each bit it passes, so it stops after one round at most.
PendingRun(r, m, tail) ==
    CHOOSE k \in 0..r.buffer_size :
        /\ \A j \in 0..k - 1 : get(m, (tail + j) % r.buffer_size)
        /\ k < r.buffer_size => ~get(m, (tail + k) % r.buffer_size)

\* A plausible slip: the range is a slot short.
MutantClearRange(r, tail) ==
    UnsetBatch(r.bitmap, r.first_unassembled % r.buffer_size,
               (tail + r.buffer_size - 2) % r.buffer_size)

\* Line 46: forget the stored bytes that the new data brings again.
ClearRange(r, tail) ==
    UnsetBatch(r.bitmap, r.first_unassembled % r.buffer_size,
               (tail + r.buffer_size - 1) % r.buffer_size)

ClearedCount(r, tail) ==
    getPopCount(r.bitmap, r.first_unassembled % r.buffer_size,
                (tail + r.buffer_size - 1) % r.buffer_size)

\* Lines 31-62: the data reaches the next byte of the stream.
Assemble(r, output, first_index, data, tail) ==
    LET n       == r.buffer_size
        cleared == ClearRange(r, tail)
        run     == PendingRun(r, cleared, tail)
        slots   == {(tail + j) % n : j \in 0..run - 1}
        stored  == [j \in 1..run |-> r.sliding_window[(tail + j - 1) % n]]
        all     == data \o stored
    IN  [r |-> [r EXCEPT
                  !.bytes_pending = @ - ClearedCount(r, tail) - run,
                  !.bitmap = unset(cleared, slots),
                  !.first_unassembled = tail + run],
         output |-> push(output, SubSeq(all, r.first_unassembled - first_index + 1,
                                        Len(all)))]

\* Line 67: the indices of the data that are not stored yet.
NewSlots(r, first_index, tail) ==
    {i \in first_index..tail - 1 : ~get(r.bitmap, i % r.buffer_size)}

\* Lines 63-73: the data lies ahead of a gap.
Store(r, output, first_index, data, tail) ==
    LET n   == r.buffer_size
        new == NewSlots(r, first_index, tail)
    IN  [r |-> [r EXCEPT
                  !.bytes_pending = @ + Cardinality(new),
                  !.bitmap = set(@, {i % n : i \in new}),
                  !.sliding_window = [w \in DOMAIN @ |->
                      IF \E i \in new : i % n = w
                        THEN data[(CHOOSE i \in new : i % n = w) - first_index + 1]
                        ELSE @[w]]],
         output |-> output]

\* Lines 18-22: the scope guard runs on every way out of insert.
CloseAtEnd(res) ==
    IF res.r.reach_end /\ res.r.bytes_pending = 0
      THEN [res EXCEPT !.output = close(@)] ELSE res

\* A plausible slip: data that the stream has already got is not left out.
MutantDiscards(r, first_index, tail) == first_index >= tail

\* Lines 27-30.
Discards(r, first_index, tail) ==
    first_index >= tail \/ r.first_unassembled >= tail

\* Reassembler::insert: the reassembler and the stream it leaves behind.
insert(r0, output, first_index, data, is_last) ==
    LET r    == SizeWindow(MarkEnd(r0, is_last), output)
        tail == DataTail(r, output, first_index, data)
    IN  CloseAtEnd(
          IF Discards(r, first_index, tail) THEN [r |-> r, output |-> output]
          ELSE IF first_index <= r.first_unassembled
                 THEN Assemble(r, output, first_index, data, tail)
                 ELSE Store(r, output, first_index, data, tail))
==============================================================================
