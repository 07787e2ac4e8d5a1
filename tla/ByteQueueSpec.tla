---------------------------- MODULE ByteQueueSpec ----------------------------
(***************************************************************************)
(* The abstract specification of a ByteStream: a bounded FIFO that a       *)
(* writer and a reader share.  Module ByteStream is shown to implement it. *)
(***************************************************************************)
EXTENDS ByteQueue

CONSTANTS Capacity,   \* capacity_ of the stream
          Chunk,      \* the strings a writer may push
          MaxBytes    \* bound on bytes_pushed, for TLC

VARIABLE stream

Init == stream = NewStream(Capacity)

Push == \E data \in Chunk : /\ stream.bytes_pushed + Len(data) <= MaxBytes
                            /\ stream' = push(stream, data)

Pop == \E len \in 0..Capacity + 1 : stream' = pop(stream, len)

Close == stream' = close(stream)

SetError == stream' = set_error(stream)

Next == Push \/ Pop \/ Close \/ SetError

Spec == Init /\ [][Next]_stream
==============================================================================
