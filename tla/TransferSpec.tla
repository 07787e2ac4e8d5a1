----------------------------- MODULE TransferSpec -----------------------------
(***************************************************************************)
(* What one direction of a connection promises to the applications at its  *)
(* ends, whatever the network does: the reader finds the bytes that were   *)
(* written, in order, once each and never more of them than it has room    *)
(* for, then the end of the stream, and it does get there.  The bytes are  *)
(* the numbers from 0 to StreamLen - 1.                                    *)
(***************************************************************************)
EXTENDS Naturals, Sequences

CONSTANTS StreamLen,   \* number of bytes written
          Capacity     \* room for bytes that have not been read

VARIABLES closed,      \* the writer has ended the stream
          queue,       \* bytes that wait to be read
          read,        \* number of bytes read
          finished     \* the reader has been told of the end

vars == <<closed, queue, read, finished>>

Init == closed = FALSE /\ queue = <<>> /\ read = 0 /\ finished = FALSE

Close == closed' = TRUE /\ UNCHANGED <<queue, read, finished>>

\* The next k bytes arrive, and with the last of them perhaps the end.
Deliver(k) ==
    LET arrived == read + Len(queue)
    IN  /\ arrived + k <= StreamLen /\ Len(queue) + k <= Capacity
        /\ queue' = queue \o [i \in 1..k |-> arrived + i - 1]
        /\ finished' \in {finished, TRUE}
        /\ finished' => closed /\ arrived + k = StreamLen
        /\ UNCHANGED <<closed, read>>

Read ==
    \E k \in 1..Len(queue) :
        /\ queue' = SubSeq(queue, k + 1, Len(queue))
        /\ read' = read + k
        /\ UNCHANGED <<closed, finished>>

Next == Close \/ (\E k \in 0..StreamLen : Deliver(k)) \/ Read

SafeSpec == Init /\ [][Next]_vars

Complete == <>[](finished /\ read = StreamLen)

Spec == SafeSpec /\ Complete

==============================================================================
