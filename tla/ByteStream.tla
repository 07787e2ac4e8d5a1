------------------------------ MODULE ByteStream ------------------------------
(***************************************************************************)
(* ByteStream as it is built (src/src/byte_stream.hh): one flat array with *)
(* a read and a write index.  A push that does not fit behind the write    *)
(* index first grows the array, if even the room in front of the read      *)
(* index would not help, and moves the unread bytes to the front.          *)
(*                                                                         *)
(* array_[k] of the code is array[k + 1] here; both indices keep their     *)
(* values.  The two bits of flags_ are the variables closed and error.     *)
(***************************************************************************)
EXTENDS Integers, Sequences

CONSTANTS Capacity,   \* capacity_, the constructor's argument
          Byte,       \* values of a char
          Zero,       \* the char a std::vector value-initialises to
          Chunk,      \* the strings a writer may push
          MaxBytes    \* bound on bytes_pushed, for TLC

ASSUME CapacityAssumption == Capacity \in Nat
ASSUME ChunkAssumption == Chunk \subseteq Seq(Byte)
ASSUME MaxBytesAssumption == MaxBytes \in Nat

VARIABLES array, write_index, read_index, closed, error,
          bytes_pushed, bytes_popped

buffer == <<array, write_index, read_index>>
vars == <<array, write_index, read_index, closed, error,
          bytes_pushed, bytes_popped>>

Smaller(a, b) == IF a <= b THEN a ELSE b

bytesBuffered == write_index - read_index

\* A plausible slip: room for one byte that does not exist.
MutantAvailableCapacity == Capacity - bytesBuffered + 1

availableCapacity == Capacity - bytesBuffered

\* toStringView(), which is what Reader::peek returns.
Contents == [i \in 1..bytesBuffered |-> array[read_index + i]]

\* memcpy of the first n bytes of data to position `at` of arr.
Write(arr, at, data, n) ==
    [i \in 1..Len(arr) |->
        IF at < i /\ i <= at + n THEN data[i - at] ELSE arr[i]]

\* A plausible slip: the array grows, but the bytes stay where they are.
MutantCompacted(size) ==
    [i \in 1..size |-> IF i <= Len(array) THEN array[i] ELSE Zero]

\* The array, resized to `size`, with the unread bytes moved to its front.
\* The copy of lines 65-71 leaves the bytes behind them as they were.
Compacted(size) ==
    [i \in 1..size |-> IF i <= bytesBuffered THEN array[i + read_index]
                       ELSE IF i <= Len(array) THEN array[i] ELSE Zero]

\* A plausible slip: the array grows when there is no room behind the bytes, although
\* there is room in front of them.
MutantGrownSize(n) ==
    IF Len(array) - write_index < n
      THEN 4 * Len(array) ELSE Len(array)

\* array_.size() after the resize that a push of n bytes may ask for.
GrownSize(n) ==
    IF read_index + (Len(array) - write_index) < n
      THEN 4 * Len(array) ELSE Len(array)

\* Buffer::push, the case of nothing to write.
BufferNothing(n) == n = 0 /\ UNCHANGED buffer

\* Buffer::push, the bytes fit behind write_index.
BufferAtTail(data, n) ==
    /\ n > 0
    /\ Len(array) - write_index >= n
    /\ array' = Write(array, write_index, data, n)
    /\ write_index' = write_index + n
    /\ UNCHANGED read_index

\* Buffer::push, the unread bytes move to the front first.
BufferMoved(data, n) ==
    /\ n > 0
    /\ Len(array) - write_index < n
    /\ array' = Write(Compacted(GrownSize(n)), bytesBuffered, data, n)
    /\ write_index' = bytesBuffered + n
    /\ read_index' = 0

Init ==
    /\ array = [i \in 1..Capacity |-> Zero]
    /\ write_index = 0 /\ read_index = 0
    /\ closed = FALSE /\ error = FALSE
    /\ bytes_pushed = 0 /\ bytes_popped = 0

\* Writer::push
Push(data) ==
    LET len_pushed == Smaller(Len(data), availableCapacity)
    IN  /\ bytes_pushed + Len(data) <= MaxBytes
        /\ bytes_pushed' = bytes_pushed + len_pushed
        /\ \/ BufferNothing(len_pushed)
           \/ BufferAtTail(data, len_pushed)
           \/ BufferMoved(data, len_pushed)
        /\ UNCHANGED <<closed, error, bytes_popped>>

\* Reader::pop
Pop(len) ==
    LET len_popped == Smaller(len, bytesBuffered)
    IN  /\ bytes_popped' = bytes_popped + len_popped
        /\ read_index' = read_index + len_popped
        /\ UNCHANGED <<array, write_index, closed, error, bytes_pushed>>

\* Writer::close
Close ==
    /\ closed' = TRUE
    /\ UNCHANGED <<buffer, error, bytes_pushed, bytes_popped>>

\* Writer::set_error
SetError ==
    /\ error' = TRUE
    /\ UNCHANGED <<buffer, closed, bytes_pushed, bytes_popped>>

Next ==
    \/ \E data \in Chunk : Push(data)
    \/ \E len \in 0..Capacity + 1 : Pop(len)
    \/ Close
    \/ SetError

Spec == Init /\ [][Next]_vars

------------------------------------------------------------------------------
\* What the fields of the stream and of its buffer hold.
TypeOK ==
    /\ array \in Seq(Byte \union {Zero})
    /\ write_index \in Nat /\ read_index \in Nat
    /\ closed \in BOOLEAN /\ error \in BOOLEAN
    /\ bytes_pushed \in Nat /\ bytes_popped \in Nat

\* The two indices delimit a region of the array: no memcpy of Buffer::push
\* and no string_view of Reader::peek reaches outside it, and no more than
\* the capacity is ever buffered.
IndicesInBounds ==
    /\ read_index <= write_index
    /\ write_index <= Len(array)
    /\ bytesBuffered <= Capacity

\* The resize branch of Buffer::push never runs: Writer::push clips every
\* write to the available capacity, so the room before read_index and behind
\* write_index is always enough, however pushes and pops alternate.
ArrayNeverGrows == Len(array) = Capacity

\* Every byte counted as pushed is either counted as popped or still there.
BytesConserved == bytes_pushed = bytes_popped + bytesBuffered

\* The flat buffer is a bounded FIFO: peek shows exactly the bytes pushed and
\* not popped, in order, across every move to the front of the array.
Queue == INSTANCE ByteQueueSpec WITH
    stream <- [capacity |-> Capacity, queue |-> Contents, closed |-> closed,
               error |-> error, bytes_pushed |-> bytes_pushed,
               bytes_popped |-> bytes_popped]

ImplementsQueue == Queue!Spec
==============================================================================
