--------------------------- MODULE ByteStreamProofs ---------------------------
(***************************************************************************)
(* Proofs about module ByteStream, for every capacity, alphabet and set of *)
(* strings: the indices stay inside the array, the array never grows, no   *)
(* byte is lost or invented, and the flat buffer implements the bounded    *)
(* FIFO of ByteQueueSpec.                                                  *)
(***************************************************************************)
EXTENDS ByteStream, TLAPS

USE CapacityAssumption, ChunkAssumption, MaxBytesAssumption

\* The conjunction that is inductive: none of the parts is inductive alone.
\* ArrayNeverGrows needs the index bounds to rule the resize out, the bounds
\* need the array's length.
Inv == TypeOK /\ IndicesInBounds /\ ArrayNeverGrows /\ BytesConserved

\* memcpy changes no length and yields an array of chars again.
LEMMA WriteType ==
    ASSUME NEW arr \in Seq(Byte \union {Zero}), NEW data \in Seq(Byte),
           NEW at \in Nat, NEW n \in Nat, n <= Len(data)
    PROVE  /\ Write(arr, at, data, n) \in Seq(Byte \union {Zero})
           /\ Len(Write(arr, at, data, n)) = Len(arr)
  <1>1. \A i \in 1..Len(arr) :
           (IF at < i /\ i <= at + n THEN data[i - at] ELSE arr[i])
              \in Byte \union {Zero}
    OBVIOUS
  <1> QED BY <1>1 DEF Write

\* Writer::push clips the write to what is available, so Buffer::push never
\* asks for a resize.
LEMMA NoGrowth ==
    ASSUME Inv, NEW n \in Nat, n <= availableCapacity
    PROVE  GrownSize(n) = Len(array)
  BY DEF Inv, TypeOK, IndicesInBounds, ArrayNeverGrows, GrownSize,
         availableCapacity, bytesBuffered

\* Moving the unread bytes to the front keeps the array an array of chars.
LEMMA CompactedType ==
    ASSUME Inv
    PROVE  /\ Compacted(Len(array)) \in Seq(Byte \union {Zero})
           /\ Len(Compacted(Len(array))) = Len(array)
  <1>1. \A i \in 1..Len(array) :
           (IF i <= bytesBuffered THEN array[i + read_index]
            ELSE IF i <= Len(array) THEN array[i] ELSE Zero)
              \in Byte \union {Zero}
    BY DEF Inv, TypeOK, IndicesInBounds, bytesBuffered
  <1> QED BY <1>1 DEF Compacted, Inv, TypeOK

\* A stream just made satisfies the invariant.
LEMMA InitInv == Init => Inv
  <1> SUFFICES ASSUME Init PROVE Inv
    OBVIOUS
  <1>1. array \in Seq(Byte \union {Zero}) /\ Len(array) = Capacity
    BY DEF Init
  <1>2. /\ write_index = 0 /\ read_index = 0 /\ bytes_pushed = 0
        /\ bytes_popped = 0 /\ closed = FALSE /\ error = FALSE
    BY DEF Init
  <1>3. closed \in BOOLEAN /\ error \in BOOLEAN
    BY <1>2
  <1>4. IndicesInBounds /\ ArrayNeverGrows /\ BytesConserved
    BY <1>1, <1>2 DEF IndicesInBounds, ArrayNeverGrows, BytesConserved,
                      bytesBuffered
  <1> QED
    BY <1>1, <1>2, <1>3, <1>4 DEF Inv, TypeOK

\* The three cases of Buffer::push inside Writer::push.
LEMMA PushInv == ASSUME Inv, NEW data \in Chunk, Push(data) PROVE Inv'
  <1> DEFINE n == Smaller(Len(data), availableCapacity)
  <1>1. /\ data \in Seq(Byte) /\ n \in Nat
        /\ n <= Len(data) /\ n <= availableCapacity
    BY DEF Inv, TypeOK, IndicesInBounds, availableCapacity, bytesBuffered,
           Smaller
  <1>2. /\ bytes_pushed' = bytes_pushed + n
        /\ UNCHANGED <<closed, error, bytes_popped>>
        /\ BufferNothing(n) \/ BufferAtTail(data, n) \/ BufferMoved(data, n)
    BY DEF Push
  <1> HIDE DEF n
  <1>3. CASE BufferNothing(n)
    BY <1>1, <1>2, <1>3 DEF BufferNothing, buffer, Inv, TypeOK,
       IndicesInBounds, ArrayNeverGrows, BytesConserved, bytesBuffered
  <1>4. CASE BufferAtTail(data, n)
    <2>1. array' \in Seq(Byte \union {Zero}) /\ Len(array') = Len(array)
      BY <1>1, <1>4, WriteType DEF BufferAtTail, Inv, TypeOK
    <2> QED
      BY <1>1, <1>2, <1>4, <2>1 DEF BufferAtTail, Inv, TypeOK,
         IndicesInBounds, ArrayNeverGrows, BytesConserved, bytesBuffered,
         availableCapacity
  <1>5. CASE BufferMoved(data, n)
    <2>1. bytesBuffered \in Nat
      BY DEF Inv, TypeOK, IndicesInBounds, bytesBuffered
    <2>2. array' = Write(Compacted(Len(array)), bytesBuffered, data, n)
      BY <1>1, <1>5, NoGrowth DEF BufferMoved
    <2>3. array' \in Seq(Byte \union {Zero}) /\ Len(array') = Len(array)
      BY <1>1, <2>1, <2>2, CompactedType, WriteType
    <2> QED
      BY <1>1, <1>2, <1>5, <2>3 DEF BufferMoved, Inv, TypeOK,
         IndicesInBounds, ArrayNeverGrows, BytesConserved, bytesBuffered,
         availableCapacity
  <1> QED BY <1>2, <1>3, <1>4, <1>5

\* Reader::pop moves one index by at most what is buffered.
LEMMA PopInv == ASSUME Inv, NEW len \in Nat, Pop(len) PROVE Inv'
  BY DEF Inv, TypeOK, IndicesInBounds, ArrayNeverGrows, BytesConserved,
         bytesBuffered, Pop, Smaller

\* Every operation keeps the invariant.
LEMMA NextInv == Inv /\ [Next]_vars => Inv'
  <1> SUFFICES ASSUME Inv, [Next]_vars PROVE Inv'
    OBVIOUS
  <1>1. ASSUME NEW data \in Chunk, Push(data) PROVE Inv'
    BY <1>1, PushInv
  <1>2. ASSUME NEW len \in 0..Capacity + 1, Pop(len) PROVE Inv'
    BY <1>2, PopInv
  <1>3. CASE Close
    BY <1>3 DEF Close, buffer, Inv, TypeOK, IndicesInBounds, ArrayNeverGrows,
                BytesConserved, bytesBuffered
  <1>4. CASE SetError
    BY <1>4 DEF SetError, buffer, Inv, TypeOK, IndicesInBounds,
                ArrayNeverGrows, BytesConserved, bytesBuffered
  <1>5. CASE UNCHANGED vars
    BY <1>5 DEF vars, Inv, TypeOK, IndicesInBounds, ArrayNeverGrows,
                BytesConserved, bytesBuffered
  <1> QED BY <1>1, <1>2, <1>3, <1>4, <1>5 DEF Next

\* So it holds in every reachable state.
LEMMA Invariance == Spec => []Inv
  BY InitInv, NextInv, PTL DEF Spec

\* Every reachable ByteStream is well typed.
THEOREM TypeCorrect == Spec => []TypeOK
  BY Invariance, PTL DEF Inv

\* No sequence of pushes and pops moves an index outside the array or buffers
\* more than the capacity (Buffer::push, Buffer::pop).
THEOREM BoundsHold == Spec => []IndicesInBounds
  BY Invariance, PTL DEF Inv

\* The resize branch of Buffer::push is dead code, whatever the capacity.
THEOREM NeverResizes == Spec => []ArrayNeverGrows
  BY Invariance, PTL DEF Inv

\* The cumulative counters of Writer and Reader differ by what is buffered.
THEOREM Conservation == Spec => []BytesConserved
  BY Invariance, PTL DEF Inv
------------------------------------------------------------------------------
(* The refinement: each step of the flat buffer is a step of the queue.     *)

Stream == [capacity |-> Capacity, queue |-> Contents, closed |-> closed,
           error |-> error, bytes_pushed |-> bytes_pushed,
           bytes_popped |-> bytes_popped]

\* The difference of two counters, added to the smaller one, gives the larger.
LEMMA Difference ==
    \A a, b \in Nat : a <= b => b - a \in Nat /\ a + (b - a) = b
  OBVIOUS

\* Two sequences with the same length and the same elements are equal.
LEMMA SameSeq ==
    ASSUME NEW S, NEW s \in Seq(S), NEW t \in Seq(S), Len(s) = Len(t),
           \A i \in 1..Len(s) : s[i] = t[i]
    PROVE  s = t
  OBVIOUS

\* A region of the array, seen as a string.
LEMMA ViewType ==
    ASSUME NEW arr \in Seq(Byte \union {Zero}), NEW r \in Nat, NEW k \in Nat,
           r + k <= Len(arr)
    PROVE  /\ [i \in 1..k |-> arr[r + i]] \in Seq(Byte \union {Zero})
           /\ Len([i \in 1..k |-> arr[r + i]]) = k
           /\ \A j \in 1..k : [i \in 1..k |-> arr[r + i]][j] = arr[r + j]
  <1>1. \A i \in 1..k : arr[r + i] \in Byte \union {Zero}
    OBVIOUS
  <1> QED BY <1>1

\* Whichever case Buffer::push takes, the view grows by what was written.
LEMMA PushContents ==
    ASSUME Inv, Inv', NEW data \in Chunk, Push(data)
    PROVE  Contents' = Contents \o SubSeq(data, 1, Smaller(Len(data), availableCapacity))
  <1> DEFINE n == Smaller(Len(data), availableCapacity)
             old == Contents
             new == old \o SubSeq(data, 1, n)
  <1>1. /\ data \in Seq(Byte) /\ n \in Nat /\ bytesBuffered \in Nat
        /\ n <= Len(data) /\ n <= availableCapacity
    BY DEF Inv, TypeOK, IndicesInBounds, availableCapacity, bytesBuffered,
           Smaller
  <1>2. BufferNothing(n) \/ BufferAtTail(data, n) \/ BufferMoved(data, n)
    BY DEF Push
  <1> HIDE DEF n
  <1>3. /\ SubSeq(data, 1, n) \in Seq(Byte \union {Zero})
        /\ Len(SubSeq(data, 1, n)) = n
        /\ \A i \in 1..n : SubSeq(data, 1, n)[i] = data[i]
    BY <1>1
  <1>4. /\ old \in Seq(Byte \union {Zero})
        /\ Len(old) = bytesBuffered
        /\ \A i \in 1..bytesBuffered : old[i] = array[read_index + i]
    BY <1>1, ViewType DEF Contents, Inv, TypeOK, IndicesInBounds, bytesBuffered
  <1>5. /\ Contents' \in Seq(Byte \union {Zero})
        /\ Len(Contents') = bytesBuffered'
        /\ \A i \in 1..bytesBuffered' : Contents'[i] = (array')[read_index' + i]
    <2>1. /\ array' \in Seq(Byte \union {Zero}) /\ read_index' \in Nat
          /\ bytesBuffered' \in Nat /\ read_index' + bytesBuffered' <= Len(array')
      <3>1. TypeOK' /\ IndicesInBounds'
        BY DEF Inv
      <3>2. /\ array' \in Seq(Byte \union {Zero}) /\ read_index' \in Nat
            /\ write_index' \in Nat
        BY <3>1 DEF TypeOK
      <3> QED BY <3>1, <3>2, Difference DEF IndicesInBounds, bytesBuffered
    <2> QED BY <2>1, ViewType DEF Contents
  <1> HIDE DEF old
  <1>6. /\ new \in Seq(Byte \union {Zero})
        /\ Len(new) = bytesBuffered + n
        /\ \A i \in 1..bytesBuffered + n :
              new[i] = IF i <= bytesBuffered THEN array[read_index + i]
                                             ELSE data[i - bytesBuffered]
    BY <1>1, <1>3, <1>4
  <1>7. /\ bytesBuffered' = bytesBuffered + n
        /\ \A i \in 1..bytesBuffered + n :
              (array')[read_index' + i] =
                 IF i <= bytesBuffered THEN array[read_index + i]
                                       ELSE data[i - bytesBuffered]
    <2>1. CASE BufferNothing(n)
      BY <1>1, <2>1 DEF BufferNothing, buffer, bytesBuffered, Inv, TypeOK
    <2>2. CASE BufferAtTail(data, n)
      <3>1. array' = Write(array, write_index, data, n)
        BY <2>2 DEF BufferAtTail
      <3>2. \A i \in 1..Len(array) : (array')[i] =
              IF write_index < i /\ i <= write_index + n
                THEN data[i - write_index] ELSE array[i]
        BY <3>1 DEF Write
      <3>3. /\ read_index' = read_index /\ write_index' = write_index + n
            /\ write_index + n <= Len(array)
        BY <1>1, <2>2 DEF BufferAtTail, Inv, TypeOK
      <3> QED
        BY <1>1, <3>2, <3>3 DEF bytesBuffered, Inv, TypeOK, IndicesInBounds
    <2>3. CASE BufferMoved(data, n)
      <3>1. array' = Write(Compacted(Len(array)), bytesBuffered, data, n)
        BY <1>1, <2>3, NoGrowth DEF BufferMoved
      <3>2. /\ Len(Compacted(Len(array))) = Len(array)
            /\ \A i \in 1..bytesBuffered :
                  Compacted(Len(array))[i] = array[i + read_index]
        BY CompactedType DEF Compacted, Inv, TypeOK, IndicesInBounds,
           bytesBuffered
      <3>3. bytesBuffered + n <= Len(array)
        BY <1>1 DEF availableCapacity, Inv, TypeOK, ArrayNeverGrows,
           IndicesInBounds, bytesBuffered
      <3> QED
        BY <1>1, <2>3, <3>1, <3>2, <3>3 DEF BufferMoved, Write, bytesBuffered,
           Inv, TypeOK, IndicesInBounds
    <2> QED BY <1>2, <2>1, <2>2, <2>3
  <1>8. Contents' = new
    BY <1>1, <1>5, <1>6, <1>7, SameSeq
  <1> QED BY <1>8 DEF n, old

\* Reader::pop drops a prefix of the view.
LEMMA PopContents ==
    ASSUME Inv, Inv', NEW len \in Nat, Pop(len)
    PROVE  Contents' = SubSeq(Contents, Smaller(len, bytesBuffered) + 1,
                              Len(Contents))
  <1> DEFINE n == Smaller(len, bytesBuffered)
             old == Contents
  <1>1. n \in Nat /\ bytesBuffered \in Nat /\ n <= bytesBuffered
    BY DEF Inv, TypeOK, IndicesInBounds, bytesBuffered, Smaller
  <1>2. read_index' = read_index + n /\ array' = array /\ write_index' = write_index
    BY DEF Pop
  <1> HIDE DEF n
  <1>3. /\ old \in Seq(Byte \union {Zero})
        /\ Len(old) = bytesBuffered
        /\ \A i \in 1..bytesBuffered : old[i] = array[read_index + i]
    BY <1>1, ViewType DEF Contents, Inv, TypeOK, IndicesInBounds, bytesBuffered
  <1>4. /\ Contents' \in Seq(Byte \union {Zero})
        /\ Len(Contents') = bytesBuffered'
        /\ \A i \in 1..bytesBuffered' : Contents'[i] = (array')[read_index' + i]
    <2>1. /\ array' \in Seq(Byte \union {Zero}) /\ read_index' \in Nat
          /\ bytesBuffered' \in Nat /\ read_index' + bytesBuffered' <= Len(array')
      <3>1. TypeOK' /\ IndicesInBounds'
        BY DEF Inv
      <3>2. /\ array' \in Seq(Byte \union {Zero}) /\ read_index' \in Nat
            /\ write_index' \in Nat
        BY <3>1 DEF TypeOK
      <3> QED BY <3>1, <3>2, Difference DEF IndicesInBounds, bytesBuffered
    <2> QED BY <2>1, ViewType DEF Contents
  <1>5. bytesBuffered' = bytesBuffered - n
    BY <1>1, <1>2 DEF bytesBuffered, Inv, TypeOK
  <1> HIDE DEF old
  <1> DEFINE new == SubSeq(old, n + 1, Len(old))
  <1>6. /\ new \in Seq(Byte \union {Zero})
        /\ Len(new) = bytesBuffered - n
        /\ \A i \in 1..bytesBuffered - n : new[i] = old[n + i]
    BY <1>1, <1>3
  <1> HIDE DEF new
  <1>7. \A i \in 1..bytesBuffered - n : new[i] = array[read_index + n + i]
    <2> SUFFICES ASSUME NEW i \in 1..bytesBuffered - n
                 PROVE  new[i] = array[read_index + n + i]
      OBVIOUS
    <2>1. n + i \in 1..bytesBuffered /\ new[i] = old[n + i]
      BY <1>1, <1>6
    <2>2. read_index + (n + i) = read_index + n + i
      BY <1>1 DEF Inv, TypeOK
    <2> QED BY <1>3, <2>1, <2>2
  <1>8. Contents' = new
    BY <1>1, <1>2, <1>4, <1>5, <1>6, <1>7, SameSeq DEF Inv, TypeOK
  <1> QED BY <1>8 DEF n, old, new

\* Two records with the same fields are equal.
LEMMA SameRecord ==
    ASSUME NEW f, NEW g, DOMAIN f = DOMAIN g,
           f = [i \in DOMAIN f |-> f[i]], g = [i \in DOMAIN g |-> g[i]],
           \A i \in DOMAIN f : f[i] = g[i]
    PROVE  f = g
  OBVIOUS

StreamRecord(q, cl, e, pu, po) ==
    [capacity |-> Capacity, queue |-> q, closed |-> cl, error |-> e,
     bytes_pushed |-> pu, bytes_popped |-> po]

\* The update that Writer::push makes to a stream record, field by field.
LEMMA PushUpdate ==
    ASSUME NEW q, NEW cl, NEW e, NEW pu, NEW po, NEW x, NEW y
    PROVE  [StreamRecord(q, cl, e, pu, po) EXCEPT !.queue = x, !.bytes_pushed = y]
             = StreamRecord(x, cl, e, y, po)
  <1> DEFINE f == [StreamRecord(q, cl, e, pu, po)
                     EXCEPT !.queue = x, !.bytes_pushed = y]
             g == StreamRecord(x, cl, e, y, po)
             D == {"capacity", "queue", "closed", "error", "bytes_pushed",
                   "bytes_popped"}
  <1>1. DOMAIN f = D /\ DOMAIN g = D
    BY DEF StreamRecord
  <1>2. f = [i \in DOMAIN f |-> f[i]] /\ g = [i \in DOMAIN g |-> g[i]]
    BY DEF StreamRecord
  <1>3. /\ f.capacity = g.capacity /\ f.queue = g.queue
        /\ f.closed = g.closed /\ f.error = g.error
        /\ f.bytes_pushed = g.bytes_pushed /\ f.bytes_popped = g.bytes_popped
    BY DEF StreamRecord
  <1> HIDE DEF f, g
  <1>4. f = g
    BY <1>1, <1>2, <1>3, SameRecord
  <1> QED BY <1>4 DEF f, g

\* The update that Reader::pop makes.
LEMMA PopUpdate ==
    ASSUME NEW q, NEW cl, NEW e, NEW pu, NEW po, NEW x, NEW y
    PROVE  [StreamRecord(q, cl, e, pu, po) EXCEPT !.queue = x, !.bytes_popped = y]
             = StreamRecord(x, cl, e, pu, y)
  <1> DEFINE f == [StreamRecord(q, cl, e, pu, po)
                     EXCEPT !.queue = x, !.bytes_popped = y]
             g == StreamRecord(x, cl, e, pu, y)
             D == {"capacity", "queue", "closed", "error", "bytes_pushed",
                   "bytes_popped"}
  <1>1. DOMAIN f = D /\ DOMAIN g = D
    BY DEF StreamRecord
  <1>2. f = [i \in DOMAIN f |-> f[i]] /\ g = [i \in DOMAIN g |-> g[i]]
    BY DEF StreamRecord
  <1>3. /\ f.capacity = g.capacity /\ f.queue = g.queue
        /\ f.closed = g.closed /\ f.error = g.error
        /\ f.bytes_pushed = g.bytes_pushed /\ f.bytes_popped = g.bytes_popped
    BY DEF StreamRecord
  <1> HIDE DEF f, g
  <1>4. f = g
    BY <1>1, <1>2, <1>3, SameRecord
  <1> QED BY <1>4 DEF f, g

\* The update of Writer::close.
LEMMA CloseUpdate ==
    ASSUME NEW q, NEW cl, NEW e, NEW pu, NEW po, NEW x
    PROVE  [StreamRecord(q, cl, e, pu, po) EXCEPT !.closed = x]
             = StreamRecord(q, x, e, pu, po)
  BY DEF StreamRecord

\* The update of Writer::set_error.
LEMMA ErrorUpdate ==
    ASSUME NEW q, NEW cl, NEW e, NEW pu, NEW po, NEW x
    PROVE  [StreamRecord(q, cl, e, pu, po) EXCEPT !.error = x]
             = StreamRecord(q, cl, x, pu, po)
  BY DEF StreamRecord

\* A new buffer is an empty queue.
LEMMA InitRefines == Init => Queue!Init
  <1> SUFFICES ASSUME Init PROVE Contents = <<>>
    BY DEF Init, Queue!Init, Queue!NewStream
  <1> QED BY DEF Init, Contents, bytesBuffered

\* Every operation on the buffer is that of the queue, or a stutter.
LEMMA NextRefines == Inv /\ Inv' /\ [Next]_vars => [Queue!Next]_Stream
  <1> SUFFICES ASSUME Inv, Inv', [Next]_vars PROVE [Queue!Next]_Stream
    OBVIOUS
  <1>0. Len(Contents) = bytesBuffered
    BY ViewType DEF Contents, Inv, TypeOK, IndicesInBounds, bytesBuffered
  <1>1. ASSUME NEW data \in Chunk, Push(data) PROVE Queue!Push
    <2> DEFINE n == Smaller(Len(data), availableCapacity)
               new == Contents \o SubSeq(data, 1, n)
    <2>1. Stream' = StreamRecord(new, closed, error, bytes_pushed + n, bytes_popped)
      BY <1>1, PushContents DEF Push, Stream, StreamRecord
    <2>2. Queue!push(Stream, data) =
            [Stream EXCEPT !.queue = new, !.bytes_pushed = bytes_pushed + n]
      BY <1>0 DEF Queue!push, Queue!available_capacity, Queue!bytes_buffered,
         Queue!Smaller, Smaller, availableCapacity, Stream
    <2>3. Stream' = Queue!push(Stream, data)
      BY <2>1, <2>2, PushUpdate DEF Stream, StreamRecord
    <2> QED BY <1>1, <2>3 DEF Queue!Push, Stream, Push
  <1>2. ASSUME NEW len \in 0..Capacity + 1, Pop(len) PROVE Queue!Pop
    <2> DEFINE n == Smaller(len, bytesBuffered)
               new == SubSeq(Contents, n + 1, Len(Contents))
    <2>1. Stream' = StreamRecord(new, closed, error, bytes_pushed, bytes_popped + n)
      <3>1. Contents' = new
        BY <1>2, PopContents
      <3>2. /\ bytes_popped' = bytes_popped + n
            /\ UNCHANGED <<closed, error, bytes_pushed>>
        BY <1>2 DEF Pop
      <3> HIDE DEF n, new
      <3> QED BY <3>1, <3>2 DEF Stream, StreamRecord
    <2>2. Queue!pop(Stream, len) =
            [Stream EXCEPT !.queue = new, !.bytes_popped = bytes_popped + n]
      BY <1>0 DEF Queue!pop, Queue!bytes_buffered, Queue!Smaller, Smaller,
         Stream
    <2>3. Stream' = Queue!pop(Stream, len)
      BY <2>1, <2>2, PopUpdate DEF Stream, StreamRecord
    <2> QED BY <2>3 DEF Queue!Pop, Stream
  <1>3. ASSUME Close PROVE Queue!Close
    <2>1. Contents' = Contents
      BY <1>3 DEF Close, buffer, Contents, bytesBuffered
    <2>2. Stream' = StreamRecord(Contents, TRUE, error, bytes_pushed, bytes_popped)
      BY <1>3, <2>1 DEF Close, Stream, StreamRecord
    <2>3. Stream' = [Stream EXCEPT !.closed = TRUE]
      <3>1. Stream = StreamRecord(Contents, closed, error, bytes_pushed, bytes_popped)
        BY DEF Stream, StreamRecord
      <3>2. \A x : [Stream EXCEPT !.closed = x]
                    = StreamRecord(Contents, x, error, bytes_pushed, bytes_popped)
        BY <3>1, CloseUpdate
      <3> QED BY <2>2, <3>2, Zenon
    <2> QED BY <2>3 DEF Queue!Close, Queue!close, Stream
  <1>4. ASSUME SetError PROVE Queue!SetError
    <2>1. Contents' = Contents
      BY <1>4 DEF SetError, buffer, Contents, bytesBuffered
    <2>2. Stream' = StreamRecord(Contents, closed, TRUE, bytes_pushed, bytes_popped)
      BY <1>4, <2>1 DEF SetError, Stream, StreamRecord
    <2>3. Stream' = [Stream EXCEPT !.error = TRUE]
      <3>1. Stream = StreamRecord(Contents, closed, error, bytes_pushed, bytes_popped)
        BY DEF Stream, StreamRecord
      <3>2. \A x : [Stream EXCEPT !.error = x]
                    = StreamRecord(Contents, closed, x, bytes_pushed, bytes_popped)
        BY <3>1, ErrorUpdate
      <3> QED BY <2>2, <3>2, Zenon
    <2> QED BY <2>3 DEF Queue!SetError, Queue!set_error, Stream
  <1>5. CASE UNCHANGED vars
    BY <1>5 DEF vars, Stream, Contents, bytesBuffered
  <1> QED BY <1>1, <1>2, <1>3, <1>4, <1>5 DEF Next, Queue!Next

\* Writer and Reader over the flat buffer behave as a bounded FIFO
\* (Buffer::push, Buffer::pop, toStringView), for every capacity and alphabet.
THEOREM Refinement == Spec => ImplementsQueue
  BY InitRefines, NextRefines, Invariance, PTL
       DEF Spec, ImplementsQueue, Queue!Spec, Stream
==============================================================================
