# A TLA+ model of the network stack

The repository is a TCP/IP stack for learning: a byte stream, a reassembler, a
TCP receiver and sender, a network interface with ARP, and a router. These
modules model it from its source; TLC checks them on small instances, and
TLAPS proves theorems about the parts marked below. All paths are relative to
the root of the repository.

Contents: 1 inventory, 2 modules, 3 runs and bounds, 4 fairness, 5 proofs,
6 where code and documentation disagree, 7 what is not modelled, 8 plan.

## 1. Inventory

| Component | State | Operations | Who calls it |
|---|---|---|---|
| `ByteStream` (`src/byte_stream.hh/.cc`) | flat array, read and write index, two flag bits, bytes pushed and popped | `Writer::push/close/set_error`, `Reader::peek/pop`, accessors; helper `read` | Reassembler writes, TCPSender reads, application at the other end |
| `Wrap32` (`src/wrapping_integers.*`) | one 32-bit value | `wrap`, `unwrap`, `operator+` | receiver and sender, at every message |
| `Bitmap` (`util/bitmap.hpp`) | vector of 32-bit blocks | `resize`, `set`, `unset`, `get`, `getPopCountAndUnsetBatch` | Reassembler |
| `Reassembler` (`src/reassembler.*`) | first unassembled index, ring window, bitmap, pending count, end flag | `insert`, with a scope guard that may close the stream on every way out | TCPReceiver |
| `TCPReceiver` (`src/tcp_receiver.*`) | initial sequence number, copy of the first unassembled index, two FIN flags | `receive`, `send` | owner of the connection |
| `TCPSender`, `Timer` (`src/tcp_sender.*`) | unsent and unacked queues, two counters, next sequence number, window, SYN/FIN/zero-window flags, timer with its doubling timeout | `push`, `maybe_send`, `receive`, `tick`, `send_empty_message` | owner of the connection |
| `NetworkInterface` (`src/network_interface.*`) | frames to send, ARP table of raw pointers into two time queues, datagrams pending for ARP, clock | `send_datagram`, `recv_frame`, `tick`, `maybe_send` | host or Router |
| `Router`, `AsyncNetworkInterface` (`src/router.*`) | vector of interfaces with queues of received datagrams, table of routes by interface | `add_interface`, `add_route`, `route`, `recv_frame`, `maybe_receive` | owner of the router |
| Headers (`util/ipv4_*`, `arp_message.*`, `ethernet_*`) | fields | `parse`, `serialize`, `compute_checksum` | NetworkInterface |
| Parser, Serializer, Buffer, InternetChecksum (`util/`) | list of buffers with a cursor, sticky error flag; working buffer; running sum and parity | `integer`, `remove_prefix`, `all_remaining`, `buffer`, `output`, `add`, `value` | headers |
| FileDescriptor, Socket (`util/`) | counted wrapper of a number, with eof, closed and blocking flags | `read`, `write`, `close`, `duplicate`, `set_blocking`, `shutdown`, `accept` | `webget` |
| `webget` (`apps/webget.cc`) | one socket, the response | `get_URL`, `main` | user |
| Addresses, random, exceptions | | arguments of system calls | tests, sockets |

Everything is single-threaded, and an object calls only the objects below it:
receiver, Reassembler, Bitmap and ByteStream; sender and ByteStream; router and
interfaces. What makes the code hard is therefore not preemption but the *order
of calls* and what happens between them: the network reorders, loses and
repeats; the owner may call `tick` again before `maybe_send`; a reader lags
while the window moves under stored bytes; entries expire while datagrams wait
for them; interfaces and routes are added in any order; bytes arrive in other
buffers than they left in, damaged or cut off; the kernel gives a descriptor's
number out again as soon as it is closed. The hazards, each at its line, are in
`PROJECT.json`.

The components and what makes each of them correct:

* ByteStream: a bounded FIFO; no index leaves the array.
* Wrap32: `unwrap` returns a closest position, never below zero.
* Reassembler: the stream that comes out is the one that went in; window,
  bitmap and count agree; nothing within the capacity is forgotten; the stream
  is closed when it is complete.
* TCPReceiver: acknowledgment and window follow the stream and never go back.
* TCPSender: what is outstanding covers the sequence numbers without gap or
  overlap; the timer runs exactly while something is unacknowledged; the window
  is respected; the FIN is at the end and is not lost.
* Connection: what is read is what was written; the sender forgets nothing the
  receiver lacks; a transfer over a lossy network ends.
* NetworkInterface: table and time queues in step, nothing outlives its time,
  requests are spaced, each accepted datagram leaves once, in order, for the
  right host.
* Router: longest prefix, one copy, ttl at least one, no datagram left behind.
* Network: a datagram arrives at most once, at the host the routes lead to, and
  does arrive unless it is given up or a frame is lost.
* Headers, Parser, checksum: what is serialized is what is parsed, through any
  buffers; a header that was damaged or cut off is not accepted.
* Descriptors, webget: one responsible wrapper for each open file, an exact eof
  flag, and a program that prints the whole response and exits.

## 2. Modules

| Module | Models | Uses |
|---|---|---|
| `ByteQueue` | the stream's interface as operators on a record | |
| `ByteQueueSpec` | abstract specification: a bounded FIFO with two flags and two counters | ByteQueue |
| `ByteStream`, `MCByteStream` | the flat buffer: three cases of `Buffer::push`, move to the front, growth | refines ByteQueueSpec |
| `WrappingIntegers` | `Wrap32` for a word of `2 * HalfWord` values | |
| `SeqnoConversion` | the calls of `unwrap` while the checkpoint advances | WrappingIntegers |
| `Bitmap` | blocks as sets of positions, masks as sets, `&` as intersection | |
| `ReassemblerOps` | `Reassembler::insert`, one operator per branch | Bitmap, ByteQueue |
| `ReassemblerSpec` | abstract specification: the set of bytes known, cut to the capacity | |
| `Reassembler` | a Reassembler, a stream and a reader | ReassemblerOps, refines ReassemblerSpec |
| `TCPReceiverOps`, `TCPReceiver` | `receive` and `send`; any segments of one connection | extends Reassembler, whose state is part of its own; WrappingIntegers |
| `TCPSenderOps`, `TCPSender` | the sender and its Timer; owner, application and acknowledgments | ByteQueue, WrappingIntegers |
| `TransferSpec` | abstract specification: a reliable byte stream with an end | |
| `TCPTransfer` | sender, network, receiver and reader composed | extends TCPReceiver, instance of TCPSenderOps; refines TransferSpec |
| `NetworkInterfaceOps`, `NetworkInterface`, `MCNetworkInterface` | the ARP machinery; hosts that answer late, twice, unasked, or move | |
| `Router`, `MCRouter` | a router with its interfaces | NetworkInterfaceOps |
| `DatagramNet` | abstract specification: datagrams arrive at most once, where the routes lead, or are lost | |
| `Lan`, `MCLan` | hosts on both sides of a router, frames broadcast on each network, time, loss | Router, refines DatagramNet |
| `Parsing` | `BufferList`, `Parser`, `Serializer` over sequences of bytes | |
| `InternetChecksum` | the sum with its parity, folding of the carries | Parsing |
| `Headers` | layout, `parse` and `serialize` of the IPv4, Ethernet and ARP structs | InternetChecksum |
| `Wire`, `MCWire` | a datagram or an ARP message on its way: serialized, cut into pieces, damaged or truncated, parsed, forwarded | Headers |
| `Descriptors` | FileDescriptor and TCPSocket over a kernel that reuses numbers | |
| `Webget` | `get_URL` and `main`, and the server | Descriptors |
| `ByteStreamProofs`, `SeqnoConversionProofs`, `NetworkInterfaceProofs`, `TCPSenderProofs`, `RouterProofs` | the theorems about the module of the same name | |
| `DescriptorsProofs` | the theorems about `Descriptors` and `Webget` | |
| `ReassemblerProofs` | the theorems about `Reassembler`, and about `TCPReceiver` and `TCPTransfer`, which extend it | TCPSenderProofs, SeqnoConversionProofs |
| `InductionLemmas` | induction over the natural numbers in a form the provers can use | |

A module `XOps` holds the handlers of a class as operators on a record whose
fields are the private members, so that both the module `X` and the
compositions use the same handler. Where a composition extends a module, its own
initial states, next-state relation and specification have names of their own
(`ReceiverSpec`, `ConnectionSpec`). One action of `X` is one whole call,
with every state change the code makes in it. State corresponds field by field;
names are the source's without the trailing underscore. Conventions:

* A byte is its own index in the stream in the modules above ByteStream, so a
  byte in a wrong place is visible.
* `std::nullopt` and `nullptr` are the model values `None`, `NoHop`, `NoNode`.
* Loops over a queue become `CHOOSE` of the number of rounds.
* `uint32_t` counters are taken modulo `Word`, stream indices modulo `Wide`.
  Absolute sequence numbers (`uint64_t`) are naturals: no stream is that long.
* The pointer of an ARP entry is the node it points to. This is sound because
  nodes are never changed and a deque keeps references valid over `push_back`
  and `pop_front`. Copying an interface (which `vector` does when it grows,
  since the class is not nothrow-movable) turns them into `Dangling`.
* In Router and Lan a checksum is identified with the ttl it was computed over,
  the only header field that changes on the way. That this is right for
  undamaged datagrams is `Transparent` of Wire, where the checksum is computed.
* A byte of Wire has `Nibble * Nibble` values, 64 in the run: a word of 4096
  still holds both Ethernet types, and the sums of the checksum still carry.
* A call that throws changes nothing in Descriptors, unless the action says so.
* Each module with a `Mutant...` operator uses it nowhere: it is the plausible
  slip that shows the properties can fail.

Owners. The repository has no owner of a TCPSender beyond its tests. They send
the SYN before data and empty the queue with `maybe_send` after a call that may
fill it. `DrainedSpec` is the sender under such an owner, `SynFirstSpec` under
one that only sends the SYN first, and `Spec` under one that keeps to nothing.

## 3. Runs and bounds

| Run | Checks | Bounds, and why they are enough |
|---|---|---|
| `byte_stream` | indices in bounds, array never grows, refinement of the FIFO | capacity 3, strings up to 4 (longer than the capacity), 8 bytes: all three cases of `Buffer::push`, several moves. The theorems of section 5 cover every capacity. |
| `seqno` | inverse, closest, round trip | word of 8, checkpoint to 20: all values near zero and across two wraps. Also proved for every word. |
| `reassembler` | stream intact, window consistent, complete implies closed, refinement | capacity 5 over blocks of 2 (last one half used), 8 bytes, substrings to 4, which is the hypothesis of the theorems of section 5: the ring wraps, ranges span three blocks |
| `tcp_receiver` | acknowledgment matches stream and each byte is at its place, window never shrinks | word of 12 with 9 bytes from sequence number 10: numbers wrap; index below zero occurs |
| `tcp_sender` | seven properties of queues, counters, timer, FIN, window | 5 bytes, segments to 2, windows 0, 1, 3, 5, two backoffs; `DrainedSpec` |
| `tcp_transfer` | refinement of TransferSpec, acked is delivered, eventually finished | 3 bytes through a window of 2 that must be reopened, one loss or repetition, any reordering, except that the FIN neither overtakes data (`FinInOrder`) nor arrives before there is room for its bytes (`FinFits`; see 6). The word of 8 numbers is shorter than twice the stream with its SYN and FIN, which the theorems of section 5 do not allow |
| `network_interface` | pointers, expiry, order, spacing, nothing accepted is forgotten | two next hops, one of which changes its Ethernet address; three datagrams; mappings live 3 and requests 2 units, 4 units pass: both expire with datagrams waiting |
| `router` | longest prefix, forwarded once, eventually routed | two interfaces, three routes of lengths 0, 1 and 2, two of them added; two datagrams with ttl 1 or 2; addresses of two bits |
| `wire` | what is sent arrives, through any buffers; damage is noticed; no read from an empty view | three datagrams (one, three and no buffers of payload, one of them empty; fields at both ends of their ranges) and both kinds of ARP messages, up to three hops, every cut into three pieces, every byte of the header replaced by six others, every length cut off |
| `lan` | refinement of DatagramNet, every datagram arrives | three hosts on two networks, three routes with a default one, addresses of three bits, two datagrams with ttl 1 or 2, one unit of time, in which mappings and requests expire under way, one frame lost |
| `descriptor` | responsible wrapper, exact eof, complete response, webget exits | two files beside standard input, so that a number is given out twice; two handles each; reads of up to two bytes of a response of two |

Constants that only bound a run: `MaxBytes`, `MaxPosition`, `StreamLen`,
`MaxSegment`, `MaxRetx`, `MaxFaults`, `MaxDatagrams`, `MaxTime`, `Ticks`,
`MaxFrames`, `MaxRoutes`, `MaxHops`, `MaxLost`, `MaxFiles`, `MaxSent`. They
stand in guards of actions of the environment or of an owner, with one
exception: `MaxRetx` stops a `tick` that would expire once more. In TCPTransfer it
does so only while a message is still under way, so that it never stops the
transfer.

Type invariants (`TypeOK`) stand in the modules as a description of the state
and for the proofs, which contain them where there are any; no run spends time
on them.

Deadlock is checked everywhere except where the system really stops: a finished
transfer (`EventuallyFinished` says that it stops nowhere else), a datagram at
its destination (`wire`), a network at rest (`lan`, with `EventuallyArrives`),
and a program that has exited (`descriptor`, with `WebgetExits`).

## 4. Fairness

`tcp_transfer` (`FairSpec`): the owners call `maybe_send` and `tick` again and
again and the applications read and close (weak fairness); the network goes on
delivering segments, and acknowledgments that are infinitely often deliverable
(strong fairness, since each may have to wait for the sender's queue to be
emptied). A single message may still be lost, `MaxFaults` times in all. This is
what the interface asks of an owner: "Time has passed ... since the last time
the tick() method was called" (`src/tcp_sender.hh`), and the tests call
`maybe_send` until it returns nothing.

`router` (`FairSpec`): the owner keeps calling `route`, as the loop of
`tests/router.cc` does. Nothing is assumed of hosts, time or transmission.

`lan` (`FairLanSpec`): frames are exchanged on every network and `route` is
called again and again, as `simulate` does (`tests/router.cc:218-223`). Nothing
is assumed of time: `tick` may never come, or come between any two calls.

`descriptor` (`Spec`): webget goes on unless the kernel makes it wait, and the
server answers a complete request to the end. The connection may break instead;
nothing is assumed of other programs.

Some of the fairness conditions of the first three have the enabling condition
spelled out instead of `WF`; this is equivalent and much cheaper for TLC.

## 5. Proofs

Everything below is checked by TLAPS for all values of the constants.

`ByteStreamProofs` proves, from `Capacity \in Nat`, `Chunk \subseteq Seq(Byte)`
and `MaxBytes \in Nat`:

* `TypeCorrect`, `BoundsHold`, `NeverResizes`, `Conservation`: the type
  invariant and the three safety invariants. None of them is inductive alone:
  the bounds on the indices need to know the length of the array, and that the
  array never grows needs the bounds, because `Writer::push` clips a write to
  `capacity - (write - read)`, which is then at most the room before `read`
  plus the room behind `write`. The inductive invariant `Inv` is their
  conjunction. One lemma per action shows that it is preserved, with the three
  cases of `Buffer::push` below `PushInv`; `WriteType`, `NoGrowth` and
  `CompactedType` describe what the array operators return.
* `Refinement`: ByteStream implements ByteQueueSpec under the mapping of the
  array's window between the two indices to the queue. Each case of a push
  appends exactly the bytes taken, a move leaves the queue as it is, and a pop
  takes a prefix away.

`SeqnoConversionProofs` proves `InverseAlways`, `ClosestAlways` and
`RoundTripAlways` for every word size, from `HalfWord \in Nat \ {0}` and
`MaxPosition \in Nat`. The argument is about congruence modulo the word: the
value returned differs from the checkpoint by the difference of the raw values
or by that less a word, whichever is shorter, unless that is below zero.

`NetworkInterfaceProofs` assumes of the constants what the code fixes: positive
timeouts (`TimeoutsAssumption`), an address 0 that no host has and hosts other
than the interface (`AddressAssumption`, `HostsAssumption`), and a null that
points to no node (`NullAssumption`). Its theorems hold for any number of hosts,
datagrams and ticks.

* `TypeCorrect`, `PointersInStep`, `NothingTooOld` and `RightHost` come from one
  inductive invariant, `Inv`. `PointersMatchNodes` is not inductive: `tick`
  clears the entry a dropped node is for, which is right only if the pointer of
  that entry leads to that very node (`EntriesAgree`); and `NothingOutlivesItsTime`
  is not, because `tick` looks at the fronts of the queues only, which is enough
  only as long as they are in the order of their times (`QueuesTimely`).
* `EachInOrderOnce` needs, beside `Inv`, that no identity is used for two hosts
  (`OrderInv`): a frame or a waiting list moves as a whole, and what is behind
  in it must be younger. `AcceptedIsNeverLost` and `RequestsAreSpaced` are action
  properties; the second rests on `AskedIsKnown`: as long as a request is young,
  its entry still points at it.

`DescriptorsProofs` proves `DescriptorsAreOwned`, `EofIsTrue` and `WholeResponse`
for any set of descriptor numbers and any response, under the hypothesis
`Disciplined` that stands in `Webget.cfg` too: the program leaves closed
descriptors alone and a listening socket blocking (section 6 shows what happens
otherwise). `OwnsItsFile` with the types is nearly inductive; `EofMeansDone`
extends the meaning of the flag to wrappers nobody holds, and `WebgetInv` says at each step of `get_URL` what has been
opened, and that what was printed and what is under way make up what was sent.

`TCPSenderProofs` proves every property of the run `tcp_sender`, and
that `tick` never reads the front of an empty deque, under `DrainedSpec` for
every stream, segment size, word size, window and tick. The inductive invariant
`Coherent` gives each outstanding message an absolute position, which the code
never stores: `Laid` says that the messages of the two queues, in the order of
the stream (a message queued again is in front), lie one behind the other up to
`next_seqno`, with the bytes and flags of their places. Only with positions can
the loop of `receive`, which unwraps a sequence number at a time and stops at the
first one not covered, be shown to remove exactly a prefix. The counters, the FIN
and the timer follow from the positions (`QueueShape`, `ProgressInv`,
`TimerInv`). The theorems have the hypothesis `[]FlightFits`: what is in flight
fits into half the sequence space, without which `unwrap` takes a number for
another one. A window alone does not give this, since each further announcement
of a window of zero lets another byte out; but a stream whose bytes, SYN and FIN
fit into half the space cannot break it (`ShortStreamsFit`), so that for streams
of less than 2 GiB all of it holds without hypothesis (`ShortStreamsAreSafe`).

`RouterProofs` proves for any number of interfaces, routes, datagrams and ticks,
with addresses of any width (`WidthAssumption`, `RoutesAssumption`,
`NetworksAssumption`, `TrafficAssumption`), and a null and a dangling pointer that
differ from nodes and interface numbers (`NullAssumption`):

* `LookupIsLongest`: in any table, the two loops of `route` find a longest route
  that matches, and none only if there is none. It is an invariant of the loops
  over what has been seen so far (`Seen`), where a tie goes to the later route.
* `LongestAlways`: what `route` looks up is the longest match among all routes
  that were ever added. This has the hypothesis `~AnyRouteOrder` of `MCRouter.cfg`:
  otherwise `add_route` may drop rows, and only half of it is left, that
  the table holds nothing that was not added (`TableInv`).
* `EachForwardedOnce` and `RouterTypeCorrect`, in any order of routes and with
  interfaces added at any time. `ForwardedOnce` speaks of datagrams in two places;
  its inductive form, `Tracked`, also says that no identity is in two input
  queues or twice in one, that a datagram waiting for input still has its ttl,
  and that nothing has an identity that has not been given yet. The round of
  `route` that takes a datagram from a queue leaves its identity nowhere
  (`TrackedTaken`), which is what allows `send_datagram` to put it somewhere
  (`TrackedGrows`); that the interface looked up exists needs the table to have no
  more rows than there are interfaces. Each operation of the interface is one
  lemma about what it may send (`SendEffect`, `LearnEffect`, `TickEffect`, ...).

`ReassemblerProofs` proves `DeliversIntact`, `WindowAgrees`, `EndIsSeen` and
`TypeCorrect`, and with `Refinement` that the Reassembler implements
ReassemblerSpec, for every stream, capacity, block size and order of substrings.
From `BlockSizeAssumption` and `StreamAssumption` (sizes are naturals, and the
stream is shorter than 2^64) they need one hypothesis, `ShortSubstrings`: no
substring is longer than the capacity less a block, plus one. Section 6 shows
what happens otherwise; TCPConfig has substrings of 1000 bytes, a capacity of
64000 and blocks of 32.

* What the bitmap does. The range from `start` to `end`, taken around the ring,
  covers of each block just the bits under `BatchMask` (`BatchIsRing`). The
  masks know blocks only, and the bitmap may have bits behind its capacity, so
  this needs that the range does not come back to the block it begins in, which
  short substrings give (`NoWrapIntoBlock`). So `getPopCountAndUnsetBatch`
  clears the slots of the indices written, and counts those that were set
  (`Cleared`).
* The inductive invariant, `Inv`, keeps a set `H` of indices: those above the
  first unassembled one and within the capacity of the reader whose bytes are in
  the window, each in its slot, with no other bit set and `bytes_pending` the size
  of `H`. `WindowConsistent` is not inductive: an index may only be stored over a
  slot whose old byte has left, and a set bit behind the window would come
  back as another byte. So `H` must be bounded by what the reader has popped,
  and not by the size of the window.
* One lemma for each branch: `AssembleStep` writes a substring with the run behind
  it, which ends at the first bit that is not set (`RunFound`), `StoreStep` puts
  one behind a gap, `Sized` is the first insert, which makes the window, and
  `Closing` the scope guard. What `insert` does to `H` is stated in the terms of
  ReassemblerSpec, so that `Refinement` has only to read `H` off the bitmap
  (`HeldIs`).

`ReassemblerProofs` goes on to the receiver, whose Reassembler this is. Under
`ShortSubstrings`, with what TCPReceiver assumes (`ReceiverAssumption`: a word of
more than four numbers and an initial number of the word), and for streams that
may be longer than the sequence space:

* `ReceiverFeeds`: whatever segments of the connection arrive, the receiver gives
  its Reassembler nothing but substrings of the stream, so that all theorems
  about the Reassembler hold of it. This is where sequence numbers become
  indices: those of the stream are read back as what they were, since a segment
  is never half a word or more from the first unassembled byte (`Plausible`), and
  a segment with the number of the SYN that is none gets the index `Wide - 1`, at
  which `insert` discards it.
* The inductive invariant, `RcvInv`, adds to `Inv` that the receiver's copies
  (first unassembled index, end seen, stream closed) are those of its Reassembler
  and its stream after every way out of `receive`. `AcknowledgesStream`
  (`AckMatchesStream`) follows from it.
* `WindowStands` (`WindowNeverShrinks`) is an action property. The right edge of
  the window is the smaller of what the reader has popped with the capacity and
  of the first unassembled index with the greatest window, and neither decreases.

Its last section puts a sender, a network that reorders, loses and repeats, and
the receiver together. The hypothesis `Connection` is about sizes only: segments
are `ShortSubstrings`, and the stream with its SYN and FIN fits into half the
sequence space. For any number of losses, repetitions and retransmissions, and
segments in any order, FINs that overtake data included:

* `ConnectionSound`: `ConnectionInv` is an inductive invariant. It adds to
  `RcvInv` and to the sender's `Coherent` what is under way: every segment lies at
  its position in the stream, before `next_seqno`, with the bytes and flags of
  that position (`Leaves`), and every acknowledgment is of a position that the
  receiver had reached when it answered, and has passed since (`Answers`). An
  acknowledgment therefore arrives with a position no greater than what the
  receiver has taken, the sender reads that very position out of the wrapped
  number (`PositionRead`), and forgets the messages up to it and no other. What
  the receiver has taken (`Taken`) is what it acknowledges: the SYN, the bytes
  assembled, and one more number once its stream is closed, too early or not.
* `ReaderGetsPrefix` (`StreamIntact`): what the reader gets is the stream from its
  beginning, without holes.
* `ForgetsOneAtMost`: at every moment `AckedIsDelivered` holds, or the receiver has
  closed its stream with bytes missing and the sender has forgotten one number too
  many. The early close of `src/reassembler.cc:19` is the only way to break
  `AckedIsDelivered`, and `transfer_fin` shows that it does.

Three more theorems need a hypothesis about the network, which nothing in the code
enforces: that a FIN waits for the data before it (`FinInOrder`) and for their
room (`FinFits`). Everything else may still be lost, repeated and reordered.
Without `FinInOrder` all three are false (`TransferFin.cfg`); without `FinFits`
the last two are (`TransferRoom.cfg`; section 6). `AckedIsDelivered` holds in
`TransferRoom.cfg`, where the sender keeps the message with the FIN until all of it
is acknowledged; the proof does not go that way, and leans on the complete end.

* `AckedIsSafe` (`AckedIsDelivered`): the sender forgets nothing that the receiver
  has not taken. It follows from `ForgetsOneAtMost` and the next.
* `EndIsComplete` (`ClosedMeansComplete`): the stream is closed only when complete,
  since a FIN that arrives in its place brings the last bytes with it
  (`FinCompletes`).
* `TransferIsReliable` (`SafeTransfer`): the composition implements the safety
  part of TransferSpec, which shows the applications the bytes written, in order,
  once, never more than the capacity unread, and the end after the last of them.
  One lemma for each action (`SendSound`, `TimeoutSound`, `AckSound`,
  `SegmentSound`, ...) preserves the invariant and says what becomes of the
  stream at the reader's end, and `StepShows` reads that as a step of the
  abstract specification or as none.

What they need of the sender is a section of its own in `TCPSenderProofs`: each
operation keeps what has left it valid (`PushContinues`, `TickContinues`,
`ReceiveContinues`), what it hands out lies at its position (`SendKeeps`), and
it keeps all from the position acknowledged on (`KeptIsFirst`).

The loops in these modules are recursive functions, or CHOOSEs of the number of
rounds. What they compute is shown by induction over the length of the queue, or
the number of rounds.
`InductionLemmas` derives induction from the well-foundedness of strict inclusion
of finite sets, stated about a set of numbers instead of a predicate.

Only model-checked: the network of hosts and a router with its refinement of
DatagramNet, and the wire format (`Transparent`, `DamageNoticed`,
`NeverReadsEmpty`), whose checksum and lists of fields are folds over sequences
of any length. Liveness stays with TLC, since TLAPS handles neither `ENABLED` nor
fairness: all properties called `Eventually...`, `WebgetExits`, and of
`ImplementsTransfer` the part `Complete`, that a transfer comes to its end.

## 6. Where code and documentation disagree

One run expects a violation; `PROJECT.json` quotes the lines.

`transfer_fin`: the Reassembler closes the stream when the end has been
announced and nothing is pending, also with bytes missing. A FIN that overtakes
data makes the receiver acknowledge one number too many, and the sender forgets
a byte that has not arrived (`src/reassembler.cc:19`).

Further configurations replay disagreements of the same kind. Each ends with a
counterexample of TLC:

| Command | Property | What it shows |
|---|---|---|
| `tlc -config ReassemblerSmallWindow.cfg Reassembler` | `StreamIntact` | in a window that fits into one block of the bitmap, a range that wraps around is not cleared, and an old byte is written to the stream (`util/bitmap.hpp:108`); compiled code with a capacity of 3 delivers "abcdefghid..." for "abcdefghij...". The passing run keeps substrings short enough |
| `tlc -config SenderTick.cfg TCPSender` | `NeverEmptyFront` | two expiries without a `maybe_send` in between read the front of an empty deque (`src/tcp_sender.cc:215`) |
| `tlc -config RouterRoutes.cfg MCRouter` | `RoutesKept` | a route added for an earlier interface throws away the routes of later ones (`src/router.cc:23`); the passing runs add routes in the order of their interfaces |
| `tlc -config WebgetCareless.cfg Webget` | `OwnsItsFile` | `accept` "blocks until a new connection is available" (`util/socket.cc:163`), but on a non-blocking socket it turns EAGAIN into descriptor 0 and closes that; and a descriptor that is closed twice closes whatever has its number |
| `tlc -config LanLoss.cfg MCLan` | `WaitsAreFinite` | a datagram whose ARP request or answer is lost waits until another one is sent to the same address, for ever if there is none (`src/network_interface.cc:32`) |
| `tlc -config TransferRoom.cfg TCPTransfer` | `SafeTransfer` | `receive` takes over the window of any acknowledgment, however old (`src/tcp_sender.cc:164`). After the answer to the SYN has come a second time the sender sends a byte and the FIN beyond the receiver's room; `insert` discards the byte, notes the end all the same and closes the stream without it (`src/reassembler.cc:19`) |
| `tlc -config RouterGrow.cfg MCRouter` | `PointersOwned` | an interface added after traffic began copies the others, whose ARP pointers then lead into freed queues (`src/router.hh:81`) |

Met on the way, and to be seen by changing a configuration of a passing run:

* `ClosedMeansComplete` added to `Reassembler.cfg`: "The Reassembler should close
  the stream after writing the last byte" (`src/reassembler.hh:30`), but an early
  empty last substring closes it sooner.
* `AcceptReturns` added to `Webget.cfg`: `accept` "returns a new TCPSocket
  connected to the peer" (`util/socket.cc:162`), but the constructor of Socket
  compares the protocol, which is TCP, with the default of 0
  (`util/socket.hh:93`) and throws: every connection accepted is closed at once.
  Compiled code throws "socket protocol mismatch".
* `NoneDropped` added to `MCNetworkInterface.cfg`: a second datagram for an
  address that has been asked for is neither sent nor kept
  (`src/network_interface.cc:32`).
* `LearnsSender` added to `MCNetworkInterface.cfg`: "learn a mapping from the
  'sender' fields" (`src/network_interface.hh:114`), but not if another mapping
  is known.
* `FinOnlyAtEnd` under `SynFirstSpec` in place of `DrainedSpec` in
  `TCPSender.cfg`: `push` sets the FIN on a message queued for retransmission,
  which is not the last of the stream (`src/tcp_sender.cc:143`).
* `ProbedOnce` added to `TCPSender.cfg`, with `StreamLen = 3` and `WindowSizes =
  {0, 1, 4}`: the zero-window case "should happen only once each time window size
  dropped to 0" (`src/tcp_sender.cc:56`), but every further zero window allows
  another.
* `ConsumesAll` added to `MCRouter.cfg`: `route` should "consume every incoming
  datagram" (`src/router.hh:95`), but takes one of each interface.
* `NeverThrows` and `LengthHolds` in place of the invariants of `MCWire.cfg`:
  `parse` throws for a version other than 4 instead of returning false
  (`util/ipv4_header.cc:46`), and a datagram whose payload was cut off is
  accepted, since nobody compares its length (`util/ipv4_datagram.hh:19`).
* `DamageNoticed` is limited to the first hop. A router lowers the ttl and
  leaves the checksum (`src/router.cc:70`), which `tests/router.cc:256` computes
  again; the next node finds it wrong, and a byte damaged so that the sum fits
  the old checksum is then accepted. Since `recv_frame` ignores the result of
  `parse` and `parse` overwrites the checksum, this does no harm to undamaged
  datagrams: that is `Transparent`.
* `OnlyRealBytes` added to `Webget.cfg`: a non-blocking read that finds nothing
  leaves a buffer full of zero bytes (`util/file_descriptor.cc:91`), and the
  read into several buffers never shortens a buffer (`:142`).
* `ShortWrites = TRUE` in `Webget.cfg`: webget ignores how much of the request
  was written (`apps/webget.cc:20`), and then waits for an answer for ever.
* Data queued before the SYN has left makes the counters of TCPSender part from
  the queues (`src/tcp_sender.cc:123` admits to a "potential issue"):
  `CountersMatchQueues` under `Spec` in place of `DrainedSpec` in
  `TCPSender.cfg`.

## 7. Not modelled

* The sharing of `Buffer`: `TCPReceiver::receive` moves the payload out of a
  string that all copies of a message share. Between hosts it is serialized,
  and no code of the repository hands a message over within one process.
* `Parser::string`, `all_remaining` into one Buffer and `pseudo_checksum`, which
  have no callers; `to_string` of the headers, which is formatting.
* Datagram and packet sockets, socket options, `bind`, addresses: arguments and
  results of single system calls, with no state of the program's own. The
  counters of reads and writes, which nobody reads.
* Random engine and exceptions; BitmapNaive, which only tests use; the tests.
* Absolute numbers that wrap at 2^64, and memory that runs out.

## 8. Plan

Done: the modules above, in the order stream, sequence numbers, Reassembler,
receiver, sender, transfer, interface, router, wire format, network,
descriptors; and the proofs of ByteStream, Wrap32, NetworkInterface, Descriptors
with webget, TCPSender, Router, Reassembler, TCPReceiver and TCPTransfer.

Left to prove:

1. Wire: `Transparent` and `NeverReadsEmpty`, which need that a list of buffers
   reads as the concatenation of its buffers, by induction over the fields of a
   header; `DamageNoticed`, that two rounds fold every sum of the checksum.
2. Lan: the refinement of DatagramNet, from `Tracked` of RouterProofs and the
   invariants of NetworkInterfaceProofs for each interface.
