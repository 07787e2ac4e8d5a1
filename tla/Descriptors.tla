----------------------------- MODULE Descriptors ------------------------------
(***************************************************************************)
(* FileDescriptor and TCPSocket (src/util/file_descriptor.cc, socket.cc)   *)
(* over a kernel that hands out the lowest free number.  Handles share a   *)
(* reference-counted FDWrapper; the wrapper knows its number and nothing   *)
(* else of what the kernel has under it.                                   *)
(*                                                                         *)
(* A file is what a number stands for in the kernel.  arrived counts the   *)
(* bytes that wait to be read, or the connections that wait to be          *)
(* accepted.  A call that throws changes nothing unless said otherwise.    *)
(***************************************************************************)
EXTENDS Naturals, Sequences, FiniteSets, FiniteSetsExt

CONSTANTS Numbers,           \* file descriptor numbers
          kReadBufferSize,   \* 16384: what a read asks for
          MaxFiles,          \* bound: files opened, standard input included
          MaxSent,           \* bound: bytes or connections that arrive at a file
          RequestLen,        \* length of what is written to a stream
          ShortWrites,       \* whether a write may take less than it is given
          Disciplined        \* whether the owner leaves a closed descriptor alone
                             \* and a listening socket blocking

ASSUME NumbersAssumption == 0 \in Numbers /\ Numbers \subseteq Nat
ASSUME ReadBufferAssumption == kReadBufferSize \in Nat \ {0}
ASSUME RequestAssumption == RequestLen \in Nat \ {0}

VARIABLES files,      \* the kernel's files, in the order they were opened
          table,      \* the file that a number stands for, or Free
          wrappers    \* the FDWrappers, in the order they were made

kernel == <<files, table>>

Free == 0
Stdin == 1            \* the first file, which no FileDescriptor stands for

NewFile(kind) ==
    [kind |-> kind, arrived |-> 0, sent |-> 0, ended |-> FALSE, shut |-> FALSE,
     non_blocking |-> FALSE, taken |-> 0]

\* file is the one a wrapper was made for, and phantom whether a read left
\* bytes in a buffer that it did not read.
NewWrapper(fd, file) ==
    [fd |-> fd, file |-> file, eof |-> FALSE, closed |-> FALSE,
     non_blocking |-> FALSE, refs |-> 1, phantom |-> FALSE]

Init ==
    /\ files = <<NewFile("terminal")>>
    /\ table = [n \in Numbers |-> IF n = 0 THEN Stdin ELSE Free]
    /\ wrappers = <<>>

------------------------------------------------------------------------------
\* What the calls through a wrapper act upon: whatever has its number now.
Target(w) == table[wrappers[w].fd]

Alive(w) == w \in DOMAIN wrappers /\ wrappers[w].refs > 0

\* The owner uses a descriptor.
MayUse(w) == Alive(w) /\ (Disciplined => ~wrappers[w].closed)

FreeNumbers == {n \in Numbers : table[n] = Free}

\* The constructor of Socket with a domain and a type, and those of
\* FileDescriptor and FDWrapper: the new file gets the lowest number.
Open(kind) ==
    /\ Len(files) < MaxFiles /\ FreeNumbers # {}
    /\ files' = Append(files, NewFile(kind))
    /\ table' = [table EXCEPT ![Min(FreeNumbers)] = Len(files')]
    /\ wrappers' = Append(wrappers, NewWrapper(Min(FreeNumbers), Len(files')))

Duplicate(w) ==
    /\ MayUse(w) /\ wrappers[w].refs < 2
    /\ wrappers' = [wrappers EXCEPT ![w].refs = @ + 1]
    /\ UNCHANGED kernel

\* FDWrapper::close, which throws if the kernel does not know the number.
Close(w) ==
    /\ MayUse(w) /\ Target(w) # Free
    /\ table' = [table EXCEPT ![wrappers[w].fd] = Free]
    /\ wrappers' = [wrappers EXCEPT ![w].eof = TRUE, ![w].closed = TRUE]
    /\ UNCHANGED files

\* A plausible slip: the destructor closes in any case.
MutantClosesLast(wrapper) == wrapper.refs = 1

\* Whether the destructor of the last handle closes the number.
ClosesLast(wrapper) == wrapper.refs = 1 /\ ~wrapper.closed

\* A handle is destroyed.
Drop(w) ==
    /\ Alive(w)
    /\ wrappers' = [wrappers EXCEPT ![w].refs = @ - 1]
    /\ table' = IF ClosesLast(wrappers[w]) THEN [table EXCEPT ![wrappers[w].fd] = Free] ELSE table
    /\ UNCHANGED files

------------------------------------------------------------------------------
(* FileDescriptor::read *)

AtEnd(f) == f.arrived = 0 /\ (f.ended \/ f.shut)

\* The numbers of bytes that read(2) may return; none if it has to wait.
Results(f) ==
    IF AtEnd(f) THEN {0}
    ELSE IF f.arrived > 0 THEN 1..Min({f.arrived, kReadBufferSize})
    ELSE {}

\* A plausible slip: a read of less than was asked for is taken for the end.
MutantSetsEof(bytes_read) == bytes_read < kReadBufferSize

\* A plausible slip: the flag is forgotten, as in the other read.
MutantForgetsEof(bytes_read) == FALSE

SetsEof(bytes_read) == bytes_read = 0

ReadBytes(w, bytes_read) ==
    /\ bytes_read \in Results(files[Target(w)])
    /\ files' = [files EXCEPT ![Target(w)].arrived = @ - bytes_read]
    /\ wrappers' = [wrappers EXCEPT ![w].eof = @ \/ SetsEof(bytes_read)]
    /\ UNCHANGED table

\* EAGAIN, in either read: the buffer has been resized to all it can hold, and
\* stays so.
ReadAgain(w) ==
    /\ LET f == files[Target(w)] IN f.non_blocking /\ f.arrived = 0 /\ ~AtEnd(f)
    /\ wrappers[w].non_blocking
    /\ wrappers' = [wrappers EXCEPT ![w].phantom = TRUE]
    /\ UNCHANGED kernel

IsStream(w) == Target(w) # Free /\ files[Target(w)].kind = "stream"

Read(w) ==
    /\ MayUse(w) /\ IsStream(w)
    /\ \/ \E bytes_read \in 0..kReadBufferSize : ReadBytes(w, bytes_read)
       \/ ReadAgain(w)

\* Whatever arrived, the other read leaves its buffer at its full size and the
\* flag alone (remaining_size wraps around instead).
ReadVectorBytes(w, bytes_read) ==
    /\ bytes_read \in Results(files[Target(w)])
    /\ files' = [files EXCEPT ![Target(w)].arrived = @ - bytes_read]
    /\ wrappers' = [wrappers EXCEPT ![w].phantom = @ \/ bytes_read < kReadBufferSize]
    /\ UNCHANGED table

\* The other read, into one buffer.
ReadVector(w) ==
    /\ MayUse(w) /\ IsStream(w)
    /\ \/ \E bytes_read \in 0..kReadBufferSize : ReadVectorBytes(w, bytes_read)
       \/ ReadAgain(w)

\* FileDescriptor::write: the kernel takes some of what is offered.  It takes
\* nothing if the file is non-blocking and full, and write throws.
WriteBytes(w, offered) ==
    /\ \E bytes_written \in IF ShortWrites THEN 1..offered ELSE {offered} :
          files' = [files EXCEPT ![Target(w)].taken = @ + bytes_written]
    /\ UNCHANGED <<table, wrappers>>

------------------------------------------------------------------------------
SetBlocking(w, blocking) ==
    /\ MayUse(w) /\ Target(w) # Free
    /\ Disciplined => files[Target(w)].kind = "stream"
    /\ files' = [files EXCEPT ![Target(w)].non_blocking = ~blocking]
    /\ wrappers' = [wrappers EXCEPT ![w].non_blocking = ~blocking]
    /\ UNCHANGED table

\* Socket::shutdown of the side that reads.
Shutdown(w) ==
    /\ MayUse(w) /\ IsStream(w)
    /\ files' = [files EXCEPT ![Target(w)].shut = TRUE]
    /\ UNCHANGED <<table, wrappers>>

Listening(w) == Target(w) # Free /\ files[Target(w)].kind = "listener"

\* TCPSocket::accept.  A connection is taken and gets a number, but the
\* constructor of Socket compares its protocol, which is TCP, with 0, and
\* throws; the FileDescriptor it was given closes the number again.
AcceptSome(w) ==
    /\ MayUse(w) /\ Listening(w) /\ files[Target(w)].arrived > 0
    /\ FreeNumbers # {}
    /\ files' = [files EXCEPT ![Target(w)].arrived = @ - 1]
    /\ UNCHANGED <<table, wrappers>>

\* EAGAIN becomes 0, which becomes a FileDescriptor for the number 0.  The
\* constructor of Socket throws, and the FileDescriptor closes that number.
AcceptAgain(w) ==
    /\ MayUse(w) /\ Listening(w) /\ files[Target(w)].arrived = 0
    /\ files[Target(w)].non_blocking /\ wrappers[w].non_blocking
    /\ table[0] # Free
    /\ table' = [table EXCEPT ![0] = Free]
    /\ UNCHANGED <<files, wrappers>>

\* The peer sends a byte, or tries to connect, or has sent everything.
PeerSends(file) ==
    /\ files[file].sent < MaxSent /\ ~files[file].ended
    /\ files' = [files EXCEPT ![file].sent = @ + 1, ![file].arrived = @ + 1]
    /\ UNCHANGED <<table, wrappers>>

PeerEnds(file) ==
    /\ files[file].kind = "stream" /\ ~files[file].ended
    /\ files' = [files EXCEPT ![file].ended = TRUE]
    /\ UNCHANGED <<table, wrappers>>

Next ==
    \/ \E kind \in {"stream", "listener"} : Open(kind)
    \/ \E w \in DOMAIN wrappers :
          \/ Duplicate(w) \/ Close(w) \/ Drop(w) \/ Read(w) \/ Shutdown(w)
          \/ ReadVector(w) \/ AcceptSome(w)
          \/ \E blocking \in BOOLEAN : SetBlocking(w, blocking)
    \/ \E file \in {table[n] : n \in Numbers} \ {Free, Stdin} : PeerSends(file) \/ PeerEnds(file)

\* A program that also makes listening sockets non-blocking.
CarelessNext == Next \/ \E w \in DOMAIN wrappers : AcceptAgain(w)

------------------------------------------------------------------------------
\* The wrappers that are responsible for a number.
Responsible(n) == {w \in DOMAIN wrappers : Alive(w) /\ ~wrappers[w].closed /\ wrappers[w].fd = n}

\* Reference counts, the closed flag and the kernel's numbers stay in step,
\* although a number is given out again as soon as it has been closed: each
\* open file has one wrapper that is responsible for it and stands for that
\* file and no other, none is left over when its last handle is gone, and
\* what the program did not open is not closed (file_descriptor.cc:50-67).
OwnsItsFile ==
    /\ table[0] = Stdin
    /\ \A n \in Numbers \ {0} :
           IF table[n] = Free THEN Responsible(n) = {}
           ELSE \E w \in Responsible(n) : Responsible(n) = {w} /\ wrappers[w].file = table[n]

\* Whichever handle reads, and in whichever portions: the eof flag of a
\* descriptor that is not closed means that nothing is left to be read and
\* nothing will come, unless the program itself shut the side that reads
\* (file_descriptor.cc:98).
EofIsExact ==
    \A w \in DOMAIN wrappers : Alive(w) /\ wrappers[w].eof /\ ~wrappers[w].closed =>
        LET f == files[wrappers[w].file]
        IN  f.shut \/ (f.ended /\ f.arrived = 0)

------------------------------------------------------------------------------
\* file_descriptor.hh:64: read will "Read into `buffer`": what the buffer holds
\* afterwards is what was read.
OnlyRealBytes == \A w \in DOMAIN wrappers : ~wrappers[w].phantom

\* socket.cc:162: accept "returns a new TCPSocket connected to the peer": a
\* connection that is taken from a listening socket gets a descriptor.
AcceptReturns ==
    [][\A file \in DOMAIN files :
          files[file].kind = "listener" /\ files'[file].arrived < files[file].arrived =>
              Len(wrappers') > Len(wrappers)]_<<files, table, wrappers>>

==============================================================================
