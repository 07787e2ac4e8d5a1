-------------------------------- MODULE Webget --------------------------------
(***************************************************************************)
(* get_URL and main of apps/webget.cc: one connection to a server, which   *)
(* answers a complete request and closes, and may reset the connection.    *)
(* A behaviour is either one of webget or one of some other program that   *)
(* uses descriptors in any way.                                            *)
(***************************************************************************)
EXTENDS Descriptors

CONSTANT MayReset    \* whether the server may break the connection

VARIABLES pc,        \* where webget is, or "other program"
          printed    \* number of bytes of the response printed

vars == <<files, table, wrappers, pc, printed>>

WebgetInit ==
    /\ Init
    /\ pc \in {"socket", "other program"}
    /\ printed = 0

Sock == 1                          \* the wrapper of tcp_socket
Conn == wrappers[Sock].file        \* and its file

Exited == pc \in {"success", "failure"}

GetSocket ==
    /\ pc = "socket"
    /\ Open("stream")
    /\ pc' = "connect"
    /\ UNCHANGED printed

Connect ==
    /\ pc = "connect"
    /\ pc' = "write"
    /\ UNCHANGED <<files, table, wrappers, printed>>

\* tcp_socket.write(http_request); nobody looks at the number it returns.
WriteRequest ==
    /\ pc = "write"
    /\ WriteBytes(Sock, RequestLen)
    /\ pc' = "loop"
    /\ UNCHANGED printed

ReadResponse ==
    /\ pc = "loop" /\ ~wrappers[Sock].eof
    /\ \E bytes_read \in 0..kReadBufferSize :
          ReadBytes(Sock, bytes_read) /\ printed' = printed + bytes_read
    /\ UNCHANGED pc

Finish ==
    /\ pc = "loop" /\ wrappers[Sock].eof
    /\ Drop(Sock)
    /\ pc' = "success"
    /\ UNCHANGED printed

\* The arguments are wrong, or there is no socket to be had.
FailEarly ==
    /\ pc = "socket"
    /\ pc' = "failure"
    /\ UNCHANGED <<files, table, wrappers, printed>>

\* The name cannot be resolved, or a system call fails: an exception leaves
\* get_URL, which destroys tcp_socket, and main returns EXIT_FAILURE.
Fail ==
    /\ pc \in {"connect", "write", "loop"} /\ MayReset
    /\ Drop(Sock)
    /\ pc' = "failure"
    /\ UNCHANGED printed

\* The server.
Answers == pc = "loop" /\ files[Conn].taken = RequestLen

ServerSends == Answers /\ PeerSends(Conn) /\ UNCHANGED <<pc, printed>>

ServerEnds ==
    /\ Answers /\ files[Conn].sent = MaxSent
    /\ PeerEnds(Conn)
    /\ UNCHANGED <<pc, printed>>

Program == GetSocket \/ Connect \/ WriteRequest \/ ReadResponse \/ Finish

OtherProgram == pc = "other program" /\ Next /\ UNCHANGED <<pc, printed>>

WebgetNext == Program \/ FailEarly \/ Fail \/ ServerSends \/ ServerEnds \/ OtherProgram

\* webget goes on unless the kernel makes it wait, and so does the server.
Spec ==
    /\ WebgetInit /\ [][WebgetNext]_vars
    /\ WF_vars(Program) /\ WF_vars(ServerSends) /\ WF_vars(ServerEnds)

\* Another program, one that is careless.
CarelessSpec ==
    /\ WebgetInit
    /\ [][pc = "other program" /\ CarelessNext /\ UNCHANGED <<pc, printed>>]_vars

------------------------------------------------------------------------------
\* If webget exits with success it has printed the whole response, however it
\* was cut by the reads, and whichever way it exits it has closed its socket.
SuccessIsComplete ==
    /\ pc = "success" => printed = MaxSent /\ files[Conn].ended
    /\ Exited => \A n \in Numbers \ {0} : table[n] = Free

\* webget exits in the end: the end of the response ends the loop.
WebgetExits == pc # "other program" ~> Exited

==============================================================================
