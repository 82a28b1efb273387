----------------------------- MODULE HttpServer -----------------------------
(***************************************************************************)
(* The REST server: server.cpp, connection.cpp and connection_manager.cpp, *)
(* which is one thread in io_service::run() taking completed operations    *)
(* and running their handlers, one at a time and in any order.             *)
(*                                                                         *)
(* An operation is outstanding from the call that starts it until its      *)
(* handler runs: ec is "pending" first and then what the handler is given. *)
(* Closing a socket completes what is pending on it; what has completed    *)
(* before keeps its result and its handler still runs.  A handler holds a  *)
(* shared_ptr to its connection, so a connection object exists as long as  *)
(* it is registered or has an operation outstanding.  The parser and the   *)
(* request handler are reduced to their results.                           *)
(***************************************************************************)
EXTENDS FiniteSets

CONSTANT Connections \* connection objects; as many accepts succeed

VARIABLES
  running,     \* io_service::run() has not returned
  acceptor,    \* "open" or "closed"
  accepting,   \* ec of the outstanding accept, or "none"
  socket_,     \* of the server: "open" from an accept until a connection takes it
  awaitStop,   \* ec of the outstanding signal wait, or "none"
  connections, \* the set kept by connection_manager
  ops,         \* operations outstanding on each connection
  socket,      \* "none" before the accept, then "open", "closed"
  peer,        \* "none", "connected" or "gone"
  reply        \* what reply_ holds: "none", "handled" or "bad_request"

vars == <<running, acceptor, accepting, socket_, awaitStop, connections, ops, socket, peer, reply>>

serverVars == <<running, acceptor, accepting, socket_, awaitStop>>
connVars   == <<connections, ops, socket, peer, reply>>

Results == {"good", "bad", "indeterminate"} \* of request_parser::parse

\* A read completes with bytes, given by what the parser makes of them.
ReadOps  == [kind : {"read"}, ec : {"pending", "error", "aborted"} \cup Results]
WriteOps == [kind : {"write"}, ec : {"pending", "error", "aborted", "sent"}]
Ops == ReadOps \cup WriteOps

\* At most one operation is outstanding on a connection.
TypeOK ==
  /\ running \in BOOLEAN
  /\ acceptor \in {"open", "closed"}
  /\ accepting \in {"none", "pending", "accepted", "error", "aborted"}
  /\ socket_ \in {"open", "closed"}
  /\ awaitStop \in {"none", "pending", "signalled"}
  /\ connections \subseteq Connections
  /\ ops \in [Connections -> {{}} \cup {{o} : o \in Ops}]
  /\ socket \in [Connections -> {"none", "open", "closed"}]
  /\ peer \in [Connections -> {"none", "connected", "gone"}]
  /\ reply \in [Connections -> {"none", "handled", "bad_request"}]

\* The state the constructor leaves: do_await_stop and do_accept are called.
Init ==
  /\ running = TRUE
  /\ acceptor = "open"
  /\ accepting = "pending"
  /\ socket_ = "closed"
  /\ awaitStop = "pending"
  /\ connections = {}
  /\ ops = [c \in Connections |-> {}]
  /\ socket = [c \in Connections |-> "none"]
  /\ peer = [c \in Connections |-> "none"]
  /\ reply = [c \in Connections |-> "none"]

Pending(kind) == [kind |-> kind, ec |-> "pending"]

\* An operation started on a closed socket fails at once, and not as aborted.
Started(kind, s) == [kind |-> kind, ec |-> IF s = "open" THEN "pending" ELSE "error"]

-----------------------------------------------------------------------------
(* The world: signals, clients, the kernel *)

Signal ==
  /\ awaitStop = "pending"
  /\ awaitStop' = "signalled"
  /\ UNCHANGED <<running, acceptor, accepting, socket_, connVars>>

AcceptCompletes ==
  /\ accepting = "pending"
  /\ \/ accepting' = "error" /\ UNCHANGED socket_
     \/ /\ \E c \in Connections : socket[c] = "none"
        /\ accepting' = "accepted"
        /\ socket_' = "open"
  /\ UNCHANGED <<running, acceptor, awaitStop, connVars>>

PeerLeaves(c) ==
  /\ peer[c] = "connected"
  /\ peer' = [peer EXCEPT ![c] = "gone"]
  /\ UNCHANGED <<serverVars, connections, ops, socket, reply>>

Completes(c, kind, ec) ==
  /\ Pending(kind) \in ops[c]
  /\ ops' = [ops EXCEPT ![c] = (@ \ {Pending(kind)}) \cup {[kind |-> kind, ec |-> ec]}]
  /\ UNCHANGED <<serverVars, connections, socket, peer, reply>>

\* Bytes that were under way arrive, also from a client that has left since.
BytesArrive(c) == \E result \in Results : Completes(c, "read", result)

\* The kernel takes the reply, whether or not it reaches the client.
ReplySent(c) == Completes(c, "write", "sent")

\* End of file or a reset.
LinkEnds(c) ==
  /\ peer[c] = "gone"
  /\ Completes(c, "read", "error") \/ Completes(c, "write", "error")

-----------------------------------------------------------------------------
(* connection_manager and connection, as far as they are not handlers *)

\* basic_stream_socket::close: a pending operation is aborted, or, when it is
\* the composed async_write between two of its parts, fails on its next part.
AfterClose(os) ==
  IF Pending("write") \in os
  THEN {(os \ {Pending("write")}) \cup {[kind |-> "write", ec |-> ec]} : ec \in {"aborted", "error"}}
  ELSE {IF Pending("read") \in os
        THEN (os \ {Pending("read")}) \cup {[kind |-> "read", ec |-> "aborted"]}
        ELSE os}

Closed(s) == IF s = "open" THEN "closed" ELSE s

\* connection_manager::stop from a handler of c, which leaves rest outstanding.
Stop(c, rest) ==
  /\ connections' = connections \ {c}
  /\ socket' = [socket EXCEPT ![c] = Closed(@)]
  /\ \E os \in AfterClose(rest) : ops' = [ops EXCEPT ![c] = os]

\* Nothing is started or stopped; the handler was the last to hold c.
LetGo(c, rest) == ops' = [ops EXCEPT ![c] = rest] /\ UNCHANGED <<connections, socket>>

\* Faulty variant: the sockets are forgotten without being closed.
FaultyStopAll == connections' = {} /\ UNCHANGED <<socket, ops>>

\* Faulty variant: a stop that lets connections come to their end.
LenientStopAll == UNCHANGED <<connections, socket, ops>>

\* connection_manager::stop_all
StopAll ==
  /\ connections' = {}
  /\ socket' = [c \in Connections |-> IF c \in connections THEN Closed(socket[c]) ELSE socket[c]]
  /\ ops' \in [Connections -> UNION {{ops[c]} \cup AfterClose(ops[c]) : c \in Connections}]
  /\ \A c \in Connections :
       IF c \in connections THEN ops'[c] \in AfterClose(ops[c]) ELSE ops'[c] = ops[c]

-----------------------------------------------------------------------------
(* The handlers *)

\* connection_manager::start on a new connection, which starts to read.
StartConnection(c) ==
  /\ socket[c] = "none"
  /\ connections' = connections \cup {c}
  /\ socket' = [socket EXCEPT ![c] = "open"]
  /\ peer' = [peer EXCEPT ![c] = "connected"]
  /\ ops' = [ops EXCEPT ![c] = {Pending("read")}]
  /\ UNCHANGED reply

\* Faulty variant: nobody looks whether the acceptor is still open.
FaultyStopped == FALSE

\* acceptor_.is_open(), the other way round
Stopped == acceptor = "closed"

\* do_accept's handler.  Whatever became of the accept, the next one follows.  The
\* new connection takes the socket; on the early return it stays where it is.
AcceptHandler ==
  /\ accepting \notin {"none", "pending"}
  /\ accepting' = IF Stopped THEN "none" ELSE "pending"
  /\ IF ~Stopped /\ accepting = "accepted"
     THEN socket_' = "closed" /\ \E c \in Connections : StartConnection(c)
     ELSE UNCHANGED <<socket_, connVars>>
  /\ UNCHANGED <<running, acceptor, awaitStop>>

\* do_await_stop's handler.  It is not armed again.
SignalHandler ==
  /\ awaitStop = "signalled"
  /\ awaitStop' = "none"
  /\ acceptor' = "closed"
  /\ accepting' = IF accepting = "pending" THEN "aborted" ELSE accepting
  /\ StopAll
  /\ UNCHANGED <<running, socket_, peer, reply>>

\* Faulty variant: every error is taken for an abort.
FaultyAborted(ec) == ec \in {"error", "aborted"}

\* An error the handlers let pass: the connection has been stopped by another.
Aborted(ec) == ec = "aborted"

\* Faulty variant: the next read is started as soon as one has completed.
EagerRest(c, o) == (ops[c] \ {o}) \cup {Started("read", socket[c])}

\* What is outstanding on c besides o, whose handler runs.
Rest(c, o) == ops[c] \ {o}

Answer(ec) == IF ec = "good" THEN "handled" ELSE "bad_request"

\* do_read's handler for operation o of connection c.
ReadHandler(c, o) ==
  /\ o \in ops[c] /\ o.kind = "read" /\ o.ec # "pending"
  /\ \/ /\ o.ec \in {"good", "bad"}
        /\ reply' = [reply EXCEPT ![c] = Answer(o.ec)]
        /\ ops' = [ops EXCEPT ![c] = Rest(c, o) \cup {Started("write", socket[c])}]
        /\ UNCHANGED <<connections, socket>>
     \/ /\ o.ec = "indeterminate"
        /\ ops' = [ops EXCEPT ![c] = Rest(c, o) \cup {Started("read", socket[c])}]
        /\ UNCHANGED <<connections, socket, reply>>
     \/ /\ o.ec \in {"error", "aborted"}
        /\ IF Aborted(o.ec) THEN LetGo(c, Rest(c, o)) ELSE Stop(c, Rest(c, o))
        /\ UNCHANGED reply
  /\ UNCHANGED <<serverVars, peer>>

\* do_write's handler.  The shutdown that follows a success is undone by the
\* close in Stop.
WriteHandler(c, o) ==
  /\ o \in ops[c] /\ o.kind = "write" /\ o.ec # "pending"
  /\ IF Aborted(o.ec) THEN LetGo(c, Rest(c, o)) ELSE Stop(c, Rest(c, o))
  /\ UNCHANGED <<serverVars, peer, reply>>

Outstanding == accepting # "none" \/ awaitStop # "none" \/ \E c \in Connections : ops[c] # {}

\* io_service::run() returns when nothing is outstanding.
RunReturns ==
  /\ running
  /\ ~Outstanding
  /\ running' = FALSE
  /\ UNCHANGED <<acceptor, accepting, socket_, awaitStop, connVars>>

\* The server is destroyed when run() has returned, and its socket with it.
Destroyed ==
  /\ ~running
  /\ socket_' = "closed"
  /\ UNCHANGED <<running, acceptor, accepting, awaitStop, connVars>>

-----------------------------------------------------------------------------
Handler ==
  \/ AcceptHandler
  \/ SignalHandler
  \/ \E c \in Connections : \E o \in ops[c] : ReadHandler(c, o) \/ WriteHandler(c, o)
  \/ RunReturns

World ==
  \/ Signal
  \/ AcceptCompletes
  \/ \E c \in Connections : PeerLeaves(c) \/ BytesArrive(c) \/ ReplySent(c) \/ LinkEnds(c)

Next == Handler \/ Destroyed \/ World

Safety == Init /\ [][Next]_vars

\* io_service takes completed operations in turn.  What a client that has left
\* had sent is finite, so that the end of its link comes to be seen.
Fairness ==
  /\ WF_vars(AcceptHandler)
  /\ WF_vars(SignalHandler)
  /\ WF_vars(RunReturns)
  /\ \A c \in Connections :
       /\ WF_vars(\E o \in ops[c] : ReadHandler(c, o) \/ WriteHandler(c, o))
       /\ SF_vars(LinkEnds(c))

Spec == Safety /\ Fairness

-----------------------------------------------------------------------------
(* Properties *)

\* As long as the acceptor is open an accept and the wait for a signal are
\* outstanding, and an accepted socket is one whose handler is to come; and as long
\* as a connection is registered its socket is open and an operation is outstanding
\* on it, whatever path its handlers took: no connection is kept that nothing
\* will ever take up again (server.cpp on run).
NothingForgotten ==
  /\ acceptor = "open" => /\ accepting # "none" /\ awaitStop # "none"
                          /\ socket_ = "open" <=> accepting = "accepted"
  /\ \A c \in connections : ops[c] # {} /\ socket[c] = "open"

\* After the signal handler no connection is registered and the socket of none is
\* open: stop_all reached all of them, and none is made after it, also when an
\* accept had completed before the signal was handled.  What that accept brought
\* is left in socket_, open, until the server is destroyed (do_accept,
\* do_await_stop).
StopIsFinal ==
  acceptor = "closed" => connections = {} /\ \A c \in Connections : socket[c] # "open"

\* reply_ is written at most once on a connection, so never while to_buffers
\* of it are being sent (reply.h on to_buffers).
ReplyWrittenOnce ==
  [][\A c \in Connections : reply[c] # "none" => reply'[c] = reply[c]]_vars

\* How far the server is with each client, and which clients are gone.
Progress(c) ==
  IF socket[c] = "none" THEN "new"
  ELSE IF c \notin connections THEN "over"
  ELSE IF reply[c] = "none" THEN "open"
  ELSE reply[c]

Promised == INSTANCE Sessions WITH
  serving <- acceptor = "open",
  exited  <- ~running,
  session <- [c \in Connections |-> Progress(c)],
  left    <- {c \in Connections : peer[c] = "gone"}

\* The handlers keep what Sessions promises: no client that stays is hung up on
\* unanswered while the server runs, none gets two answers, and one signal ends
\* all sessions (do_read, do_write, do_await_stop).
ImplementsSessions == Promised!Safety

\* A signal ends the server, whatever clients do: every operation is cancelled
\* or fails, no handler starts a lasting one, and run() returns (do_await_stop).
SignalStopsServer == awaitStop = "signalled" ~> ~running

\* A connection whose client has left is given up: it is not registered and
\* no operation keeps its object (do_read, do_write).
GoneClientsReleased ==
  \A c \in Connections :
    peer[c] = "gone" ~> (ops[c] = {} /\ c \notin connections)

=============================================================================
