------------------------------ MODULE Process ------------------------------
(***************************************************************************)
(* The life of the process once the configuration is read: the monitor's   *)
(* thread and the REST server's, which InitializeAndStart creates, and the *)
(* signals, which end the process until the server's constructor has       *)
(* registered them and are its own as long as there is a server.           *)
(*                                                                         *)
(* What the server does between its constructor and the return of run() is *)
(* HttpServer.  The main thread waits for ever, since nothing clears       *)
(* continueRunning; the monitor can only take the process down.            *)
(***************************************************************************)
EXTENDS Naturals, Sequences

CONSTANT Connections

VARIABLES
  process,     \* "running" or "ended"
  monitor,     \* where the monitor's thread is: "none", "running" or "absent"
  rest,        \* where the REST server's thread is
  registered,  \* the signals registered with signals_
  undelivered, \* one of them has come when nobody waited
  running, acceptor, accepting, socket_, awaitStop, connections, ops, socket, peer, reply

Server == INSTANCE HttpServer

httpVars == <<running, acceptor, accepting, socket_, awaitStop, connections, ops, socket, peer, reply>>
lifeVars == <<process, monitor, rest, registered, undelivered>>
vars     == <<lifeVars, httpVars>>

\* In the order of their registration.
Signals == <<"SIGINT", "SIGTERM", "SIGQUIT">>

Caught == {Signals[k] : k \in DOMAIN Signals}

Init ==
  /\ process = "running"
  /\ monitor = "none"
  /\ rest = "none"
  /\ registered = {}
  /\ undelivered = FALSE
  /\ running = FALSE
  /\ acceptor = "closed"
  /\ accepting = "none"
  /\ socket_ = "closed"
  /\ awaitStop = "none"
  /\ connections = {}
  /\ ops = [c \in Connections |-> {}]
  /\ socket = [c \in Connections |-> "none"]
  /\ peer = [c \in Connections |-> "none"]
  /\ reply = [c \in Connections |-> "none"]

-----------------------------------------------------------------------------
(* InitializeAndStart *)

\* Nobody looks at what pthread_create returns: a thread may not have come
\* into being.
CreateMonitor ==
  /\ process = "running" /\ monitor = "none" /\ rest = "none"
  /\ monitor' \in {"running", "absent"}
  /\ UNCHANGED <<process, rest, registered, undelivered, httpVars>>

CreateRest ==
  /\ process = "running" /\ monitor # "none" /\ rest = "none"
  /\ rest' \in {"registering", "absent"}
  /\ UNCHANGED <<process, monitor, registered, undelivered, httpVars>>

\* pclose(NULL), see MonitorService.
MonitorCrashes ==
  /\ process = "running" /\ monitor = "running"
  /\ process' = "ended"
  /\ UNCHANGED <<monitor, rest, registered, undelivered, httpVars>>

-----------------------------------------------------------------------------
(* StartRESTServer: the constructor *)

In(place) == process = "running" /\ rest = place

\* signals_.add
AddSignal ==
  /\ In("registering")
  /\ \E k \in DOMAIN Signals :
       /\ Signals[k] \notin registered
       /\ \A j \in 1..k - 1 : Signals[j] \in registered
       /\ registered' = registered \cup {Signals[k]}
  /\ UNCHANGED <<process, monitor, rest, undelivered, httpVars>>

\* Faulty variant: what has come before the wait is lost.
FaultyAwaitStop ==
  /\ In("registering")
  /\ registered = Caught
  /\ rest' = "binding"
  /\ awaitStop' = "pending"
  /\ undelivered' = FALSE
  /\ UNCHANGED <<process, monitor, registered, running, acceptor, accepting, socket_, connections, ops, socket, peer, reply>>

\* Faulty variant: one signal is enough to go on.
HastyAwaitStop ==
  /\ In("registering")
  /\ registered # {}
  /\ rest' = "binding"
  /\ awaitStop' = IF undelivered THEN "signalled" ELSE "pending"
  /\ undelivered' = FALSE
  /\ UNCHANGED <<process, monitor, registered, running, acceptor, accepting, socket_, connections, ops, socket, peer, reply>>

\* do_await_stop: a signal that has come before completes the wait at once.
AwaitStop ==
  /\ In("registering")
  /\ registered = Caught
  /\ rest' = "binding"
  /\ awaitStop' = IF undelivered THEN "signalled" ELSE "pending"
  /\ undelivered' = FALSE
  /\ UNCHANGED <<process, monitor, registered, running, acceptor, accepting, socket_, connections, ops, socket, peer, reply>>

\* Faulty variant: the first accept is left out.
FaultyBind ==
  /\ In("binding")
  /\ rest' = "serving"
  /\ acceptor' = "open"
  /\ running' = TRUE
  /\ UNCHANGED <<process, monitor, registered, undelivered, accepting, socket_, awaitStop, connections, ops, socket, peer, reply>>

\* The acceptor is opened, bound and listens, do_accept is called, run() is.
Bind ==
  /\ In("binding")
  /\ rest' = "serving"
  /\ acceptor' = "open"
  /\ accepting' = "pending"
  /\ running' = TRUE
  /\ UNCHANGED <<process, monitor, registered, undelivered, socket_, awaitStop, connections, ops, socket, peer, reply>>

\* Faulty variant: the exception is caught around the thread's function.
FaultyBindThrows ==
  /\ In("binding")
  /\ rest' = "gone"
  /\ registered' = {}
  /\ undelivered' = FALSE
  /\ UNCHANGED <<process, monitor, httpVars>>

\* Something of that fails, as when the address is in use: nothing catches the
\* exception, which ends the process.
BindThrows ==
  /\ In("binding")
  /\ process' = "ended"
  /\ UNCHANGED <<monitor, rest, registered, undelivered, httpVars>>

-----------------------------------------------------------------------------
(* StartRESTServer: run() and the end *)

Serve(A) == In("serving") /\ A /\ UNCHANGED lifeVars

\* Faulty variant: the signals stay registered.
FaultyDestroy ==
  /\ In("serving") /\ Server!Destroyed
  /\ rest' = "returning"
  /\ UNCHANGED <<process, monitor, registered, undelivered>>

\* The server is destroyed, its signals get their default actions back.
Destroy ==
  /\ In("serving") /\ Server!Destroyed
  /\ rest' = "returning"
  /\ registered' = {}
  /\ undelivered' = FALSE
  /\ UNCHANGED <<process, monitor>>

\* The function ends without a return, which is undefined: the thread ends, or
\* the process does.
FallOff ==
  /\ In("returning")
  /\ \/ rest' = "gone" /\ UNCHANGED process
     \/ process' = "ended" /\ UNCHANGED rest
  /\ UNCHANGED <<monitor, registered, undelivered, httpVars>>

-----------------------------------------------------------------------------
(* Signals *)

\* A signal that is not registered has its default action.
Kill ==
  /\ process = "running"
  /\ registered # Caught
  /\ process' = "ended"
  /\ UNCHANGED <<monitor, rest, registered, undelivered, httpVars>>

\* One that is registered completes the wait, or is kept for the next one.
Deliver ==
  /\ process = "running"
  /\ registered # {}
  /\ \/ Server!Signal /\ UNCHANGED undelivered
     \/ awaitStop # "pending" /\ undelivered' = TRUE /\ UNCHANGED httpVars
  /\ UNCHANGED <<process, monitor, rest, registered>>

-----------------------------------------------------------------------------
Thread == CreateMonitor \/ CreateRest \/ AddSignal \/ AwaitStop \/ Bind \/ BindThrows \/ Destroy \/ FallOff

Next ==
  \/ Thread
  \/ MonitorCrashes
  \/ Kill
  \/ Deliver
  \/ Serve(Server!Handler)
  \/ Serve(Server!AcceptCompletes)
  \/ \E c \in Connections :
       Serve(Server!PeerLeaves(c) \/ Server!BytesArrive(c) \/ Server!ReplySent(c) \/ Server!LinkEnds(c))

Safety == Init /\ [][Next]_vars

\* Threads are scheduled, and io_service takes completed operations in turn.
Fairness ==
  /\ WF_vars(Thread)
  /\ WF_vars(Serve(Server!AcceptHandler))
  /\ WF_vars(Serve(Server!SignalHandler))
  /\ WF_vars(Serve(Server!RunReturns))
  /\ \A c \in Connections :
       WF_vars(Serve(\E o \in ops[c] : Server!ReadHandler(c, o) \/ Server!WriteHandler(c, o)))

Spec == Safety /\ Fairness

-----------------------------------------------------------------------------
(* Properties *)

\* A REST server that was created and is gone while the process goes on was stopped
\* by a signal, and has closed every connection, the one included that was accepted
\* and never started (server.cpp on run: there is always an operation outstanding).
GoneBySignalOnly ==
  rest \in {"returning", "gone"} =>
    /\ acceptor = "closed" /\ awaitStop = "none" /\ connections = {}
    /\ socket_ = "closed" /\ \A c \in Connections : socket[c] # "open"

\* No signal cuts off a client that is served: as long as there is a connection
\* the process ends by no default action, since all signals are registered before
\* the acceptor is opened (server.cpp, the constructor).
ClientsAreSafe ==
  [][Kill => connections = {}]_vars

\* A signal is never lost: one that has been caught, be it while the server is
\* still being built, leads to the end of the REST server or of the process.
CaughtSignalEndsServer ==
  (awaitStop = "signalled" \/ undelivered) ~> (process = "ended" \/ rest = "gone")

\* The wait is not armed again, so that further signals are swallowed: but only
\* until run() has returned, not for the rest of the monitor's life.
SwallowsForAWhile ==
  (rest = "serving" /\ awaitStop = "none") ~> (process = "ended" \/ registered = {})

\* The server that is being built is one that has been built and whose first
\* operations are outstanding already; a signal that waits has completed.
Built == rest \in {"serving", "returning", "gone"}

BuiltServer == INSTANCE HttpServer WITH
  running   <- ~Built \/ running,
  acceptor  <- IF Built THEN acceptor ELSE "open",
  accepting <- IF Built THEN accepting ELSE "pending",
  awaitStop <- IF Built \/ rest = "binding" THEN awaitStop
               ELSE IF undelivered THEN "signalled" ELSE "pending"

\* What HttpServer says of a server that starts out built is true of the one in
\* the process, with signals that come before it is built and go on coming.
ImplementsHttpServer == BuiltServer!Safety

=============================================================================
