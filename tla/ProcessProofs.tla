--------------------------- MODULE ProcessProofs ---------------------------
(***************************************************************************)
(* Theorems about Process for any number of connections.  The server in    *)
(* the process implements HttpServer, so that what HttpServerProofs proves *)
(* of a server that starts out built is carried over to one that is built  *)
(* while signals come.                                                     *)
(***************************************************************************)
EXTENDS Process, TLAPS

\* The theorems about HttpServer, for the server as Process maps it.
Proved == INSTANCE HttpServerProofs WITH
  running   <- ~Built \/ running,
  acceptor  <- IF Built THEN acceptor ELSE "open",
  accepting <- IF Built THEN accepting ELSE "pending",
  awaitStop <- IF Built \/ rest = "binding" THEN awaitStop
               ELSE IF undelivered THEN "signalled" ELSE "pending"

\* Before the server is built nothing of it is in use but the wait for a signal.
Unbuilt ==
  /\ running = FALSE
  /\ acceptor = "closed"
  /\ accepting = "none"
  /\ socket_ = "closed"
  /\ awaitStop \in (IF rest = "binding" THEN {"pending", "signalled"} ELSE {"none"})
  /\ connections = {}
  /\ ops = [c \in Connections |-> {}]
  /\ socket = [c \in Connections |-> "none"]
  /\ peer = [c \in Connections |-> "none"]
  /\ reply = [c \in Connections |-> "none"]

\* Where the server's thread is and what of the server there is: all signals are
\* registered before the acceptor is opened and until the server is destroyed,
\* none before and after, and run() goes on until it is destroyed, which closes
\* what an accept has left behind.
IInv ==
  /\ process \in {"running", "ended"}
  /\ rest \in {"none", "absent", "registering", "binding", "serving", "returning", "gone"}
  /\ undelivered \in BOOLEAN
  /\ running \in BOOLEAN
  /\ ~Built => Unbuilt
  /\ rest \in {"binding", "serving"} => registered = Caught
  /\ rest \notin {"registering", "binding", "serving"} => registered = {} /\ undelivered = FALSE
  /\ rest \in {"returning", "gone"} => running = FALSE /\ socket_ = "closed"

THEOREM InitEstablishes == Init => IInv
BY DEF Init, IInv, Unbuilt, Built

\* run() returns once and for all.
LEMMA RunningEnds ==
  ASSUME Server!Next
  PROVE  running' = running \/ running' = FALSE
BY DEF Server!Next, Server!Handler, Server!World, Server!Signal, Server!AcceptCompletes,
       Server!PeerLeaves, Server!BytesArrive, Server!ReplySent, Server!LinkEnds, Server!Completes,
       Server!AcceptHandler, Server!SignalHandler, Server!ReadHandler, Server!WriteHandler,
       Server!RunReturns, Server!Destroyed, Server!serverVars

\* A step of the server, or none of it.
ServerStep == In("serving") /\ Server!Next /\ UNCHANGED lifeVars

LEMMA NextCases ==
  ASSUME Next
  PROVE  Thread \/ MonitorCrashes \/ Kill \/ Deliver \/ ServerStep
BY DEF Next, Serve, ServerStep, Server!Next, Server!World

LEMMA ThreadStep ==
  ASSUME IInv, Thread
  PROVE  IInv'
<1> USE DEF IInv, Built, httpVars
<1>1. CASE CreateMonitor
  BY <1>1 DEF CreateMonitor, Unbuilt
<1>2. CASE CreateRest
  BY <1>2 DEF CreateRest, Unbuilt
<1>3. CASE AddSignal
  BY <1>3 DEF AddSignal, In, Unbuilt
<1>4. CASE AwaitStop
  BY <1>4 DEF AwaitStop, In, Unbuilt
<1>5. CASE Bind
  BY <1>5 DEF Bind, In
<1>6. CASE BindThrows
  BY <1>6 DEF BindThrows, In, Unbuilt
<1>7. CASE Destroy
  BY <1>7 DEF Destroy, In, Server!Destroyed
<1>8. CASE FallOff
  BY <1>8 DEF FallOff, In
<1> QED
  BY <1>1, <1>2, <1>3, <1>4, <1>5, <1>6, <1>7, <1>8 DEF Thread

LEMMA SignalStep ==
  ASSUME IInv, Kill \/ Deliver
  PROVE  IInv'
<1>1. CASE Kill
  BY <1>1 DEF Kill, IInv, Built, Unbuilt, httpVars
<1>2. CASE Deliver
  <2>1. /\ UNCHANGED <<process, monitor, rest, registered>>
        /\ UNCHANGED <<running, acceptor, accepting, socket_, connections, ops, socket, peer, reply>>
        /\ \/ awaitStop = "pending" /\ awaitStop' = "signalled" /\ undelivered' = undelivered
           \/ awaitStop' = awaitStop /\ undelivered' = TRUE
        /\ registered # {}
    BY <1>2 DEF Deliver, Server!Signal, Server!connVars, httpVars
  <2> QED
    BY <2>1 DEF IInv, Built, Unbuilt
<1> QED
  BY <1>1, <1>2

LEMMA NextPreserves ==
  ASSUME IInv, [Next]_vars
  PROVE  IInv'
<1>1. CASE Thread
  BY <1>1, ThreadStep
<1>2. CASE MonitorCrashes
  BY <1>2 DEF MonitorCrashes, IInv, Built, Unbuilt, httpVars
<1>3. CASE Kill \/ Deliver
  BY <1>3, SignalStep
<1>4. CASE ServerStep
  <2>1. running' \in BOOLEAN
    BY <1>4, RunningEnds DEF ServerStep, IInv
  <2> QED
    BY <1>4, <2>1 DEF ServerStep, In, IInv, Built, lifeVars
<1>5. CASE UNCHANGED vars
  BY <1>5 DEF vars, lifeVars, httpVars, IInv, Built, Unbuilt
<1> QED
  BY <1>1, <1>2, <1>3, <1>4, <1>5, NextCases

\* The threads and the signals are where IInv says, for the process's whole life.
THEOREM Invariance == Safety => []IInv
BY InitEstablishes, NextPreserves, PTL DEF Safety

-----------------------------------------------------------------------------
(* The server in the process is an HttpServer *)

LEMMA InitIsBuilt == Init => BuiltServer!Init
BY DEF Init, Built, BuiltServer!Init

\* Building the server changes nothing of the built one, and destroying it is what
\* becomes of that.
LEMMA ThreadIsBuilt ==
  ASSUME IInv, Thread \/ MonitorCrashes \/ Kill
  PROVE  BuiltServer!Destroyed \/ UNCHANGED BuiltServer!vars
<1> USE DEF BuiltServer!vars, Built, httpVars
<1>1. CASE CreateMonitor
  BY <1>1 DEF CreateMonitor
<1>2. CASE CreateRest
  BY <1>2 DEF CreateRest
<1>3. CASE AddSignal
  BY <1>3 DEF AddSignal, In
<1>4. CASE AwaitStop
  BY <1>4 DEF AwaitStop, In
<1>5. CASE Bind
  BY <1>5 DEF Bind, In
<1>6. CASE BindThrows
  BY <1>6 DEF BindThrows, In
<1>7. CASE Destroy
  BY <1>7 DEF Destroy, In, Server!Destroyed, Server!connVars, BuiltServer!Destroyed, BuiltServer!connVars
<1>8. CASE FallOff
  BY <1>8 DEF FallOff, In
<1>9. CASE MonitorCrashes \/ Kill
  BY <1>9 DEF MonitorCrashes, Kill
<1> QED
  BY <1>1, <1>2, <1>3, <1>4, <1>5, <1>6, <1>7, <1>8, <1>9 DEF Thread

\* A signal that is kept is one that has completed the built server's wait.
LEMMA DeliverIsSignal ==
  ASSUME IInv, Deliver
  PROVE  [BuiltServer!Next]_(BuiltServer!vars)
<1>1. /\ UNCHANGED <<rest, running, acceptor, accepting, socket_, connections, ops, socket, peer, reply>>
      /\ \/ awaitStop = "pending" /\ awaitStop' = "signalled" /\ undelivered' = undelivered
         \/ awaitStop # "pending" /\ awaitStop' = awaitStop /\ undelivered' = TRUE
      /\ undelivered \in BOOLEAN
      /\ rest \notin {"registering", "binding", "serving"} => registered = {}
      /\ registered # {}
      /\ rest \in {"none", "absent", "registering"} => awaitStop = "none"
  BY DEF Deliver, Server!Signal, Server!connVars, httpVars, IInv, Built, Unbuilt
<1>2. CASE rest \in {"binding", "serving"} /\ awaitStop = "pending" /\ awaitStop' = "signalled"
  BY <1>1, <1>2 DEF BuiltServer!Next, BuiltServer!World, BuiltServer!Signal, BuiltServer!connVars, Built
<1>3. CASE rest \in {"binding", "serving"} /\ awaitStop' = awaitStop
  BY <1>1, <1>3 DEF BuiltServer!vars, Built
<1>4. CASE rest = "registering" /\ undelivered = FALSE
  BY <1>1, <1>4 DEF BuiltServer!Next, BuiltServer!World, BuiltServer!Signal, BuiltServer!connVars, Built
<1>5. CASE rest = "registering" /\ undelivered = TRUE
  BY <1>1, <1>5 DEF BuiltServer!vars, Built
<1> QED
  BY <1>1, <1>2, <1>3, <1>4, <1>5 DEF IInv

\* As long as it is there the built server is the server.
LEMMA SameWhileBuilt ==
  ASSUME IInv, ServerStep
  PROVE  BuiltServer!Next
<1>1. /\ Server!Next /\ Built /\ Built'
      /\ running \in BOOLEAN /\ running' \in BOOLEAN
  BY RunningEnds DEF ServerStep, In, IInv, Built, lifeVars
<1> HIDE DEF Built
<1>2. CASE Server!AcceptHandler
  BY <1>1, <1>2 DEF Server!AcceptHandler, Server!Stopped, Server!StartConnection, Server!Pending, Server!connVars,
    BuiltServer!AcceptHandler, BuiltServer!Stopped, BuiltServer!StartConnection, BuiltServer!Pending, BuiltServer!connVars,
    BuiltServer!Next, BuiltServer!Handler
<1>3. CASE Server!SignalHandler
  BY <1>1, <1>3 DEF Server!SignalHandler, Server!StopAll, Server!AfterClose, Server!Closed, Server!Pending,
    BuiltServer!SignalHandler, BuiltServer!StopAll, BuiltServer!AfterClose, BuiltServer!Closed, BuiltServer!Pending,
    BuiltServer!Next, BuiltServer!Handler
<1>4. CASE Server!RunReturns
  BY <1>1, <1>4 DEF Server!RunReturns, Server!Outstanding, Server!connVars,
    BuiltServer!RunReturns, BuiltServer!Outstanding, BuiltServer!connVars, BuiltServer!Next, BuiltServer!Handler
<1>5. ASSUME NEW c \in Connections, NEW o \in ops[c], Server!ReadHandler(c, o)
      PROVE  BuiltServer!ReadHandler(c, o)
  BY <1>1, <1>5 DEF Server!ReadHandler, Server!Answer, Server!Rest, Server!Started, Server!Aborted, Server!LetGo,
    Server!Stop, Server!AfterClose, Server!Closed, Server!Pending, Server!serverVars,
    BuiltServer!ReadHandler, BuiltServer!Answer, BuiltServer!Rest, BuiltServer!Started, BuiltServer!Aborted,
    BuiltServer!LetGo, BuiltServer!Stop, BuiltServer!AfterClose, BuiltServer!Closed, BuiltServer!Pending,
    BuiltServer!serverVars
<1>6. ASSUME NEW c \in Connections, NEW o \in ops[c], Server!WriteHandler(c, o)
      PROVE  BuiltServer!WriteHandler(c, o)
  BY <1>1, <1>6 DEF Server!WriteHandler, Server!Rest, Server!Aborted, Server!LetGo,
    Server!Stop, Server!AfterClose, Server!Closed, Server!Pending, Server!serverVars,
    BuiltServer!WriteHandler, BuiltServer!Rest, BuiltServer!Aborted, BuiltServer!LetGo, BuiltServer!Stop,
    BuiltServer!AfterClose, BuiltServer!Closed, BuiltServer!Pending, BuiltServer!serverVars
<1>7. CASE Server!Signal \/ Server!AcceptCompletes \/ Server!Destroyed
  BY <1>1, <1>7 DEF Server!Signal, Server!AcceptCompletes, Server!Destroyed, Server!connVars,
    BuiltServer!Signal, BuiltServer!AcceptCompletes, BuiltServer!Destroyed, BuiltServer!connVars,
    BuiltServer!Next, BuiltServer!World
<1>8. ASSUME NEW c \in Connections,
             Server!PeerLeaves(c) \/ Server!BytesArrive(c) \/ Server!ReplySent(c) \/ Server!LinkEnds(c)
      PROVE  BuiltServer!PeerLeaves(c) \/ BuiltServer!BytesArrive(c) \/ BuiltServer!ReplySent(c) \/ BuiltServer!LinkEnds(c)
  BY <1>1, <1>8 DEF Server!PeerLeaves, Server!BytesArrive, Server!ReplySent, Server!LinkEnds, Server!Completes,
    Server!Pending, Server!Results, Server!serverVars,
    BuiltServer!PeerLeaves, BuiltServer!BytesArrive, BuiltServer!ReplySent, BuiltServer!LinkEnds, BuiltServer!Completes,
    BuiltServer!Pending, BuiltServer!Results, BuiltServer!serverVars
<1> QED
  BY <1>1, <1>2, <1>3, <1>4, <1>5, <1>6, <1>7, <1>8 DEF Server!Next, Server!Handler, Server!World,
    BuiltServer!Next, BuiltServer!Handler, BuiltServer!World

\* For any number of connections, and with signals that come before the server
\* is built and go on coming, the server in the process does what HttpServer
\* says of one that starts out built.
THEOREM ImplementsHttpServerHolds == Safety => ImplementsHttpServer
<1>1. IInv /\ [Next]_vars => [BuiltServer!Next]_(BuiltServer!vars)
  <2> SUFFICES ASSUME IInv, [Next]_vars
               PROVE  [BuiltServer!Next]_(BuiltServer!vars)
    OBVIOUS
  <2>1. CASE UNCHANGED vars
    BY <2>1 DEF vars, lifeVars, httpVars, BuiltServer!vars, Built
  <2> QED
    BY <2>1, NextCases, ThreadIsBuilt, DeliverIsSignal, SameWhileBuilt DEF BuiltServer!Next
<1> QED
  BY <1>1, InitIsBuilt, Invariance, PTL DEF Safety, ImplementsHttpServer, BuiltServer!Safety

-----------------------------------------------------------------------------
(* What HttpServerProofs says of the server in the process *)

\* What Process takes from HttpServer is what the theorems are about.
LEMMA SameServer == BuiltServer!Safety => Proved!Safety
<1>1. BuiltServer!Init => Proved!Init
  BY DEF BuiltServer!Init, Proved!Init
<1>2. BuiltServer!Next => Proved!Next
  <2>1. BuiltServer!AcceptHandler => Proved!AcceptHandler
    BY DEF BuiltServer!AcceptHandler, BuiltServer!Stopped, BuiltServer!StartConnection, BuiltServer!Pending,
      BuiltServer!connVars, Proved!AcceptHandler, Proved!Stopped, Proved!StartConnection, Proved!Pending,
      Proved!connVars
  <2>2. BuiltServer!SignalHandler => Proved!SignalHandler
    BY DEF BuiltServer!SignalHandler, BuiltServer!StopAll, BuiltServer!AfterClose, BuiltServer!Closed,
      BuiltServer!Pending, Proved!SignalHandler, Proved!StopAll, Proved!AfterClose, Proved!Closed,
      Proved!Pending
  <2>3. BuiltServer!RunReturns => Proved!RunReturns
    BY DEF BuiltServer!RunReturns, BuiltServer!Outstanding, BuiltServer!connVars,
      Proved!RunReturns, Proved!Outstanding, Proved!connVars
  <2>4. ASSUME NEW c \in Connections, NEW o \in ops[c]
        PROVE  /\ BuiltServer!ReadHandler(c, o) => Proved!ReadHandler(c, o)
               /\ BuiltServer!WriteHandler(c, o) => Proved!WriteHandler(c, o)
    BY DEF BuiltServer!ReadHandler, BuiltServer!WriteHandler, BuiltServer!Answer, BuiltServer!Rest,
      BuiltServer!Started, BuiltServer!Aborted, BuiltServer!LetGo, BuiltServer!Stop,
      BuiltServer!AfterClose, BuiltServer!Closed, BuiltServer!Pending, BuiltServer!serverVars,
      Proved!ReadHandler, Proved!WriteHandler, Proved!Answer, Proved!Rest, Proved!Started,
      Proved!Aborted, Proved!LetGo, Proved!Stop, Proved!AfterClose, Proved!Closed, Proved!Pending,
      Proved!serverVars
  <2>5. /\ BuiltServer!Signal => Proved!Signal
        /\ BuiltServer!AcceptCompletes => Proved!AcceptCompletes
        /\ BuiltServer!Destroyed => Proved!Destroyed
    BY DEF BuiltServer!Signal, BuiltServer!AcceptCompletes, BuiltServer!Destroyed, BuiltServer!connVars,
      Proved!Signal, Proved!AcceptCompletes, Proved!Destroyed, Proved!connVars
  <2>6. ASSUME NEW c \in Connections
        PROVE  /\ BuiltServer!PeerLeaves(c) => Proved!PeerLeaves(c)
               /\ BuiltServer!BytesArrive(c) => Proved!BytesArrive(c)
               /\ BuiltServer!ReplySent(c) => Proved!ReplySent(c)
               /\ BuiltServer!LinkEnds(c) => Proved!LinkEnds(c)
    BY DEF BuiltServer!PeerLeaves, BuiltServer!BytesArrive, BuiltServer!ReplySent, BuiltServer!LinkEnds,
      BuiltServer!Completes, BuiltServer!Pending, BuiltServer!Results, BuiltServer!serverVars,
      Proved!PeerLeaves, Proved!BytesArrive, Proved!ReplySent, Proved!LinkEnds, Proved!Completes,
      Proved!Pending, Proved!Results, Proved!serverVars
  <2> QED
    BY <2>1, <2>2, <2>3, <2>4, <2>5, <2>6 DEF BuiltServer!Next, BuiltServer!Handler, BuiltServer!World,
      Proved!Next, Proved!Handler, Proved!World
<1>3. UNCHANGED BuiltServer!vars => UNCHANGED Proved!vars
  BY DEF BuiltServer!vars, Proved!vars
<1>4. [BuiltServer!Next]_(BuiltServer!vars) => [Proved!Next]_(Proved!vars)
  BY <1>2, <1>3
<1> QED
  BY <1>1, <1>4, PTL DEF BuiltServer!Safety, Proved!Safety

\* In the process, too, no connection is kept that nothing will ever take up
\* again, and none is registered, nor its socket open, once the signal has been
\* handled.
THEOREM ServerStaysSound == Safety => [](Server!NothingForgotten /\ Server!StopIsFinal)
<1>1. Safety => [](Proved!NothingForgotten /\ Proved!StopIsFinal)
  BY ImplementsHttpServerHolds, SameServer, Proved!NothingForgottenHolds, Proved!StopIsFinalHolds, PTL
     DEF ImplementsHttpServer
<1>2. IInv /\ Proved!NothingForgotten /\ Proved!StopIsFinal => Server!NothingForgotten /\ Server!StopIsFinal
  BY DEF IInv, Built, Unbuilt, Proved!NothingForgotten, Proved!StopIsFinal,
         Server!NothingForgotten, Server!StopIsFinal
<1> QED
  BY <1>1, <1>2, Invariance, PTL

\* What Sessions promises a client holds in the process: the refinements chain.
THEOREM SessionsInProcess == Safety => Proved!ImplementsSessions
BY ImplementsHttpServerHolds, SameServer, Proved!ImplementsSessionsHolds, PTL DEF ImplementsHttpServer

\* A REST server that is gone while the process goes on was stopped by a signal,
\* and has closed every connection and what was accepted after that; one that
\* failed took the process with it.
THEOREM GoneBySignalOnlyHolds == Safety => []GoneBySignalOnly
<1>1. Safety => [](Proved!IInv /\ Proved!Finished)
  BY ImplementsHttpServerHolds, SameServer, Proved!Invariance, Proved!FinishedHolds, PTL
     DEF ImplementsHttpServer
<1>2. Safety => []Server!StopIsFinal
  BY ServerStaysSound, PTL
<1>3. IInv /\ Proved!IInv /\ Proved!Finished /\ Server!StopIsFinal => GoneBySignalOnly
  BY DEF IInv, Built, GoneBySignalOnly, Proved!IInv, Proved!TypeOK, Proved!AcceptorConsistent, Proved!Finished,
         Proved!Outstanding, Server!StopIsFinal
<1> QED
  BY <1>1, <1>2, <1>3, Invariance, PTL

\* No signal ends the process while it serves a client.
THEOREM ClientsAreSafeHold == Safety => ClientsAreSafe
<1>1. IInv /\ GoneBySignalOnly /\ [Next]_vars => [Kill => connections = {}]_vars
  BY DEF IInv, Built, Unbuilt, GoneBySignalOnly, Kill
<1> QED
  BY <1>1, GoneBySignalOnlyHolds, Invariance, PTL DEF Safety, ClientsAreSafe

=============================================================================
