-------------------------- MODULE HttpServerProofs --------------------------
(***************************************************************************)
(* Theorems about HttpServer for any number of connections.                *)
(***************************************************************************)
EXTENDS HttpServer, TLAPS

\* What ties the sockets, the register and the outstanding operations of one
\* connection together: a registered connection is open and waits, an open
\* one is registered, only an open socket has a pending operation, only a
\* closed one an aborted one, an error on an open one means that the client has
\* gone, and a reply exists from the end of reading on.
Consistent(c) ==
  /\ c \in connections <=> socket[c] = "open"
  /\ c \in connections => ops[c] # {}
  /\ socket[c] = "none" => ops[c] = {} /\ reply[c] = "none"
  /\ socket[c] = "none" <=> peer[c] = "none"
  /\ \A o \in ops[c] : /\ o.ec = "pending" => socket[c] = "open"
                       /\ o.ec = "aborted" => socket[c] = "closed"
                       /\ o.ec = "error" => socket[c] = "closed" \/ peer[c] = "gone"
                       /\ o.kind = "read" <=> reply[c] = "none"

\* The acceptor is open as long as the signal has not been handled, an accept is
\* outstanding all that time, and the server's socket is open from its completion
\* to its handler; run() goes on at least that long.
AcceptorConsistent ==
  /\ acceptor = "open" <=> awaitStop # "none"
  /\ acceptor = "open" => running /\ accepting # "none"
  /\ acceptor = "open" => (socket_ = "open" <=> accepting = "accepted")
  /\ acceptor = "closed" => accepting # "pending" /\ connections = {}

IInv ==
  /\ TypeOK
  /\ AcceptorConsistent
  /\ \A c \in Connections : Consistent(c)

-----------------------------------------------------------------------------

THEOREM InitEstablishes == Init => IInv
BY DEF Init, IInv, TypeOK, AcceptorConsistent, Consistent

\* What closing the socket of a connection can leave of its operation: it has
\* completed, and as aborted only if it had not before or was aborted then.
LEMMA AfterCloseType ==
  ASSUME NEW os \in {{}} \cup {{o} : o \in Ops}, NEW os1 \in AfterClose(os)
  PROVE  /\ os1 \in {{}} \cup {{o} : o \in Ops}
         /\ \A o \in os1 : o.ec # "pending"
         /\ \A o1 \in os1 : \E o \in os : o1.kind = o.kind
<1>1. CASE os = {}
  BY <1>1 DEF AfterClose
<1>2. ASSUME NEW o \in Ops, os = {o}
      PROVE  /\ os1 \in {{}} \cup {{p} : p \in Ops}
             /\ \A p \in os1 : p.ec # "pending"
             /\ \A o1 \in os1 : \E p \in os : o1.kind = p.kind
  <2>1. CASE o = Pending("write")
    <3>1. os1 \in {{[kind |-> "write", ec |-> ec]} : ec \in {"aborted", "error"}}
      BY <1>2, <2>1 DEF AfterClose
    <3>2. \A ec \in {"aborted", "error"} : [kind |-> "write", ec |-> ec] \in Ops
      BY DEF Ops, WriteOps
    <3> QED
      BY <1>2, <2>1, <3>1, <3>2 DEF Pending
  <2>2. CASE o = Pending("read")
    <3>0. Pending("read") # Pending("write")
      BY DEF Pending
    <3>1. os1 = {[kind |-> "read", ec |-> "aborted"]}
      BY <1>2, <2>2, <3>0 DEF AfterClose
    <3>2. [kind |-> "read", ec |-> "aborted"] \in Ops
      BY DEF Ops, ReadOps
    <3> QED
      BY <1>2, <2>2, <3>1, <3>2 DEF Pending
  <2>3. CASE o # Pending("read") /\ o # Pending("write")
    <3>1. os1 = {o}
      BY <1>2, <2>3 DEF AfterClose
    <3>2. o.ec # "pending"
      BY <2>3 DEF Ops, ReadOps, WriteOps, Pending
    <3> QED
      BY <1>2, <3>1, <3>2
  <2> QED
    BY <2>1, <2>2, <2>3
<1> QED
  BY <1>1, <1>2

\* A step of one connection that is no accept keeps the invariant when it keeps
\* the types and the part about that connection.
LEMMA OneConnection ==
  ASSUME IInv, UNCHANGED serverVars, connections' \subseteq connections,
         TypeOK', NEW c \in Connections, Consistent(c)',
         \A d \in Connections \ {c} :
           /\ ops'[d] = ops[d]
           /\ socket'[d] = socket[d]
           /\ peer'[d] = peer[d]
           /\ reply'[d] = reply[d]
           /\ d \in connections' <=> d \in connections
  PROVE  IInv'
<1>1. AcceptorConsistent'
  BY DEF IInv, AcceptorConsistent, serverVars, TypeOK
<1>2. ASSUME NEW d \in Connections
      PROVE  Consistent(d)'
  <2>1. CASE d = c
    BY <2>1
  <2>2. CASE d # c
    BY <2>2 DEF IInv, Consistent
  <2> QED
    BY <2>1, <2>2
<1> QED
  BY <1>1, <1>2 DEF IInv

\* A pending operation completes with a result of its kind.
LEMMA CompletesStep ==
  ASSUME IInv, NEW c \in Connections, NEW kind, NEW ec, Completes(c, kind, ec),
         [kind |-> kind, ec |-> ec] \in Ops, ec \notin {"pending", "aborted"},
         ec = "error" => peer[c] = "gone"
  PROVE  IInv'
<1> DEFINE before == Pending(kind)
           after  == [kind |-> kind, ec |-> ec]
<1>1. ops[c] = {before} /\ ops'[c] = {after}
  BY DEF Completes, IInv, TypeOK
<1>2. \A d \in Connections \ {c} : ops'[d] = ops[d]
  BY DEF Completes, IInv, TypeOK
<1>3. UNCHANGED <<running, acceptor, accepting, socket_, awaitStop, connections, socket, peer, reply>>
  BY DEF Completes, serverVars
<1>4. ops' \in [Connections -> {{}} \cup {{o} : o \in Ops}]
  BY <1>1, <1>2 DEF Completes, IInv, TypeOK
<1>5. TypeOK'
  BY <1>3, <1>4 DEF IInv, TypeOK
<1>6. after.ec = ec /\ after.kind = kind /\ before.kind = kind
  BY DEF Pending
<1> HIDE DEF before, after
<1>7. Consistent(c)'
  BY <1>1, <1>3, <1>6 DEF IInv, Consistent
<1> QED
  BY <1>2, <1>3, <1>5, <1>7, OneConnection DEF serverVars

\* connection_manager::stop, called by the handler of the only operation.
LEMMA StopStep ==
  ASSUME IInv, NEW c \in Connections, NEW o \in Ops, ops[c] = {o},
         UNCHANGED <<serverVars, peer, reply>>, Stop(c, {})
  PROVE  IInv'
<1>1. AfterClose({}) = {{}}
  BY DEF AfterClose
<1>2. ops' = [ops EXCEPT ![c] = {}]
  BY <1>1 DEF Stop
<1>3. /\ connections' = connections \ {c}
      /\ socket' = [socket EXCEPT ![c] = Closed(@)]
      /\ UNCHANGED <<running, acceptor, accepting, socket_, awaitStop, peer, reply>>
  BY DEF Stop, serverVars
<1>4. socket[c] \in {"open", "closed"}
  BY DEF IInv, Consistent, TypeOK
<1>5. socket'[c] = "closed" /\ ops'[c] = {}
  BY <1>2, <1>3, <1>4 DEF IInv, TypeOK, Closed
<1>6. TypeOK'
  BY <1>2, <1>3, <1>4 DEF IInv, TypeOK, Closed
<1>7. Consistent(c)'
  BY <1>3, <1>4, <1>5 DEF IInv, Consistent
<1> QED
  BY <1>2, <1>3, <1>6, <1>7, OneConnection DEF IInv, TypeOK, serverVars

\* A handler that starts another operation after its own.
LEMMA ContinueStep ==
  ASSUME IInv, NEW c \in Connections, NEW o \in Ops, ops[c] = {o},
         NEW next \in Ops, ops' = [ops EXCEPT ![c] = {next}],
         UNCHANGED <<serverVars, connections, socket, peer>>,
         NEW r \in {"handled", "bad_request"},
         reply' = reply \/ reply' = [reply EXCEPT ![c] = r],
         next.ec \in {"pending", "error"},
         next.ec = "pending" <=> socket[c] = "open",
         \/ next.kind = "read" /\ o.kind = "read" /\ reply' = reply
         \/ next.kind = "write" /\ reply' = [reply EXCEPT ![c] = r]
  PROVE  IInv'
<1>1. UNCHANGED <<running, acceptor, accepting, socket_, awaitStop, connections, socket, peer>>
  BY DEF serverVars
<1>2. socket[c] # "none"
  BY DEF IInv, Consistent
<1>3. /\ ops'[c] = {next}
      /\ \A d \in Connections \ {c} : ops'[d] = ops[d] /\ reply'[d] = reply[d]
  BY DEF IInv, TypeOK
<1>4. TypeOK'
  <2>1. ops' \in [Connections -> {{}} \cup {{p} : p \in Ops}]
    BY DEF IInv, TypeOK
  <2>2. reply' \in [Connections -> {"none", "handled", "bad_request"}]
    BY DEF IInv, TypeOK
  <2> QED
    BY <1>1, <2>1, <2>2 DEF IInv, TypeOK
<1>5. Consistent(c)'
  <2>1. socket[c] \in {"open", "closed"}
    BY <1>2 DEF IInv, TypeOK
  <2>2. next.kind = "read" <=> reply'[c] = "none"
    <3>1. o.kind = "read" <=> reply[c] = "none"
      BY DEF IInv, Consistent
    <3>2. CASE next.kind = "read" /\ o.kind = "read" /\ reply' = reply
      BY <3>1, <3>2
    <3>3. CASE next.kind = "write" /\ reply' = [reply EXCEPT ![c] = r]
      BY <3>3 DEF IInv, TypeOK
    <3> QED
      BY <3>2, <3>3
  <2>3. peer[c] # "none"
    BY <1>2 DEF IInv, Consistent
  <2>4. next.ec # "aborted" /\ (next.ec = "error" => socket[c] = "closed")
    BY <2>1
  <2>5. /\ c \in connections' <=> socket'[c] = "open"
        /\ c \in connections' => ops'[c] # {}
    BY <1>1, <1>3 DEF IInv, Consistent
  <2> QED
    BY <1>1, <1>2, <1>3, <2>2, <2>3, <2>4, <2>5 DEF Consistent
<1> QED
  BY <1>1, <1>3, <1>4, <1>5, OneConnection

\* A handler that starts none, on a connection that is not registered.
LEMMA FinishStep ==
  ASSUME IInv, NEW c \in Connections, ops[c] # {}, c \notin connections,
         ops' = [ops EXCEPT ![c] = {}],
         UNCHANGED <<serverVars, connections, socket, peer, reply>>
  PROVE  IInv'
<1>1. UNCHANGED <<running, acceptor, accepting, socket_, awaitStop, connections, socket, peer, reply>>
  BY DEF serverVars
<1>2. TypeOK'
  BY <1>1 DEF IInv, TypeOK
<1>3. Consistent(c)'
  BY <1>1 DEF IInv, TypeOK, Consistent
<1> QED
  BY <1>1, <1>2, <1>3, OneConnection DEF IInv, TypeOK

LEMMA ReadHandlerStep ==
  ASSUME IInv, NEW c \in Connections, NEW o \in ops[c], ReadHandler(c, o)
  PROVE  IInv'
<1>1. o \in Ops /\ ops[c] = {o} /\ Rest(c, o) = {}
  BY DEF IInv, TypeOK, Rest
<1>2. UNCHANGED <<serverVars, peer>> /\ o.kind = "read"
  BY DEF ReadHandler
<1>3. CASE o.ec \in {"good", "bad"}
  <2>1. PICK next : next = Started("write", socket[c])
    OBVIOUS
  <2>2. PICK r \in {"handled", "bad_request"} : reply' = [reply EXCEPT ![c] = r]
    BY <1>3 DEF ReadHandler, Answer
  <2>3. ops' = [ops EXCEPT ![c] = {next}] /\ UNCHANGED <<connections, socket>>
    BY <1>1, <1>3, <2>1 DEF ReadHandler
  <2>4. next \in Ops /\ next.kind = "write" /\ next.ec \in {"pending", "error"}
    BY <2>1 DEF Started, Ops, WriteOps
  <2>5. next.ec = "pending" <=> socket[c] = "open"
    BY <2>1 DEF Started
  <2> QED
    BY <1>1, <1>2, <2>2, <2>3, <2>4, <2>5, ContinueStep
<1>4. CASE o.ec = "indeterminate"
  <2>1. PICK next : next = Started("read", socket[c])
    OBVIOUS
  <2>2. /\ reply' = reply
        /\ ops' = [ops EXCEPT ![c] = {next}]
        /\ UNCHANGED <<connections, socket>>
    BY <1>1, <1>4, <2>1 DEF ReadHandler
  <2>3. next \in Ops /\ next.kind = "read" /\ next.ec \in {"pending", "error"}
    BY <2>1 DEF Started, Ops, ReadOps
  <2>4. next.ec = "pending" <=> socket[c] = "open"
    BY <2>1 DEF Started
  <2>5. "handled" \in {"handled", "bad_request"}
    OBVIOUS
  <2> QED
    BY <1>1, <1>2, <2>2, <2>3, <2>4, <2>5, ContinueStep
<1>5. CASE o.ec = "error"
  BY <1>1, <1>2, <1>5, StopStep DEF ReadHandler, Aborted
<1>6. CASE o.ec = "aborted"
  <2>1. reply' = reply /\ ops' = [ops EXCEPT ![c] = {}] /\ UNCHANGED <<connections, socket>>
    BY <1>1, <1>6 DEF ReadHandler, Aborted, LetGo
  <2>2. c \notin connections
    BY <1>6 DEF IInv, Consistent
  <2> QED
    BY <1>1, <1>2, <2>1, <2>2, FinishStep
<1> QED
  BY <1>3, <1>4, <1>5, <1>6 DEF ReadHandler

LEMMA WriteHandlerStep ==
  ASSUME IInv, NEW c \in Connections, NEW o \in ops[c], WriteHandler(c, o)
  PROVE  IInv'
<1>1. o \in Ops /\ ops[c] = {o} /\ Rest(c, o) = {}
  BY DEF IInv, TypeOK, Rest
<1>2. UNCHANGED <<serverVars, peer, reply>>
  BY DEF WriteHandler
<1>3. CASE o.ec # "aborted"
  BY <1>1, <1>2, <1>3, StopStep DEF WriteHandler, Aborted
<1>4. CASE o.ec = "aborted"
  <2>1. ops' = [ops EXCEPT ![c] = {}] /\ UNCHANGED <<connections, socket>>
    BY <1>1, <1>4 DEF WriteHandler, Aborted, LetGo
  <2>2. c \notin connections
    BY <1>4 DEF IInv, Consistent
  <2> QED
    BY <1>1, <1>2, <2>1, <2>2, FinishStep
<1> QED
  BY <1>3, <1>4

\* do_await_stop's handler closes everything at once.
LEMMA SignalHandlerStep ==
  ASSUME IInv, SignalHandler
  PROVE  IInv'
<1>1. /\ awaitStop' = "none" /\ acceptor' = "closed" /\ connections' = {}
      /\ accepting' = IF accepting = "pending" THEN "aborted" ELSE accepting
      /\ socket' = [c \in Connections |->
                      IF c \in connections THEN Closed(socket[c]) ELSE socket[c]]
      /\ UNCHANGED <<running, socket_, peer, reply>>
  BY DEF SignalHandler, StopAll
<1>2. ASSUME NEW c \in Connections
      PROVE  /\ ops'[c] \in {{}} \cup {{o} : o \in Ops}
             /\ Consistent(c)'
  <2>1. ops[c] \in {{}} \cup {{o} : o \in Ops}
    BY DEF IInv, TypeOK
  <2>2. CASE c \in connections
    <3>1. ops'[c] \in AfterClose(ops[c])
      BY <2>2 DEF SignalHandler, StopAll
    <3>2. /\ ops'[c] \in {{}} \cup {{o} : o \in Ops}
          /\ \A o \in ops'[c] : o.ec # "pending"
          /\ \A o1 \in ops'[c] : \E o \in ops[c] : o1.kind = o.kind
      BY <2>1, <3>1, AfterCloseType
    <3>3. socket'[c] = "closed"
      BY <1>1, <2>2 DEF IInv, Consistent, Closed
    <3> QED
      BY <1>1, <3>2, <3>3 DEF IInv, Consistent
  <2>3. CASE c \notin connections
    <3>1. ops'[c] = ops[c] /\ socket'[c] = socket[c]
      BY <1>1, <2>3 DEF SignalHandler, StopAll
    <3> QED
      BY <1>1, <2>1, <2>3, <3>1 DEF IInv, Consistent
  <2> QED
    BY <2>2, <2>3
<1>3. ops' \in [Connections -> {{}} \cup {{o} : o \in Ops}]
  <2>1. ops' = [c \in Connections |-> ops'[c]]
    BY DEF SignalHandler, StopAll
  <2> QED
    BY <1>2, <2>1
<1>4. socket' \in [Connections -> {"none", "open", "closed"}]
  BY <1>1 DEF IInv, TypeOK, Closed
<1>5. TypeOK'
  BY <1>1, <1>3, <1>4 DEF IInv, TypeOK
<1>6. AcceptorConsistent'
  BY <1>1 DEF AcceptorConsistent
<1> QED
  BY <1>2, <1>5, <1>6 DEF IInv

\* do_accept's handler starts a connection on a fresh object or none at all.
LEMMA AcceptHandlerStep ==
  ASSUME IInv, AcceptHandler
  PROVE  IInv'
<1>1. UNCHANGED <<running, acceptor, awaitStop>>
  BY DEF AcceptHandler
<1>2. CASE UNCHANGED connVars
  <2>1. UNCHANGED <<connections, ops, socket, peer, reply>>
    BY <1>2 DEF connVars
  <2>2. /\ accepting' \in {"none", "pending"}
        /\ acceptor = "open" => accepting' = "pending"
        /\ acceptor = "closed" => accepting' = "none"
        /\ acceptor = "open" => accepting # "accepted" \/ socket_' = "closed"
        /\ socket_' \in {socket_, "closed"}
    BY DEF AcceptHandler, Stopped, IInv, TypeOK
  <2>3. TypeOK'
    BY <1>1, <2>1, <2>2 DEF IInv, TypeOK
  <2>4. AcceptorConsistent'
    BY <1>1, <2>1, <2>2 DEF IInv, AcceptorConsistent
  <2>5. \A c \in Connections : Consistent(c)'
    BY <2>1 DEF IInv, Consistent
  <2> QED
    BY <2>3, <2>4, <2>5 DEF IInv
<1>3. CASE acceptor # "closed" /\ accepting = "accepted"
  <2>1. PICK c \in Connections :
          /\ socket[c] = "none"
          /\ connections' = connections \cup {c}
          /\ socket' = [socket EXCEPT ![c] = "open"]
          /\ peer' = [peer EXCEPT ![c] = "connected"]
          /\ ops' = [ops EXCEPT ![c] = {Pending("read")}]
          /\ reply' = reply
    BY <1>3 DEF AcceptHandler, Stopped, StartConnection
  <2>2. accepting' = "pending" /\ acceptor = "open" /\ socket_' = "closed"
    BY <1>3 DEF AcceptHandler, Stopped, IInv, TypeOK
  <2>3. Pending("read") \in Ops /\ Pending("read").ec = "pending"
    BY DEF Pending, Ops, ReadOps
  <2>4. TypeOK'
    BY <1>1, <2>1, <2>2, <2>3 DEF IInv, TypeOK
  <2>5. AcceptorConsistent'
    BY <1>1, <2>2 DEF IInv, AcceptorConsistent
  <2>6. ASSUME NEW d \in Connections
        PROVE  Consistent(d)'
    <3>1. CASE d = c
      <4>1. /\ ops'[d] = {Pending("read")} /\ socket'[d] = "open"
            /\ reply'[d] = "none" /\ peer'[d] = "connected"
        BY <2>1, <3>1 DEF IInv, TypeOK, Consistent
      <4> QED
        BY <2>1, <2>3, <3>1, <4>1 DEF Consistent, Pending
    <3>2. CASE d # c
      BY <2>1, <3>2 DEF IInv, TypeOK, Consistent
    <3> QED
      BY <3>1, <3>2
  <2> QED
    BY <2>4, <2>5, <2>6 DEF IInv
<1> QED
  BY <1>2, <1>3 DEF AcceptHandler, Stopped

\* The invariant is inductive.
THEOREM NextPreserves == IInv /\ [Next]_vars => IInv'
<1> SUFFICES ASSUME IInv, [Next]_vars PROVE IInv'
  OBVIOUS
<1>1. ASSUME UNCHANGED connVars, acceptor' = acceptor,
             \/ running' = running
             \/ running' \in BOOLEAN /\ acceptor = "closed",
             \/ accepting' = accepting /\ socket_' = socket_
             \/ accepting' = accepting /\ socket_' = "closed" /\ acceptor = "closed"
             \/ accepting = "pending" /\ accepting' = "error" /\ socket_' = socket_
             \/ accepting = "pending" /\ accepting' = "accepted" /\ socket_' = "open",
             \/ awaitStop' = awaitStop
             \/ awaitStop = "pending" /\ awaitStop' = "signalled"
      PROVE  IInv'
  <2>1. UNCHANGED <<connections, ops, socket, peer, reply>>
    BY <1>1 DEF connVars
  <2>2. TypeOK'
    BY <1>1, <2>1 DEF IInv, TypeOK
  <2>3. AcceptorConsistent'
    BY <1>1, <2>1 DEF IInv, AcceptorConsistent
  <2>4. \A c \in Connections : Consistent(c)'
    BY <2>1 DEF IInv, Consistent
  <2> QED
    BY <2>2, <2>3, <2>4 DEF IInv
<1>2. CASE Destroyed
  <2>1. acceptor = "closed"
    BY <1>2 DEF Destroyed, IInv, TypeOK, AcceptorConsistent
  <2> QED
    BY <1>1, <1>2, <2>1 DEF Destroyed
<1>3. CASE Signal
  BY <1>1, <1>3 DEF Signal
<1>4. CASE AcceptCompletes
  BY <1>1, <1>4 DEF AcceptCompletes
<1>5. CASE RunReturns
  <2>1. acceptor = "closed"
    BY <1>5 DEF RunReturns, Outstanding, IInv, TypeOK, AcceptorConsistent
  <2> QED
    BY <1>1, <1>5, <2>1 DEF RunReturns
<1>6. CASE UNCHANGED vars
  BY <1>1, <1>6 DEF vars, connVars
<1>7. ASSUME NEW c \in Connections, PeerLeaves(c)
      PROVE  IInv'
  <2>1. UNCHANGED <<running, acceptor, accepting, socket_, awaitStop, connections, ops, socket, reply>>
    BY <1>7 DEF PeerLeaves, serverVars
  <2>2. peer' \in [Connections -> {"none", "connected", "gone"}]
    BY <1>7 DEF PeerLeaves, IInv, TypeOK
  <2>3. \A d \in Connections : /\ peer[d] = "gone" => peer'[d] = "gone"
                               /\ peer[d] = "none" <=> peer'[d] = "none"
    BY <1>7 DEF PeerLeaves, IInv, TypeOK
  <2>4. ASSUME NEW d \in Connections
        PROVE  Consistent(d)'
    <3>1. peer[d] = "gone" => peer'[d] = "gone"
      BY <2>3
    <3>2. peer[d] = "none" <=> peer'[d] = "none"
      BY <2>3
    <3>3. Consistent(d)
      BY DEF IInv
    <3> QED
      BY <2>1, <3>1, <3>2, <3>3 DEF Consistent
  <2>5. TypeOK' /\ AcceptorConsistent'
    BY <2>1, <2>2 DEF IInv, TypeOK, AcceptorConsistent
  <2> QED
    BY <2>4, <2>5 DEF IInv
<1>8. ASSUME NEW c \in Connections, BytesArrive(c) \/ ReplySent(c) \/ LinkEnds(c)
      PROVE  IInv'
  <2>1. PICK kind \in {"read", "write"}, ec \in Results \cup {"sent", "error"} :
          /\ Completes(c, kind, ec)
          /\ kind = "read" => ec # "sent"
          /\ kind = "write" => ec \notin Results
          /\ ec = "error" => peer[c] = "gone"
    BY <1>8 DEF BytesArrive, ReplySent, LinkEnds, Results
  <2>2. [kind |-> kind, ec |-> ec] \in Ops /\ ec \notin {"pending", "aborted"}
    BY <2>1 DEF Ops, ReadOps, WriteOps, Results
  <2> QED
    BY <2>1, <2>2, CompletesStep
<1>9. CASE AcceptHandler
  BY <1>9, AcceptHandlerStep
<1>10. CASE SignalHandler
  BY <1>10, SignalHandlerStep
<1>11. ASSUME NEW c \in Connections, NEW o \in ops[c], ReadHandler(c, o) \/ WriteHandler(c, o)
       PROVE  IInv'
  BY <1>11, ReadHandlerStep, WriteHandlerStep
<1> QED
  BY <1>2, <1>3, <1>4, <1>5, <1>6, <1>7, <1>8, <1>9, <1>10, <1>11 DEF Next, Handler, World

\* What IInv says holds in every state of the server.
THEOREM Invariance == Safety => []IInv
BY InitEstablishes, NextPreserves, PTL DEF Safety

\* Every variable keeps its type; in particular no connection ever has two
\* operations outstanding.
THEOREM TypeCorrect == Safety => []TypeOK
<1>1. IInv => TypeOK
  BY DEF IInv
<1> QED
  BY <1>1, Invariance, PTL

\* No registered connection is ever left without an operation that will bring
\* it back to a handler, and no open acceptor without an accept; and what an accept
\* has brought is waiting for its handler.
THEOREM NothingForgottenHolds == Safety => []NothingForgotten
<1>1. IInv => NothingForgotten
  BY DEF IInv, TypeOK, AcceptorConsistent, Consistent, NothingForgotten
<1> QED
  BY <1>1, Invariance, PTL

\* After the signal handler no connection is registered and the socket of none is
\* open, whatever the order of accepts and the signal.
THEOREM StopIsFinalHolds == Safety => []StopIsFinal
<1>1. IInv => StopIsFinal
  BY DEF IInv, TypeOK, AcceptorConsistent, Consistent, StopIsFinal
<1> QED
  BY <1>1, Invariance, PTL

\* A reply, once written, is never written again.
THEOREM ReplyWrittenOnceHolds == Safety => ReplyWrittenOnce
<1> DEFINE Once == \A c \in Connections : reply[c] # "none" => reply'[c] = reply[c]
<1>1. IInv /\ [Next]_vars => [Once]_vars
  <2> SUFFICES ASSUME IInv, [Next]_vars, NEW c \in Connections, reply[c] # "none"
               PROVE  reply'[c] = reply[c]
    OBVIOUS
  <2>1. CASE reply' = reply
    BY <2>1
  <2>2. ASSUME NEW d \in Connections, NEW o \in ops[d], ReadHandler(d, o)
        PROVE  reply'[c] = reply[c]
    <3>1. o.kind = "read" /\ reply[d] = "none"
      BY <2>2 DEF ReadHandler, IInv, Consistent
    <3>2. d # c
      BY <3>1
    <3> QED
      BY <2>2, <3>2 DEF ReadHandler, IInv, TypeOK
  <2> QED
    BY <2>1, <2>2 DEF Next, Handler, World, Signal, AcceptCompletes, RunReturns, Destroyed, PeerLeaves,
          BytesArrive, ReplySent, LinkEnds, Completes, AcceptHandler, StartConnection, SignalHandler,
          WriteHandler, vars, connVars
<1> QED
  BY <1>1, Invariance, PTL DEF Safety, ReplyWrittenOnce

\* Once run() has returned nothing is outstanding, nor ever will be.
Finished == ~running => ~Outstanding

THEOREM FinishedHolds == Safety => []Finished
<1>1. Init => Finished
  BY DEF Init, Finished
<1>2. TypeOK /\ Finished /\ [Next]_vars => Finished'
  <2> SUFFICES ASSUME TypeOK, Finished, [Next]_vars, ~running'
               PROVE  ~Outstanding'
    BY DEF Finished
  <2>1. CASE running
    <3>1. RunReturns
      BY <2>1 DEF Next, Handler, World, Signal, AcceptCompletes, PeerLeaves, BytesArrive, ReplySent,
            LinkEnds, Completes, AcceptHandler, SignalHandler, ReadHandler, WriteHandler, Destroyed,
            serverVars, vars
    <3> QED
      BY <3>1 DEF RunReturns, Outstanding, connVars
  <2>2. CASE ~running
    <3>1. /\ accepting = "none" /\ awaitStop = "none"
          /\ \A c \in Connections : ops[c] = {}
      BY <2>2 DEF Finished, Outstanding
    <3>2. UNCHANGED <<accepting, awaitStop, ops>>
      BY <2>2, <3>1 DEF Next, Handler, World, Signal, AcceptCompletes, PeerLeaves, BytesArrive, ReplySent,
            LinkEnds, Completes, AcceptHandler, SignalHandler, ReadHandler, WriteHandler, RunReturns,
            Destroyed, serverVars, connVars, vars
    <3> QED
      BY <3>1, <3>2 DEF Outstanding
  <2> QED
    BY <2>1, <2>2 DEF TypeOK
<1> QED
  BY <1>1, <1>2, TypeCorrect, PTL DEF Safety

-----------------------------------------------------------------------------
(* The server implements Sessions *)

\* A step that leaves the register, the sockets, the replies and the clients
\* alone shows in Sessions at most as the end of run().
LEMMA NoSessionMoves ==
  ASSUME UNCHANGED <<acceptor, connections, socket, peer, reply>>
  PROVE  \/ UNCHANGED Promised!sessionVars
         \/ /\ running' # running
            /\ UNCHANGED <<acceptor = "open", [c \in Connections |-> Progress(c)],
                           {c \in Connections : peer[c] = "gone"}>>
BY DEF Progress, Promised!sessionVars

\* What a step of one connection does to its session is all it does.
LEMMA OneSession ==
  ASSUME UNCHANGED <<running, acceptor, peer>>, NEW c \in Connections,
         \A d \in Connections \ {c} :
           /\ socket'[d] = socket[d]
           /\ reply'[d] = reply[d]
           /\ d \in connections' <=> d \in connections
  PROVE  /\ UNCHANGED <<acceptor = "open", ~running, {d \in Connections : peer[d] = "gone"}>>
         /\ [d \in Connections |-> Progress(d)]' =
              [[d \in Connections |-> Progress(d)] EXCEPT ![c] = Progress(c)']
BY DEF Progress

\* A connection that is stopped was answered, or its client has left, or its
\* session was over before.
LEMMA StopIsHangUp ==
  ASSUME IInv, NEW c \in Connections, NEW o \in Ops, ops[c] = {o},
         o.ec # "aborted", o.kind = "read" => o.ec = "error",
         UNCHANGED <<serverVars, peer, reply>>, Stop(c, {})
  PROVE  Promised!HangUp(c) \/ UNCHANGED Promised!sessionVars
<1>1. /\ connections' = connections \ {c}
      /\ socket' = [socket EXCEPT ![c] = Closed(@)]
      /\ UNCHANGED <<running, acceptor, peer, reply>>
  BY DEF Stop, serverVars
<1>2. socket[c] \in {"open", "closed"} /\ socket'[c] = "closed"
  BY <1>1 DEF IInv, Consistent, TypeOK, Closed
<1>3. \A d \in Connections \ {c} :
         /\ socket'[d] = socket[d]
         /\ reply'[d] = reply[d]
         /\ d \in connections' <=> d \in connections
  BY <1>1 DEF IInv, TypeOK
<1>4. /\ UNCHANGED <<acceptor = "open", ~running, {d \in Connections : peer[d] = "gone"}>>
      /\ [d \in Connections |-> Progress(d)]' =
           [[d \in Connections |-> Progress(d)] EXCEPT ![c] = Progress(c)']
  BY <1>1, <1>3, OneSession
<1>5. Progress(c)' = "over"
  BY <1>1, <1>2 DEF Progress
<1>6. CASE c \notin connections
  <2>1. Progress(c) = "over"
    BY <1>2, <1>6 DEF Progress
  <2>2. UNCHANGED [d \in Connections |-> Progress(d)]
    BY <1>4, <1>5, <2>1
  <2> QED
    BY <1>4, <2>2 DEF Promised!sessionVars
<1>7. CASE c \in connections
  <2>1. Progress(c) = IF reply[c] = "none" THEN "open" ELSE reply[c]
    BY <1>2, <1>7 DEF Progress
  <2>2. CASE o.kind = "write"
    <3>1. reply[c] \in {"handled", "bad_request"}
      BY <2>2 DEF IInv, TypeOK, Consistent
    <3>2. Progress(c) \in {"handled", "bad_request"}
      BY <2>1, <3>1
    <3> QED
      BY <1>4, <1>5, <3>2 DEF Promised!HangUp, Promised!Passes, Promised!Answers
  <2>3. CASE o.kind = "read"
    <3>1. peer[c] = "gone" /\ reply[c] = "none"
      BY <1>7, <2>3 DEF IInv, Consistent
    <3>2. Progress(c) = "open"
      BY <2>1, <3>1
    <3> QED
      BY <1>4, <1>5, <3>1, <3>2 DEF Promised!HangUp, Promised!Passes
  <2> QED
    BY <2>2, <2>3 DEF Ops, ReadOps, WriteOps
<1> QED
  BY <1>6, <1>7

LEMMA ReadIsPromised ==
  ASSUME IInv, NEW c \in Connections, NEW o \in ops[c], ReadHandler(c, o)
  PROVE  [Promised!Next]_(Promised!sessionVars)
<1>1. o \in Ops /\ ops[c] = {o} /\ Rest(c, o) = {}
  BY DEF IInv, TypeOK, Rest
<1>2. UNCHANGED <<serverVars, peer>> /\ o.kind = "read"
  BY DEF ReadHandler
<1>3. CASE o.ec \in {"good", "bad"}
  <2>1. PICK r \in {"handled", "bad_request"} : reply' = [reply EXCEPT ![c] = r]
    BY <1>3 DEF ReadHandler, Answer
  <2>2. UNCHANGED <<running, acceptor, peer, connections, socket>>
    BY <1>2, <1>3 DEF ReadHandler, serverVars
  <2>3. /\ UNCHANGED <<acceptor = "open", ~running, {d \in Connections : peer[d] = "gone"}>>
        /\ [d \in Connections |-> Progress(d)]' =
             [[d \in Connections |-> Progress(d)] EXCEPT ![c] = Progress(c)']
    BY <2>1, <2>2, OneSession DEF IInv, TypeOK
  <2>4. /\ reply[c] = "none" /\ reply'[c] = r
        /\ socket[c] # "none"
    BY <1>1, <1>2, <2>1 DEF IInv, TypeOK, Consistent
  <2>5. CASE c \in connections
    <3>1. Progress(c) = "open" /\ Progress(c)' = r
      BY <2>2, <2>4, <2>5 DEF Progress
    <3> QED
      BY <2>3, <3>1 DEF Promised!Next, Promised!Answer, Promised!Passes, Promised!Answers
  <2>6. CASE c \notin connections
    <3>1. Progress(c) = "over" /\ Progress(c)' = "over"
      BY <2>2, <2>4, <2>6 DEF Progress
    <3> QED
      BY <2>3, <3>1 DEF Promised!sessionVars
  <2> QED
    BY <2>5, <2>6
<1>4. CASE o.ec = "indeterminate" \/ o.ec = "aborted"
  <2>1. UNCHANGED <<running, acceptor, connections, socket, peer, reply>>
    BY <1>2, <1>4 DEF ReadHandler, Aborted, LetGo, serverVars
  <2> QED
    BY <2>1, NoSessionMoves
<1>5. CASE o.ec = "error"
  BY <1>1, <1>2, <1>5, StopIsHangUp DEF ReadHandler, Aborted, Promised!Next
<1> QED
  BY <1>3, <1>4, <1>5 DEF ReadHandler

LEMMA WriteIsPromised ==
  ASSUME IInv, NEW c \in Connections, NEW o \in ops[c], WriteHandler(c, o)
  PROVE  [Promised!Next]_(Promised!sessionVars)
<1>1. o \in Ops /\ ops[c] = {o} /\ Rest(c, o) = {}
  BY DEF IInv, TypeOK, Rest
<1>2. UNCHANGED <<serverVars, peer, reply>> /\ o.kind = "write"
  BY DEF WriteHandler
<1>3. CASE o.ec = "aborted"
  <2>1. UNCHANGED <<running, acceptor, connections, socket, peer, reply>>
    BY <1>2, <1>3 DEF WriteHandler, Aborted, LetGo, serverVars
  <2> QED
    BY <2>1, NoSessionMoves
<1>4. CASE o.ec # "aborted"
  BY <1>1, <1>2, <1>4, StopIsHangUp DEF WriteHandler, Aborted, Promised!Next
<1> QED
  BY <1>3, <1>4

\* A connection is started in the first state of its session.
LEMMA AcceptIsPromised ==
  ASSUME IInv, AcceptHandler
  PROVE  [Promised!Next]_(Promised!sessionVars)
<1>1. UNCHANGED <<running, acceptor>>
  BY DEF AcceptHandler
<1>2. CASE UNCHANGED connVars
  BY <1>1, <1>2, NoSessionMoves DEF connVars
<1>3. CASE acceptor # "closed" /\ accepting = "accepted"
  <2>1. PICK c \in Connections : StartConnection(c)
    BY <1>3 DEF AcceptHandler, Stopped
  <2>2. /\ socket[c] = "none" /\ socket'[c] = "open"
        /\ c \in connections' /\ reply'[c] = "none"
        /\ peer[c] # "gone" /\ peer' = [peer EXCEPT ![c] = "connected"]
    BY <2>1 DEF StartConnection, IInv, TypeOK, Consistent
  <2>3. Progress(c) = "new" /\ Progress(c)' = "open"
    BY <2>2 DEF Progress
  <2>4. \A d \in Connections \ {c} : Progress(d)' = Progress(d)
    BY <2>1 DEF StartConnection, IInv, TypeOK, Progress
  <2>5. [d \in Connections |-> Progress(d)]' =
          [[d \in Connections |-> Progress(d)] EXCEPT ![c] = "open"]
    BY <2>3, <2>4
  <2>6. UNCHANGED {d \in Connections : peer[d] = "gone"}
    BY <2>2 DEF IInv, TypeOK
  <2>7. acceptor = "open"
    BY <1>3 DEF IInv, TypeOK
  <2> QED
    BY <1>1, <2>3, <2>5, <2>6, <2>7 DEF Promised!Next, Promised!Begin, Promised!Passes
<1> QED
  BY <1>2, <1>3 DEF AcceptHandler, Stopped

LEMMA SignalIsPromised ==
  ASSUME IInv, SignalHandler
  PROVE  Promised!Shutdown
<1>1. /\ acceptor = "open" /\ acceptor' = "closed" /\ connections' = {}
      /\ UNCHANGED <<running, peer, reply>>
      /\ socket' = [c \in Connections |->
                      IF c \in connections THEN Closed(socket[c]) ELSE socket[c]]
  BY DEF SignalHandler, StopAll, IInv, AcceptorConsistent
<1>2. ASSUME NEW c \in Connections
      PROVE  Progress(c)' = IF Progress(c) = "new" THEN "new" ELSE "over"
  <2>1. socket'[c] = "none" <=> socket[c] = "none"
    BY <1>1 DEF Closed
  <2>2. Progress(c) = "new" <=> socket[c] = "none"
    BY DEF Progress, IInv, TypeOK
  <2> QED
    BY <1>1, <2>1, <2>2 DEF Progress
<1>3. [c \in Connections |-> Progress(c)]' =
        [c \in Connections |->
           IF [d \in Connections |-> Progress(d)][c] = "new" THEN "new" ELSE "over"]
  BY <1>2
<1> QED
  BY <1>1, <1>3 DEF Promised!Shutdown

\* Every step of the server is a step of Sessions or none there.
LEMMA NextIsPromised ==
  ASSUME IInv, [Next]_vars
  PROVE  [Promised!Next]_(Promised!sessionVars)
<1>1. ASSUME UNCHANGED <<running, acceptor, connections, socket, peer, reply>>
      PROVE  UNCHANGED Promised!sessionVars
  BY <1>1, NoSessionMoves
<1>2. CASE Signal \/ AcceptCompletes \/ Destroyed \/ UNCHANGED vars
  BY <1>1, <1>2 DEF Signal, AcceptCompletes, Destroyed, vars, connVars
<1>3. ASSUME NEW c \in Connections, BytesArrive(c) \/ ReplySent(c) \/ LinkEnds(c)
      PROVE  UNCHANGED Promised!sessionVars
  BY <1>1, <1>3 DEF BytesArrive, ReplySent, LinkEnds, Completes, serverVars
<1>4. ASSUME NEW c \in Connections, PeerLeaves(c)
      PROVE  Promised!Leave(c)
  <2>1. /\ peer[c] = "connected" /\ peer' = [peer EXCEPT ![c] = "gone"]
        /\ UNCHANGED <<running, acceptor, connections, socket, reply>>
    BY <1>4 DEF PeerLeaves, serverVars
  <2>2. {d \in Connections : peer[d] = "gone"}' = {d \in Connections : peer[d] = "gone"} \cup {c}
    BY <2>1 DEF IInv, TypeOK
  <2>3. UNCHANGED [d \in Connections |-> Progress(d)]
    BY <2>1 DEF Progress
  <2>4. Progress(c) # "new"
    BY <2>1 DEF Progress, IInv, TypeOK, Consistent
  <2> QED
    BY <2>1, <2>2, <2>3, <2>4 DEF Promised!Leave
<1>5. CASE RunReturns
  <2>1. running /\ ~running' /\ acceptor = "closed"
    BY <1>5 DEF RunReturns, Outstanding, IInv, TypeOK, AcceptorConsistent
  <2>2. UNCHANGED <<acceptor = "open", [c \in Connections |-> Progress(c)],
                    {c \in Connections : peer[c] = "gone"}>>
    BY <1>5 DEF RunReturns, connVars, Progress
  <2> QED
    BY <2>1, <2>2 DEF Promised!Next, Promised!Exit
<1>6. CASE AcceptHandler
  BY <1>6, AcceptIsPromised
<1>7. CASE SignalHandler
  BY <1>7, SignalIsPromised DEF Promised!Next
<1>8. ASSUME NEW c \in Connections, NEW o \in ops[c], ReadHandler(c, o) \/ WriteHandler(c, o)
      PROVE  [Promised!Next]_(Promised!sessionVars)
  BY <1>8, ReadIsPromised, WriteIsPromised
<1> QED
  BY <1>2, <1>3, <1>4, <1>5, <1>6, <1>7, <1>8 DEF Next, Handler, World, Promised!Next

\* For any number of connections the handlers keep what Sessions promises.
THEOREM ImplementsSessionsHolds == Safety => ImplementsSessions
<1>1. Init => Promised!Init
  BY DEF Init, Promised!Init, Progress
<1>2. IInv /\ [Next]_vars => [Promised!Next]_(Promised!sessionVars)
  BY NextIsPromised
<1> QED
  BY <1>1, <1>2, Invariance, PTL DEF Safety, ImplementsSessions, Promised!Safety

=============================================================================
