------------------------------ MODULE Sessions ------------------------------
(***************************************************************************)
(* What the REST server promises its clients, without sockets, operations  *)
(* or handlers: a client is answered at most once; nobody who stays is     *)
(* hung up on before the answer unless the server stops; the stop ends all *)
(* sessions in one step, none begins after it, and only then run() returns.*)
(***************************************************************************)
CONSTANT Connections

VARIABLES
  serving, \* new clients are taken
  exited,  \* run() has returned
  session, \* "new", "open", one of Answers, "over"
  left     \* the clients that have gone away

sessionVars == <<serving, exited, session, left>>

Answers == {"handled", "bad_request"}

Init ==
  /\ serving = TRUE
  /\ exited = FALSE
  /\ session = [c \in Connections |-> "new"]
  /\ left = {}

Passes(c, from, to) == session[c] \in from /\ session' = [session EXCEPT ![c] = to]

Begin(c) == serving /\ Passes(c, {"new"}, "open") /\ UNCHANGED <<serving, exited, left>>

Answer(c) ==
  /\ \E a \in Answers : Passes(c, {"open"}, a)
  /\ UNCHANGED <<serving, exited, left>>

HangUp(c) ==
  /\ Passes(c, Answers, "over") \/ (c \in left /\ Passes(c, {"open"}, "over"))
  /\ UNCHANGED <<serving, exited, left>>

Leave(c) ==
  /\ session[c] # "new" /\ c \notin left
  /\ left' = left \cup {c}
  /\ UNCHANGED <<serving, exited, session>>

Shutdown ==
  /\ serving
  /\ serving' = FALSE
  /\ session' = [c \in Connections |-> IF session[c] = "new" THEN "new" ELSE "over"]
  /\ UNCHANGED <<exited, left>>

Exit ==
  /\ ~serving /\ ~exited
  /\ exited' = TRUE
  /\ UNCHANGED <<serving, session, left>>

Next ==
  \/ \E c \in Connections : Begin(c) \/ Answer(c) \/ HangUp(c) \/ Leave(c)
  \/ Shutdown
  \/ Exit

Safety == Init /\ [][Next]_sessionVars

=============================================================================
