---------------------------- MODULE CommandCycle ----------------------------
(***************************************************************************)
(* What the monitor promises the container, without cache, client or       *)
(* failures: commands come in one order for ever, unless the process ends; *)
(* the start request is settled when a list command is done and stays      *)
(* until the next one; every id in it belongs to a configured bundle.      *)
(***************************************************************************)
EXTENDS Sequences, Integers

CONSTANTS Names, KeepAlive

VARIABLES
  turn,     \* the command whose turn it is; "" before the first, "halted" after a crash
  request,  \* ids to start, by position in KeepAlive
  installed \* names in order of installation; an id is an index

cycleVars == <<turn, request, installed>>

Requests ==
  UNION {{r \in [ks -> DOMAIN installed] : \A k \in ks : installed[r[k]] = KeepAlive[k]} :
           ks \in SUBSET DOMAIN KeepAlive}

Init ==
  /\ turn = ""
  /\ request = [k \in {} |-> {}]
  /\ installed = <<>>

Pass(from, to) == turn = from /\ turn' = to /\ UNCHANGED installed

Boot  == Pass("", "list") /\ UNCHANGED request
List  == Pass("list", "start") /\ request' \in Requests
Start == Pass("start", "stop") /\ UNCHANGED request
Stop  == Pass("stop", "info") /\ UNCHANGED request
Info  == Pass("info", "list") /\ UNCHANGED request

Halt ==
  /\ turn \in {"list", "start", "stop", "info"}
  /\ turn' = "halted"
  /\ UNCHANGED <<request, installed>>

Install ==
  /\ \E n \in Names : installed' = Append(installed, n)
  /\ UNCHANGED <<turn, request>>

Turn == Boot \/ List \/ Start \/ Stop \/ Info

Next == Turn \/ Halt \/ Install

Safety == Init /\ [][Next]_cycleVars
Spec   == Safety /\ WF_cycleVars(Turn \/ Halt)

=============================================================================
