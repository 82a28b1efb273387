------------------------------- MODULE Karaf -------------------------------
(***************************************************************************)
(* The OSGi container the manager looks after, as far as the manager can   *)
(* tell: its bundles, their conditions, and whether the gogo client gets   *)
(* through.  Nothing of it is under src/; it is modelled from the commands *)
(* the manager sends it and the columns it reads back.                     *)
(***************************************************************************)
EXTENDS BundleTable

CONSTANT MaxInstalled \* bound: bundles installed in one behaviour

ASSUME InstallAssumption == MaxInstalled \in Nat

VARIABLES
  up,        \* does the gogo client reach the container?
  installed, \* names in order of installation; a bundle's id is its index
  deployed   \* condition of every bundle now present, by id

karafVars == <<up, installed, deployed>>

KarafTypeOK ==
  /\ up \in BOOLEAN
  /\ installed \in Seq(Names)
  /\ DOMAIN deployed \subseteq DOMAIN installed
  /\ deployed \in [DOMAIN deployed -> Conditions]

KarafInit ==
  /\ up = TRUE
  /\ installed = <<>>
  /\ deployed = [i \in {} |-> {}]

\* A jar appears in the deploy directory: one file, hence one bundle, per
\* name; the framework never gives an id twice.
Deploy(n, c) ==
  /\ Len(installed) < MaxInstalled
  /\ \A i \in DOMAIN deployed : installed[i] # n
  /\ installed' = Append(installed, n)
  /\ deployed' = [i \in DOMAIN deployed \cup {Len(installed) + 1} |->
                    IF i = Len(installed) + 1 THEN c ELSE deployed[i]]
  /\ UNCHANGED up

\* The jar is taken away.
Undeploy(i) ==
  /\ i \in DOMAIN deployed
  /\ deployed' = [j \in DOMAIN deployed \ {i} |-> deployed[j]]
  /\ UNCHANGED <<up, installed>>

\* A bundle fails, recovers or finishes starting by itself.
Change(i, c) ==
  /\ i \in DOMAIN deployed
  /\ up
  /\ deployed[i] # c
  /\ deployed' = [deployed EXCEPT ![i] = c]
  /\ UNCHANGED <<up, installed>>

GoDown ==
  /\ up
  /\ up' = FALSE
  /\ UNCHANGED <<installed, deployed>>

\* After an outage every bundle keeps its id and may be in any condition.
ComeUp ==
  /\ ~up
  /\ up' = TRUE
  /\ deployed' \in [DOMAIN deployed -> Conditions]
  /\ UNCHANGED installed

KarafNext ==
  \/ \E n \in Names, c \in Conditions : Deploy(n, c)
  \/ \E i \in DOMAIN deployed : Undeploy(i)
  \/ \E i \in DOMAIN deployed, c \in Conditions : Change(i, c)
  \/ GoDown
  \/ ComeUp

-----------------------------------------------------------------------------
(* What the container does for the commands of the gogo client.            *)

Rows(ids) ==
  [i \in ids |-> [name |-> installed[i], state |-> deployed[i].state,
                  spring |-> deployed[i].spring]]

\* `list`: every row, or the first rows only when the connection is lost.
ListReplies ==
  {Rows({i \in DOMAIN deployed : i <= last}) :
     last \in IF up THEN {Len(installed)} ELSE 0 .. Len(installed)}

\* `start ids`: a bundle that is running stays as it is, an id that is gone
\* is ignored, any other bundle ends up in whatever condition it gets to,
\* the old one included.
StartEffect(ids) ==
  /\ deployed' \in [DOMAIN deployed -> Conditions]
  /\ \A i \in DOMAIN deployed :
       (i \in ids /\ NeedsStart(deployed[i])) \/ deployed'[i] = deployed[i]
  /\ UNCHANGED <<up, installed>>

=============================================================================
