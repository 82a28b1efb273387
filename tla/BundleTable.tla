---------------------------- MODULE BundleTable ----------------------------
(***************************************************************************)
(* The pure part of the monitor: what ESBManager.cpp makes of the text     *)
(* that `list -l | grep file:/` prints.  A listing is a function from the  *)
(* ids of the bundle rows to their columns; rows are printed in id order.  *)
(* Text, regular expression and column widths are abstracted; the line     *)
(* numbers the loop depends on are kept.                                   *)
(***************************************************************************)
EXTENDS Integers, Sequences, FiniteSets

CONSTANTS
  Names,          \* jar names a bundle row can carry
  SystemBundles,  \* "system_bundles" of the configuration, in file order
  ProcessBundles, \* "process_bundles" of the configuration, in file order
  Conditions,     \* the pairs of state and spring columns a row can show
  PreambleLines,  \* lines the gogo client prints before the first row
  MaxRestarts     \* bound: restart counters stop counting here

ASSUME ConfigAssumption ==
  /\ SystemBundles \in Seq(Names)
  /\ ProcessBundles \in Seq(Names)

ASSUME ConditionAssumption ==
  Conditions \subseteq [state : STRING, spring : STRING]

ASSUME BoundAssumption == PreambleLines \in Nat /\ MaxRestarts \in Nat \ {0}

Ids == Nat \ {0}

\* What a Bundle object keeps of its row (id, state, spring; its name is the
\* key it is stored under), with the number of restarts counted on it.
Bundle == [id : Ids, state : STRING, spring : STRING, restarts : 0 .. MaxRestarts]

-----------------------------------------------------------------------------
(* MapBundleNamesToBundlesId: the loop starts at line 2 of the output.     *)

FirstLine == 2

LineOf(i, listing) == PreambleLines + Cardinality({j \in DOMAIN listing : j < i})

Scanned(listing) == {i \in DOMAIN listing : LineOf(i, listing) >= FirstLine}

\* A later row with the same name overwrites the earlier one.
RowFor(n, listing) ==
  CHOOSE i \in Scanned(listing) :
    /\ listing[i].name = n
    /\ \A j \in Scanned(listing) : listing[j].name = n => j <= i

\* Faulty variant: the number of the row stands in for its id column.
FaultyMapBundleNames(listing) ==
  [n \in {listing[i].name : i \in Scanned(listing)} |->
    LET i == RowFor(n, listing)
    IN  [id |-> LineOf(i, listing) - PreambleLines, state |-> listing[i].state,
         spring |-> listing[i].spring, restarts |-> 0]]

MapBundleNamesToBundlesId(listing) ==
  [n \in {listing[i].name : i \in Scanned(listing)} |->
    LET i == RowFor(n, listing)
    IN  [id |-> i, state |-> listing[i].state, spring |-> listing[i].spring,
         restarts |-> 0]]

-----------------------------------------------------------------------------
(* What one poll computes from the table of bundles.                       *)

WithState(table, s) == {table[n].id : n \in {m \in DOMAIN table : table[m].state = s}}

GetDeadBundles(table)   == WithState(table, "Dead")
GetFailedBundles(table) == WithState(table, "Failed")

\* The order in which BuildBundlesToStart walks the two configured lists.
KeepAlive == SystemBundles \o ProcessBundles

NeedsStart(bundle) == bundle.spring \notin {"Started", "Waiting"}

ToStart(table) ==
  {k \in DOMAIN KeepAlive :
     KeepAlive[k] \in DOMAIN table /\ NeedsStart(table[KeepAlive[k]])}

\* The id string of the start command: the ids at the positions of KeepAlive
\* that need a start, in that order.
BuildBundlesToStart(table) == [k \in ToStart(table) |-> table[KeepAlive[k]].id]

Capped(x) == IF x > MaxRestarts THEN MaxRestarts ELSE x

\* The objects behind the map's pointers after BuildBundlesToStart: one
\* incrementReStartCount per occurrence in the configured lists.
CountRestarts(table) ==
  [n \in DOMAIN table |->
    [table[n] EXCEPT !.restarts =
       Capped(@ + Cardinality({k \in ToStart(table) : KeepAlive[k] = n}))]]

=============================================================================
