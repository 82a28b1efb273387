--------------------------- MODULE MonitorService ---------------------------
(***************************************************************************)
(* ESBManager::StartMonitorService: the thread that sends the container    *)
(* one gogo command per iteration, in the cycle list, start, stop, info,   *)
(* and decides from the last `list` what the next `start` names.  A        *)
(* command is three steps, so that the container can change in between:    *)
(* popen, the client's execution, and what the loop does with its output.  *)
(*                                                                         *)
(* The flags gogoReady, fireCommandOperationInProgress and continueRunning *)
(* are left out: once InitializeAndStart has created this thread nothing   *)
(* changes them, and they let every iteration through.  The objects behind *)
(* the pointers of bundlesWithNameAndId are its values.                    *)
(***************************************************************************)
EXTENDS Karaf

VARIABLES
  pc,                   \* where the monitor thread is
  lastCommandStr,       \* the command this iteration sends
  streamContent,        \* what FireCommandExecVP has read from the client
  bundlesWithNameAndId, \* the cached table of bundles, by name
  deadBundles, failedBundles,
  bundlesToStart,       \* ids of the start command, by position in KeepAlive
  currentSystemInfo     \* is the shared SystemInfo a parsed one?

tableVars   == <<bundlesWithNameAndId, deadBundles, failedBundles, bundlesToStart>>
monitorVars == <<pc, lastCommandStr, streamContent, tableVars, currentSystemInfo>>
vars        == <<karafVars, monitorVars>>

GOGO_LIST            == "list"
GOGO_START_BUNDLE    == "start"
GOGO_STOP_BUNDLE     == "stop"
GOGO_GET_SYSTEM_INFO == "info"

Commands == {GOGO_LIST, GOGO_START_BUNDLE, GOGO_STOP_BUNDLE, GOGO_GET_SYSTEM_INFO}

Row == [name : Names, state : STRING, spring : STRING]

NoRows == [i \in {} |-> {}]
Silence == [rows |-> NoRows, info |-> FALSE]

TypeOK ==
  /\ KarafTypeOK
  /\ pc \in {"poll", "reading", "drained", "crashed"}
  /\ lastCommandStr \in Commands \cup {""}
  /\ DOMAIN streamContent.rows \subseteq DOMAIN installed
  /\ streamContent.rows \in [DOMAIN streamContent.rows -> Row]
  /\ streamContent.info \in BOOLEAN
  /\ DOMAIN bundlesWithNameAndId \subseteq Names
  /\ bundlesWithNameAndId \in [DOMAIN bundlesWithNameAndId -> Bundle]
  /\ deadBundles \subseteq Ids
  /\ failedBundles \subseteq Ids
  /\ DOMAIN bundlesToStart \subseteq DOMAIN KeepAlive
  /\ bundlesToStart \in [DOMAIN bundlesToStart -> Ids]
  /\ currentSystemInfo \in {"default", "parsed"}

Init ==
  /\ KarafInit
  /\ pc = "poll"
  /\ lastCommandStr = ""
  /\ streamContent = Silence
  /\ bundlesWithNameAndId = [n \in {} |-> {}]
  /\ deadBundles = {}
  /\ failedBundles = {}
  /\ bundlesToStart = [k \in {} |-> {}]
  /\ currentSystemInfo = "default"

-----------------------------------------------------------------------------
(* FireCommandExecVP *)

\* The very first iteration only sets the command.
FirstIteration ==
  /\ pc = "poll"
  /\ lastCommandStr = ""
  /\ lastCommandStr' = GOGO_LIST
  /\ UNCHANGED <<karafVars, pc, streamContent, tableVars, currentSystemInfo>>

\* popen has started the client.
Fork ==
  /\ pc = "poll"
  /\ lastCommandStr \in Commands
  /\ pc' = "reading"
  /\ streamContent' = Silence
  /\ UNCHANGED <<karafVars, lastCommandStr, tableVars, currentSystemInfo>>

\* popen returned NULL, which goes to pclose all the same: undefined, it
\* returns on some builds and takes the process down on others.
PopenFails ==
  /\ pc = "poll"
  /\ lastCommandStr \in Commands
  /\ pc' \in {"drained", "crashed"}
  /\ streamContent' = Silence
  /\ UNCHANGED <<karafVars, lastCommandStr, tableVars, currentSystemInfo>>

\* The client does its work in the container and its output is read to the end.
Drain(c) ==
  /\ pc = "reading"
  /\ lastCommandStr = c
  /\ pc' = "drained"
  /\ UNCHANGED <<lastCommandStr, tableVars, currentSystemInfo>>

RequestedIds == {bundlesToStart[k] : k \in DOMAIN bundlesToStart}

ClientList ==
  /\ Drain(GOGO_LIST)
  /\ streamContent' \in [rows : ListReplies, info : {FALSE}]
  /\ UNCHANGED karafVars

ClientStart ==
  /\ Drain(GOGO_START_BUNDLE)
  /\ StartEffect(IF up THEN RequestedIds ELSE {})
  /\ UNCHANGED streamContent

\* bundlesToStop is never set: `stop` names no bundle.
ClientStop ==
  /\ Drain(GOGO_STOP_BUNDLE)
  /\ UNCHANGED <<karafVars, streamContent>>

ClientInfo ==
  /\ Drain(GOGO_GET_SYSTEM_INFO)
  /\ streamContent' \in [rows : {NoRows}, info : IF up THEN {TRUE} ELSE BOOLEAN]
  /\ UNCHANGED karafVars

-----------------------------------------------------------------------------
(* What the loop does with the output *)

Finish(c, next) ==
  /\ pc = "drained"
  /\ lastCommandStr = c
  /\ pc' = "poll"
  /\ lastCommandStr' = next
  /\ UNCHANGED <<karafVars, streamContent>>

\* Faulty variant: a table is replaced when bundles have gone only.
FaultyKeep(cached, listed) ==
  IF Cardinality(DOMAIN cached) > Cardinality(DOMAIN listed) THEN listed ELSE cached

\* The cached table gives way to a listing of another size only.
Keep(cached, listed) ==
  IF Cardinality(DOMAIN cached) # Cardinality(DOMAIN listed) THEN listed ELSE cached

\* Faulty variant: the views are taken from a listing that is then thrown away.
FaultyListDone ==
  /\ Finish(GOGO_LIST, GOGO_START_BUNDLE)
  /\ LET listed == MapBundleNamesToBundlesId(streamContent.rows)
         kept   == Keep(bundlesWithNameAndId, listed)
     IN  /\ deadBundles' = GetDeadBundles(listed)
         /\ failedBundles' = GetFailedBundles(listed)
         /\ bundlesToStart' = BuildBundlesToStart(kept)
         /\ bundlesWithNameAndId' = CountRestarts(kept)
  /\ UNCHANGED currentSystemInfo

ListDone ==
  /\ Finish(GOGO_LIST, GOGO_START_BUNDLE)
  /\ LET kept == Keep(bundlesWithNameAndId, MapBundleNamesToBundlesId(streamContent.rows))
     IN  /\ deadBundles' = GetDeadBundles(kept)
         /\ failedBundles' = GetFailedBundles(kept)
         /\ bundlesToStart' = BuildBundlesToStart(kept)
         /\ bundlesWithNameAndId' = CountRestarts(kept)
  /\ UNCHANGED currentSystemInfo

StartDone ==
  /\ Finish(GOGO_START_BUNDLE, GOGO_STOP_BUNDLE)
  /\ UNCHANGED <<tableVars, currentSystemInfo>>

\* Faulty variant: the cycle closes without the info command.
FaultyStopDone ==
  /\ Finish(GOGO_STOP_BUNDLE, GOGO_LIST)
  /\ UNCHANGED <<tableVars, currentSystemInfo>>

StopDone ==
  /\ Finish(GOGO_STOP_BUNDLE, GOGO_GET_SYSTEM_INFO)
  /\ UNCHANGED <<tableVars, currentSystemInfo>>

GetSystemInfo(info) == IF info THEN "parsed" ELSE "default"

\* SystemInfo::operator= copies nothing.
AssignSystemInfo(target, other) == target

InfoDone ==
  /\ Finish(GOGO_GET_SYSTEM_INFO, GOGO_LIST)
  /\ currentSystemInfo' =
       AssignSystemInfo(currentSystemInfo, GetSystemInfo(streamContent.info))
  /\ UNCHANGED tableVars

-----------------------------------------------------------------------------
Client == ClientList \/ ClientStart \/ ClientStop \/ ClientInfo

Done == ListDone \/ StartDone \/ StopDone \/ InfoDone

MonitorNext ==
  \/ FirstIteration
  \/ Fork
  \/ PopenFails
  \/ Client
  \/ Done

Next == MonitorNext \/ (KarafNext /\ UNCHANGED monitorVars)

\* The thread is scheduled, every client ends, and popen fails finitely often.
\* The container owes nothing.
Fairness ==
  /\ WF_vars(FirstIteration \/ Fork \/ Client \/ Done)
  /\ <>[][~PopenFails]_vars

Safety == Init /\ [][Next]_vars
Spec   == Safety /\ Fairness

-----------------------------------------------------------------------------
(* Properties *)

Configured == {KeepAlive[k] : k \in DOMAIN KeepAlive}

\* Every id of the start command is the id its configured bundle was
\* installed under, however stale the table it was taken from, and whatever
\* was taken away or installed since (BuildBundlesToStart).
StartIdsNameConfigured ==
  \A k \in DOMAIN bundlesToStart :
    /\ bundlesToStart[k] \in DOMAIN installed
    /\ installed[bundlesToStart[k]] = KeepAlive[k]

\* One poll hands out one picture: the bundles asked to start, the dead and
\* the failed ones and the restart counters all speak of the cached table,
\* also when a new listing was thrown away (StartMonitorService, list branch).
OnePicture ==
  /\ deadBundles = GetDeadBundles(bundlesWithNameAndId)
  /\ failedBundles = GetFailedBundles(bundlesWithNameAndId)
  /\ \A n \in DOMAIN bundlesWithNameAndId :
       bundlesWithNameAndId[n].restarts > 0 <=>
         \E k \in DOMAIN bundlesToStart : bundlesToStart[k] = bundlesWithNameAndId[n].id

\* The manager never changes the condition of a bundle that is not configured,
\* even with ids it cached before the container changed (FireCommandExecVP with
\* the start command).  It does send the ids of bundles that have recovered since
\* they were listed; that this changes nothing is the container's (StartEffect).
OnlyConfiguredStarted ==
  [][pc = "reading" /\ pc' = "drained" =>
       \A i \in DOMAIN deployed :
         deployed'[i] # deployed[i] => installed[i] \in Configured]_vars

Defective(i) ==
  /\ i \in DOMAIN deployed
  /\ installed[i] \in Configured
  /\ NeedsStart(deployed[i])

StartInFlight(i) ==
  lastCommandStr = GOGO_START_BUNDLE /\ pc = "reading" /\ i \in RequestedIds

\* When the table is empty, as it is at start and after a poll that got no
\* answer, the next list command sees a bundle that stays defective and the
\* start that follows names it.
OutageLeadsToStart ==
  \A i \in 1 .. MaxInstalled :
    (/\ pc = "poll" /\ lastCommandStr = GOGO_LIST /\ DOMAIN bundlesWithNameAndId = {}
     /\ [](up /\ Defective(i)))
    ~> (StartInFlight(i) \/ pc = "crashed")

TableIds == {bundlesWithNameAndId[n].id : n \in DOMAIN bundlesWithNameAndId}

\* A table of the wrong size is mended.  When a client that was cut off has
\* shortened or emptied it, or bundles have come or gone, and from a moment between
\* two commands on the same bundles stay present and the container reachable, the
\* table comes to hold just those, whatever their conditions (the size test of
\* the list branch).
TableIsMended ==
  \A present \in SUBSET (1 .. MaxInstalled) :
    (/\ pc = "poll" /\ Cardinality(DOMAIN bundlesWithNameAndId) # Cardinality(present)
     /\ [](up /\ DOMAIN deployed = present))
    ~> (TableIds = present \/ pc = "crashed")

\* README: a defective bundle is restarted without restarting the container.
\* A configured bundle that stays defective in a reachable container is
\* sooner or later named by a start command.
DefectiveBundleRestarted ==
  \A i \in 1 .. MaxInstalled :
    [](up /\ Defective(i)) ~> (StartInFlight(i) \/ pc = "crashed")

\* The comments of SystemInfo.cpp: operator= assigns, so that what an info
\* command reported is what the shared SystemInfo holds afterwards.
SystemInfoReported ==
  [][lastCommandStr = GOGO_GET_SYSTEM_INFO /\ lastCommandStr' = GOGO_LIST
       => currentSystemInfo' = GetSystemInfo(streamContent.info)]_vars

-----------------------------------------------------------------------------
\* What the container is promised: see CommandCycle.
Cycle == INSTANCE CommandCycle WITH
  turn <- IF pc = "crashed" THEN "halted" ELSE lastCommandStr,
  request <- bundlesToStart

\* The loop of StartMonitorService implements the command cycle.
ImplementsCycle == Cycle!Spec

=============================================================================
