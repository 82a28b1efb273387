------------------------ MODULE MonitorServiceProofs ------------------------
(***************************************************************************)
(* Theorems about MonitorService for every configuration, every number of  *)
(* bundles and every set of conditions, and about what its GetSystemInfo,  *)
(* which SystemInfo describes line by line, makes of every answer.         *)
(***************************************************************************)
EXTENDS MonitorService, SystemInfo, FiniteSetTheorems, SequenceTheorems,
        WellFoundedInduction, TLAPS

-----------------------------------------------------------------------------
(* The inductive invariant *)

\* The container never has two bundles of one name.
UniqueNames ==
  \A i, j \in DOMAIN deployed : installed[i] = installed[j] => i = j

\* A table names every bundle after what its id was installed as.
NamesFollowIds(table) ==
  \A n \in DOMAIN table : table[n].id \in DOMAIN installed /\ installed[table[n].id] = n

\* So does a listing, in which no name occurs twice.
RowsFollowIds ==
  /\ \A i \in DOMAIN streamContent.rows : streamContent.rows[i].name = installed[i]
  /\ \A i, j \in DOMAIN streamContent.rows : installed[i] = installed[j] => i = j

\* The start request is the one the cached table asks for, and a restart is
\* counted on exactly the bundles it asks for.
RequestFollowsTable ==
  /\ bundlesToStart = BuildBundlesToStart(bundlesWithNameAndId)
  /\ \A n \in DOMAIN bundlesWithNameAndId :
       bundlesWithNameAndId[n].restarts > 0 <=>
         \E k \in ToStart(bundlesWithNameAndId) : KeepAlive[k] = n

ViewsFollowTable ==
  /\ deadBundles = GetDeadBundles(bundlesWithNameAndId)
  /\ failedBundles = GetFailedBundles(bundlesWithNameAndId)

IInv ==
  /\ TypeOK
  /\ UniqueNames
  /\ RowsFollowIds
  /\ NamesFollowIds(bundlesWithNameAndId)
  /\ RequestFollowsTable
  /\ ViewsFollowTable

-----------------------------------------------------------------------------
(* Lemmas about the operators of BundleTable *)

\* The two configured lists together are a list of names.
LEMMA KeepAliveType == KeepAlive \in Seq(Names)
BY ConfigAssumption DEF KeepAlive

\* A positions set of KeepAlive is finite, and so is its size a number.
LEMMA OccurrencesType ==
  ASSUME NEW table, NEW n, NEW ks, ks = {k \in ToStart(table) : KeepAlive[k] = n}
  PROVE  Cardinality(ks) \in Nat /\ (Cardinality(ks) = 0 <=> ks = {})
<1>1. IsFiniteSet(1 .. Len(KeepAlive))
  BY FS_Interval, KeepAliveType
<1>2. ks \subseteq 1 .. Len(KeepAlive)
  BY KeepAliveType DEF ToStart
<1>3. IsFiniteSet(ks)
  BY <1>1, <1>2, FS_Subset
<1> QED
  BY <1>3, FS_CardinalityType, FS_EmptySet

\* When no name occurs twice among the rows of a listing, the table built
\* from it gives every name the id and the columns of its row.
LEMMA TableOfListing ==
  ASSUME NEW rows, DOMAIN rows \subseteq Ids, rows \in [DOMAIN rows -> Row],
         \A i, j \in DOMAIN rows : rows[i].name = rows[j].name => i = j,
         NEW table, table = MapBundleNamesToBundlesId(rows)
  PROVE  /\ DOMAIN table \subseteq Names
         /\ table \in [DOMAIN table -> Bundle]
         /\ \A n \in DOMAIN table : /\ table[n].id \in DOMAIN rows
                                    /\ rows[table[n].id].name = n
                                    /\ table[n].restarts = 0
<1> DEFINE found == {rows[i].name : i \in Scanned(rows)}
<1>1. Scanned(rows) \subseteq DOMAIN rows
  BY DEF Scanned
<1>2. ASSUME NEW n \in found
      PROVE  RowFor(n, rows) \in DOMAIN rows /\ rows[RowFor(n, rows)].name = n
  <2>1. PICK i \in Scanned(rows) : rows[i].name = n
    BY <1>2
  <2>2. \A j \in Scanned(rows) : rows[j].name = n => j <= i
    BY <2>1, <1>1 DEF Ids
  <2>3. /\ RowFor(n, rows) \in Scanned(rows)
        /\ rows[RowFor(n, rows)].name = n
    BY <2>1, <2>2 DEF RowFor
  <2> QED
    BY <2>3, <1>1
<1>3. DOMAIN table = found
  BY DEF MapBundleNamesToBundlesId
<1>4. ASSUME NEW n \in found
      PROVE  table[n] = [id |-> RowFor(n, rows), state |-> rows[RowFor(n, rows)].state,
                         spring |-> rows[RowFor(n, rows)].spring, restarts |-> 0]
  BY <1>4 DEF MapBundleNamesToBundlesId
<1>5. ASSUME NEW n \in found
      PROVE  table[n] \in Bundle
  <2> DEFINE i == RowFor(n, rows)
  <2>1. i \in Ids /\ rows[i] \in Row
    BY <1>2, <1>5
  <2>2. rows[i].state \in STRING /\ rows[i].spring \in STRING
    BY <2>1 DEF Row
  <2>3. 0 \in 0 .. MaxRestarts
    BY BoundAssumption
  <2>4. table[n] = [id |-> i, state |-> rows[i].state,
                    spring |-> rows[i].spring, restarts |-> 0]
    BY <1>4, <1>5
  <2> HIDE DEF i
  <2> QED
    BY <2>1, <2>2, <2>3, <2>4 DEF Bundle
<1>6. found \subseteq Names
  BY <1>1 DEF Row
<1>7. table = [n \in DOMAIN table |-> table[n]]
  BY DEF MapBundleNamesToBundlesId
<1>8. table \in [DOMAIN table -> Bundle]
  BY <1>3, <1>5, <1>7
<1>9. ASSUME NEW n \in DOMAIN table
      PROVE  /\ table[n].id \in DOMAIN rows
             /\ rows[table[n].id].name = n
             /\ table[n].restarts = 0
  <2>1. n \in found
    BY <1>3, <1>9
  <2> DEFINE i == RowFor(n, rows)
  <2>2. table[n] = [id |-> i, state |-> rows[i].state,
                    spring |-> rows[i].spring, restarts |-> 0]
    BY <1>4, <2>1
  <2> HIDE DEF i
  <2>3. table[n].id = i /\ table[n].restarts = 0
    BY <2>2
  <2> QED
    BY <1>2, <2>1, <2>3 DEF i
<1> QED
  BY <1>3, <1>6, <1>8, <1>9

\* Counting restarts changes nothing but the counters: names, ids, columns,
\* and with them the start request and the lists of dead and failed bundles.
LEMMA CountingKeepsTable ==
  ASSUME NEW table, table \in [DOMAIN table -> Bundle],
         NEW counted, counted = CountRestarts(table)
  PROVE  /\ DOMAIN counted = DOMAIN table
         /\ counted \in [DOMAIN table -> Bundle]
         /\ \A n \in DOMAIN table : counted[n].id = table[n].id
         /\ ToStart(counted) = ToStart(table)
         /\ BuildBundlesToStart(counted) = BuildBundlesToStart(table)
         /\ GetDeadBundles(counted) = GetDeadBundles(table)
         /\ GetFailedBundles(counted) = GetFailedBundles(table)
<1> DEFINE occurrences(n) == {k \in ToStart(table) : KeepAlive[k] = n}
           more(n) == table[n].restarts + Cardinality(occurrences(n))
<1>1. DOMAIN counted = DOMAIN table
  BY DEF CountRestarts
<1>2. ASSUME NEW n \in DOMAIN table
      PROVE  counted[n] = [table[n] EXCEPT !.restarts = Capped(more(n))]
  BY <1>2 DEF CountRestarts
<1>3. ASSUME NEW n \in DOMAIN table
      PROVE  Capped(more(n)) \in 0 .. MaxRestarts
  <2>1. Cardinality(occurrences(n)) \in Nat
    BY OccurrencesType
  <2>2. table[n].restarts \in 0 .. MaxRestarts
    BY <1>3 DEF Bundle
  <2> QED
    BY <2>1, <2>2, BoundAssumption DEF Capped
<1> HIDE DEF more
<1>4. ASSUME NEW n \in DOMAIN table
      PROVE  /\ counted[n] \in Bundle
             /\ counted[n].id = table[n].id
             /\ counted[n].state = table[n].state
             /\ counted[n].spring = table[n].spring
  <2>1. table[n] \in Bundle
    BY <1>4
  <2> QED
    BY <1>2, <1>3, <1>4, <2>1 DEF Bundle
<1>5. counted = [n \in DOMAIN table |-> counted[n]]
  BY DEF CountRestarts
<1>6. counted \in [DOMAIN table -> Bundle]
  BY <1>4, <1>5
<1>7. ToStart(counted) = ToStart(table)
  BY <1>1, <1>4 DEF ToStart, NeedsStart
<1>8. BuildBundlesToStart(counted) = BuildBundlesToStart(table)
  <2>1. \A k \in ToStart(table) : counted[KeepAlive[k]].id = table[KeepAlive[k]].id
    BY <1>4 DEF ToStart
  <2> QED
    BY <2>1, <1>7 DEF BuildBundlesToStart
<1>9. ASSUME NEW s
      PROVE  WithState(counted, s) = WithState(table, s)
  BY <1>1, <1>4 DEF WithState
<1> QED
  BY <1>1, <1>4, <1>6, <1>7, <1>8, <1>9 DEF GetDeadBundles, GetFailedBundles

-----------------------------------------------------------------------------
(* The invariant holds initially and is preserved by every step. *)

THEOREM InitEstablishes == Init => IInv
<1> SUFFICES ASSUME Init PROVE IInv
  OBVIOUS
<1> USE DEF Init, KarafInit, Silence, NoRows
<1>1. KarafTypeOK
  <2>1. installed = << >> /\ up = TRUE
    OBVIOUS
  <2>2. DOMAIN deployed = {} /\ deployed \in [{} -> Conditions]
    OBVIOUS
  <2>3. installed \in Seq(Names)
    BY <2>1, EmptySeq
  <2> QED
    BY <2>1, <2>2, <2>3 DEF KarafTypeOK
<1>2. TypeOK
  BY <1>1 DEF TypeOK
<1>3. UniqueNames /\ RowsFollowIds /\ NamesFollowIds(bundlesWithNameAndId)
  BY DEF UniqueNames, RowsFollowIds, NamesFollowIds
<1>4. ToStart(bundlesWithNameAndId) = {}
  BY DEF ToStart
<1>5. RequestFollowsTable
  BY <1>4 DEF RequestFollowsTable, BuildBundlesToStart
<1>6. ViewsFollowTable
  BY DEF ViewsFollowTable, GetDeadBundles, GetFailedBundles, WithState
<1> QED
  BY <1>2, <1>3, <1>5, <1>6 DEF IInv

\* A bundle keeps the id and the name it was installed under.
InstalledGrows ==
  /\ DOMAIN installed \subseteq DOMAIN installed'
  /\ \A i \in DOMAIN installed : installed'[i] = installed[i]

\* A step of the container gives no id twice and keeps names apart.
LEMMA KarafStep ==
  ASSUME KarafTypeOK, UniqueNames, KarafNext
  PROVE  KarafTypeOK' /\ UniqueNames' /\ InstalledGrows
<1>1. ASSUME NEW n \in Names, NEW c \in Conditions, Deploy(n, c)
      PROVE  KarafTypeOK' /\ UniqueNames' /\ InstalledGrows
  <2> DEFINE new == Len(installed) + 1
  <2>1. /\ installed \in Seq(Names) /\ installed' \in Seq(Names)
        /\ DOMAIN installed = 1 .. Len(installed) /\ Len(installed) \in Nat
        /\ DOMAIN installed' = 1 .. new
        /\ installed'[new] = n
        /\ \A i \in DOMAIN installed : installed'[i] = installed[i]
    BY <1>1 DEF KarafTypeOK, Deploy
  <2>2. InstalledGrows
    BY <2>1 DEF InstalledGrows
  <2>3. /\ DOMAIN deployed' = DOMAIN deployed \cup {new}
        /\ deployed' = [i \in DOMAIN deployed \cup {new} |-> IF i = new THEN c ELSE deployed[i]]
        /\ DOMAIN deployed \subseteq DOMAIN installed
        /\ \A i \in DOMAIN deployed : installed[i] # n
        /\ up' \in BOOLEAN
    BY <1>1 DEF Deploy, KarafTypeOK
  <2>4. deployed' \in [DOMAIN deployed' -> Conditions]
    BY <2>3 DEF KarafTypeOK
  <2>5. KarafTypeOK'
    BY <2>1, <2>3, <2>4 DEF KarafTypeOK
  <2>6. UniqueNames'
    BY <2>1, <2>3 DEF UniqueNames
  <2> QED
    BY <2>2, <2>5, <2>6
<1>2. ASSUME NEW i \in DOMAIN deployed, Undeploy(i)
      PROVE  KarafTypeOK' /\ UniqueNames' /\ InstalledGrows
  BY <1>2 DEF Undeploy, KarafTypeOK, UniqueNames, InstalledGrows
<1>3. ASSUME NEW i \in DOMAIN deployed, NEW c \in Conditions, Change(i, c)
      PROVE  KarafTypeOK' /\ UniqueNames' /\ InstalledGrows
  BY <1>3 DEF Change, KarafTypeOK, UniqueNames, InstalledGrows
<1>4. CASE GoDown
  BY <1>4 DEF GoDown, KarafTypeOK, UniqueNames, InstalledGrows
<1>5. CASE ComeUp
  BY <1>5 DEF ComeUp, KarafTypeOK, UniqueNames, InstalledGrows
<1> QED
  BY <1>1, <1>2, <1>3, <1>4, <1>5 DEF KarafNext

\* Neither does a start command: it changes conditions only.
LEMMA StartKeepsBundles ==
  ASSUME KarafTypeOK, UniqueNames, NEW ids, StartEffect(ids)
  PROVE  KarafTypeOK' /\ UniqueNames'
BY DEF StartEffect, KarafTypeOK, UniqueNames

\* What `list` prints follows the ids, whole or cut off.
LEMMA ListFollowsIds ==
  ASSUME KarafTypeOK, UniqueNames, NEW rows \in ListReplies
  PROVE  /\ DOMAIN rows \subseteq DOMAIN installed
         /\ rows \in [DOMAIN rows -> Row]
         /\ \A i \in DOMAIN rows : rows[i].name = installed[i]
         /\ \A i, j \in DOMAIN rows : installed[i] = installed[j] => i = j
<1>1. PICK last : rows = Rows({i \in DOMAIN deployed : i <= last})
  BY DEF ListReplies
<1>2. DOMAIN rows \subseteq DOMAIN deployed
  BY <1>1 DEF Rows
<1>3. ASSUME NEW i \in DOMAIN rows
      PROVE  rows[i] = [name |-> installed[i], state |-> deployed[i].state,
                        spring |-> deployed[i].spring]
  BY <1>1, <1>3 DEF Rows
<1>4. ASSUME NEW i \in DOMAIN rows
      PROVE  rows[i] \in Row /\ rows[i].name = installed[i]
  <2>1. i \in DOMAIN installed /\ installed \in Seq(Names) /\ deployed[i] \in Conditions
    BY <1>2, <1>4 DEF KarafTypeOK
  <2>2. installed[i] \in Names
    BY <2>1
  <2>3. deployed[i].state \in STRING /\ deployed[i].spring \in STRING
    BY <2>1, ConditionAssumption
  <2> QED
    BY <1>3, <1>4, <2>2, <2>3 DEF Row
<1>5. rows = [i \in DOMAIN rows |-> rows[i]]
  BY <1>1 DEF Rows
<1> QED
  BY <1>2, <1>4, <1>5 DEF KarafTypeOK, UniqueNames

\* What the list branch makes of the listing and the cached table keeps the
\* whole of the invariant's part about tables.
LEMMA ListDoneStep ==
  ASSUME IInv, ListDone
  PROVE  IInv'
<1> DEFINE listed == MapBundleNamesToBundlesId(streamContent.rows)
           kept == Keep(bundlesWithNameAndId, listed)
<1>1. /\ bundlesWithNameAndId' = CountRestarts(kept)
      /\ bundlesToStart' = BuildBundlesToStart(kept)
      /\ deadBundles' = GetDeadBundles(kept)
      /\ failedBundles' = GetFailedBundles(kept)
      /\ pc' = "poll" /\ lastCommandStr' = GOGO_START_BUNDLE
      /\ UNCHANGED <<up, installed, deployed, streamContent, currentSystemInfo>>
  BY DEF ListDone, Finish, karafVars
<1>2. /\ DOMAIN installed \subseteq Ids
      /\ DOMAIN streamContent.rows \subseteq Ids
  <2>1. installed \in Seq(Names) /\ DOMAIN streamContent.rows \subseteq DOMAIN installed
    BY DEF IInv, TypeOK, KarafTypeOK
  <2>2. DOMAIN installed = 1 .. Len(installed) /\ Len(installed) \in Nat
    BY <2>1
  <2> QED
    BY <2>1, <2>2 DEF Ids
<1>3. /\ DOMAIN listed \subseteq Names
      /\ listed \in [DOMAIN listed -> Bundle]
      /\ NamesFollowIds(listed)
      /\ \A n \in DOMAIN listed : listed[n].restarts = 0
  <2>1. /\ streamContent.rows \in [DOMAIN streamContent.rows -> Row]
        /\ \A i, j \in DOMAIN streamContent.rows :
             streamContent.rows[i].name = streamContent.rows[j].name => i = j
    BY DEF IInv, TypeOK, RowsFollowIds
  <2>2. /\ DOMAIN listed \subseteq Names
        /\ listed \in [DOMAIN listed -> Bundle]
        /\ \A n \in DOMAIN listed : /\ listed[n].id \in DOMAIN streamContent.rows
                                    /\ streamContent.rows[listed[n].id].name = n
                                    /\ listed[n].restarts = 0
    BY <1>2, <2>1, TableOfListing
  <2> HIDE DEF listed
  <2>3. NamesFollowIds(listed)
    BY <2>2 DEF IInv, TypeOK, RowsFollowIds, NamesFollowIds
  <2> QED
    BY <2>2, <2>3
<1>4. kept = listed \/ kept = bundlesWithNameAndId
  BY DEF Keep
<1> HIDE DEF listed, kept
<1>5. /\ DOMAIN kept \subseteq Names
      /\ kept \in [DOMAIN kept -> Bundle]
      /\ NamesFollowIds(kept)
      /\ \A n \in DOMAIN kept :
           kept[n].restarts > 0 => \E k \in ToStart(kept) : KeepAlive[k] = n
  <2>1. CASE kept = listed
    BY <1>3, <2>1
  <2>2. CASE kept = bundlesWithNameAndId
    <3>1. /\ DOMAIN kept \subseteq Names
          /\ kept \in [DOMAIN kept -> Bundle]
          /\ NamesFollowIds(kept)
      BY <2>2 DEF IInv, TypeOK
    <3>2. \A n \in DOMAIN kept :
            kept[n].restarts > 0 => \E k \in ToStart(kept) : KeepAlive[k] = n
      BY <2>2 DEF IInv, RequestFollowsTable
    <3> QED
      BY <3>1, <3>2
  <2> QED
    BY <1>4, <2>1, <2>2
<1>6. /\ DOMAIN bundlesWithNameAndId' = DOMAIN kept
      /\ bundlesWithNameAndId' \in [DOMAIN kept -> Bundle]
      /\ \A n \in DOMAIN kept : bundlesWithNameAndId'[n].id = kept[n].id
      /\ ToStart(bundlesWithNameAndId') = ToStart(kept)
      /\ BuildBundlesToStart(bundlesWithNameAndId') = BuildBundlesToStart(kept)
      /\ GetDeadBundles(bundlesWithNameAndId') = GetDeadBundles(kept)
      /\ GetFailedBundles(bundlesWithNameAndId') = GetFailedBundles(kept)
  BY <1>1, <1>5, CountingKeepsTable
<1>7. ViewsFollowTable'
  BY <1>1, <1>6 DEF ViewsFollowTable
<1>8. (NamesFollowIds(bundlesWithNameAndId))'
  BY <1>1, <1>5, <1>6 DEF NamesFollowIds
<1>9. RequestFollowsTable'
  <2>1. (bundlesToStart = BuildBundlesToStart(bundlesWithNameAndId))'
    BY <1>1, <1>6
  <2>2. ASSUME NEW n \in DOMAIN kept
        PROVE  bundlesWithNameAndId'[n].restarts > 0 <=>
                 \E k \in ToStart(kept) : KeepAlive[k] = n
    <3> DEFINE ks == {k \in ToStart(kept) : KeepAlive[k] = n}
    <3>1. Cardinality(ks) \in Nat /\ (Cardinality(ks) = 0 <=> ks = {})
      BY OccurrencesType
    <3>2. kept[n] \in Bundle
      BY <1>5, <2>2
    <3>3. bundlesWithNameAndId'[n] =
            [kept[n] EXCEPT !.restarts = Capped(kept[n].restarts + Cardinality(ks))]
      BY <1>1, <2>2 DEF CountRestarts
    <3>4. ks = {} <=> ~ \E k \in ToStart(kept) : KeepAlive[k] = n
      OBVIOUS
    <3> HIDE DEF ks
    <3>5. /\ bundlesWithNameAndId'[n].restarts = Capped(kept[n].restarts + Cardinality(ks))
          /\ kept[n].restarts \in 0 .. MaxRestarts
      BY <3>2, <3>3 DEF Bundle
    <3>6. kept[n].restarts > 0 => ks # {}
      BY <1>5, <2>2, <3>4
    <3> QED
      BY <3>1, <3>4, <3>5, <3>6, BoundAssumption DEF Capped
  <2> QED
    BY <1>6, <2>1, <2>2 DEF RequestFollowsTable
<1>10. /\ deadBundles' \subseteq Ids /\ failedBundles' \subseteq Ids
       /\ DOMAIN bundlesToStart' \subseteq DOMAIN KeepAlive
       /\ bundlesToStart' \in [DOMAIN bundlesToStart' -> Ids]
  <2>1. \A n \in DOMAIN kept : kept[n].id \in Ids
    BY <1>5 DEF Bundle
  <2>2. deadBundles' \subseteq Ids /\ failedBundles' \subseteq Ids
    BY <1>1, <2>1 DEF GetDeadBundles, GetFailedBundles, WithState
  <2>3. bundlesToStart' = [k \in ToStart(kept) |-> kept[KeepAlive[k]].id]
    BY <1>1 DEF BuildBundlesToStart
  <2>4. \A k \in ToStart(kept) : k \in DOMAIN KeepAlive /\ KeepAlive[k] \in DOMAIN kept
    BY DEF ToStart
  <2> QED
    BY <2>1, <2>2, <2>3, <2>4
<1>11. TypeOK'
  BY <1>1, <1>5, <1>6, <1>10 DEF IInv, TypeOK, KarafTypeOK, Commands
<1>12. (UniqueNames /\ RowsFollowIds)'
  BY <1>1 DEF IInv, UniqueNames, RowsFollowIds
<1> QED
  BY <1>7, <1>8, <1>9, <1>11, <1>12 DEF IInv

\* A step that leaves the tables alone keeps what is said of them alone; one
\* by which the container grows keeps what is said of names and ids.
LEMMA TablesKept ==
  ASSUME IInv, UNCHANGED tableVars, InstalledGrows
  PROVE  /\ RequestFollowsTable'
         /\ ViewsFollowTable'
         /\ (NamesFollowIds(bundlesWithNameAndId))'
<1>1. /\ bundlesWithNameAndId' = bundlesWithNameAndId
      /\ bundlesToStart' = bundlesToStart
      /\ deadBundles' = deadBundles
      /\ failedBundles' = failedBundles
  BY DEF tableVars
<1>2. RequestFollowsTable'
  BY <1>1 DEF IInv, RequestFollowsTable
<1>3. ViewsFollowTable'
  BY <1>1 DEF IInv, ViewsFollowTable
<1>4. (NamesFollowIds(bundlesWithNameAndId))'
  BY <1>1 DEF IInv, NamesFollowIds, InstalledGrows
<1> QED
  BY <1>2, <1>3, <1>4

\* The steps of the monitor thread that leave tables and container alone.
LEMMA QuietStep ==
  ASSUME IInv,
         UNCHANGED <<karafVars, tableVars>>,
         pc' \in {"poll", "reading", "drained", "crashed"},
         lastCommandStr' \in Commands \cup {""},
         currentSystemInfo' \in {"default", "parsed"},
         \/ streamContent' = streamContent
         \/ /\ streamContent'.rows = NoRows
            /\ streamContent'.info \in BOOLEAN
  PROVE  IInv'
<1>1. /\ UNCHANGED <<up, installed, deployed>>
      /\ UNCHANGED <<bundlesWithNameAndId, deadBundles, failedBundles, bundlesToStart>>
  BY DEF karafVars, tableVars
<1>2. InstalledGrows
  BY <1>1 DEF InstalledGrows
<1>3. /\ DOMAIN streamContent'.rows \subseteq DOMAIN installed
      /\ streamContent'.rows \in [DOMAIN streamContent'.rows -> Row]
      /\ streamContent'.info \in BOOLEAN
      /\ RowsFollowIds'
  <2>1. CASE streamContent' = streamContent
    BY <1>1, <2>1 DEF IInv, TypeOK, RowsFollowIds
  <2>2. CASE streamContent'.rows = NoRows /\ streamContent'.info \in BOOLEAN
    <3>1. DOMAIN streamContent'.rows = {} /\ streamContent'.rows \in [{} -> Row]
      BY <2>2 DEF NoRows
    <3> QED
      BY <2>2, <3>1 DEF RowsFollowIds
  <2> QED
    BY <2>1, <2>2
<1>4. KarafTypeOK' /\ UniqueNames'
  BY <1>1 DEF IInv, TypeOK, KarafTypeOK, UniqueNames
<1>5. TypeOK'
  BY <1>1, <1>3, <1>4 DEF IInv, TypeOK
<1> QED
  BY <1>2, <1>3, <1>4, <1>5, TablesKept DEF IInv

\* The invariant is inductive.
THEOREM NextPreserves == IInv /\ [Next]_vars => IInv'
<1> SUFFICES ASSUME IInv, [Next]_vars PROVE IInv'
  OBVIOUS
<1>0. TypeOK
  BY DEF IInv
<1>1. CASE FirstIteration
  BY <1>0, <1>1, QuietStep DEF FirstIteration, TypeOK, Commands
<1>2. CASE Fork
  BY <1>0, <1>2, QuietStep DEF Fork, TypeOK, Silence
<1>3. CASE PopenFails
  BY <1>0, <1>3, QuietStep DEF PopenFails, TypeOK, Silence
<1>4. CASE ClientList
  <2>1. /\ UNCHANGED <<up, installed, deployed>>
        /\ UNCHANGED <<bundlesWithNameAndId, deadBundles, failedBundles, bundlesToStart>>
        /\ UNCHANGED <<lastCommandStr, currentSystemInfo>>
        /\ pc' = "drained"
        /\ streamContent'.rows \in ListReplies
        /\ streamContent'.info = FALSE
    BY <1>4 DEF ClientList, Drain, karafVars, tableVars
  <2>2. KarafTypeOK /\ UniqueNames
    BY DEF IInv, TypeOK
  <2>3. /\ DOMAIN streamContent'.rows \subseteq DOMAIN installed
        /\ streamContent'.rows \in [DOMAIN streamContent'.rows -> Row]
        /\ \A i \in DOMAIN streamContent'.rows : streamContent'.rows[i].name = installed[i]
        /\ \A i, j \in DOMAIN streamContent'.rows : installed[i] = installed[j] => i = j
    BY <2>1, <2>2, ListFollowsIds
  <2>4. RowsFollowIds'
    BY <2>1, <2>3 DEF RowsFollowIds
  <2>5. KarafTypeOK' /\ UniqueNames' /\ InstalledGrows /\ UNCHANGED tableVars
    BY <2>1, <2>2 DEF KarafTypeOK, UniqueNames, InstalledGrows, tableVars
  <2>6. TypeOK'
    BY <1>0, <2>1, <2>3, <2>5 DEF TypeOK
  <2> QED
    BY <2>4, <2>5, <2>6, TablesKept DEF IInv
<1>5. CASE ClientStart
  <2>1. /\ UNCHANGED <<bundlesWithNameAndId, deadBundles, failedBundles, bundlesToStart>>
        /\ UNCHANGED <<lastCommandStr, currentSystemInfo, streamContent>>
        /\ pc' = "drained"
        /\ installed' = installed
    BY <1>5 DEF ClientStart, Drain, StartEffect, tableVars
  <2>2. KarafTypeOK' /\ UniqueNames'
    BY <1>5, StartKeepsBundles DEF IInv, TypeOK, ClientStart
  <2>3. RowsFollowIds' /\ InstalledGrows /\ UNCHANGED tableVars
    BY <2>1 DEF IInv, RowsFollowIds, InstalledGrows, tableVars
  <2>4. TypeOK'
    BY <1>0, <2>1, <2>2 DEF TypeOK
  <2> QED
    BY <2>2, <2>3, <2>4, TablesKept DEF IInv
<1>6. CASE ClientStop
  BY <1>0, <1>6, QuietStep DEF ClientStop, Drain, TypeOK
<1>7. CASE ClientInfo
  <2>1. streamContent'.rows = NoRows /\ streamContent'.info \in BOOLEAN
    BY <1>7 DEF ClientInfo
  <2> QED
    BY <1>0, <1>7, <2>1, QuietStep DEF ClientInfo, Drain, TypeOK
<1>8. CASE ListDone
  BY <1>8, ListDoneStep
<1>9. CASE StartDone
  BY <1>0, <1>9, QuietStep DEF StartDone, Finish, TypeOK, Commands
<1>10. CASE StopDone
  BY <1>0, <1>10, QuietStep DEF StopDone, Finish, TypeOK, Commands
<1>11. CASE InfoDone
  BY <1>0, <1>11, QuietStep DEF InfoDone, Finish, TypeOK, Commands, AssignSystemInfo
<1>12. CASE KarafNext /\ UNCHANGED monitorVars
  <2>1. KarafTypeOK' /\ UniqueNames' /\ InstalledGrows
    BY <1>12, KarafStep DEF IInv, TypeOK
  <2>2. /\ UNCHANGED <<pc, lastCommandStr, streamContent, currentSystemInfo>>
        /\ UNCHANGED <<bundlesWithNameAndId, deadBundles, failedBundles, bundlesToStart>>
        /\ UNCHANGED tableVars
    BY <1>12 DEF monitorVars, tableVars
  <2> DEFINE rows == streamContent.rows
  <2>3. RowsFollowIds'
    <3>1. rows' = rows /\ \A i \in DOMAIN rows : installed'[i] = installed[i]
      BY <1>0, <2>1, <2>2 DEF TypeOK, InstalledGrows
    <3>2. /\ \A i \in DOMAIN rows : rows[i].name = installed[i]
          /\ \A i, j \in DOMAIN rows : installed[i] = installed[j] => i = j
      BY DEF IInv, RowsFollowIds
    <3> QED
      BY <3>1, <3>2 DEF RowsFollowIds
  <2>4. TypeOK'
    BY <1>0, <2>1, <2>2 DEF TypeOK, InstalledGrows
  <2> QED
    BY <2>1, <2>2, <2>3, <2>4, TablesKept DEF IInv
<1>13. CASE UNCHANGED vars
  BY <1>0, <1>13, QuietStep DEF vars, monitorVars, TypeOK
<1> QED
  BY <1>1, <1>2, <1>3, <1>4, <1>5, <1>6, <1>7, <1>8, <1>9, <1>10, <1>11, <1>12, <1>13
     DEF Next, MonitorNext, Client, Done

\* The conjuncts of IInv hold of every state the monitor reaches.
THEOREM Invariance == Safety => []IInv
<1> QED
  BY InitEstablishes, NextPreserves, PTL DEF Safety

\* A state of the invariant has the two safety properties the runs check.
LEMMA IInvImplies == IInv => StartIdsNameConfigured /\ OnePicture
<1> SUFFICES ASSUME IInv PROVE StartIdsNameConfigured /\ OnePicture
  OBVIOUS
<1>1. /\ DOMAIN bundlesToStart = ToStart(bundlesWithNameAndId)
      /\ \A k \in ToStart(bundlesWithNameAndId) :
           /\ KeepAlive[k] \in DOMAIN bundlesWithNameAndId
           /\ bundlesToStart[k] = bundlesWithNameAndId[KeepAlive[k]].id
  BY DEF IInv, RequestFollowsTable, BuildBundlesToStart, ToStart
<1>2. \A n \in DOMAIN bundlesWithNameAndId :
        /\ bundlesWithNameAndId[n].id \in DOMAIN installed
        /\ installed[bundlesWithNameAndId[n].id] = n
  BY DEF IInv, NamesFollowIds
<1>3. StartIdsNameConfigured
  BY <1>1, <1>2 DEF StartIdsNameConfigured
<1>4. ASSUME NEW n \in DOMAIN bundlesWithNameAndId
      PROVE  (\E k \in ToStart(bundlesWithNameAndId) : KeepAlive[k] = n) <=>
               \E k \in DOMAIN bundlesToStart : bundlesToStart[k] = bundlesWithNameAndId[n].id
  BY <1>1, <1>2, <1>4
<1>5. OnePicture
  BY <1>4 DEF IInv, RequestFollowsTable, ViewsFollowTable, OnePicture
<1> QED
  BY <1>3, <1>5

\* Every variable keeps its type.
THEOREM TypeCorrect == Safety => []TypeOK
<1>1. IInv => TypeOK
  BY DEF IInv
<1> QED
  BY <1>1, Invariance, PTL

\* Every id the monitor puts into a start command is the one its configured
\* bundle was installed under (BuildBundlesToStart on a stale table).
THEOREM StartIdsSafe == Safety => []StartIdsNameConfigured
<1>1. IInv => StartIdsNameConfigured
  BY IInvImplies
<1> QED
  BY <1>1, Invariance, PTL

\* The start request, the lists of dead and failed bundles and the restart
\* counters always speak of the cached table (StartMonitorService, list branch).
THEOREM OnePictureHolds == Safety => []OnePicture
<1>1. IInv => OnePicture
  BY IInvImplies
<1> QED
  BY <1>1, Invariance, PTL

\* No step of a client changes the condition of a bundle that is not
\* configured (FireCommandExecVP with the start command).
THEOREM OnlyConfiguredStartedHolds == Safety => OnlyConfiguredStarted
<1> DEFINE Touches == pc = "reading" /\ pc' = "drained" =>
             \A i \in DOMAIN deployed :
               deployed'[i] # deployed[i] => installed[i] \in Configured
<1>1. IInv /\ [Next]_vars => [Touches]_vars
  <2> SUFFICES ASSUME IInv, [Next]_vars, pc = "reading", pc' = "drained",
                      NEW i \in DOMAIN deployed, deployed'[i] # deployed[i]
               PROVE  installed[i] \in Configured
    OBVIOUS
  <2>1. ClientStart
    BY DEF Next, MonitorNext, Client, Done, FirstIteration, Fork, PopenFails, ClientList,
           ClientStop, ClientInfo, ListDone, StartDone, StopDone, InfoDone, Finish,
           karafVars, monitorVars, vars
  <2>2. i \in RequestedIds
    BY <2>1 DEF ClientStart, StartEffect
  <2>3. PICK k \in DOMAIN bundlesToStart : bundlesToStart[k] = i
    BY <2>2 DEF RequestedIds
  <2>4. k \in DOMAIN KeepAlive
    BY <2>3 DEF IInv, TypeOK
  <2>5. installed[i] = KeepAlive[k]
    BY <2>3, IInvImplies DEF StartIdsNameConfigured
  <2> QED
    BY <2>4, <2>5 DEF Configured
<1> QED
  BY <1>1, Invariance, PTL DEF Safety, OnlyConfiguredStarted

-----------------------------------------------------------------------------
(* The loop implements the command cycle, as far as safety goes. *)

\* Every step of the loop, its clients and the container is a step of
\* CommandCycle or leaves its variables alone.
THEOREM ImplementsCycleSafety == Safety => Cycle!Safety
<1> DEFINE turn == IF pc = "crashed" THEN "halted" ELSE lastCommandStr
<1>1. Init => Cycle!Init
  BY DEF Init, KarafInit, Cycle!Init
<1>2. IInv /\ IInv' /\ [Next]_vars => [Cycle!Next]_(Cycle!cycleVars)
  <2> SUFFICES ASSUME IInv, IInv', [Next]_vars
               PROVE  Cycle!Next \/ UNCHANGED Cycle!cycleVars
    BY DEF Cycle!cycleVars
  <2>1. CASE FirstIteration
    <3>1. Cycle!Boot
      BY <2>1 DEF FirstIteration, Cycle!Boot, Cycle!Pass, karafVars, tableVars, GOGO_LIST
    <3> QED
      BY <3>1 DEF Cycle!Next, Cycle!Turn
  <2>2. CASE PopenFails
    <3>1. UNCHANGED <<lastCommandStr, bundlesToStart, installed>> /\ pc = "poll"
      BY <2>2 DEF PopenFails, karafVars, tableVars
    <3>2. CASE pc' = "drained"
      BY <3>1, <3>2 DEF Cycle!cycleVars
    <3>3. CASE pc' = "crashed"
      <4>1. Cycle!Halt
        BY <2>2, <3>1, <3>3
           DEF PopenFails, Cycle!Halt, Commands, GOGO_LIST, GOGO_START_BUNDLE,
               GOGO_STOP_BUNDLE, GOGO_GET_SYSTEM_INFO
      <4> QED
        BY <4>1 DEF Cycle!Next
    <3> QED
      BY <2>2, <3>2, <3>3 DEF PopenFails
  <2>3. CASE Fork \/ Client
    BY <2>3 DEF Fork, Client, ClientList, ClientStart, ClientStop, ClientInfo, Drain,
                StartEffect, Cycle!cycleVars, karafVars, tableVars
  <2>4. CASE ListDone
    <3>1. /\ turn = "list" /\ turn' = "start"
          /\ installed' = installed
      BY <2>4 DEF ListDone, Finish, karafVars, GOGO_LIST, GOGO_START_BUNDLE
    <3>2. bundlesToStart' \in Cycle!Requests
      <4> DEFINE ks == DOMAIN bundlesToStart'
      <4>1. StartIdsNameConfigured'
        BY IInvImplies, PTL
      <4>2. /\ bundlesToStart' \in [ks -> DOMAIN installed]
            /\ \A k \in ks : installed[bundlesToStart'[k]] = KeepAlive[k]
            /\ ks \in SUBSET DOMAIN KeepAlive
        BY <3>1, <4>1 DEF StartIdsNameConfigured, IInv, TypeOK
      <4> HIDE DEF ks
      <4> QED
        BY <4>2 DEF Cycle!Requests
    <3>3. Cycle!List
      BY <3>1, <3>2 DEF Cycle!List, Cycle!Pass
    <3> QED
      BY <3>3 DEF Cycle!Next, Cycle!Turn
  <2>5. CASE StartDone
    <3>1. Cycle!Start
      BY <2>5 DEF StartDone, Finish, Cycle!Start, Cycle!Pass, karafVars, tableVars,
                  GOGO_START_BUNDLE, GOGO_STOP_BUNDLE
    <3> QED
      BY <3>1 DEF Cycle!Next, Cycle!Turn
  <2>6. CASE StopDone
    <3>1. Cycle!Stop
      BY <2>6 DEF StopDone, Finish, Cycle!Stop, Cycle!Pass, karafVars, tableVars,
                  GOGO_STOP_BUNDLE, GOGO_GET_SYSTEM_INFO
    <3> QED
      BY <3>1 DEF Cycle!Next, Cycle!Turn
  <2>7. CASE InfoDone
    <3>1. Cycle!Info
      BY <2>7 DEF InfoDone, Finish, Cycle!Info, Cycle!Pass, karafVars, tableVars,
                  GOGO_LIST, GOGO_GET_SYSTEM_INFO
    <3> QED
      BY <3>1 DEF Cycle!Next, Cycle!Turn
  <2>8. CASE KarafNext /\ UNCHANGED monitorVars
    <3>1. UNCHANGED <<pc, lastCommandStr, bundlesToStart>>
      BY <2>8 DEF monitorVars, tableVars
    <3>2. CASE installed' = installed
      BY <3>1, <3>2 DEF Cycle!cycleVars
    <3>3. CASE \E n \in Names, c \in Conditions : Deploy(n, c)
      <4>1. Cycle!Install
        BY <3>1, <3>3 DEF Deploy, Cycle!Install
      <4> QED
        BY <4>1 DEF Cycle!Next
    <3> QED
      BY <2>8, <3>2, <3>3 DEF KarafNext, Undeploy, Change, GoDown, ComeUp
  <2>9. CASE UNCHANGED vars
    BY <2>9 DEF vars, karafVars, monitorVars, tableVars, Cycle!cycleVars
  <2> QED
    BY <2>1, <2>2, <2>3, <2>4, <2>5, <2>6, <2>7, <2>8, <2>9
       DEF Next, MonitorNext, Client, Done
<1> QED
  BY <1>1, <1>2, Invariance, PTL DEF Safety, Cycle!Safety

-----------------------------------------------------------------------------
(* GetSystemInfo *)

\* A set of numbers that is bounded has a smallest and a largest one.
LEMMA Extremes ==
  ASSUME NEW T \in SUBSET Nat, T # {}, NEW n \in Nat, \A k \in T : k <= n
  PROVE  /\ Min(T) \in T /\ \A k \in T : Min(T) <= k
         /\ Max(T) \in T /\ \A k \in T : k <= Max(T)
<1>1. ASSUME NEW U \in SUBSET Nat, U # {}
      PROVE  \E k \in U : \A j \in U : k <= j
  <2>1. PICK k \in U : \A j \in U : ~ (<<j, k>> \in OpToRel(<, Nat))
    BY <1>1, WFMin, NatLessThanWellFounded
  <2>2. \A j \in U : ~ (j < k)
    BY <2>1 DEF OpToRel
  <2> QED
    BY <2>2
<1>2. \E k \in T : \A j \in T : k <= j
  BY <1>1
<1>3. \E k \in T : \A j \in T : k >= j
  <2> DEFINE U == {n - k : k \in T}
  <2>1. U \in SUBSET Nat /\ U # {}
    <3>1. \A k \in T : k \in Nat /\ k <= n
      OBVIOUS
    <3>2. \A k \in T : n - k \in Nat
      BY <3>1
    <3> QED
      BY <3>2
  <2>2. PICK u \in U : \A j \in U : u <= j
    <3> HIDE DEF U
    <3> QED
      BY <1>1, <2>1
  <2>3. PICK k \in T : u = n - k
    OBVIOUS
  <2>4. ASSUME NEW j \in T PROVE k >= j
    <3>1. n - k <= n - j
      BY <2>2, <2>3
    <3>2. j \in Int /\ k \in Int
      OBVIOUS
    <3> HIDE DEF U
    <3> QED
      BY <3>1, <3>2
  <2> QED
    BY <2>4
<1>4. Min(T) \in T /\ \A k \in T : Min(T) <= k
  BY <1>2 DEF Min
<1>5. Max(T) \in T /\ \A k \in T : Max(T) >= k
  BY <1>3 DEF Max
<1> QED
  BY <1>4, <1>5

\* trim takes a part of a text; the text is a blank one, or the part begins and
\* ends with something else and has blanks only before and behind it.
LEMMA Trimmed ==
  ASSUME NEW S, NEW s \in Seq(S), s # <<>>
  PROVE  \E a, z \in 1..Len(s) :
           /\ trim(s) = SubSeq(s, a, z)
           /\ \/ a = 1 /\ z = Len(s) /\ \A k \in 1..Len(s) : s[k] = BLANK
              \/ /\ a <= z /\ s[a] # BLANK /\ s[z] # BLANK
                 /\ \A k \in 1..Len(s) : k < a \/ k > z => s[k] = BLANK
<1> DEFINE solid == {k \in DOMAIN s : s[k] # BLANK}
<1>0. Len(s) \in Nat /\ Len(s) # 0 /\ DOMAIN s = 1..Len(s)
  BY LenProperties, EmptySeq
<1>1. CASE solid = {}
  <2>1. trim(s) = s /\ s = SubSeq(s, 1, Len(s))
    BY <1>1, SubSeqFull DEF trim
  <2>2. \A k \in 1..Len(s) : s[k] = BLANK
    BY <1>0, <1>1
  <2>3. 1 \in 1..Len(s) /\ Len(s) \in 1..Len(s)
    BY <1>0
  <2> QED
    BY <2>1, <2>2, <2>3
<1>2. CASE solid # {}
  <2> DEFINE a == Min(solid)
             z == Max(solid)
  <2>1. solid \in SUBSET Nat /\ \A k \in solid : k <= Len(s)
    BY <1>0
  <2>2. /\ a \in solid /\ \A k \in solid : a <= k
        /\ z \in solid /\ \A k \in solid : k <= z
    <3> HIDE DEF solid
    <3> QED
      BY <1>0, <1>2, <2>1, Extremes
  <2>3. trim(s) = SubSeq(s, a, z)
    BY <1>2 DEF trim
  <2> HIDE DEF a, z
  <2>4. a \in 1..Len(s) /\ z \in 1..Len(s) /\ a <= z /\ s[a] # BLANK /\ s[z] # BLANK
    BY <1>0, <2>2
  <2>5. \A k \in 1..Len(s) : k < a \/ k > z => s[k] = BLANK
    BY <1>0, <2>2, <2>4
  <2> QED
    BY <2>3, <2>4, <2>5
<1> QED
  BY <1>1, <1>2

\* The part of a line from a on, if it begins and ends with something.
LEMMA SolidPart ==
  ASSUME NEW S, NEW s \in Seq(S), NEW a \in 1..Len(s), s[a] # BLANK, s[Len(s)] # BLANK
  PROVE  trim(SubSeq(s, a, Len(s))) = SubSeq(s, a, Len(s))
<1> DEFINE t == SubSeq(s, a, Len(s))
           m == Len(s) - a + 1
<1>0. Len(s) \in Nat /\ m \in Nat /\ m >= 1
  BY LenProperties
<1>1. t \in Seq(S) /\ Len(t) = m /\ \A k \in 1..m : t[k] = s[a + k - 1]
  <2>1. \A k \in a..Len(s) : s[k] \in S
    BY ElementOfSeq, <1>0
  <2> QED
    BY <2>1, <1>0, SubSeqProperties
<1>2. t[1] # BLANK /\ t[m] # BLANK
  <2>1. t[1] = s[a] /\ t[m] = s[Len(s)]
    BY <1>0, <1>1
  <2> QED
    BY <2>1
<1> HIDE DEF t, m
<1>3. t # <<>>
  BY <1>0, <1>1, EmptySeq
<1>4. PICK b, z \in 1..Len(t) :
        /\ trim(t) = SubSeq(t, b, z)
        /\ \/ b = 1 /\ z = Len(t) /\ \A k \in 1..Len(t) : t[k] = BLANK
           \/ /\ b <= z /\ t[b] # BLANK /\ t[z] # BLANK
              /\ \A k \in 1..Len(t) : k < b \/ k > z => t[k] = BLANK
  BY <1>1, <1>3, Trimmed
<1>5. b = 1 /\ z = Len(t)
  BY <1>0, <1>1, <1>2, <1>4
<1>6. SubSeq(t, 1, Len(t)) = t
  BY <1>1, SubSeqFull
<1> QED
  BY <1>4, <1>5, <1>6 DEF t

\* The beginning of a line with one word in it, and only such a beginning of two
\* characters and more, is trimmed to that word.
LEMMA OneWord ==
  ASSUME NEW S, NEW s \in Seq(S), NEW x, x # BLANK
  PROVE  \A n \in 2..Len(s) :
           trim(SubSeq(s, 1, n)) = <<x>> <=>
             \E l \in 1..n : s[l] = x /\ \A k \in 1..n : k # l => s[k] = BLANK
<1> SUFFICES ASSUME NEW n \in 2..Len(s)
             PROVE  trim(SubSeq(s, 1, n)) = <<x>> <=>
                      \E l \in 1..n : s[l] = x /\ \A k \in 1..n : k # l => s[k] = BLANK
  OBVIOUS
<1> DEFINE t == SubSeq(s, 1, n)
<1>0. Len(s) \in Nat /\ n \in Nat /\ n >= 2
  BY LenProperties
<1>1. t \in Seq(S) /\ Len(t) = n /\ \A k \in 1..n : t[k] = s[k]
  <2>1. \A k \in 1..n : s[k] \in S
    BY ElementOfSeq, <1>0
  <2> QED
    BY <2>1, <1>0, SubSeqProperties
<1> HIDE DEF t
<1>2. t # <<>>
  BY <1>0, <1>1, EmptySeq
<1>3. PICK a, z \in 1..Len(t) :
        /\ trim(t) = SubSeq(t, a, z)
        /\ \/ a = 1 /\ z = Len(t) /\ \A k \in 1..Len(t) : t[k] = BLANK
           \/ /\ a <= z /\ t[a] # BLANK /\ t[z] # BLANK
              /\ \A k \in 1..Len(t) : k < a \/ k > z => t[k] = BLANK
  BY <1>1, <1>2, Trimmed
<1>4. a \in 1..n /\ z \in 1..n
  BY <1>1, <1>3
<1>5. Len(SubSeq(t, a, z)) = (IF a <= z THEN z - a + 1 ELSE 0) /\ (a <= z => SubSeq(t, a, z)[1] = t[a])
  <2>1. \A k \in a..z : t[k] \in S
    BY ElementOfSeq, <1>0, <1>1, <1>4
  <2>2. /\ Len(SubSeq(t, a, z)) = IF a <= z THEN z - a + 1 ELSE 0
        /\ \A k \in 1..z - a + 1 : SubSeq(t, a, z)[k] = t[a + k - 1]
    BY <1>0, <1>4, <2>1, SubSeqProperties
  <2>3. a <= z => SubSeq(t, a, z)[1] = t[a]
    <3>1. a <= z => 1 \in 1..z - a + 1 /\ a + 1 - 1 = a
      BY <1>0, <1>4
    <3> QED
      BY <2>2, <3>1
  <2> QED
    BY <2>2, <2>3
<1>6. ASSUME trim(t) = <<x>>
      PROVE  \E l \in 1..n : s[l] = x /\ \A k \in 1..n : k # l => s[k] = BLANK
  <2>1. Len(SubSeq(t, a, z)) = 1 /\ SubSeq(t, a, z)[1] = x
    BY <1>3, <1>6
  <2>2. a = z /\ t[a] = x
    <3>1. a <= z
      BY <1>5, <2>1
    <3>2. z - a + 1 = 1
      BY <1>5, <2>1, <3>1
    <3>3. a \in Int /\ z \in Int
      BY <1>4
    <3> QED
      BY <1>5, <2>1, <3>1, <3>2, <3>3
  <2>3. \A k \in 1..n : k # a => t[k] = BLANK
    BY <1>0, <1>1, <1>3, <1>4, <2>2
  <2> QED
    BY <1>1, <1>4, <2>2, <2>3
<1>7. ASSUME NEW l \in 1..n, s[l] = x, \A k \in 1..n : k # l => s[k] = BLANK
      PROVE  trim(t) = <<x>>
  <2>1. t[l] = x /\ \A k \in 1..n : k # l => t[k] = BLANK
    BY <1>1, <1>7
  <2>2. a = l /\ z = l
    BY <1>0, <1>1, <1>3, <1>4, <2>1
  <2>3. Len(SubSeq(t, a, z)) = 1 /\ SubSeq(t, a, z)[1] = x
    BY <1>0, <1>4, <1>5, <2>1, <2>2
  <2>4. SubSeq(t, a, z) \in Seq(S)
    <3>1. \A k \in a..z : t[k] \in S
      BY ElementOfSeq, <1>0, <1>1, <1>4
    <3> QED
      BY <1>0, <1>4, <3>1, SubSeqProperties
  <2>5. SubSeq(t, a, z) = <<x>>
    <3>1. SubSeq(t, a, z) = [k \in 1..1 |-> SubSeq(t, a, z)[k]]
      BY <2>3, <2>4
    <3>2. <<x>> = [k \in 1..1 |-> x]
      OBVIOUS
    <3>3. \A k \in 1..1 : SubSeq(t, a, z)[k] = x
      BY <2>3
    <3> QED
      BY <3>1, <3>2, <3>3, Zenon
  <2> QED
    BY <1>3, <2>5
<1> QED
  BY <1>6, <1>7 DEF t

\* Where a line is split, if it is.
LEMMA SplitIsLast ==
  ASSUME NEW line \in Seq(Words), GroupEnds(line) # {}
  PROVE  /\ Split(line) \in GroupEnds(line)
         /\ Split(line) \in 2..Len(line) - 2
         /\ \A k \in GroupEnds(line) : k <= Split(line)
<1>1. Len(line) \in Nat
  BY LenProperties
<1>2. GroupEnds(line) \in SUBSET (2..Len(line) - 2)
  BY DEF GroupEnds
<1>3. GroupEnds(line) \in SUBSET Nat /\ \A k \in GroupEnds(line) : k <= Len(line)
  BY <1>1, <1>2
<1>4. /\ Max(GroupEnds(line)) \in GroupEnds(line)
      /\ \A k \in GroupEnds(line) : k <= Max(GroupEnds(line))
  BY <1>1, <1>3, Extremes
<1> QED
  BY <1>2, <1>4 DEF Split

\* What is filed under a label stood behind it, and nothing before it.
LEMMA BehindItsLabel ==
  ASSUME NEW line \in Seq(Words), GroupEnds(line) # {},
         NEW label, label # BLANK, Name(line) = <<label>>
  PROVE  \E l \in 1..Len(line) :
           /\ line[l] = label
           /\ \A j \in 1..l - 1 : line[j] = BLANK
           /\ \E a, z \in l + 1..Len(line) : Value(line) = SubSeq(line, a, z)
<1> DEFINE n == Len(line)
           k == Split(line)
           t == SubSeq(line, k + 2, n)
<1>0. n \in Nat /\ k \in Nat /\ k \in 2..n - 2 /\ k \in 2..n
  <2>1. n \in Nat
    BY LenProperties
  <2>2. k \in 2..n - 2
    BY SplitIsLast
  <2> QED
    BY <2>1, <2>2
<1>1. PICK l \in 1..k : line[l] = label /\ \A j \in 1..k : j # l => line[j] = BLANK
  <2>1. trim(SubSeq(line, 1, k)) = <<label>>
    BY DEF Name
  <2> HIDE DEF k, n, t
  <2>2. k \in 2..Len(line)
    BY <1>0 DEF n
  <2>3. \A m \in 2..Len(line) :
          trim(SubSeq(line, 1, m)) = <<label>> <=>
            \E l \in 1..m : line[l] = label /\ \A j \in 1..m : j # l => line[j] = BLANK
    BY OneWord, Zenon
  <2> QED
    BY <2>1, <2>2, <2>3, Zenon
<1>2. t \in Seq(Words) /\ Len(t) = n - (k + 2) + 1
  <2>1. \A j \in k + 2..n : line[j] \in Words
    BY ElementOfSeq, <1>0
  <2>2. k + 2 \in Int /\ k + 2 <= n
    BY <1>0
  <2> HIDE DEF k, n
  <2> QED
    BY <1>0, <2>1, <2>2, SubSeqProperties
<1>3. t # <<>>
  <2>1. Len(t) # 0
    BY <1>0, <1>2
  <2> HIDE DEF t
  <2> QED
    BY <2>1, EmptySeq
<1>4. PICK a, z \in 1..Len(t) : trim(t) = SubSeq(t, a, z)
  <2> HIDE DEF t
  <2> QED
    BY <1>2, <1>3, Trimmed
<1>5. SubSeq(t, a, z) = SubSeq(line, k + 2 + a - 1, k + 2 + z - 1)
  <2> HIDE DEF k, n
  <2>1. k + 2 \in 1..Len(line) /\ n \in 1..Len(line)
    BY <1>0 DEF n
  <2>2. a \in 1..n - (k + 2) + 1 /\ z \in 1..n - (k + 2) + 1
    BY <1>0, <1>2, <1>4
  <2>3. \A i, j \in 1..Len(line) : \A m, p \in 1..j - i + 1 :
          SubSeq(SubSeq(line, i, j), m, p) = SubSeq(line, i + m - 1, i + p - 1)
    BY SubSeqOfSubSeq
  <2> QED
    BY <2>1, <2>2, <2>3
<1> HIDE DEF k, n
<1>6. k + 2 + a - 1 \in l + 1..n /\ k + 2 + z - 1 \in l + 1..n /\ l \in 1..n
  BY <1>0, <1>1, <1>2, <1>4
<1>7. Value(line) = SubSeq(line, k + 2 + a - 1, k + 2 + z - 1)
  BY <1>4, <1>5 DEF Value, k, n
<1>8. \A j \in 1..l - 1 : line[j] = BLANK
  BY <1>0, <1>1
<1> QED
  BY <1>1, <1>6, <1>7, <1>8 DEF n

-----------------------------------------------------------------------------
(* Printed lines *)

\* A printed line of which the third group takes every word is split before its
\* gap's last blank but one, and no other line that begins with a label is split
\* behind that label.
LEMMA PrintedIsSplit ==
  ASSUME NEW line \in Seq(Words), NEW l \in Int, NEW v \in Int, TextAt(line, l, v)
  PROVE  /\ /\ line[l] \in Labels \cup Letters
            /\ \A k \in 1..Len(line) : line[k] \in {BLANK} \cup Labels \cup Letters \cup Values
            => v - 2 \in GroupEnds(line)
         /\ \A k \in GroupEnds(line) : k <= v - 2
         /\ \A k \in GroupEnds(line) :
              \/ \A j \in 1..k : line[j] = BLANK
              \/ line[l] \in Labels \cup Letters =>
                   \A j \in 1..Len(line) : line[j] \in {BLANK} \cup Labels \cup Letters \cup Values
<1> DEFINE n == Len(line)
<1>0. n \in Nat /\ v \in Nat /\ l \in Nat /\ l >= 1 /\ l <= v - 3 /\ v <= n
  <2>1. n \in Nat
    BY LenProperties
  <2>2. l \in 1..v - 3 /\ v <= n
    BY DEF TextAt
  <2> QED
    BY <2>1, <2>2
<1>1. /\ \A k \in 1..v - 1 : line[k] # BLANK <=> k = l
      /\ line[v] # BLANK /\ line[n] # BLANK
      /\ \A k \in v..n - 1 : BLANK # line[k] \/ BLANK # line[k + 1]
  BY DEF TextAt
<1>2. ASSUME line[l] \in Labels \cup Letters,
             \A k \in 1..n : line[k] \in {BLANK} \cup Labels \cup Letters \cup Values
      PROVE  v - 2 \in GroupEnds(line)
  <2>1. v - 2 \in 2..n - 2
    BY <1>0
  <2>2. line[v - 2] = BLANK /\ line[v - 2 + 1] = BLANK
    <3>1. v - 2 \in 1..v - 1 /\ v - 2 # l /\ v - 2 + 1 \in 1..v - 1 /\ v - 2 + 1 # l
      BY <1>0
    <3> QED
      BY <1>1, <3>1
  <2>3. \A j \in 1..v - 2 : line[j] \in {BLANK} \cup Labels \cup Letters \cup Marks
    BY <1>0, <1>1, <1>2
  <2>4. \A j \in v - 2 + 2..n : line[j] \in {BLANK} \cup Labels \cup Letters \cup Values
    BY <1>0, <1>2
  <2> QED
    BY <2>1, <2>2, <2>3, <2>4 DEF GroupEnds
<1>3. ASSUME NEW k \in GroupEnds(line)
      PROVE  /\ k \in Nat /\ k >= 2 /\ k <= n - 2
             /\ line[k] = BLANK /\ line[k + 1] = BLANK
             /\ \A j \in 1..k : line[j] \in {BLANK} \cup Labels \cup Letters \cup Marks
             /\ \A j \in k + 2..n : line[j] \in {BLANK} \cup Labels \cup Letters \cup Values
             /\ k <= v - 2
  <2>1. /\ k \in 2..n - 2
        /\ line[k] = BLANK /\ line[k + 1] = BLANK
        /\ \A j \in 1..k : line[j] \in {BLANK} \cup Labels \cup Letters \cup Marks
        /\ \A j \in k + 2..n : line[j] \in {BLANK} \cup Labels \cup Letters \cup Values
    BY <1>3 DEF GroupEnds
  <2>2. k \in Nat /\ k >= 2 /\ k <= n - 2
    BY <1>0, <2>1
  <2>3. k # v - 1
    <3>1. k = v - 1 => k + 1 = v
      BY <1>0, <2>2
    <3> QED
      BY <1>1, <2>1, <3>1
  <2>4. ~ (k >= v)
    <3>1. k >= v => k \in v..n - 1
      BY <1>0, <2>2
    <3> QED
      BY <1>1, <2>1, <3>1
  <2> QED
    BY <1>0, <2>1, <2>2, <2>3, <2>4
<1>4. ASSUME NEW k \in GroupEnds(line)
      PROVE  \/ \A j \in 1..k : line[j] = BLANK
             \/ line[l] \in Labels \cup Letters =>
                  \A j \in 1..n : line[j] \in {BLANK} \cup Labels \cup Letters \cup Values
  <2>1. CASE k < l
    BY <1>0, <1>1, <1>3, <2>1
  <2>2. CASE k >= l
    <3> SUFFICES ASSUME line[l] \in Labels \cup Letters, NEW j \in 1..n
                 PROVE  line[j] \in {BLANK} \cup Labels \cup Letters \cup Values
      OBVIOUS
    <3>1. j \in 1..v - 1 \/ j \in k + 2..n
      BY <1>0, <1>3
    <3> QED
      BY <1>1, <1>3, <3>1
  <2> QED
    BY <1>0, <1>3, <2>1, <2>2
<1> QED
  BY <1>2, <1>3, <1>4

\* Labels are no blanks, and name one field each.
LEMMA LabelsName ==
  /\ \A f \in fields : f[1] # BLANK
  /\ \A f, g \in fields : f[1] = g[1] <=> f[2] = g[2]
<1>1. \A f, a, b : f = <<a, b>> => f[1] = a /\ f[2] = b
  OBVIOUS
<1>2. ASSUME NEW f \in fields
      PROVE
           \/ f[1] = "Architecture" /\ f[2] = "architecture"
           \/ f[1] = "Committed heap size" /\ f[2] = "committedHeap"
           \/ f[1] = "Current classes loaded" /\ f[2] = "currentClassesLoaded"
           \/ f[1] = "Current heap size" /\ f[2] = "currentHeap"
           \/ f[1] = "Daemon threads" /\ f[2] = "daemonThreads"
           \/ f[1] = "Garbage collector" /\ f[2] = "garbageCollector"
           \/ f[1] = "Java Virtual Machine" /\ f[2] = "javaVirtualMachine"
           \/ f[1] = "Live threads" /\ f[2] = "liveThreads"
           \/ f[1] = "Maximum heap size" /\ f[2] = "maximumHeap"
           \/ f[1] = "Name" /\ f[2] = "Name"
           \/ f[1] = "Version" /\ f[2] = "version"
           \/ f[1] = "Vendor" /\ f[2] = "vendor"
           \/ f[1] = "Uptime" /\ f[2] = "upTime"
           \/ f[1] = "Total started" /\ f[2] = "totalStarted"
           \/ f[1] = "Total compile time" /\ f[2] = "totalCompileTime"
           \/ f[1] = "Total classes unloaded" /\ f[2] = "totalClassesUnloaded"
           \/ f[1] = "Total classes loaded" /\ f[2] = "totalClassesLoaded"
           \/ f[1] = "Processors" /\ f[2] = "processors"
           \/ f[1] = "Pid" /\ f[2] = "pid"
           \/ f[1] = "Pending objects" /\ f[2] = "pendingObjects"
           \/ f[1] = "Peak" /\ f[2] = "peak"
  <2>1.    \/ f = <<"Architecture", "architecture">>
           \/ f = <<"Committed heap size", "committedHeap">>
           \/ f = <<"Current classes loaded", "currentClassesLoaded">>
           \/ f = <<"Current heap size", "currentHeap">>
           \/ f = <<"Daemon threads", "daemonThreads">>
           \/ f = <<"Garbage collector", "garbageCollector">>
           \/ f = <<"Java Virtual Machine", "javaVirtualMachine">>
           \/ f = <<"Live threads", "liveThreads">>
           \/ f = <<"Maximum heap size", "maximumHeap">>
           \/ f = <<"Name", "Name">>
           \/ f = <<"Version", "version">>
           \/ f = <<"Vendor", "vendor">>
           \/ f = <<"Uptime", "upTime">>
           \/ f = <<"Total started", "totalStarted">>
           \/ f = <<"Total compile time", "totalCompileTime">>
           \/ f = <<"Total classes unloaded", "totalClassesUnloaded">>
           \/ f = <<"Total classes loaded", "totalClassesLoaded">>
           \/ f = <<"Processors", "processors">>
           \/ f = <<"Pid", "pid">>
           \/ f = <<"Pending objects", "pendingObjects">>
           \/ f = <<"Peak", "peak">>
    BY Zenon DEF fields
  <2> QED
    BY <1>1, <2>1, Zenon
<1>3. \A f \in fields : f[1] # BLANK
  BY <1>2 DEF BLANK
<1>4. ASSUME NEW f \in fields, NEW g \in fields
      PROVE  f[1] = g[1] <=> f[2] = g[2]
  BY <1>2
<1> QED
  BY <1>3, <1>4

\* A printed line has one label and one text.
LEMMA OneText ==
  ASSUME NEW line \in Seq(Words), NEW l \in Int, NEW v \in Int, TextAt(line, l, v),
         NEW m \in Int, NEW w \in Int, TextAt(line, m, w)
  PROVE  l = m /\ v = w
<1>1. /\ l \in 1..v - 3 /\ \A k \in 1..v - 1 : line[k] # BLANK <=> k = l
      /\ m \in 1..w - 3 /\ \A k \in 1..w - 1 : line[k] # BLANK <=> k = m
      /\ line[v] # BLANK /\ line[w] # BLANK
  BY DEF TextAt
<1>2. ~ (v < w)
  <2>1. v < w => v \in 1..w - 1 /\ l \in 1..w - 1 /\ l \in 1..v - 1 /\ v # l
    BY <1>1
  <2> QED
    BY <1>1, <2>1
<1>3. ~ (w < v)
  <2>1. w < v => w \in 1..v - 1 /\ m \in 1..v - 1 /\ m \in 1..w - 1 /\ w # m
    BY <1>1
  <2> QED
    BY <1>1, <2>1
<1>4. v = w
  BY <1>2, <1>3
<1>5. l \in 1..v - 1
  BY <1>1
<1> QED
  BY <1>1, <1>4, <1>5

\* Nothing is taken from a line without two blanks in a row, and it says nothing.
LEMMA PlainIsPassed ==
  ASSUME NEW line \in Seq(Words), Plain(line), NEW label
  PROVE  GroupEnds(line) = {} /\ Says(line, label) = {}
<1>0. Len(line) \in Nat
  BY LenProperties
<1>1. GroupEnds(line) = {}
  <2> SUFFICES ASSUME NEW k \in GroupEnds(line)
               PROVE  FALSE
    OBVIOUS
  <2>1. k \in 2..Len(line) - 2 /\ line[k] = BLANK /\ line[k + 1] = BLANK
    BY DEF GroupEnds
  <2>2. k \in 1..Len(line) - 1
    BY <1>0, <2>1
  <2> QED
    BY <2>1, <2>2 DEF Plain
<1>2. ASSUME NEW l \in Int, NEW v \in Int, TextAt(line, l, v)
      PROVE  FALSE
  <2>1. /\ l \in 1..v - 3 /\ v <= Len(line)
        /\ \A k \in 1..v - 1 : line[k] # BLANK <=> k = l
    BY <1>2 DEF TextAt
  <2>2. l + 1 \in 1..v - 1 /\ l + 1 + 1 \in 1..v - 1 /\ l + 1 # l /\ l + 1 + 1 # l /\ l + 1 \in 1..Len(line) - 1
    BY <1>0, <2>1
  <2>3. line[l + 1] = BLANK /\ line[l + 1 + 1] = BLANK
    BY <2>1, <2>2
  <2> QED
    BY <2>2, <2>3 DEF Plain
<1>3. Says(line, label) = {}
  <2>1. \A v \in 1..Len(line) : \A l \in 1..v : ~ TextAt(line, l, v)
    BY <1>2
  <2> QED
    BY <2>1 DEF Says
<1> QED
  BY <1>1, <1>3

\* Of a line as the container prints it the name that is taken is a label iff the
\* line says something of that label, and the value is what it says.
LEMMA PrintedIsRead ==
  ASSUME NEW line \in Seq(Words), Printed(line), NEW label \in Labels, label # BLANK
  PROVE  /\ GroupEnds(line) # {} /\ Name(line) = <<label>> <=> Says(line, label) # {}
         /\ Says(line, label) # {} => Value(line) \in Says(line, label)
<1> DEFINE n == Len(line)
           Taken == \A k \in 1..n : line[k] \in {BLANK} \cup Labels \cup Letters \cup Values
<1>0. n \in Nat
  BY LenProperties
<1>1. PICK l, v \in 1..n : TextAt(line, l, v)
  BY DEF Printed
<1>2. /\ l \in Int /\ v \in Int /\ l >= 1 /\ l <= v - 3 /\ v <= n
      /\ \A k \in 1..v - 1 : line[k] # BLANK <=> k = l
      /\ line[v] # BLANK /\ line[n] # BLANK
  <2>1. l \in Int /\ v \in Int
    BY <1>0
  <2>2. l \in 1..v - 3 /\ v <= n
    BY <1>1 DEF TextAt
  <2> QED
    BY <1>1, <2>1, <2>2 DEF TextAt
<1>3. ASSUME Says(line, label) # {}
      PROVE  line[l] = label /\ Taken
  <2>1. PICK w \in 1..n : (\E m \in 1..w : TextAt(line, m, w) /\ line[m] = label) /\ Taken
    BY <1>3 DEF Says
  <2>2. PICK m \in 1..w : TextAt(line, m, w) /\ line[m] = label
    BY <2>1
  <2>3. w \in Int /\ m \in Int
    BY <1>0, <2>1, <2>2
  <2>4. l = m
    BY <1>1, <1>2, <2>2, <2>3, OneText
  <2> QED
    BY <2>1, <2>2, <2>4
<1>4. ASSUME line[l] = label, Taken
      PROVE  SubSeq(line, v, n) \in Says(line, label)
  <2>1. l \in 1..v /\ v \in 1..n
    BY <1>0, <1>2
  <2> QED
    BY <1>1, <1>4, <2>1 DEF Says
<1>5. /\ line[l] \in Labels \cup Letters /\ Taken => v - 2 \in GroupEnds(line)
      /\ \A k \in GroupEnds(line) : k <= v - 2
      /\ \A k \in GroupEnds(line) :
           \/ \A j \in 1..k : line[j] = BLANK
           \/ line[l] \in Labels \cup Letters => Taken
  BY <1>1, <1>2, PrintedIsSplit
<1>6. ASSUME Says(line, label) # {}
      PROVE  /\ GroupEnds(line) # {} /\ Name(line) = <<label>>
             /\ Value(line) \in Says(line, label)
  <2>1. line[l] = label /\ Taken
    BY <1>3, <1>6
  <2>2. v - 2 \in GroupEnds(line)
    BY <1>5, <2>1
  <2>3. Split(line) = v - 2
    <3>1. Split(line) \in 2..n - 2 /\ Split(line) <= v - 2 /\ v - 2 <= Split(line)
      BY <1>5, <2>2, SplitIsLast
    <3> QED
      BY <1>0, <1>2, <3>1
  <2>4. v - 2 \in 2..n /\ l \in 1..v - 2 /\ \A k \in 1..v - 2 : k # l => line[k] = BLANK
    BY <1>0, <1>2
  <2>5. Name(line) = <<label>>
    <3>1. \E m \in 1..v - 2 : line[m] = label /\ \A k \in 1..v - 2 : k # m => line[k] = BLANK
      BY <2>1, <2>4
    <3>2. trim(SubSeq(line, 1, v - 2)) = <<label>>
      BY <2>4, <3>1, OneWord
    <3> QED
      BY <2>3, <3>2 DEF Name
  <2>6. Value(line) = SubSeq(line, v, n)
    <3>1. v - 2 + 2 = v
      BY <1>2
    <3>2. trim(SubSeq(line, v, n)) = SubSeq(line, v, n)
      BY <1>2, SolidPart
    <3> QED
      BY <2>3, <3>1, <3>2 DEF Value
  <2> QED
    BY <1>4, <2>1, <2>2, <2>5, <2>6
<1>7. ASSUME GroupEnds(line) # {}, Name(line) = <<label>>
      PROVE  Says(line, label) # {}
  <2> DEFINE k == Split(line)
  <2>1. k \in GroupEnds(line) /\ k \in 2..n - 2
    BY <1>7, SplitIsLast
  <2>2. k \in 2..n /\ k <= v - 2 /\ k \in Int
    BY <1>0, <1>5, <2>1
  <2>3. PICK m \in 1..k : line[m] = label /\ \A j \in 1..k : j # m => line[j] = BLANK
    <3>1. trim(SubSeq(line, 1, k)) = <<label>>
      BY <1>7 DEF Name
    <3> HIDE DEF k, n, Taken
    <3>2. k \in 2..Len(line)
      BY <2>2 DEF n
    <3>3. \A e \in 2..Len(line) :
            trim(SubSeq(line, 1, e)) = <<label>> <=>
              \E m \in 1..e : line[m] = label /\ \A j \in 1..e : j # m => line[j] = BLANK
      BY OneWord, Zenon
    <3> QED
      BY <3>1, <3>2, <3>3, Zenon
  <2>4. m = l
    <3>1. m \in 1..v - 1
      BY <1>2, <2>2, <2>3
    <3> QED
      BY <1>2, <2>3, <3>1
  <2>5. line[l] = label /\ line[m] # BLANK
    BY <2>3, <2>4
  <2>6. Taken
    <3> HIDE DEF k, Taken
    <3>1. (\A j \in 1..k : line[j] = BLANK) \/ (line[l] \in Labels \cup Letters => Taken)
      BY <1>5, <2>1
    <3> QED
      BY <2>3, <2>5, <3>1
  <2> QED
    BY <1>4, <2>5, <2>6
<1> QED
  BY <1>6, <1>7

-----------------------------------------------------------------------------
(* The loop over the lines *)

\* The local object is new unless GetSystemInfo is at work.
InfoTypes ==
  /\ called \in BOOLEAN
  /\ _infoText \in Seq(Seq(Words))
  /\ looked \in 0..Len(_infoText)
  /\ systemInfo \in [Fields -> Seq(Seq(Words))]
  /\ ~called => looked = 0
  /\ looked = 0 => systemInfo = NewSystemInfo

\* The first n lines of a text that tell of a label, and what a field should hold
\* when they have been looked at.
Tells(text, label, n) == {k \in 1..n : Says(text[k], label) # {}}

Follows(field, f, text, n) ==
  LET telling == Tells(text, f[1], n)
  IN  IF f[2] = "garbageCollector"
      THEN /\ Len(field) = Cardinality(telling)
           /\ \A k \in telling : field[Cardinality(telling \cap 1..k)] \in Says(text[k], f[1])
      ELSE \/ telling = {} /\ field = <<>>
           \/ \E k \in telling : /\ \A j \in telling : j <= k
                                 /\ \E said \in Says(text[k], f[1]) : field = <<said>>

Following(text, info, n) ==
  (\A k \in 1..n : Printed(text[k]) \/ Plain(text[k])) =>
    \A f \in fields : Follows(info[f[2]], f, text, n)

InfoInv == InfoTypes /\ Following(_infoText, systemInfo, looked) /\ NothingMisfiled

LEMMA FollowingFollows == Following(_infoText, systemInfo, looked) => FieldsFollowAnswer
<1>1. \A label : Telling(label) = Tells(_infoText, label, looked)
  BY DEF Telling, Tells
<1> QED
  BY <1>1 DEF Following, Follows, FieldsFollowAnswer

\* What a turn of the loop does with a field.
LEMMA FieldStep ==
  ASSUME InfoInv, Line, NEW f \in fields
  PROVE  /\ f[2] \in Fields /\ f[1] \in Labels /\ f[1] # BLANK
         /\ _infoText' = _infoText /\ looked' = looked + 1 /\ looked' \in 1..Len(_infoText)
         /\ _infoText[looked'] \in Seq(Words)
         /\ LET line == _infoText[looked']
                filed == GroupEnds(line) # {} /\ Name(line) = <<f[1]>>
            IN  systemInfo'[f[2]] = IF ~filed THEN systemInfo[f[2]]
                                    ELSE IF f[2] = "garbageCollector"
                                         THEN Append(systemInfo[f[2]], Value(line))
                                         ELSE <<Value(line)>>
<1> DEFINE line == _infoText[looked']
<1>1. f[2] \in Fields /\ f[1] \in Labels /\ f[1] # BLANK
  BY LabelsName DEF Fields, Labels
<1>2. _infoText' = _infoText /\ looked' = looked + 1 /\ looked' \in 1..Len(_infoText)
  <2>1. Len(_infoText) \in Nat
    BY LenProperties DEF InfoInv, InfoTypes
  <2> QED
    BY <2>1 DEF Line, InfoInv, InfoTypes
<1>3. _infoText[looked'] \in Seq(Words)
  BY <1>2, ElementOfSeq DEF InfoInv, InfoTypes
<1>4. systemInfo' = IF GroupEnds(line) = {} THEN systemInfo
                    ELSE setValue(systemInfo, Name(line), Value(line))
  BY <1>2 DEF Line
<1>5. Denotes(Name(line), f[2]) <=> Name(line) = <<f[1]>>
  BY LabelsName DEF Denotes
<1> HIDE DEF line
<1>6. setValue(systemInfo, Name(line), Value(line))[f[2]] =
        IF Name(line) # <<f[1]>> THEN systemInfo[f[2]]
        ELSE IF f[2] = "garbageCollector" THEN Append(systemInfo[f[2]], Value(line))
        ELSE <<Value(line)>>
  BY <1>1, <1>5 DEF setValue
<1>7. systemInfo'[f[2]] = IF GroupEnds(line) = {} \/ Name(line) # <<f[1]>> THEN systemInfo[f[2]]
                          ELSE IF f[2] = "garbageCollector" THEN Append(systemInfo[f[2]], Value(line))
                          ELSE <<Value(line)>>
  BY <1>4, <1>6
<1> QED
  BY <1>1, <1>2, <1>3, <1>7 DEF line

\* What is filed is a text.
LEMMA ValueIsText ==
  ASSUME NEW line \in Seq(Words), GroupEnds(line) # {}
  PROVE  Value(line) \in Seq(Words)
<1> DEFINE t == SubSeq(line, Split(line) + 2, Len(line))
<1>1. Len(line) \in Nat /\ Split(line) \in 2..Len(line) - 2
  BY LenProperties, SplitIsLast
<1>2. t \in Seq(Words) /\ Len(t) # 0
  <2>1. \A j \in Split(line) + 2..Len(line) : line[j] \in Words
    BY ElementOfSeq, <1>1
  <2>2. Split(line) + 2 \in Int /\ Split(line) + 2 <= Len(line)
    BY <1>1
  <2>3. t \in Seq(Words) /\ Len(t) = Len(line) - (Split(line) + 2) + 1
    BY <1>1, <2>1, <2>2, SubSeqProperties
  <2> QED
    BY <1>1, <2>2, <2>3
<1> HIDE DEF t
<1>3. t # <<>>
  BY <1>2, EmptySeq
<1>4. PICK a, z \in 1..Len(t) : trim(t) = SubSeq(t, a, z)
  BY <1>2, <1>3, Trimmed
<1>5. SubSeq(t, a, z) \in Seq(Words)
  <2>1. Len(t) \in Nat
    BY <1>2, LenProperties
  <2>2. \A k \in a..z : t[k] \in Words
    BY <1>2, <1>4, <2>1, ElementOfSeq
  <2> QED
    BY <1>4, <2>1, <2>2, SubSeqProperties
<1> QED
  BY <1>4, <1>5 DEF Value, t

\* Nothing is misfiled by a turn of the loop.
LEMMA MisfiledStep ==
  ASSUME InfoInv, Line
  PROVE  NothingMisfiled'
<1> SUFFICES ASSUME NEW f \in fields, NEW n \in DOMAIN systemInfo'[f[2]]
             PROVE  \E k \in 1..looked' : \E l \in 1..Len(_infoText[k]) :
                      /\ _infoText[k][l] = f[1]
                      /\ \A j \in 1..l - 1 : _infoText[k][j] = BLANK
                      /\ \E a, z \in l + 1..Len(_infoText[k]) :
                           systemInfo'[f[2]][n] = SubSeq(_infoText[k], a, z)
  <2>1. _infoText' = _infoText
    BY DEF Line
  <2> QED
    BY <2>1 DEF NothingMisfiled
<1> DEFINE line  == _infoText[looked']
           filed == GroupEnds(line) # {} /\ Name(line) = <<f[1]>>
<1>1. /\ f[2] \in Fields /\ f[1] # BLANK
      /\ looked' = looked + 1 /\ looked' \in 1..Len(_infoText)
      /\ line \in Seq(Words)
      /\ systemInfo'[f[2]] = IF ~filed THEN systemInfo[f[2]]
                             ELSE IF f[2] = "garbageCollector"
                                  THEN Append(systemInfo[f[2]], Value(line))
                                  ELSE <<Value(line)>>
  BY FieldStep
<1>2. systemInfo[f[2]] \in Seq(Seq(Words)) /\ looked \in Nat
  BY <1>1 DEF InfoInv, InfoTypes
<1>3. \/ n \in DOMAIN systemInfo[f[2]] /\ systemInfo'[f[2]][n] = systemInfo[f[2]][n]
      \/ filed /\ systemInfo'[f[2]][n] = Value(line)
  <2> HIDE DEF line
  <2>1. CASE ~filed
    BY <1>1, <2>1
  <2>2. CASE filed /\ f[2] # "garbageCollector"
    <3>1. systemInfo'[f[2]] = <<Value(line)>>
      BY <1>1, <2>2
    <3>2. n = 1
      BY <3>1
    <3> QED
      BY <2>2, <3>1, <3>2
  <2>3. CASE filed /\ f[2] = "garbageCollector"
    <3> DEFINE old == systemInfo[f[2]]
               new == Append(old, Value(line))
    <3>1. systemInfo'[f[2]] = new
      BY <1>1, <2>3
    <3>2. Value(line) \in Seq(Words)
      BY <1>1, <2>3, ValueIsText
    <3>3. /\ Len(old) \in Nat /\ DOMAIN old = 1..Len(old)
          /\ DOMAIN new = 1..Len(old) + 1
          /\ \A m \in 1..Len(old) : new[m] = old[m]
          /\ new[Len(old) + 1] = Value(line)
      <4> HIDE DEF filed
      <4> QED
        BY <1>2, <3>2
    <3>4. n \in 1..Len(old) + 1
      BY <3>1, <3>3
    <3>5. n \in 1..Len(old) \/ n = Len(old) + 1
      BY <3>3, <3>4
    <3> HIDE DEF old, new
    <3> QED
      BY <2>3, <3>1, <3>3, <3>5 DEF old
  <2> QED
    BY <2>1, <2>2, <2>3
<1>4. CASE n \in DOMAIN systemInfo[f[2]] /\ systemInfo'[f[2]][n] = systemInfo[f[2]][n]
  <2>1. PICK k \in 1..looked : \E l \in 1..Len(_infoText[k]) :
          /\ _infoText[k][l] = f[1]
          /\ \A j \in 1..l - 1 : _infoText[k][j] = BLANK
          /\ \E a, z \in l + 1..Len(_infoText[k]) :
               systemInfo[f[2]][n] = SubSeq(_infoText[k], a, z)
    BY <1>4 DEF InfoInv, NothingMisfiled
  <2>2. k \in 1..looked'
    BY <1>1, <1>2, <2>1
  <2> QED
    BY <1>4, <2>1, <2>2
<1>5. CASE filed /\ systemInfo'[f[2]][n] = Value(line)
  <2>1. \E l \in 1..Len(line) :
          /\ line[l] = f[1]
          /\ \A j \in 1..l - 1 : line[j] = BLANK
          /\ \E a, z \in l + 1..Len(line) : Value(line) = SubSeq(line, a, z)
    <3> HIDE DEF line
    <3> QED
      BY <1>1, <1>5, BehindItsLabel
  <2>2. looked' \in 1..looked'
    BY <1>1
  <2> QED
    BY <1>5, <2>1, <2>2
<1> QED
  BY <1>3, <1>4, <1>5

\* The lines that tell of a label, counted.
LEMMA CountOneMore ==
  ASSUME NEW n \in Nat, NEW T \in SUBSET (1..n)
  PROVE  /\ IsFiniteSet(T) /\ Cardinality(T) \in Nat
         /\ Cardinality(T \cup {n + 1}) = Cardinality(T) + 1
         /\ \A k \in T : /\ k \in 1..n
                         /\ (T \cup {n + 1}) \cap 1..k = T \cap 1..k
                         /\ Cardinality(T \cap 1..k) \in 1..Cardinality(T)
         /\ (T \cup {n + 1}) \cap 1..n + 1 = T \cup {n + 1}
<1>1. IsFiniteSet(T)
  <2>1. IsFiniteSet(1..n)
    BY FS_Interval
  <2> QED
    BY <2>1, FS_Subset
<1>2. n + 1 \notin T
  OBVIOUS
<1>3. Cardinality(T \cup {n + 1}) = Cardinality(T) + 1
  BY <1>1, <1>2, FS_AddElement
<1>4. ASSUME NEW k \in T
      PROVE  Cardinality(T \cap 1..k) \in 1..Cardinality(T)
  <2>1. IsFiniteSet(T \cap 1..k) /\ Cardinality(T \cap 1..k) <= Cardinality(T)
    BY <1>1, FS_Subset
  <2>2. T \cap 1..k # {}
    OBVIOUS
  <2>3. Cardinality(T \cap 1..k) # 0
    BY <2>1, <2>2, FS_EmptySet
  <2>4. Cardinality(T \cap 1..k) \in Nat /\ Cardinality(T) \in Nat
    BY <1>1, <2>1, FS_CardinalityType
  <2> QED
    BY <2>1, <2>3, <2>4
<1>5. Cardinality(T) \in Nat
  BY <1>1, FS_CardinalityType
<1>6. \A k \in T : k \in 1..n /\ (T \cup {n + 1}) \cap 1..k = T \cap 1..k
  OBVIOUS
<1>7. (T \cup {n + 1}) \cap 1..n + 1 = T \cup {n + 1}
  <2>1. \A k \in T \cup {n + 1} : k \in 1..n + 1
    OBVIOUS
  <2> QED
    BY <2>1
<1> QED
  BY <1>1, <1>3, <1>4, <1>5, <1>6, <1>7

\* A turn of the loop puts into the fields what the next line says.
LEMMA FollowStep ==
  ASSUME InfoInv, Line
  PROVE  Following(_infoText, systemInfo', looked + 1)
<1> DEFINE n == looked
           line == _infoText[n + 1]
<1> SUFFICES ASSUME \A k \in 1..n + 1 : Printed(_infoText[k]) \/ Plain(_infoText[k]),
                    NEW f \in fields
             PROVE  Follows(systemInfo'[f[2]], f, _infoText, n + 1)
  BY DEF Following
<1> DEFINE field == systemInfo[f[2]]
           T     == Tells(_infoText, f[1], n)
           says  == Says(line, f[1])
           filed == GroupEnds(line) # {} /\ Name(line) = <<f[1]>>
<1>1. n \in Nat /\ n + 1 \in Nat /\ n + 1 \in 1..n + 1
  BY DEF InfoInv, InfoTypes
<1>2. Follows(field, f, _infoText, n)
  <2>1. \A k \in 1..n : Printed(_infoText[k]) \/ Plain(_infoText[k])
    BY <1>1
  <2> QED
    BY <2>1 DEF InfoInv, Following
<1>3. /\ f[2] \in Fields /\ f[1] \in Labels /\ f[1] # BLANK
      /\ line \in Seq(Words)
      /\ systemInfo'[f[2]] = IF ~filed THEN field
                             ELSE IF f[2] = "garbageCollector" THEN Append(field, Value(line))
                             ELSE <<Value(line)>>
  <2>1. looked' = n + 1
    BY DEF Line
  <2> QED
    BY <2>1, FieldStep
<1>4. (filed <=> says # {}) /\ (says # {} => Value(line) \in says)
  <2> HIDE DEF line
  <2>1. CASE Printed(line)
    BY <1>3, <2>1, PrintedIsRead
  <2>2. CASE Plain(line)
    BY <1>3, <2>2, PlainIsPassed
  <2> QED
    BY <1>1, <2>1, <2>2 DEF line
<1>5. Tells(_infoText, f[1], n + 1) = IF says # {} THEN T \cup {n + 1} ELSE T
  <2>1. 1..n + 1 = (1..n) \cup {n + 1}
    BY <1>1
  <2> HIDE DEF n
  <2> QED
    BY <2>1 DEF Tells
<1>6. T \in SUBSET (1..n)
  BY DEF Tells
<1>7. field \in Seq(Seq(Words))
  BY <1>3 DEF InfoInv, InfoTypes
<1> HIDE DEF n, line, field, T, says, filed
<1>8. CASE says = {}
  <2>1. systemInfo'[f[2]] = field /\ Tells(_infoText, f[1], n + 1) = T
    BY <1>3, <1>4, <1>5, <1>8
  <2> QED
    BY <1>2, <2>1 DEF Follows, T
<1>9. CASE says # {} /\ f[2] # "garbageCollector"
  <2>1. systemInfo'[f[2]] = <<Value(line)>> /\ Value(line) \in says
    BY <1>3, <1>4, <1>9
  <2>2. Tells(_infoText, f[1], n + 1) = T \cup {n + 1}
    BY <1>5, <1>9
  <2>3. \A j \in T \cup {n + 1} : j <= n + 1
    BY <1>1, <1>6
  <2> QED
    BY <1>9, <2>1, <2>2, <2>3 DEF Follows, says, line
<1>10. CASE says # {} /\ f[2] = "garbageCollector"
  <2> DEFINE v   == Value(line)
             new == Append(field, v)
  <2>1. systemInfo'[f[2]] = new /\ v \in says
    BY <1>3, <1>4, <1>10
  <2>2. Tells(_infoText, f[1], n + 1) = T \cup {n + 1}
    BY <1>5, <1>10
  <2>3. /\ Cardinality(T) \in Nat
        /\ Cardinality(T \cup {n + 1}) = Cardinality(T) + 1
        /\ \A k \in T : /\ k \in 1..n
                        /\ (T \cup {n + 1}) \cap 1..k = T \cap 1..k
                        /\ Cardinality(T \cap 1..k) \in 1..Cardinality(T)
        /\ (T \cup {n + 1}) \cap 1..n + 1 = T \cup {n + 1}
    BY <1>1, <1>6, CountOneMore
  <2>4. /\ Len(field) = Cardinality(T)
        /\ \A k \in T : field[Cardinality(T \cap 1..k)] \in Says(_infoText[k], f[1])
    BY <1>2, <1>10 DEF Follows, T
  <2>5. v \in Seq(Words)
    BY <1>3, <1>4, <1>10, ValueIsText DEF filed
  <2>6. /\ Len(new) = Len(field) + 1
        /\ \A m \in 1..Len(field) : new[m] = field[m]
        /\ new[Len(field) + 1] = v
    BY <1>7, <2>5
  <2> HIDE DEF new, v
  <2>7. \A k \in T : new[Cardinality((T \cup {n + 1}) \cap 1..k)] \in Says(_infoText[k], f[1])
    BY <2>3, <2>4, <2>6
  <2>8. new[Cardinality((T \cup {n + 1}) \cap 1..n + 1)] \in Says(_infoText[n + 1], f[1])
    BY <2>1, <2>3, <2>4, <2>6 DEF says, line
  <2>9. Len(new) = Cardinality(T \cup {n + 1})
    BY <2>3, <2>4, <2>6
  <2>10. \A k \in T \cup {n + 1} :
           new[Cardinality((T \cup {n + 1}) \cap 1..k)] \in Says(_infoText[k], f[1])
    BY <2>7, <2>8
  <2> QED
    BY <1>10, <2>1, <2>2, <2>9, <2>10 DEF Follows
<1> QED
  BY <1>8, <1>9, <1>10

\* A new object, before any line.
LEMMA NewFollows ==
  ASSUME NEW text, NEW info, info = NewSystemInfo
  PROVE  /\ info \in [Fields -> Seq(Seq(Words))]
         /\ \A f \in fields : info[f[2]] = <<>>
         /\ Following(text, info, 0)
<1>1. \A f \in fields : info[f[2]] = <<>>
  BY DEF NewSystemInfo, Fields
<1>2. info \in [Fields -> Seq(Seq(Words))]
  <2>1. <<>> \in Seq(Seq(Words))
    BY EmptySeq
  <2> QED
    BY <2>1 DEF NewSystemInfo
<1>3. ASSUME NEW f \in fields
      PROVE  Follows(<<>>, f, text, 0)
  <2>1. Tells(text, f[1], 0) = {}
    BY DEF Tells
  <2>2. Cardinality({}) = 0
    BY FS_EmptySet
  <2> QED
    BY <2>1, <2>2 DEF Follows
<1> QED
  BY <1>1, <1>2, <1>3 DEF Following

\* GetSystemInfo, of any answer, keeps the invariant.
LEMMA InfoInvariance == InfoSpec => []InfoInv
<1>1. InfoInit => InfoInv
  <2> SUFFICES ASSUME InfoInit
               PROVE  InfoInv
    OBVIOUS
  <2>1. called = FALSE /\ _infoText = <<>> /\ looked = 0 /\ systemInfo = NewSystemInfo
    BY DEF InfoInit
  <2>2. <<>> \in Seq(Seq(Words)) /\ Len(<<>>) = 0
    BY EmptySeq
  <2>3. InfoTypes
    <3>1. systemInfo \in [Fields -> Seq(Seq(Words))]
      BY <2>1, NewFollows
    <3>2. 0 \in 0..Len(_infoText)
      BY <2>1, <2>2
    <3>3. _infoText \in Seq(Seq(Words))
      BY <2>1, <2>2
    <3> QED
      BY <2>1, <3>1, <3>2, <3>3 DEF InfoTypes
  <2>4. NothingMisfiled
    BY <2>1, NewFollows DEF NothingMisfiled
  <2> QED
    BY <2>1, <2>3, <2>4, NewFollows DEF InfoInv
<1>2. ASSUME InfoInv, Call
      PROVE  InfoInv'
  <2>1. /\ called' = TRUE /\ _infoText' \in Seq(Seq(Words))
        /\ looked' = 0 /\ systemInfo' = NewSystemInfo
    BY <1>2, AnswersAssumption DEF Call, InfoInv, InfoTypes
  <2>2. Len(_infoText') \in Nat
    BY <2>1, LenProperties
  <2>3. InfoTypes'
    BY <2>1, <2>2, NewFollows DEF InfoTypes
  <2>4. \A f \in fields : systemInfo'[f[2]] = <<>>
    BY <2>1, NewFollows
  <2>5. NothingMisfiled'
    BY <2>4 DEF NothingMisfiled
  <2>6. Following(_infoText', systemInfo', looked')
    BY <2>1, NewFollows
  <2> QED
    BY <2>3, <2>5, <2>6 DEF InfoInv, Following
<1>3. ASSUME InfoInv, Line
      PROVE  InfoInv'
  <2>1. looked' = looked + 1 /\ _infoText' = _infoText /\ called /\ called' = called
    BY <1>3 DEF Line
  <2>2. Following(_infoText', systemInfo', looked')
    BY <1>3, <2>1, FollowStep
  <2>3. systemInfo' \in [Fields -> Seq(Seq(Words))]
    <3> DEFINE line == _infoText[looked']
    <3>1. line \in Seq(Words) /\ looked' \in 1..Len(_infoText)
      <4>1. PICK f : f \in fields
        BY DEF fields
      <4> QED
        BY <1>3, <4>1, FieldStep
    <3>2. GroupEnds(line) # {} => Value(line) \in Seq(Words)
      BY <3>1, ValueIsText
    <3>3. systemInfo \in [Fields -> Seq(Seq(Words))]
      BY <1>3 DEF InfoInv, InfoTypes
    <3>4. systemInfo' = IF GroupEnds(line) = {} THEN systemInfo
                        ELSE setValue(systemInfo, Name(line), Value(line))
      BY <1>3, <2>1 DEF Line
    <3> HIDE DEF line
    <3>5. ASSUME NEW name, NEW value \in Seq(Words)
          PROVE  setValue(systemInfo, name, value) \in [Fields -> Seq(Seq(Words))]
      <4>1. \A field \in Seq(Seq(Words)) : Append(field, value) \in Seq(Seq(Words))
        OBVIOUS
      <4>2. <<value>> \in Seq(Seq(Words))
        OBVIOUS
      <4> QED
        BY <3>3, <4>1, <4>2 DEF setValue
    <3> QED
      BY <3>2, <3>3, <3>4, <3>5
  <2>4. InfoTypes'
    <3>1. looked' \in 0..Len(_infoText) /\ looked' # 0
      <4>1. PICK f : f \in fields
        BY DEF fields
      <4>2. looked' \in 1..Len(_infoText)
        BY <1>3, <4>1, FieldStep
      <4> QED
        BY <4>2
    <3> QED
      BY <1>3, <2>1, <2>3, <3>1 DEF InfoInv, InfoTypes
  <2>5. NothingMisfiled'
    BY <1>3, MisfiledStep
  <2> QED
    BY <2>2, <2>4, <2>5 DEF InfoInv, Following
<1>4. ASSUME InfoInv, Return
      PROVE  InfoInv'
  <2>1. /\ called' = FALSE /\ _infoText' = <<>>
        /\ looked' = 0 /\ systemInfo' = NewSystemInfo
    BY <1>4 DEF Return
  <2>2. <<>> \in Seq(Seq(Words)) /\ Len(<<>>) = 0
    BY EmptySeq
  <2>3. InfoTypes'
    <3>1. systemInfo' \in [Fields -> Seq(Seq(Words))]
      BY <2>1, NewFollows
    <3>2. 0 \in 0..Len(_infoText')
      BY <2>1, <2>2
    <3>3. _infoText' \in Seq(Seq(Words))
      BY <2>1, <2>2
    <3> QED
      BY <2>1, <3>1, <3>2, <3>3 DEF InfoTypes
  <2>4. \A f \in fields : systemInfo'[f[2]] = <<>>
    BY <2>1, NewFollows
  <2>5. NothingMisfiled'
    BY <2>4 DEF NothingMisfiled
  <2>6. Following(_infoText', systemInfo', looked')
    BY <2>1, NewFollows
  <2> QED
    BY <2>3, <2>5, <2>6 DEF InfoInv, Following
<1>5. ASSUME InfoInv, UNCHANGED infoVars
      PROVE  InfoInv'
  BY <1>5 DEF infoVars, InfoInv, InfoTypes, Following, NothingMisfiled
<1>6. InfoInv /\ [InfoNext]_(infoVars) => InfoInv'
  BY <1>2, <1>3, <1>4, <1>5 DEF InfoNext
<1> QED
  BY <1>1, <1>6, PTL DEF InfoSpec

\* Whatever lines an info command answers with, as long as they are lines as the
\* container prints them or lines without a gap, every field holds what they say.
THEOREM FieldsAlwaysFollow == InfoSpec => []FieldsFollowAnswer
<1>1. InfoInv => FieldsFollowAnswer
  BY FollowingFollows DEF InfoInv
<1> QED
  BY <1>1, InfoInvariance, PTL

\* Whatever lines there are, nothing is filed under a label that is not the first
\* word of its line.
THEOREM NothingEverMisfiled == InfoSpec => []NothingMisfiled
<1>1. InfoInv => NothingMisfiled
  BY DEF InfoInv
<1> QED
  BY <1>1, InfoInvariance, PTL

=============================================================================
