--------------------------- MODULE StartupProofs ---------------------------
(***************************************************************************)
(* Theorems about Startup for every file, chunk size and configuration.    *)
(***************************************************************************)
EXTENDS Startup, SequenceTheorems, WellFoundedInduction, TLAPS

\* A part of a sequence.
LEMMA SubSeqOfText ==
  ASSUME NEW S, NEW s \in Seq(S), NEW m \in Int, NEW n \in Int, m >= 1, n <= Len(s)
  PROVE  SubSeq(s, m, n) \in Seq(S)
<1>1. CASE m <= n
  <2>1. \A k \in m..n : s[k] \in S
    BY ElementOfSeq, LenProperties
  <2> QED
    BY <1>1, <2>1, SubSeqProperties
<1>2. CASE m > n
  BY <1>2, SubSeqProperties, EmptySeq
<1> QED
  BY <1>1, <1>2

\* A set of numbers that is not empty has a smallest one.
LEMMA Smallest ==
  ASSUME NEW T \in SUBSET Nat, T # {}
  PROVE  \E k \in T : \A j \in T : k <= j
<1>1. PICK k \in T : \A j \in T : ~ (<<j, k>> \in OpToRel(<, Nat))
  BY WFMin, NatLessThanWellFounded
<1>2. \A j \in T : ~ (j < k)
  BY <1>1 DEF OpToRel
<1> QED
  BY <1>2

-----------------------------------------------------------------------------
\* What the loop over the chunks keeps: what has been read is the beginning of
\* the file, whole chunks of it as long as the loop goes on, and the loop ends with
\* the file unless a read has failed.
Reading ==
  /\ configString = SubSeq(file, 1, position)
  /\ phase = "opening" => position = 0
  /\ phase = "reading" => \E q \in Nat : position = ChunkSize * q
  /\ phase \in {"parsing", "expanding", "running"} /\ ~readError =>
       position = Len(file) /\ Len(file) % ChunkSize # 0
  /\ phase # "running" => threads = {}
  /\ Len(file) % ChunkSize = 0 /\ ~readError => threads = {}

IInv == TypeOK /\ Reading

-----------------------------------------------------------------------------
(* Texts *)

\* find delivers a place where the text is found.
LEMMA FindFinds ==
  ASSUME NEW text \in Seq(Chars), NEW p, Occurs(text, p)
  PROVE  Find(text, p) \in 1..Len(text) /\ OccursAt(text, p, Find(text, p))
<1> DEFINE T == {k \in 1..Len(text) : OccursAt(text, p, k)}
<1>0. Len(text) \in Nat
  BY LenProperties
<1>1. T \in SUBSET Nat /\ T # {}
  BY <1>0 DEF Occurs
<1>2. PICK k \in T : \A j \in T : k <= j
  <2> HIDE DEF T
  <2> QED
    BY <1>1, Smallest
<1>3. \A j \in 1..k - 1 : ~OccursAt(text, p, j)
  BY <1>0, <1>2
<1> QED
  BY <1>2, <1>3 DEF Find

LEMMA ReplaceType ==
  ASSUME NEW text \in Seq(Chars), NEW value \in Seq(Chars), NEW p \in Seq(Chars), Occurs(text, p)
  PROVE  Replace(text, Find(text, p), Len(p), value) \in Seq(Chars)
<1> DEFINE k == Find(text, p)
<1>1. k \in 1..Len(text) /\ k + Len(p) - 1 <= Len(text)
  BY FindFinds DEF OccursAt
<1> HIDE DEF k
<1>2. Len(text) \in Nat /\ Len(p) \in Nat
  BY LenProperties
<1>3. SubSeq(text, 1, k - 1) \in Seq(Chars)
  BY <1>1, <1>2, SubSeqOfText
<1>4. SubSeq(text, k + Len(p), Len(text)) \in Seq(Chars)
  BY <1>1, <1>2, SubSeqOfText
<1>5. SubSeq(text, 1, k - 1) \o value \o SubSeq(text, k + Len(p), Len(text)) \in Seq(Chars)
  BY <1>3, <1>4, ConcatProperties
<1> QED
  BY <1>5 DEF Replace, k

\* What occurs in a text occurs in a longer one around it.
LEMMA OccursInside ==
  ASSUME NEW a \in Seq(Chars), NEW v \in Seq(Chars), NEW b \in Seq(Chars), NEW p \in Seq(Chars),
         Occurs(v, p)
  PROVE  Occurs(a \o v \o b, p)
<1> DEFINE w == a \o v \o b
<1>0. Len(a) \in Nat /\ Len(v) \in Nat /\ Len(b) \in Nat /\ Len(p) \in Nat
  BY LenProperties
<1>1. PICK j \in 1..Len(v) : OccursAt(v, p, j)
  BY DEF Occurs
<1>2. /\ a \o v \in Seq(Chars) /\ Len(a \o v) = Len(a) + Len(v)
      /\ \A n \in 1..Len(v) : (a \o v)[Len(a) + n] = v[n]
  BY <1>0, ConcatProperties
<1>3. /\ w \in Seq(Chars) /\ Len(w) = Len(a) + Len(v) + Len(b)
      /\ \A n \in 1..Len(a) + Len(v) : w[n] = (a \o v)[n]
  BY <1>0, <1>2, ConcatProperties
<1>4. \A n \in 1..Len(v) : w[Len(a) + n] = v[n]
  BY <1>0, <1>2, <1>3
<1> HIDE DEF w
<1>5. j \in Nat /\ 1 <= j /\ j <= Len(v) /\ j + Len(p) - 1 <= Len(v) /\ SubSeq(v, j, j + Len(p) - 1) = p
  BY <1>0, <1>1 DEF OccursAt
<1> DEFINE k == Len(a) + j
<1>6. k \in 1..Len(w) /\ k + Len(p) - 1 <= Len(w)
  BY <1>0, <1>3, <1>5
<1>7. SubSeq(w, k, k + Len(p) - 1) = p
  <2>1. SubSeq(w, k, k + Len(p) - 1) \in Seq(Chars)
    BY <1>0, <1>3, <1>6, SubSeqOfText
  <2>2. Len(SubSeq(w, k, k + Len(p) - 1)) = Len(p)
    BY <1>0, <1>3, <1>6
  <2>3. ASSUME NEW n \in 1..Len(p)
        PROVE  SubSeq(w, k, k + Len(p) - 1)[n] = p[n]
    <3>1. SubSeq(w, k, k + Len(p) - 1)[n] = w[k + n - 1]
      BY <1>0, <1>3, <1>6
    <3>2. SubSeq(v, j, j + Len(p) - 1)[n] = v[j + n - 1]
      BY <1>0, <1>5
    <3>3. j + n - 1 \in 1..Len(v) /\ Len(a) + (j + n - 1) = k + n - 1
      BY <1>0, <1>5
    <3> QED
      BY <1>4, <1>5, <3>1, <3>2, <3>3
  <2> QED
    BY <2>1, <2>2, <2>3, SeqEqual
<1> QED
  BY <1>6, <1>7 DEF Occurs, OccursAt, w

\* A reference that is replaced by a value which contains it is found again.
LEMMA ReplacedStays ==
  ASSUME NEW text \in Seq(Chars), NEW value \in Seq(Chars), NEW p \in Seq(Chars),
         Occurs(text, p), Occurs(value, p)
  PROVE  Occurs(Replace(text, Find(text, p), Len(p), value), p)
<1> DEFINE k == Find(text, p)
<1>1. k \in 1..Len(text) /\ k + Len(p) - 1 <= Len(text)
  BY FindFinds DEF OccursAt
<1> HIDE DEF k
<1>2. Len(text) \in Nat /\ Len(p) \in Nat
  BY LenProperties
<1>3. SubSeq(text, 1, k - 1) \in Seq(Chars) /\ SubSeq(text, k + Len(p), Len(text)) \in Seq(Chars)
  BY <1>1, <1>2, SubSeqOfText
<1>4. Occurs(SubSeq(text, 1, k - 1) \o value \o SubSeq(text, k + Len(p), Len(text)), p)
  BY <1>3, OccursInside
<1> QED
  BY <1>4 DEF Replace, k

LEMMA ReferenceType ==
  ASSUME IInv, itr < Len(config.set_commands)
  PROVE  Reference(Member) \in Seq(Chars) /\ Member.value \in Seq(Chars)
<1>1. itr + 1 \in 1..Len(config.set_commands)
  BY LenProperties DEF IInv, TypeOK, Config
<1>2. Member \in [key : Seq(Chars), value : Seq(Chars)]
  BY <1>1, ElementOfSeq DEF IInv, TypeOK, Config, Member
<1>3. <<PERCENT>> \in Seq(Chars)
  BY DEF PERCENT, Chars
<1> QED
  BY <1>2, <1>3, ConcatProperties DEF Reference

-----------------------------------------------------------------------------
(* Chunks *)

LEMMA RestOfDivision ==
  ASSUME NEW c \in Nat \ {0}, NEW q \in Int, NEW r \in 0..c - 1
  PROVE  (c * q + r) % c = r
OBVIOUS

-----------------------------------------------------------------------------

THEOREM InitEstablishes == Init => IInv
<1> SUFFICES ASSUME Init
             PROVE  IInv
  OBVIOUS
<1>1. file \in Seq(Chars) /\ Len(file) \in Nat
  BY FilesAssumption, LenProperties DEF Init
<1>2. SubSeq(file, 1, 0) = <<>>
  BY <1>1, SubSeqProperties
<1>3. <<>> \in Seq(Chars) /\ NoConfig \in Config
  BY EmptySeq DEF NoConfig, Config
<1>4. Reading
  BY <1>2 DEF Init, Reading
<1>5. Len(config.set_commands) = 0
  BY <1>3, EmptySeq DEF Init, NoConfig
<1>6. TypeOK
  <2>1. readError \in BOOLEAN
    BY DEF Init
  <2>2. /\ phase \in {"opening", "reading", "parsing", "expanding", "running", "ended"}
        /\ position \in 0..Len(file)
        /\ config \in Config
        /\ itr \in 0..Len(config.set_commands)
        /\ threads \subseteq {"monitor", "rest"}
    BY <1>1, <1>3, <1>5 DEF Init
  <2>3. configString \in Seq(Chars) /\ batchCommands \in Seq(Chars)
    BY <1>3 DEF Init
  <2> QED
    BY <1>1, <2>1, <2>2, <2>3 DEF TypeOK
<1> QED
  BY <1>4, <1>6 DEF IInv

\* The next n characters of the file are appended.
LEMMA Appended ==
  ASSUME IInv, NEW n \in 0..Len(file) - position,
         configString' = configString \o SubSeq(file, position + 1, position + n),
         position' = position + n, file' = file
  PROVE  /\ position' \in 0..Len(file)
         /\ configString' = SubSeq(file', 1, position')
         /\ configString' \in Seq(Chars)
<1>0. /\ file \in Seq(Chars) /\ Len(file) \in Nat /\ position \in 0..Len(file)
  BY LenProperties DEF IInv, TypeOK
<1>1. position' \in 0..Len(file)
  BY <1>0
<1>2. configString' = SubSeq(file', 1, position')
  <2>1. CASE n = 0
    <3>1. SubSeq(file, position + 1, position + n) = <<>>
      BY <1>0, <2>1, SubSeqProperties
    <3>2. configString \in Seq(Chars) /\ configString' = configString \o <<>>
      BY <3>1 DEF IInv, TypeOK
    <3>3. configString' = configString /\ position' = position
      BY <1>0, <2>1, <3>2, ConcatEmptySeq
    <3> QED
      BY <3>3 DEF IInv, Reading
  <2>2. CASE n > 0
    BY <1>0, <2>2, ConcatAdjacentSubSeq DEF IInv, Reading
  <2> QED
    BY <1>0, <2>1, <2>2
<1>3. \A m \in 0..Len(file) : SubSeq(file, 1, m) \in Seq(Chars)
  BY <1>0, SubSeqOfText
<1> QED
  BY <1>1, <1>2, <1>3

LEMMA FailStep ==
  ASSUME IInv, ReadFails
  PROVE  IInv'
<1>0. Len(file) \in Nat /\ position \in 0..Len(file) /\ ChunkSize \in Nat \ {0}
  BY SizeAssumption, LenProperties DEF IInv, TypeOK
<1>1. PICK n \in 0..Least(ChunkSize - 1, Len(file) - position) :
        /\ configString' = configString \o SubSeq(file, position + 1, position + n)
        /\ position' = position + n
        /\ phase' = IF n > 0 THEN "parsing" ELSE "reading"
  BY DEF ReadFails
<1>2. readError' = TRUE /\ phase = "reading" /\ UNCHANGED <<file, configVars, threads>>
  BY DEF ReadFails
<1>3. n \in 0..Len(file) - position
  BY <1>0 DEF Least
<1>4. /\ position' \in 0..Len(file)
      /\ configString' = SubSeq(file', 1, position')
      /\ configString' \in Seq(Chars)
  BY <1>1, <1>2, <1>3, Appended
<1>5. TypeOK'
  BY <1>1, <1>2, <1>4 DEF IInv, TypeOK, configVars
<1>6. phase' = "reading" => \E q \in Nat : position' = ChunkSize * q
  <2>1. phase' = "reading" => position' = position
    BY <1>0, <1>1, <1>3
  <2> QED
    BY <1>2, <2>1 DEF IInv, Reading
<1>7. phase' \in {"parsing", "reading"} /\ threads' = {}
  BY <1>1, <1>2 DEF IInv, Reading
<1> QED
  BY <1>2, <1>4, <1>5, <1>6, <1>7 DEF IInv, Reading

LEMMA ReadStep ==
  ASSUME IInv, ReadChunk
  PROVE  IInv'
<1> DEFINE n == Least(ChunkSize, Len(file) - position)
<1>0. /\ file \in Seq(Chars) /\ Len(file) \in Nat /\ position \in 0..Len(file)
      /\ ChunkSize \in Nat \ {0}
  BY SizeAssumption, LenProperties DEF IInv, TypeOK
<1>1. /\ n > 0
      /\ configString' = configString \o SubSeq(file, position + 1, position + n)
      /\ position' = position + n
      /\ phase' = IF n < ChunkSize THEN "parsing" ELSE "reading"
      /\ UNCHANGED <<file, readError, configVars, threads>>
  BY DEF ReadChunk
<1>2. n \in Nat /\ position + n <= Len(file) /\ n <= ChunkSize
      /\ (n < ChunkSize => position + n = Len(file))
  BY <1>0, <1>1 DEF Least
<1> HIDE DEF n
<1>3. /\ position' \in 0..Len(file)
      /\ configString' = SubSeq(file', 1, position')
      /\ configString' \in Seq(Chars)
  <2>1. n \in 0..Len(file) - position
    BY <1>0, <1>2
  <2> QED
    BY <1>1, <2>1, Appended
<1>4. PICK q \in Nat : position = ChunkSize * q
  BY DEF IInv, Reading, ReadChunk
<1>5. TypeOK'
  <2>1. phase' \in {"parsing", "reading"}
    BY <1>1
  <2> QED
    BY <1>1, <1>3, <2>1 DEF IInv, TypeOK, configVars
<1>6. CASE n < ChunkSize
  <2>1. Len(file) = ChunkSize * q + n
    BY <1>2, <1>4, <1>6
  <2>2. (ChunkSize * q + n) % ChunkSize = n
    <3>1. q \in Int /\ n \in 0..ChunkSize - 1
      BY <1>0, <1>2, <1>4, <1>6
    <3> QED
      BY <1>0, <3>1, RestOfDivision
  <2>3. Len(file) % ChunkSize # 0
    BY <1>1, <2>1, <2>2, <1>2
  <2>4. phase' = "parsing" /\ position' = Len(file')
    BY <1>1, <1>2, <1>6
  <2> QED
    BY <1>1, <1>3, <1>5, <2>3, <2>4 DEF IInv, Reading, ReadChunk
<1>7. CASE n = ChunkSize
  <2>1. ChunkSize * q + ChunkSize = ChunkSize * (q + 1)
    BY <1>0
  <2>2. position' = ChunkSize * (q + 1) /\ q + 1 \in Nat
    BY <1>1, <1>4, <1>7, <2>1
  <2>3. phase' = "reading" /\ position' \in 0..Len(file)
    BY <1>0, <1>1, <1>2, <1>7
  <2>4. phase' = "reading" => \E r \in Nat : position' = ChunkSize * r
    BY <2>2, Zenon
  <2>5. threads = {} /\ threads' = {}
    BY <1>1 DEF IInv, Reading, ReadChunk
  <2> QED
    BY <1>3, <1>5, <2>3, <2>4, <2>5 DEF IInv, Reading
<1> QED
  BY <1>0, <1>2, <1>6, <1>7

LEMMA ParseStep ==
  ASSUME IInv, Parse
  PROVE  IInv'
<1>1. UNCHANGED <<fileVars, threads>>
  BY DEF Parse
<1>2. CASE phase' = "ended" /\ UNCHANGED configVars
  BY <1>1, <1>2 DEF IInv, TypeOK, Reading, Parse, fileVars, configVars
<1>3. CASE config' \in Configs /\ batchCommands' = config'.batch_commands /\ itr' = 0 /\ phase' = "expanding"
  <2>1. config' \in Config
    BY <1>3, ConfigsAssumption
  <2>2. batchCommands' \in Seq(Chars) /\ Len(config'.set_commands) \in Nat
    BY <1>3, <2>1, LenProperties DEF Config
  <2> QED
    BY <1>1, <1>3, <2>1, <2>2 DEF IInv, TypeOK, Reading, Parse, fileVars
<1> QED
  BY <1>2, <1>3 DEF Parse

LEMMA ExpandStep ==
  ASSUME IInv, ExpandOne
  PROVE  IInv'
<1>1. UNCHANGED <<phase, fileVars, config, itr, threads>>
  BY DEF ExpandOne
<1>2. batchCommands' \in Seq(Chars)
  BY ReferenceType, ReplaceType DEF IInv, TypeOK, ExpandOne
<1> QED
  BY <1>1, <1>2 DEF IInv, TypeOK, Reading, fileVars

LEMMA OtherSteps ==
  ASSUME IInv, Open \/ ReadNothing \/ NextMember \/ StartThreads
  PROVE  IInv'
<1>1. CASE Open
  <2>1. phase' = "reading" => \E q \in Nat : position = ChunkSize * q
    BY <1>1, SizeAssumption DEF IInv, Reading, Open
  <2> QED
    BY <1>1, <2>1 DEF IInv, TypeOK, Reading, Open, fileVars, configVars
<1>2. CASE ReadNothing
  BY <1>2 DEF IInv, TypeOK, Reading, ReadNothing, vars
<1>3. CASE NextMember
  BY <1>3, LenProperties DEF IInv, TypeOK, Reading, NextMember, fileVars, Config
<1>4. CASE StartThreads
  BY <1>4 DEF IInv, TypeOK, Reading, StartThreads, fileVars, configVars
<1> QED
  BY <1>1, <1>2, <1>3, <1>4

THEOREM IInvInvariant == Spec => []IInv
<1>1. IInv /\ UNCHANGED vars => IInv'
  BY DEF vars, IInv, TypeOK, Reading
<1>2. IInv /\ [Next]_vars => IInv'
  BY <1>1, ReadStep, FailStep, ParseStep, ExpandStep, OtherSteps DEF Next, MainThread
<1> QED
  BY <1>2, InitEstablishes, PTL DEF Spec

-----------------------------------------------------------------------------

\* For every configuration: positions stay in the file, and what is expanded
\* stays a text.
THEOREM TypeCorrect == Spec => []TypeOK
<1>1. IInv => TypeOK
  BY DEF IInv
<1> QED
  BY <1>1, IInvInvariant, PTL

\* For every file and chunk size, the text that is parsed is a beginning of the file,
\* and the whole of it unless a read has failed.
THEOREM LoadedAlwaysWhole == Spec => []LoadedWhole
<1>1. IInv => LoadedWhole
  <2> SUFFICES ASSUME IInv, phase \in {"parsing", "expanding", "running"}
               PROVE  /\ configString = SubSeq(file, 1, Len(configString))
                      /\ ~readError => configString = file
    BY DEF LoadedWhole
  <2>1. /\ file \in Seq(Chars) /\ Len(file) \in Nat /\ position \in 0..Len(file)
        /\ configString = SubSeq(file, 1, position)
        /\ ~readError => position = Len(file)
    BY LenProperties DEF IInv, TypeOK, Reading
  <2>2. Len(configString) = position
    BY <2>1, SubSeqProperties
  <2>3. SubSeq(file, 1, Len(file)) = file
    BY <2>1, LenProperties, SubSeqProperties, SeqEqual
  <2> QED
    BY <2>1, <2>2, <2>3
<1> QED
  BY <1>1, IInvInvariant, PTL

\* For every chunk size, a file of whole chunks is never parsed unless a read fails.
THEOREM AlignedIsNeverParsed == Spec => []AlignedNeverParsed
<1>1. IInv => AlignedNeverParsed
  BY DEF IInv, TypeOK, Reading, AlignedNeverParsed
<1> QED
  BY <1>1, IInvInvariant, PTL

-----------------------------------------------------------------------------
(* Values that contain their own reference *)

\* The first member is never passed: its reference stays in the commands.
Caught ==
  SelfReferring(config) =>
    /\ phase # "running"
    /\ phase = "expanding" => itr = 0 /\ Occurs(batchCommands, Reference(config.set_commands[1]))

LEMMA CaughtStep ==
  ASSUME IInv, Caught, Next
  PROVE  Caught'
<1>1. CASE Open \/ ReadChunk \/ ReadFails \/ ReadNothing
  BY <1>1 DEF Caught, SelfReferring, Occurs, Open, ReadChunk, ReadFails, ReadNothing, configVars, vars
<1>2. CASE Parse
  <2>1. CASE phase' = "ended" /\ UNCHANGED configVars
    BY <1>2, <2>1 DEF Caught
  <2>2. CASE batchCommands' = config'.batch_commands /\ itr' = 0 /\ phase' = "expanding"
    BY <1>2, <2>2 DEF Caught, SelfReferring
  <2> QED
    BY <1>2, <2>1, <2>2 DEF Parse
<1>3. CASE ExpandOne
  <2>1. phase = "expanding" /\ UNCHANGED <<phase, config, itr>>
    BY <1>3 DEF ExpandOne
  <2>2. ASSUME SelfReferring(config)
        PROVE  Occurs(batchCommands', Reference(config.set_commands[1]))
    <3>1. itr = 0 /\ Member = config.set_commands[1]
      BY <2>1, <2>2 DEF Caught, Member
    <3>2. /\ batchCommands \in Seq(Chars) /\ Reference(Member) \in Seq(Chars) /\ Member.value \in Seq(Chars)
          /\ Occurs(batchCommands, Reference(Member))
      BY <1>3, ReferenceType DEF IInv, TypeOK, ExpandOne
    <3>3. Occurs(Member.value, Reference(Member))
      BY <2>2, <3>1 DEF SelfReferring
    <3> QED
      BY <1>3, <3>1, <3>2, <3>3, ReplacedStays DEF ExpandOne
  <2> QED
    BY <2>1, <2>2 DEF Caught, SelfReferring
<1>4. CASE NextMember
  <2>1. ~SelfReferring(config) /\ UNCHANGED config
    BY <1>4 DEF NextMember, Caught, Member
  <2> QED
    BY <2>1 DEF Caught, SelfReferring
<1>5. CASE StartThreads
  <2>1. ~SelfReferring(config) /\ UNCHANGED config
    <3>1. config.set_commands \in Seq([key : Seq(Chars), value : Seq(Chars)])
      BY DEF IInv, TypeOK, Config
    <3>2. SelfReferring(config) => Len(config.set_commands) # 0
      BY <3>1, EmptySeq DEF SelfReferring
    <3> QED
      BY <1>5, <3>2 DEF StartThreads, Caught, configVars
  <2> QED
    BY <2>1 DEF Caught, SelfReferring
<1> QED
  BY <1>1, <1>2, <1>3, <1>4, <1>5 DEF Next, MainThread

\* For every configuration, a first value that contains its own reference, once
\* that is to be replaced, keeps the threads from ever being started.
THEOREM SelfReferenceNeverGetsThrough == Spec => []SelfReferenceNeverStarts
<1>1. Init => Caught
  BY DEF Init, Caught
<1>2. IInv /\ Caught /\ [Next]_vars => Caught'
  <2>1. Caught /\ UNCHANGED vars => Caught'
    BY DEF vars, Caught, SelfReferring
  <2> QED
    BY <2>1, CaughtStep
<1>3. Caught => SelfReferenceNeverStarts
  BY DEF Caught, SelfReferenceNeverStarts
<1> QED
  BY <1>1, <1>2, <1>3, IInvInvariant, PTL DEF Spec


-----------------------------------------------------------------------------
(* Reading texts for their references *)

\* What holds of 0, and of every number whose predecessor it holds of.
LEMMA Climb ==
  ASSUME NEW N \in Nat, NEW T, 0 \in T, \A n \in 0..N - 1 : n \in T => n + 1 \in T
  PROVE  \A n \in 0..N : n \in T
<1> DEFINE U == {n \in 0..N : n \notin T}
<1> SUFFICES ASSUME U # {} PROVE FALSE
  OBVIOUS
<1>1. U \in SUBSET Nat
  OBVIOUS
<1>2. PICK k \in U : \A j \in U : k <= j
  <2> HIDE DEF U
  <2> QED
    BY <1>1, Smallest
<1>3. k # 0 /\ k - 1 \in 0..N - 1 /\ k - 1 \notin U
  BY <1>2
<1>4. k - 1 \in T
  BY <1>3
<1> QED
  BY <1>2, <1>3, <1>4

Start == [out |-> <<>>, pending |-> <<>>]

LEMMA ScanDefined ==
  ASSUME NEW c, NEW text \in Seq(Chars)
  PROVE  /\ Scan(c, text)[0] = Start
         /\ \A n \in 1..Len(text) : Scan(c, text)[n] = Scanned(c, Scan(c, text)[n - 1], text[n])
<1> DEFINE N == Len(text)
           Builds(g, m) ==
             g = [n \in 0..m |-> IF n = 0 THEN Start ELSE Scanned(c, g[n - 1], text[n])]
           T == {m \in 0..N : \E g : Builds(g, m)}
<1>0. N \in Nat
  BY LenProperties
<1>1. 0 \in T
  <2>1. Builds([n \in 0..0 |-> Start], 0)
    OBVIOUS
  <2>2. \E g : Builds(g, 0)
    <3> HIDE DEF Builds
    <3> QED
      BY <2>1, Zenon
  <2> HIDE DEF Builds
  <2> QED
    BY <1>0, <2>2
<1>2. ASSUME NEW m \in 0..N - 1, m \in T
      PROVE  m + 1 \in T
  <2>1. PICK g : Builds(g, m)
    BY <1>2
  <2> DEFINE h == [n \in 0..m + 1 |-> IF n <= m THEN g[n] ELSE Scanned(c, g[m], text[m + 1])]
  <2>2. ASSUME NEW n \in 0..m + 1
        PROVE  h[n] = IF n = 0 THEN Start ELSE Scanned(c, h[n - 1], text[n])
    <3>1. CASE n = 0
      BY <2>1, <3>1
    <3>2. CASE n # 0 /\ n <= m
      <4>1. g[n] = Scanned(c, g[n - 1], text[n])
        BY <2>1, <3>2
      <4>2. h[n] = g[n] /\ h[n - 1] = g[n - 1]
        BY <3>2
      <4> QED
        BY <3>2, <4>1, <4>2
    <3>3. CASE n = m + 1
      <4>1. h[n] = Scanned(c, g[m], text[m + 1]) /\ h[n - 1] = g[m] /\ n # 0
        BY <3>3
      <4> QED
        BY <3>3, <4>1
    <3> QED
      BY <3>1, <3>2, <3>3
  <2>3. Builds(h, m + 1)
    BY <2>2
  <2>4. m + 1 \in 0..N
    BY <1>0
  <2> QED
    BY <2>3, <2>4
<1>3. N \in T
  <2> HIDE DEF T, N
  <2>1. \A m \in 0..N - 1 : m \in T => m + 1 \in T
    BY <1>2
  <2>2. \A m \in 0..N : m \in T
    BY <1>0, <1>1, <2>1, Climb
  <2> QED
    BY <1>0, <2>2
<1>4. \E g : Builds(g, N)
  BY <1>3
<1>5. Scan(c, text) = CHOOSE g : Builds(g, N)
  BY Zenon DEF Scan, Start
<1>6. Builds(Scan(c, text), N)
  <2> HIDE DEF Builds
  <2> QED
    BY <1>4, <1>5, Zenon
<1>7. DOMAIN Scan(c, text) = 0..N /\ \A n \in 0..N : Scan(c, text)[n] =
        IF n = 0 THEN Start ELSE Scanned(c, Scan(c, text)[n - 1], text[n])
  BY <1>6
<1> QED
  BY <1>0, <1>7

States == [out : Seq(Chars), pending : Seq(Chars)]

\* The three things that can happen at a character.
LEMMA ReadingOut ==
  ASSUME NEW c, NEW s \in States, NEW char, char # PERCENT, s.pending = <<>>
  PROVE  Scanned(c, s, char) = [out |-> Append(s.out, char), pending |-> s.pending]
<1>1. s = [out |-> s.out, pending |-> s.pending]
  BY DEF States
<1>2. ASSUME NEW a
      PROVE  [s EXCEPT !.out = a] = [out |-> a, pending |-> s.pending]
  BY <1>1
<1>3. [s EXCEPT !.out = Append(@, char)] = [out |-> Append(s.out, char), pending |-> s.pending]
  BY <1>2
<1> QED
  BY <1>3 DEF Scanned

LEMMA ReadingReference ==
  ASSUME NEW c, NEW s \in States, NEW char,
         char = PERCENT => s.pending = <<>>, s.pending = <<>> => char = PERCENT
  PROVE  Scanned(c, s, char) = [out |-> s.out, pending |-> Append(s.pending, char)]
<1>1. s = [out |-> s.out, pending |-> s.pending]
  BY DEF States
<1>2. ASSUME NEW a
      PROVE  [s EXCEPT !.pending = a] = [out |-> s.out, pending |-> a]
  BY <1>1
<1>3. [s EXCEPT !.pending = Append(@, char)] = [out |-> s.out, pending |-> Append(s.pending, char)]
  BY <1>2
<1> QED
  BY <1>3 DEF Scanned

LEMMA ReadingEnd ==
  ASSUME NEW c, NEW s \in States, s.pending # <<>>
  PROVE  Scanned(c, s, PERCENT) =
           [out |-> s.out \o ValueOf(c, Append(s.pending, PERCENT)), pending |-> <<>>]
BY DEF Scanned

\* The value of a reference is that of the first of the members with its key.
LEMMA FirstMember ==
  ASSUME NEW c \in Config, NEW r
  PROVE  \/ /\ \A k \in 1..Len(c.set_commands) : Reference(c.set_commands[k]) # r
            /\ ValueOf(c, r) = r
         \/ \E k \in 1..Len(c.set_commands) :
              /\ Reference(c.set_commands[k]) = r
              /\ \A j \in 1..k - 1 : Reference(c.set_commands[j]) # r
              /\ ValueOf(c, r) = c.set_commands[k].value
<1> DEFINE T == {k \in DOMAIN c.set_commands : Reference(c.set_commands[k]) = r}
<1>0. Len(c.set_commands) \in Nat /\ DOMAIN c.set_commands = 1..Len(c.set_commands)
  BY LenProperties DEF Config
<1>1. T \in SUBSET Nat
  BY <1>0
<1>2. CASE T = {}
  <2>1. ValueOf(c, r) = r
    BY <1>2 DEF ValueOf
  <2> QED
    BY <1>0, <1>2, <2>1
<1>3. CASE T # {}
  <2> DEFINE k == CHOOSE k \in T : \A j \in T : k <= j
  <2>1. k \in T /\ \A j \in T : k <= j
    <3> HIDE DEF T
    <3>1. \E e \in T : \A j \in T : e <= j
      BY <1>1, <1>3, Smallest
    <3> QED
      BY <3>1
  <2>2. ValueOf(c, r) = c.set_commands[k].value
    BY <1>3 DEF ValueOf
  <2> HIDE DEF k
  <2>3. \A j \in 1..k - 1 : Reference(c.set_commands[j]) # r
    <3> SUFFICES ASSUME NEW j \in 1..k - 1, Reference(c.set_commands[j]) = r PROVE FALSE
      OBVIOUS
    <3>1. j \in T
      BY <1>0, <2>1
    <3> QED
      BY <1>0, <2>1, <3>1
  <2> QED
    BY <1>0, <2>1, <2>2, <2>3
<1> QED
  BY <1>2, <1>3

LEMMA ValueType ==
  ASSUME NEW c \in Config, NEW r \in Seq(Chars)
  PROVE  ValueOf(c, r) \in Seq(Chars)
<1>1. \A k \in 1..Len(c.set_commands) : c.set_commands[k].value \in Seq(Chars)
  <2>1. c.set_commands \in Seq([key : Seq(Chars), value : Seq(Chars)])
    BY DEF Config
  <2>2. \A k \in 1..Len(c.set_commands) : c.set_commands[k] \in [key : Seq(Chars), value : Seq(Chars)]
    BY <2>1, ElementOfSeq
  <2> QED
    BY <2>2
<1> QED
  BY <1>1, FirstMember

\* What has been read stands for itself, and what is pending is its end.
LEMMA ScanType ==
  ASSUME NEW c \in Config, NEW text \in Seq(Chars)
  PROVE  \A n \in 0..Len(text) :
           LET s == Scan(c, text)[n]
           IN  /\ s \in States
               /\ Len(s.pending) <= n
               /\ \A k \in 1..Len(s.pending) : s.pending[k] = text[n - Len(s.pending) + k]
<1> DEFINE N == Len(text)
           f == Scan(c, text)
           Fits(n) == /\ f[n] \in States
                      /\ Len(f[n].pending) <= n
                      /\ \A k \in 1..Len(f[n].pending) :
                           f[n].pending[k] = text[n - Len(f[n].pending) + k]
           T == {n \in 0..N : Fits(n)}
<1>0. N \in Nat /\ \A n \in 1..N : text[n] \in Chars
  BY LenProperties, ElementOfSeq
<1>1. f[0] = Start /\ \A n \in 1..N : f[n] = Scanned(c, f[n - 1], text[n])
  BY ScanDefined
<1> HIDE DEF f
<1>2. 0 \in T
  <2>1. <<>> \in Seq(Chars) /\ Len(<<>>) = 0
    OBVIOUS
  <2>2. Start \in States /\ Start.pending = <<>>
    BY <2>1 DEF Start, States
  <2> QED
    BY <1>0, <1>1, <2>1, <2>2
<1>3. ASSUME NEW n \in 0..N - 1, Fits(n)
      PROVE  Fits(n + 1)
  <2> DEFINE s == f[n]
             char == text[n + 1]
  <2>1. /\ f[n + 1] = Scanned(c, s, char) /\ char \in Chars
        /\ s \in States /\ s.out \in Seq(Chars) /\ s.pending \in Seq(Chars)
        /\ Len(s.pending) <= n
        /\ \A k \in 1..Len(s.pending) : s.pending[k] = text[n - Len(s.pending) + k]
    <3>1. n + 1 \in 1..N /\ n + 1 - 1 = n
      BY <1>0
    <3>2. f[n + 1] = Scanned(c, s, char) /\ char \in Chars
      BY <1>0, <1>1, <3>1
    <3> QED
      BY <1>3, <3>2 DEF States
  <2> HIDE DEF s, char
  <2>2. Len(s.pending) \in Nat /\ n \in Nat /\ n + 1 \in 0..N
    BY <1>0, <2>1, LenProperties
  <2>3. CASE char # PERCENT /\ s.pending = <<>>
    <3>1. f[n + 1] = [out |-> Append(s.out, char), pending |-> s.pending]
      <4>1. s \in States
        BY <2>1
      <4>2. Scanned(c, s, char) = [out |-> Append(s.out, char), pending |-> s.pending]
        BY <2>3, <4>1, ReadingOut, Zenon
      <4> QED
        BY <2>1, <2>3, <4>2, Zenon
    <3>2. Append(s.out, char) \in Seq(Chars) /\ Len(s.pending) = 0
      BY <2>1, <2>3
    <3> QED
      BY <2>1, <2>2, <3>1, <3>2 DEF States
  <2>4. CASE char = PERCENT <=> s.pending = <<>>
    <3> DEFINE w == Append(s.pending, char)
    <3>1. f[n + 1] = [out |-> s.out, pending |-> w]
      <4>1. s \in States
        BY <2>1
      <4>2. Scanned(c, s, char) = [out |-> s.out, pending |-> w]
        BY <2>4, <4>1, ReadingReference, Zenon
      <4> QED
        BY <2>1, <2>4, <4>2, Zenon
    <3>2. w \in Seq(Chars) /\ Len(w) = Len(s.pending) + 1 /\ w[Len(s.pending) + 1] = char
          /\ \A k \in 1..Len(s.pending) : w[k] = s.pending[k]
      BY <2>1, AppendProperties
    <3> HIDE DEF w
    <3>3. \A k \in 1..Len(w) : w[k] = text[n + 1 - Len(w) + k]
      <4> TAKE k \in 1..Len(w)
      <4>1. CASE k = Len(w)
        <5>1. n + 1 - Len(w) + k = n + 1
          BY <2>2, <3>2, <4>1
        <5> QED
          BY <3>2, <4>1, <5>1 DEF char
      <4>2. CASE k # Len(w)
        <5>1. k \in 1..Len(s.pending) /\ n + 1 - Len(w) + k = n - Len(s.pending) + k
          BY <2>2, <3>2, <4>2
        <5> QED
          BY <2>1, <3>2, <5>1
      <4> QED
        BY <4>1, <4>2
    <3>4. f[n + 1].out = s.out /\ f[n + 1].pending = w
      BY <3>1
    <3>5. f[n + 1] \in States
      BY <2>1, <3>1, <3>2 DEF States
    <3>6. Len(w) <= n + 1
      BY <2>1, <2>2, <3>2
    <3> QED
      BY <2>2, <3>3, <3>4, <3>5, <3>6
  <2>5. CASE char = PERCENT /\ s.pending # <<>>
    <3>1. f[n + 1] = [out |-> s.out \o ValueOf(c, Append(s.pending, PERCENT)), pending |-> <<>>]
      <4>1. s \in States
        BY <2>1
      <4>2. Scanned(c, s, PERCENT) = [out |-> s.out \o ValueOf(c, Append(s.pending, PERCENT)), pending |-> <<>>]
        BY <2>5, <4>1, ReadingEnd, Zenon
      <4> QED
        BY <2>1, <2>5, <4>2, Zenon
    <3>2. Append(s.pending, PERCENT) \in Seq(Chars)
      BY <2>1, <2>5
    <3>3. ValueOf(c, Append(s.pending, PERCENT)) \in Seq(Chars)
      BY <3>2, ValueType
    <3>4. s.out \o ValueOf(c, Append(s.pending, PERCENT)) \in Seq(Chars)
      BY <2>1, <3>3, ConcatProperties
    <3>5. <<>> \in Seq(Chars) /\ Len(<<>>) = 0
      OBVIOUS
    <3>6. f[n + 1] \in States /\ f[n + 1].pending = <<>>
      BY <3>1, <3>4, <3>5 DEF States
    <3> QED
      BY <2>2, <3>5, <3>6
  <2> QED
    BY <2>3, <2>4, <2>5
<1>4. \A n \in 0..N : n \in T
  <2> HIDE DEF T, N
  <2>1. \A n \in 0..N - 1 : n \in T => n + 1 \in T
    <3> HIDE DEF Fits
    <3>1. \A n \in 0..N - 1 : n + 1 \in 0..N
      BY <1>0
    <3> QED
      BY <1>3, <3>1, Zenon DEF T
  <2> QED
    BY <1>0, <1>2, <2>1, Climb
<1>5. \A n \in 0..N : Fits(n)
  <2> HIDE DEF Fits
  <2> QED
    BY <1>4, Zenon
<1> QED
  BY <1>5, Zenon DEF f

LEMMA ScanStates ==
  ASSUME NEW c \in Config, NEW text \in Seq(Chars), NEW n \in 0..Len(text)
  PROVE  /\ Scan(c, text)[n] \in States
         /\ Scan(c, text)[n].out \in Seq(Chars) /\ Scan(c, text)[n].pending \in Seq(Chars)
<1>1. Scan(c, text)[n] \in States
  BY ScanType, Zenon
<1> QED
  BY <1>1 DEF States

\* One more character of a text.
LEMMA OneMore ==
  ASSUME NEW v \in Seq(Chars), NEW m \in 0..Len(v) - 1
  PROVE  /\ SubSeq(v, 1, m) \in Seq(Chars)
         /\ SubSeq(v, 1, m + 1) = Append(SubSeq(v, 1, m), v[m + 1])
<1>0. Len(v) \in Nat
  BY LenProperties
<1>1. \A k \in 1..m + 1 : v[k] \in Chars
  BY <1>0, ElementOfSeq
<1>2. /\ SubSeq(v, 1, m) \in Seq(Chars) /\ Len(SubSeq(v, 1, m)) = m
      /\ \A k \in 1..m : SubSeq(v, 1, m)[k] = v[k]
  BY <1>0, <1>1, SubSeqOfText
<1>3. /\ SubSeq(v, 1, m + 1) \in Seq(Chars) /\ Len(SubSeq(v, 1, m + 1)) = m + 1
      /\ \A k \in 1..m + 1 : SubSeq(v, 1, m + 1)[k] = v[k]
  BY <1>0, <1>1, SubSeqOfText
<1> DEFINE a == SubSeq(v, 1, m)
           b == SubSeq(v, 1, m + 1)
<1> HIDE DEF a, b
<1>4. /\ Append(a, v[m + 1]) \in Seq(Chars) /\ Len(Append(a, v[m + 1])) = m + 1
      /\ \A k \in 1..m : Append(a, v[m + 1])[k] = v[k]
      /\ Append(a, v[m + 1])[m + 1] = v[m + 1]
  <2>1. v[m + 1] \in Chars
    BY <1>1
  <2> QED
    BY <1>2, <2>1, AppendProperties DEF a
<1>5. \A k \in 1..m + 1 : b[k] = Append(a, v[m + 1])[k]
  BY <1>3, <1>4 DEF b
<1>6. b = Append(a, v[m + 1])
  BY <1>3, <1>4, <1>5, SeqEqual DEF b
<1> QED
  BY <1>2, <1>6 DEF a, b

LEMMA AppendToConcat ==
  ASSUME NEW a \in Seq(Chars), NEW b \in Seq(Chars), NEW e \in Chars
  PROVE  Append(a \o b, e) = a \o Append(b, e)
OBVIOUS

LEMMA AppendParts ==
  ASSUME NEW w \in Seq(Chars), NEW e \in Chars, NEW u, u = Append(w, e)
  PROVE  /\ u \in Seq(Chars) /\ Len(u) = Len(w) + 1 /\ u[Len(w) + 1] = e
         /\ \A j \in 1..Len(w) : u[j] = w[j]
BY AppendProperties

\* Two texts go on alike from i and j for n characters; they are read on alike.
SameText(s, i, t, j, n) == \A m \in 1..n : s[i + m] = t[j + m]

SameReading(c, s, i, t, j, n) == \A m \in 0..n : Scan(c, s)[i + m] = Scan(c, t)[j + m]

\* Two texts that go on alike are read on alike.
LEMMA ReadAlike ==
  ASSUME NEW c, NEW s \in Seq(Chars), NEW t \in Seq(Chars),
         NEW i \in 0..Len(s), NEW j \in 0..Len(t), NEW n \in Nat, i + n <= Len(s), j + n <= Len(t),
         Scan(c, s)[i] = Scan(c, t)[j], SameText(s, i, t, j, n)
  PROVE  SameReading(c, s, i, t, j, n)
<1> DEFINE f == Scan(c, s)
           g == Scan(c, t)
           T == {m \in 0..n : f[i + m] = g[j + m]}
<1>0. Len(s) \in Nat /\ Len(t) \in Nat /\ i \in Nat /\ j \in Nat
  BY LenProperties
<1>1. /\ \A m \in 1..Len(s) : f[m] = Scanned(c, f[m - 1], s[m])
      /\ \A m \in 1..Len(t) : g[m] = Scanned(c, g[m - 1], t[m])
  BY ScanDefined
<1> HIDE DEF f, g
<1>2. 0 \in T
  BY <1>0 DEF f, g
<1>3. ASSUME NEW m \in 0..n - 1, f[i + m] = g[j + m]
      PROVE  f[i + (m + 1)] = g[j + (m + 1)]
  <2>1. /\ i + (m + 1) \in 1..Len(s) /\ i + (m + 1) - 1 = i + m
        /\ j + (m + 1) \in 1..Len(t) /\ j + (m + 1) - 1 = j + m
        /\ m + 1 \in 1..n
    BY <1>0
  <2>2. f[i + (m + 1)] = Scanned(c, f[i + m], s[i + (m + 1)])
    BY <1>1, <2>1
  <2>3. g[j + (m + 1)] = Scanned(c, g[j + m], t[j + (m + 1)])
    BY <1>1, <2>1
  <2>4. s[i + (m + 1)] = t[j + (m + 1)]
    BY <2>1 DEF SameText
  <2> QED
    BY <1>3, <2>2, <2>3, <2>4
<1>4. \A m \in 0..n : m \in T
  <2>1. \A m \in 0..n - 1 : m \in T => m + 1 \in T
    <3>1. \A m \in 0..n - 1 : m + 1 \in 0..n
      OBVIOUS
    <3> QED
      BY <1>3, <3>1
  <2> HIDE DEF T
  <2> QED
    BY <1>2, <2>1, Climb
<1> QED
  BY <1>4 DEF f, g, SameReading

\* Outside of references, what is no percent sign is read as it is.
LEMMA ReadPlainly ==
  ASSUME NEW c \in Config, NEW text \in Seq(Chars), NEW i \in 0..Len(text), NEW v \in Seq(Chars),
         i + Len(v) <= Len(text),
         Scan(c, text)[i].pending = <<>>,
         \A m \in 1..Len(v) : text[i + m] = v[m] /\ v[m] # PERCENT
  PROVE  Scan(c, text)[i + Len(v)] = [out |-> Scan(c, text)[i].out \o v, pending |-> <<>>]
<1> DEFINE f == Scan(c, text)
           n == Len(v)
           T == {m \in 0..n : f[i + m] = [out |-> f[i].out \o SubSeq(v, 1, m), pending |-> <<>>]}
<1>0. Len(text) \in Nat /\ n \in Nat /\ i \in Nat
  BY LenProperties
<1>1. \A m \in 1..Len(text) : f[m] = Scanned(c, f[m - 1], text[m])
  BY ScanDefined
<1>2. f[i] \in States /\ f[i].out \in Seq(Chars)
  BY ScanStates
<1>3. \A m \in 0..n : f[i + m] \in States
  <2>1. \A m \in 0..n : i + m \in 0..Len(text)
    BY <1>0
  <2> QED
    BY <2>1, ScanType, Zenon
<1> HIDE DEF f
<1>4. 0 \in T
  <2>1. SubSeq(v, 1, 0) = <<>>
    OBVIOUS
  <2>2. f[i].out \o SubSeq(v, 1, 0) = f[i].out
    BY <1>2, <2>1
  <2>3. f[i] = [out |-> f[i].out, pending |-> <<>>]
    BY <1>2 DEF f, States
  <2>4. i + 0 = i /\ 0 \in 0..n
    BY <1>0
  <2> QED
    BY <2>2, <2>3, <2>4
<1>5. ASSUME NEW m \in 0..n - 1, f[i + m] = [out |-> f[i].out \o SubSeq(v, 1, m), pending |-> <<>>]
      PROVE  f[i + (m + 1)] = [out |-> f[i].out \o SubSeq(v, 1, m + 1), pending |-> <<>>]
  <2>1. i + (m + 1) \in 1..Len(text) /\ i + (m + 1) - 1 = i + m /\ m + 1 \in 1..n /\ m \in 0..n
    BY <1>0
  <2>2. f[i + (m + 1)] = Scanned(c, f[i + m], v[m + 1])
    BY <1>1, <2>1
  <2>3. v[m + 1] # PERCENT /\ v[m + 1] \in Chars
    BY <2>1, ElementOfSeq
  <2>4. f[i + m].pending = <<>> /\ f[i + m].out = f[i].out \o SubSeq(v, 1, m) /\ f[i + m] \in States
    <3>1. f[i + m] \in States
      BY <1>3, <2>1, Zenon
    <3> DEFINE a == f[i].out \o SubSeq(v, 1, m)
    <3>2. f[i + m] = [out |-> a, pending |-> <<>>]
      BY <1>5, Zenon
    <3> HIDE DEF a
    <3>3. f[i + m].pending = <<>> /\ f[i + m].out = a
      BY <3>2
    <3> QED
      BY <3>1, <3>3 DEF a
  <2>5. Scanned(c, f[i + m], v[m + 1]) = [out |-> Append(f[i + m].out, v[m + 1]), pending |-> f[i + m].pending]
    BY <2>3, <2>4, ReadingOut, Zenon
  <2>6. /\ SubSeq(v, 1, m) \in Seq(Chars)
        /\ SubSeq(v, 1, m + 1) = Append(SubSeq(v, 1, m), v[m + 1])
    BY OneMore
  <2>7. Append(f[i].out \o SubSeq(v, 1, m), v[m + 1]) = f[i].out \o SubSeq(v, 1, m + 1)
    <3>1. Append(f[i].out \o SubSeq(v, 1, m), v[m + 1]) = f[i].out \o Append(SubSeq(v, 1, m), v[m + 1])
      BY <1>2, <2>3, <2>6, AppendToConcat, Zenon
    <3> QED
      BY <2>6, <3>1, Zenon
  <2> QED
    BY <2>2, <2>4, <2>5, <2>7
<1>6. \A m \in 0..n : m \in T
  <2>1. \A m \in 0..n - 1 : m \in T => m + 1 \in T
    <3>1. \A m \in 0..n - 1 : m + 1 \in 0..n
      BY <1>0
    <3> QED
      BY <1>5, <3>1
  <2> HIDE DEF T, n
  <2> QED
    BY <1>0, <1>4, <2>1, Climb
<1>7. f[i + n] = [out |-> f[i].out \o SubSeq(v, 1, n), pending |-> <<>>]
  <2>1. n \in 0..n
    BY <1>0
  <2> HIDE DEF n
  <2> QED
    BY <1>6, <2>1, Zenon
<1>8. SubSeq(v, 1, n) = v
  BY <1>0
<1> QED
  BY <1>7, <1>8 DEF f

\* A reference that begins outside of references is read as one.
LEMMA ReadReference ==
  ASSUME NEW c \in Config, NEW text \in Seq(Chars), NEW i \in 0..Len(text), NEW p \in Seq(Chars),
         i + Len(p) <= Len(text), Len(p) >= 2,
         Scan(c, text)[i].pending = <<>>,
         \A m \in 1..Len(p) : text[i + m] = p[m],
         \A m \in 1..Len(p) : p[m] = PERCENT <=> m \in {1, Len(p)}
  PROVE  /\ i + Len(p) \in Closing(c, text)
         /\ Append(Scan(c, text)[i + Len(p) - 1].pending, PERCENT) = p
         /\ Scan(c, text)[i + Len(p)] = [out |-> Scan(c, text)[i].out \o ValueOf(c, p), pending |-> <<>>]
<1> DEFINE f == Scan(c, text)
           n == Len(p)
           Part(m) == f[i + m] = [out |-> f[i].out, pending |-> SubSeq(p, 1, m)]
           T == {m \in 0..n - 1 : Part(m)}
<1>0. Len(text) \in Nat /\ n \in Nat /\ i \in Nat /\ n - 1 \in Nat
  <2>1. Len(text) \in Nat /\ n \in Nat
    BY LenProperties
  <2> QED
    BY <2>1
<1>1. \A m \in 1..Len(text) : f[m] = Scanned(c, f[m - 1], text[m])
  BY ScanDefined
<1>2. f[i] \in States /\ f[i].out \in Seq(Chars)
  BY ScanStates
<1>3. \A m \in 0..n : f[i + m] \in States
  <2>1. \A m \in 0..n : i + m \in 0..Len(text)
    BY <1>0
  <2> QED
    BY <2>1, ScanType, Zenon
<1> HIDE DEF f
<1>4. 0 \in T
  <2>1. SubSeq(p, 1, 0) = <<>>
    OBVIOUS
  <2>2. f[i] = [out |-> f[i].out, pending |-> <<>>]
    BY <1>2 DEF f, States
  <2>3. i + 0 = i /\ 0 \in 0..n - 1
    BY <1>0
  <2> QED
    BY <2>1, <2>2, <2>3
<1>5. ASSUME NEW m \in 0..n - 1, Part(m)
      PROVE  /\ f[i + m] \in States /\ f[i + m].out = f[i].out /\ f[i + m].pending = SubSeq(p, 1, m)
             /\ SubSeq(p, 1, m) = <<>> <=> m = 0
             /\ SubSeq(p, 1, m + 1) = Append(SubSeq(p, 1, m), p[m + 1])
             /\ f[i + (m + 1)] = Scanned(c, f[i + m], p[m + 1])
             /\ p[m + 1] = PERCENT <=> m \in {0, n - 1}
  <2>1. i + (m + 1) \in 1..Len(text) /\ i + (m + 1) - 1 = i + m /\ m + 1 \in 1..n /\ m \in 0..n
    BY <1>0
  <2>2. f[i + (m + 1)] = Scanned(c, f[i + m], p[m + 1])
    <3>1. f[i + (m + 1)] = Scanned(c, f[i + m], text[i + (m + 1)])
      BY <1>1, <2>1
    <3>2. text[i + (m + 1)] = p[m + 1]
      BY <2>1
    <3> QED
      BY <3>1, <3>2
  <2>3. p[m + 1] = PERCENT <=> m \in {0, n - 1}
    <3>1. m + 1 \in {1, n} <=> m \in {0, n - 1}
      BY <1>0
    <3> QED
      BY <2>1, <3>1
  <2>4. f[i + m] \in States /\ f[i + m].out = f[i].out /\ f[i + m].pending = SubSeq(p, 1, m)
    BY <1>3, <1>5, <2>1
  <2>5. /\ SubSeq(p, 1, m) \in Seq(Chars)
        /\ SubSeq(p, 1, m + 1) = Append(SubSeq(p, 1, m), p[m + 1])
    BY OneMore
  <2>6. SubSeq(p, 1, m) = <<>> <=> m = 0
    <3>1. Len(SubSeq(p, 1, m)) = m
      BY <1>0
    <3> QED
      BY <2>5, <3>1, EmptySeq
  <2> QED
    BY <2>2, <2>3, <2>4, <2>5, <2>6
<1>6. ASSUME NEW m \in 0..n - 1, m # n - 1, Part(m)
      PROVE  Part(m + 1)
  <2>1. p[m + 1] = PERCENT <=> f[i + m].pending = <<>>
    BY <1>0, <1>5, <1>6
  <2>2. f[i + m] \in States
    BY <1>5, <1>6
  <2>3. Scanned(c, f[i + m], p[m + 1]) = [out |-> f[i + m].out, pending |-> Append(f[i + m].pending, p[m + 1])]
    <3>1. /\ p[m + 1] = PERCENT => f[i + m].pending = <<>>
          /\ f[i + m].pending = <<>> => p[m + 1] = PERCENT
      BY <2>1
    <3> DEFINE s == f[i + m]
               char == p[m + 1]
    <3>2. /\ s \in States
          /\ char = PERCENT => s.pending = <<>>
          /\ s.pending = <<>> => char = PERCENT
      BY <2>2, <3>1, Zenon
    <3> HIDE DEF s, char
    <3>3. Scanned(c, s, char) = [out |-> s.out, pending |-> Append(s.pending, char)]
      BY <3>2, ReadingReference, Zenon
    <3> QED
      BY <3>3, Zenon DEF s, char
  <2> QED
    BY <1>5, <1>6, <2>3
<1>7. Part(n - 1)
  <2>1. \A m \in 0..(n - 1) - 1 : m \in T => m + 1 \in T
    <3>1. \A m \in 0..(n - 1) - 1 : m \in 0..n - 1 /\ m # n - 1 /\ m + 1 \in 0..n - 1
      BY <1>0
    <3> HIDE DEF Part
    <3> QED
      BY <1>6, <3>1
  <2>2. \A m \in 0..n - 1 : m \in T
    <3> HIDE DEF T, n
    <3> QED
      BY <1>0, <1>4, <2>1, Climb
  <2>3. n - 1 \in T
    <3>1. n - 1 \in 0..n - 1
      BY <1>0
    <3> HIDE DEF T, n
    <3> QED
      BY <2>2, <3>1, Zenon
  <2> QED
    BY <2>3
<1>8. /\ f[i + (n - 1)] \in States /\ f[i + (n - 1)].out = f[i].out
      /\ f[i + (n - 1)].pending # <<>>
      /\ p = Append(f[i + (n - 1)].pending, p[n])
      /\ f[i + n] = Scanned(c, f[i + (n - 1)], p[n])
      /\ p[n] = PERCENT
  <2> DEFINE j == n - 1
  <2>1. j \in 0..n - 1 /\ j + 1 = n /\ j # 0 /\ j \in {0, n - 1}
    BY <1>0
  <2>2. SubSeq(p, 1, n) = p
    BY <1>0
  <2>3. /\ f[i + j] \in States /\ f[i + j].out = f[i].out /\ f[i + j].pending = SubSeq(p, 1, j)
        /\ SubSeq(p, 1, j) = <<>> <=> j = 0
        /\ SubSeq(p, 1, j + 1) = Append(SubSeq(p, 1, j), p[j + 1])
        /\ f[i + (j + 1)] = Scanned(c, f[i + j], p[j + 1])
        /\ p[j + 1] = PERCENT <=> j \in {0, n - 1}
    <3>1. Part(j)
      BY <1>7
    <3> HIDE DEF n, Part, j
    <3> QED
      BY <1>5, <2>1, <3>1
  <2>4. /\ f[i + j] \in States /\ f[i + j].out = f[i].out
        /\ f[i + j].pending # <<>>
        /\ p = Append(f[i + j].pending, p[n])
        /\ f[i + n] = Scanned(c, f[i + j], p[n])
        /\ p[n] = PERCENT
    <3> HIDE DEF n, j
    <3> QED
      BY <2>1, <2>2, <2>3, Zenon
  <2> QED
    BY <2>4
<1>9. f[i + n] = [out |-> f[i].out \o ValueOf(c, p), pending |-> <<>>]
  <2>1. Scanned(c, f[i + (n - 1)], PERCENT) =
          [out |-> f[i + (n - 1)].out \o ValueOf(c, Append(f[i + (n - 1)].pending, PERCENT)), pending |-> <<>>]
    BY <1>8, ReadingEnd, Zenon
  <2> QED
    BY <1>8, <2>1
<1>10. i + n \in 1..Len(text) /\ text[i + n] = PERCENT /\ i + (n - 1) = i + n - 1
  BY <1>0, <1>8
<1>11. i + n \in Closing(c, text)
  BY <1>8, <1>10 DEF Closing, f
<1> QED
  BY <1>8, <1>9, <1>10, <1>11 DEF f

NoPercent(text) == \A n \in 1..Len(text) : text[n] # PERCENT

\* How a reference looks.
LEMMA ReferenceParts ==
  ASSUME NEW member \in [key : Seq(Chars), value : Seq(Chars)], NoPercent(member.key)
  PROVE  /\ Reference(member) \in Seq(Chars)
         /\ Len(Reference(member)) = Len(member.key) + 2
         /\ \A m \in 1..Len(member.key) : Reference(member)[m + 1] = member.key[m]
         /\ \A m \in 1..Len(Reference(member)) :
              Reference(member)[m] = PERCENT <=> m \in {1, Len(Reference(member))}
<1> DEFINE key == member.key
           r == Reference(member)
           a == <<PERCENT>>
<1>0. key \in Seq(Chars) /\ Len(key) \in Nat
  <2>1. key \in Seq(Chars)
    OBVIOUS
  <2> QED
    BY <2>1, LenProperties
<1>1. a \in Seq(Chars) /\ Len(a) = 1 /\ a[1] = PERCENT
  BY DEF PERCENT, Chars
<1> HIDE DEF key, a
<1>2. /\ a \o key \in Seq(Chars) /\ Len(a \o key) = Len(key) + 1
      /\ (a \o key)[1] = PERCENT /\ \A m \in 1..Len(key) : (a \o key)[m + 1] = key[m]
  <2>1. /\ a \o key \in Seq(Chars) /\ Len(a \o key) = Len(a) + Len(key)
        /\ \A i \in 1..Len(a) + Len(key) : (a \o key)[i] = IF i <= Len(a) THEN a[i] ELSE key[i - Len(a)]
    BY <1>0, <1>1, ConcatProperties
  <2>2. \A m \in 1..Len(key) : m + 1 \in 1..1 + Len(key) /\ ~(m + 1 <= 1) /\ m + 1 - 1 = m
    BY <1>0
  <2> QED
    BY <1>0, <1>1, <2>1, <2>2
<1> DEFINE b == a \o key
<1> HIDE DEF b
<1>3. r = b \o a
  BY DEF r, b, a, Reference, key
<1> HIDE DEF r
<1>4. /\ r \in Seq(Chars) /\ Len(r) = Len(key) + 2 /\ r[Len(key) + 2] = PERCENT
      /\ \A m \in 1..Len(key) + 1 : r[m] = b[m]
  <2>1. /\ b \o a \in Seq(Chars) /\ Len(b \o a) = Len(b) + Len(a)
        /\ \A i \in 1..Len(b) + Len(a) : (b \o a)[i] = IF i <= Len(b) THEN b[i] ELSE a[i - Len(b)]
    BY <1>1, <1>2, ConcatProperties DEF b
  <2>2. Len(b) = Len(key) + 1
    BY <1>2 DEF b
  <2>3. r \in Seq(Chars) /\ Len(r) = Len(key) + 2
    BY <1>0, <1>1, <1>3, <2>1, <2>2
  <2>4. \A i \in 1..Len(key) + 2 : r[i] = IF i <= Len(key) + 1 THEN b[i] ELSE a[i - (Len(key) + 1)]
    BY <1>0, <1>1, <1>3, <2>1, <2>2
  <2>5. r[Len(key) + 2] = a[1]
    <3>1. Len(key) + 2 \in 1..Len(key) + 2 /\ ~(Len(key) + 2 <= Len(key) + 1) /\ Len(key) + 2 - (Len(key) + 1) = 1
      BY <1>0
    <3> QED
      BY <2>4, <3>1
  <2>6. \A m \in 1..Len(key) + 1 : r[m] = b[m]
    BY <1>0, <2>4
  <2> QED
    BY <1>1, <2>3, <2>5, <2>6
<1>5. \A m \in 1..Len(key) : r[m + 1] = key[m]
  <2>1. \A m \in 1..Len(key) : m + 1 \in 1..Len(key) + 1
    BY <1>0
  <2> QED
    BY <1>2, <1>4, <2>1 DEF b
<1>6. r[1] = PERCENT
  BY <1>0, <1>2, <1>4 DEF b
<1>7. \A m \in 1..Len(r) : r[m] = PERCENT <=> m \in {1, Len(r)}
  <2> TAKE m \in 1..Len(r)
  <2>1. CASE m \in {1, Len(r)}
    BY <1>4, <1>6, <2>1
  <2>2. CASE m \notin {1, Len(r)}
    <3>1. m - 1 \in 1..Len(key) /\ m - 1 + 1 = m
      BY <1>0, <1>4, <2>2
    <3>2. r[m] = key[m - 1]
      BY <1>5, <3>1
    <3> QED
      BY <2>2, <3>1, <3>2 DEF NoPercent, key
  <2> QED
    BY <2>1, <2>2
<1> QED
  BY <1>4, <1>5, <1>7 DEF r, key

LEMMA OccursParts ==
  ASSUME NEW text \in Seq(Chars), NEW p \in Seq(Chars), NEW k \in 1..Len(text), OccursAt(text, p, k)
  PROVE  k - 1 + Len(p) <= Len(text) /\ \A m \in 1..Len(p) : text[k - 1 + m] = p[m]
<1>0. Len(text) \in Nat /\ Len(p) \in Nat /\ k + Len(p) - 1 <= Len(text)
  BY LenProperties DEF OccursAt
<1>1. SubSeq(text, k, k + Len(p) - 1) = p
  BY DEF OccursAt
<1>2. \A m \in 1..Len(p) : SubSeq(text, k, k + Len(p) - 1)[m] = text[k - 1 + m]
  BY <1>0
<1> QED
  BY <1>0, <1>1, <1>2

\* A key that cannot be read between two references is found where a reference
\* to it begins, never from the end of one to the beginning of another.
LEMMA FoundAtReference ==
  ASSUME NEW c \in Config, NEW text \in Seq(Chars), NEW k \in 1..Len(text),
         NEW member \in [key : Seq(Chars), value : Seq(Chars)], NoPercent(member.key),
         OccursAt(text, Reference(member), k),
         ~InGap(c, text, member.key)
  PROVE  Scan(c, text)[k - 1].pending = <<>>
<1> SUFFICES ASSUME Scan(c, text)[k - 1].pending # <<>>
             PROVE  FALSE
  OBVIOUS
<1> DEFINE f == Scan(c, text)
           key == member.key
           p == Reference(member)
<1>0. Len(text) \in Nat /\ k \in Nat /\ key \in Seq(Chars) /\ Len(key) \in Nat
  <2>1. key \in Seq(Chars)
    OBVIOUS
  <2> QED
    BY <2>1, LenProperties
<1>1. /\ p \in Seq(Chars) /\ Len(p) = Len(key) + 2
      /\ \A m \in 1..Len(key) : p[m + 1] = key[m]
      /\ \A m \in 1..Len(p) : p[m] = PERCENT <=> m \in {1, Len(p)}
  BY ReferenceParts
<1> HIDE DEF p, key
<1>2. k - 1 + Len(p) <= Len(text) /\ \A m \in 1..Len(p) : text[k - 1 + m] = p[m]
  BY <1>1, OccursParts DEF p
<1>3. text[k] = PERCENT
  <2>1. 1 \in 1..Len(p) /\ k - 1 + 1 = k /\ p[1] = PERCENT
    BY <1>0, <1>1
  <2> QED
    BY <1>2, <2>1
<1>4. k \in Closing(c, text)
  BY <1>3 DEF Closing
<1>5. f[k].pending = <<>>
  <2>1. f[k] = Scanned(c, f[k - 1], PERCENT)
    BY <1>3, ScanDefined
  <2>2. k - 1 \in 0..Len(text)
    BY <1>0
  <2>3. f[k - 1] \in States
    BY <2>2, ScanStates
  <2> HIDE DEF f
  <2>4. Scanned(c, f[k - 1], PERCENT) =
          [out |-> f[k - 1].out \o ValueOf(c, Append(f[k - 1].pending, PERCENT)), pending |-> <<>>]
    BY <2>3, ReadingEnd, Zenon DEF f
  <2> QED
    BY <2>1, <2>4
<1>6. f[k + Len(key)] = [out |-> f[k].out \o key, pending |-> <<>>]
  <2>1. k \in 0..Len(text) /\ k + Len(key) <= Len(text)
    BY <1>0, <1>1, <1>2
  <2>2. \A m \in 1..Len(key) : text[k + m] = key[m] /\ key[m] # PERCENT
    <3> TAKE m \in 1..Len(key)
    <3>1. m + 1 \in 1..Len(p) /\ k - 1 + (m + 1) = k + m
      BY <1>0, <1>1
    <3> QED
      BY <1>1, <1>2, <3>1 DEF NoPercent, key
  <2> QED
    BY <1>0, <1>5, <2>1, <2>2, ReadPlainly
<1> DEFINE q == k + Len(key) + 1
<1>7. q \in 1..Len(text) /\ k < q /\ q - 1 = k + Len(key)
  BY <1>0, <1>1, <1>2
<1>8. text[q] = PERCENT
  <2>1. Len(p) \in 1..Len(p) /\ k - 1 + Len(p) = q /\ p[Len(p)] = PERCENT
    BY <1>0, <1>1
  <2> QED
    BY <1>2, <2>1
<1>9. q \in Opening(c, text)
  BY <1>6, <1>7, <1>8 DEF Opening
<1>10. f[q - 1].out = f[k].out \o key
  <2> DEFINE r == [out |-> f[k].out \o key, pending |-> <<>>]
  <2>1. f[q - 1] = r
    <3> HIDE DEF f, q
    <3> QED
      BY <1>6, <1>7, Zenon
  <2>2. r.out = f[k].out \o key
    BY Zenon
  <2> QED
    BY <2>1, <2>2, Zenon
<1> QED
  BY <1>4, <1>7, <1>9, <1>10 DEF InGap, key

\* What replace makes of a text, character by character.
IsReplaced(t, text, k, n, v) ==
  /\ t \in Seq(Chars)
  /\ Len(t) = Len(text) - n + Len(v)
  /\ \A m \in 1..k - 1 : t[m] = text[m]
  /\ \A m \in 1..Len(v) : t[k - 1 + m] = v[m]
  /\ \A m \in 1..Len(text) - (k - 1 + n) : t[k - 1 + Len(v) + m] = text[k - 1 + n + m]

LEMMA ReplaceParts ==
  ASSUME NEW text \in Seq(Chars), NEW v \in Seq(Chars), NEW k \in 1..Len(text), NEW n \in Nat,
         k - 1 + n <= Len(text)
  PROVE  IsReplaced(Replace(text, k, n, v), text, k, n, v)
<1> DEFINE a == SubSeq(text, 1, k - 1)
           b == SubSeq(text, k + n, Len(text))
           r == Len(text) - (k - 1 + n)
           t == Replace(text, k, n, v)
<1>0. Len(text) \in Nat /\ Len(v) \in Nat /\ k \in Nat /\ k - 1 \in Nat /\ r \in Nat
  <2>1. Len(text) \in Nat /\ Len(v) \in Nat
    BY LenProperties
  <2> QED
    BY <2>1
<1>1. a \in Seq(Chars) /\ Len(a) = k - 1 /\ \A m \in 1..k - 1 : a[m] = text[m]
  BY <1>0, SubSeqOfText
<1>2. b \in Seq(Chars) /\ Len(b) = r /\ \A m \in 1..r : b[m] = text[k - 1 + n + m]
  <2>1. b \in Seq(Chars)
    BY <1>0, SubSeqOfText
  <2>2. Len(b) = r
    BY <1>0
  <2>3. \A m \in 1..r : b[m] = text[k + n + m - 1]
    BY <1>0
  <2>4. \A m \in 1..r : k + n + m - 1 = k - 1 + n + m
    BY <1>0
  <2> QED
    BY <2>1, <2>2, <2>3, <2>4
<1> HIDE DEF a, b
<1>3. /\ a \o v \in Seq(Chars) /\ Len(a \o v) = k - 1 + Len(v)
      /\ \A m \in 1..k - 1 : (a \o v)[m] = a[m]
      /\ \A m \in 1..Len(v) : (a \o v)[k - 1 + m] = v[m]
  <2>1. /\ a \o v \in Seq(Chars) /\ Len(a \o v) = Len(a) + Len(v)
        /\ \A i \in 1..Len(a) + Len(v) : (a \o v)[i] = IF i <= Len(a) THEN a[i] ELSE v[i - Len(a)]
    BY <1>1, ConcatProperties
  <2>2. \A m \in 1..k - 1 : m \in 1..k - 1 + Len(v) /\ m <= k - 1
    BY <1>0
  <2>3. \A m \in 1..Len(v) : k - 1 + m \in 1..k - 1 + Len(v) /\ ~(k - 1 + m <= k - 1) /\ k - 1 + m - (k - 1) = m
    BY <1>0
  <2>4. \A m \in 1..k - 1 : (a \o v)[m] = a[m]
    BY <1>1, <2>1, <2>2
  <2>5. \A m \in 1..Len(v) : (a \o v)[k - 1 + m] = v[m]
    BY <1>1, <2>1, <2>3
  <2> QED
    BY <1>1, <2>1, <2>4, <2>5
<1> DEFINE w == a \o v
<1> HIDE DEF w
<1> DEFINE u == w \o b
           z == k - 1 + Len(v)
<1>4. /\ u \in Seq(Chars) /\ Len(u) = z + r
      /\ \A m \in 1..z : u[m] = w[m]
      /\ \A m \in 1..r : u[z + m] = b[m]
  <2>0. z \in Nat
    BY <1>0
  <2>1. /\ u \in Seq(Chars) /\ Len(u) = Len(w) + Len(b)
        /\ \A i \in 1..Len(w) + Len(b) : u[i] = IF i <= Len(w) THEN w[i] ELSE b[i - Len(w)]
    <3>1. w \in Seq(Chars) /\ b \in Seq(Chars)
      BY <1>2, <1>3 DEF w
    <3> QED
      BY <3>1, ConcatProperties
  <2>2. Len(w) = z
    BY <1>3 DEF w
  <2> HIDE DEF z, u
  <2>3. \A m \in 1..z : m \in 1..z + r /\ m <= z
    BY <1>0, <2>0
  <2>4. \A m \in 1..r : z + m \in 1..z + r /\ ~(z + m <= z) /\ z + m - z = m
    BY <1>0, <2>0
  <2>5. \A m \in 1..z : u[m] = w[m]
    BY <1>2, <2>1, <2>2, <2>3
  <2>6. \A m \in 1..r : u[z + m] = b[m]
    BY <1>2, <2>1, <2>2, <2>4
  <2> QED
    BY <1>2, <2>1, <2>2, <2>5, <2>6
<1>5. t = u
  BY DEF u, w, Replace, a, b
<1> HIDE DEF t, u
<1>6. t \in Seq(Chars) /\ Len(t) = Len(text) - n + Len(v)
  <2>1. k - 1 + Len(v) + r = Len(text) - n + Len(v)
    BY <1>0
  <2> HIDE DEF r
  <2> QED
    BY <1>4, <1>5, <2>1, Zenon
<1>7. \A m \in 1..k - 1 : t[m] = text[m]
  <2>1. \A m \in 1..k - 1 : m \in 1..k - 1 + Len(v)
    BY <1>0
  <2> QED
    BY <1>1, <1>3, <1>4, <1>5, <2>1 DEF w
<1>8. \A m \in 1..Len(v) : t[k - 1 + m] = v[m]
  <2>1. \A m \in 1..Len(v) : k - 1 + m \in 1..k - 1 + Len(v)
    BY <1>0
  <2> QED
    BY <1>3, <1>4, <1>5, <2>1 DEF w
<1>9. \A m \in 1..r : t[k - 1 + Len(v) + m] = text[k - 1 + n + m]
  BY <1>2, <1>4, <1>5
<1>10. IsReplaced(t, text, k, n, v)
  BY <1>6, <1>7, <1>8, <1>9 DEF IsReplaced
<1> QED
  BY <1>10 DEF t

\* Reading a text in which a reference has been replaced: the same before it and
\* the same behind it.
LEMMA ReadReplaced ==
  ASSUME NEW c \in Config, NEW text \in Seq(Chars), NEW k \in 1..Len(text),
         NEW p \in Seq(Chars), NEW v \in Seq(Chars), NoPercent(v),
         Len(p) >= 2, \A m \in 1..Len(p) : p[m] = PERCENT <=> m \in {1, Len(p)},
         OccursAt(text, p, k), Scan(c, text)[k - 1].pending = <<>>, ValueOf(c, p) = v
  PROVE  LET t == Replace(text, k, Len(p), v)
         IN  /\ SameReading(c, t, 0, text, 0, k - 1)
             /\ SameReading(c, t, k - 1 + Len(v), text, k - 1 + Len(p), Len(text) - (k - 1 + Len(p)))
<1> DEFINE t == Replace(text, k, Len(p), v)
           r == Len(text) - (k - 1 + Len(p))
           i == k - 1
<1>0. /\ Len(text) \in Nat /\ Len(v) \in Nat /\ Len(p) \in Nat
      /\ i \in Nat /\ i \in 0..Len(text) /\ i + Len(p) <= Len(text) /\ r \in Nat
      /\ \A m \in 1..Len(p) : text[i + m] = p[m]
  <2>1. Len(text) \in Nat /\ Len(v) \in Nat /\ Len(p) \in Nat
    BY LenProperties
  <2>2. i + Len(p) <= Len(text) /\ \A m \in 1..Len(p) : text[i + m] = p[m]
    BY OccursParts
  <2> QED
    BY <2>1, <2>2
<1>1. /\ t \in Seq(Chars)
      /\ Len(t) = i + Len(v) + r
      /\ \A m \in 1..i : t[m] = text[m]
      /\ \A m \in 1..Len(v) : t[i + m] = v[m]
      /\ \A m \in 1..r : t[i + Len(v) + m] = text[i + Len(p) + m]
  <2>1. /\ t \in Seq(Chars)
        /\ Len(t) = Len(text) - Len(p) + Len(v)
        /\ \A m \in 1..k - 1 : t[m] = text[m]
        /\ \A m \in 1..Len(v) : t[k - 1 + m] = v[m]
        /\ \A m \in 1..Len(text) - (k - 1 + Len(p)) : t[k - 1 + Len(v) + m] = text[k - 1 + Len(p) + m]
    <3>1. Len(p) \in Nat /\ k - 1 + Len(p) <= Len(text)
      BY <1>0
    <3>2. IsReplaced(t, text, k, Len(p), v)
      BY <3>1, ReplaceParts
    <3> HIDE DEF t, i, r
    <3> QED
      BY <3>2 DEF IsReplaced
  <2>2. Len(text) - Len(p) + Len(v) = i + Len(v) + r
    BY <1>0
  <2> QED
    BY <2>1, <2>2
<1> DEFINE f == Scan(c, text)
           g == Scan(c, t)
<1>2. SameReading(c, t, 0, text, 0, i)
  <2>1. g[0] = f[0]
    BY <1>1, ScanDefined
  <2>2. 0 \in 0..Len(t) /\ 0 \in 0..Len(text) /\ 0 + i <= Len(t) /\ 0 + i <= Len(text)
    <3>1. Len(t) = i + Len(v) + r /\ Len(v) \in Nat /\ r \in Nat /\ i \in Nat
      BY <1>0, <1>1
    <3>2. i <= Len(text) /\ Len(text) \in Nat
      BY <1>0
    <3> HIDE DEF t, i, r
    <3> QED
      BY <3>1, <3>2
  <2>3. SameText(t, 0, text, 0, i)
    BY <1>0, <1>1 DEF SameText
  <2>6. t \in Seq(Chars) /\ i \in Nat
    BY <1>0, <1>1
  <2> HIDE DEF t, i
  <2> QED
    BY <2>1, <2>2, <2>3, <2>6, ReadAlike
<1>3. f[i].pending = <<>> /\ g[i] = f[i]
  <2>1. \A m \in 0..i : g[0 + m] = f[0 + m]
    BY <1>2 DEF SameReading
  <2>2. i \in 0..i /\ 0 + i = i
    BY <1>0
  <2> HIDE DEF i
  <2>3. g[0 + i] = f[0 + i]
    BY <2>1, <2>2
  <2> QED
    BY <2>2, <2>3 DEF i
<1>4. f[i + Len(p)] = [out |-> f[i].out \o v, pending |-> <<>>]
  <2> HIDE DEF i
  <2> QED
    BY <1>0, <1>3, ReadReference
<1>5. g[i + Len(v)] = [out |-> f[i].out \o v, pending |-> <<>>]
  <2>1. i \in 0..Len(t) /\ i + Len(v) <= Len(t)
    BY <1>0, <1>1
  <2>2. \A m \in 1..Len(v) : t[i + m] = v[m] /\ v[m] # PERCENT
    BY <1>1 DEF NoPercent
  <2>4. g[i].pending = <<>>
    BY <1>3
  <2> HIDE DEF i, t
  <2>3. g[i + Len(v)] = [out |-> g[i].out \o v, pending |-> <<>>]
    BY <1>1, <1>3, <2>1, <2>2, <2>4, ReadPlainly, Zenon
  <2> QED
    BY <1>3, <2>3
<1>6. SameReading(c, t, i + Len(v), text, i + Len(p), r)
  <2>1. /\ i + Len(v) \in 0..Len(t) /\ i + Len(p) \in 0..Len(text)
        /\ i + Len(v) + r <= Len(t) /\ i + Len(p) + r <= Len(text)
    BY <1>0, <1>1
  <2>2. g[i + Len(v)] = f[i + Len(p)]
    BY <1>4, <1>5
  <2> DEFINE x == i + Len(v)
             y == i + Len(p)
  <2>3. SameText(t, x, text, y, r)
    BY <1>1 DEF SameText
  <2>4. x \in 0..Len(t) /\ y \in 0..Len(text) /\ x + r <= Len(t) /\ y + r <= Len(text) /\ g[x] = f[y] /\ r \in Nat
    BY <1>0, <2>1, <2>2
  <2>6. t \in Seq(Chars)
    BY <1>1
  <2> HIDE DEF i, t, x, y, r
  <2>7. SameReading(c, t, x, text, y, r)
    BY <2>3, <2>4, <2>6, ReadAlike
  <2> QED
    BY <2>7 DEF x, y
<1> QED
  BY <1>2, <1>6

\* A text t becomes the same as text when all is replaced, and it has no reference
\* and no gap that text has not.
ReadsLike(c, t, text) ==
  /\ t \in Seq(Chars)
  /\ Substituted(c, t) = Substituted(c, text)
  /\ \A n \in Closing(c, t) : \E h \in Closing(c, text) : Scan(c, text)[h - 1] = Scan(c, t)[n - 1]
  /\ \A key : InGap(c, t, key) => InGap(c, text, key)

\* Replacing a reference by its value takes two percent signs and changes nothing
\* about what is read at the others.
LEMMA ReplacedKeeps ==
  ASSUME NEW c \in Config, NEW text \in Seq(Chars), NEW k \in 1..Len(text),
         NEW p \in Seq(Chars), NEW v \in Seq(Chars), NoPercent(v),
         Len(p) >= 2, \A m \in 1..Len(p) : p[m] = PERCENT <=> m \in {1, Len(p)},
         OccursAt(text, p, k), Scan(c, text)[k - 1].pending = <<>>, ValueOf(c, p) = v,
         NEW t, t = Replace(text, k, Len(p), v)
  PROVE  ReadsLike(c, t, text)
<1> DEFINE i == k - 1
           x == i + Len(v)
           y == i + Len(p)
           r == Len(text) - y
           f == Scan(c, text)
           g == Scan(c, t)
<1>0. /\ Len(text) \in Nat /\ Len(v) \in Nat /\ Len(p) \in Nat
      /\ i \in Nat /\ x \in Nat /\ y \in Nat /\ r \in Nat /\ y >= i + 2 /\ x >= i /\ Len(text) = y + r
  <2>1. Len(text) \in Nat /\ Len(v) \in Nat /\ Len(p) \in Nat
    BY LenProperties
  <2>2. i + Len(p) <= Len(text)
    BY OccursParts
  <2> QED
    BY <2>1, <2>2
<1>1. /\ t \in Seq(Chars) /\ Len(t) = x + r
      /\ \A m \in 1..i : t[m] = text[m]
      /\ \A m \in 1..Len(v) : t[i + m] = v[m]
      /\ \A m \in 1..r : t[x + m] = text[y + m]
  <2>1. IsReplaced(t, text, k, Len(p), v)
    BY <1>0, ReplaceParts
  <2>2. Len(text) - Len(p) + Len(v) = x + r
    BY <1>0
  <2> QED
    BY <2>1, <2>2 DEF IsReplaced
<1>2. (\A m \in 0..i : g[m] = f[m]) /\ (\A m \in 0..r : g[x + m] = f[y + m])
  <2>1. /\ SameReading(c, t, 0, text, 0, i)
        /\ SameReading(c, t, x, text, y, r)
    BY ReadReplaced
  <2>2. \A m \in 0..i : g[0 + m] = f[0 + m]
    BY <2>1 DEF SameReading
  <2>3. \A m \in 0..r : g[x + m] = f[y + m]
    BY <2>1 DEF SameReading
  <2>4. \A m \in 0..i : 0 + m = m
    BY <1>0
  <2> HIDE DEF f, g, i, x, y, r
  <2> QED
    BY <2>2, <2>3, <2>4
<1> HIDE DEF i, x, y, r, f, g
<1> DEFINE From(n) == IF n <= i THEN n ELSE n - x + y
<1>3. ASSUME NEW n \in 1..Len(t), t[n] = PERCENT
      PROVE  /\ From(n) \in 1..Len(text) /\ text[From(n)] = PERCENT
             /\ f[From(n) - 1] = g[n - 1] /\ f[From(n)] = g[n]
             /\ n <= i \/ n > x
  <2>1. CASE n <= i
    <3>1. n \in 1..i /\ n \in 0..i /\ n - 1 \in 0..i /\ n \in 1..Len(text) /\ From(n) = n
      BY <1>0, <2>1
    <3> QED
      BY <1>1, <1>2, <1>3, <2>1, <3>1
  <2>2. CASE n > i /\ n <= x
    <3>1. n - i \in 1..Len(v) /\ i + (n - i) = n
      BY <1>0, <2>2 DEF x
    <3>2. t[i + (n - i)] = v[n - i]
      BY <1>1, <3>1
    <3> QED
      BY <1>3, <3>1, <3>2 DEF NoPercent
  <2>3. CASE n > x
    <3>1. PICK m \in 1..r : n = x + m
      <4>1. n - x \in 1..r /\ n = x + (n - x)
        BY <1>0, <1>1, <2>3
      <4> QED
        BY <4>1
    <3>2. /\ From(n) = y + m /\ From(n) - 1 = y + (m - 1) /\ n - 1 = x + (m - 1)
          /\ m \in 0..r /\ m - 1 \in 0..r /\ From(n) \in 1..Len(text)
      BY <1>0, <2>3, <3>1
    <3>3. text[From(n)] = PERCENT
      BY <1>1, <1>3, <3>1, <3>2
    <3>4. g[x + m] = f[y + m] /\ g[x + (m - 1)] = f[y + (m - 1)]
      BY <1>2, <3>2
    <3> HIDE DEF From
    <3> QED
      BY <2>3, <3>1, <3>2, <3>3, <3>4
  <2>4. n \in Int /\ i \in Int /\ x \in Int
    BY <1>0
  <2> HIDE DEF From
  <2> QED
    BY <2>1, <2>2, <2>3, <2>4
<1>4. ASSUME NEW n \in 1..Len(t), NEW m \in 1..Len(t), t[n] = PERCENT, t[m] = PERCENT, n < m
      PROVE  From(n) < From(m)
  <2>1. (n <= i \/ n > x) /\ (m <= i \/ m > x)
    <3> HIDE DEF From
    <3> QED
      BY <1>3, <1>4
  <2> QED
    BY <1>0, <1>4, <2>1
<1> HIDE DEF From
<1>5. /\ \A n \in Closing(c, t) : From(n) \in Closing(c, text)
      /\ \A n \in Opening(c, t) : From(n) \in Opening(c, text)
  BY <1>3 DEF Closing, Opening, f, g
<1>6. ASSUME NEW n \in Closing(c, t)
      PROVE  \E h \in Closing(c, text) : Scan(c, text)[h - 1] = Scan(c, t)[n - 1]
  <2>1. n \in 1..Len(t) /\ t[n] = PERCENT
    BY DEF Closing
  <2> QED
    BY <1>3, <1>5, <2>1 DEF f, g
<1>7. ASSUME NEW key, InGap(c, t, key)
      PROVE  InGap(c, text, key)
  <2>1. PICK a \in Closing(c, t), b \in Opening(c, t) : a < b /\ g[b - 1].out = g[a].out \o key
    BY <1>7 DEF InGap, g
  <2>2. a \in 1..Len(t) /\ t[a] = PERCENT /\ b \in 1..Len(t) /\ t[b] = PERCENT
    BY DEF Closing, Opening
  <2>3. From(a) < From(b) /\ f[From(b) - 1] = g[b - 1] /\ f[From(a)] = g[a]
    BY <1>3, <1>4, <2>1, <2>2
  <2>4. From(a) \in Closing(c, text) /\ From(b) \in Opening(c, text)
    BY <1>5
  <2>5. f[From(b) - 1].out = f[From(a)].out \o key
    BY <2>1, <2>3
  <2> QED
    BY <2>3, <2>4, <2>5 DEF InGap, f
<1>8. Substituted(c, t) = Substituted(c, text)
  <2>1. g[x + r] = f[y + r]
    BY <1>0, <1>2
  <2> QED
    BY <1>0, <1>1, <2>1 DEF Substituted, f, g
<1> QED
  BY <1>1, <1>6, <1>7, <1>8 DEF ReadsLike

-----------------------------------------------------------------------------
(* All references at once *)

\* A text on the way: it will become what the commands should become, no reference
\* to one of the first i members is left, and no key can be read in a gap.
Expands(c, i, text) ==
  /\ Substituted(c, text) = Substituted(c, c.batch_commands)
  /\ \A n \in Closing(c, text) : \A m \in 1..i :
       Append(Scan(c, text)[n - 1].pending, PERCENT) # Reference(c.set_commands[m])
  /\ \A m \in 1..Len(c.set_commands) : ~InGap(c, text, c.set_commands[m].key)

LEMMA UsualMembers ==
  ASSUME NEW c \in Config, Usual(c)
  PROVE  \A k \in 1..Len(c.set_commands) :
           /\ c.set_commands[k] \in [key : Seq(Chars), value : Seq(Chars)]
           /\ NoPercent(c.set_commands[k].key) /\ NoPercent(c.set_commands[k].value)
           /\ ~InGap(c, c.batch_commands, c.set_commands[k].key)
<1> TAKE k \in 1..Len(c.set_commands)
<1>1. c.set_commands \in Seq([key : Seq(Chars), value : Seq(Chars)])
  BY DEF Config
<1>2. c.set_commands[k] \in [key : Seq(Chars), value : Seq(Chars)] /\ k \in DOMAIN c.set_commands
  <2>1. DOMAIN c.set_commands = 1..Len(c.set_commands)
    BY <1>1
  <2> QED
    BY <1>1, <2>1, ElementOfSeq
<1>3. c.set_commands[k].key \in Seq(Chars) /\ c.set_commands[k].value \in Seq(Chars)
  BY <1>2
<1>4. /\ DOMAIN c.set_commands[k].key = 1..Len(c.set_commands[k].key)
      /\ DOMAIN c.set_commands[k].value = 1..Len(c.set_commands[k].value)
  BY <1>3
<1> QED
  BY <1>2, <1>4 DEF Usual, NoPercent

LEMMA NothingExpanded ==
  ASSUME NEW c \in Config, Usual(c)
  PROVE  Expands(c, 0, c.batch_commands)
BY UsualMembers DEF Expands

LEMMA OneExpanded ==
  ASSUME NEW c \in Config, Usual(c), NEW text \in Seq(Chars),
         NEW i \in 0..Len(c.set_commands) - 1, Expands(c, i, text),
         NEW member, member = c.set_commands[i + 1],
         NEW p, p = Reference(member), Occurs(text, p)
  PROVE  Expands(c, i, Replace(text, Find(text, p), Len(p), member.value))
<1> DEFINE k == Find(text, p)
           v == member.value
           t == Replace(text, k, Len(p), v)
<1>0. Len(c.set_commands) \in Nat /\ i + 1 \in 1..Len(c.set_commands)
  BY LenProperties DEF Config
<1>1. /\ member \in [key : Seq(Chars), value : Seq(Chars)]
      /\ NoPercent(member.key) /\ NoPercent(v) /\ v \in Seq(Chars)
  BY <1>0, UsualMembers
<1>2. /\ p \in Seq(Chars) /\ Len(p) >= 2
      /\ \A m \in 1..Len(p) : p[m] = PERCENT <=> m \in {1, Len(p)}
  <2>1. Len(member.key) \in Nat
    BY <1>1, LenProperties
  <2>2. /\ Reference(member) \in Seq(Chars) /\ Len(Reference(member)) = Len(member.key) + 2
        /\ \A m \in 1..Len(Reference(member)) :
             Reference(member)[m] = PERCENT <=> m \in {1, Len(Reference(member))}
    BY <1>1, ReferenceParts
  <2> QED
    BY <2>1, <2>2
<1>3. k \in 1..Len(text) /\ OccursAt(text, p, k)
  BY FindFinds
<1> HIDE DEF k
<1>4. Scan(c, text)[k - 1].pending = <<>>
  <2>1. ~InGap(c, text, member.key)
    BY <1>0 DEF Expands
  <2> QED
    BY <1>1, <1>3, <2>1, FoundAtReference
<1>5. /\ k - 1 + Len(p) \in Closing(c, text)
      /\ Append(Scan(c, text)[k - 1 + Len(p) - 1].pending, PERCENT) = p
  <2>1. k - 1 \in 0..Len(text)
    BY <1>3
  <2>2. k - 1 + Len(p) <= Len(text) /\ \A m \in 1..Len(p) : text[k - 1 + m] = p[m]
    BY <1>2, <1>3, OccursParts
  <2> QED
    BY <1>2, <1>4, <2>1, <2>2, ReadReference
<1>6. ValueOf(c, p) = v
  <2>1. \A m \in 1..i : Reference(c.set_commands[m]) # p
    <3> DEFINE n == k - 1 + Len(p)
    <3>1. n \in Closing(c, text) /\ Append(Scan(c, text)[n - 1].pending, PERCENT) = p
      <4>1. k - 1 + Len(p) - 1 = n - 1
        BY <1>2, <1>3, LenProperties
      <4> QED
        BY <1>5, <4>1
    <3> HIDE DEF n
    <3>2. \A m \in 1..i : Append(Scan(c, text)[n - 1].pending, PERCENT) # Reference(c.set_commands[m])
      BY <3>1 DEF Expands
    <3> QED
      BY <3>1, <3>2
  <2>2. Reference(c.set_commands[i + 1]) = p
    OBVIOUS
  <2>3. PICK j \in 1..Len(c.set_commands) :
          /\ Reference(c.set_commands[j]) = p
          /\ \A m \in 1..j - 1 : Reference(c.set_commands[m]) # p
          /\ ValueOf(c, p) = c.set_commands[j].value
    BY <1>0, <2>2, FirstMember
  <2>4. ~(j <= i) /\ ~(i + 1 <= j - 1)
    BY <1>0, <2>1, <2>2, <2>3
  <2>5. j = i + 1
    BY <1>0, <2>4
  <2> QED
    BY <2>3, <2>5
<1>7. ReadsLike(c, t, text)
  <2> HIDE DEF v, t
  <2>1. t = Replace(text, k, Len(p), v)
    BY DEF t
  <2> QED
    BY <1>1, <1>2, <1>3, <1>4, <1>6, <2>1, ReplacedKeeps
<1> HIDE DEF t
<1>8. Expands(c, i, t)
  <2>1. \A m \in 1..Len(c.set_commands) : ~InGap(c, t, c.set_commands[m].key)
    BY <1>7 DEF Expands, ReadsLike
  <2>2. ASSUME NEW n \in Closing(c, t), NEW m \in 1..i
        PROVE  Append(Scan(c, t)[n - 1].pending, PERCENT) # Reference(c.set_commands[m])
    <3>1. PICK h \in Closing(c, text) : Scan(c, text)[h - 1] = Scan(c, t)[n - 1]
      BY <1>7 DEF ReadsLike
    <3>2. Append(Scan(c, text)[h - 1].pending, PERCENT) # Reference(c.set_commands[m])
      BY DEF Expands
    <3> QED
      BY <3>1, <3>2
  <2> QED
    BY <1>7, <2>1, <2>2 DEF Expands, ReadsLike
<1> QED
  BY <1>8 DEF t, k, v

LEMMA MemberPassed ==
  ASSUME NEW c \in Config, NEW text \in Seq(Chars),
         NEW i \in 0..Len(c.set_commands) - 1, Expands(c, i, text),
         ~Occurs(text, Reference(c.set_commands[i + 1]))
  PROVE  Expands(c, i + 1, text)
<1> DEFINE p == Reference(c.set_commands[i + 1])
<1>1. ASSUME NEW n \in Closing(c, text)
      PROVE  Append(Scan(c, text)[n - 1].pending, PERCENT) # p
  <2> DEFINE w == Scan(c, text)[n - 1].pending
             k == n - Len(w)
  <2> SUFFICES ASSUME Append(w, PERCENT) = p
               PROVE  FALSE
    OBVIOUS
  <2>0. Len(text) \in Nat /\ n \in 1..Len(text) /\ text[n] = PERCENT /\ n - 1 \in 0..Len(text)
    BY LenProperties DEF Closing
  <2>1. /\ w \in Seq(Chars) /\ Len(w) \in Nat /\ Len(w) <= n - 1
        /\ \A j \in 1..Len(w) : w[j] = text[n - 1 - Len(w) + j]
    <3>1. w \in Seq(Chars)
      BY <2>0, ScanStates
    <3>2. /\ Len(w) <= n - 1
          /\ \A j \in 1..Len(w) : w[j] = text[n - 1 - Len(w) + j]
      BY <2>0, ScanType, Zenon
    <3> QED
      BY <3>1, <3>2, LenProperties
  <2> HIDE DEF w
  <2>6. Append(w, PERCENT) = p
    OBVIOUS
  <2> HIDE DEF p
  <2>2. /\ p \in Seq(Chars) /\ Len(p) = Len(w) + 1 /\ p[Len(w) + 1] = PERCENT
        /\ \A j \in 1..Len(w) : p[j] = w[j]
    <3>1. PERCENT \in Chars
      BY DEF PERCENT, Chars
    <3>2. w \in Seq(Chars)
      BY <2>1
    <3>3. p = Append(w, PERCENT)
      BY <2>6
    <3> QED
      BY <3>1, <3>2, <3>3, AppendParts
  <2>3. k \in 1..Len(text) /\ k + Len(p) - 1 = n
    BY <2>0, <2>1, <2>2
  <2>4. SubSeq(text, k, n) = p
    <3>1. SubSeq(text, k, n) \in Seq(Chars) /\ Len(SubSeq(text, k, n)) = Len(p)
      BY <2>0, <2>2, <2>3, SubSeqOfText
    <3>2. \A j \in 1..Len(p) : SubSeq(text, k, n)[j] = text[k + j - 1]
      BY <2>0, <2>2, <2>3
    <3>3. \A j \in 1..Len(p) : p[j] = text[k + j - 1]
      <4> TAKE j \in 1..Len(p)
      <4>1. CASE j = Len(p)
        <5>1. k + j - 1 = n
          BY <2>3, <4>1
        <5> QED
          BY <2>0, <2>2, <4>1, <5>1
      <4>2. CASE j # Len(p)
        <5>1. j \in 1..Len(w) /\ k + j - 1 = n - 1 - Len(w) + j
          BY <2>0, <2>1, <2>2, <4>2
        <5> QED
          BY <2>1, <2>2, <5>1
      <4> QED
        BY <4>1, <4>2
    <3> DEFINE u == SubSeq(text, k, n)
    <3> HIDE DEF u, k
    <3>4. \A j \in 1..Len(p) : u[j] = p[j]
      BY <3>2, <3>3 DEF u
    <3>5. u \in Seq(Chars) /\ Len(u) = Len(p)
      BY <3>1 DEF u
    <3>6. u = p
      BY <2>2, <3>4, <3>5, SeqEqual
    <3> QED
      BY <3>6 DEF u
  <2>5. OccursAt(text, p, k)
    BY <2>0, <2>3, <2>4 DEF OccursAt
  <2> QED
    BY <2>3, <2>5 DEF Occurs, p
<1>2. \A m \in 1..i + 1 : m \in 1..i \/ m = i + 1
  OBVIOUS
<1> QED
  BY <1>1, <1>2 DEF Expands

LEMMA AllPassed ==
  ASSUME NEW c \in Config, NEW text \in Seq(Chars), Expands(c, Len(c.set_commands), text)
  PROVE  text = Substituted(c, c.batch_commands)
<1> DEFINE f == Scan(c, text)
           N == Len(text)
           Same(n) == f[n].out \o f[n].pending = SubSeq(text, 1, n)
           T == {n \in 0..N : Same(n)}
<1>0. N \in Nat
  BY LenProperties
<1>1. f[0] = Start /\ \A n \in 1..N : f[n] = Scanned(c, f[n - 1], text[n])
  BY ScanDefined
<1>2. \A n \in 0..N : f[n] \in States /\ f[n].out \in Seq(Chars) /\ f[n].pending \in Seq(Chars)
  BY ScanStates
<1>3. \A n \in Closing(c, text) :
        ValueOf(c, Append(f[n - 1].pending, PERCENT)) = Append(f[n - 1].pending, PERCENT)
  <2> TAKE n \in Closing(c, text)
  <2>1. \A m \in 1..Len(c.set_commands) :
          Reference(c.set_commands[m]) # Append(f[n - 1].pending, PERCENT)
    BY DEF Expands
  <2> HIDE DEF f
  <2> QED
    BY <2>1, FirstMember
<1>4. \A n \in 1..N : text[n] = PERCENT /\ f[n - 1].pending # <<>> => n \in Closing(c, text)
  BY DEF Closing
<1> HIDE DEF f
<1>5. 0 \in T
  <2>1. SubSeq(text, 1, 0) = <<>> /\ <<>> \o <<>> = <<>>
    OBVIOUS
  <2>2. f[0].out = <<>> /\ f[0].pending = <<>>
    BY <1>1 DEF Start
  <2>3. Same(0)
    BY <2>1, <2>2, Zenon
  <2>4. 0 \in 0..N
    BY <1>0
  <2> HIDE DEF Same
  <2> QED
    BY <2>3, <2>4
<1>6. ASSUME NEW n \in 0..N - 1, Same(n)
      PROVE  Same(n + 1)
  <2> DEFINE s == f[n]
             char == text[n + 1]
  <2>1. n + 1 \in 1..N /\ n + 1 - 1 = n /\ n \in 0..N
    BY <1>0
  <2>2. f[n + 1] = Scanned(c, s, char) /\ char \in Chars
    BY <1>1, <2>1, ElementOfSeq
  <2>3. s \in States /\ s.out \in Seq(Chars) /\ s.pending \in Seq(Chars)
    BY <1>2, <2>1
  <2>4. char = PERCENT /\ s.pending # <<>> =>
          ValueOf(c, Append(s.pending, PERCENT)) = Append(s.pending, PERCENT)
    BY <1>3, <1>4, <2>1
  <2>5. SubSeq(text, 1, n + 1) = Append(s.out \o s.pending, char)
    <3>1. SubSeq(text, 1, n + 1) = Append(SubSeq(text, 1, n), text[n + 1])
      BY OneMore
    <3> QED
      BY <1>6, <3>1
  <2> HIDE DEF s, char
  <2>6. s.out \o Append(s.pending, char) = Append(s.out \o s.pending, char)
    BY <2>2, <2>3, AppendToConcat
  <2>7. CASE char # PERCENT /\ s.pending = <<>>
    <3>1. Scanned(c, s, char) = [out |-> Append(s.out, char), pending |-> s.pending]
      BY <2>3, <2>7, ReadingOut
    <3>2. f[n + 1].out = Append(s.out, char) /\ f[n + 1].pending = <<>>
      BY <2>2, <2>7, <3>1
    <3>3. Append(s.out, char) \o <<>> = Append(s.out, char) /\ s.out \o <<>> = s.out
      BY <2>2, <2>3
    <3> QED
      BY <2>5, <2>7, <3>2, <3>3
  <2>8. CASE char = PERCENT <=> s.pending = <<>>
    <3>1. (char = PERCENT => s.pending = <<>>) /\ (s.pending = <<>> => char = PERCENT)
      BY <2>8
    <3>2. Scanned(c, s, char) = [out |-> s.out, pending |-> Append(s.pending, char)]
      BY <2>3, <3>1, ReadingReference
    <3>3. f[n + 1].out = s.out /\ f[n + 1].pending = Append(s.pending, char)
      BY <2>2, <3>2
    <3> QED
      BY <2>5, <2>6, <3>3
  <2>9. CASE char = PERCENT /\ s.pending # <<>>
    <3>1. Scanned(c, s, PERCENT) =
            [out |-> s.out \o ValueOf(c, Append(s.pending, PERCENT)), pending |-> <<>>]
      BY <2>3, <2>9, ReadingEnd
    <3> DEFINE a == s.out \o ValueOf(c, Append(s.pending, PERCENT))
    <3>5. f[n + 1] = [out |-> a, pending |-> <<>>]
      BY <2>2, <2>9, <3>1, Zenon
    <3> HIDE DEF a
    <3>6. f[n + 1].out = a /\ f[n + 1].pending = <<>>
      BY <3>5
    <3>2. f[n + 1].out = s.out \o Append(s.pending, PERCENT) /\ f[n + 1].pending = <<>>
      BY <2>4, <2>9, <3>6, Zenon DEF a
    <3>3. s.out \o Append(s.pending, char) \in Seq(Chars)
      BY <2>2, <2>3, ConcatProperties, AppendProperties
    <3> DEFINE w == s.out \o Append(s.pending, char)
    <3> HIDE DEF w
    <3>4. w \o <<>> = w
      BY <3>3 DEF w
    <3> QED
      BY <2>5, <2>6, <2>9, <3>2, <3>4 DEF w
  <2> QED
    BY <2>7, <2>8, <2>9
<1>7. Same(N)
  <2>1. \A n \in 0..N - 1 : n \in T => n + 1 \in T
    <3>1. \A n \in 0..N - 1 : n + 1 \in 0..N
      BY <1>0
    <3> HIDE DEF Same
    <3> QED
      BY <1>6, <3>1, Zenon DEF T
  <2>2. N \in 0..N
    BY <1>0
  <2> HIDE DEF T, N
  <2>3. \A n \in 0..N : n \in T
    BY <1>0, <1>5, <2>1, Climb
  <2>4. N \in T
    BY <2>2, <2>3
  <2> QED
    BY <2>4 DEF T
<1>8. SubSeq(text, 1, N) = text
  BY <1>0
<1> QED
  BY <1>7, <1>8 DEF Expands, Substituted, f

-----------------------------------------------------------------------------

\* What has been expanded so far, if the configuration is of the usual form.
Expanded ==
  /\ phase = "running" => itr = Len(config.set_commands)
  /\ phase \in {"expanding", "running"} /\ Usual(config) => Expands(config, itr, batchCommands)

LEMMA ExpandedStep ==
  ASSUME IInv, Expanded, [Next]_vars
  PROVE  Expanded'
<1>0. config \in Config /\ batchCommands \in Seq(Chars) /\ Len(config.set_commands) \in Nat
  BY LenProperties DEF IInv, TypeOK, Config
<1>1. CASE Open \/ ReadChunk \/ ReadFails
  BY <1>1 DEF Open, ReadChunk, ReadFails, configVars, Expanded
<1>2. CASE Parse
  <2>1. CASE phase' = "ended"
    BY <2>1 DEF Expanded
  <2>2. CASE config' \in Configs /\ batchCommands' = config'.batch_commands /\ itr' = 0 /\ phase' = "expanding"
    <3>1. config' \in Config
      BY <2>2, ConfigsAssumption
    <3>2. Usual(config') => Expands(config', 0, config'.batch_commands)
      BY <3>1, NothingExpanded
    <3>3. Usual(config)' <=> Usual(config')
      OBVIOUS
    <3>4. Expands(config, itr, batchCommands)' <=> Expands(config', 0, config'.batch_commands)
      BY <2>2
    <3> QED
      BY <2>2, <3>2, <3>3, <3>4 DEF Expanded
  <2> QED
    BY <1>2, <2>1, <2>2 DEF Parse
<1>3. CASE ExpandOne
  <2> DEFINE p == Reference(Member)
             t == Replace(batchCommands, Find(batchCommands, p), Len(p), Member.value)
  <2>1. /\ phase = "expanding" /\ itr < Len(config.set_commands) /\ itr \in Nat
        /\ Occurs(batchCommands, p) /\ batchCommands' = t
        /\ phase' = phase /\ config' = config /\ itr' = itr
    BY <1>3 DEF ExpandOne, IInv, TypeOK
  <2>2. ASSUME Usual(config)
        PROVE  Expands(config, itr, t)
    <3>1. Expands(config, itr, batchCommands) /\ itr \in 0..Len(config.set_commands) - 1
      BY <1>0, <2>1, <2>2 DEF Expanded
    <3>2. Member = config.set_commands[itr + 1]
      BY DEF Member
    <3> QED
      BY <1>0, <2>1, <2>2, <3>1, <3>2, OneExpanded
  <2> HIDE DEF t
  <2> QED
    BY <2>1, <2>2 DEF Expanded
<1>4. CASE NextMember
  <2>1. /\ phase = "expanding" /\ itr < Len(config.set_commands) /\ itr \in Nat
        /\ ~Occurs(batchCommands, Reference(config.set_commands[itr + 1]))
        /\ phase' = phase /\ config' = config /\ itr' = itr + 1 /\ batchCommands' = batchCommands
    BY <1>4 DEF NextMember, Member, IInv, TypeOK
  <2>2. ASSUME Usual(config)
        PROVE  Expands(config, itr + 1, batchCommands)
    <3>1. Expands(config, itr, batchCommands) /\ itr \in 0..Len(config.set_commands) - 1
      BY <1>0, <2>1, <2>2 DEF Expanded
    <3> QED
      BY <1>0, <2>1, <3>1, MemberPassed
  <2> QED
    BY <2>1, <2>2 DEF Expanded
<1>5. CASE StartThreads
  BY <1>5 DEF StartThreads, fileVars, configVars, Expanded
<1>6. CASE UNCHANGED vars
  BY <1>6 DEF vars, Expanded
<1> QED
  BY <1>1, <1>2, <1>3, <1>4, <1>5, <1>6 DEF Next, MainThread, ReadNothing

\* For every configuration of the usual form, whatever its commands and members
\* and in whatever order: the commands that are run are those in which every
\* reference has been replaced, as if all had been replaced at once.
THEOREM AlwaysExpandedAtOnce == Spec => []ExpandedAtOnce
<1>1. Init => Expanded
  BY DEF Init, Expanded
<1>2. IInv /\ Expanded /\ [Next]_vars => Expanded'
  BY ExpandedStep
<1>3. IInv /\ Expanded => ExpandedAtOnce
  <2> SUFFICES ASSUME IInv, Expanded, phase = "running", Usual(config)
               PROVE  batchCommands = Substituted(config, config.batch_commands)
    BY DEF ExpandedAtOnce
  <2>1. config \in Config /\ batchCommands \in Seq(Chars)
    BY DEF IInv, TypeOK
  <2>2. Expands(config, Len(config.set_commands), batchCommands)
    BY DEF Expanded
  <2> QED
    BY <2>1, <2>2, AllPassed
<1> QED
  BY <1>1, <1>2, <1>3, IInvInvariant, PTL DEF Spec

=============================================================================
