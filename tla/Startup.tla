------------------------------ MODULE Startup ------------------------------
(***************************************************************************)
(* The start of the process: main and InitializeAndStart of ESBManager.cpp.*)
(* The configuration file is read in chunks, its commands are expanded,    *)
(* and the monitor and the REST server get a thread each.  The JSON parser *)
(* is reduced to what it can make of the text: some configuration, or none *)
(* that can be used, which its assertions answer by ending the process.    *)
(***************************************************************************)
EXTENDS Integers, Sequences

CONSTANTS
  Files,     \* contents of the configuration file, without null characters
  ChunkSize, \* FILE_READ_CHUNK_SIZE
  Configs,   \* what a configuration file can say of set and batch commands
  MaxText    \* bound on texts that grow without end

Chars == Nat \ {0}
Config == [set_commands : Seq([key : Seq(Chars), value : Seq(Chars)]), batch_commands : Seq(Chars)]

ASSUME FilesAssumption == Files \subseteq Seq(Chars)
ASSUME ConfigsAssumption == Configs \subseteq Config
ASSUME SizeAssumption == ChunkSize \in Nat \ {0} /\ MaxText \in Nat

VARIABLES
  phase,         \* of the main thread
  file,          \* the configuration file
  position,      \* of the stream that reads it
  configString,
  readError,     \* a read has failed
  config,        \* what was parsed; no member before
  itr,           \* members of set_commands that have been expanded
  batchCommands,
  threads        \* that are running: the monitor, the REST server

vars == <<phase, file, position, configString, readError, config, itr, batchCommands, threads>>

fileVars   == <<file, position, configString, readError>>
configVars == <<config, itr, batchCommands>>

NoConfig == [set_commands |-> <<>>, batch_commands |-> <<>>]

Init ==
  /\ phase = "opening"
  /\ file \in Files
  /\ position = 0
  /\ configString = <<>>
  /\ readError = FALSE
  /\ config = NoConfig
  /\ itr = 0
  /\ batchCommands = <<>>
  /\ threads = {}

-----------------------------------------------------------------------------
(* The configuration file *)

\* fopen; without a file InitializeAndStart returns, and so does main.
Open ==
  /\ phase = "opening"
  /\ phase' \in {"reading", "ended"}
  /\ UNCHANGED <<fileVars, configVars, threads>>

Least(a, b) == IF a < b THEN a ELSE b

\* Faulty variant: the loop is left after a full chunk, too.
FaultyReadChunk ==
  /\ phase = "reading"
  /\ LET n == Least(ChunkSize, Len(file) - position)
     IN  /\ n > 0
         /\ configString' = configString \o SubSeq(file, position + 1, position + n)
         /\ position' = position + n
         /\ phase' = IF n <= ChunkSize THEN "parsing" ELSE phase
  /\ UNCHANGED <<file, readError, configVars, threads>>

\* Faulty variant: the buffer is not cleared after a full chunk, so that the
\* rest of the old one follows a short one.
UnclearedReadChunk ==
  /\ phase = "reading"
  /\ LET n == Least(ChunkSize, Len(file) - position)
         rest == IF position = 0 THEN <<>> ELSE SubSeq(file, position - ChunkSize + n + 1, position)
     IN  /\ n > 0
         /\ configString' = configString \o SubSeq(file, position + 1, position + n) \o rest
         /\ position' = position + n
         /\ phase' = IF n + Len(rest) < ChunkSize THEN "parsing" ELSE phase
  /\ UNCHANGED <<file, readError, configVars, threads>>

\* A turn of the loop in which fread delivers something.
ReadChunk ==
  /\ phase = "reading"
  /\ LET n == Least(ChunkSize, Len(file) - position)
     IN  /\ n > 0
         /\ configString' = configString \o SubSeq(file, position + 1, position + n)
         /\ position' = position + n
         /\ phase' = IF n < ChunkSize THEN "parsing" ELSE phase
  /\ UNCHANGED <<file, readError, configVars, threads>>

\* A turn in which fread fails, after n characters or before any.  Nobody asks
\* ferror: some characters are a short chunk, none are as good as no turn.
ReadFails ==
  /\ phase = "reading"
  /\ \E n \in 0..Least(ChunkSize - 1, Len(file) - position) :
       /\ configString' = configString \o SubSeq(file, position + 1, position + n)
       /\ position' = position + n
       /\ phase' = IF n > 0 THEN "parsing" ELSE phase
  /\ readError' = TRUE
  /\ UNCHANGED <<file, configVars, threads>>

\* A turn at the end of the file: fread delivers nothing and nothing is done.
ReadNothing ==
  /\ phase = "reading"
  /\ position = Len(file)
  /\ UNCHANGED vars

\* The text is parsed and batch_commands are joined.
Parse ==
  /\ phase = "parsing"
  /\ \/ phase' = "ended" /\ UNCHANGED configVars
     \/ /\ config' \in Configs
        /\ batchCommands' = config'.batch_commands
        /\ itr' = 0
        /\ phase' = "expanding"
  /\ UNCHANGED <<fileVars, threads>>

-----------------------------------------------------------------------------
(* The command line *)

PERCENT == 37

Reference(member) == <<PERCENT>> \o member.key \o <<PERCENT>>

OccursAt(text, p, k) == k + Len(p) - 1 <= Len(text) /\ SubSeq(text, k, k + Len(p) - 1) = p

Occurs(text, p) == \E k \in 1..Len(text) : OccursAt(text, p, k)

\* std::string::find
Find(text, p) ==
  CHOOSE k \in 1..Len(text) : OccursAt(text, p, k) /\ \A j \in 1..k - 1 : ~OccursAt(text, p, j)

\* Faulty variant: the first character is left.
FaultyReplace(text, k, n, value) == SubSeq(text, 1, k) \o value \o SubSeq(text, k + n, Len(text))

\* std::string::replace
Replace(text, k, n, value) == SubSeq(text, 1, k - 1) \o value \o SubSeq(text, k + n, Len(text))

Member == config.set_commands[itr + 1]

\* A turn of the loop that looks for %key%.
ExpandOne ==
  /\ phase = "expanding"
  /\ itr < Len(config.set_commands)
  /\ Occurs(batchCommands, Reference(Member))
  /\ Len(batchCommands) <= MaxText
  /\ LET p == Reference(Member)
     IN  batchCommands' = Replace(batchCommands, Find(batchCommands, p), Len(p), Member.value)
  /\ UNCHANGED <<phase, fileVars, config, itr, threads>>

\* Faulty variant: a member is left at any time, the end among them.
FaultyNextMember ==
  /\ phase = "expanding"
  /\ itr <= Len(config.set_commands)
  /\ itr' = itr + 1
  /\ UNCHANGED <<phase, fileVars, config, batchCommands, threads>>

\* %key% is not found any more.
NextMember ==
  /\ phase = "expanding"
  /\ itr < Len(config.set_commands)
  /\ ~Occurs(batchCommands, Reference(Member))
  /\ itr' = itr + 1
  /\ UNCHANGED <<phase, fileVars, config, batchCommands, threads>>

-----------------------------------------------------------------------------
(* The threads *)

\* startWholly compares two pointers and is false: the container is taken to
\* be running.  What becomes of the threads is said in Process.
StartThreads ==
  /\ phase = "expanding"
  /\ itr = Len(config.set_commands)
  /\ phase' = "running"
  /\ threads' = {"monitor", "rest"}
  /\ UNCHANGED <<fileVars, configVars>>

MainThread == Open \/ ReadChunk \/ ReadNothing \/ Parse \/ ExpandOne \/ NextMember \/ StartThreads

Next == MainThread \/ ReadFails

\* The main thread is scheduled; no read need ever fail.
Spec == Init /\ [][Next]_vars /\ WF_vars(MainThread)

-----------------------------------------------------------------------------

TypeOK ==
  /\ phase \in {"opening", "reading", "parsing", "expanding", "running", "ended"}
  /\ file \in Seq(Chars) /\ configString \in Seq(Chars)
  /\ position \in 0..Len(file)
  /\ readError \in BOOLEAN
  /\ config \in Config
  /\ itr \in 0..Len(config.set_commands)
  /\ batchCommands \in Seq(Chars)
  /\ threads \subseteq {"monitor", "rest"}

\* What is parsed is a beginning of the file, and all of it unless a read has
\* failed: chunks are appended in order, none twice, and the loop is not left
\* before the end.
LoadedWhole ==
  phase \in {"parsing", "expanding", "running"} =>
    /\ configString = SubSeq(file, 1, Len(configString))
    /\ ~readError => configString = file

\* The loop is left after a chunk that is not full only.  A file whose length
\* is a multiple of the chunk's, an empty one too, is never parsed, unless a read
\* fails in the middle of a chunk.
AlignedNeverParsed ==
  Len(file) % ChunkSize = 0 /\ ~readError => phase \in {"opening", "reading", "ended"} /\ threads = {}

\* If the first member's value contains its own reference, and that is to be put
\* in, it is put in for ever: the threads are never started.  Of later members it is
\* only known that they come to the commands as the earlier ones have left them.
SelfReferring(c) ==
  /\ c.set_commands # <<>>
  /\ Occurs(c.batch_commands, Reference(c.set_commands[1]))
  /\ Occurs(c.set_commands[1].value, Reference(c.set_commands[1]))

SelfReferenceNeverStarts == SelfReferring(config) => phase # "running"

\* The value of a reference is that of the first member with the key; what is no
\* reference to a member stays.
ValueOf(c, reference) ==
  LET members == {k \in DOMAIN c.set_commands : Reference(c.set_commands[k]) = reference}
  IN  IF members = {} THEN reference
      ELSE c.set_commands[CHOOSE k \in members : \A j \in members : k <= j].value

\* Reading on by a character: out is what the text read so far becomes, pending
\* the part of a reference that has begun.  A percent sign begins one or ends it.
Scanned(c, s, char) ==
  IF char # PERCENT /\ s.pending = <<>> THEN [s EXCEPT !.out = Append(@, char)]
  ELSE IF char # PERCENT \/ s.pending = <<>> THEN [s EXCEPT !.pending = Append(@, char)]
  ELSE [out |-> s.out \o ValueOf(c, Append(s.pending, PERCENT)), pending |-> <<>>]

Scan(c, text) ==
  LET at[n \in 0..Len(text)] ==
        IF n = 0 THEN [out |-> <<>>, pending |-> <<>>] ELSE Scanned(c, at[n - 1], text[n])
  IN  at

\* The text with all its references replaced at once.
Substituted(c, text) ==
  Scan(c, text)[Len(text)].out \o Scan(c, text)[Len(text)].pending

\* The percent signs that begin and end a reference.
Opening(c, text) == {n \in 1..Len(text) : text[n] = PERCENT /\ Scan(c, text)[n - 1].pending = <<>>}
Closing(c, text) == {n \in 1..Len(text) : text[n] = PERCENT /\ Scan(c, text)[n - 1].pending # <<>>}

\* A text that stands, or will stand when references are replaced, between the
\* end of one reference and the beginning of another.
InGap(c, text, key) ==
  \E p \in Closing(c, text), q \in Opening(c, text) :
    p < q /\ Scan(c, text)[q - 1].out = Scan(c, text)[p].out \o key

\* Percent signs are for references only: none is in a key or in a value, and
\* no key can be read between two references.
Usual(c) ==
  \A k \in DOMAIN c.set_commands :
    /\ \A n \in DOMAIN c.set_commands[k].key : c.set_commands[k].key[n] # PERCENT
    /\ \A n \in DOMAIN c.set_commands[k].value : c.set_commands[k].value[n] # PERCENT
    /\ ~InGap(c, c.batch_commands, c.set_commands[k].key)

\* The commands that are run have every reference to a key replaced by its value,
\* as if all had been replaced at once.
ExpandedAtOnce ==
  phase = "running" /\ Usual(config) => batchCommands = Substituted(config, config.batch_commands)

\* The loop over the chunks of a file that is not aligned is left, unless a read
\* fails: the short chunk is seen as such, since the buffer was cleared before.
UnalignedIsParsed ==
  phase = "reading" /\ Len(file) % ChunkSize # 0 ~> phase # "reading" \/ readError

\* No value has two percent signs.  A reference has two, so every turn leaves fewer
\* in the commands; a value with two can bring its reference together again with
\* the text around it, as A%%A does with that of A in %%A%%.
Tame(c) ==
  \A k \in DOMAIN c.set_commands : \A m, n \in DOMAIN c.set_commands[k].value :
    c.set_commands[k].value[m] = PERCENT /\ c.set_commands[k].value[n] = PERCENT => m = n

\* The substitution comes to an end, and the threads are started, for every
\* configuration without such values.
TameIsStarted ==
  phase = "expanding" /\ Tame(config) ~> phase # "expanding"

=============================================================================
