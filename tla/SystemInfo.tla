----------------------------- MODULE SystemInfo -----------------------------
(***************************************************************************)
(* What ESBManager::GetSystemInfo makes of the output of an info command.  *)
(* Every line is matched with the regular expression systemInfoParser of   *)
(* the configuration file,                                                 *)
(*   ^([ a-zA-z]+[ ])([ ]+)([ a-zA-Z0-9=',\.:\-\(\)/\\_]+)[ ]*$            *)
(* and what it captures goes to SystemInfo::setValue.                      *)
(*                                                                         *)
(* A line is a sequence of blanks and words.  No group can end within a    *)
(* word, nor at a single blank: the first ends with a blank that another   *)
(* one follows.  So a label like "Garbage collector" is one word here.     *)
(* What a field holds is the sequence of the texts put into it, the line   *)
(* ends between them left out.                                             *)
(*                                                                         *)
(* The names differ from those of MonitorService, which keeps of all this  *)
(* whether a parsed object arrives, so that one module can use both.       *)
(***************************************************************************)
EXTENDS Integers, Sequences, FiniteSets, FiniteSetsExt

CONSTANTS
  Letters, \* words both groups take that are no labels
  Marks,   \* words of the first group only: A-z has [ ] ^ and the backtick too
  Values,  \* words of the third group only
  Symbols, \* words that neither takes
  Answers  \* of the info command: sequences of lines

VARIABLES
  called,     \* GetSystemInfo is at work
  _infoText,  \* the lines of the answer it is given
  looked,     \* how many it has looked at
  systemInfo, \* the local object
  sharedInfo  \* ESBManager's currentSystemInfo

infoVars == <<called, _infoText, looked, systemInfo, sharedInfo>>

BLANK == " "

-----------------------------------------------------------------------------
(* SystemInfo.cpp *)

\* The branches of setValue: label and field.
fields ==
  { <<"Architecture", "architecture">>, <<"Committed heap size", "committedHeap">>,
    <<"Current classes loaded", "currentClassesLoaded">>, <<"Current heap size", "currentHeap">>,
    <<"Daemon threads", "daemonThreads">>, <<"Garbage collector", "garbageCollector">>,
    <<"Java Virtual Machine", "javaVirtualMachine">>, <<"Live threads", "liveThreads">>,
    <<"Maximum heap size", "maximumHeap">>, <<"Name", "Name">>, <<"Version", "version">>,
    <<"Vendor", "vendor">>, <<"Uptime", "upTime">>, <<"Total started", "totalStarted">>,
    <<"Total compile time", "totalCompileTime">>, <<"Total classes unloaded", "totalClassesUnloaded">>,
    <<"Total classes loaded", "totalClassesLoaded">>, <<"Processors", "processors">>,
    <<"Pid", "pid">>, <<"Pending objects", "pendingObjects">>, <<"Peak", "peak">> }

Labels == {f[1] : f \in fields}
Fields == {f[2] : f \in fields}

Words  == {BLANK} \cup Labels \cup Letters \cup Marks \cup Values \cup Symbols

ASSUME AnswersAssumption == Answers \subseteq Seq(Seq(Words))

NewSystemInfo == [f \in Fields |-> <<>>]

\* The field a name stands for; a name is a text, so a label is one word of it.
Denotes(name, field) == \E f \in fields : name = <<f[1]>> /\ field = f[2]

\* Faulty variant: one collector takes the place of the other.
FaultySetValue(info, name, value) ==
  [f \in Fields |-> IF Denotes(name, f) THEN <<value>> ELSE info[f]]

setValue(info, name, value) ==
  [f \in Fields |->
     IF ~Denotes(name, f) THEN info[f]
     ELSE IF f = "garbageCollector" THEN Append(info[f], value)
     ELSE <<value>>]

\* The copy constructor copies nothing; whether it is called to return an
\* object is the compiler's choice.
Returned(info) == {info, NewSystemInfo}

\* operator= copies nothing.
Assign(target, other) == target

-----------------------------------------------------------------------------
(* ESBManager::GetSystemInfo *)

\* ESBManager::trim: a text of blanks stays as it is.
trim(text) ==
  LET solid == {k \in DOMAIN text : text[k] # BLANK}
  IN  IF solid = {} THEN text ELSE SubSeq(text, Min(solid), Max(solid))

\* The places where the first group may end: at a blank, with what it takes up to
\* there, another blank behind it, and something the third group takes.
GroupEnds(line) ==
  { k \in 2..Len(line) - 2 :
      /\ line[k] = BLANK /\ line[k + 1] = BLANK
      /\ \A j \in 1..k : line[j] \in {BLANK} \cup Labels \cup Letters \cup Marks
      /\ \A j \in k + 2..Len(line) : line[j] \in {BLANK} \cup Labels \cup Letters \cup Values }

\* The first group takes as much as it can; that leaves one blank to the second.
Split(line) == Max(GroupEnds(line))

\* Faulty variant: only the last word that was captured.
FaultyName(line) == <<SubSeq(line, 1, Split(line))[Max({k \in 1..Split(line) : line[k] # BLANK} \cup {1})]>>

Name(line)  == trim(SubSeq(line, 1, Split(line)))
Value(line) == trim(SubSeq(line, Split(line) + 2, Len(line)))

InfoInit ==
  /\ called = FALSE
  /\ _infoText = <<>>
  /\ looked = 0
  /\ systemInfo = NewSystemInfo
  /\ sharedInfo = NewSystemInfo

\* GetSystemInfo is called with the answer to an info command.
Call ==
  /\ ~called
  /\ called' = TRUE
  /\ _infoText' \in Answers
  /\ UNCHANGED <<looked, systemInfo, sharedInfo>>

\* A turn of the loop over the lines.
Line ==
  /\ called
  /\ looked < Len(_infoText)
  /\ looked' = looked + 1
  /\ LET eachTextLine == _infoText[looked + 1]
     IN  systemInfo' = IF GroupEnds(eachTextLine) = {} THEN systemInfo
                       ELSE setValue(systemInfo, Name(eachTextLine), Value(eachTextLine))
  /\ UNCHANGED <<called, _infoText, sharedInfo>>

\* The result is assigned to the shared object, and the local one is gone.
Return ==
  /\ called
  /\ looked = Len(_infoText)
  /\ \E other \in Returned(systemInfo) : sharedInfo' = Assign(sharedInfo, other)
  /\ called' = FALSE /\ _infoText' = <<>> /\ looked' = 0
  /\ systemInfo' = NewSystemInfo

InfoNext == Call \/ Line \/ Return

InfoSpec == InfoInit /\ [][InfoNext]_infoVars

-----------------------------------------------------------------------------
(* What an answer says *)

\* A line as the container prints it: indented, a label at l, a gap, and a text
\* of words with single blanks between them, which begins at v.
TextAt(line, l, v) ==
  /\ l \in 1..v - 3 /\ v <= Len(line)
  /\ \A k \in 1..v - 1 : line[k] # BLANK <=> k = l
  /\ line[v] # BLANK /\ line[Len(line)] # BLANK
  /\ \A k \in v..Len(line) - 1 : BLANK # line[k] \/ BLANK # line[k + 1]

Printed(line) == \E l, v \in 1..Len(line) : TextAt(line, l, v)

\* No two blanks in a row: a heading, or nothing.
Plain(line) == \A k \in 1..Len(line) - 1 : BLANK # line[k] \/ BLANK # line[k + 1]

\* What a printed line says of a label; nothing if a character is not taken.
Says(line, label) ==
  { SubSeq(line, v, Len(line)) :
      v \in {v \in 1..Len(line) : (\E l \in 1..v : TextAt(line, l, v) /\ line[l] = label)
                                   /\ \A k \in 1..Len(line) : line[k] \in {BLANK} \cup Labels \cup Letters \cup Values} }

\* Of the lines looked at so far, those that say something of a label.
Telling(label) == {k \in 1..looked : Says(_infoText[k], label) # {}}

\* Every field holds what the lines looked at say of it, and nothing of an
\* earlier answer: of several lines the last one counts, and collectors are
\* listed one after the other.
FieldsFollowAnswer ==
  (\A k \in 1..looked : Printed(_infoText[k]) \/ Plain(_infoText[k])) =>
    \A f \in fields :
      LET telling == Telling(f[1])
          field   == systemInfo[f[2]]
      IN  IF f[2] = "garbageCollector"
          THEN /\ Len(field) = Cardinality(telling)
               /\ \A k \in telling : field[Cardinality(telling \cap 1..k)] \in Says(_infoText[k], f[1])
          ELSE \/ telling = {} /\ field = <<>>
               \/ \E k \in telling : /\ \A j \in telling : j <= k
                                     /\ field \in {<<text>> : text \in Says(_infoText[k], f[1])}

\* However blanks are strewn, what a field holds was written on a line that
\* begins with its label, behind the label.
NothingMisfiled ==
  \A f \in fields : \A n \in DOMAIN systemInfo[f[2]] : \E k \in 1..looked :
    \E l \in 1..Len(_infoText[k]) :
      /\ _infoText[k][l] = f[1]
      /\ \A j \in 1..l - 1 : _infoText[k][j] = BLANK
      /\ \E a, z \in l + 1..Len(_infoText[k]) : systemInfo[f[2]][n] = SubSeq(_infoText[k], a, z)

=============================================================================
