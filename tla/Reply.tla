------------------------------- MODULE Reply -------------------------------
(***************************************************************************)
(* A reply from the file to the client: the end of handle_request, which   *)
(* reads the opened file in chunks, reply.cpp, which makes stock replies   *)
(* and lays a reply out in buffers, and async_write in do_write, which     *)
(* sends the buffers in pieces of any size.                                *)
(* What is sent is a sequence of symbols: an octet of the content, or a    *)
(* text of the reply's own (a status, a header's name or value, the        *)
(* separator), which holds neither CR nor LF.                              *)
(***************************************************************************)
EXTENDS Integers, Sequences

CONSTANTS
  Files,    \* contents of files that may be opened, as octets
  BufSize,  \* sizeof(buf)
  Types     \* content types

Octet(o)  == <<"octet", o>>
Text(t)   == <<"text", t>>
Number(n) == <<"number", n>>

CR == Octet("CR")
LF == Octet("LF")

Statuses ==
  { "ok", "created", "accepted", "no_content", "multiple_choices", "moved_permanently",
    "moved_temporarily", "not_modified", "bad_request", "unauthorized", "forbidden",
    "not_found", "internal_server_error", "not_implemented", "bad_gateway",
    "service_unavailable" }

\* What the texts of a reply say.
Words == Statuses \cup Types \cup {"Content-Length", "Content-Type", "text/html", ": "}

Octets == {Octet(o) : o \in {"CR", "LF", "a", "b"} \cup Statuses}

ASSUME FilesAssumption == Files \subseteq Seq(Octets)
ASSUME SizeAssumption == BufSize \in Nat \ {0}

VARIABLES
  phase,   \* "handling", "reading", "sending"
  file,    \* what the opened file holds
  changed, \* it has been written to since it was opened
  offset,  \* how much of it the stream has delivered
  stream,  \* "good", "ended" by its end, "failed" by an error, "none" without a file
  status, headers, content, \* of the reply
  type,    \* of the file, by its extension
  sent     \* what the client has been sent

vars == <<phase, file, changed, offset, stream, status, headers, content, type, sent>>

Init ==
  /\ phase = "handling"
  /\ file \in Files
  /\ changed = FALSE
  /\ offset = 0
  /\ stream = "none"
  /\ status = "none" /\ headers = <<>> /\ content = <<>>
  /\ type \in Types
  /\ sent = <<>>

-----------------------------------------------------------------------------
(* The reply *)

\* Faulty variant: the name is not changed in the second header.
FaultyHeaders(size, t) ==
  << [name |-> "Content-Length", value |-> Number(size)],
     [name |-> "Content-Length", value |-> Text(t)] >>

Headers(size, t) ==
  << [name |-> "Content-Length", value |-> Number(size)],
     [name |-> "Content-Type", value |-> Text(t)] >>

\* The page that names the status; there is none for ok.
stock_content(s) ==
  IF s = "ok" THEN <<>>
  ELSE <<Octet(IF s \in Statuses THEN s ELSE "internal_server_error")>>

\* A request that is not answered with a file.
StockReply ==
  /\ phase = "handling"
  /\ status' \in {"bad_request", "not_found"}
  /\ content' = stock_content(status')
  /\ headers' = Headers(Len(content'), "text/html")
  /\ phase' = "sending"
  /\ UNCHANGED <<file, changed, offset, stream, type, sent>>

Open ==
  /\ phase = "handling"
  /\ stream' = "good"
  /\ status' = "ok"
  /\ phase' = "reading"
  /\ UNCHANGED <<file, changed, offset, headers, content, type, sent>>

Least(a, b) == IF a < b THEN a ELSE b

\* What is.read(buf, sizeof(buf)) leaves in buf.
Delivered(n) == SubSeq(file, offset + 1, offset + n)

\* Where the stream is after it.
After(n) == offset + n

\* Faulty variant: the loop asks the stream, and not how much it delivered.
FaultyGoesOn(n) == n = BufSize

\* gcount() > 0
GoesOn(n) == n > 0

\* Faulty variant: the headers are filled out before the file is read.
FaultyLength == 0

\* rep.content.size()
Length == Len(content)

\* A turn of the loop in which the stream fills the buffer or comes to its end,
\* which is how it knows of the end at all: it delivers nothing after that.
\* The turn that finds nothing leaves the loop for the headers.
Read(n, end) ==
  /\ phase = "reading"
  /\ stream' = end
  /\ offset' = After(n)
  /\ IF GoesOn(n)
     THEN /\ content' = content \o Delivered(n)
          /\ UNCHANGED <<phase, headers>>
     ELSE /\ headers' = Headers(Length, type)
          /\ phase' = "sending"
          /\ UNCHANGED content
  /\ UNCHANGED <<file, changed, status, type, sent>>

Rest == IF offset < Len(file) THEN Len(file) - offset ELSE 0

ReadChunk ==
  \/ stream = "good" /\ Rest >= BufSize /\ Read(BufSize, "good")
  \/ stream = "good" /\ Rest < BufSize /\ Read(Rest, "ended")
  \/ stream \in {"ended", "failed"} /\ Read(0, stream)

\* The file cannot be read on; what came before the error is delivered.
ReadFails ==
  /\ stream = "good"
  /\ \E n \in 0..Least(BufSize - 1, Rest) : Read(n, "failed")

\* Somebody writes to the file, or cuts it.
Change ==
  /\ stream = "good"
  /\ file' \in Files
  /\ changed' = TRUE
  /\ UNCHANGED <<phase, offset, stream, status, headers, content, type, sent>>

-----------------------------------------------------------------------------
(* Sending it *)

StatusLine(s) == Text(IF s \in Statuses THEN s ELSE "internal_server_error")

\* What to_buffers lays before the content; resize has made two headers.
ReplyHead ==
  << StatusLine(status), CR, LF,
     Text(headers[1].name), Text(": "), headers[1].value, CR, LF,
     Text(headers[2].name), Text(": "), headers[2].value, CR, LF,
     CR, LF >>

ToBuffers == ReplyHead \o content

\* async_write sends some of what is left of the buffers.
Send ==
  /\ phase = "sending"
  /\ \E n \in Len(sent) + 1..Len(ToBuffers) : sent' = SubSeq(ToBuffers, 1, n)
  /\ UNCHANGED <<phase, file, changed, offset, stream, status, headers, content, type>>

Next == StockReply \/ Open \/ ReadChunk \/ ReadFails \/ Change \/ Send

Spec == Init /\ [][Next]_vars

-----------------------------------------------------------------------------
(* The client *)

\* Where the first empty line ends.
EmptyLine(s, p) ==
  /\ p \in 4..Len(s)
  /\ s[p - 3] = CR /\ s[p - 2] = LF /\ s[p - 1] = CR /\ s[p] = LF

HeadEnds(s, p) == EmptyLine(s, p) /\ \A q \in 4..p - 1 : ~EmptyLine(s, q)

\* The header named is in the head and has the value.
HasHeader(s, p, name, value) ==
  \E k \in 3..p - 3 : s[k - 1] = LF /\ s[k] = Text(name) /\ s[k + 2] = value

\* The client takes the reply for a whole one.
Whole(s) ==
  \E p \in 4..Len(s) : HeadEnds(s, p) /\ HasHeader(s, p, "Content-Length", Number(Len(s) - p))

-----------------------------------------------------------------------------

TypeOK ==
  /\ phase \in {"handling", "reading", "sending"}
  /\ file \in Files
  /\ changed \in BOOLEAN
  /\ offset \in Nat /\ (~changed => offset <= Len(file))
  /\ stream \in {"none", "good", "ended", "failed"}
  /\ status \in {"none"} \cup Statuses
  /\ content \in Seq(Octets)
  /\ type \in Types
  /\ headers \in Seq([name : Words, value : ({"number"} \X Nat) \cup ({"text"} \X Words)])
  /\ sent # <<>> => phase = "sending" /\ sent = SubSeq(ToBuffers, 1, Len(sent))

\* The whole file is sent, whatever its length is to the buffer's, unless it
\* was written to or could not be read (handle_request's loop).
WholeFile ==
  phase = "sending" /\ stream = "ended" /\ ~changed => content = file

\* A client can tell a reply that was cut off, by a failed write or by the
\* server's stop, from one that has come whole: exactly all of it has the
\* length its header says, whatever line ends the content has, and also when the
\* file was changed while it was read.
CutIsNoticed ==
  phase = "sending" => (Whole(sent) <=> sent = ToBuffers)

\* What follows the first empty line is the content, and the head is the
\* reply's: status and type reach the client as the handler set them.
ReceivedIsReply ==
  Whole(sent) =>
    \E p \in 4..Len(sent) :
      /\ HeadEnds(sent, p)
      /\ SubSeq(sent, p + 1, Len(sent)) = content
      /\ sent[1] = Text(status)
      /\ HasHeader(sent, p, "Content-Type", Text(IF status = "ok" THEN type ELSE "text/html"))

=============================================================================
