------------------------------ MODULE Exchange ------------------------------
(***************************************************************************)
(* What a connection does with what a client sends: the request parser and *)
(* the request handler, put together by the handler of do_read in          *)
(* connection.cpp.  The uri the request handler gets is the one the parser *)
(* has put into request_, which is why Uris of RequestHandler needs no     *)
(* assumption here.  Nothing of the buffer is looked at after a verdict.   *)
(***************************************************************************)
EXTENDS Integers, Sequences

CONSTANTS
  Inputs,     \* what a client may send
  BufferSize, \* of buffer_
  Words       \* number of values of an int

VARIABLES
  state_, request, result, buffer, unsent, seen,             \* of RequestParser
  uri, i, request_path, status, full_path, content_type,     \* of RequestHandler
  stage                                                      \* "reading", "handling", "writing"

parser  == <<state_, request, result, buffer, unsent, seen>>
handler == <<uri, i, request_path, status, full_path, content_type>>

vars == <<parser, handler, stage>>

P == INSTANCE RequestParser

H == INSTANCE RequestHandler WITH Uris <- Seq(P!TextChars \ {P!SP})

ASSUME InputsAssumption == Inputs \subseteq Seq(P!Char)
ASSUME SizeAssumption == BufferSize \in Nat \ {0} /\ Words \in Nat \ {0}

Init ==
  /\ P!Init
  /\ uri = <<>> /\ i = 0 /\ request_path = <<>>
  /\ status = "none" /\ full_path = <<>> /\ content_type = "none"
  /\ stage = "reading"

\* A piece arrives, or parse takes a byte of it; while there is no verdict
\* do_read reads on.
Read ==
  /\ stage = "reading"
  /\ P!Next
  /\ UNCHANGED <<handler, stage>>

\* Faulty variant: what is not bad is handled, although more of it may come.
FaultyAccept ==
  /\ stage = "reading"
  /\ result # "bad" /\ buffer = <<>> /\ request.uri # <<>>
  /\ uri' = request.uri
  /\ stage' = "handling"
  /\ UNCHANGED <<parser, i, request_path, status, full_path, content_type>>

\* handle_request is called.
Accept ==
  /\ stage = "reading"
  /\ result = "good"
  /\ uri' = request.uri
  /\ stage' = "handling"
  /\ UNCHANGED <<parser, i, request_path, status, full_path, content_type>>

\* Faulty variant: a request that was refused is read on.
FaultyForget == stage = "reading" /\ result = "bad" /\ UNCHANGED vars

Refuse ==
  /\ stage = "reading"
  /\ result = "bad"
  /\ H!stock_reply("bad_request")
  /\ stage' = "writing"
  /\ UNCHANGED <<parser, uri, i, request_path, full_path>>

\* A turn of url_decode, or the rest of handle_request; do_write follows.
Handle ==
  /\ stage = "handling"
  /\ H!Next
  /\ stage' = IF status' = "none" THEN stage ELSE "writing"
  /\ UNCHANGED parser

Next == Read \/ Accept \/ Refuse \/ Handle

\* A client sends all it has, and the connection's thread is scheduled.
Spec == Init /\ [][Next]_vars /\ WF_vars(Next)

-----------------------------------------------------------------------------

TypeOK ==
  /\ P!TypeOK
  /\ H!TypeOK
  /\ stage \in {"reading", "handling", "writing"}
  /\ stage = "writing" <=> status # "none"

\* Whatever a client sends, in whatever pieces, what is opened for it lies
\* below doc_root_, and nothing is opened for a request that was not accepted.
OpenedIsInside ==
  full_path # <<>> => result = "good" /\ H!OpenedIsInside

\* A uri is handled once its request was accepted, and is then, byte by byte,
\* what the client sent between two blanks, however the bytes came.
HandledIsSent ==
  stage = "handling" \/ full_path # <<>> =>
    /\ result = "good"
    /\ \E m \in 1..Len(seen) :
         /\ m + Len(uri) + 1 <= Len(seen)
         /\ seen[m] = P!SP /\ seen[m + Len(uri) + 1] = P!SP
         /\ \A k \in 1..Len(uri) : seen[m + k] = uri[k]

\* An answer fits the bytes that came: it is a bad request for what is not
\* well-formed and for a uri that names nothing below the root, and what is
\* opened otherwise is what the uri stands for.  What becomes of a uri with an
\* encoding that is not valid is RequestHandler's.
AnswerFits ==
  stage = "writing" =>
    IF ~P!WellFormed(seen) THEN status = "bad_request" /\ full_path = <<>>
    ELSE LET u == P!MethodAndUri(seen).uri
             path == H!Decoded(u)
         IN  H!ValidEncoding(u) =>
               /\ status = "bad_request" <=>
                    path = <<>> \/ path[1] # H!SLASH \/ H!HasPart(path, <<H!DOT, H!DOT>>)
               /\ status # "bad_request" => full_path = H!CStr(H!WithIndex(path))

\* All that was sent has been looked at, and nothing it begins with is a request.
NoRequestSent ==
  /\ unsent = <<>> /\ buffer = <<>>
  /\ \A n \in 0..Len(seen) : ~P!WellFormed(SubSeq(seen, 1, n))

\* A client is answered unless what it has sent, all of it, begins with no request:
\* the parser, the decoder and do_read between them never wait for more when a
\* whole request is there, in whatever pieces it came.
Answered == stage = "reading" ~> stage = "writing" \/ NoRequestSent

=============================================================================
