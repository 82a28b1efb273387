--------------------------- MODULE RequestParser ---------------------------
(***************************************************************************)
(* The request parser: request_parser.cpp, and parse of request_parser.h,  *)
(* as connection::do_read uses it.  A client's bytes arrive in pieces of   *)
(* any size up to the buffer's; the parser takes them one at a time, puts  *)
(* them into the request and stops at the first verdict.  Characters are   *)
(* their codes; char is signed, so what is not ASCII is negative.          *)
(***************************************************************************)
EXTENDS Integers, Sequences, RequestGrammar

CONSTANTS
  Inputs,     \* what a client may send
  BufferSize, \* of buffer_ in connection.h
  Words       \* number of values of an int, 2^32

Char == -128..127

ASSUME InputsAssumption == Inputs \subseteq Seq(Char)
ASSUME SizeAssumption == BufferSize \in Nat \ {0} /\ Words \in Nat \ {0}

VARIABLES
  state_,  \* of the parser
  request, \* what it has put into request_
  result,  \* of the last call of consume
  buffer,  \* bytes of the current piece that consume has not had
  unsent,  \* bytes that have not arrived
  seen     \* bytes consume has had; kept for the properties only

vars == <<state_, request, result, buffer, unsent, seen>>

TAB == 9
LF  == 10
CR  == 13
SP  == 32

\* Faulty variants: delete is no control character, the slash is not special.
FaultyIsCtl(c)      == c \in 0..31
FaultyIsTspecial(c) == c \in {SP, TAB, 34, 40, 41, 44} \cup 58..64 \cup 91..93 \cup {123, 125}

is_char(c)     == c \in 0..127
is_ctl(c)      == c \in 0..31 \cup {127}
is_tspecial(c) == c \in {SP, TAB, 34, 40, 41, 44, 47} \cup 58..64 \cup 91..93 \cup {123, 125}
is_digit(c)    == c \in 48..57

IsToken(c) == is_char(c) /\ ~is_ctl(c) /\ ~is_tspecial(c)

HeaderStates ==
  {"header_line_start", "header_lws", "header_name", "space_before_header_value",
   "header_value", "expecting_newline_2", "expecting_newline_3"}
RequestLineStates ==
  {"method_start", "method", "uri", "http_version_h", "http_version_t_1", "http_version_t_2",
   "http_version_p", "http_version_slash", "http_version_major_start", "http_version_major",
   "http_version_minor_start", "http_version_minor", "expecting_newline_1"}

\* The moves of consume from s to next with c.
InRequestLine(s, c, next) ==
  \/ s \in {"method_start", "method"} /\ IsToken(c) /\ next = "method"
  \/ s = "method" /\ c = SP /\ next = "uri"
  \/ s = "uri" /\ c = SP /\ next = "http_version_h"
  \/ s = "uri" /\ c # SP /\ ~is_ctl(c) /\ next = "uri"
  \/ s = "http_version_h" /\ c = 72 /\ next = "http_version_t_1"
  \/ s = "http_version_t_1" /\ c = 84 /\ next = "http_version_t_2"
  \/ s = "http_version_t_2" /\ c = 84 /\ next = "http_version_p"
  \/ s = "http_version_p" /\ c = 80 /\ next = "http_version_slash"
  \/ s = "http_version_slash" /\ c = 47 /\ next = "http_version_major_start"
  \/ s \in {"http_version_major_start", "http_version_major"} /\ is_digit(c) /\ next = "http_version_major"
  \/ s = "http_version_major" /\ c = 46 /\ next = "http_version_minor_start"
  \/ s \in {"http_version_minor_start", "http_version_minor"} /\ is_digit(c) /\ next = "http_version_minor"
  \/ s = "http_version_minor" /\ c = CR /\ next = "expecting_newline_1"
  \/ s = "expecting_newline_1" /\ c = LF /\ next = "header_line_start"

\* The same from header_line_start on; folded says whether there is a header
\* that a line starting with a blank can continue.
InHeaders(s, c, folded, next) ==
  \/ s = "header_line_start" /\ c = CR /\ next = "expecting_newline_3"
  \/ s = "header_line_start" /\ folded /\ c \in {SP, TAB} /\ next = "header_lws"
  \/ s \in {"header_line_start", "header_name"} /\ IsToken(c) /\ next = "header_name"
  \/ s = "header_lws" /\ c \in {SP, TAB} /\ next = "header_lws"
  \/ s \in {"header_lws", "header_value"} /\ c = CR /\ next = "expecting_newline_2"
  \/ s = "header_lws" /\ c # SP /\ ~is_ctl(c) /\ next = "header_value"
  \/ s = "header_name" /\ c = 58 /\ next = "space_before_header_value"
  \/ s = "space_before_header_value" /\ c = SP /\ next = "header_value"
  \/ s = "header_value" /\ ~is_ctl(c) /\ next = "header_value"
  \/ s = "expecting_newline_2" /\ c = LF /\ next = "header_line_start"
  \/ s = "expecting_newline_3" /\ c = LF /\ next = "good"

\* Faulty variant: a blank continues a header that need not exist.
FaultyMoves(s, c, headers, next) ==
  InRequestLine(s, c, next) \/ InHeaders(s, c, TRUE, next)

Moves(s, c, headers, next) ==
  InRequestLine(s, c, next) \/ InHeaders(s, c, headers # <<>>, next)

\* A character that no move takes is bad.
Targets(s, c, headers) ==
  LET targets == {n \in RequestLineStates \cup HeaderStates \cup {"good"} : Moves(s, c, headers, n)}
  IN  IF targets = {} THEN {"bad"} ELSE targets

-----------------------------------------------------------------------------
(* What consume puts into the request on its way from s to next *)

\* Faulty variant: the digits are added up.
FaultyShifted(n, c) == ((n + c - 48 + Words \div 2) % Words) - Words \div 2

\* n * 10 + c - '0' in an int.  An overflow is undefined; it wraps, as it does in
\* what compilers make of this.
Shifted(n, c) == ((n * 10 + c - 48 + Words \div 2) % Words) - Words \div 2

Version(n, s, next, c, start, digits) ==
  IF s = "http_version_slash" /\ next = "http_version_major_start" THEN 0
  ELSE IF s \in {start, digits} /\ next = digits THEN Shifted(n, c) ELSE n

AppendToLast(headers, field, c) ==
  [headers EXCEPT ![Len(headers)][field] = Append(@, c)]

Headers(headers, s, next, c) ==
  IF s = "header_line_start" /\ next = "header_name" THEN Append(headers, [name |-> <<c>>, value |-> <<>>])
  ELSE IF s = "header_name" /\ next = "header_name" THEN AppendToLast(headers, "name", c)
  ELSE IF s \in {"header_lws", "header_value"} /\ next = "header_value" THEN AppendToLast(headers, "value", c)
  ELSE headers

Method(m, s, next, c) == IF next = "method" THEN Append(m, c) ELSE m

Stored(r, s, next, c) ==
  [ method |-> Method(r.method, s, next, c),
    uri    |-> IF s = "uri" /\ next = "uri" THEN Append(r.uri, c) ELSE r.uri,
    major  |-> Version(r.major, s, next, c, "http_version_major_start", "http_version_major"),
    minor  |-> Version(r.minor, s, next, c, "http_version_minor_start", "http_version_minor"),
    headers |-> Headers(r.headers, s, next, c) ]

-----------------------------------------------------------------------------

\* The version is not initialised by the code; it is set before it is read.
Init ==
  /\ state_ = "method_start"
  /\ request = [method |-> <<>>, uri |-> <<>>, major |-> 0, minor |-> 0, headers |-> <<>>]
  /\ result = "indeterminate"
  /\ buffer = <<>>
  /\ unsent \in Inputs
  /\ seen = <<>>

\* async_read_some has read n bytes and parse is called with them.
ReadCompletes(n) ==
  /\ result = "indeterminate"
  /\ buffer = <<>>
  /\ n <= Len(unsent)
  /\ buffer' = SubSeq(unsent, 1, n)
  /\ unsent' = SubSeq(unsent, n + 1, Len(unsent))
  /\ UNCHANGED <<state_, request, result, seen>>

\* One turn of the loop of parse; after a verdict the rest is left where it is.
consume ==
  /\ result = "indeterminate"
  /\ buffer # <<>>
  /\ \E next \in Targets(state_, Head(buffer), request.headers) :
       /\ result' = IF next \in {"good", "bad"} THEN next ELSE "indeterminate"
       /\ state_' = IF next \in {"good", "bad"} THEN state_ ELSE next
       /\ request' = Stored(request, state_, next, Head(buffer))
  /\ seen' = Append(seen, Head(buffer))
  /\ buffer' = Tail(buffer)
  /\ UNCHANGED unsent

Next == consume \/ \E n \in 1..BufferSize : ReadCompletes(n)

Spec == Init /\ [][Next]_vars

-----------------------------------------------------------------------------

TokenChars == (33..126) \ ({34, 40, 41, 44, 47} \cup 58..64 \cup 91..93 \cup {123, 125})
TextChars  == Char \ (0..31 \cup {127})
IntValues  == -(Words \div 2) .. Words - Words \div 2 - 1

Request ==
  [ method : Seq(TokenChars), uri : Seq(TextChars \ {SP}), major : IntValues, minor : IntValues,
    headers : Seq([name : Seq(TokenChars) \ {<<>>}, value : Seq(TextChars)]) ]

\* No control character gets into the request, nor a blank into what names
\* things in it, and every header has a name, whatever the client sends.
TypeOK ==
  /\ state_ \in RequestLineStates \cup HeaderStates
  /\ request \in Request
  /\ result \in {"good", "bad", "indeterminate"}
  /\ buffer \in Seq(Char) /\ unsent \in Seq(Char) /\ seen \in Seq(Char)

\* Wherever consume calls headers.back() there is a header: a continuation line
\* can follow a header, or the continuation of one, and never the request line.
BackIsDefined ==
  state_ \in {"header_lws", "header_name", "space_before_header_value", "header_value", "expecting_newline_2"}
    => request.headers # <<>>

\* The parser accepts exactly the well-formed requests, and refuses a request at
\* the first character that nothing can mend: it neither waits for more of a
\* request that is lost nor refuses one that could still become well-formed.  It
\* does not depend on the pieces the request came in.
VerdictIsPrompt ==
  /\ result = "good" => WellFormed(seen)
  /\ result = "bad" => ~WellFormed(seen) /\ ~Hopeful(seen)
  /\ result = "indeterminate" => ~WellFormed(seen) /\ Hopeful(seen)

\* What the parser has put into an accepted request is what that says: folded
\* values joined, versions as an int holds them.
GoodIsMeaning == result = "good" => request = Meaning(seen, Words)

=============================================================================
