--------------------------- MODULE RequestHandler ---------------------------
(***************************************************************************)
(* The request handler: request_handler.cpp, with the stock replies of     *)
(* reply.cpp and the table of mime_types.cpp.  It gets the uri of a        *)
(* request the parser has accepted, decodes it character by character,     *)
(* and answers with a file below doc_root_ or with a stock reply.          *)
(* Characters are their codes, as in RequestParser.                        *)
(***************************************************************************)
EXTENDS Integers, Sequences, FiniteSets

CONSTANT Uris \* of requests that may come

Char == -128..127

\* What the parser lets into a uri: neither blanks nor control characters.
UriChars == Char \ (0..32 \cup {127})

ASSUME UrisAssumption == Uris \subseteq Seq(UriChars)

VARIABLES
  uri,          \* of the request that is handled
  i,            \* how much of it url_decode has done
  request_path, \* what url_decode has made of that
  status,       \* of the reply, "none" while url_decode is at work
  full_path,    \* the name that was opened, without doc_root_ before it
  content_type  \* of the reply

vars == <<uri, i, request_path, status, full_path, content_type>>

PERCENT == 37
PLUS    == 43
MINUS   == 45
DOT     == 46
SLASH   == 47

index_html == <<105, 110, 100, 101, 120, 46, 104, 116, 109, 108>>

-----------------------------------------------------------------------------
(* url_decode *)

HexDigits == 48..57 \cup 65..70 \cup 97..102

Digit(c) == IF c \in 48..57 THEN c - 48 ELSE IF c \in 65..70 THEN c - 55 ELSE c - 87

\* static_cast<char>
AsChar(n) == ((n + 128) % 256) - 128

\* Faulty variant: the first digit counts eight times only.
FaultyValues(a, b) ==
  IF {a, b} \subseteq HexDigits THEN {8 * Digit(a) + Digit(b)} ELSE {}

\* What is >> std::hex reads from a stream of the two characters, if anything:
\* a sign is taken, it stops at the first character that is no digit, and it
\* fails without one or after the prefix 0x.
Values(a, b) ==
  IF a \in HexDigits
  THEN IF b \in HexDigits THEN {16 * Digit(a) + Digit(b)}
       ELSE IF a = 48 /\ b \in {88, 120} THEN {} ELSE {Digit(a)}
  ELSE IF b \in HexDigits /\ a = PLUS THEN {Digit(b)}
  ELSE IF b \in HexDigits /\ a = MINUS THEN {-Digit(b)}
  ELSE {}

\* The values of the escape that follows position k, none if it is cut off.
Escape(s, k) == IF k + 2 <= Len(s) THEN Values(s[k + 1], s[k + 2]) ELSE {}

-----------------------------------------------------------------------------
(* Replies *)

html == <<104, 116, 109, 108>>

mappings ==
  { <<<<103, 105, 102>>, "image/gif">>, <<<<104, 116, 109>>, "text/html">>, <<html, "text/html">>,
    <<<<106, 112, 103>>, "image/jpeg">>, <<<<112, 110, 103>>, "image/png">> }

\* mime_types::extension_to_type
extension_to_type(extension) ==
  IF \E m \in mappings : m[1] = extension
  THEN (CHOOSE m \in mappings : m[1] = extension)[2]
  ELSE "text/plain"

stock_reply(code) == status' = code /\ content_type' = "text/html"

\* Faulty variant: what follows the first dot.
FaultyExtension(path) ==
  IF \E d \in 1..Len(path) : path[d] = DOT
  THEN SubSeq(path, 1 + CHOOSE d \in 1..Len(path) : path[d] = DOT /\ \A k \in 1..d - 1 : path[k] # DOT, Len(path))
  ELSE <<>>

\* What follows the last dot, if that follows the last slash.
Extension(path) ==
  IF \E d \in 1..Len(path) : path[d] = DOT /\ \A k \in d + 1..Len(path) : path[k] # SLASH
  THEN LET last_dot_pos == CHOOSE d \in 1..Len(path) : path[d] = DOT /\ \A k \in d + 1..Len(path) : path[k] # DOT
       IN  SubSeq(path, last_dot_pos + 1, Len(path))
  ELSE <<>>

\* c_str(): the name ends at the first null character.
CStr(s) == SubSeq(s, 1, CHOOSE n \in 0..Len(s) : /\ \A k \in 1..n : s[k] # 0
                                                 /\ n = Len(s) \/ s[n + 1] = 0)

-----------------------------------------------------------------------------

Init ==
  /\ uri \in Uris
  /\ i = 0
  /\ request_path = <<>>
  /\ status = "none"
  /\ full_path = <<>>
  /\ content_type = "none"

\* A turn of the loop of url_decode.
url_decode ==
  /\ status = "none"
  /\ i < Len(uri)
  /\ LET c == uri[i + 1]
     IN  IF c = PERCENT
         THEN IF Escape(uri, i + 1) = {}
              THEN stock_reply("bad_request") /\ UNCHANGED <<i, request_path>>
              ELSE /\ \E v \in Escape(uri, i + 1) : request_path' = Append(request_path, AsChar(v))
                   /\ i' = i + 3
                   /\ UNCHANGED <<status, content_type>>
         ELSE /\ request_path' = Append(request_path, IF c = PLUS THEN 32 ELSE c)
              /\ i' = i + 1
              /\ UNCHANGED <<status, content_type>>
  /\ UNCHANGED <<uri, full_path>>

HasDots(path) == \E k \in 1..Len(path) - 1 : path[k] = DOT /\ path[k + 1] = DOT

\* Faulty variant: any path will do.
FaultyAbsolute(path) == path # <<>>

Absolute(path) == path # <<>> /\ path[1] = SLASH

WithIndex(path) == IF path[Len(path)] = SLASH THEN path \o index_html ELSE path

\* The rest of handle_request; whether there is such a file, or a directory,
\* which opens and reads as empty, is not the handler's to say.
handle_request ==
  /\ status = "none"
  /\ i >= Len(uri)
  /\ IF ~Absolute(request_path) \/ HasDots(request_path)
     THEN stock_reply("bad_request") /\ UNCHANGED full_path
     ELSE /\ full_path' = CStr(WithIndex(request_path))
          /\ \/ status' = "ok" /\ content_type' = extension_to_type(Extension(WithIndex(request_path)))
             \/ stock_reply("not_found")
  /\ UNCHANGED <<uri, i, request_path>>

Next == url_decode \/ handle_request

Spec == Init /\ [][Next]_vars

-----------------------------------------------------------------------------

\* The path never outgrows the uri, which is what out.reserve relies on.
TypeOK ==
  /\ uri \in Seq(UriChars)
  /\ i \in 0..Len(uri)
  /\ request_path \in Seq(Char) /\ Len(request_path) <= i
  /\ status \in {"none", "ok", "bad_request", "not_found"}
  /\ full_path \in Seq(Char)
  /\ content_type \in {"none", "image/gif", "text/html", "image/jpeg", "image/png", "text/plain"}

\* What is opened lies below doc_root_ as far as its name tells: what follows
\* doc_root_ in it begins with a slash and has no two dots in a row, however the uri
\* wrote them and whatever was put behind the path or cut off from it.
OpenedIsInside ==
  full_path # <<>> => full_path[1] = SLASH /\ ~HasDots(full_path)

-----------------------------------------------------------------------------
(* What a uri stands for, said without a loop *)

\* A percent sign is followed by two hexadecimal digits.
ValidEncoding(s) ==
  \A p \in DOMAIN s : s[p] = PERCENT =>
    p + 2 <= Len(s) /\ s[p + 1] \in HexDigits /\ s[p + 2] \in HexDigits

\* The positions where a character begins: those that are not in an escape.
Starts(s) == {p \in 1..Len(s) : \A q \in {p - 1, p - 2} \cap (1..Len(s)) : s[q] # PERCENT}

Code(s, p) == 16 * Digit(s[p + 1]) + Digit(s[p + 2])

StandsFor(s, p) ==
  IF s[p] = PERCENT THEN IF Code(s, p) > 127 THEN Code(s, p) - 256 ELSE Code(s, p)
  ELSE IF s[p] = PLUS THEN 32 ELSE s[p]

Rank(s, p) == Cardinality({q \in Starts(s) : q <= p})

Decoded(s) ==
  [k \in 1..Cardinality(Starts(s)) |-> StandsFor(s, CHOOSE p \in Starts(s) : Rank(s, p) = k)]

HasPart(s, part) == \E k \in 1..Len(s) - Len(part) + 1 : SubSeq(s, k, k + Len(part) - 1) = part
EndsWith(s, part) == \E k \in 1..Len(s) : SubSeq(s, k, Len(s)) = part

\* A uri with a valid encoding is answered by what it stands for: as a bad
\* request exactly if that is no absolute path or has two dots in a row.
ValidIsDecoded ==
  status # "none" /\ ValidEncoding(uri) =>
    /\ request_path = Decoded(uri)
    /\ status = "bad_request" <=>
         Decoded(uri) = <<>> \/ Decoded(uri)[1] # SLASH \/ HasPart(Decoded(uri), <<DOT, DOT>>)

\* A file is sent under the type its own name calls for, unless the name was cut
\* off at a null character: the type comes from the path, the file from its
\* beginning.
TypeFitsName ==
  status = "ok" /\ request_path = CStr(request_path) =>
    LET named == {m \in mappings : EndsWith(full_path, <<DOT>> \o m[1])}
    IN  {content_type} = IF named = {} THEN {"text/plain"} ELSE {m[2] : m \in named}

\* url_decode returns false if the encoding was invalid, and the handler
\* answers that with a bad request (request_handler.h).
InvalidIsRefused ==
  status # "none" /\ ~ValidEncoding(uri) => status = "bad_request"

=============================================================================
