------------------------ MODULE RequestParserProofs ------------------------
(***************************************************************************)
(* Theorems about RequestParser for whatever a client sends, any size of   *)
(* the buffer and any width of an int.                                     *)
(***************************************************************************)
EXTENDS RequestParser, SequenceTheorems, WellFoundedInduction, TLAPS

HeaderType == [name : Seq(TokenChars) \ {<<>>}, value : Seq(TextChars)]

\* The states in which consume may write to the last header.
Inside == {"header_lws", "header_name", "space_before_header_value", "header_value", "expecting_newline_2"}

\* What the parser's tests of characters let through.
LEMMA Characters ==
  ASSUME NEW c \in Char
  PROVE  /\ IsToken(c) => c \in TokenChars
         /\ ~is_ctl(c) => c \in TextChars
BY DEF IsToken, is_char, is_ctl, is_tspecial, TokenChars, TextChars, Char, SP, TAB

-----------------------------------------------------------------------------
(* Where consume can go *)

\* The moves within the request line.
LEMMA RequestLineMoves ==
  ASSUME NEW s, NEW c \in Char, NEW next, InRequestLine(s, c, next)
  PROVE  /\ s \in RequestLineStates
         /\ next \in (RequestLineStates \cup {"header_line_start"}) \ {"method_start"}
         /\ next = "method" => s \in {"method_start", "method"} /\ IsToken(c)
         /\ next = "uri" => (s = "method" /\ c = SP) \/ (s = "uri" /\ c # SP /\ ~is_ctl(c))
         /\ s \in {"method_start", "method"} => next \in {"method", "uri"}
         /\ s = "uri" => next = "uri" \/ (next = "http_version_h" /\ c = SP)
BY DEF InRequestLine, RequestLineStates

\* The moves within the headers.
LEMMA HeaderMoves ==
  ASSUME NEW s, NEW c \in Char, NEW folded \in BOOLEAN, NEW next, InHeaders(s, c, folded, next)
  PROVE  /\ s \in HeaderStates
         /\ next \in HeaderStates \cup {"good"}
         /\ next = "header_name" => s \in {"header_line_start", "header_name"} /\ IsToken(c)
         /\ next = "header_value" /\ s # "space_before_header_value" =>
              s \in {"header_lws", "header_value"} /\ ~is_ctl(c)
         /\ next \in Inside => s \in Inside \/ folded \/ next = "header_name"
BY DEF InHeaders, HeaderStates, Inside, SP

-----------------------------------------------------------------------------
(* What a move puts into the request *)

\* A digit more, and the version is still one an int can hold.
LEMMA ShiftedType ==
  ASSUME NEW n \in IntValues, NEW c \in Char
  PROVE  Shifted(n, c) \in IntValues
<1> DEFINE w == Words
           h == Words \div 2
           x == n * 10 + c - 48 + h
<1>1. w \in Nat \ {0} /\ h \in Int
  BY SizeAssumption
<1>2. x \in Int
  BY <1>1 DEF IntValues, Char
<1>3. x % w \in 0..w - 1
  BY <1>1, <1>2
<1> HIDE DEF x, w, h
<1>4. (x % w) - h \in -h..w - h - 1
  BY <1>1, <1>3
<1> QED
  BY <1>4 DEF x, w, h, Shifted, IntValues

LEMMA AppendToLastType ==
  ASSUME NEW headers \in Seq(HeaderType), headers # <<>>, NEW c \in Char,
         NEW field, \/ field = "name" /\ c \in TokenChars
                    \/ field = "value" /\ c \in TextChars
  PROVE  AppendToLast(headers, field, c) \in Seq(HeaderType)
<1> DEFINE n == Len(headers)
           last == headers[n]
           new == [last EXCEPT ![field] = Append(@, c)]
<1>1. n \in 1..Len(headers)
  BY EmptySeq, LenProperties
<1>2. last \in HeaderType
  BY <1>1, ElementOfSeq
<1>3. CASE field = "name"
  <2>0. last.name \in Seq(TokenChars) /\ c \in TokenChars
    BY <1>2, <1>3 DEF HeaderType
  <2>1. Append(last.name, c) \in Seq(TokenChars) \ {<<>>}
    BY <2>0, AppendProperties
  <2>2. new \in HeaderType
    BY <1>2, <1>3, <2>1 DEF HeaderType
  <2> QED
    BY <1>1, <2>2, ExceptSeq DEF AppendToLast
<1>4. CASE field = "value"
  <2>0. last.value \in Seq(TextChars) /\ c \in TextChars
    BY <1>2, <1>4 DEF HeaderType
  <2>1. Append(last.value, c) \in Seq(TextChars)
    BY <2>0, AppendProperties
  <2>2. new \in HeaderType
    BY <1>2, <1>4, <2>1 DEF HeaderType
  <2> QED
    BY <1>1, <2>2, ExceptSeq DEF AppendToLast
<1> QED
  BY <1>3, <1>4

\* After any move the headers are headers, and are there where back() is used.
LEMMA HeadersType ==
  ASSUME NEW headers \in Seq(HeaderType), NEW s, NEW c \in Char, NEW next,
         s \in Inside => headers # <<>>,
         Moves(s, c, headers, next)
  PROVE  /\ Headers(headers, s, next, c) \in Seq(HeaderType)
         /\ next \in Inside => Headers(headers, s, next, c) # <<>>
<1> DEFINE folded == headers # <<>>
<1>1. InRequestLine(s, c, next) \/ InHeaders(s, c, folded, next)
  BY DEF Moves
<1>2. CASE InRequestLine(s, c, next)
  <2>1. s \in RequestLineStates /\ next \in RequestLineStates \cup {"header_line_start"}
    BY <1>2, RequestLineMoves
  <2>2. Headers(headers, s, next, c) = headers /\ next \notin Inside
    BY <2>1 DEF Headers, RequestLineStates, Inside
  <2> QED
    BY <2>2
<1>3. CASE InHeaders(s, c, folded, next)
  <2>0. folded \in BOOLEAN
    OBVIOUS
  <2>1. /\ next = "header_name" => s \in {"header_line_start", "header_name"} /\ IsToken(c)
        /\ next = "header_value" /\ s # "space_before_header_value" =>
             s \in {"header_lws", "header_value"} /\ ~is_ctl(c)
        /\ next \in Inside => s \in Inside \/ folded \/ next = "header_name"
    BY <1>3, <2>0, HeaderMoves
  <2> HIDE DEF folded
  <2>2. CASE next = "header_name" /\ s = "header_line_start"
    <3> DEFINE new == [name |-> <<c>>, value |-> <<>>]
    <3>1. <<c>> \in Seq(TokenChars) /\ <<c>> # <<>>
      BY <2>1, <2>2, Characters
    <3>2. <<>> \in Seq(TextChars)
      BY EmptySeq
    <3>3. new \in HeaderType
      BY <3>1, <3>2 DEF HeaderType
    <3>4. Headers(headers, s, next, c) = Append(headers, new)
      BY <2>2 DEF Headers
    <3> HIDE DEF new
    <3> QED
      BY <3>3, <3>4, AppendProperties
  <2>3. CASE next = "header_name" /\ s = "header_name"
    <3>1. Headers(headers, s, next, c) = AppendToLast(headers, "name", c)
      BY <2>3 DEF Headers
    <3>2. headers # <<>> /\ c \in TokenChars
      BY <2>1, <2>3, Characters DEF Inside
    <3>3. AppendToLast(headers, "name", c) \in Seq(HeaderType)
      BY <3>2, AppendToLastType
    <3>4. Len(AppendToLast(headers, "name", c)) = Len(headers)
      BY <3>2, <3>3, LenProperties DEF AppendToLast
    <3> QED
      BY <3>1, <3>2, <3>3, <3>4, EmptySeq, LenProperties
  <2>4. CASE next = "header_value" /\ s # "space_before_header_value"
    <3>1. Headers(headers, s, next, c) = AppendToLast(headers, "value", c)
      BY <2>1, <2>4 DEF Headers
    <3>2. headers # <<>> /\ c \in TextChars
      BY <2>1, <2>4, Characters DEF Inside
    <3>3. AppendToLast(headers, "value", c) \in Seq(HeaderType)
      BY <3>2, AppendToLastType
    <3>4. Len(AppendToLast(headers, "value", c)) = Len(headers)
      BY <3>2, <3>3, LenProperties DEF AppendToLast
    <3> QED
      BY <3>1, <3>2, <3>3, <3>4, EmptySeq, LenProperties
  <2>5. CASE next # "header_name" /\ (next = "header_value" => s = "space_before_header_value")
    <3>1. Headers(headers, s, next, c) = headers
      BY <2>5 DEF Headers
    <3>2. next \in Inside => s \in Inside \/ headers # <<>>
      BY <2>1, <2>5 DEF folded
    <3> QED
      BY <3>1, <3>2
  <2> QED
    BY <2>1, <2>2, <2>3, <2>4, <2>5
<1> QED
  BY <1>1, <1>2, <1>3

\* Whatever a move stores, the request stays a request.
LEMMA StoredType ==
  ASSUME NEW r \in Request, NEW s, NEW c \in Char, NEW next,
         s \in Inside => r.headers # <<>>,
         Moves(s, c, r.headers, next)
  PROVE  /\ Stored(r, s, next, c) \in Request
         /\ next \in Inside => Stored(r, s, next, c).headers # <<>>
<1> DEFINE folded == r.headers # <<>>
<1>0. /\ r.method \in Seq(TokenChars) /\ r.uri \in Seq(TextChars \ {SP})
      /\ r.major \in IntValues /\ r.minor \in IntValues
      /\ r.headers \in Seq(HeaderType)
  BY DEF Request, HeaderType
<1>1. /\ next = "method" => c \in TokenChars
      /\ s = "uri" /\ next = "uri" => c \in TextChars \ {SP}
  <2>1. CASE InRequestLine(s, c, next)
    BY <2>1, RequestLineMoves, Characters
  <2>2. CASE InHeaders(s, c, folded, next)
    <3>0. folded \in BOOLEAN
      OBVIOUS
    <3>1. s \in HeaderStates /\ next \in HeaderStates \cup {"good"}
      BY <2>2, <3>0, HeaderMoves
    <3> QED
      BY <3>1 DEF HeaderStates
  <2> QED
    BY <2>1, <2>2 DEF Moves
<1>2. IF next = "method" THEN Append(r.method, c) \in Seq(TokenChars) ELSE r.method \in Seq(TokenChars)
  BY <1>0, <1>1, AppendProperties
<1>3. IF s = "uri" /\ next = "uri" THEN Append(r.uri, c) \in Seq(TextChars \ {SP}) ELSE r.uri \in Seq(TextChars \ {SP})
  BY <1>0, <1>1, AppendProperties
<1>4. 0 \in IntValues
  BY SizeAssumption DEF IntValues
<1>5. \A start, digits : /\ Version(r.major, s, next, c, start, digits) \in IntValues
                         /\ Version(r.minor, s, next, c, start, digits) \in IntValues
  BY <1>0, <1>4, ShiftedType DEF Version
<1>6. /\ Headers(r.headers, s, next, c) \in Seq(HeaderType)
      /\ next \in Inside => Headers(r.headers, s, next, c) # <<>>
  BY <1>0, HeadersType
<1> QED
  BY <1>2, <1>3, <1>5, <1>6 DEF Stored, Method, Request, HeaderType

\* A set of numbers that is not empty has a smallest one.
LEMMA Smallest ==
  ASSUME NEW T \in SUBSET Nat, T # {}
  PROVE  \E k \in T : \A j \in T : k <= j
<1>1. PICK k \in T : \A j \in T : ~ (<<j, k>> \in OpToRel(<, Nat))
  BY WFMin, NatLessThanWellFounded
<1>2. \A j \in T : ~ (j < k)
  BY <1>1 DEF OpToRel
<1> QED
  BY <1>2

-----------------------------------------------------------------------------
(* Texts that agree in the first n places *)

Agree(s, t, n) == \A k \in 1..n : t[k] = s[k]

LEMMA PartsAgree ==
  ASSUME NEW s, NEW t, NEW n \in Int, Agree(s, t, n), NEW a \in Int, a >= 1, NEW z \in Int, z <= n
  PROVE  /\ \A S : All(s, a, z, S) <=> All(t, a, z, S)
         /\ \A S : None(s, a, z, S) <=> None(t, a, z, S)
         /\ Token(s, a, z) <=> Token(t, a, z)
         /\ Text(s, a, z) <=> Text(t, a, z)
<1>1. \A k \in a..z : t[k] = s[k]
  BY DEF Agree
<1> QED
  BY <1>1 DEF All, None, Token, Text

\* A place more.
LEMMA OneMore ==
  ASSUME NEW t, NEW a \in Int, NEW n \in Int, a <= n + 1
  PROVE  /\ \A S : All(t, a, n, S) /\ t[n + 1] \in S => All(t, a, n + 1, S)
         /\ \A S : None(t, a, n, S) /\ t[n + 1] \notin S => None(t, a, n + 1, S)
         /\ Token(t, a, n) /\ t[n + 1] \in (33..126) \ Separators => Token(t, a, n + 1)
         /\ Text(t, a, n) /\ t[n + 1] \notin Controls => Text(t, a, n + 1)
<1>1. \A k \in a..n + 1 : k \in a..n \/ k = n + 1
  OBVIOUS
<1>2. \A S : All(t, a, n, S) /\ t[n + 1] \in S => All(t, a, n + 1, S)
  BY <1>1, Zenon DEF All
<1>3. \A S : None(t, a, n, S) /\ t[n + 1] \notin S => None(t, a, n + 1, S)
  BY <1>1, Zenon DEF None
<1>4. Token(t, a, n) /\ t[n + 1] \in (33..126) \ Separators => Token(t, a, n + 1)
  BY <1>2 DEF Token
<1>5. Text(t, a, n) /\ t[n + 1] \notin Controls => Text(t, a, n + 1)
  BY <1>3 DEF Text
<1> QED
  BY <1>2, <1>3, <1>4, <1>5

LEMMA OneCharacter ==
  ASSUME NEW t, NEW b \in Int, t[b] \in (33..126) \ Separators
  PROVE  Token(t, b, b)
BY DEF Token, All

\* The parser's characters are the grammar's.
LEMMA SameCharacters ==
  ASSUME NEW c \in Char
  PROVE  /\ IsToken(c) <=> c \in (33..126) \ Separators
         /\ is_ctl(c) <=> c \in Controls
         /\ is_digit(c) <=> c \in Digits
BY DEF IsToken, is_char, is_ctl, is_tspecial, is_digit, Separators, Controls, Digits, Char, SP, TAB

LEMMA UriAgrees ==
  ASSUME NEW s, NEW t, NEW n \in Int, Agree(s, t, n), NEW a \in Int, a >= 1,
         NEW i \in Int, a < i, NEW j \in Int, i < j, j <= n + 1
  PROVE  UriAt(s, a, i, j) <=> UriAt(t, a, i, j)
<1>1. t[i] = s[i]
  BY DEF Agree
<1>2. /\ Token(s, a, i - 1) <=> Token(t, a, i - 1)
      /\ Text(s, i + 1, j - 1) <=> Text(t, i + 1, j - 1)
      /\ None(s, i + 1, j - 1, {32}) <=> None(t, i + 1, j - 1, {32})
  BY PartsAgree
<1> QED
  BY <1>1, <1>2 DEF UriAt

LEMMA VersionAgrees ==
  ASSUME NEW s, NEW t, NEW n \in Int, Agree(s, t, n), NEW a \in Int, a >= 1, NEW z \in Int, z <= n
  PROVE  IsVersion(s, a, z) <=> IsVersion(t, a, z)
<1> SUFFICES ASSUME NEW d \in a + 6..z - 1
             PROVE  VersionAt(s, a, d, z) <=> VersionAt(t, a, d, z)
  BY DEF IsVersion
<1>1. t[d] = s[d] /\ (Http(s, a) <=> Http(t, a))
  BY DEF Agree, Http
<1>2. /\ All(s, a + 5, d - 1, Digits) <=> All(t, a + 5, d - 1, Digits)
      /\ All(s, d + 1, z, Digits) <=> All(t, d + 1, z, Digits)
  BY PartsAgree
<1> QED
  BY <1>1, <1>2 DEF VersionAt

LEMMA LinesAgree ==
  ASSUME NEW s, NEW t, NEW n \in Int, Agree(s, t, n), NEW a \in Int, a >= 1, NEW z \in Int, z <= n
  PROVE  /\ IsRequestLine(s, a, z) <=> IsRequestLine(t, a, z)
         /\ IsField(s, a, z) <=> IsField(t, a, z)
         /\ IsContinuation(s, a, z) <=> IsContinuation(t, a, z)
<1>1. ASSUME NEW i \in a + 1..z, NEW j \in a + 1..z
      PROVE  BlanksAt(s, a, i, j, z) <=> BlanksAt(t, a, i, j, z)
  <2>0. i \in Int /\ a < i /\ j \in Int /\ j <= n + 1 /\ j + 1 \in Int /\ j + 1 >= 1
    OBVIOUS
  <2>1. t[j] = s[j]
    BY DEF Agree
  <2>2. i < j => (UriAt(s, a, i, j) <=> UriAt(t, a, i, j))
    BY <2>0, UriAgrees
  <2>3. IsVersion(s, j + 1, z) <=> IsVersion(t, j + 1, z)
    BY <2>0, VersionAgrees
  <2> QED
    BY <2>1, <2>2, <2>3 DEF BlanksAt
<1>2. IsRequestLine(s, a, z) <=> IsRequestLine(t, a, z)
  BY <1>1 DEF IsRequestLine
<1>3. ASSUME NEW i \in a + 1..z - 1
      PROVE  /\ Token(s, a, i - 1) <=> Token(t, a, i - 1)
             /\ t[i] = s[i] /\ t[i + 1] = s[i + 1]
             /\ Text(s, i + 2, z) <=> Text(t, i + 2, z)
  BY PartsAgree DEF Agree
<1>4. ASSUME NEW i \in a..z
      PROVE  /\ All(s, a, i, Blanks) <=> All(t, a, i, Blanks)
             /\ Text(s, i + 1, z) <=> Text(t, i + 1, z)
  BY PartsAgree
<1> QED
  BY <1>2, <1>3, <1>4 DEF IsField, IsContinuation

\* The lines that end in s end in a longer text too.
LEMMA EndsAgree ==
  ASSUME NEW s \in Seq(Char), NEW t \in Seq(Char), Len(s) <= Len(t), Agree(s, t, Len(s))
  PROVE  /\ Ends(s) \subseteq Ends(t)
         /\ \A e \in Ends(t) : e < Len(s) => e \in Ends(s)
<1>1. Len(s) \in Nat /\ Len(t) \in Nat
  BY LenProperties
<1>2. ASSUME NEW e \in 1..Len(s) - 1
      PROVE  e \in 1..Len(t) - 1 /\ t[e] = s[e] /\ t[e + 1] = s[e + 1]
  BY <1>1 DEF Agree
<1>3. Ends(s) \subseteq Ends(t)
  BY <1>2 DEF Ends
<1>4. ASSUME NEW e \in Ends(t), e < Len(s)
      PROVE  e \in Ends(s)
  <2>1. e \in 1..Len(s) - 1 /\ t[e] = 13 /\ t[e + 1] = 10
    BY <1>1, <1>4 DEF Ends
  <2> QED
    BY <1>2, <2>1 DEF Ends
<1> QED
  BY <1>3, <1>4
\* What has been said of an end of s and of its line holds in a longer text.
LEMMA HeaderLinesAgree ==
  ASSUME NEW s \in Seq(Char), NEW t \in Seq(Char), Len(s) <= Len(t), Agree(s, t, Len(s)),
         NEW a \in Ends(s)
  PROVE  /\ EndsFirst(s, a) <=> EndsFirst(t, a)
         /\ \A e \in Ends(s) : EndsNext(s, a, e) <=> EndsNext(t, a, e)
         /\ \A e \in Int : e <= Len(s) + 1 => (IsHeaderLine(s, a, e) <=> IsHeaderLine(t, a, e))
<1>0. Len(s) \in Nat /\ Len(t) \in Nat /\ a \in 1..Len(s) - 1
  BY LenProperties DEF Ends
<1>1. /\ Ends(s) \subseteq Ends(t)
      /\ \A e \in Ends(t) : e < Len(s) => e \in Ends(s)
      /\ \A e \in Ends(t) : e \in Int
      /\ \A e \in Ends(s) : e \in Int /\ e < Len(s)
  BY <1>0, EndsAgree DEF Ends
<1>2. EndsFirst(s, a) <=> EndsFirst(t, a)
  BY <1>0, <1>1 DEF EndsFirst
<1>3. \A e \in Ends(s) : EndsNext(s, a, e) <=> EndsNext(t, a, e)
  BY <1>0, <1>1 DEF EndsNext
<1>4. ASSUME NEW e \in Int, e <= Len(s) + 1
      PROVE  IsHeaderLine(s, a, e) <=> IsHeaderLine(t, a, e)
  <2>1. a + 2 \in Int /\ a + 2 >= 1 /\ e - 1 \in Int /\ e - 1 <= Len(s) /\ Len(s) \in Int
    BY <1>0, <1>4
  <2>2. /\ IsField(s, a + 2, e - 1) <=> IsField(t, a + 2, e - 1)
        /\ IsContinuation(s, a + 2, e - 1) <=> IsContinuation(t, a + 2, e - 1)
    BY <2>1, LinesAgree
  <2> QED
    BY <1>2, <2>2 DEF IsHeaderLine
<1> QED
  BY <1>2, <1>3, <1>4

LEMMA AppendAgrees ==
  ASSUME NEW s \in Seq(Char), NEW c \in Char
  PROVE  /\ Append(s, c) \in Seq(Char)
         /\ Len(s) \in Nat /\ Len(Append(s, c)) = Len(s) + 1
         /\ Append(s, c)[Len(s) + 1] = c
         /\ Agree(s, Append(s, c), Len(s))
BY AppendProperties, LenProperties DEF Agree

-----------------------------------------------------------------------------
(* Where the line begins that a text ends in *)

\* The line that text s ends in begins at b.
Begins(s, b) ==
  \/ b = 1 /\ Ends(s) = {}
  \/ b - 2 \in Ends(s) /\ \A e \in Ends(s) : e <= b - 2

\* A character that ends no line.
LEMMA SameLine ==
  ASSUME NEW s \in Seq(Char), NEW c \in Char, c # 10 \/ Len(s) = 0 \/ s[Len(s)] # 13, LinesFit(s, Len(s))
  PROVE  /\ Ends(Append(s, c)) = Ends(s)
         /\ LinesFit(Append(s, c), Len(Append(s, c)))
<1> DEFINE t == Append(s, c)
           n == Len(s)
<1>0. /\ t \in Seq(Char) /\ n \in Nat /\ Len(t) = n + 1 /\ t[n + 1] = c /\ Agree(s, t, n)
  BY AppendAgrees
<1> HIDE DEF t
<1>1. Ends(t) = Ends(s)
  <2>1. \A e \in Ends(t) : e \in Int /\ e <= n /\ (e = n => t[n] = 13 /\ t[n + 1] = 10 /\ n >= 1)
    BY <1>0 DEF Ends
  <2>2. n >= 1 => t[n] = s[n]
    BY <1>0 DEF Agree
  <2>3. \A e \in Ends(t) : e < n
    BY <1>0, <2>1, <2>2
  <2> QED
    <3>1. Ends(s) \subseteq Ends(t) /\ \A e \in Ends(t) : e < n => e \in Ends(s)
      BY <1>0, EndsAgree
    <3> QED
      BY <2>3, <3>1
<1>2. \A e \in Ends(s) : e \in 1..n - 1
  BY <1>0 DEF Ends
<1>3. ASSUME NEW e \in Ends(t), EndsFirst(t, e)
      PROVE  IsRequestLine(t, 1, e - 1)
  <2>1. IsRequestLine(s, 1, e - 1)
    BY <1>0, <1>1, <1>3, HeaderLinesAgree DEF LinesFit
  <2>2. e - 1 \in Int /\ e - 1 <= n
    BY <1>0, <1>1, <1>2
  <2> QED
    BY <1>0, <2>1, <2>2, LinesAgree
<1>4. ASSUME NEW a \in Ends(t), NEW e \in Ends(t), EndsNext(t, a, e)
      PROVE  IsHeaderLine(t, a, e)
  <2>1. e \in Int /\ e < n /\ e <= n + 1
    BY <1>0, <1>1, <1>2
  <2>2. IsHeaderLine(s, a, e)
    BY <1>0, <1>1, <1>4, <2>1, HeaderLinesAgree DEF LinesFit
  <2> QED
    BY <1>0, <1>1, <2>1, <2>2, HeaderLinesAgree
<1>5. LinesFit(t, Len(t))
  BY <1>3, <1>4 DEF LinesFit
<1> QED
  BY <1>1, <1>5 DEF t

\* The character that ends one.
LEMMA LineEnds ==
  ASSUME NEW s \in Seq(Char), NEW b, Begins(s, b), LinesFit(s, Len(s)),
         Len(s) # 0, s[Len(s)] = 13,
         b = 1 => IsRequestLine(s, 1, Len(s) - 1),
         b # 1 => IsHeaderLine(s, b - 2, Len(s))
  PROVE  /\ LinesFit(Append(s, 10), Len(Append(s, 10)))
         /\ Begins(Append(s, 10), Len(s) + 2)
         /\ EndsFirst(Append(s, 10), Len(s)) <=> b = 1
         /\ Len(s) \in Ends(Append(s, 10))
<1> DEFINE t == Append(s, 10)
           n == Len(s)
<1>0. /\ 10 \in Char /\ t \in Seq(Char) /\ n \in Nat /\ Len(t) = n + 1 /\ t[n + 1] = 10 /\ Agree(s, t, n)
  BY AppendAgrees DEF Char
<1> HIDE DEF t
<1>1. t[n] = 13
  BY <1>0 DEF Agree
<1>2. Ends(t) = Ends(s) \cup {n} /\ n \notin Ends(s)
  <2>1. n \in Ends(t)
    BY <1>0, <1>1 DEF Ends
  <2>2. \A e \in Ends(t) : e \in Int /\ e <= n
    BY <1>0 DEF Ends
  <2>3. \A e \in Ends(s) : e \in Int /\ e < n
    BY <1>0 DEF Ends
  <2> QED
    BY <1>0, <2>1, <2>2, <2>3, EndsAgree
<1>3. \A e \in Ends(s) : e \in 1..n - 1
  BY <1>0 DEF Ends
<1>4. Begins(t, n + 2)
  BY <1>0, <1>2, <1>3 DEF Begins
<1>5. EndsFirst(t, n) <=> Ends(s) = {}
  BY <1>0, <1>2, <1>3 DEF EndsFirst
<1>6. b = 1 <=> Ends(s) = {}
  <2>1. b - 2 \in Ends(s) => b - 2 >= 1
    BY <1>3
  <2>2. b = 1 => b - 2 = -1
    OBVIOUS
  <2> QED
    BY <2>1, <2>2, <1>0, <1>3 DEF Begins
<1>7. ASSUME NEW e \in Ends(t), EndsFirst(t, e)
      PROVE  IsRequestLine(t, 1, e - 1)
  <2>1. CASE e = n
    <3>1. IsRequestLine(s, 1, n - 1)
      BY <1>5, <1>6, <1>7, <2>1
    <3> QED
      BY <1>0, <2>1, <3>1, LinesAgree
  <2>2. CASE e \in Ends(s)
    <3>1. IsRequestLine(s, 1, e - 1)
      BY <1>0, <1>7, <2>2, HeaderLinesAgree DEF LinesFit
    <3>2. e - 1 \in Int /\ e - 1 <= n
      BY <1>0, <1>3, <2>2
    <3> QED
      BY <1>0, <3>1, <3>2, LinesAgree
  <2> QED
    BY <1>2, <2>1, <2>2
<1>8. ASSUME NEW a \in Ends(t), NEW e \in Ends(t), EndsNext(t, a, e)
      PROVE  IsHeaderLine(t, a, e)
  <2>0. a \in Ends(s)
    BY <1>0, <1>2, <1>3, <1>8 DEF EndsNext
  <2>1. CASE e = n
    <3>1. b - 2 \in Ends(s) /\ \A x \in Ends(s) : x <= b - 2
      BY <2>0 DEF Begins
    <3>2. a = b - 2
      BY <1>0, <1>2, <1>3, <1>8, <2>0, <2>1, <3>1 DEF EndsNext
    <3>3. IsHeaderLine(s, a, n)
      BY <1>6, <2>0, <3>2
    <3> QED
      BY <1>0, <2>0, <2>1, <3>3, HeaderLinesAgree
  <2>2. CASE e \in Ends(s)
    <3>1. e \in Int /\ e < n /\ e <= n + 1
      BY <1>0, <1>3, <2>2
    <3>2. IsHeaderLine(s, a, e)
      BY <1>0, <1>8, <2>0, <2>2, <3>1, HeaderLinesAgree DEF LinesFit
    <3> QED
      BY <1>0, <2>0, <3>1, <3>2, HeaderLinesAgree
  <2> QED
    BY <1>2, <2>1, <2>2
<1>9. LinesFit(t, Len(t))
  BY <1>7, <1>8 DEF LinesFit
<1> QED
  BY <1>2, <1>4, <1>5, <1>6, <1>9 DEF t

-----------------------------------------------------------------------------
(* What has been read when the parser is in a state *)

\* The end of the request line in text s, as far as it is there.
VersionSoFar(s, st, a, n) ==
  /\ st = "http_version_h" => n = a - 1
  /\ st = "http_version_t_1" => n = a /\ s[a] = 72
  /\ st = "http_version_t_2" => n = a + 1 /\ s[a] = 72 /\ s[a + 1] = 84
  /\ st = "http_version_p" => n = a + 2 /\ s[a] = 72 /\ s[a + 1] = 84 /\ s[a + 2] = 84
  /\ st = "http_version_slash" => n = a + 3 /\ s[a] = 72 /\ s[a + 1] = 84 /\ s[a + 2] = 84 /\ s[a + 3] = 80
  /\ st = "http_version_major_start" => n = a + 4 /\ Http(s, a)
  /\ st = "http_version_major" => n >= a + 5 /\ Http(s, a) /\ All(s, a + 5, n, Digits)
  /\ st = "http_version_minor_start" => n >= a + 6 /\ Http(s, a) /\ All(s, a + 5, n - 1, Digits) /\ s[n] = 46
  /\ st = "http_version_minor" => IsVersion(s, a, n)
  /\ st = "expecting_newline_1" => s[n] = 13 /\ IsVersion(s, a, n - 1)

\* A request line.
RequestLineSoFar(s, st, n) ==
  /\ st = "method_start" => n = 0
  /\ st = "method" => Token(s, 1, n)
  /\ st = "uri" => \E i \in 2..n : UriAt(s, 1, i, n + 1)
  /\ st \notin {"method_start", "method", "uri"} =>
       \E i, j \in 2..n : i < j /\ UriAt(s, 1, i, j) /\ s[j] = 32 /\ VersionSoFar(s, st, j + 1, n)

\* A header line, from b on.
HeaderLineSoFar(s, st, folded, b, n) ==
  /\ st = "header_line_start" => n = b - 1 /\ (folded <=> ~EndsFirst(s, b - 2))
  /\ st = "header_name" => Token(s, b, n)
  /\ st = "space_before_header_value" => n > b /\ Token(s, b, n - 1) /\ s[n] = 58
  /\ st = "header_value" =>
       \/ IsField(s, b, n)
       \/ ~EndsFirst(s, b - 2) /\ IsContinuation(s, b, n) /\ ~All(s, b, n, Blanks)
  /\ st = "header_lws" => ~EndsFirst(s, b - 2) /\ n >= b /\ All(s, b, n, Blanks)
  /\ st = "expecting_newline_2" => s[n] = 13 /\ IsHeaderLine(s, b - 2, n)
  /\ st = "expecting_newline_3" => n = b /\ s[n] = 13

\* s is a text after which the parser is in state st, and folded says whether
\* there is a header a line can continue.
Reads(s, st, folded) ==
  /\ LinesFit(s, Len(s))
  /\ \/ st \in RequestLineStates /\ ~folded /\ Begins(s, 1) /\ RequestLineSoFar(s, st, Len(s))
     \/ /\ st \in HeaderStates
        /\ st \in {"header_line_start", "expecting_newline_3"} \/ folded
        /\ \E b \in 3..Len(s) + 1 : Begins(s, b) /\ HeaderLineSoFar(s, st, folded, b, Len(s))

\* A character more of the version.
LEMMA VersionNext ==
  ASSUME NEW s, NEW t, NEW n \in Nat, Agree(s, t, n), NEW c \in Char, t[n + 1] = c,
         NEW a \in Int, a >= 1, NEW st, NEW next,
         VersionSoFar(s, st, a, n), InRequestLine(st, c, next),
         st \notin {"method_start", "method", "uri", "expecting_newline_1"}
  PROVE  VersionSoFar(t, next, a, n + 1) /\ (next = "expecting_newline_1" => c = 13)
<1>0. \A k \in Int : 1 <= k /\ k <= n => t[k] = s[k]
  BY DEF Agree
<1>1. \A k, z \in Int : 1 <= k /\ z <= n => (All(s, k, z, Digits) <=> All(t, k, z, Digits))
  BY PartsAgree
<1>2. \A k \in Int : k <= n + 1 /\ All(t, k, n, Digits) /\ is_digit(c) => All(t, k, n + 1, Digits)
  BY DEF All, is_digit, Digits
<1>3. CASE st = "http_version_h"
  <2>1. n = a - 1 /\ c = 72 /\ next = "http_version_t_1"
    BY <1>3 DEF VersionSoFar, InRequestLine
  <2> QED
    BY <2>1 DEF VersionSoFar
<1>4. CASE st = "http_version_t_1"
  <2>1. n = a /\ s[a] = 72 /\ c = 84 /\ next = "http_version_t_2"
    BY <1>4 DEF VersionSoFar, InRequestLine
  <2> QED
    BY <1>0, <2>1 DEF VersionSoFar
<1>5. CASE st = "http_version_t_2"
  <2>1. n = a + 1 /\ s[a] = 72 /\ s[a + 1] = 84 /\ c = 84 /\ next = "http_version_p"
    BY <1>5 DEF VersionSoFar, InRequestLine
  <2> QED
    BY <1>0, <2>1 DEF VersionSoFar
<1>6. CASE st = "http_version_p"
  <2>1. n = a + 2 /\ s[a] = 72 /\ s[a + 1] = 84 /\ s[a + 2] = 84 /\ c = 80 /\ next = "http_version_slash"
    BY <1>6 DEF VersionSoFar, InRequestLine
  <2> QED
    BY <1>0, <2>1 DEF VersionSoFar
<1>7. CASE st = "http_version_slash"
  <2>1. /\ n = a + 3 /\ s[a] = 72 /\ s[a + 1] = 84 /\ s[a + 2] = 84 /\ s[a + 3] = 80
        /\ c = 47 /\ next = "http_version_major_start"
    BY <1>7 DEF VersionSoFar, InRequestLine
  <2> QED
    BY <1>0, <2>1 DEF VersionSoFar, Http
<1>8. n >= a + 4 => (Http(s, a) <=> Http(t, a))
  BY <1>0 DEF Http
<1>9. CASE st = "http_version_major_start"
  <2>1. n = a + 4 /\ Http(s, a) /\ is_digit(c) /\ next = "http_version_major"
    BY <1>9 DEF VersionSoFar, InRequestLine
  <2>2. All(t, a + 5, n, Digits)
    BY <2>1 DEF All
  <2> QED
    BY <1>2, <1>8, <2>1, <2>2 DEF VersionSoFar
<1>10. CASE st = "http_version_major"
  <2>1. /\ n >= a + 5 /\ Http(s, a) /\ All(s, a + 5, n, Digits)
        /\ \/ is_digit(c) /\ next = "http_version_major"
           \/ c = 46 /\ next = "http_version_minor_start"
    BY <1>10 DEF VersionSoFar, InRequestLine
  <2>2. Http(t, a) /\ All(t, a + 5, n, Digits)
    BY <1>1, <1>8, <2>1
  <2>3. CASE is_digit(c) /\ next = "http_version_major"
    BY <1>2, <2>1, <2>2, <2>3 DEF VersionSoFar
  <2>4. CASE c = 46 /\ next = "http_version_minor_start"
    <3>1. (n + 1) - 1 = n
      OBVIOUS
    <3> QED
      BY <2>1, <2>2, <2>4, <3>1 DEF VersionSoFar
  <2> QED
    BY <2>1, <2>3, <2>4
<1>11. CASE st = "http_version_minor_start"
  <2>1. /\ n >= a + 6 /\ Http(s, a) /\ All(s, a + 5, n - 1, Digits) /\ s[n] = 46
        /\ is_digit(c) /\ next = "http_version_minor"
    BY <1>11 DEF VersionSoFar, InRequestLine
  <2>2. Http(t, a) /\ All(t, a + 5, n - 1, Digits) /\ t[n] = 46
    BY <1>0, <1>1, <1>8, <2>1
  <2>3. All(t, n + 1, n + 1, Digits)
    BY <2>1 DEF All, is_digit, Digits
  <2>4. n \in a + 6..(n + 1) - 1
    BY <2>1
  <2>5. IsVersion(t, a, n + 1)
    BY <2>2, <2>3, <2>4 DEF IsVersion, VersionAt
  <2> QED
    BY <2>1, <2>5 DEF VersionSoFar
<1>12. CASE st = "http_version_minor"
  <2>1. /\ IsVersion(s, a, n)
        /\ \/ is_digit(c) /\ next = "http_version_minor"
           \/ c = 13 /\ next = "expecting_newline_1"
    BY <1>12 DEF VersionSoFar, InRequestLine, CR
  <2>2. IsVersion(t, a, n)
    BY <2>1, VersionAgrees
  <2>3. CASE is_digit(c) /\ next = "http_version_minor"
    <3>1. PICK d \in a + 6..n - 1 : VersionAt(t, a, d, n)
      BY <2>2 DEF IsVersion
    <3>2. All(t, d + 1, n + 1, Digits)
      BY <1>2, <2>3, <3>1 DEF VersionAt
    <3>3. d \in a + 6..(n + 1) - 1 /\ VersionAt(t, a, d, n + 1)
      BY <3>1, <3>2 DEF VersionAt
    <3>4. IsVersion(t, a, n + 1)
      BY <3>3 DEF IsVersion
    <3> QED
      BY <2>3, <3>4 DEF VersionSoFar
  <2>4. CASE c = 13 /\ next = "expecting_newline_1"
    <3>1. (n + 1) - 1 = n
      OBVIOUS
    <3> QED
      BY <2>2, <2>4, <3>1 DEF VersionSoFar
  <2> QED
    BY <2>1, <2>3, <2>4
<1> QED
  BY <1>3, <1>4, <1>5, <1>6, <1>7, <1>9, <1>10, <1>11, <1>12 DEF InRequestLine

\* A character more of the request line.
LEMMA RequestLineNext ==
  ASSUME NEW s \in Seq(Char), NEW c \in Char, NEW st, NEW folded, NEW next,
         Reads(s, st, folded), InRequestLine(st, c, next)
  PROVE  Reads(Append(s, c), next, folded)
<1> DEFINE t == Append(s, c)
           n == Len(s)
<1>0. /\ t \in Seq(Char) /\ n \in Nat /\ Len(t) = n + 1 /\ t[n + 1] = c /\ Agree(s, t, n)
  BY AppendAgrees
<1>1. LinesFit(s, n) /\ ~folded /\ Begins(s, 1) /\ RequestLineSoFar(s, st, n)
  <2>1. st \notin HeaderStates
    BY DEF InRequestLine, HeaderStates
  <2> QED
    BY <2>1 DEF Reads
<1> SUFFICES Reads(t, next, folded)
  OBVIOUS
<1> HIDE DEF t
<1>2. CASE st = "expecting_newline_1"
  <2>1. next = "header_line_start" /\ c = 10
    BY <1>2 DEF InRequestLine, LF
  <2>2. PICK i, j \in 2..n : i < j /\ UriAt(s, 1, i, j) /\ s[j] = 32 /\ VersionSoFar(s, st, j + 1, n)
    BY <1>1, <1>2, Zenon DEF RequestLineSoFar
  <2>3. s[n] = 13 /\ IsVersion(s, j + 1, n - 1)
    BY <1>2, <2>2 DEF VersionSoFar
  <2>4. j \in 2..n - 1 /\ i \in 2..n - 1 /\ 1 + 1 = 2
    BY <1>0, <2>2, <2>3
  <2>5. IsRequestLine(s, 1, n - 1)
    BY <2>2, <2>3, <2>4 DEF IsRequestLine, BlanksAt
  <2>6. /\ LinesFit(t, Len(t)) /\ Begins(t, n + 2) /\ EndsFirst(t, n)
    BY <1>0, <1>1, <2>1, <2>2, <2>3, <2>5, LineEnds DEF t
  <2>7. HeaderLineSoFar(t, next, folded, n + 2, Len(t))
    <3>1. n + 1 = (n + 2) - 1 /\ (n + 2) - 2 = n
      BY <1>0
    <3> QED
      BY <1>0, <1>1, <2>1, <2>6, <3>1 DEF HeaderLineSoFar
  <2>8. n + 2 \in 3..Len(t) + 1
    BY <1>0, <2>2
  <2> QED
    BY <2>1, <2>6, <2>7, <2>8 DEF Reads, HeaderStates
<1>3. CASE st # "expecting_newline_1"
  <2>1. c # 10 /\ next \in RequestLineStates \ {"method_start"}
    BY <1>3 DEF InRequestLine, RequestLineStates, IsToken, is_ctl, is_digit, SP, CR
  <2>2. LinesFit(t, Len(t)) /\ Begins(t, 1)
    <3>1. Ends(t) = Ends(s) /\ LinesFit(t, Len(t))
      BY <1>0, <1>1, <2>1, SameLine DEF t
    <3> QED
      BY <1>1, <3>1 DEF Begins
  <2> SUFFICES RequestLineSoFar(t, next, n + 1)
    BY <1>0, <1>1, <2>1, <2>2 DEF Reads
  <2>3. CASE st \in {"method_start", "method"} /\ next = "method"
    <3>1. t[n + 1] \in (33..126) \ Separators
      BY <1>0, <2>3, SameCharacters DEF InRequestLine
    <3>2. CASE st = "method_start"
      <4>1. n = 0
        BY <1>1, <3>2 DEF RequestLineSoFar
      <4>2. n + 1 = 1 /\ Token(t, 1, 1)
        BY <1>0, <3>1, <4>1, OneCharacter
      <4> QED
        BY <2>3, <4>2 DEF RequestLineSoFar
    <3>3. CASE st = "method"
      <4>1. Token(t, 1, n)
        BY <1>0, <1>1, <3>3, PartsAgree DEF RequestLineSoFar
      <4>2. Token(t, 1, n + 1)
        <5>1. 1 \in Int /\ n \in Int /\ 1 <= n + 1
          BY <1>0
        <5> QED
          BY <3>1, <4>1, <5>1, OneMore
      <4> QED
        BY <2>3, <4>2 DEF RequestLineSoFar
    <3> QED
      BY <2>3, <3>2, <3>3
  <2>4. CASE st = "method" /\ next = "uri"
    <3>1. c = 32 /\ Token(s, 1, n)
      BY <1>1, <2>4 DEF InRequestLine, RequestLineSoFar, SP
    <3>2. Token(t, 1, n) /\ n >= 1
      BY <1>0, <3>1, PartsAgree DEF Token
    <3>3. UriAt(t, 1, n + 1, (n + 1) + 1) /\ n + 1 \in 2..n + 1
      <4>1. (n + 1) - 1 = n /\ ~ ((n + 1) + 1 <= ((n + 1) + 1) - 1)
        BY <1>0
      <4> QED
        BY <1>0, <3>1, <3>2, <4>1 DEF UriAt, Text, None
    <3> QED
      BY <2>4, <3>3 DEF RequestLineSoFar
  <2>5. CASE st = "uri"
    <3>1. PICK i \in 2..n : UriAt(s, 1, i, n + 1)
      BY <1>1, <2>5 DEF RequestLineSoFar
    <3>2. UriAt(t, 1, i, n + 1)
      <4>1. i \in Int /\ 1 < i /\ n + 1 \in Int /\ i < n + 1 /\ n + 1 <= n + 1
        BY <1>0
      <4> QED
        BY <1>0, <3>1, <4>1, UriAgrees
    <3>3. CASE c # 32 /\ ~is_ctl(c) /\ next = "uri"
      <4>1. c \notin Controls
        BY <3>3 DEF is_ctl, Controls
      <4>2. Text(t, i + 1, ((n + 1) + 1) - 1) /\ None(t, i + 1, ((n + 1) + 1) - 1, {32})
        BY <1>0, <3>2, <3>3, <4>1 DEF UriAt, Text, None
      <4>3. UriAt(t, 1, i, (n + 1) + 1) /\ i \in 2..n + 1
        BY <1>0, <3>2, <4>2 DEF UriAt
      <4> QED
        BY <3>3, <4>3 DEF RequestLineSoFar
    <3>4. CASE c = 32 /\ next = "http_version_h"
      <4>1. i \in 2..n + 1 /\ n + 1 \in 2..n + 1 /\ i < n + 1 /\ n + 1 = ((n + 1) + 1) - 1
        BY <1>0
      <4>2. VersionSoFar(t, next, (n + 1) + 1, n + 1)
        BY <3>4, <4>1 DEF VersionSoFar
      <4> QED
        BY <1>0, <3>2, <3>4, <4>1, <4>2 DEF RequestLineSoFar
    <3> QED
      BY <2>5, <3>3, <3>4 DEF InRequestLine, SP
  <2>6. CASE st \notin {"method_start", "method", "uri"}
    <3>1. PICK i, j \in 2..n : i < j /\ UriAt(s, 1, i, j) /\ s[j] = 32 /\ VersionSoFar(s, st, j + 1, n)
      BY <1>1, <2>6, Zenon DEF RequestLineSoFar
    <3>2. UriAt(t, 1, i, j) /\ t[j] = 32
      <4>1. i \in Int /\ 1 < i /\ j \in Int /\ i < j /\ j <= n + 1 /\ n \in Int /\ 1 \in Int /\ 1 >= 1
        BY <1>0, <3>1
      <4>2. t[j] = s[j]
        BY <1>0 DEF Agree
      <4>3. UriAt(s, 1, i, j) <=> UriAt(t, 1, i, j)
        BY <1>0, <4>1, UriAgrees
      <4> QED
        BY <3>1, <4>2, <4>3
    <3>3. j + 1 \in Int /\ j + 1 >= 1 /\ i \in 2..n + 1 /\ j \in 2..n + 1
      BY <1>0
    <3>4. VersionSoFar(t, next, j + 1, n + 1)
      BY <1>0, <1>3, <2>6, <3>1, <3>3, VersionNext
    <3>5. next \notin {"method_start", "method", "uri"}
      BY <2>6 DEF InRequestLine
    <3> QED
      BY <3>1, <3>2, <3>3, <3>4, <3>5 DEF RequestLineSoFar
  <2> QED
    BY <2>3, <2>4, <2>5, <2>6 DEF InRequestLine
<1> QED
  BY <1>2, <1>3

\* A character more of the headers.
LEMMA HeaderLineNext ==
  ASSUME NEW s \in Seq(Char), NEW c \in Char, NEW st, NEW folded \in BOOLEAN, NEW next,
         Reads(s, st, folded), InHeaders(st, c, folded, next), next # "good"
  PROVE  Reads(Append(s, c), next, folded \/ next \in Inside)
<1> DEFINE t == Append(s, c)
           n == Len(s)
<1>0. /\ t \in Seq(Char) /\ n \in Nat /\ Len(t) = n + 1 /\ t[n + 1] = c /\ Agree(s, t, n)
  BY AppendAgrees
<1>1. /\ LinesFit(s, n) /\ st \in HeaderStates
      /\ st \in {"header_line_start", "expecting_newline_3"} \/ folded
  <2>1. st \notin RequestLineStates
    BY DEF InHeaders, RequestLineStates
  <2> QED
    BY <2>1 DEF Reads
<1>2. PICK b \in 3..n + 1 : Begins(s, b) /\ HeaderLineSoFar(s, st, folded, b, n)
  <2>1. st \notin RequestLineStates
    BY DEF InHeaders, RequestLineStates
  <2> QED
    BY <2>1 DEF Reads
<1>3. b - 2 \in Ends(s) /\ b - 2 \in Int /\ b \in Int /\ b >= 3 /\ b <= n + 1
  BY <1>0, <1>2 DEF Begins
<1>4. /\ EndsFirst(s, b - 2) <=> EndsFirst(t, b - 2)
      /\ \A e \in Int : e <= n + 1 => (IsHeaderLine(s, b - 2, e) <=> IsHeaderLine(t, b - 2, e))
  <2>1. n <= n + 1
    BY <1>0
  <2> QED
    BY <1>0, <1>3, <2>1, HeaderLinesAgree
<1> SUFFICES Reads(t, next, folded \/ next \in Inside)
  OBVIOUS
<1> HIDE DEF t
<1>5. next \in HeaderStates /\ next # "expecting_newline_3" => next = "header_line_start" \/ next \in Inside
  BY DEF HeaderStates, Inside
<1>6. CASE st = "expecting_newline_2"
  <2>1. next = "header_line_start" /\ c = 10 /\ folded
    BY <1>1, <1>6 DEF InHeaders, LF
  <2>2. s[n] = 13 /\ IsHeaderLine(s, b - 2, n)
    BY <1>2, <1>6 DEF HeaderLineSoFar
  <2>3. n # 0 /\ b # 1
    BY <1>0, <1>3, <2>2
  <2>4. /\ LinesFit(t, Len(t)) /\ Begins(t, n + 2) /\ ~EndsFirst(t, n)
    BY <1>0, <1>1, <1>2, <2>1, <2>2, <2>3, LineEnds DEF t
  <2>5. HeaderLineSoFar(t, next, TRUE, n + 2, Len(t))
    <3>1. n + 1 = (n + 2) - 1 /\ (n + 2) - 2 = n
      BY <1>0
    <3> QED
      BY <1>0, <2>1, <2>4, <3>1 DEF HeaderLineSoFar
  <2>6. n + 2 \in 3..Len(t) + 1
    BY <1>0, <2>3
  <2> QED
    BY <2>1, <2>4, <2>5, <2>6 DEF Reads, HeaderStates
<1>7. CASE st # "expecting_newline_2"
  <2>1. /\ c # 10 /\ next \in {"header_lws", "header_name", "space_before_header_value", "header_value",
                               "expecting_newline_2", "expecting_newline_3"}
    BY <1>7 DEF InHeaders, IsToken, is_ctl, SP, CR, TAB
  <2>2. LinesFit(t, Len(t)) /\ Begins(t, b)
    <3>1. Ends(t) = Ends(s) /\ LinesFit(t, Len(t))
      BY <1>0, <1>1, <2>1, SameLine DEF t
    <3> QED
      BY <1>2, <3>1 DEF Begins
  <2>3. b \in 3..Len(t) + 1 /\ next \in HeaderStates
    BY <1>0, <2>1 DEF HeaderStates
  <2> SUFFICES HeaderLineSoFar(t, next, folded \/ next \in Inside, b, n + 1)
    BY <1>0, <1>1, <1>5, <2>1, <2>2, <2>3 DEF Reads
  <2>4. IsToken(c) <=> t[n + 1] \in (33..126) \ Separators
    BY <1>0, SameCharacters
  <2>5. is_ctl(c) <=> t[n + 1] \in Controls
    BY <1>0, SameCharacters
  <2>6. (n + 1) - 1 = n /\ n \in Int
    BY <1>0
  <2>7. CASE st = "header_line_start"
    <3>1. n = b - 1 /\ (folded <=> ~EndsFirst(s, b - 2))
      BY <1>2, <2>7 DEF HeaderLineSoFar
    <3>2. n + 1 = b
      BY <1>0, <1>3, <3>1
    <3>3. CASE c = CR /\ next = "expecting_newline_3"
      BY <1>0, <3>2, <3>3 DEF HeaderLineSoFar, CR
    <3>4. CASE folded /\ c \in {SP, TAB} /\ next = "header_lws"
      <4>1. All(t, b, n + 1, Blanks)
        BY <1>0, <3>2, <3>4 DEF All, Blanks, SP, TAB
      <4> QED
        BY <1>3, <1>4, <3>1, <3>2, <3>4, <4>1 DEF HeaderLineSoFar
    <3>5. CASE IsToken(c) /\ next = "header_name"
      <4>1. Token(t, b, n + 1)
        BY <1>3, <2>4, <3>2, <3>5, OneCharacter
      <4> QED
        BY <3>5, <4>1 DEF HeaderLineSoFar
    <3> QED
      BY <2>7, <3>3, <3>4, <3>5 DEF InHeaders
  <2>8. CASE st = "header_name"
    <3>1. Token(s, b, n)
      BY <1>2, <2>8 DEF HeaderLineSoFar
    <3>2. Token(t, b, n) /\ b <= n
      BY <1>0, <1>3, <2>6, <3>1, PartsAgree DEF Token
    <3>3. CASE IsToken(c) /\ next = "header_name"
      <4>1. Token(t, b, n + 1)
        BY <1>0, <1>3, <2>4, <2>6, <3>2, <3>3, OneMore
      <4> QED
        BY <3>3, <4>1 DEF HeaderLineSoFar
    <3>4. CASE c = 58 /\ next = "space_before_header_value"
      BY <1>0, <1>3, <2>6, <3>2, <3>4 DEF HeaderLineSoFar
    <3> QED
      BY <2>8, <3>3, <3>4 DEF InHeaders
  <2>9. CASE st = "space_before_header_value"
    <3>1. n > b /\ Token(s, b, n - 1) /\ s[n] = 58 /\ c = 32 /\ next = "header_value"
      BY <1>2, <2>9 DEF HeaderLineSoFar, InHeaders, SP
    <3>2. Token(t, b, n - 1) /\ t[n] = 58
      <4>1. n - 1 \in Int /\ n - 1 <= n /\ b >= 1
        BY <1>3, <2>6
      <4>2. Token(s, b, n - 1) <=> Token(t, b, n - 1)
        BY <1>0, <1>3, <2>6, <4>1, PartsAgree
      <4> QED
        BY <1>0, <1>3, <3>1, <4>2 DEF Agree
    <3>3. n \in b + 1..(n + 1) - 1 /\ Text(t, n + 2, n + 1)
      BY <1>0, <1>3, <3>1 DEF Text, None
    <3>4. IsField(t, b, n + 1)
      BY <1>0, <3>1, <3>2, <3>3 DEF IsField
    <3> QED
      BY <3>1, <3>4 DEF HeaderLineSoFar
  <2>10. CASE st = "header_lws"
    <3>1. ~EndsFirst(t, b - 2) /\ n >= b /\ All(s, b, n, Blanks)
      BY <1>2, <1>4, <2>10 DEF HeaderLineSoFar
    <3>2. All(t, b, n, Blanks)
      BY <1>0, <1>3, <2>6, <3>1, PartsAgree
    <3>3. n \in b..n /\ n \in b..n + 1 /\ Text(t, n + 1, n)
      BY <1>0, <1>3, <3>1 DEF Text, None
    <3>4. CASE c \in {SP, TAB} /\ next = "header_lws"
      <4>1. c \in Blanks
        BY <3>4 DEF Blanks, SP, TAB
      <4>2. All(t, b, n + 1, Blanks)
        BY <1>0, <1>3, <2>6, <3>2, <4>1, OneMore
      <4> QED
        BY <1>3, <2>6, <3>1, <3>4, <4>2 DEF HeaderLineSoFar
    <3>5. CASE c = CR /\ next = "expecting_newline_2"
      <4>1. IsContinuation(t, b, n)
        BY <3>2, <3>3 DEF IsContinuation
      <4>2. IsHeaderLine(t, b - 2, n + 1)
        <5>1. (b - 2) + 2 = b
          BY <1>3
        <5> QED
          BY <2>6, <3>1, <4>1, <5>1 DEF IsHeaderLine
      <4> QED
        BY <1>0, <3>5, <4>2 DEF HeaderLineSoFar, CR
    <3>6. CASE c # SP /\ ~is_ctl(c) /\ next = "header_value"
      <4>1. Text(t, n + 1, n + 1)
        BY <1>0, <2>5, <2>6, <3>3, <3>6, OneMore
      <4>2. IsContinuation(t, b, n + 1)
        BY <3>2, <3>3, <4>1 DEF IsContinuation
      <4>3. c \notin Blanks
        BY <3>6 DEF Blanks, is_ctl, SP
      <4>4. n + 1 \in b..n + 1
        BY <1>0, <1>3
      <4>5. ~All(t, b, n + 1, Blanks)
        BY <1>0, <4>3, <4>4 DEF All
      <4> QED
        BY <3>1, <3>6, <4>2, <4>5 DEF HeaderLineSoFar
    <3> QED
      BY <2>10, <3>4, <3>5, <3>6 DEF InHeaders
  <2>11. CASE st = "header_value"
    <3>1. \/ IsField(t, b, n)
          \/ ~EndsFirst(t, b - 2) /\ IsContinuation(t, b, n) /\ ~All(t, b, n, Blanks)
      <4>1. \/ IsField(s, b, n)
            \/ ~EndsFirst(s, b - 2) /\ IsContinuation(s, b, n) /\ ~All(s, b, n, Blanks)
        BY <1>2, <2>11 DEF HeaderLineSoFar
      <4>2. /\ IsField(s, b, n) <=> IsField(t, b, n)
            /\ IsContinuation(s, b, n) <=> IsContinuation(t, b, n)
            /\ All(s, b, n, Blanks) <=> All(t, b, n, Blanks)
        BY <1>0, <1>3, <2>6, LinesAgree, PartsAgree
      <4> QED
        BY <1>4, <4>1, <4>2
    <3>2. CASE ~is_ctl(c) /\ next = "header_value"
      <4>1. CASE IsField(t, b, n)
        <5>1. PICK i \in b + 1..n - 1 : Token(t, b, i - 1) /\ t[i] = 58 /\ t[i + 1] = 32 /\ Text(t, i + 2, n)
          BY <4>1 DEF IsField
        <5>2. i \in b + 1..(n + 1) - 1 /\ i + 2 \in Int /\ i + 2 <= n + 1
          BY <1>0, <1>3
        <5>3. Text(t, i + 2, n + 1)
          BY <2>5, <2>6, <3>2, <5>1, <5>2, OneMore
        <5> QED
          BY <3>2, <5>1, <5>2, <5>3 DEF IsField, HeaderLineSoFar
      <4>2. CASE ~EndsFirst(t, b - 2) /\ IsContinuation(t, b, n) /\ ~All(t, b, n, Blanks)
        <5>1. PICK i \in b..n : All(t, b, i, Blanks) /\ Text(t, i + 1, n)
          BY <4>2 DEF IsContinuation
        <5>2. i \in b..n + 1 /\ i + 1 \in Int /\ i + 1 <= n + 1
          BY <1>0, <1>3
        <5>3. Text(t, i + 1, n + 1)
          BY <2>5, <2>6, <3>2, <5>1, <5>2, OneMore
        <5>4. IsContinuation(t, b, n + 1)
          BY <5>1, <5>2, <5>3 DEF IsContinuation
        <5>5. b..n \subseteq b..n + 1
          BY <1>0, <1>3
        <5>6. ~All(t, b, n + 1, Blanks)
          BY <4>2, <5>5 DEF All
        <5> QED
          BY <3>2, <4>2, <5>4, <5>6 DEF HeaderLineSoFar
      <4> QED
        BY <3>1, <4>1, <4>2
    <3>3. CASE c = CR /\ next = "expecting_newline_2"
      <4>1. IsHeaderLine(t, b - 2, n + 1)
        <5>1. (b - 2) + 2 = b
          BY <1>3
        <5> QED
          BY <2>6, <3>1, <5>1 DEF IsHeaderLine
      <4> QED
        BY <1>0, <3>3, <4>1 DEF HeaderLineSoFar, CR
    <3> QED
      BY <2>11, <3>2, <3>3 DEF InHeaders
  <2> QED
    BY <1>7, <2>7, <2>8, <2>9, <2>10, <2>11 DEF InHeaders
<1> QED
  BY <1>6, <1>7

\* The last character.
LEMMA LastNext ==
  ASSUME NEW s \in Seq(Char), NEW c \in Char, NEW st, NEW folded \in BOOLEAN,
         Reads(s, st, folded), InHeaders(st, c, folded, "good")
  PROVE  WellFormed(Append(s, c))
<1> DEFINE t == Append(s, c)
           n == Len(s)
<1>0. /\ t \in Seq(Char) /\ n \in Nat /\ Len(t) = n + 1 /\ t[n + 1] = c /\ Agree(s, t, n)
  BY AppendAgrees
<1>1. st = "expecting_newline_3" /\ c = 10
  BY DEF InHeaders, LF
<1>2. PICK b \in 3..n + 1 : Begins(s, b) /\ HeaderLineSoFar(s, st, folded, b, n)
  BY <1>1 DEF Reads, RequestLineStates
<1>3. n = b /\ s[n] = 13 /\ LinesFit(s, n)
  BY <1>1, <1>2 DEF HeaderLineSoFar, Reads
<1>4. n - 2 \in Ends(s) /\ \A e \in Ends(s) : e <= n - 2
  BY <1>0, <1>2, <1>3 DEF Begins
<1> HIDE DEF t
<1>5. t[n] = 13
  BY <1>0, <1>3 DEF Agree
<1>6. Len(t) - 1 = n /\ Len(t) - 3 = n - 2 /\ n <= Len(t)
  BY <1>0
<1>7. Ends(t) = Ends(s) \cup {n}
  <2>1. n \in Ends(t)
    BY <1>0, <1>1, <1>2, <1>3, <1>5 DEF Ends
  <2>2. \A e \in Ends(t) : e \in Int /\ e <= n
    BY <1>0 DEF Ends
  <2>3. Ends(s) \subseteq Ends(t) /\ \A e \in Ends(t) : e < n => e \in Ends(s)
    BY <1>0, <1>6, EndsAgree
  <2> QED
    BY <1>0, <2>1, <2>2, <2>3
<1>8. \A e \in Ends(s) : e \in 1..n - 1
  BY <1>0 DEF Ends
<1>9. ASSUME NEW e \in Ends(t), EndsFirst(t, e)
      PROVE  IsRequestLine(t, 1, e - 1)
  <2>1. e \in Ends(s)
    BY <1>0, <1>4, <1>7, <1>8, <1>9 DEF EndsFirst
  <2>2. EndsFirst(s, e)
    BY <1>0, <1>6, <1>9, <2>1, HeaderLinesAgree
  <2>3. IsRequestLine(s, 1, e - 1)
    BY <1>3, <2>1, <2>2 DEF LinesFit
  <2>4. e - 1 \in Int /\ e - 1 <= n
    BY <1>0, <1>8, <2>1
  <2> QED
    BY <1>0, <2>3, <2>4, LinesAgree
<1>10. ASSUME NEW a \in Ends(t), NEW e \in Ends(t), EndsNext(t, a, e), e < n
       PROVE  IsHeaderLine(t, a, e)
  <2>1. e \in Ends(s) /\ a \in Ends(s) /\ e \in Int /\ e <= n + 1
    BY <1>0, <1>7, <1>8, <1>10 DEF EndsNext
  <2>2. EndsNext(s, a, e)
    BY <1>0, <1>6, <1>10, <2>1, HeaderLinesAgree
  <2>3. IsHeaderLine(s, a, e)
    BY <1>3, <1>10, <2>1, <2>2 DEF LinesFit
  <2> QED
    BY <1>0, <1>6, <2>1, <2>3, HeaderLinesAgree
<1>11. LinesFit(t, Len(t) - 1)
  BY <1>6, <1>9, <1>10 DEF LinesFit
<1>12. WellFormed(t)
  BY <1>4, <1>6, <1>7, <1>11 DEF WellFormed
<1> QED
  BY <1>12 DEF t

-----------------------------------------------------------------------------
(* What can still become well-formed is read on *)

\* In a well-formed text that goes on from s, the line that s ends in ends at e.
LineAt(s, w, b, e) ==
  /\ e \in 1..Len(w) - 1 /\ e >= b /\ e >= Len(s)
  /\ w[e] = 13 /\ w[e + 1] = 10
  /\ b = 1 => IsRequestLine(w, 1, e - 1)
  /\ b # 1 => e = b \/ IsHeaderLine(w, b - 2, e)

LEMMA LineAhead ==
  ASSUME NEW s \in Seq(Char), NEW w \in Seq(Char), Len(s) < Len(w), Agree(s, w, Len(s)), WellFormed(w),
         NEW b \in Int, Begins(s, b)
  PROVE  \E e \in Nat : LineAt(s, w, b, e)
<1> DEFINE n == Len(s)
           T == {x \in Ends(w) : x >= n}
<1>0. n \in Nat /\ Len(w) \in Nat /\ n <= Len(w) /\ n < Len(w)
  BY LenProperties
<1>1. /\ Ends(s) \subseteq Ends(w)
      /\ \A x \in Ends(w) : x < n => x \in Ends(s)
  BY <1>0, EndsAgree
<1>2. \A x \in Ends(w) : x \in 1..Len(w) - 1 /\ w[x] = 13 /\ w[x + 1] = 10
  BY DEF Ends
<1>3. \A x \in Ends(s) : x \in 1..n - 1 /\ s[x] = 13 /\ s[x + 1] = 10
  BY DEF Ends
<1>4. T \in SUBSET Nat /\ T # {}
  <2>1. Len(w) - 1 \in T
    BY <1>0 DEF WellFormed
  <2> QED
    BY <1>0, <1>2, <2>1
<1>5. PICK e \in T : \A x \in T : e <= x
  <2> HIDE DEF T
  <2> QED
    BY <1>4, Smallest
<1>6. e \in 1..Len(w) - 1 /\ e >= n /\ w[e] = 13 /\ w[e + 1] = 10 /\ e \in Ends(w)
  BY <1>2, <1>5
<1>7. \A x \in Ends(w) : x \in Ends(s) \/ e <= x
  <2>1. \A x \in Ends(w) : x < n \/ x \in T
    BY <1>0, <1>2
  <2> QED
    BY <1>1, <1>5, <2>1
<1> HIDE DEF T
<1>8. CASE Ends(s) = {} /\ b = 1
  <2>1. EndsFirst(w, e)
    BY <1>6, <1>7, <1>8 DEF EndsFirst
  <2>2. IsRequestLine(w, 1, e - 1)
    BY <1>6, <2>1 DEF WellFormed, LinesFit
  <2> QED
    BY <1>6, <1>8, <2>2 DEF LineAt
<1>9. CASE b - 2 \in Ends(s) /\ \A x \in Ends(s) : x <= b - 2
  <2>0. b - 2 \in 1..n - 1 /\ s[(b - 2) + 1] = 10
    BY <1>3, <1>9
  <2>1. b \in Int
    OBVIOUS
  <2>2. b - 1 \in 1..n /\ w[b - 1] = 10
    <3>1. (b - 2) + 1 = b - 1 /\ b - 1 \in 1..n
      BY <1>0, <2>0, <2>1
    <3> QED
      BY <2>0, <3>1 DEF Agree
  <2>3. e >= b
    BY <1>0, <1>6, <2>1, <2>2
  <2>4. EndsNext(w, b - 2, e)
    BY <1>7, <1>9, <2>1, <2>3, <1>6 DEF EndsNext
  <2>5. CASE e < Len(w) - 1
    <3>1. IsHeaderLine(w, b - 2, e)
      BY <1>1, <1>6, <1>9, <2>4, <2>5 DEF WellFormed, LinesFit
    <3> QED
      BY <1>6, <2>1, <2>3, <2>0, <3>1 DEF LineAt
  <2>6. CASE e = Len(w) - 1
    <3>1. Len(w) - 3 <= b - 2
      BY <1>0, <2>4, <2>6 DEF WellFormed, EndsNext
    <3>2. e = b
      BY <1>0, <1>6, <2>1, <2>2, <2>3, <2>6, <3>1
    <3> QED
      BY <1>6, <2>1, <2>3, <2>0, <3>2 DEF LineAt
  <2> QED
    BY <1>0, <1>6, <2>5, <2>6
<1> QED
  BY <1>8, <1>9 DEF Begins

\* A text that has been read so far is not well-formed yet.
LEMMA NotYet ==
  ASSUME NEW s \in Seq(Char), NEW st, NEW folded, Reads(s, st, folded)
  PROVE  ~WellFormed(s)
<1> DEFINE n == Len(s)
<1>0. n \in Nat
  BY LenProperties
<1>1. SUFFICES ASSUME WellFormed(s) PROVE FALSE
  OBVIOUS
<1>2. n - 1 \in Ends(s) /\ n - 3 \in Ends(s)
  BY <1>1 DEF WellFormed
<1>3. LinesFit(s, n)
  BY DEF Reads
<1>4. \A x \in Ends(s) : x \in 1..n - 1 /\ s[x] = 13 /\ s[x + 1] = 10
  BY DEF Ends
<1>5. EndsNext(s, n - 3, n - 1)
  <2>1. ASSUME NEW x \in Ends(s), ~(x <= n - 3), ~(n - 1 <= x)
        PROVE  FALSE
    <3>1. x = n - 2 /\ (n - 3) + 1 = n - 2
      BY <1>0, <1>4, <2>1
    <3>2. s[n - 2] = 10 /\ s[n - 2] = 13
      BY <1>2, <1>4, <3>1
    <3> QED
      BY <3>2
  <2> QED
    BY <1>0, <2>1 DEF EndsNext
<1>6. IsHeaderLine(s, n - 3, n - 1)
  BY <1>0, <1>2, <1>3, <1>5 DEF LinesFit
<1>7. (n - 3) + 2 = n - 1 /\ (n - 1) - 1 = n - 2
  BY <1>0
<1>8. ~IsField(s, n - 1, n - 2) /\ ~IsContinuation(s, n - 1, n - 2)
  BY <1>0 DEF IsField, IsContinuation
<1> QED
  BY <1>6, <1>7, <1>8 DEF IsHeaderLine

\* No line of headers has a carriage return in it.
LEMMA NoReturn ==
  ASSUME NEW w, NEW b \in Int, NEW z \in Int, IsField(w, b, z) \/ IsContinuation(w, b, z)
  PROVE  b <= z /\ \A k \in b..z : w[k] # 13
<1>0. 13 \in Controls /\ 13 \notin Blanks /\ 13 \notin 33..126
  BY DEF Controls, Blanks
<1>1. CASE IsField(w, b, z)
  <2>1. PICK i \in b + 1..z - 1 : Token(w, b, i - 1) /\ w[i] = 58 /\ w[i + 1] = 32 /\ Text(w, i + 2, z)
    BY <1>1 DEF IsField
  <2>2. \A k \in b..z : k \in b..i - 1 \/ k = i \/ k = i + 1 \/ k \in i + 2..z
    OBVIOUS
  <2> QED
    BY <1>0, <2>1, <2>2 DEF Token, All, Text, None
<1>2. CASE IsContinuation(w, b, z)
  <2>1. PICK i \in b..z : All(w, b, i, Blanks) /\ Text(w, i + 1, z)
    BY <1>2 DEF IsContinuation
  <2>2. \A k \in b..z : k \in b..i \/ k \in i + 1..z
    OBVIOUS
  <2> QED
    BY <1>0, <2>1, <2>2 DEF All, Text, None
<1> QED
  BY <1>1, <1>2

\* A run of characters of a kind ends before one that is not.
LEMMA Past ==
  ASSUME NEW w, NEW S, NEW a \in Int, NEW i \in Int, a <= i, w[i] \notin S
  PROVE  \A n \in Int : All(w, a, n, S) => n < i
BY DEF All

\* No token has a blank or a colon in it.
LEMMA PastToken ==
  ASSUME NEW w, NEW a \in Int, NEW i \in Int, a <= i, w[i] \in {32, 58}
  PROVE  \A n \in Int : Token(w, a, n) => n < i
<1>1. w[i] \notin (33..126) \ Separators
  BY DEF Separators
<1>2. \A n \in Int : All(w, a, n, (33..126) \ Separators) => n < i
  BY <1>1, Past
<1> QED
  BY <1>2 DEF Token

\* The blanks of a request line are where they are.
LEMMA SameBlanks ==
  ASSUME NEW w, NEW i \in Int, NEW j \in Int, NEW i2 \in Int, NEW j2 \in Int,
         1 < i, i < j, 1 < i2, i2 < j2,
         UriAt(w, 1, i, j), w[j] = 32, UriAt(w, 1, i2, j2), w[j2] = 32
  PROVE  i = i2 /\ j = j2
<1>1. /\ Token(w, 1, i - 1) /\ Token(w, 1, i2 - 1) /\ w[i] = 32 /\ w[i2] = 32
      /\ None(w, i + 1, j - 1, {32}) /\ None(w, i2 + 1, j2 - 1, {32})
  BY DEF UriAt
<1>2. 1 \in Int /\ 1 <= i /\ 1 <= i2 /\ w[i] \in {32, 58} /\ w[i2] \in {32, 58}
  BY <1>1
<1>3. \A n \in Int : (Token(w, 1, n) => n < i) /\ (Token(w, 1, n) => n < i2)
  BY <1>2, PastToken
<1>4. i = i2
  BY <1>1, <1>3
<1>5. ~(j < j2) /\ ~(j2 < j)
  BY <1>1, <1>4 DEF None
<1> QED
  BY <1>4, <1>5

LEMMA SameDot ==
  ASSUME NEW w, NEW a \in Int, NEW d \in Int, NEW d2 \in Int, a + 5 <= d, a + 5 <= d2,
         All(w, a + 5, d - 1, Digits), All(w, a + 5, d2 - 1, Digits), w[d] = 46, w[d2] = 46
  PROVE  d = d2
<1>1. w[d] \notin Digits /\ w[d2] \notin Digits /\ d - 1 \in Int /\ d2 - 1 \in Int /\ a + 5 \in Int
  BY DEF Digits
<1>2. \A n \in Int : (All(w, a + 5, n, Digits) => n < d) /\ (All(w, a + 5, n, Digits) => n < d2)
  BY <1>1, Past
<1> QED
  BY <1>1, <1>2

\* The version that a line of w goes on with.
LEMMA VersionAhead ==
  ASSUME NEW s, NEW w, NEW n \in Nat, Agree(s, w, n), NEW c, w[n + 1] = c,
         NEW a \in Int, a >= 1, NEW e \in Int, n <= e, w[e] = 13, w[e + 1] = 10,
         IsVersion(w, a, e - 1),
         NEW st \in RequestLineStates \ {"method_start", "method", "uri"}, VersionSoFar(s, st, a, n)
  PROVE  \E next : InRequestLine(st, c, next)
<1>0. \A k \in Int : 1 <= k /\ k <= n => w[k] = s[k]
  BY DEF Agree
<1>1. \A k, z \in Int : 1 <= k /\ z <= n => (All(s, k, z, Digits) <=> All(w, k, z, Digits))
  BY PartsAgree
<1>2. PICK d \in a + 6..(e - 1) - 1 : VersionAt(w, a, d, e - 1)
  BY DEF IsVersion
<1>3. /\ Http(w, a) /\ w[d] = 46 /\ All(w, a + 5, d - 1, Digits) /\ All(w, d + 1, e - 1, Digits)
      /\ d \in Int /\ a + 6 <= d /\ d <= e - 2
  BY <1>2 DEF VersionAt
<1>4. 46 \notin Digits /\ 13 \notin Digits /\ \A k : is_digit(k) <=> k \in Digits
  BY DEF Digits, is_digit
<1>5. \A m \in Int : All(w, a + 5, m, Digits) => m < d
  <2>1. a + 5 \in Int /\ a + 5 <= d /\ w[d] \notin Digits
    BY <1>3, <1>4
  <2> QED
    BY <1>3, <2>1, Past
<1>13. \A m \in Int : All(w, d + 1, m, Digits) => m < e
  <2>1. d + 1 \in Int /\ d + 1 <= e /\ w[e] \notin Digits
    BY <1>3, <1>4
  <2> QED
    BY <2>1, Past
<1>6. ASSUME NEW m \in Int, m <= n, IsVersion(s, a, m)
      PROVE  d + 1 <= m /\ All(w, d + 1, m, Digits)
  <2>1. IsVersion(w, a, m)
    BY <1>6, VersionAgrees
  <2>2. PICK d2 \in a + 6..m - 1 : VersionAt(w, a, d2, m)
    BY <2>1 DEF IsVersion
  <2>3. d2 = d
    BY <1>3, <2>2, SameDot DEF VersionAt
  <2> QED
    BY <2>2, <2>3 DEF VersionAt
<1>7. CASE st \in {"http_version_h", "http_version_t_1", "http_version_t_2", "http_version_p", "http_version_slash"}
  BY <1>3, <1>7 DEF VersionSoFar, InRequestLine, Http
<1>8. CASE st = "http_version_major_start"
  <2>1. n + 1 \in a + 5..d - 1
    BY <1>3, <1>8 DEF VersionSoFar
  <2> QED
    BY <1>3, <1>4, <1>8, <2>1 DEF All, InRequestLine
<1>9. CASE st = "http_version_major"
  <2>1. n >= a + 5 /\ All(w, a + 5, n, Digits)
    BY <1>1, <1>9 DEF VersionSoFar
  <2>2. n < d
    BY <1>5, <2>1
  <2>3. n + 1 = d \/ n + 1 \in a + 5..d - 1
    BY <1>3, <2>1, <2>2
  <2>4. c = 46 \/ is_digit(c)
    BY <1>3, <1>4, <2>3 DEF All
  <2> QED
    BY <1>9, <2>4 DEF InRequestLine
<1>10. CASE st = "http_version_minor_start"
  <2>1. n >= a + 6 /\ All(w, a + 5, n - 1, Digits) /\ w[n] = 46
    BY <1>0, <1>1, <1>10 DEF VersionSoFar
  <2>2. n = d
    BY <1>3, <2>1, SameDot
  <2>3. n + 1 \in d + 1..e - 1
    BY <1>3, <2>2
  <2>4. is_digit(c)
    BY <1>3, <1>4, <2>3 DEF All
  <2> QED
    BY <1>10, <2>4 DEF InRequestLine
<1>11. CASE st = "http_version_minor"
  <2>1. d + 1 <= n /\ All(w, d + 1, n, Digits)
    BY <1>6, <1>11 DEF VersionSoFar
  <2>2. n < e
    BY <1>13, <2>1
  <2>3. n + 1 = e \/ n + 1 \in d + 1..e - 1
    BY <1>3, <2>1, <2>2
  <2>4. c = 13 \/ is_digit(c)
    BY <1>3, <1>4, <2>3 DEF All
  <2> QED
    BY <1>11, <2>4 DEF InRequestLine, CR
<1>12. CASE st = "expecting_newline_1"
  <2>1. s[n] = 13 /\ IsVersion(s, a, n - 1)
    BY <1>12 DEF VersionSoFar
  <2>2. d + 1 <= n - 1
    BY <1>6, <2>1
  <2>3. w[n] = 13
    BY <1>0, <1>3, <2>1, <2>2
  <2>4. n \notin d + 1..e - 1
    BY <1>3, <1>4, <2>3 DEF All
  <2>5. n = e
    BY <1>3, <2>2, <2>4
  <2>6. c = 10
    BY <2>5
  <2> QED
    BY <1>12, <2>6 DEF InRequestLine, LF
<1> QED
  BY <1>7, <1>8, <1>9, <1>10, <1>11, <1>12 DEF RequestLineStates

\* The request line that w goes on with.
LEMMA RequestLineAhead ==
  ASSUME NEW s, NEW w, NEW n \in Nat, Agree(s, w, n), NEW c \in Char, w[n + 1] = c,
         NEW e \in Int, n <= e, w[e] = 13, w[e + 1] = 10, IsRequestLine(w, 1, e - 1),
         NEW st \in RequestLineStates, RequestLineSoFar(s, st, n)
  PROVE  \E next : InRequestLine(st, c, next)
<1>0. \A k \in Int : 1 <= k /\ k <= n => w[k] = s[k]
  BY DEF Agree
<1>1. PICK i \in 2..e - 1, j \in 2..e - 1 : BlanksAt(w, 1, i, j, e - 1)
  BY DEF IsRequestLine
<1>2. /\ i \in Int /\ j \in Int /\ 1 < i /\ i < j /\ j <= e - 1
      /\ w[i] = 32 /\ w[j] = 32 /\ UriAt(w, 1, i, j) /\ IsVersion(w, j + 1, e - 1)
      /\ Token(w, 1, i - 1) /\ Text(w, i + 1, j - 1) /\ None(w, i + 1, j - 1, {32})
  BY <1>1 DEF BlanksAt, UriAt
<1>3. CASE st \in {"method_start", "method"}
  <2>1. n < i
    <3>1. CASE st = "method_start"
      BY <1>2, <3>1 DEF RequestLineSoFar
    <3>2. CASE st = "method"
      <4>1. Token(w, 1, n)
        BY <3>2, PartsAgree DEF RequestLineSoFar
      <4>2. 1 \in Int /\ 1 <= i /\ w[i] \in {32, 58}
        BY <1>2
      <4> QED
        BY <1>2, <4>1, <4>2, PastToken
    <3> QED
      BY <1>3, <3>1, <3>2
  <2>2. n + 1 = i \/ n + 1 \in 1..i - 1
    BY <1>2, <2>1
  <2>3. CASE n + 1 = i
    <3>1. st = "method"
      BY <1>2, <1>3, <2>3 DEF RequestLineSoFar
    <3> QED
      BY <1>2, <2>3, <3>1 DEF InRequestLine, SP
  <2>4. CASE n + 1 \in 1..i - 1
    <3>1. IsToken(c)
      BY <1>2, <2>4, SameCharacters DEF Token, All
    <3> QED
      BY <1>3, <3>1 DEF InRequestLine
  <2> QED
    BY <2>2, <2>3, <2>4
<1>4. CASE st = "uri"
  <2>1. PICK i2 \in 2..n : UriAt(s, 1, i2, n + 1)
    BY <1>4 DEF RequestLineSoFar
  <2>2. UriAt(w, 1, i2, n + 1)
    BY <2>1, UriAgrees
  <2>3. w[i2] = 32 /\ Token(w, 1, i2 - 1) /\ None(w, i2 + 1, (n + 1) - 1, {32})
    BY <2>2 DEF UriAt
  <2>4. i2 = i
    <3>1. 1 \in Int /\ 1 <= i /\ 1 <= i2 /\ w[i] \in {32, 58} /\ w[i2] \in {32, 58} /\ i2 \in Int
      BY <1>2, <2>3
    <3>2. \A m \in Int : (Token(w, 1, m) => m < i) /\ (Token(w, 1, m) => m < i2)
      BY <1>2, <3>1, PastToken
    <3> QED
      BY <1>2, <2>3, <3>1, <3>2
  <2>5. i2 = i /\ n < j
    BY <1>2, <2>3, <2>4 DEF None
  <2>6. n + 1 = j \/ n + 1 \in i + 1..j - 1
    BY <1>2, <2>1, <2>5
  <2>7. c = 32 \/ (c # 32 /\ ~is_ctl(c))
    BY <1>2, <2>6, SameCharacters DEF Text, None
  <2> QED
    BY <1>4, <2>7 DEF InRequestLine, SP
<1>5. CASE st \notin {"method_start", "method", "uri"}
  <2>1. PICK i2 \in 2..n, j2 \in 2..n : i2 < j2 /\ UriAt(s, 1, i2, j2) /\ s[j2] = 32 /\ VersionSoFar(s, st, j2 + 1, n)
    BY <1>5 DEF RequestLineSoFar
  <2>2. i2 \in Int /\ j2 \in Int /\ 1 < i2 /\ j2 <= n + 1
    BY <2>1
  <2>3. UriAt(w, 1, i2, j2) /\ w[j2] = 32
    BY <1>0, <2>1, <2>2, UriAgrees
  <2>4. j2 = j
    BY <1>2, <2>1, <2>2, <2>3, SameBlanks
  <2>5. VersionSoFar(s, st, j + 1, n) /\ j + 1 \in Int /\ j + 1 >= 1
    BY <1>2, <2>1, <2>4
  <2> QED
    BY <1>2, <1>5, <2>5, VersionAhead
<1> QED
  BY <1>3, <1>4, <1>5

\* What is left of a field or of a continuation.
LEMMA FieldAhead ==
  ASSUME NEW w, NEW b \in Int, NEW n \in Int, NEW e \in Int, b <= n, n < e, w[e] = 13, NEW c \in Char, w[n + 1] = c,
         NEW i \in Int, i + 1 <= n, Text(w, i + 2, e - 1)
  PROVE  c = 13 \/ ~is_ctl(c)
<1>1. n + 1 = e \/ n + 1 \in i + 2..e - 1
  OBVIOUS
<1> QED
  BY <1>1, SameCharacters DEF Text, None

\* The header line that w goes on with.
LEMMA HeaderLineAhead ==
  ASSUME NEW s, NEW w, NEW n \in Nat, Agree(s, w, n), NEW c \in Char, w[n + 1] = c,
         NEW b \in Int, b >= 3, EndsFirst(s, b - 2) <=> EndsFirst(w, b - 2),
         NEW e \in Int, n <= e, b <= e, w[e] = 13, w[e + 1] = 10, e = b \/ IsHeaderLine(w, b - 2, e),
         NEW st \in HeaderStates, NEW folded \in BOOLEAN, HeaderLineSoFar(s, st, folded, b, n)
  PROVE  \E next : InHeaders(st, c, folded, next)
<1> DEFINE FieldHas(i) == /\ i \in Int /\ b < i /\ i < e - 1 /\ Token(w, b, i - 1)
                          /\ w[i] = 58 /\ w[i + 1] = 32 /\ Text(w, i + 2, e - 1)
           ContinuationHas(i) == /\ i \in Int /\ b <= i /\ i < e /\ ~EndsFirst(w, b - 2)
                                 /\ All(w, b, i, Blanks) /\ Text(w, i + 1, e - 1)
<1>0. \A k \in Int : 1 <= k /\ k <= n => w[k] = s[k]
  BY DEF Agree
<1>1. 13 \in Controls /\ 13 \notin Blanks /\ 13 \notin (33..126) \ Separators /\ 58 \notin (33..126) \ Separators
      /\ \A x : x \in Blanks => x \notin (33..126) \ Separators
  BY DEF Controls, Blanks, Separators
<1>2. e = b \/ (\E i : FieldHas(i)) \/ (\E i : ContinuationHas(i))
  <2>1. (b - 2) + 2 = b
    OBVIOUS
  <2>2. CASE IsField(w, b, e - 1)
    <3>1. PICK i \in b + 1..(e - 1) - 1 : Token(w, b, i - 1) /\ w[i] = 58 /\ w[i + 1] = 32 /\ Text(w, i + 2, e - 1)
      BY <2>2 DEF IsField
    <3>2. FieldHas(i)
      BY <3>1
    <3> QED
      BY <3>2
  <2>3. CASE ~EndsFirst(w, b - 2) /\ IsContinuation(w, b, e - 1)
    <3>1. PICK i \in b..e - 1 : All(w, b, i, Blanks) /\ Text(w, i + 1, e - 1)
      BY <2>3 DEF IsContinuation
    <3>2. ContinuationHas(i)
      BY <2>3, <3>1
    <3> QED
      BY <3>2
  <2> QED
    BY <2>1, <2>2, <2>3 DEF IsHeaderLine
<1>3. \A i : FieldHas(i) => w[b] \in (33..126) \ Separators
  BY DEF Token, All
<1>4. \A i : ContinuationHas(i) => w[b] \in Blanks
  BY DEF All
<1>5. (\E i : FieldHas(i)) \/ (\E i : ContinuationHas(i)) => \A k \in b..e - 1 : w[k] # 13
  <2>1. e - 1 \in Int
    OBVIOUS
  <2>2. ASSUME NEW i, FieldHas(i)
        PROVE  IsField(w, b, e - 1)
    BY <2>2 DEF IsField
  <2>3. ASSUME NEW i, ContinuationHas(i)
        PROVE  IsContinuation(w, b, e - 1)
    BY <2>3 DEF IsContinuation
  <2> HIDE DEF FieldHas, ContinuationHas
  <2> QED
    BY <2>1, <2>2, <2>3, NoReturn
<1>6. \A i, m \in Int : FieldHas(i) /\ Token(w, b, m) => m < i
  <2>1. ASSUME NEW i \in Int, FieldHas(i)
        PROVE  \A m \in Int : Token(w, b, m) => m < i
    <3>1. b <= i /\ w[i] \in {32, 58}
      BY <2>1
    <3> QED
      BY <3>1, PastToken
  <2> QED
    BY <2>1
<1>7. n \in Int /\ b >= 1 /\ n - 1 \in Int /\ n - 1 <= n
  OBVIOUS
<1>8. CASE st = "header_line_start"
  <2>1. n + 1 = b /\ (folded <=> ~EndsFirst(w, b - 2))
    BY <1>8 DEF HeaderLineSoFar
  <2>2. c = 13 \/ IsToken(c) \/ (folded /\ c \in {SP, TAB})
    BY <1>2, <1>3, <1>4, <2>1, SameCharacters DEF Blanks, SP, TAB
  <2> QED
    BY <1>8, <2>2 DEF InHeaders, CR
<1>9. ASSUME NEW m \in Int, b <= m, m <= n, Token(s, b, m)
      PROVE  Token(w, b, m) /\ \E i : FieldHas(i) /\ m < i
  <2>1. Token(w, b, m)
    BY <1>7, <1>9, PartsAgree
  <2>2. w[b] \in (33..126) \ Separators
    BY <1>9, <2>1 DEF Token, All
  <2>3. PICK i : FieldHas(i)
    BY <1>1, <1>2, <1>4, <2>2
  <2>4. m < i
    BY <1>6, <1>9, <2>1, <2>3
  <2> QED
    BY <2>1, <2>3, <2>4
<1>10. CASE st = "header_name"
  <2>1. b <= n /\ Token(s, b, n)
    BY <1>10 DEF HeaderLineSoFar, Token
  <2>2. PICK i : FieldHas(i) /\ n < i
    BY <1>9, <2>1
  <2>3. n + 1 = i \/ n + 1 \in b..i - 1
    BY <2>1, <2>2
  <2>4. c = 58 \/ IsToken(c)
    BY <2>2, <2>3, SameCharacters DEF Token, All
  <2> QED
    BY <1>10, <2>4 DEF InHeaders
<1>11. CASE st = "space_before_header_value"
  <2>1. n > b /\ Token(s, b, n - 1) /\ w[n] = 58
    BY <1>0, <1>11 DEF HeaderLineSoFar
  <2>2. PICK i : FieldHas(i) /\ n - 1 < i
    BY <1>7, <1>9, <2>1
  <2>3. n \notin b..i - 1
    BY <1>1, <2>1, <2>2 DEF Token, All
  <2>4. n = i
    BY <2>1, <2>2, <2>3
  <2> QED
    BY <1>11, <2>2, <2>4 DEF InHeaders, SP
<1>12. CASE st = "header_lws"
  <2>1. b <= n /\ All(w, b, n, Blanks)
    BY <1>7, <1>12, PartsAgree DEF HeaderLineSoFar
  <2>2. w[b] \in Blanks /\ w[n] \in Blanks
    BY <2>1 DEF All
  <2>3. PICK i : ContinuationHas(i)
    BY <1>1, <1>2, <1>3, <2>2
  <2>4. n < e
    BY <1>1, <2>2
  <2>5. n + 1 = e \/ n + 1 \in b..i \/ n + 1 \in i + 1..e - 1
    BY <2>1, <2>3, <2>4
  <2>6. c = 13 \/ c \in Blanks \/ c \notin Controls
    BY <2>3, <2>5 DEF All, Text, None
  <2>7. c = 13 \/ c \in {SP, TAB} \/ (c # SP /\ ~is_ctl(c))
    BY <2>6, SameCharacters DEF Blanks, SP, TAB
  <2> QED
    BY <1>12, <2>7 DEF InHeaders, CR
<1>13. CASE st = "header_value"
  <2>1. \/ IsField(s, b, n)
        \/ IsContinuation(s, b, n) /\ ~All(s, b, n, Blanks)
    BY <1>13 DEF HeaderLineSoFar
  <2>2. /\ IsField(s, b, n) <=> IsField(w, b, n)
        /\ IsContinuation(s, b, n) <=> IsContinuation(w, b, n)
        /\ All(s, b, n, Blanks) <=> All(w, b, n, Blanks)
    BY <1>7, LinesAgree, PartsAgree
  <2>3. b <= n /\ \A k \in b..n : w[k] # 13
    BY <1>7, <2>1, <2>2, NoReturn
  <2>4. n < e
    BY <2>3
  <2>5. CASE IsField(w, b, n)
    <3>1. PICK m \in b + 1..n - 1 : Token(w, b, m - 1) /\ w[m] = 58 /\ w[m + 1] = 32 /\ Text(w, m + 2, n)
      BY <2>5 DEF IsField
    <3>2. w[b] \in (33..126) \ Separators
      BY <3>1 DEF Token, All
    <3>3. PICK i : FieldHas(i)
      BY <1>1, <1>2, <1>4, <2>3, <3>2
    <3>4. m <= i
      BY <1>6, <3>1, <3>3
    <3>5. m \notin b..i - 1
      BY <1>1, <3>1, <3>3 DEF Token, All
    <3>6. i = m /\ i \in Int /\ i + 1 <= n /\ Text(w, i + 2, e - 1)
      BY <3>1, <3>3, <3>4, <3>5
    <3>7. c = 13 \/ ~is_ctl(c)
      BY <1>7, <2>3, <2>4, <3>6, FieldAhead
    <3> QED
      BY <1>13, <3>7 DEF InHeaders, CR
  <2>6. CASE IsContinuation(w, b, n) /\ ~All(w, b, n, Blanks)
    <3>1. PICK m \in b..n : All(w, b, m, Blanks) /\ Text(w, m + 1, n)
      BY <2>6 DEF IsContinuation
    <3>2. w[b] \in Blanks
      BY <3>1 DEF All
    <3>3. PICK i : ContinuationHas(i)
      BY <1>1, <1>2, <1>3, <2>3, <2>4, <3>2
    <3>4. ~(n <= i)
      BY <2>6, <3>3 DEF All
    <3>5. n + 1 = e \/ n + 1 \in i + 1..e - 1
      BY <2>4, <3>3, <3>4
    <3>6. c = 13 \/ ~is_ctl(c)
      BY <3>3, <3>5, SameCharacters DEF Text, None
    <3> QED
      BY <1>13, <3>6 DEF InHeaders, CR
  <2> QED
    BY <2>1, <2>2, <2>5, <2>6
<1>14. CASE st = "expecting_newline_2"
  <2>1. s[n] = 13 /\ IsHeaderLine(s, b - 2, n)
    BY <1>14 DEF HeaderLineSoFar
  <2>2. IsField(s, b, n - 1) \/ IsContinuation(s, b, n - 1)
    <3>1. (b - 2) + 2 = b
      OBVIOUS
    <3> QED
      BY <2>1, <3>1 DEF IsHeaderLine
  <2>3. b <= n - 1
    BY <1>7, <2>2, NoReturn
  <2>4. w[n] = 13
    BY <1>0, <2>1, <2>3
  <2>5. n = e
    BY <1>2, <1>5, <2>3, <2>4
  <2>6. c = 10
    BY <2>5
  <2> QED
    BY <1>14, <2>6 DEF InHeaders, LF
<1>15. CASE st = "expecting_newline_3"
  <2>1. n = b /\ w[b] = 13
    BY <1>0, <1>15 DEF HeaderLineSoFar
  <2>2. e = b
    BY <1>1, <1>2, <1>3, <1>4, <2>1
  <2>3. c = 10
    BY <2>1, <2>2
  <2> QED
    BY <1>15, <2>3 DEF InHeaders, LF
<1> QED
  BY <1>8, <1>10, <1>11, <1>12, <1>13, <1>14, <1>15 DEF HeaderStates

\* Wherever a well-formed text goes on from one that has been read, the parser does.
LEMMA MoveAhead ==
  ASSUME NEW s \in Seq(Char), NEW w \in Seq(Char), Len(s) < Len(w), Agree(s, w, Len(s)), WellFormed(w),
         NEW st, NEW folded \in BOOLEAN, Reads(s, st, folded)
  PROVE  \E next : InRequestLine(st, w[Len(s) + 1], next) \/ InHeaders(st, w[Len(s) + 1], folded, next)
<1> DEFINE n == Len(s)
           c == w[n + 1]
<1>0. n \in Nat /\ n + 1 \in 1..Len(w) /\ n <= Len(w)
  BY LenProperties
<1>1. c \in Char
  BY <1>0, ElementOfSeq
<1>2. CASE st \in RequestLineStates /\ Begins(s, 1) /\ RequestLineSoFar(s, st, n)
  <2>1. 1 \in Int
    OBVIOUS
  <2>2. PICK e \in Nat : LineAt(s, w, 1, e)
    BY <1>2, <2>1, LineAhead
  <2>3. n <= e /\ w[e] = 13 /\ w[e + 1] = 10 /\ IsRequestLine(w, 1, e - 1) /\ e \in Int
    BY <2>2 DEF LineAt
  <2> HIDE DEF n, c
  <2>4. \E next : InRequestLine(st, c, next)
    BY <1>0, <1>1, <1>2, <2>3, RequestLineAhead DEF n, c
  <2> QED
    BY <2>4 DEF n, c
<1>3. CASE st \in HeaderStates /\ \E b \in 3..n + 1 : Begins(s, b) /\ HeaderLineSoFar(s, st, folded, b, n)
  <2>1. PICK b \in 3..n + 1 : Begins(s, b) /\ HeaderLineSoFar(s, st, folded, b, n)
    BY <1>3
  <2>2. b \in Int /\ b >= 3 /\ b # 1
    BY <2>1
  <2>3. PICK e \in Nat : LineAt(s, w, b, e)
    BY <2>1, <2>2, LineAhead
  <2>4. /\ n <= e /\ b <= e /\ w[e] = 13 /\ w[e + 1] = 10 /\ e \in Int
        /\ e = b \/ IsHeaderLine(w, b - 2, e)
    BY <2>2, <2>3 DEF LineAt
  <2>5. b - 2 \in Ends(s)
    BY <2>1, <2>2 DEF Begins
  <2>6. EndsFirst(s, b - 2) <=> EndsFirst(w, b - 2)
    BY <1>0, <2>5, HeaderLinesAgree
  <2>7. \E next : InHeaders(st, c, folded, next)
    <3> HIDE DEF n, c
    <3> QED
      BY <1>0, <1>1, <1>3, <2>1, <2>2, <2>4, <2>6, HeaderLineAhead DEF n, c
  <2> QED
    BY <2>7
<1> QED
  BY <1>2, <1>3 DEF Reads

-----------------------------------------------------------------------------
(* What the parser still reads can be finished *)

LEMMA SmallText == Len(Small) = 21 /\ \A k \in 1..21 : Small[k] \in Char
<1>1. Len(Small) = 21 /\ \A k \in 1..21 : Small[k] \in 10..84
  BY DEF Small
<1> QED
  BY <1>1 DEF Char

LEMMA EndText ==
  ASSUME NEW i \in Int, 1 <= i, i <= 22
  PROVE  /\ End(i) \in Seq(Char) /\ Len(End(i)) = 22 - i
         /\ \A k \in 1..22 - i : End(i)[k] = Small[i + k - 1]
<1>1. i \in Int /\ 21 \in Int /\ \A k \in i..21 : Small[k] \in Char
  BY SmallText
<1>2. /\ SubSeq(Small, i, 21) \in Seq(Char)
      /\ Len(SubSeq(Small, i, 21)) = IF i <= 21 THEN 21 - i + 1 ELSE 0
      /\ \A k \in 1..21 - i + 1 : SubSeq(Small, i, 21)[k] = Small[i + k - 1]
  BY <1>1, SubSeqProperties
<1>3. /\ End(i) = SubSeq(Small, i, 21) /\ 21 - i + 1 = 22 - i
      /\ (IF i <= 21 THEN 21 - i + 1 ELSE 0) = 22 - i
  BY SmallText DEF End
<1> QED
  BY <1>2, <1>3

\* The next character of an end goes to the text before it.
LEMMA EndMoves ==
  ASSUME NEW s \in Seq(Char), NEW i \in 1..21
  PROVE  s \o End(i) = Append(s, Small[i]) \o End(i + 1)
<1> DEFINE c == Small[i]
           t == Append(s, c)
           l == End(i)
           r == End(i + 1)
           n == Len(s)
<1>0. /\ l \in Seq(Char) /\ Len(l) = 22 - i /\ \A k \in 1..22 - i : l[k] = Small[i + k - 1]
      /\ c \in Char
  <2>1. i \in Int /\ 1 <= i /\ i <= 22
    OBVIOUS
  <2> QED
    BY <2>1, SmallText, EndText
<1>1. r \in Seq(Char) /\ Len(r) = 21 - i /\ \A k \in 1..21 - i : r[k] = Small[i + k]
  <2>1. i + 1 \in Int /\ 1 <= i + 1 /\ i + 1 <= 22 /\ 22 - (i + 1) = 21 - i
    OBVIOUS
  <2>2. r \in Seq(Char) /\ Len(r) = 21 - i /\ \A k \in 1..21 - i : r[k] = Small[(i + 1) + k - 1]
    <3> HIDE DEF r
    <3>1. /\ r \in Seq(Char) /\ Len(r) = 22 - (i + 1)
          /\ \A k \in 1..22 - (i + 1) : r[k] = Small[(i + 1) + k - 1]
      BY <2>1, EndText DEF r
    <3> QED
      BY <2>1, <3>1
  <2>3. \A k \in 1..21 - i : (i + 1) + k - 1 = i + k
    OBVIOUS
  <2> QED
    BY <2>2, <2>3
<1>2. t \in Seq(Char) /\ n \in Nat /\ Len(t) = n + 1 /\ t[n + 1] = c /\ \A k \in 1..n : t[k] = s[k]
  BY <1>0, AppendAgrees DEF Agree
<1> HIDE DEF l, r, t, c
<1>3. /\ s \o l \in Seq(Char) /\ Len(s \o l) = n + (22 - i)
      /\ \A k \in 1..n + (22 - i) : (s \o l)[k] = IF k <= n THEN s[k] ELSE l[k - n]
  BY <1>0, ConcatProperties
<1>4. /\ t \o r \in Seq(Char) /\ Len(t \o r) = (n + 1) + (21 - i)
      /\ \A k \in 1..(n + 1) + (21 - i) : (t \o r)[k] = IF k <= n + 1 THEN t[k] ELSE r[k - (n + 1)]
  BY <1>1, <1>2, ConcatProperties
<1>5. n + (22 - i) = (n + 1) + (21 - i)
  BY <1>2
<1>6. ASSUME NEW k \in 1..n + (22 - i)
      PROVE  (s \o l)[k] = (t \o r)[k]
  <2>1. CASE k <= n
    <3>1. k \in 1..n /\ k <= n + 1
      BY <1>2, <2>1
    <3> QED
      BY <1>2, <1>3, <1>4, <1>5, <2>1, <3>1
  <2>2. CASE k = n + 1
    <3>1. k - n = 1 /\ 1 \in 1..22 - i /\ i + 1 - 1 = i /\ ~(k <= n) /\ k <= n + 1
      BY <1>2, <2>2
    <3>2. l[1] = c
      BY <1>0, <3>1 DEF c
    <3> QED
      BY <1>2, <1>3, <1>4, <1>5, <2>2, <3>1, <3>2
  <2>3. CASE k > n + 1
    <3>1. /\ ~(k <= n) /\ ~(k <= n + 1) /\ k - n \in 1..22 - i /\ k - (n + 1) \in 1..21 - i
          /\ i + (k - n) - 1 = i + (k - (n + 1))
      BY <1>2, <2>3
    <3>2. l[k - n] = Small[i + (k - n) - 1] /\ r[k - (n + 1)] = Small[i + (k - (n + 1))]
      BY <1>0, <1>1, <3>1
    <3> QED
      BY <1>3, <1>4, <1>5, <3>1, <3>2
  <2> QED
    <3>1. k <= n \/ k = n + 1 \/ k > n + 1
      BY <1>2
    <3> QED
      BY <2>1, <2>2, <2>3, <3>1
<1>7. s \o l = t \o r
  BY <1>3, <1>4, <1>5, <1>6, SeqEqual
<1> QED
  BY <1>7 DEF l, r, t, c

\* With the i-th of the ends, a text that the parser has read to state st is
\* well-formed.
Finishes(i, st) ==
  \A s \in Seq(Char), folded \in BOOLEAN : Reads(s, st, folded) => WellFormed(s \o End(i))

LEMMA FinishesInLine ==
  ASSUME NEW i \in 1..21, NEW st, NEW next, Finishes(i + 1, next), InRequestLine(st, Small[i], next)
  PROVE  Finishes(i, st)
<1> SUFFICES ASSUME NEW s \in Seq(Char), NEW folded \in BOOLEAN, Reads(s, st, folded)
             PROVE  WellFormed(s \o End(i))
  BY DEF Finishes
<1> DEFINE t == Append(s, Small[i])
<1>1. Small[i] \in Char
  BY SmallText
<1>2. t \in Seq(Char) /\ Reads(t, next, folded)
  BY <1>1, AppendAgrees, RequestLineNext
<1>3. WellFormed(t \o End(i + 1))
  BY <1>2 DEF Finishes
<1> QED
  BY <1>3, EndMoves

LEMMA FinishesInHeaders ==
  ASSUME NEW i \in 1..21, NEW st, NEW next, Finishes(i + 1, next), next # "good",
         \A folded \in BOOLEAN : InHeaders(st, Small[i], folded, next)
  PROVE  Finishes(i, st)
<1> SUFFICES ASSUME NEW s \in Seq(Char), NEW folded \in BOOLEAN, Reads(s, st, folded)
             PROVE  WellFormed(s \o End(i))
  BY DEF Finishes
<1> DEFINE t == Append(s, Small[i])
<1>1. Small[i] \in Char
  BY SmallText
<1>2. t \in Seq(Char) /\ Reads(t, next, folded \/ next \in Inside)
  BY <1>1, AppendAgrees, HeaderLineNext
<1>3. WellFormed(t \o End(i + 1))
  BY <1>2 DEF Finishes
<1> QED
  BY <1>3, EndMoves

LEMMA FinishesLast == Finishes(21, "expecting_newline_3")
<1> SUFFICES ASSUME NEW s \in Seq(Char), NEW folded \in BOOLEAN, Reads(s, "expecting_newline_3", folded)
             PROVE  WellFormed(s \o End(21))
  BY DEF Finishes
<1> DEFINE t == Append(s, Small[21])
<1>1. Small[21] = 10 /\ 10 \in Char
  BY DEF Small, Char
<1>2. t \in Seq(Char) /\ WellFormed(t)
  BY <1>1, AppendAgrees, LastNext DEF InHeaders, LF
<1>3. End(22) = <<>>
  <2>1. End(22) \in Seq(Char) /\ Len(End(22)) = 22 - 22
    BY EndText
  <2> QED
    BY <2>1, EmptySeq
<1>4. s \o End(21) = t \o End(22)
  <2>1. \A i \in 1..21 : s \o End(i) = Append(s, Small[i]) \o End(i + 1)
    BY EndMoves
  <2>2. 21 \in 1..21 /\ 21 + 1 = 22
    OBVIOUS
  <2>3. s \o End(21) = Append(s, Small[21]) \o End(21 + 1)
    BY <2>1, <2>2, Zenon
  <2> QED
    BY <2>2, <2>3
<1>5. t \o End(22) = t
  BY <1>2, <1>3, ConcatEmptySeq
<1> QED
  BY <1>2, <1>4, <1>5

\* Small[i] is the character that is wanted.
LEMMA SmallCharacters ==
  /\ Small[1] = 71 /\ Small[2] = 32 /\ Small[3] = 47 /\ Small[4] = 32 /\ Small[5] = 72 /\ Small[6] = 84
  /\ Small[7] = 84 /\ Small[8] = 80 /\ Small[9] = 47 /\ Small[10] = 49 /\ Small[11] = 46 /\ Small[12] = 49
  /\ Small[13] = 13 /\ Small[14] = 10 /\ Small[15] = 65 /\ Small[16] = 58 /\ Small[17] = 32
  /\ Small[18] = 13 /\ Small[19] = 10 /\ Small[20] = 13 /\ Small[21] = 10
BY DEF Small

LEMMA CanBeFinished ==
  ASSUME NEW s \in Seq(Char), NEW st, NEW folded \in BOOLEAN, Reads(s, st, folded)
  PROVE  Hopeful(s)
<1> USE DEF SP, TAB, CR, LF
<1>1. IsToken(71) /\ IsToken(65) /\ ~is_ctl(47) /\ is_digit(49)
  BY DEF IsToken, is_char, is_ctl, is_tspecial, is_digit
<1>2. /\ Finishes(21, "expecting_newline_3") /\ Finishes(20, "header_line_start")
      /\ Finishes(19, "expecting_newline_2") /\ Finishes(18, "header_value") /\ Finishes(18, "header_lws")
  <2>1. Finishes(20, "header_line_start")
    <3>1. 20 \in 1..21 /\ Finishes(20 + 1, "expecting_newline_3")
      BY FinishesLast
    <3>2. \A f \in BOOLEAN : InHeaders("header_line_start", Small[20], f, "expecting_newline_3")
      BY SmallCharacters DEF InHeaders
    <3> QED
      BY <3>1, <3>2, FinishesInHeaders
  <2>2. Finishes(19, "expecting_newline_2")
    <3>1. 19 \in 1..21 /\ Finishes(19 + 1, "header_line_start")
      BY <2>1
    <3>2. \A f \in BOOLEAN : InHeaders("expecting_newline_2", Small[19], f, "header_line_start")
      BY SmallCharacters DEF InHeaders
    <3> QED
      BY <3>1, <3>2, FinishesInHeaders
  <2>3. ASSUME NEW state \in {"header_value", "header_lws"}
        PROVE  Finishes(18, state)
    <3>1. 18 \in 1..21 /\ Finishes(18 + 1, "expecting_newline_2")
      BY <2>2
    <3>2. \A f \in BOOLEAN : InHeaders(state, Small[18], f, "expecting_newline_2")
      BY SmallCharacters DEF InHeaders
    <3> QED
      BY <3>1, <3>2, FinishesInHeaders
  <2> QED
    BY <2>1, <2>2, <2>3, FinishesLast
<1>3. Finishes(17, "space_before_header_value") /\ Finishes(16, "header_name") /\ Finishes(15, "header_line_start")
  <2>1. Finishes(17, "space_before_header_value")
    <3>1. 17 \in 1..21 /\ Finishes(17 + 1, "header_value")
      BY <1>2
    <3>2. \A f \in BOOLEAN : InHeaders("space_before_header_value", Small[17], f, "header_value")
      BY SmallCharacters DEF InHeaders
    <3> QED
      BY <3>1, <3>2, FinishesInHeaders
  <2>2. Finishes(16, "header_name")
    <3>1. 16 \in 1..21 /\ Finishes(16 + 1, "space_before_header_value")
      BY <2>1
    <3>2. \A f \in BOOLEAN : InHeaders("header_name", Small[16], f, "space_before_header_value")
      BY SmallCharacters DEF InHeaders
    <3> QED
      BY <3>1, <3>2, FinishesInHeaders
  <2>3. Finishes(15, "header_line_start")
    <3>1. 15 \in 1..21 /\ Finishes(15 + 1, "header_name")
      BY <2>2
    <3>2. \A f \in BOOLEAN : InHeaders("header_line_start", Small[15], f, "header_name")
      BY <1>1, SmallCharacters DEF InHeaders
    <3> QED
      BY <3>1, <3>2, FinishesInHeaders
  <2> QED
    BY <2>1, <2>2, <2>3
<1>4. /\ Finishes(14, "expecting_newline_1") /\ Finishes(13, "http_version_minor")
      /\ Finishes(12, "http_version_minor_start") /\ Finishes(11, "http_version_major")
      /\ Finishes(10, "http_version_major_start")
  <2>1. Finishes(14, "expecting_newline_1")
    <3>1. 14 \in 1..21 /\ Finishes(14 + 1, "header_line_start")
      BY <1>3
    <3>2. InRequestLine("expecting_newline_1", Small[14], "header_line_start")
      BY SmallCharacters DEF InRequestLine
    <3> QED
      BY <3>1, <3>2, FinishesInLine
  <2>2. Finishes(13, "http_version_minor")
    <3>1. 13 \in 1..21 /\ Finishes(13 + 1, "expecting_newline_1")
      BY <2>1
    <3>2. InRequestLine("http_version_minor", Small[13], "expecting_newline_1")
      BY SmallCharacters DEF InRequestLine
    <3> QED
      BY <3>1, <3>2, FinishesInLine
  <2>3. Finishes(12, "http_version_minor_start")
    <3>1. 12 \in 1..21 /\ Finishes(12 + 1, "http_version_minor")
      BY <2>2
    <3>2. InRequestLine("http_version_minor_start", Small[12], "http_version_minor")
      BY <1>1, SmallCharacters DEF InRequestLine
    <3> QED
      BY <3>1, <3>2, FinishesInLine
  <2>4. Finishes(11, "http_version_major")
    <3>1. 11 \in 1..21 /\ Finishes(11 + 1, "http_version_minor_start")
      BY <2>3
    <3>2. InRequestLine("http_version_major", Small[11], "http_version_minor_start")
      BY SmallCharacters DEF InRequestLine
    <3> QED
      BY <3>1, <3>2, FinishesInLine
  <2>5. Finishes(10, "http_version_major_start")
    <3>1. 10 \in 1..21 /\ Finishes(10 + 1, "http_version_major")
      BY <2>4
    <3>2. InRequestLine("http_version_major_start", Small[10], "http_version_major")
      BY <1>1, SmallCharacters DEF InRequestLine
    <3> QED
      BY <3>1, <3>2, FinishesInLine
  <2> QED
    BY <2>1, <2>2, <2>3, <2>4, <2>5
<1>5. /\ Finishes(9, "http_version_slash") /\ Finishes(8, "http_version_p") /\ Finishes(7, "http_version_t_2")
      /\ Finishes(6, "http_version_t_1") /\ Finishes(5, "http_version_h")
  <2>1. Finishes(9, "http_version_slash")
    <3>1. 9 \in 1..21 /\ Finishes(9 + 1, "http_version_major_start")
      BY <1>4
    <3>2. InRequestLine("http_version_slash", Small[9], "http_version_major_start")
      BY SmallCharacters DEF InRequestLine
    <3> QED
      BY <3>1, <3>2, FinishesInLine
  <2>2. Finishes(8, "http_version_p")
    <3>1. 8 \in 1..21 /\ Finishes(8 + 1, "http_version_slash")
      BY <2>1
    <3>2. InRequestLine("http_version_p", Small[8], "http_version_slash")
      BY SmallCharacters DEF InRequestLine
    <3> QED
      BY <3>1, <3>2, FinishesInLine
  <2>3. Finishes(7, "http_version_t_2")
    <3>1. 7 \in 1..21 /\ Finishes(7 + 1, "http_version_p")
      BY <2>2
    <3>2. InRequestLine("http_version_t_2", Small[7], "http_version_p")
      BY SmallCharacters DEF InRequestLine
    <3> QED
      BY <3>1, <3>2, FinishesInLine
  <2>4. Finishes(6, "http_version_t_1")
    <3>1. 6 \in 1..21 /\ Finishes(6 + 1, "http_version_t_2")
      BY <2>3
    <3>2. InRequestLine("http_version_t_1", Small[6], "http_version_t_2")
      BY SmallCharacters DEF InRequestLine
    <3> QED
      BY <3>1, <3>2, FinishesInLine
  <2>5. Finishes(5, "http_version_h")
    <3>1. 5 \in 1..21 /\ Finishes(5 + 1, "http_version_t_1")
      BY <2>4
    <3>2. InRequestLine("http_version_h", Small[5], "http_version_t_1")
      BY SmallCharacters DEF InRequestLine
    <3> QED
      BY <3>1, <3>2, FinishesInLine
  <2> QED
    BY <2>1, <2>2, <2>3, <2>4, <2>5
<1>6. Finishes(4, "uri") /\ Finishes(2, "method") /\ Finishes(1, "method_start")
  <2>1. Finishes(4, "uri")
    <3>1. 4 \in 1..21 /\ Finishes(4 + 1, "http_version_h")
      BY <1>5
    <3>2. InRequestLine("uri", Small[4], "http_version_h")
      BY SmallCharacters DEF InRequestLine
    <3> QED
      BY <3>1, <3>2, FinishesInLine
  <2>2. Finishes(3, "uri")
    <3>1. 3 \in 1..21 /\ Finishes(3 + 1, "uri")
      BY <2>1
    <3>2. InRequestLine("uri", Small[3], "uri")
      BY <1>1, SmallCharacters DEF InRequestLine
    <3> QED
      BY <3>1, <3>2, FinishesInLine
  <2>3. Finishes(2, "method")
    <3>1. 2 \in 1..21 /\ Finishes(2 + 1, "uri")
      BY <2>2
    <3>2. InRequestLine("method", Small[2], "uri")
      BY SmallCharacters DEF InRequestLine
    <3> QED
      BY <3>1, <3>2, FinishesInLine
  <2>4. Finishes(1, "method_start")
    <3>1. 1 \in 1..21 /\ Finishes(1 + 1, "method")
      BY <2>3
    <3>2. InRequestLine("method_start", Small[1], "method")
      BY <1>1, SmallCharacters DEF InRequestLine
    <3> QED
      BY <3>1, <3>2, FinishesInLine
  <2> QED
    BY <2>1, <2>3, <2>4
<1>7. st \in RequestLineStates \cup HeaderStates
  BY DEF Reads
<1>8. \E i \in 1..21 : Finishes(i, st)
  <2>1. CASE st \in HeaderStates
    BY <1>2, <1>3, <2>1 DEF HeaderStates
  <2>2. CASE st \in RequestLineStates
    BY <1>4, <1>5, <1>6, <2>2 DEF RequestLineStates
  <2> QED
    BY <1>7, <2>1, <2>2
<1>9. \E i \in 1..21 : WellFormed(s \o End(i))
  BY <1>8 DEF Finishes
<1> QED
  BY <1>9, SmallText DEF Hopeful

-----------------------------------------------------------------------------

\* How far the line that has been seen is in the request, from state to state.
LineSoFar ==
  LET m == request.method
      u == request.uri
  IN  result # "bad" =>
        /\ \A i \in 1..Len(m) : seen[i] = m[i]
        /\ \A i \in 1..Len(u) : seen[Len(m) + 1 + i] = u[i]
        /\ state_ = "method_start" => m = <<>> /\ u = <<>> /\ seen = <<>>
        /\ state_ = "method" => u = <<>> /\ Len(seen) = Len(m)
        /\ state_ = "uri" => Len(seen) = Len(m) + 1 + Len(u) /\ seen[Len(m) + 1] = SP
        /\ state_ \notin {"method_start", "method", "uri"} =>
             /\ Len(m) + Len(u) + 2 <= Len(seen)
             /\ seen[Len(m) + 1] = SP /\ seen[Len(m) + Len(u) + 2] = SP

\* What the verdict, or having none yet, says of the bytes that have been seen.
Recognised ==
  /\ result = "indeterminate" => Reads(seen, state_, request.headers # <<>>)
  /\ result = "good" => WellFormed(seen)
  /\ result = "bad" => \A t \in Seq(Char) : ~WellFormed(seen \o t)

IInv ==
  /\ TypeOK
  /\ BackIsDefined
  /\ LineSoFar
  /\ Recognised
  /\ result = "good" => state_ \in HeaderStates

THEOREM InitEstablishes == Init => IInv
<1> SUFFICES ASSUME Init PROVE IInv
  OBVIOUS
<1>1. request \in Request
  <2>1. 0 \in IntValues
    BY SizeAssumption DEF IntValues
  <2>2. <<>> \in Seq(TokenChars) /\ <<>> \in Seq(TextChars \ {SP}) /\ <<>> \in Seq(HeaderType)
    BY EmptySeq
  <2> QED
    BY <2>1, <2>2 DEF Init, Request, HeaderType
<1>2. <<>> \in Seq(Char) /\ unsent \in Seq(Char)
  BY InputsAssumption, EmptySeq DEF Init
<1>3. TypeOK
  BY <1>1, <1>2 DEF Init, TypeOK, RequestLineStates
<1>4. LineSoFar
  BY EmptySeq DEF Init, LineSoFar
<1>5. Recognised
  <2>1. seen = <<>> /\ state_ = "method_start" /\ result = "indeterminate" /\ request.headers = <<>>
    BY DEF Init
  <2>2. Len(seen) = 0 /\ Ends(seen) = {}
    BY <2>1, EmptySeq DEF Ends
  <2>3. Reads(seen, state_, FALSE)
    BY <2>1, <2>2 DEF Reads, LinesFit, Begins, RequestLineSoFar, RequestLineStates
  <2> QED
    BY <2>1, <2>3 DEF Recognised
<1> QED
  BY <1>3, <1>4, <1>5 DEF IInv, Init, BackIsDefined

\* A new piece changes nothing the parser knows.
LEMMA ReadStep ==
  ASSUME IInv, NEW n \in 1..BufferSize, ReadCompletes(n)
  PROVE  IInv'
<1>1. /\ SubSeq(unsent, 1, n) \in Seq(Char)
      /\ SubSeq(unsent, n + 1, Len(unsent)) \in Seq(Char)
  <2>1. unsent \in Seq(Char) /\ n \in Nat /\ n <= Len(unsent) /\ Len(unsent) \in Nat
    BY SizeAssumption, LenProperties DEF IInv, TypeOK, ReadCompletes
  <2>2. \A i \in 1..Len(unsent) : unsent[i] \in Char
    BY <2>1, ElementOfSeq
  <2>3. /\ \A i \in 1..n : unsent[i] \in Char
        /\ \A i \in n + 1..Len(unsent) : unsent[i] \in Char
    BY <2>1, <2>2
  <2> QED
    BY <2>1, <2>3, SubSeqProperties
<1>2. TypeOK'
  BY <1>1 DEF IInv, TypeOK, ReadCompletes
<1> QED
  BY <1>2 DEF IInv, ReadCompletes, BackIsDefined, LineSoFar, Recognised

\* There are headers from the first on.
LEMMA HeadersKept ==
  ASSUME NEW headers \in Seq(HeaderType), NEW s, NEW c \in Char, NEW next,
         s \in Inside => headers # <<>>, Moves(s, c, headers, next)
  PROVE  Headers(headers, s, next, c) # <<>> <=> headers # <<>> \/ next \in Inside
<1>1. next \in Inside => Headers(headers, s, next, c) # <<>>
  BY HeadersType
<1>2. next \notin Inside => Headers(headers, s, next, c) = headers
  BY DEF Headers, Inside
<1> QED
  BY <1>1, <1>2

\* The next character of a text that is read on.
LEMMA RecognisedNext ==
  ASSUME NEW s \in Seq(Char), NEW c \in Char, NEW headers \in Seq(HeaderType), NEW st, NEW next,
         st \in Inside => headers # <<>>, Reads(s, st, headers # <<>>), Moves(st, c, headers, next)
  PROVE  IF next = "good" THEN WellFormed(Append(s, c))
         ELSE Reads(Append(s, c), next, Headers(headers, st, next, c) # <<>>)
<1> DEFINE folded == headers # <<>>
           more == Headers(headers, st, next, c) # <<>>
<1>0. folded \in BOOLEAN /\ (more <=> folded \/ next \in Inside) /\ Reads(s, st, folded)
  BY HeadersKept
<1>1. CASE InRequestLine(st, c, next)
  <2>1. next \in RequestLineStates \cup {"header_line_start"}
    BY <1>1, RequestLineMoves
  <2>2. next # "good" /\ next \notin Inside
    BY <2>1 DEF RequestLineStates, Inside
  <2>3. Reads(Append(s, c), next, folded)
    BY <1>0, <1>1, RequestLineNext
  <2>4. more = folded
    BY <1>0, <2>2
  <2> QED
    BY <2>2, <2>3, <2>4
<1>2. CASE InHeaders(st, c, folded, next) /\ next = "good"
  <2> HIDE DEF folded
  <2>1. WellFormed(Append(s, c))
    BY <1>0, <1>2, LastNext
  <2> QED
    BY <1>2, <2>1
<1>3. CASE InHeaders(st, c, folded, next) /\ next # "good"
  <2> HIDE DEF folded
  <2>1. Reads(Append(s, c), next, folded \/ next \in Inside)
    BY <1>0, <1>3, HeaderLineNext
  <2>2. more = (folded \/ next \in Inside)
    BY <1>0
  <2> QED
    BY <1>3, <2>1, <2>2
<1> QED
  BY <1>1, <1>2, <1>3 DEF Moves

\* A text that no move takes on is not well-formed, whatever follows.
LEMMA NothingMends ==
  ASSUME NEW s \in Seq(Char), NEW c \in Char, NEW headers, NEW st,
         Reads(s, st, headers # <<>>),
         \A next \in RequestLineStates \cup HeaderStates \cup {"good"} : ~Moves(st, c, headers, next),
         NEW t \in Seq(Char)
  PROVE  ~WellFormed(Append(s, c) \o t)
<1> DEFINE folded == headers # <<>>
           a == Append(s, c)
           w == a \o t
           n == Len(s)
<1>1. a \in Seq(Char) /\ n \in Nat /\ Len(a) = n + 1 /\ a[n + 1] = c /\ Agree(s, a, n)
  BY AppendAgrees
<1> HIDE DEF a
<1>2. /\ w \in Seq(Char) /\ Len(w) = (n + 1) + Len(t) /\ Len(t) \in Nat
      /\ \A k \in 1..(n + 1) + Len(t) : w[k] = IF k <= n + 1 THEN a[k] ELSE t[k - (n + 1)]
  <2>1. /\ w \in Seq(Char) /\ Len(w) = Len(a) + Len(t)
        /\ \A k \in 1..Len(a) + Len(t) : w[k] = IF k <= Len(a) THEN a[k] ELSE t[k - Len(a)]
    BY <1>1, ConcatProperties
  <2> HIDE DEF w
  <2> QED
    BY <1>1, <2>1, LenProperties
<1>3. n < Len(w) /\ w[n + 1] = c /\ Agree(s, w, n)
  <2>1. n + 1 \in 1..(n + 1) + Len(t) /\ \A k \in 1..n : k \in 1..(n + 1) + Len(t) /\ k <= n + 1
    BY <1>1, <1>2
  <2> QED
    BY <1>1, <1>2, <2>1 DEF Agree
<1> HIDE DEF w, folded
<1>4. SUFFICES ASSUME WellFormed(w) PROVE FALSE
  BY DEF w, a
<1>5. folded \in BOOLEAN /\ Reads(s, st, folded)
  BY DEF folded
<1>6. PICK next : InRequestLine(st, c, next) \/ InHeaders(st, c, folded, next)
  BY <1>2, <1>3, <1>4, <1>5, MoveAhead
<1>7. next \in RequestLineStates \cup HeaderStates \cup {"good"}
  <2>1. InRequestLine(st, c, next) => next \in RequestLineStates \cup {"header_line_start"}
    BY RequestLineMoves
  <2>2. ASSUME InHeaders(st, c, folded, next)
        PROVE  next \in HeaderStates \cup {"good"}
    BY <2>2, Zenon DEF InHeaders, HeaderStates
  <2> QED
    BY <1>6, <2>1, <2>2 DEF HeaderStates
<1> QED
  BY <1>6, <1>7 DEF Moves, folded

\* A character that a move takes.
LEMMA MoveStep ==
  ASSUME IInv, NEW c \in Char, NEW next, result = "indeterminate", next # "bad",
         Moves(state_, c, request.headers, next),
         result' = IF next = "good" THEN "good" ELSE "indeterminate",
         state_' = IF next = "good" THEN state_ ELSE next,
         request' = Stored(request, state_, next, c),
         seen' = Append(seen, c)
  PROVE  /\ state_' \in RequestLineStates \cup HeaderStates
         /\ request' \in Request
         /\ BackIsDefined' /\ LineSoFar' /\ Recognised'
         /\ result' = "good" => state_' \in HeaderStates
<1> DEFINE m == request.method
           u == request.uri
           folded == request.headers # <<>>
<1>0. /\ request \in Request /\ seen \in Seq(Char) /\ state_ \in RequestLineStates \cup HeaderStates
      /\ m \in Seq(TokenChars) /\ u \in Seq(TextChars \ {SP})
      /\ Len(m) \in Nat /\ Len(u) \in Nat /\ Len(seen) \in Nat
  BY LenProperties DEF IInv, TypeOK, Request
<1>1. /\ state_ \in {"method_start", "method"} => next \in {"method", "uri"} /\ (next = "uri" => state_ = "method" /\ c = SP)
      /\ state_ = "uri" => next = "uri" \/ (next = "http_version_h" /\ c = SP)
      /\ next = "method" => state_ \in {"method_start", "method"} /\ IsToken(c)
      /\ next = "uri" => state_ \in {"method", "uri"}
      /\ next # "method_start"
      /\ next \in RequestLineStates \cup HeaderStates \cup {"good"}
      /\ next = "good" => state_ \in HeaderStates
  <2>1. CASE InRequestLine(state_, c, next)
    <3>1. /\ next \in (RequestLineStates \cup {"header_line_start"}) \ {"method_start"}
          /\ next = "method" => state_ \in {"method_start", "method"} /\ IsToken(c)
          /\ next = "uri" => (state_ = "method" /\ c = SP) \/ (state_ = "uri" /\ c # SP /\ ~is_ctl(c))
          /\ state_ \in {"method_start", "method"} => next \in {"method", "uri"}
          /\ state_ = "uri" => next = "uri" \/ (next = "http_version_h" /\ c = SP)
      BY <2>1, RequestLineMoves
    <3> QED
      BY <3>1, Zenon DEF RequestLineStates, HeaderStates
  <2>2. CASE InHeaders(state_, c, folded, next)
    <3>0. folded \in BOOLEAN
      OBVIOUS
    <3>1. state_ \in HeaderStates /\ next \in HeaderStates \cup {"good"}
      BY <2>2, <3>0, HeaderMoves
    <3> QED
      BY <3>1 DEF HeaderStates
  <2> QED
    BY <2>1, <2>2 DEF Moves
<1>2. /\ request' \in Request
      /\ next \in Inside => request'.headers # <<>>
  <2>1. state_ \in Inside => request.headers # <<>>
    BY DEF IInv, BackIsDefined, Inside
  <2> QED
    BY <1>0, <2>1, StoredType
<1>3. BackIsDefined'
  <2>1. CASE next = "good"
    <3>1. state_ \in Inside => FALSE
      BY <2>1 DEF Moves, InRequestLine, InHeaders, Inside
    <3> QED
      BY <2>1, <3>1 DEF BackIsDefined, Inside
  <2>2. CASE next # "good"
    BY <1>2, <2>2 DEF BackIsDefined, Inside
  <2> QED
    BY <2>1, <2>2
<1>4. /\ Len(seen') = Len(seen) + 1
      /\ \A i \in 1..Len(seen) : seen'[i] = seen[i]
      /\ seen'[Len(seen) + 1] = c
  BY <1>0, AppendProperties
<1>5. /\ request'.method = IF next = "method" THEN Append(m, c) ELSE m
      /\ request'.uri = IF state_ = "uri" /\ next = "uri" THEN Append(u, c) ELSE u
  BY DEF Stored, Method
<1>6. LineSoFar'
  <2>1. CASE next = "method"
    <3>1. state_ \in {"method_start", "method"} /\ u = <<>> /\ Len(seen) = Len(m)
      BY <1>1, <2>1, EmptySeq DEF IInv, LineSoFar
    <3>2. request'.uri = <<>> /\ Len(request'.uri) = 0
      BY <1>5, <2>1, <3>1, EmptySeq
    <3>3. c \in TokenChars
      BY <1>1, <2>1, Characters
    <3>4. /\ Len(request'.method) = Len(m) + 1
          /\ \A i \in 1..Len(m) : request'.method[i] = m[i]
          /\ request'.method[Len(m) + 1] = c
      BY <1>0, <1>5, <2>1, <3>3, AppendProperties
    <3>5. \A i \in 1..Len(m) : seen[i] = m[i]
      BY DEF IInv, LineSoFar
    <3>6. state_' = "method"
      BY <2>1
    <3> HIDE DEF m, u
    <3>7. \A i \in 1..Len(request'.method) : seen'[i] = request'.method[i]
      BY <1>0, <1>4, <3>1, <3>4, <3>5
    <3> QED
      BY <1>0, <1>4, <3>1, <3>2, <3>4, <3>6, <3>7 DEF LineSoFar
  <2>2. CASE next = "uri" /\ state_ = "method"
    <3>1. u = <<>> /\ Len(seen) = Len(m) /\ Len(u) = 0
      BY <2>2, EmptySeq DEF IInv, LineSoFar
    <3>2. request'.method = m /\ request'.uri = u /\ state_' = "uri" /\ c = SP
      BY <1>1, <1>5, <2>2
    <3>3. \A i \in 1..Len(m) : seen[i] = m[i]
      BY DEF IInv, LineSoFar
    <3> HIDE DEF m, u
    <3> QED
      BY <1>0, <1>4, <3>1, <3>2, <3>3 DEF LineSoFar
  <2>3. CASE next = "uri" /\ state_ = "uri"
    <3>1. Len(seen) = Len(m) + 1 + Len(u) /\ seen[Len(m) + 1] = SP
      BY <2>3 DEF IInv, LineSoFar
    <3>2. /\ \A i \in 1..Len(m) : seen[i] = m[i]
          /\ \A i \in 1..Len(u) : seen[Len(m) + 1 + i] = u[i]
      BY DEF IInv, LineSoFar
    <3>3. request'.method = m /\ request'.uri = Append(u, c) /\ state_' = "uri"
      BY <1>5, <2>3
    <3>4. c \in TextChars \ {SP}
      BY <1>1, <2>3, Characters DEF Moves, InRequestLine, InHeaders
    <3>5. /\ Len(Append(u, c)) = Len(u) + 1
          /\ \A i \in 1..Len(u) : Append(u, c)[i] = u[i]
          /\ Append(u, c)[Len(u) + 1] = c
      BY <1>0, <3>4, AppendProperties
    <3> HIDE DEF m, u
    <3>6. \A i \in 1..Len(m) : seen'[i] = m[i]
      BY <1>0, <1>4, <3>1, <3>2
    <3>7. \A i \in 1..Len(u) + 1 : seen'[Len(m) + 1 + i] = Append(u, c)[i]
      <4> SUFFICES ASSUME NEW i \in 1..Len(u) + 1
                   PROVE  seen'[Len(m) + 1 + i] = Append(u, c)[i]
        OBVIOUS
      <4>1. CASE i \in 1..Len(u)
        <5>1. Len(m) + 1 + i \in 1..Len(seen)
          BY <1>0, <3>1, <4>1
        <5>2. seen'[Len(m) + 1 + i] = seen[Len(m) + 1 + i]
          BY <1>4, <5>1
        <5> QED
          BY <3>2, <3>5, <4>1, <5>2
      <4>2. CASE i = Len(u) + 1
        <5>1. Len(m) + 1 + i = Len(seen) + 1
          BY <1>0, <3>1, <4>2
        <5> QED
          BY <1>4, <3>5, <4>2, <5>1
      <4>3. i \in 1..Len(u) \/ i = Len(u) + 1
        BY <1>0
      <4> QED
        BY <4>1, <4>2, <4>3, Zenon
    <3>8. Len(seen') = Len(m) + 1 + (Len(u) + 1) /\ seen'[Len(m) + 1] = SP
      BY <1>0, <1>4, <3>1
    <3> QED
      BY <3>3, <3>5, <3>6, <3>7, <3>8 DEF LineSoFar
  <2>4. CASE next \notin {"method", "uri"}
    <3>1. request'.method = m /\ request'.uri = u
      BY <1>5, <2>4
    <3>2. state_' \notin {"method_start", "method", "uri"}
      BY <1>1, <2>4 DEF HeaderStates
    <3>3. /\ \A i \in 1..Len(m) : seen[i] = m[i]
          /\ \A i \in 1..Len(u) : seen[Len(m) + 1 + i] = u[i]
      BY DEF IInv, LineSoFar
    <3>4. \/ state_ = "uri" /\ c = SP /\ Len(seen) = Len(m) + 1 + Len(u) /\ seen[Len(m) + 1] = SP
          \/ /\ Len(m) + Len(u) + 2 <= Len(seen)
             /\ seen[Len(m) + 1] = SP /\ seen[Len(m) + Len(u) + 2] = SP
      BY <1>1, <2>4 DEF IInv, LineSoFar
    <3> HIDE DEF m, u
    <3>5. /\ Len(m) + Len(u) + 2 <= Len(seen')
          /\ seen'[Len(m) + 1] = SP /\ seen'[Len(m) + Len(u) + 2] = SP
      BY <1>0, <1>4, <3>4
    <3>6. /\ \A i \in 1..Len(m) : seen'[i] = m[i]
          /\ \A i \in 1..Len(u) : seen'[Len(m) + 1 + i] = u[i]
      BY <1>0, <1>4, <3>3, <3>4
    <3> QED
      BY <3>1, <3>2, <3>5, <3>6 DEF LineSoFar
  <2> QED
    BY <1>1, <2>1, <2>2, <2>3, <2>4
<1>7. Recognised'
  <2>1. state_ \in Inside => request.headers # <<>>
    BY DEF IInv, BackIsDefined, Inside
  <2>2. Reads(seen, state_, request.headers # <<>>) /\ request.headers \in Seq(HeaderType)
    BY <1>0 DEF IInv, Recognised, Request, HeaderType
  <2>3. request'.headers = Headers(request.headers, state_, next, c)
    BY DEF Stored
  <2>4. IF next = "good" THEN WellFormed(seen') ELSE Reads(seen', next, request'.headers # <<>>)
    BY <1>0, <2>1, <2>2, <2>3, RecognisedNext
  <2> QED
    BY <2>4 DEF Recognised
<1> QED
  BY <1>0, <1>1, <1>2, <1>3, <1>6, <1>7

\* One character.  A bad one stores nothing, since no move takes it.
LEMMA ConsumeStep ==
  ASSUME IInv, consume
  PROVE  IInv'
<1> DEFINE c == Head(buffer)
           bad == Stored(request, state_, "bad", c)
<1>0. /\ c \in Char /\ Tail(buffer) \in Seq(Char)
      /\ seen \in Seq(Char) /\ Append(seen, c) \in Seq(Char)
      /\ request \in Request /\ state_ \in RequestLineStates \cup HeaderStates
      /\ result = "indeterminate"
  BY HeadTailProperties, AppendProperties DEF IInv, TypeOK, consume
<1>1. PICK next \in Targets(state_, c, request.headers) :
        /\ result' = IF next \in {"good", "bad"} THEN next ELSE "indeterminate"
        /\ state_' = IF next \in {"good", "bad"} THEN state_ ELSE next
        /\ request' = Stored(request, state_, next, c)
  BY DEF consume
<1>2. seen' = Append(seen, c) /\ buffer' = Tail(buffer) /\ unsent' = unsent
  BY DEF consume
<1>3. \/ next = "bad"
      \/ /\ next \in RequestLineStates \cup HeaderStates \cup {"good"}
         /\ Moves(state_, c, request.headers, next)
  BY <1>1, Zenon DEF Targets
<1>4. CASE next = "bad"
  <2>1. result' = "bad" /\ state_' = state_
    BY <1>1, <1>4
  <2>2. request' = bad
    BY <1>1, <1>4
  <2>3. /\ bad.method = request.method /\ bad.uri = request.uri /\ bad.headers = request.headers
        /\ bad.major \in IntValues /\ bad.minor \in IntValues
        /\ bad = [ method |-> bad.method, uri |-> bad.uri, major |-> bad.major, minor |-> bad.minor,
                   headers |-> bad.headers ]
    BY <1>0 DEF Stored, Method, Headers, Version, Request
  <2>4. bad \in Request
    <3>1. /\ request.method \in Seq(TokenChars) /\ request.uri \in Seq(TextChars \ {SP})
          /\ request.headers \in Seq(HeaderType)
      BY <1>0 DEF Request, HeaderType
    <3> HIDE DEF bad
    <3> QED
      BY <2>3, <3>1 DEF Request, HeaderType
  <2>5. BackIsDefined'
    BY <2>1, <2>2, <2>3 DEF IInv, BackIsDefined
  <2>6. TypeOK'
    BY <1>0, <1>2, <2>1, <2>2, <2>4 DEF IInv, TypeOK
  <2>7. Recognised'
    <3>1. \A n \in RequestLineStates \cup HeaderStates \cup {"good"} : ~Moves(state_, c, request.headers, n)
      BY <1>1, <1>4, Zenon DEF Targets, RequestLineStates, HeaderStates
    <3>2. Reads(seen, state_, request.headers # <<>>)
      BY <1>0 DEF IInv, Recognised
    <3> HIDE DEF c, bad
    <3>3. \A t \in Seq(Char) : ~WellFormed(Append(seen, c) \o t)
      BY <1>0, <3>1, <3>2, NothingMends
    <3> QED
      BY <1>2, <2>1, <3>3 DEF Recognised
  <2> QED
    BY <2>1, <2>5, <2>6, <2>7 DEF IInv, LineSoFar
<1>5. CASE next # "bad"
  <2>1. /\ result' = IF next = "good" THEN "good" ELSE "indeterminate"
        /\ state_' = IF next = "good" THEN state_ ELSE next
        /\ Moves(state_, c, request.headers, next)
    BY <1>1, <1>3, <1>5
  <2> HIDE DEF c, bad
  <2>2. /\ state_' \in RequestLineStates \cup HeaderStates
        /\ request' \in Request
        /\ BackIsDefined' /\ LineSoFar' /\ Recognised'
        /\ result' = "good" => state_' \in HeaderStates
    BY <1>0, <1>1, <1>2, <1>5, <2>1, MoveStep
  <2>3. TypeOK'
    BY <1>0, <1>2, <2>1, <2>2 DEF IInv, TypeOK
  <2> QED
    BY <2>2, <2>3 DEF IInv
<1> QED
  BY <1>4, <1>5

-----------------------------------------------------------------------------

THEOREM IInvInvariant == Spec => []IInv
<1>1. IInv /\ [Next]_vars => IInv'
  <2> SUFFICES ASSUME IInv, [Next]_vars PROVE IInv'
    OBVIOUS
  <2>1. CASE consume
    BY <2>1, ConsumeStep
  <2>2. ASSUME NEW n \in 1..BufferSize, ReadCompletes(n)
        PROVE  IInv'
    BY <2>2, ReadStep
  <2>3. CASE UNCHANGED vars
    BY <2>3 DEF vars, IInv, TypeOK, BackIsDefined, LineSoFar, Recognised
  <2> QED
    BY <2>1, <2>2, <2>3 DEF Next
<1> QED
  BY <1>1, InitEstablishes, PTL DEF Spec

\* Whatever is sent, in whatever pieces: what the parser puts into the request
\* is of its kind.
THEOREM TypeCorrect == Spec => []TypeOK
<1>1. IInv => TypeOK
  BY DEF IInv
<1> QED
  BY <1>1, IInvInvariant, PTL

\* Whatever is sent, consume never takes the last of no headers.
THEOREM BackAlwaysDefined == Spec => []BackIsDefined
<1>1. IInv => BackIsDefined
  BY DEF IInv
<1> QED
  BY <1>1, IInvInvariant, PTL

\* The request line of a well-formed text, and where its parts are.
LEMMA RequestLineIs ==
  ASSUME NEW s \in Seq(Char), WellFormed(s)
  PROVE  \E i, j \in Int : /\ 1 < i /\ i < j /\ j <= Len(s) /\ UriAt(s, 1, i, j) /\ s[j] = 32
                           /\ MethodAndUri(s).method = SubSeq(s, 1, i - 1)
                           /\ MethodAndUri(s).uri = SubSeq(s, i + 1, j - 1)
<1>0. \A e \in Ends(s) : e \in Nat /\ e < Len(s)
  BY LenProperties DEF Ends
<1>1. PICK e \in Ends(s) : \A x \in Ends(s) : e <= x
  <2>1. Ends(s) \in SUBSET Nat /\ Ends(s) # {}
    BY <1>0 DEF WellFormed
  <2> QED
    BY <2>1, Smallest
<1>2. EndsFirst(s, e) /\ \A x \in Ends(s) : EndsFirst(s, x) => x = e
  BY <1>0, <1>1 DEF EndsFirst
<1>3. (CHOOSE x \in Ends(s) : EndsFirst(s, x)) = e
  BY <1>2
<1>4. IsRequestLine(s, 1, e - 1)
  BY <1>2 DEF WellFormed, LinesFit
<1>5. PICK i \in 2..e - 1, j \in 2..e - 1 : BlanksAt(s, 1, i, j, e - 1)
  BY <1>4 DEF IsRequestLine
<1> DEFINE pairs == (2..e) \X (2..e)
           b == CHOOSE x \in pairs : BlanksAt(s, 1, x[1], x[2], e - 1)
<1>6. <<i, j>> \in pairs /\ BlanksAt(s, 1, <<i, j>>[1], <<i, j>>[2], e - 1)
  BY <1>0, <1>5
<1>7. b \in pairs /\ BlanksAt(s, 1, b[1], b[2], e - 1)
  BY <1>6, Zenon
<1>8. b[1] \in 2..e /\ b[2] \in 2..e
  BY <1>7
<1>9. MethodAndUri(s) = [method |-> SubSeq(s, 1, b[1] - 1), uri |-> SubSeq(s, b[1] + 1, b[2] - 1)]
  BY <1>3 DEF MethodAndUri
<1> HIDE DEF b
<1>10. /\ b[1] \in Int /\ b[2] \in Int /\ 1 < b[1] /\ b[1] < b[2] /\ b[2] <= Len(s)
       /\ UriAt(s, 1, b[1], b[2]) /\ s[b[2]] = 32
  BY <1>0, <1>7, <1>8, LenProperties DEF BlanksAt
<1>11. /\ MethodAndUri(s).method = SubSeq(s, 1, b[1] - 1)
       /\ MethodAndUri(s).uri = SubSeq(s, b[1] + 1, b[2] - 1)
  <2>1. \A x, y : [method |-> x, uri |-> y].method = x /\ [method |-> x, uri |-> y].uri = y
    OBVIOUS
  <2> QED
    BY <1>9, <2>1, Zenon
<1> QED
  BY <1>10, <1>11, Zenon

\* The method and the uri of an accepted request are those of its text.
LEMMA RequestLineTaken ==
  ASSUME IInv, result = "good"
  PROVE  request.method = MethodAndUri(seen).method /\ request.uri = MethodAndUri(seen).uri
<1> DEFINE m == request.method
           u == request.uri
<1>0. /\ seen \in Seq(Char) /\ m \in Seq(TokenChars) /\ u \in Seq(TextChars \ {SP})
      /\ Len(m) \in Nat /\ Len(u) \in Nat
  BY LenProperties DEF IInv, TypeOK, Request
<1>1. WellFormed(seen)
  BY DEF IInv, Recognised
<1>2. PICK i \in Int, j \in Int :
        /\ 1 < i /\ i < j /\ j <= Len(seen) /\ UriAt(seen, 1, i, j) /\ seen[j] = 32
        /\ MethodAndUri(seen).method = SubSeq(seen, 1, i - 1)
        /\ MethodAndUri(seen).uri = SubSeq(seen, i + 1, j - 1)
  BY <1>0, <1>1, RequestLineIs
<1>3. /\ \A k \in 1..Len(m) : seen[k] = m[k]
      /\ \A k \in 1..Len(u) : seen[Len(m) + 1 + k] = u[k]
      /\ seen[Len(m) + 1] = 32 /\ seen[Len(m) + Len(u) + 2] = 32
      /\ Len(m) + Len(u) + 2 <= Len(seen)
  BY DEF IInv, LineSoFar, HeaderStates, SP
<1>4. /\ \A k \in 1..Len(m) : m[k] \in TokenChars
      /\ \A k \in 1..Len(u) : u[k] # 32
  BY <1>0, ElementOfSeq DEF SP
<1> HIDE DEF m, u
<1>5. i = Len(m) + 1
  <2>1. i \notin 1..Len(m)
    <3>1. seen[i] = 32
      BY <1>2 DEF UriAt
    <3>2. \A k \in 1..Len(m) : seen[k] # 32
      <4>1. 32 \notin TokenChars
        BY DEF TokenChars
      <4> QED
        BY <1>3, <1>4, <4>1
    <3> QED
      BY <3>1, <3>2
  <2>2. Token(seen, 1, i - 1)
    BY <1>2 DEF UriAt
  <2>3. 1 \in Int /\ Len(m) + 1 \in Int /\ 1 <= Len(m) + 1 /\ seen[Len(m) + 1] \in {32, 58} /\ i - 1 \in Int
    BY <1>0, <1>2, <1>3
  <2>4. i - 1 < Len(m) + 1
    BY <2>2, <2>3, PastToken
  <2> QED
    BY <1>0, <1>2, <2>1, <2>4
<1>6. j = Len(m) + Len(u) + 2
  <2>1. None(seen, i + 1, j - 1, {32})
    BY <1>2 DEF UriAt
  <2>2. Len(m) + Len(u) + 2 \notin i + 1..j - 1
    BY <1>3, <2>1 DEF None
  <2>3. \A k \in Int : i < k /\ k < Len(m) + Len(u) + 2 => seen[k] # 32
    <3>1. ASSUME NEW k \in Int, i < k, k < Len(m) + Len(u) + 2
          PROVE  seen[k] # 32
      <4>1. k - i \in 1..Len(u) /\ Len(m) + 1 + (k - i) = k
        BY <1>0, <1>5, <3>1
      <4>2. seen[Len(m) + 1 + (k - i)] = u[k - i]
        BY <1>3, <4>1
      <4> QED
        BY <1>4, <4>1, <4>2
    <3> QED
      BY <3>1
  <2>4. ~(i < j /\ j < Len(m) + Len(u) + 2)
    BY <1>2, <2>3
  <2> QED
    BY <1>0, <1>2, <1>5, <2>2, <2>4
<1>7. m = SubSeq(seen, 1, i - 1)
  <2>1. i - 1 = Len(m) /\ 1 \in Int /\ Len(m) \in Int
    BY <1>0, <1>5
  <2>2. \A k \in 1..Len(m) : seen[k] \in TokenChars
    BY <1>3, <1>4
  <2>3. /\ SubSeq(seen, 1, Len(m)) \in Seq(TokenChars)
        /\ Len(SubSeq(seen, 1, Len(m))) = IF 1 <= Len(m) THEN Len(m) - 1 + 1 ELSE 0
        /\ \A k \in 1..Len(m) - 1 + 1 : SubSeq(seen, 1, Len(m))[k] = seen[1 + k - 1]
    BY <2>1, <2>2, SubSeqProperties
  <2>4. Len(SubSeq(seen, 1, Len(m))) = Len(m) /\ \A k \in 1..Len(m) : SubSeq(seen, 1, Len(m))[k] = m[k]
    BY <1>0, <1>3, <2>3
  <2>5. m \in Seq(TokenChars)
    BY <1>0
  <2>6. SubSeq(seen, 1, Len(m)) = m
    BY <2>3, <2>4, <2>5, SeqEqual
  <2> QED
    BY <2>1, <2>6
<1>8. u = SubSeq(seen, i + 1, j - 1)
  <2> DEFINE a == i + 1
             z == j - 1
             S == TextChars \ {SP}
  <2>1. a \in Int /\ z \in Int /\ z - a + 1 = Len(u) /\ a = Len(m) + 2 /\ a - 1 = Len(m) + 1
    BY <1>0, <1>2, <1>5, <1>6
  <2>2. \A k \in 1..Len(u) : u[k] \in S
    BY <1>0, ElementOfSeq
  <2> HIDE DEF a, z, S
  <2>3. \A k \in a..z : seen[k] \in S
    <3>1. ASSUME NEW k \in a..z
          PROVE  seen[k] \in S
      <4>1. k - a + 1 \in 1..Len(u) /\ Len(m) + 1 + (k - a + 1) = k
        BY <1>0, <2>1
      <4>2. seen[Len(m) + 1 + (k - a + 1)] = u[k - a + 1]
        BY <1>3, <4>1
      <4> QED
        BY <2>2, <4>1, <4>2
    <3> QED
      BY <3>1
  <2>4. /\ SubSeq(seen, a, z) \in Seq(S)
        /\ Len(SubSeq(seen, a, z)) = IF a <= z THEN z - a + 1 ELSE 0
        /\ \A k \in 1..z - a + 1 : SubSeq(seen, a, z)[k] = seen[a + k - 1]
    BY <2>1, <2>3, SubSeqProperties
  <2>5. Len(SubSeq(seen, a, z)) = Len(u)
    BY <1>0, <2>1, <2>4
  <2>6. ASSUME NEW k \in 1..Len(u)
        PROVE  SubSeq(seen, a, z)[k] = u[k]
    <3>1. k \in 1..z - a + 1 /\ a + k - 1 = Len(m) + 1 + k
      BY <1>0, <2>1
    <3>2. SubSeq(seen, a, z)[k] = seen[a + k - 1]
      BY <2>4, <3>1
    <3> QED
      BY <1>3, <3>1, <3>2
  <2>7. u \in Seq(S)
    BY <1>0 DEF S
  <2>8. SubSeq(seen, a, z) = u
    BY <2>4, <2>5, <2>6, <2>7, SeqEqual
  <2> QED
    BY <2>8 DEF a, z
<1> QED
  BY <1>2, <1>7, <1>8 DEF m, u

\* Whatever is sent, in whatever pieces, a request is refused only when nothing
\* that could follow makes it well-formed.
THEOREM RefusedIsHopeless ==
  Spec => [](result = "bad" => \A t \in Seq(Char) : ~WellFormed(seen \o t))
<1>1. IInv => (result = "bad" => \A t \in Seq(Char) : ~WellFormed(seen \o t))
  BY DEF IInv, Recognised
<1> QED
  BY <1>1, IInvInvariant, PTL

\* Whatever is sent, in whatever pieces, the parser accepts the well-formed
\* requests and refuses the others, and it does so at the first character that
\* settles it.
THEOREM VerdictAlwaysPrompt == Spec => []VerdictIsPrompt
<1>1. IInv => VerdictIsPrompt
  <2> SUFFICES ASSUME IInv PROVE VerdictIsPrompt
    OBVIOUS
  <2>0. seen \in Seq(Char) /\ Recognised
    BY DEF IInv, TypeOK
  <2>1. ASSUME result = "bad"
        PROVE  ~WellFormed(seen) /\ ~Hopeful(seen)
    <3>1. \A t \in Seq(Char) : ~WellFormed(seen \o t)
      BY <2>0, <2>1 DEF Recognised
    <3>2. ~WellFormed(seen)
      <4>1. <<>> \in Seq(Char) /\ seen \o <<>> = seen
        BY <2>0, EmptySeq, ConcatEmptySeq
      <4> QED
        BY <3>1, <4>1
    <3>3. ASSUME NEW i \in 1..Len(Small)
          PROVE  End(i) \in Seq(Char)
      <4>1. i \in Int /\ 1 <= i /\ i <= 22
        BY SmallText
      <4> QED
        BY <4>1, EndText
    <3> QED
      BY <3>1, <3>2, <3>3 DEF Hopeful
  <2>2. ASSUME result = "indeterminate"
        PROVE  ~WellFormed(seen) /\ Hopeful(seen)
    <3>1. Reads(seen, state_, request.headers # <<>>)
      BY <2>0, <2>2 DEF Recognised
    <3>2. ~WellFormed(seen)
      BY <2>0, <3>1, NotYet
    <3>3. Hopeful(seen)
      BY <2>0, <3>1, CanBeFinished
    <3> QED
      BY <3>2, <3>3
  <2> QED
    BY <2>0, <2>1, <2>2 DEF Recognised, VerdictIsPrompt
<1> QED
  BY <1>1, IInvInvariant, PTL

\* Whatever is sent, in whatever pieces: the parser accepts what is well-formed
\* and has then the method and the uri that its request line has.
THEOREM AcceptedIsUnderstood ==
  Spec => [](result = "good" => /\ WellFormed(seen)
                                /\ request.method = MethodAndUri(seen).method
                                /\ request.uri = MethodAndUri(seen).uri)
<1>1. IInv => (result = "good" => /\ WellFormed(seen)
                                  /\ request.method = MethodAndUri(seen).method
                                  /\ request.uri = MethodAndUri(seen).uri)
  <2>1. IInv => (result = "good" => WellFormed(seen))
    BY DEF IInv, Recognised
  <2> QED
    BY <2>1, RequestLineTaken
<1> QED
  BY <1>1, IInvInvariant, PTL

-----------------------------------------------------------------------------
(* The numbers of a version *)

\* What holds of 0, and of every number whose predecessor it holds of.
LEMMA Climb ==
  ASSUME NEW N \in Nat, NEW T, 0 \in T, \A n \in 0..N - 1 : n \in T => n + 1 \in T
  PROVE  \A n \in 0..N : n \in T
<1> DEFINE U == {n \in 0..N : n \notin T}
<1> SUFFICES ASSUME U # {} PROVE FALSE
  OBVIOUS
<1>1. U \in SUBSET Nat
  OBVIOUS
<1>2. PICK k \in U : \A j \in U : k <= j
  <2> HIDE DEF U
  <2> QED
    BY <1>1, Smallest
<1>3. k # 0 /\ k - 1 \in 0..N - 1 /\ k - 1 \notin U
  BY <1>2
<1>4. k - 1 \in T
  BY <1>3
<1> QED
  BY <1>2, <1>3, <1>4

\* Value is the function its definition describes.
LEMMA ValueDefined ==
  ASSUME NEW ds \in Seq(Digits)
  PROVE  /\ Value(ds)[0] = 0
         /\ \A k \in 1..Len(ds) : Value(ds)[k] = 10 * Value(ds)[k - 1] + ds[k] - 48
<1> DEFINE N == Len(ds)
           Builds(g, m) ==
             g = [k \in 0..m |-> IF k = 0 THEN 0 ELSE 10 * g[k - 1] + ds[k] - 48]
           T == {m \in 0..N : \E g : Builds(g, m)}
<1>0. N \in Nat
  BY LenProperties
<1>1. 0 \in T
  <2>1. Builds([k \in 0..0 |-> 0], 0)
    OBVIOUS
  <2>2. \E g : Builds(g, 0)
    <3> HIDE DEF Builds
    <3> QED
      BY <2>1, Zenon
  <2> HIDE DEF Builds
  <2> QED
    BY <1>0, <2>2
<1>2. ASSUME NEW m \in 0..N - 1, m \in T
      PROVE  m + 1 \in T
  <2>1. PICK g : Builds(g, m)
    BY <1>2
  <2> DEFINE h == [k \in 0..m + 1 |-> IF k <= m THEN g[k] ELSE 10 * g[m] + ds[m + 1] - 48]
  <2>2. ASSUME NEW k \in 0..m + 1
        PROVE  h[k] = IF k = 0 THEN 0 ELSE 10 * h[k - 1] + ds[k] - 48
    <3>1. CASE k = 0
      BY <2>1, <3>1
    <3>2. CASE k # 0 /\ k <= m
      <4>1. g[k] = 10 * g[k - 1] + ds[k] - 48
        BY <2>1, <3>2
      <4>2. h[k] = g[k] /\ h[k - 1] = g[k - 1]
        BY <3>2
      <4> QED
        BY <3>2, <4>1, <4>2
    <3>3. CASE k = m + 1
      <4>1. h[k] = 10 * g[m] + ds[m + 1] - 48 /\ h[k - 1] = g[m] /\ k # 0
        BY <3>3
      <4> QED
        BY <3>3, <4>1
    <3> QED
      BY <3>1, <3>2, <3>3
  <2>3. Builds(h, m + 1)
    BY <2>2
  <2>4. m + 1 \in 0..N
    BY <1>0
  <2>5. \E f : Builds(f, m + 1)
    <3> HIDE DEF Builds, h
    <3> QED
      BY <2>3, Zenon
  <2> HIDE DEF Builds
  <2> QED
    BY <2>4, <2>5
<1>3. N \in T
  <2>1. N \in 0..N
    BY <1>0
  <2>2. \A m \in 0..N : m \in T
    <3> HIDE DEF T, N
    <3> QED
      BY <1>0, <1>1, <1>2, Climb
  <2> QED
    BY <2>1, <2>2
<1>4. \E g : Builds(g, N)
  BY <1>3
<1>5. Builds(Value(ds), N)
  BY <1>4, Zenon DEF Value
<1> QED
  BY <1>0, <1>5

\* One more digit.
LEMMA ValueNext ==
  ASSUME NEW ds \in Seq(Digits), NEW c \in Digits
  PROVE  /\ Value(ds)[Len(ds)] \in Int
         /\ Value(Append(ds, c))[Len(ds) + 1] = 10 * Value(ds)[Len(ds)] + c - 48
<1> DEFINE n == Len(ds)
           es == Append(ds, c)
           v == Value(ds)
           w == Value(es)
           T == {k \in 0..n : v[k] \in Int /\ w[k] = v[k]}
<1>0. n \in Nat /\ es \in Seq(Digits) /\ Len(es) = n + 1 /\ es[n + 1] = c
      /\ \A k \in 1..n : es[k] = ds[k] /\ ds[k] \in Digits
  BY AppendProperties, LenProperties, ElementOfSeq
<1> HIDE DEF es
<1>1. v[0] = 0 /\ \A k \in 1..n : v[k] = 10 * v[k - 1] + ds[k] - 48
  BY ValueDefined
<1>2. w[0] = 0 /\ \A k \in 1..n + 1 : w[k] = 10 * w[k - 1] + es[k] - 48
  BY <1>0, ValueDefined
<1> HIDE DEF v, w
<1>3. 0 \in T
  BY <1>0, <1>1, <1>2
<1>4. ASSUME NEW k \in 0..n - 1, k \in T
      PROVE  k + 1 \in T
  <2>1. k + 1 \in 1..n /\ k + 1 \in 1..n + 1 /\ k + 1 \in 0..n /\ k + 1 - 1 = k
    BY <1>0
  <2>2. v[k + 1] = 10 * v[k] + ds[k + 1] - 48 /\ w[k + 1] = 10 * w[k] + ds[k + 1] - 48
    BY <1>0, <1>1, <1>2, <2>1
  <2>3. ds[k + 1] \in Int
    BY <1>0, <2>1 DEF Digits
  <2> QED
    BY <1>4, <2>1, <2>2, <2>3
<1>5. n \in T
  <2>1. \A k \in 0..n : k \in T
    <3> HIDE DEF T, n
    <3> QED
      BY <1>0, <1>3, <1>4, Climb
  <2> QED
    BY <1>0, <2>1
<1>6. n + 1 \in 1..n + 1 /\ n + 1 - 1 = n
  BY <1>0
<1>7. v[n] \in Int /\ w[n + 1] = 10 * v[n] + c - 48
  BY <1>0, <1>2, <1>5, <1>6
<1> QED
  BY <1>7 DEF v, w, es

LEMMA RestOfDivision ==
  ASSUME NEW w \in Nat \ {0}, NEW q \in Int, NEW r \in 0..w - 1
  PROVE  (w * q + r) % w = r
OBVIOUS

\* A digit more of an int, be it wrapped round or not.
LEMMA InIntNext ==
  ASSUME NEW v \in Int, NEW c \in Int
  PROVE  Shifted(InInt(Words, v), c) = InInt(Words, 10 * v + c - 48)
<1> DEFINE w == Words
           h == Words \div 2
           y == 10 * v + c - 48
           q == v \div w
           p == y \div w
           low == v % w
           r == y % w
<1>1. w \in Nat \ {0} /\ h \in Int /\ 0 <= h /\ h < w
  BY SizeAssumption
<1>2. y \in Int
  OBVIOUS
<1>3. q \in Int /\ low \in 0..w - 1 /\ v = w * q + low
  BY <1>1
<1>4. p \in Int /\ r \in 0..w - 1 /\ y = w * p + r
  BY <1>1, <1>2
<1> DEFINE n == InInt(w, v)
           m == InInt(w, y)
<1>5. \E z \in Int : n = v - w * z
  <2>1. n = low \/ n = low - w
    BY DEF InInt
  <2>2. CASE n = low
    BY <1>1, <1>3, <2>2
  <2>3. CASE n = low - w
    <3> HIDE DEF n, low, q, w
    <3>1. q + 1 \in Int /\ n = v - w * (q + 1)
      BY <1>1, <1>3, <2>3
    <3> QED
      BY <3>1
  <2> QED
    BY <2>1, <2>2, <2>3
<1>6. PICK z \in Int : n = v - w * z
  BY <1>5
<1>7. m = IF r < w - h THEN r ELSE r - w
  BY DEF InInt
<1>8. Shifted(n, c) = ((n * 10 + c - 48 + h) % w) - h
  BY DEF Shifted
<1> DEFINE k == p - 10 * z
<1> HIDE DEF n, m, low, r, q, p, y, w, h
<1>9. k \in Int /\ n * 10 + c - 48 = w * k + r
  <2>1. n * 10 + c - 48 = y - w * (10 * z)
    BY <1>1, <1>6 DEF y
  <2>2. w * k = w * p - w * (10 * z)
    BY <1>1, <1>4
  <2> QED
    BY <1>1, <1>2, <1>4, <2>1, <2>2
<1>10. w * k \in Int /\ w * (k + 1) = w * k + w
  BY <1>1, <1>9
<1> HIDE DEF k
<1>11. CASE r < w - h
  <2>1. n * 10 + c - 48 + h = w * k + (r + h) /\ r + h \in 0..w - 1
    BY <1>1, <1>4, <1>9, <1>10, <1>11, <1>6
  <2>2. (w * k + (r + h)) % w = r + h
    BY <1>1, <1>9, <2>1, RestOfDivision
  <2> QED
    BY <1>1, <1>4, <1>7, <1>8, <1>11, <2>1, <2>2 DEF n, m, w, y
<1>12. CASE ~(r < w - h)
  <2>1. n * 10 + c - 48 + h = w * (k + 1) + (r + h - w) /\ r + h - w \in 0..w - 1 /\ k + 1 \in Int
    BY <1>1, <1>4, <1>9, <1>10, <1>12, <1>6
  <2>2. (w * (k + 1) + (r + h - w)) % w = r + h - w
    BY <1>1, <2>1, RestOfDivision
  <2> QED
    BY <1>1, <1>4, <1>7, <1>8, <1>12, <2>1, <2>2 DEF n, m, w, y
<1> QED
  BY <1>11, <1>12

\* What consume makes of a digit is what the digits say.
LEMMA NumberNext ==
  ASSUME NEW ds \in Seq(Digits), NEW c \in Digits
  PROVE  /\ Append(ds, c) \in Seq(Digits)
         /\ Shifted(NumberIn(Words, ds), c) = NumberIn(Words, Append(ds, c))
<1>1. Append(ds, c) \in Seq(Digits) /\ Len(Append(ds, c)) = Len(ds) + 1
  BY AppendProperties
<1>2. /\ Value(ds)[Len(ds)] \in Int /\ c \in Int
      /\ Value(Append(ds, c))[Len(ds) + 1] = 10 * Value(ds)[Len(ds)] + c - 48
  <2>1. c \in Int
    BY DEF Digits
  <2> QED
    BY <2>1, ValueNext, Zenon
<1>3. Shifted(InInt(Words, Value(ds)[Len(ds)]), c) = InInt(Words, 10 * Value(ds)[Len(ds)] + c - 48)
  BY <1>2, InIntNext
<1> QED
  BY <1>1, <1>2, <1>3, Zenon DEF NumberIn

\* No digits yet.
LEMMA NumberOfNothing == NumberIn(Words, <<>>) = 0 /\ <<>> \in Seq(Digits)
<1>1. <<>> \in Seq(Digits) /\ Len(<<>>) = 0
  BY EmptySeq
<1>2. Value(<<>>)[0] = 0
  BY <1>1, ValueDefined
<1>3. 0 % Words = 0 /\ 0 < Words - Words \div 2
  BY SizeAssumption
<1> QED
  BY <1>1, <1>2, <1>3 DEF NumberIn, InInt

-----------------------------------------------------------------------------
(* Parts of a text that grows *)

LEMMA PartOf ==
  ASSUME NEW S, NEW s \in Seq(S), NEW a \in Int, NEW z \in Int, 1 <= a, a <= z + 1, z <= Len(s)
  PROVE  /\ SubSeq(s, a, z) \in Seq(S) /\ Len(SubSeq(s, a, z)) = z - a + 1
         /\ \A k \in 1..z - a + 1 : SubSeq(s, a, z)[k] = s[a + k - 1]
<1>1. \A k \in a..z : s[k] \in S
  BY ElementOfSeq, LenProperties
<1> QED
  BY <1>1, SubSeqProperties

\* A part that the new character is not in, and one that ends with it.
LEMMA PartGrows ==
  ASSUME NEW s \in Seq(Char), NEW c \in Char, NEW a \in Int, 1 <= a, a <= Len(s) + 1
  PROVE  /\ \A z \in Int : a <= z + 1 /\ z <= Len(s) => SubSeq(Append(s, c), a, z) = SubSeq(s, a, z)
         /\ SubSeq(Append(s, c), a, Len(s) + 1) = Append(SubSeq(s, a, Len(s)), c)
<1> DEFINE t == Append(s, c)
           n == Len(s)
<1>0. /\ t \in Seq(Char) /\ n \in Nat /\ Len(t) = n + 1 /\ t[n + 1] = c
      /\ \A k \in 1..n : t[k] = s[k]
  BY AppendAgrees DEF Agree
<1> HIDE DEF t
<1>1. ASSUME NEW z \in Int, a <= z + 1, z <= n
      PROVE  SubSeq(t, a, z) = SubSeq(s, a, z)
  <2> DEFINE u == SubSeq(t, a, z)
             v == SubSeq(s, a, z)
             l == z - a + 1
  <2>1. /\ u \in Seq(Char) /\ Len(u) = l /\ \A k \in 1..l : u[k] = t[a + k - 1]
    BY <1>0, <1>1, PartOf
  <2>2. /\ v \in Seq(Char) /\ Len(v) = l /\ \A k \in 1..l : v[k] = s[a + k - 1]
    BY <1>0, <1>1, PartOf
  <2>3. \A k \in 1..l : t[a + k - 1] = s[a + k - 1]
    <3>1. \A k \in 1..l : a + k - 1 \in 1..n
      BY <1>0, <1>1
    <3> QED
      BY <1>0, <3>1
  <2> HIDE DEF u, v, l
  <2> QED
    BY <2>1, <2>2, <2>3, SeqEqual DEF u, v
<1>2. SubSeq(t, a, n + 1) = Append(SubSeq(s, a, n), c)
  <2> DEFINE u == SubSeq(t, a, n + 1)
             v == SubSeq(s, a, n)
             w == Append(v, c)
             l == n - a + 1
  <2>0. l \in Nat
    BY <1>0
  <2>1. /\ u \in Seq(Char) /\ Len(u) = l + 1 /\ \A k \in 1..l + 1 : u[k] = t[a + k - 1]
    <3>1. a <= n + 1 + 1 /\ n + 1 <= Len(t) /\ n + 1 \in Int /\ n + 1 - a + 1 = l + 1
      BY <1>0
    <3> HIDE DEF l, n
    <3> QED
      BY <1>0, <3>1, PartOf
  <2>2. /\ v \in Seq(Char) /\ Len(v) = l /\ \A k \in 1..l : v[k] = s[a + k - 1]
    BY <1>0, PartOf
  <2> HIDE DEF u, v
  <2>3. /\ w \in Seq(Char) /\ Len(w) = l + 1 /\ w[l + 1] = c /\ \A k \in 1..l : w[k] = v[k]
    BY <2>0, <2>2, AppendProperties
  <2> HIDE DEF w
  <2>4. ASSUME NEW k \in 1..l + 1
        PROVE  u[k] = w[k]
    <3>1. CASE k \in 1..l
      <4>1. a + k - 1 \in 1..n
        BY <1>0, <3>1
      <4> QED
        BY <1>0, <2>1, <2>2, <2>3, <3>1, <4>1
    <3>2. CASE k = l + 1
      <4>1. a + k - 1 = n + 1
        BY <1>0, <3>2
      <4> QED
        BY <1>0, <2>1, <2>3, <3>2, <4>1
    <3>3. k \in 1..l \/ k = l + 1
      BY <2>0
    <3> QED
      BY <3>1, <3>2, <3>3, Zenon
  <2>5. u = w
    <3> HIDE DEF l
    <3> QED
      BY <2>1, <2>3, <2>4, SeqEqual
  <2> QED
    BY <2>5 DEF u, v, w
<1> QED
  BY <1>1, <1>2 DEF t

-----------------------------------------------------------------------------
(* The fields of the lines that have ended *)

LEMMA FieldsDefined ==
  ASSUME NEW s \in Seq(Char)
  PROVE  /\ Fields(s)[0] = <<>>
         /\ \A n \in 1..Len(s) : Fields(s)[n] = WithPlace(s, Fields(s)[n - 1], n)
<1> DEFINE N == Len(s)
           Builds(g, m) ==
             g = [n \in 0..m |-> IF n = 0 THEN <<>> ELSE WithPlace(s, g[n - 1], n)]
           T == {m \in 0..N : \E g : Builds(g, m)}
<1>0. N \in Nat
  BY LenProperties
<1>1. 0 \in T
  <2>1. Builds([n \in 0..0 |-> <<>>], 0)
    OBVIOUS
  <2>2. \E g : Builds(g, 0)
    <3> HIDE DEF Builds
    <3> QED
      BY <2>1, Zenon
  <2> HIDE DEF Builds
  <2> QED
    BY <1>0, <2>2
<1>2. ASSUME NEW m \in 0..N - 1, m \in T
      PROVE  m + 1 \in T
  <2>1. PICK g : Builds(g, m)
    BY <1>2
  <2> DEFINE h == [n \in 0..m + 1 |-> IF n <= m THEN g[n] ELSE WithPlace(s, g[m], m + 1)]
  <2>2. ASSUME NEW n \in 0..m + 1
        PROVE  h[n] = IF n = 0 THEN <<>> ELSE WithPlace(s, h[n - 1], n)
    <3>1. CASE n = 0
      BY <2>1, <3>1
    <3>2. CASE n # 0 /\ n <= m
      <4>1. g[n] = WithPlace(s, g[n - 1], n)
        BY <2>1, <3>2
      <4>2. h[n] = g[n] /\ h[n - 1] = g[n - 1]
        BY <3>2
      <4> QED
        BY <3>2, <4>1, <4>2
    <3>3. CASE n = m + 1
      <4>1. h[n] = WithPlace(s, g[m], m + 1) /\ h[n - 1] = g[m] /\ n # 0
        BY <3>3
      <4> QED
        BY <3>3, <4>1
    <3> QED
      BY <3>1, <3>2, <3>3
  <2>3. Builds(h, m + 1)
    BY <2>2
  <2>4. m + 1 \in 0..N
    BY <1>0
  <2>5. \E f : Builds(f, m + 1)
    <3> HIDE DEF Builds, h
    <3> QED
      BY <2>3, Zenon
  <2> HIDE DEF Builds
  <2> QED
    BY <2>4, <2>5
<1>3. N \in T
  <2>1. N \in 0..N
    BY <1>0
  <2>2. \A m \in 0..N : m \in T
    <3> HIDE DEF T, N
    <3> QED
      BY <1>0, <1>1, <1>2, Climb
  <2> QED
    BY <2>1, <2>2
<1>4. \E g : Builds(g, N)
  BY <1>3
<1>5. Builds(Fields(s), N)
  BY <1>4, Zenon DEF Fields
<1> QED
  BY <1>0, <1>5

\* The line that ends at e begins after the last line that ends before.
LEMMA LineBeforeIs ==
  ASSUME NEW s \in Seq(Char), NEW a \in Ends(s), NEW e \in Int, EndsNext(s, a, e)
  PROVE  LineBefore(s, e) = SubSeq(s, a + 2, e - 1)
<1>1. \A x \in Ends(s) : x \in Int
  BY LenProperties DEF Ends
<1>2. ASSUME NEW x \in Ends(s), EndsNext(s, x, e)
      PROVE  x = a
  BY <1>1, <1>2 DEF EndsNext
<1>3. (CHOOSE x \in Ends(s) : EndsNext(s, x, e)) = a
  BY <1>2
<1> QED
  BY <1>3, Zenon DEF LineBefore

\* Every line but the first has one before it.
LEMMA LineHasBefore ==
  ASSUME NEW s \in Seq(Char), NEW e \in Ends(s), ~EndsFirst(s, e)
  PROVE  \E a \in Ends(s) : EndsNext(s, a, e)
<1>0. \A x \in Ends(s) : x \in Nat
  BY LenProperties DEF Ends
<1> DEFINE T == {k \in Nat : e - k \in Ends(s) /\ k > 0}
<1>1. T # {}
  <2>1. PICK x \in Ends(s) : ~(e <= x)
    BY DEF EndsFirst
  <2>2. e - x \in Nat /\ e - x > 0 /\ e - (e - x) = x
    BY <1>0, <2>1
  <2> QED
    BY <2>1, <2>2
<1>2. PICK k \in T : \A j \in T : k <= j
  <2>1. T \in SUBSET Nat
    OBVIOUS
  <2> HIDE DEF T
  <2> QED
    BY <1>1, <2>1, Smallest
<1>3. e - k \in Ends(s) /\ e - k < e
  BY <1>0, <1>2
<1>4. ASSUME NEW x \in Ends(s)
      PROVE  x <= e - k \/ e <= x
  <2>1. CASE x < e
    <3>1. e - x \in T
      <4>1. e - x \in Nat /\ e - x > 0 /\ e - (e - x) = x
        BY <1>0, <2>1
      <4> QED
        BY <4>1
    <3> QED
      BY <1>0, <1>2, <3>1
  <2> QED
    BY <1>0, <2>1
<1>5. EndsNext(s, e - k, e)
  BY <1>3, <1>4 DEF EndsNext
<1> QED
  BY <1>3, <1>5

\* A new character changes nothing that lines say which have ended.
LEMMA FieldsAgree ==
  ASSUME NEW s \in Seq(Char), NEW c \in Char
  PROVE  \A n \in 0..Len(s) - 1 : Fields(Append(s, c))[n] = Fields(s)[n]
<1> DEFINE t == Append(s, c)
           N == Len(s) - 1
           f == Fields(s)
           g == Fields(t)
           T == {n \in 0..N : g[n] = f[n]}
<1>0. /\ t \in Seq(Char) /\ Len(s) \in Nat /\ Len(t) = Len(s) + 1 /\ Agree(s, t, Len(s))
  BY AppendAgrees
<1> SUFFICES ASSUME Len(s) # 0 PROVE \A n \in 0..N : g[n] = f[n]
  BY <1>0
<1>1. ASSUME NEW e \in 1..N
      PROVE  /\ e \in Ends(s) <=> e \in Ends(t)
             /\ e \in Ends(s) => (EndsFirst(s, e) <=> EndsFirst(t, e))
             /\ e \in Ends(s) /\ ~EndsFirst(s, e) => LineBefore(t, e) = LineBefore(s, e)
  <2> HIDE DEF t
  <2>1. e < Len(s) /\ Len(s) <= Len(t) /\ e \in Int
    BY <1>0
  <2>2. e \in Ends(s) <=> e \in Ends(t)
    BY <1>0, <2>1, EndsAgree
  <2>3. ASSUME e \in Ends(s)
        PROVE  EndsFirst(s, e) <=> EndsFirst(t, e)
    BY <1>0, <2>1, <2>3, HeaderLinesAgree
  <2>4. ASSUME e \in Ends(s), ~EndsFirst(s, e)
        PROVE  LineBefore(t, e) = LineBefore(s, e)
    <3>1. PICK a \in Ends(s) : EndsNext(s, a, e)
      BY <2>4, LineHasBefore
    <3>2. EndsNext(t, a, e)
      BY <1>0, <2>1, <2>4, <3>1, HeaderLinesAgree
    <3>3. a \in Ends(t)
      BY <1>0, <2>1, EndsAgree
    <3>4. /\ a \in 1..Len(s) - 1 /\ a < e
      BY <3>1 DEF Ends, EndsNext
    <3>5. LineBefore(s, e) = SubSeq(s, a + 2, e - 1)
      BY <2>1, <3>1, LineBeforeIs
    <3>6. LineBefore(t, e) = SubSeq(t, a + 2, e - 1)
      BY <1>0, <2>1, <3>2, <3>3, LineBeforeIs
    <3>7. a + 1 # e
      <4>1. s[a + 1] = 10 /\ s[e] = 13
        BY <2>4 DEF Ends
      <4> QED
        BY <4>1
    <3>8. a + 2 \in Int /\ 1 <= a + 2 /\ a + 2 <= Len(s) + 1 /\ e - 1 \in Int /\ a + 2 <= e - 1 + 1 /\ e - 1 <= Len(s)
      BY <1>0, <2>1, <3>4, <3>7
    <3>9. SubSeq(t, a + 2, e - 1) = SubSeq(s, a + 2, e - 1)
      BY <3>8, PartGrows DEF t
    <3> QED
      BY <3>5, <3>6, <3>9
  <2> QED
    BY <2>2, <2>3, <2>4
<1> HIDE DEF t
<1>2. f[0] = <<>> /\ \A n \in 1..Len(s) : f[n] = WithPlace(s, f[n - 1], n)
  BY FieldsDefined
<1>3. g[0] = <<>> /\ \A n \in 1..Len(t) : g[n] = WithPlace(t, g[n - 1], n)
  BY <1>0, FieldsDefined
<1> HIDE DEF f, g
<1>4. 0 \in T
  BY <1>0, <1>2, <1>3
<1>5. ASSUME NEW n \in 0..N - 1, n \in T
      PROVE  n + 1 \in T
  <2>1. n + 1 \in 1..N /\ n + 1 \in 1..Len(s) /\ n + 1 \in 1..Len(t) /\ n + 1 - 1 = n /\ n + 1 \in 0..N
    BY <1>0
  <2>2. f[n + 1] = WithPlace(s, f[n], n + 1) /\ g[n + 1] = WithPlace(t, f[n], n + 1)
    BY <1>2, <1>3, <1>5, <2>1
  <2>3. WithPlace(s, f[n], n + 1) = WithPlace(t, f[n], n + 1)
    BY <1>1, <2>1, Zenon DEF WithPlace
  <2> QED
    BY <2>1, <2>2, <2>3
<1> QED
  <2>1. N \in Nat
    BY <1>0
  <2>2. \A n \in 0..N : n \in T
    <3> HIDE DEF T, N
    <3> QED
      BY <1>4, <1>5, <2>1, Climb
  <2> QED
    BY <2>2

\* Between the ends of lines nothing is added.
LEMMA FieldsBetween ==
  ASSUME NEW s \in Seq(Char), NEW a \in 0..Len(s), NEW z \in 0..Len(s), a <= z,
         \A e \in a + 1..z : e \notin Ends(s)
  PROVE  Fields(s)[z] = Fields(s)[a]
<1> DEFINE f == Fields(s)
           N == z - a
           T == {k \in 0..N : f[a + k] = f[a]}
<1>0. Len(s) \in Nat /\ N \in Nat
  BY LenProperties
<1>1. f[0] = <<>> /\ \A n \in 1..Len(s) : f[n] = WithPlace(s, f[n - 1], n)
  BY FieldsDefined
<1> HIDE DEF f
<1>2. 0 \in T
  BY <1>0
<1>3. ASSUME NEW k \in 0..N - 1, k \in T
      PROVE  k + 1 \in T
  <2> DEFINE n == a + k + 1
  <2>1. n \in 1..Len(s) /\ n \in a + 1..z /\ n - 1 = a + k /\ k + 1 \in 0..N /\ a + (k + 1) = n
    BY <1>0
  <2> HIDE DEF n
  <2>2. f[n] = WithPlace(s, f[n - 1], n) /\ n \notin Ends(s)
    BY <1>1, <2>1
  <2>3. f[n] = f[n - 1]
    BY <2>2, Zenon DEF WithPlace
  <2> QED
    BY <1>3, <2>1, <2>3
<1>4. \A k \in 0..N : k \in T
  <2> HIDE DEF T, N
  <2> QED
    BY <1>0, <1>2, <1>3, Climb
<1>5. N \in T /\ a + N = z
  BY <1>0, <1>4
<1> QED
  BY <1>5 DEF f

-----------------------------------------------------------------------------
(* What a header line says *)

\* The two parts of a text put together of two.
Joins(t, a, b) ==
  /\ t \in Seq(Char) /\ Len(t) = Len(a) + Len(b) /\ Len(a) \in Nat /\ Len(b) \in Nat
  /\ \A k \in 1..Len(a) : t[k] = a[k]
  /\ \A k \in 1..Len(b) : t[Len(a) + k] = b[k]
  /\ SubSeq(t, 1, Len(a)) = a
  /\ SubSeq(t, Len(a) + 1, Len(a) + Len(b)) = b

LEMMA PartsOfConcat ==
  ASSUME NEW a \in Seq(Char), NEW b \in Seq(Char)
  PROVE  Joins(a \o b, a, b)
<1> DEFINE t == a \o b
<1>1. Len(a) \in Nat /\ Len(b) \in Nat
  BY LenProperties
<1>2. /\ t \in Seq(Char) /\ Len(t) = Len(a) + Len(b)
      /\ \A k \in 1..Len(a) + Len(b) : t[k] = IF k <= Len(a) THEN a[k] ELSE b[k - Len(a)]
  BY ConcatProperties
<1> HIDE DEF t
<1>3. \A k \in 1..Len(a) : t[k] = a[k]
  BY <1>1, <1>2
<1>4. \A k \in 1..Len(b) : t[Len(a) + k] = b[k]
  <2> TAKE k \in 1..Len(b)
  <2>1. Len(a) + k \in 1..Len(a) + Len(b) /\ ~(Len(a) + k <= Len(a)) /\ Len(a) + k - Len(a) = k
    BY <1>1
  <2> QED
    BY <1>2, <2>1
<1>5. SubSeq(t, 1, Len(a)) = a
  <2> DEFINE u == SubSeq(t, 1, Len(a))
  <2>1. u \in Seq(Char) /\ Len(u) = Len(a) - 1 + 1 /\ \A k \in 1..Len(a) - 1 + 1 : u[k] = t[1 + k - 1]
    BY <1>1, <1>2, PartOf
  <2> HIDE DEF u
  <2>2. Len(u) = Len(a) /\ \A k \in 1..Len(u) : u[k] = a[k]
    BY <1>1, <1>3, <2>1
  <2> QED
    BY <2>1, <2>2, SeqEqual DEF u
<1>6. SubSeq(t, Len(a) + 1, Len(a) + Len(b)) = b
  <2> DEFINE m == Len(a) + 1
             n == Len(a) + Len(b)
             u == SubSeq(t, m, n)
  <2>0. m \in Int /\ n \in Int /\ 1 <= m /\ m <= n + 1 /\ n <= Len(t) /\ n - m + 1 = Len(b)
    BY <1>1, <1>2
  <2>1. u \in Seq(Char) /\ Len(u) = n - m + 1 /\ \A k \in 1..n - m + 1 : u[k] = t[m + k - 1]
    <3> HIDE DEF m, n
    <3> QED
      BY <1>2, <2>0, PartOf
  <2> HIDE DEF u
  <2>2. \A k \in 1..Len(b) : m + k - 1 = Len(a) + k
    BY <1>1
  <2>3. Len(u) = Len(b) /\ \A k \in 1..Len(u) : u[k] = b[k]
    <3> HIDE DEF m, n
    <3> QED
      BY <1>4, <2>0, <2>1, <2>2
  <2>4. u = b
    BY <2>1, <2>3, SeqEqual
  <2> QED
    BY <2>4 DEF u
<1> QED
  BY <1>1, <1>2, <1>3, <1>4, <1>5, <1>6 DEF Joins, t

LEMMA SubsetsOfChar ==
  /\ \A s \in Seq(TokenChars) : s \in Seq(Char) /\ \A k \in 1..Len(s) : s[k] \in TokenChars
  /\ \A s \in Seq(TextChars) : s \in Seq(Char) /\ \A k \in 1..Len(s) : s[k] \in TextChars
  /\ \A s \in Seq(Blanks) : s \in Seq(Char) /\ \A k \in 1..Len(s) : s[k] \in Blanks
<1>1. TokenChars \subseteq Char /\ TextChars \subseteq Char /\ Blanks \subseteq Char
  BY DEF TokenChars, TextChars, Blanks, Char
<1> QED
  BY <1>1, SeqMonotonic, ElementOfSeq

\* What no name has in it.
LEMMA NotInNames == 58 \notin TokenChars /\ \A c \in TokenChars : c \notin Blanks
BY DEF TokenChars, Blanks

\* A name, a colon, a blank and a value are a field.
LEMMA FieldSays ==
  ASSUME NEW fields, NEW name \in Seq(TokenChars) \ {<<>>}, NEW value \in Seq(TextChars),
         NEW line, line = name \o (<<58, 32>> \o value)
  PROVE  WithLine(fields, line) = Append(fields, [name |-> name, value |-> value])
<1> DEFINE rest == <<58, 32>> \o value
           n == Len(name)
           L == Len(line)
<1>0. /\ name \in Seq(Char) /\ value \in Seq(Char) /\ <<58, 32>> \in Seq(Char)
      /\ \A k \in 1..Len(name) : name[k] \in TokenChars
  BY SubsetsOfChar DEF Char
<1>1. /\ rest \in Seq(Char) /\ Len(rest) = 2 + Len(value) /\ Len(value) \in Nat
      /\ rest[1] = 58 /\ rest[2] = 32
      /\ SubSeq(rest, 2 + 1, 2 + Len(value)) = value
  <2> DEFINE two == <<58, 32>>
  <2>1. Len(two) = 2 /\ two[1] = 58 /\ two[2] = 32 /\ 1 \in 1..2 /\ 2 \in 1..2
    OBVIOUS
  <2>2. two \in Seq(Char) /\ rest = two \o value
    BY <1>0
  <2> HIDE DEF two, rest
  <2>3. Joins(rest, two, value)
    BY <1>0, <2>2, PartsOfConcat, Zenon
  <2> QED
    BY <2>1, <2>3 DEF Joins
<1> HIDE DEF rest
<1>2. /\ line \in Seq(Char) /\ L = n + Len(rest) /\ n \in Nat /\ n # 0
      /\ \A k \in 1..n : line[k] = name[k]
      /\ \A k \in 1..Len(rest) : line[n + k] = rest[k]
      /\ SubSeq(line, 1, n) = name
      /\ SubSeq(line, n + 1, n + Len(rest)) = rest
  <2>1. line = name \o rest
    BY DEF rest
  <2>2. Len(name) # 0
    BY EmptySeq
  <2>3. Joins(line, name, rest)
    BY <1>0, <1>1, <2>1, PartsOfConcat, Zenon
  <2> QED
    BY <2>2, <2>3 DEF Joins
<1> HIDE DEF L, n
<1>3. ~IsContinuation(line, 1, Len(line))
  <2> SUFFICES ASSUME NEW i \in 1..Len(line), All(line, 1, i, Blanks)
               PROVE  FALSE
    BY DEF IsContinuation
  <2>1. line[1] \in Blanks
    BY <1>2 DEF All
  <2>2. line[1] \in TokenChars
    <3>1. 1 \in 1..n
      BY <1>2
    <3> QED
      BY <1>0, <1>2, <3>1 DEF n
  <2> QED
    BY <2>1, <2>2, NotInNames, Zenon
<1> DEFINE colon == n + 1
           Colon(i) == line[i] = 58 /\ None(line, 1, i - 1, {58})
<1>c. colon = n + 1 /\ colon \in Int /\ colon - 1 = n
  BY <1>2
<1> HIDE DEF colon
<1>4. colon \in 1..L /\ Colon(colon)
  <2>1. colon \in 1..L /\ 1 \in 1..Len(rest)
    BY <1>1, <1>2, <1>c
  <2>2. \A k \in 1..n : line[k] # 58
    BY <1>0, <1>2, NotInNames, Zenon DEF n
  <2> QED
    BY <1>1, <1>2, <1>c, <2>1, <2>2 DEF None
<1>5. ASSUME NEW i \in 1..L, Colon(i)
      PROVE  i = colon
  <2>0. line[i] = 58 /\ None(line, 1, i - 1, {58})
    BY <1>5
  <2>1. ~(i < colon)
    <3> SUFFICES ASSUME i < colon PROVE FALSE
      OBVIOUS
    <3>1. i \in 1..n
      BY <1>2, <1>c
    <3>2. line[i] \in TokenChars
      BY <1>0, <1>2, <3>1 DEF n
    <3> QED
      BY <2>0, <3>2, NotInNames, Zenon
  <2>2. ~(colon < i)
    <3> SUFFICES ASSUME colon < i PROVE FALSE
      OBVIOUS
    <3>1. colon \in 1..i - 1
      BY <1>4
    <3>2. line[colon] \notin {58} /\ line[colon] = 58
      BY <1>4, <2>0, <3>1, Zenon DEF None
    <3> QED
      BY <3>2, Zenon
  <2> QED
    BY <1>c, <2>1, <2>2
<1>6. DOMAIN line = 1..L
  BY <1>2, LenProperties DEF L
<1>7. (CHOOSE i \in DOMAIN line : Colon(i)) = colon
  <2> HIDE DEF Colon
  <2> QED
    BY <1>4, <1>5, <1>6
<1>8. Field(line) = [name |-> SubSeq(line, 1, colon - 1), value |-> SubSeq(line, colon + 2, L)]
  BY <1>7, Zenon DEF Field, L
<1>9. SubSeq(line, colon + 2, L) = value
  <2> DEFINE m == colon + 2
  <2>0. m = n + 3 /\ m \in Int /\ L \in Int /\ Len(rest) \in Int /\ 3 \in Int
    BY <1>1, <1>2, <1>c
  <2> HIDE DEF m
  <2>1. SubSeq(line, m, L) = SubSeq(rest, 3, Len(rest))
    <3>1. CASE value = <<>>
      <4>1. L < m /\ Len(rest) < 3
        BY <1>1, <1>2, <2>0, <3>1, EmptySeq
      <4>2. SubSeq(line, m, L) = <<>> /\ SubSeq(rest, 3, Len(rest)) = <<>>
        BY <2>0, <4>1, SubSeqEmpty
      <4> QED
        BY <4>2
    <3>2. CASE value # <<>>
      <4>1. Len(value) # 0
        BY <1>0, <3>2, EmptySeq
      <4>2. /\ m \in Len(name) + 1 .. Len(name) + Len(rest)
            /\ L \in Len(name) + 1 .. Len(name) + Len(rest)
            /\ m - Len(name) = 3 /\ L - Len(name) = Len(rest)
        BY <1>1, <1>2, <2>0, <4>1 DEF n
      <4>3. SubSeq(name \o rest, m, L) = SubSeq(rest, m - Len(name), L - Len(name))
        BY <1>0, <1>1, <4>2, SubSeqOfConcat2
      <4>4. SubSeq(name \o rest, m, L) = SubSeq(rest, 3, Len(rest))
        BY <4>2, <4>3
      <4>5. line = name \o rest
        BY DEF rest
      <4> QED
        BY <4>4, <4>5, Zenon
    <3> QED
      BY <3>1, <3>2
  <2>2. SubSeq(rest, 3, Len(rest)) = value
    <3>1. 3 = 2 + 1 /\ Len(rest) = 2 + Len(value)
      BY <1>1
    <3> QED
      BY <1>1, <3>1
  <2> QED
    BY <2>1, <2>2 DEF m
<1>10. SubSeq(line, 1, colon - 1) = name
  BY <1>2, <1>c
<1> QED
  BY <1>3, <1>8, <1>9, <1>10, Zenon DEF WithLine

\* Blanks and what follows them continue a field.
LEMMA ContinuationSays ==
  ASSUME NEW fields, NEW blanks \in Seq(Blanks) \ {<<>>}, NEW value \in Seq(TextChars),
         value # <<>> => value[1] \notin Blanks,
         NEW line, line = blanks \o value
  PROVE  WithLine(fields, line) = [fields EXCEPT ![Len(fields)].value = @ \o value]
<1> DEFINE n == Len(blanks)
           L == Len(line)
           Last(i) == All(line, 1, i, Blanks) /\ (i = Len(line) \/ line[i + 1] \notin Blanks)
<1>0. /\ blanks \in Seq(Char) /\ value \in Seq(Char)
      /\ \A k \in 1..n : blanks[k] \in Blanks
      /\ \A k \in 1..Len(value) : value[k] \in TextChars
  BY SubsetsOfChar
<1>1. /\ line \in Seq(Char) /\ L = n + Len(value) /\ n \in Nat /\ n # 0 /\ Len(value) \in Nat
      /\ \A k \in 1..n : line[k] = blanks[k]
      /\ \A k \in 1..Len(value) : line[n + k] = value[k]
      /\ SubSeq(line, n + 1, n + Len(value)) = value
  <2>1. Joins(line, blanks, value)
    BY <1>0, PartsOfConcat, Zenon
  <2>2. n # 0
    BY EmptySeq
  <2> QED
    BY <2>1, <2>2 DEF Joins
<1>2. All(line, 1, n, Blanks)
  BY <1>0, <1>1 DEF All
<1>3. value = <<>> \/ (1 \in 1..Len(value) /\ line[n + 1] \notin Blanks)
  <2>1. value # <<>> => Len(value) # 0
    BY <1>0, EmptySeq
  <2> QED
    BY <1>1, <2>1
<1>4. IsContinuation(line, 1, L)
  <2>1. n \in 1..L
    BY <1>1
  <2>2. Text(line, n + 1, L)
    <3>1. ASSUME NEW k \in n + 1..L
          PROVE  line[k] \notin Controls
      <4>1. k - n \in 1..Len(value) /\ n + (k - n) = k
        BY <1>1
      <4>2. line[k] \in TextChars
        BY <1>0, <1>1, <4>1
      <4> QED
        BY <4>2 DEF TextChars, Controls
    <3> QED
      BY <3>1 DEF Text, None
  <2> QED
    BY <1>2, <2>1, <2>2 DEF IsContinuation
<1>5. n \in 1..L /\ Last(n)
  <2>1. value = <<>> => n = L
    BY <1>1, EmptySeq
  <2> QED
    BY <1>1, <1>2, <1>3, <2>1
<1>6. ASSUME NEW i \in 1..L, Last(i)
      PROVE  i = n
  <2>1. ~(i < n)
    BY <1>0, <1>1, <1>6
  <2>2. ~(n < i)
    <3> SUFFICES ASSUME n < i PROVE FALSE
      OBVIOUS
    <3>1. n + 1 \in 1..i /\ value # <<>>
      BY <1>1, <1>6, EmptySeq
    <3> QED
      BY <1>3, <1>6, <3>1 DEF All
  <2> QED
    BY <1>1, <2>1, <2>2
<1>7. DOMAIN line = 1..L
  BY <1>1, LenProperties
<1>8. (CHOOSE i \in DOMAIN line : Last(i)) = n
  <2> HIDE DEF Last, L, n
  <2> QED
    BY <1>5, <1>6, <1>7
<1>9. WithoutBlanks(line) = value
  <2>1. WithoutBlanks(line) = SubSeq(line, n + 1, L)
    BY <1>8, Zenon DEF WithoutBlanks
  <2> QED
    BY <1>1, <2>1
<1> QED
  BY <1>4, <1>9, Zenon DEF WithLine

-----------------------------------------------------------------------------
(* What consume makes of a header line *)

\* The last field's value goes on.
WithValue(fields, value) == [fields EXCEPT ![Len(fields)].value = @ \o value]

Named(name, value) == [name |-> name, value |-> value]

LEMMA NamedType ==
  ASSUME NEW name \in Seq(TokenChars) \ {<<>>}, NEW value \in Seq(TextChars)
  PROVE  /\ Named(name, value) \in HeaderType
         /\ Named(name, value).name = name /\ Named(name, value).value = value
BY DEF Named, HeaderType

\* The last field with more in its value.
LEMMA ValueGoesOn ==
  ASSUME NEW fields \in Seq(HeaderType), fields # <<>>, NEW value \in Seq(TextChars)
  PROVE  /\ Len(fields) \in 1..Len(fields)
         /\ fields[Len(fields)] \in HeaderType
         /\ [fields[Len(fields)] EXCEPT !.value = @ \o value] \in HeaderType
         /\ WithValue(fields, value) = [fields EXCEPT ![Len(fields)] = [fields[Len(fields)] EXCEPT !.value = @ \o value]]
<1>1. Len(fields) \in 1..Len(fields)
  BY EmptySeq, LenProperties
<1>2. fields[Len(fields)] \in HeaderType
  BY <1>1, ElementOfSeq
<1> DEFINE h == fields[Len(fields)]
<1>3. h.value \o value \in Seq(TextChars)
  <2>1. h.value \in Seq(TextChars)
    BY <1>2 DEF HeaderType
  <2> QED
    BY <2>1, ConcatProperties
<1> HIDE DEF h
<1>4. [h EXCEPT !.value = @ \o value] \in HeaderType
  BY <1>2, <1>3 DEF HeaderType, h
<1>5. WithValue(fields, value) = [fields EXCEPT ![Len(fields)] = [fields[Len(fields)] EXCEPT !.value = @ \o value]]
  BY Zenon DEF WithValue
<1> QED
  BY <1>1, <1>2, <1>4, <1>5 DEF h

\* Nothing added is no change.
LEMMA NothingGoesOn ==
  ASSUME NEW fields \in Seq(HeaderType), fields # <<>>
  PROVE  WithValue(fields, <<>>) = fields
<1> DEFINE n == Len(fields)
           h == fields[n]
           new == [h EXCEPT !.value = @ \o <<>>]
<1>0. <<>> \in Seq(TextChars)
  BY EmptySeq
<1>1. n \in 1..n /\ h \in HeaderType /\ WithValue(fields, <<>>) = [fields EXCEPT ![n] = new]
  BY <1>0, ValueGoesOn
<1>2. new = h
  <2>1. h.value \in Seq(TextChars)
    BY <1>1 DEF HeaderType
  <2>2. h.value \o <<>> = h.value
    BY <2>1, ConcatEmptySeq
  <2> HIDE DEF h
  <2> QED
    BY <1>1, <2>2 DEF HeaderType
<1> HIDE DEF new
<1>3. [fields EXCEPT ![n] = h] = fields
  OBVIOUS
<1> QED
  BY <1>1, <1>2, <1>3

\* A character more in the value that goes on.
LEMMA LastGoesOn ==
  ASSUME NEW fields \in Seq(HeaderType), fields # <<>>, NEW value \in Seq(TextChars), NEW c \in TextChars
  PROVE  AppendToLast(WithValue(fields, value), "value", c) = WithValue(fields, Append(value, c))
<1> DEFINE n == Len(fields)
           h == fields[n]
           g == [h EXCEPT !.value = @ \o value]
           new == [h EXCEPT !.value = @ \o Append(value, c)]
           f == WithValue(fields, value)
           u == AppendToLast(f, "value", c)
<1>0. Append(value, c) \in Seq(TextChars)
  BY AppendProperties
<1>1. n \in 1..Len(fields) /\ h \in HeaderType /\ g \in HeaderType /\ f = [fields EXCEPT ![n] = g]
  BY ValueGoesOn
<1>2. new \in HeaderType /\ WithValue(fields, Append(value, c)) = [fields EXCEPT ![n] = new]
  BY <1>0, ValueGoesOn
<1>3. new = [g EXCEPT !.value = Append(@, c)]
  <2>1. h.value \in Seq(TextChars)
    BY <1>1 DEF HeaderType
  <2>2. h.value \o Append(value, c) = Append(h.value \o value, c)
    <3>1. Append(value, c) = value \o <<c>>
      BY AppendIsConcat
    <3>2. h.value \o value \in Seq(TextChars) /\ <<c>> \in Seq(TextChars)
      BY <2>1, ConcatProperties
    <3>3. Append(h.value \o value, c) = (h.value \o value) \o <<c>>
      <4> DEFINE w == h.value \o value
      <4>1. w \in Seq(TextChars)
        BY <3>2
      <4> HIDE DEF w
      <4>2. Append(w, c) = w \o <<c>>
        BY <4>1, AppendIsConcat
      <4> QED
        BY <4>2 DEF w
    <3>4. (h.value \o value) \o <<c>> = h.value \o (value \o <<c>>)
      <4> DEFINE x == h.value
                 y == <<c>>
      <4>1. x \in Seq(TextChars) /\ y \in Seq(TextChars)
        BY <2>1, <3>2
      <4> HIDE DEF x, y
      <4>2. (x \o value) \o y = x \o (value \o y)
        BY <4>1, ConcatAssociative
      <4> QED
        BY <4>2 DEF x, y
    <3> QED
      BY <3>1, <3>3, <3>4, Zenon
  <2> HIDE DEF h
  <2> QED
    BY <1>1, <2>2 DEF HeaderType
<1> HIDE DEF new, g, h, f
<1>4. f \in Seq(HeaderType) /\ Len(f) = n /\ f[n] = g
  BY <1>1, ExceptSeq
<1>5. u = [f EXCEPT ![n] = new]
  <2>1. u = [f EXCEPT ![n] = [f[n] EXCEPT !.value = Append(@, c)]]
    BY <1>4, Zenon DEF AppendToLast
  <2> QED
    BY <1>3, <1>4, <2>1, Zenon
<1>6. [f EXCEPT ![n] = new] = [fields EXCEPT ![n] = new]
  <2> HIDE DEF n, u
  <2> QED
    BY <1>1, Zenon
<1> QED
  BY <1>2, <1>5, <1>6 DEF f

Name == Seq(TokenChars) \ {<<>>}

IsNamed(fields, line, headers) ==
  \E name \in Name, value \in Seq(TextChars) :
    line = name \o (<<58, 32>> \o value) /\ headers = Append(fields, Named(name, value))

GoesOn(fields, line, headers) ==
  \E blanks \in Seq(Blanks) \ {<<>>}, value \in Seq(TextChars) :
    /\ fields # <<>> /\ value # <<>> /\ value[1] \notin Blanks
    /\ line = blanks \o value /\ headers = WithValue(fields, value)

\* What the headers are when a header line has been read as far as line, and the
\* lines before it said fields.
LineRead(st, fields, line, headers) ==
  /\ st = "header_line_start" => line = <<>> /\ headers = fields
  /\ st = "header_name" => line \in Name /\ headers = Append(fields, Named(line, <<>>))
  /\ st = "space_before_header_value" =>
       \E name \in Name : line = Append(name, 58) /\ headers = Append(fields, Named(name, <<>>))
  /\ st = "header_value" => IsNamed(fields, line, headers) \/ GoesOn(fields, line, headers)
  /\ st = "header_lws" => fields # <<>> /\ line \in Seq(Blanks) \ {<<>>} /\ headers = fields
  /\ st = "expecting_newline_2" => \E l \in Seq(Char) : line = Append(l, 13) /\ headers = WithLine(fields, l)
  /\ st = "expecting_newline_3" => headers = fields

LEMMA EndLineRead ==
  ASSUME NEW fields \in Seq(HeaderType), NEW line \in Seq(Char), NEW headers,
         IsNamed(fields, line, headers) \/ GoesOn(fields, line, headers)
  PROVE  headers = WithLine(fields, line)
<1>1. CASE IsNamed(fields, line, headers)
  <2>1. PICK name \in Name, value \in Seq(TextChars) :
          line = name \o (<<58, 32>> \o value) /\ headers = Append(fields, Named(name, value))
    BY <1>1 DEF IsNamed
  <2>2. WithLine(fields, line) = Append(fields, [name |-> name, value |-> value])
    BY <2>1, FieldSays, Zenon DEF Name
  <2> QED
    BY <2>1, <2>2, Zenon DEF Named
<1>2. CASE GoesOn(fields, line, headers)
  <2>1. PICK blanks \in Seq(Blanks) \ {<<>>}, value \in Seq(TextChars) :
          /\ value[1] \notin Blanks
          /\ line = blanks \o value /\ headers = WithValue(fields, value)
    BY <1>2, Zenon DEF GoesOn
  <2>2. WithLine(fields, line) = [fields EXCEPT ![Len(fields)].value = @ \o value]
    BY <2>1, ContinuationSays, Zenon
  <2> QED
    BY <2>1, <2>2, Zenon DEF WithValue
<1> QED
  BY <1>1, <1>2

\* Where within a line a character leads to.
LEMMA LineMoves ==
  ASSUME NEW st, NEW c \in Char, NEW folded \in BOOLEAN, NEW next,
         InHeaders(st, c, folded, next), next \notin {"header_line_start", "good"}
  PROVE  \/ st = "header_line_start" /\ c = 13 /\ next = "expecting_newline_3"
         \/ st = "header_line_start" /\ folded /\ c \in Blanks /\ next = "header_lws"
         \/ st = "header_line_start" /\ c \in TokenChars /\ next = "header_name"
         \/ st = "header_name" /\ c \in TokenChars /\ next = "header_name"
         \/ st = "header_lws" /\ c \in Blanks /\ next = "header_lws"
         \/ st = "header_lws" /\ c = 13 /\ next = "expecting_newline_2"
         \/ st = "header_value" /\ c = 13 /\ next = "expecting_newline_2"
         \/ st = "header_lws" /\ c \in TextChars /\ c \notin Blanks /\ next = "header_value"
         \/ st = "header_name" /\ c = 58 /\ next = "space_before_header_value"
         \/ st = "space_before_header_value" /\ c = 32 /\ next = "header_value"
         \/ st = "header_value" /\ c \in TextChars /\ next = "header_value"
<1>1. /\ IsToken(c) => c \in TokenChars
      /\ ~is_ctl(c) => c \in TextChars
      /\ ~is_ctl(c) /\ c # 32 => c \notin Blanks
  BY Characters DEF is_ctl, Blanks
<1> QED
  BY <1>1 DEF InHeaders, SP, TAB, CR, LF, Blanks

LEMMA AppendToConcat ==
  ASSUME NEW a \in Seq(Char), NEW b \in Seq(Char), NEW e \in Char
  PROVE  Append(a \o b, e) = a \o Append(b, e)
<1> DEFINE ab == a \o b
           x == <<e>>
<1>1. ab \in Seq(Char) /\ x \in Seq(Char)
  BY ConcatProperties
<1>2. Append(b, e) = b \o x
  BY AppendIsConcat
<1> HIDE DEF ab, x
<1>3. Append(ab, e) = ab \o x
  BY <1>1, AppendIsConcat DEF x
<1>4. ab \o x = a \o (b \o x)
  BY <1>1, ConcatAssociative DEF ab
<1> QED
  BY <1>2, <1>3, <1>4, Zenon DEF ab

LEMMA ColonBlank ==
  ASSUME NEW x \in Seq(Char), x = << 58 >>
  PROVE  Append(x, 32) = <<58, 32>>
<1> DEFINE y == <<58, 32>>
           z == Append(x, 32)
<1>1. y \in Seq(Char) /\ Len(y) = 2 /\ y[1] = 58 /\ y[2] = 32
  BY DEF Char
<1>2. Len(x) = 1 /\ x[1] = 58 /\ 32 \in Char
  BY DEF Char
<1>3. z \in Seq(Char) /\ Len(z) = 2 /\ z[1] = 58 /\ z[2] = 32
  BY <1>2, AppendProperties
<1> HIDE DEF y, z
<1>4. y = z
  BY <1>1, <1>3, SeqEqual
<1> QED
  BY <1>4 DEF y, z

LEMMA LastChanges ==
  ASSUME NEW fields \in Seq(HeaderType), NEW h \in HeaderType, NEW new \in HeaderType
  PROVE  [Append(fields, h) EXCEPT ![Len(Append(fields, h))] = new] = Append(fields, new)
<1> DEFINE f == Append(fields, h)
           n == Len(f)
           u == [f EXCEPT ![n] = new]
           v == Append(fields, new)
<1>1. /\ f \in Seq(HeaderType) /\ n = Len(fields) + 1 /\ Len(fields) \in Nat
      /\ \A k \in 1..Len(fields) : f[k] = fields[k]
  BY AppendProperties, LenProperties
<1>2. /\ v \in Seq(HeaderType) /\ Len(v) = Len(fields) + 1 /\ v[Len(fields) + 1] = new
      /\ \A k \in 1..Len(fields) : v[k] = fields[k]
  BY AppendProperties
<1> HIDE DEF f, v
<1>4. n \in 1..Len(f)
  BY <1>1
<1>5. u \in Seq(HeaderType) /\ Len(u) = n /\ \A j \in 1..n : u[j] = IF j = n THEN new ELSE f[j]
  BY <1>1, <1>4, ExceptSeq
<1> HIDE DEF u, n
<1>6. \A j \in 1..Len(u) : u[j] = v[j]
  <2> TAKE j \in 1..Len(u)
  <2>1. j = n \/ j \in 1..Len(fields)
    BY <1>1, <1>5
  <2> QED
    BY <1>1, <1>2, <1>5, <2>1
<1>7. u = v
  BY <1>1, <1>2, <1>5, <1>6, SeqEqual
<1> QED
  BY <1>7 DEF u, v, f, n

LEMMA Renamed ==
  ASSUME NEW name, NEW value, NEW new
  PROVE  /\ Named(name, value)["name"] = name /\ Named(name, value)["value"] = value
         /\ [Named(name, value) EXCEPT !["name"] = new] = Named(new, value)
         /\ [Named(name, value) EXCEPT !["value"] = new] = Named(name, new)
<1>1. Named(name, value)["name"] = name
  BY DEF Named
<1>2. Named(name, value)["value"] = value
  BY DEF Named
<1>3. [Named(name, value) EXCEPT !["name"] = new] = Named(new, value)
  BY DEF Named
<1>4. [Named(name, value) EXCEPT !["value"] = new] = Named(name, new)
  BY DEF Named
<1> QED
  BY <1>1, <1>2, <1>3, <1>4, Zenon

\* A character more in the name, and in the value, of the field added last.
LEMMA NameGrows ==
  ASSUME NEW fields \in Seq(HeaderType), NEW name \in Name, NEW value \in Seq(TextChars), NEW c \in TokenChars
  PROVE  /\ Append(name, c) \in Name
         /\ AppendToLast(Append(fields, Named(name, value)), "name", c) = Append(fields, Named(Append(name, c), value))
<1> DEFINE more == Append(name, c)
           h == Named(name, value)
           new == Named(more, value)
           f == Append(fields, h)
           n == Len(f)
<1>1. more \in Name
  BY AppendProperties DEF Name
<1>2. h \in HeaderType /\ new \in HeaderType
  BY <1>1, NamedType, Zenon DEF Name
<1> HIDE DEF more
<1>3. h["name"] = name /\ [h EXCEPT !["name"] = more] = new
  BY Renamed
<1> HIDE DEF h, new
<1>4. n \in 1..Len(f) /\ f[n] = h
  BY <1>2, AppendProperties, LenProperties
<1>5. [f EXCEPT ![n] = new] = Append(fields, new)
  BY <1>2, LastChanges
<1> HIDE DEF f, n
<1>6. AppendToLast(f, "name", c) = [f EXCEPT ![n] = [f[n] EXCEPT !["name"] = Append(f[n]["name"], c)]]
  BY Zenon DEF AppendToLast, n
<1>7. AppendToLast(f, "name", c) = [f EXCEPT ![n] = new]
  BY <1>3, <1>4, <1>6, Zenon DEF more
<1> QED
  BY <1>1, <1>5, <1>7 DEF f, h, new, more

LEMMA ValueGrows ==
  ASSUME NEW fields \in Seq(HeaderType), NEW name \in Name, NEW value \in Seq(TextChars), NEW c \in TextChars
  PROVE  /\ Append(value, c) \in Seq(TextChars)
         /\ AppendToLast(Append(fields, Named(name, value)), "value", c) = Append(fields, Named(name, Append(value, c)))
<1> DEFINE more == Append(value, c)
           h == Named(name, value)
           new == Named(name, more)
           f == Append(fields, h)
           n == Len(f)
<1>1. more \in Seq(TextChars)
  BY AppendProperties
<1>2. h \in HeaderType /\ new \in HeaderType
  BY <1>1, NamedType, Zenon DEF Name
<1> HIDE DEF more
<1>3. h["value"] = value /\ [h EXCEPT !["value"] = more] = new
  BY Renamed
<1> HIDE DEF h, new
<1>4. n \in 1..Len(f) /\ f[n] = h
  BY <1>2, AppendProperties, LenProperties
<1>5. [f EXCEPT ![n] = new] = Append(fields, new)
  BY <1>2, LastChanges
<1> HIDE DEF f, n
<1>6. AppendToLast(f, "value", c) = [f EXCEPT ![n] = [f[n] EXCEPT !["value"] = Append(f[n]["value"], c)]]
  BY Zenon DEF AppendToLast, n
<1>7. AppendToLast(f, "value", c) = [f EXCEPT ![n] = new]
  BY <1>3, <1>4, <1>6, Zenon DEF more
<1> QED
  BY <1>1, <1>5, <1>7 DEF f, h, new, more

\* Within a header line.
LEMMA LineReadNext ==
  ASSUME NEW st, NEW c \in Char, NEW next, NEW headers \in Seq(HeaderType),
         NEW fields \in Seq(HeaderType), NEW line \in Seq(Char),
         InHeaders(st, c, headers # <<>>, next), next \notin {"header_line_start", "good"},
         LineRead(st, fields, line, headers)
  PROVE  LineRead(next, fields, Append(line, c), Headers(headers, st, next, c))
<1> DEFINE l == Append(line, c)
           h == Headers(headers, st, next, c)
<1> SUFFICES LineRead(next, fields, l, h)
  OBVIOUS
<1>0. /\ (headers # <<>>) \in BOOLEAN /\ <<>> \in Seq(TextChars) /\ <<>> \in Seq(Blanks) /\ <<>> \in Seq(TokenChars)
  BY EmptySeq
<1>m. \/ st = "header_line_start" /\ c = 13 /\ next = "expecting_newline_3"
      \/ st = "header_line_start" /\ headers # <<>> /\ c \in Blanks /\ next = "header_lws"
      \/ st = "header_line_start" /\ c \in TokenChars /\ next = "header_name"
      \/ st = "header_name" /\ c \in TokenChars /\ next = "header_name"
      \/ st = "header_lws" /\ c \in Blanks /\ next = "header_lws"
      \/ st = "header_lws" /\ c = 13 /\ next = "expecting_newline_2"
      \/ st = "header_value" /\ c = 13 /\ next = "expecting_newline_2"
      \/ st = "header_lws" /\ c \in TextChars /\ c \notin Blanks /\ next = "header_value"
      \/ st = "header_name" /\ c = 58 /\ next = "space_before_header_value"
      \/ st = "space_before_header_value" /\ c = 32 /\ next = "header_value"
      \/ st = "header_value" /\ c \in TextChars /\ next = "header_value"
  BY <1>0, LineMoves, Zenon
<1>1. CASE st = "header_line_start" /\ c = 13 /\ next = "expecting_newline_3"
  <2>1. h = headers /\ headers = fields
    BY <1>1 DEF Headers, LineRead
  <2> HIDE DEF h, l
  <2> QED
    BY <1>1, <2>1 DEF LineRead
<1>2. CASE st = "header_line_start" /\ headers # <<>> /\ c \in Blanks /\ next = "header_lws"
  <2>1. h = headers /\ headers = fields /\ line = <<>>
    BY <1>2 DEF Headers, LineRead
  <2>2. l \in Seq(Blanks) \ {<<>>}
    BY <1>0, <1>2, <2>1, AppendProperties
  <2> HIDE DEF h, l
  <2> QED
    BY <1>2, <2>1, <2>2 DEF LineRead
<1>3. CASE st = "header_line_start" /\ c \in TokenChars /\ next = "header_name"
  <2>1. h = Append(headers, [name |-> <<c>>, value |-> <<>>]) /\ headers = fields /\ line = <<>>
    BY <1>3 DEF Headers, LineRead
  <2>2. l \in Name /\ l = <<c>>
    BY <1>0, <1>3, <2>1, AppendProperties DEF Name
  <2>3. h = Append(fields, Named(l, <<>>))
    BY <2>1, <2>2, Zenon DEF Named
  <2> HIDE DEF h, l
  <2> QED
    BY <1>3, <2>2, <2>3 DEF LineRead
<1>4. CASE st = "header_name" /\ c \in TokenChars /\ next = "header_name"
  <2>1. h = AppendToLast(headers, "name", c) /\ line \in Name /\ headers = Append(fields, Named(line, <<>>))
    BY <1>4 DEF Headers, LineRead
  <2>2. l \in Name /\ h = Append(fields, Named(l, <<>>))
    BY <1>0, <1>4, <2>1, NameGrows, Zenon
  <2> HIDE DEF h, l
  <2> QED
    BY <1>4, <2>2 DEF LineRead
<1>5. CASE st = "header_lws" /\ c \in Blanks /\ next = "header_lws"
  <2>1. h = headers /\ fields # <<>> /\ line \in Seq(Blanks) \ {<<>>} /\ headers = fields
    BY <1>5 DEF Headers, LineRead
  <2>2. l \in Seq(Blanks) \ {<<>>}
    BY <1>5, <2>1, AppendProperties
  <2> HIDE DEF h, l
  <2> QED
    BY <1>5, <2>1, <2>2 DEF LineRead
<1>6. CASE st = "header_lws" /\ c = 13 /\ next = "expecting_newline_2"
  <2>1. h = headers /\ fields # <<>> /\ line \in Seq(Blanks) \ {<<>>} /\ headers = fields
    BY <1>6 DEF Headers, LineRead
  <2> DEFINE v == <<>>
  <2>2. line = line \o v
    BY <2>1, ConcatEmptySeq
  <2>3. v \in Seq(TextChars) /\ (v # <<>> => v[1] \notin Blanks)
    BY <1>0
  <2>4. WithLine(fields, line) = fields
    <3>1. WithValue(fields, v) = fields
      BY <2>1, NothingGoesOn
    <3> HIDE DEF v, l, h
    <3>2. ASSUME NEW x, x = line
          PROVE  WithLine(fields, x) = WithValue(fields, v)
      <4>1. line \in Seq(Blanks) \ {<<>>} /\ x = line \o v
        BY <2>1, <2>2, <3>2, Zenon
      <4> QED
        BY <2>3, <4>1, ContinuationSays, Zenon DEF WithValue
    <3> QED
      BY <3>1, <3>2, Zenon
  <2>5. \E k \in Seq(Char) : l = Append(k, 13) /\ h = WithLine(fields, k)
    BY <1>6, <2>1, <2>4, Zenon
  <2> HIDE DEF h, l
  <2> QED
    BY <1>6, <2>5 DEF LineRead
<1>7. CASE st = "header_value" /\ c = 13 /\ next = "expecting_newline_2"
  <2>1. h = headers /\ (IsNamed(fields, line, headers) \/ GoesOn(fields, line, headers))
    BY <1>7 DEF Headers, LineRead
  <2>2. headers = WithLine(fields, line)
    BY <2>1, EndLineRead, Zenon
  <2>3. \E k \in Seq(Char) : l = Append(k, 13) /\ h = WithLine(fields, k)
    BY <1>7, <2>1, <2>2, Zenon
  <2> HIDE DEF h, l
  <2> QED
    BY <1>7, <2>3 DEF LineRead
<1>8. CASE st = "header_lws" /\ c \in TextChars /\ c \notin Blanks /\ next = "header_value"
  <2>1. h = AppendToLast(headers, "value", c) /\ fields # <<>> /\ line \in Seq(Blanks) \ {<<>>} /\ headers = fields
    BY <1>8 DEF Headers, LineRead
  <2> DEFINE v == Append(<<>>, c)
  <2>2. v \in Seq(TextChars) /\ v # <<>> /\ v[1] = c /\ v = <<c>>
    BY <1>0, <1>8, AppendProperties
  <2>3. headers = WithValue(fields, <<>>)
    BY <2>1, NothingGoesOn
  <2>4. h = WithValue(fields, v)
    BY <1>0, <1>8, <2>1, <2>3, LastGoesOn, Zenon
  <2>5. l = line \o v
    BY <2>2, AppendIsConcat
  <2> HIDE DEF h, l, v
  <2>6. GoesOn(fields, l, h)
    BY <1>8, <2>1, <2>2, <2>4, <2>5, Zenon DEF GoesOn
  <2> QED
    BY <1>8, <2>6 DEF LineRead
<1>9. CASE st = "header_name" /\ c = 58 /\ next = "space_before_header_value"
  <2>1. h = headers /\ line \in Name /\ headers = Append(fields, Named(line, <<>>))
    BY <1>9 DEF Headers, LineRead
  <2>2. \E name \in Name : l = Append(name, 58) /\ h = Append(fields, Named(name, <<>>))
    BY <1>9, <2>1, Zenon
  <2> HIDE DEF h, l
  <2> QED
    BY <1>9, <2>2 DEF LineRead
<1>10. CASE st = "space_before_header_value" /\ c = 32 /\ next = "header_value"
  <2>1. h = headers
    BY <1>10 DEF Headers
  <2>2. PICK name \in Name : line = Append(name, 58) /\ headers = Append(fields, Named(name, <<>>))
    BY <1>10 DEF LineRead
  <2>3. l = name \o (<<58, 32>> \o <<>>)
    <3> DEFINE x == <<58>>
    <3>1. name \in Seq(Char) /\ 58 \in Char /\ 32 \in Char /\ x \in Seq(Char)
      BY SubsetsOfChar DEF Name, Char
    <3>2. Append(x, 32) = <<58, 32>> \o <<>>
      <4>1. <<58, 32>> \in Seq(Char)
        BY <3>1
      <4>2. <<58, 32>> \o <<>> = <<58, 32>>
        BY <4>1, ConcatEmptySeq
      <4>3. Append(x, 32) = <<58, 32>>
        BY <3>1, ColonBlank
      <4> QED
        BY <4>2, <4>3, Zenon
    <3>3. line = name \o x
      BY <2>2, <3>1, AppendIsConcat
    <3> HIDE DEF x
    <3>4. Append(name \o x, 32) = name \o Append(x, 32)
      BY <3>1, AppendToConcat, Zenon
    <3> QED
      BY <1>10, <3>2, <3>3, <3>4, Zenon
  <2> HIDE DEF h, l
  <2>4. IsNamed(fields, l, h)
    BY <1>0, <2>1, <2>2, <2>3, Zenon DEF IsNamed
  <2> QED
    BY <1>10, <2>4 DEF LineRead
<1>11. CASE st = "header_value" /\ c \in TextChars /\ next = "header_value"
  <2>1. h = AppendToLast(headers, "value", c)
    BY <1>11 DEF Headers
  <2>2. IsNamed(fields, line, headers) \/ GoesOn(fields, line, headers)
    BY <1>11 DEF LineRead
  <2>3. ASSUME IsNamed(fields, line, headers)
        PROVE  IsNamed(fields, l, h)
    <3>1. PICK name \in Name, value \in Seq(TextChars) :
            line = name \o (<<58, 32>> \o value) /\ headers = Append(fields, Named(name, value))
      BY <2>3 DEF IsNamed
    <3> DEFINE v == Append(value, c)
    <3>2. v \in Seq(TextChars) /\ h = Append(fields, Named(name, v))
      BY <1>11, <2>1, <3>1, ValueGrows, Zenon
    <3>3. l = name \o (<<58, 32>> \o v)
      <4> DEFINE x == <<58, 32>>
                 z == x \o value
      <4>1. x \in Seq(Char) /\ name \in Seq(Char) /\ value \in Seq(Char)
        BY SubsetsOfChar DEF Name, Char
      <4> HIDE DEF x
      <4>2. z \in Seq(Char)
        BY <4>1, ConcatProperties
      <4>3. Append(z, c) = x \o v
        BY <4>1, AppendToConcat, Zenon
      <4>4. line = name \o z
        BY <3>1 DEF x
      <4> HIDE DEF z, v
      <4>5. Append(name \o z, c) = name \o Append(z, c)
        BY <4>1, <4>2, AppendToConcat, Zenon
      <4> QED
        BY <4>3, <4>4, <4>5, Zenon DEF x
    <3> HIDE DEF v, h, l
    <3> QED
      BY <3>1, <3>2, <3>3, Zenon DEF IsNamed
  <2>4. ASSUME GoesOn(fields, line, headers)
        PROVE  GoesOn(fields, l, h)
    <3>1. PICK blanks \in Seq(Blanks) \ {<<>>}, value \in Seq(TextChars) :
            /\ fields # <<>> /\ value # <<>> /\ value[1] \notin Blanks
            /\ line = blanks \o value /\ headers = WithValue(fields, value)
      BY <2>4, Zenon DEF GoesOn
    <3> DEFINE v == Append(value, c)
    <3>2. v \in Seq(TextChars) /\ v # <<>> /\ v[1] = value[1]
      <4>1. 1 \in 1..Len(value)
        BY <3>1, EmptySeq, LenProperties
      <4> QED
        BY <1>11, <4>1, AppendProperties
    <3>3. l = blanks \o v
      <4>1. blanks \in Seq(Char) /\ value \in Seq(Char)
        BY SubsetsOfChar
      <4>2. Append(blanks \o value, c) = blanks \o v
        BY <4>1, AppendToConcat, Zenon
      <4> QED
        BY <3>1, <4>2, Zenon
    <3>4. AppendToLast(WithValue(fields, value), "value", c) = WithValue(fields, v)
      BY <1>11, <3>1, LastGoesOn, Zenon
    <3> HIDE DEF v, h, l
    <3> QED
      BY <2>1, <3>1, <3>2, <3>3, <3>4, Zenon DEF GoesOn
  <2> HIDE DEF h, l
  <2> QED
    BY <1>11, <2>2, <2>3, <2>4 DEF LineRead
<1> QED
  BY <1>m, <1>1, <1>2, <1>3, <1>4, <1>5, <1>6, <1>7, <1>8, <1>9, <1>10, <1>11

-----------------------------------------------------------------------------
(* What the version says *)

SaysNumber(s, a, z, number) == number = NumberIn(Words, SubSeq(s, a, z))

\* d is the dot.
SaysVersion(s, a, d, z, major, minor) ==
  /\ a + 6 <= d /\ d < z /\ VersionAt(s, a, d, z)
  /\ SaysNumber(s, a + 5, d - 1, major) /\ SaysNumber(s, d + 1, z, minor)

\* What the version is when it has been read as far as n.
VersionRead(s, st, a, n, major, minor) ==
  /\ st \in {"http_version_major_start", "http_version_major"} =>
       SaysNumber(s, a + 5, n, major) /\ minor = 0
  /\ st = "http_version_minor_start" => SaysNumber(s, a + 5, n - 1, major) /\ minor = 0
  /\ st = "http_version_minor" => \E d \in Int : SaysVersion(s, a, d, n, major, minor)
  /\ st = "expecting_newline_1" => \E d \in Int : SaysVersion(s, a, d, n - 1, major, minor)

Major(number, st, next, c) == Version(number, st, next, c, "http_version_major_start", "http_version_major")
Minor(number, st, next, c) == Version(number, st, next, c, "http_version_minor_start", "http_version_minor")

LEMMA NumberStays ==
  ASSUME NEW s \in Seq(Char), NEW c \in Char, NEW a \in Int, NEW z \in Int, 1 <= a, a <= z + 1, z <= Len(s),
         NEW number, SaysNumber(s, a, z, number)
  PROVE  SaysNumber(Append(s, c), a, z, number)
<1>1. a <= Len(s) + 1
  BY LenProperties
<1>2. SubSeq(Append(s, c), a, z) = SubSeq(s, a, z)
  BY <1>1, PartGrows
<1> QED
  BY <1>2, Zenon DEF SaysNumber

LEMMA NumberGrows ==
  ASSUME NEW s \in Seq(Char), NEW c \in Digits, NEW a \in Int, 1 <= a, a <= Len(s) + 1,
         All(s, a, Len(s), Digits), NEW number, SaysNumber(s, a, Len(s), number)
  PROVE  SaysNumber(Append(s, c), a, Len(s) + 1, Shifted(number, c))
<1> DEFINE n == Len(s)
           ds == SubSeq(s, a, n)
<1>0. n \in Nat /\ c \in Char
  BY LenProperties DEF Digits, Char
<1>1. ds \in Seq(Digits)
  <2>1. \A k \in a..n : s[k] \in Digits
    BY DEF All
  <2> QED
    BY <1>0, <2>1, SubSeqProperties
<1>2. SubSeq(Append(s, c), a, n + 1) = Append(ds, c)
  BY <1>0, PartGrows
<1> HIDE DEF ds
<1>3. Shifted(NumberIn(Words, ds), c) = NumberIn(Words, Append(ds, c))
  BY <1>1, NumberNext
<1>4. number = NumberIn(Words, ds)
  BY DEF SaysNumber, ds
<1> QED
  BY <1>2, <1>3, <1>4, Zenon DEF SaysNumber

\* No digits.
LEMMA NumberBegins ==
  ASSUME NEW s \in Seq(Char), NEW a \in Int
  PROVE  SaysNumber(s, a, a - 1, 0)
<1>1. SubSeq(s, a, a - 1) = <<>>
  <2>1. \A k \in a..a - 1 : s[k] \in Char
    OBVIOUS
  <2>2. SubSeq(s, a, a - 1) \in Seq(Char) /\ Len(SubSeq(s, a, a - 1)) = 0
    BY <2>1, SubSeqProperties
  <2> QED
    BY <2>2, EmptySeq
<1> QED
  BY <1>1, NumberOfNothing, Zenon DEF SaysNumber

LEMMA HttpAgrees ==
  ASSUME NEW s, NEW t, NEW n \in Int, Agree(s, t, n), NEW a \in Int, a >= 1, a + 4 <= n
  PROVE  Http(s, a) <=> Http(t, a)
<1>1. a \in 1..n /\ a + 1 \in 1..n /\ a + 2 \in 1..n /\ a + 3 \in 1..n /\ a + 4 \in 1..n
  OBVIOUS
<1>2. t[a] = s[a] /\ t[a + 1] = s[a + 1] /\ t[a + 2] = s[a + 2] /\ t[a + 3] = s[a + 3] /\ t[a + 4] = s[a + 4]
  BY <1>1 DEF Agree
<1> QED
  BY <1>2, Zenon DEF Http

\* The version of a text that goes on.
LEMMA VersionStays ==
  ASSUME NEW s \in Seq(Char), NEW c \in Char, NEW a \in Int, NEW d \in Int, NEW z \in Int, 1 <= a, z <= Len(s),
         NEW major, NEW minor, SaysVersion(s, a, d, z, major, minor)
  PROVE  SaysVersion(Append(s, c), a, d, z, major, minor)
<1> DEFINE t == Append(s, c)
           a5 == a + 5
           d1 == d - 1
           e1 == d + 1
<1>0. /\ a + 6 <= d /\ d < z /\ VersionAt(s, a, d, z) /\ SaysNumber(s, a5, d1, major) /\ SaysNumber(s, e1, z, minor)
  BY DEF SaysVersion
<1>1. /\ a5 \in Int /\ d1 \in Int /\ e1 \in Int /\ 1 <= a5 /\ a5 <= d1 + 1 /\ d1 <= Len(s) /\ 1 <= e1 /\ e1 <= z + 1
      /\ d1 <= z
  BY <1>0, LenProperties
<1> HIDE DEF a5, d1, e1
<1>2. SaysNumber(t, a5, d1, major) /\ SaysNumber(t, e1, z, minor)
  BY <1>0, <1>1, NumberStays
<1>3. Agree(s, t, Len(s)) /\ Len(s) \in Int
  BY AppendAgrees
<1> HIDE DEF t
<1>4. /\ All(s, a5, d1, Digits) <=> All(t, a5, d1, Digits)
      /\ All(s, e1, z, Digits) <=> All(t, e1, z, Digits)
  BY <1>1, <1>3, PartsAgree
<1>5. t[d] = s[d] /\ (Http(s, a) <=> Http(t, a))
  <2>1. d \in 1..Len(s) /\ a >= 1 /\ a + 4 <= Len(s)
    BY <1>0, <1>3
  <2>2. t[d] = s[d]
    BY <1>3, <2>1 DEF Agree
  <2>3. Http(s, a) <=> Http(t, a)
    BY <1>3, <2>1, HttpAgrees
  <2> QED
    BY <2>2, <2>3
<1>6. VersionAt(t, a, d, z)
  BY <1>0, <1>4, <1>5 DEF VersionAt, a5, d1, e1
<1> QED
  BY <1>0, <1>2, <1>6 DEF SaysVersion, t, a5, d1, e1

\* A character more of the version.
LEMMA VersionReadNext ==
  ASSUME NEW s \in Seq(Char), NEW c \in Char, NEW a \in Int, a >= 1, NEW st, NEW next,
         NEW major, NEW minor,
         VersionSoFar(s, st, a, Len(s)), InRequestLine(st, c, next),
         st \notin {"method_start", "method", "uri", "expecting_newline_1"},
         VersionRead(s, st, a, Len(s), major, minor)
  PROVE  VersionRead(Append(s, c), next, a, Len(s) + 1, Major(major, st, next, c), Minor(minor, st, next, c))
<1> DEFINE t == Append(s, c)
           n == Len(s)
           m == n + 1
           maj == Major(major, st, next, c)
           min == Minor(minor, st, next, c)
           a5 == a + 5
<1>0. /\ t \in Seq(Char) /\ n \in Nat /\ Len(t) = m /\ t[m] = c /\ Agree(s, t, n)
      /\ m \in Int /\ m = n + 1 /\ m - 1 = n /\ a5 \in Int /\ a5 = a + 5
  BY AppendAgrees
<1>1. is_digit(c) => c \in Digits
  BY DEF is_digit, Digits
<1> SUFFICES VersionRead(t, next, a, m, maj, min)
  OBVIOUS
<1>2. CASE st \in {"http_version_h", "http_version_t_1", "http_version_t_2", "http_version_p"}
  <2>1. next \in {"http_version_t_1", "http_version_t_2", "http_version_p", "http_version_slash"}
    BY <1>2 DEF InRequestLine
  <2> HIDE DEF t, m, maj, min
  <2> QED
    BY <2>1 DEF VersionRead
<1>3. CASE st = "http_version_slash"
  <2>1. next = "http_version_major_start" /\ n = a + 3
    BY <1>3 DEF VersionSoFar, InRequestLine
  <2>2. maj = 0 /\ min = 0
    BY <1>3, <2>1 DEF Major, Minor, Version
  <2>3. m = a5 - 1
    BY <1>0, <2>1
  <2> HIDE DEF t, m, maj, min, a5
  <2>4. SaysNumber(t, a5, m, 0)
    BY <1>0, <2>3, NumberBegins
  <2> QED
    BY <2>1, <2>2, <2>4 DEF VersionRead, a5
<1>4. CASE st \in {"http_version_major_start", "http_version_major"} /\ next = "http_version_major"
  <2>1. is_digit(c) /\ SaysNumber(s, a5, n, major) /\ minor = 0
    BY <1>4 DEF InRequestLine, VersionRead
  <2>2. maj = Shifted(major, c) /\ min = minor
    BY <1>4 DEF Major, Minor, Version
  <2>3. a5 <= n + 1 /\ All(s, a5, n, Digits) /\ 1 <= a5
    <3>1. CASE st = "http_version_major_start"
      <4>1. n = a + 4
        BY <3>1 DEF VersionSoFar
      <4> QED
        BY <1>0, <4>1 DEF All
    <3>2. CASE st = "http_version_major"
      <4>1. n >= a + 5 /\ All(s, a + 5, n, Digits)
        BY <3>2 DEF VersionSoFar
      <4> QED
        BY <1>0, <4>1
    <3> QED
      BY <1>4, <3>1, <3>2
  <2> HIDE DEF a5
  <2>4. SaysNumber(t, a5, m, Shifted(major, c))
    BY <1>0, <1>1, <2>1, <2>3, NumberGrows
  <2> HIDE DEF t, m, maj, min
  <2> QED
    BY <1>4, <2>1, <2>2, <2>4 DEF VersionRead, a5
<1>5. CASE st = "http_version_major" /\ next = "http_version_minor_start"
  <2>1. SaysNumber(s, a5, n, major) /\ minor = 0 /\ n >= a5
    BY <1>5 DEF VersionRead, VersionSoFar
  <2>2. maj = major /\ min = minor
    BY <1>5 DEF Major, Minor, Version
  <2>3. 1 <= a5 /\ a5 <= n + 1 /\ n <= Len(s)
    BY <1>0, <2>1
  <2> HIDE DEF a5
  <2>4. SaysNumber(t, a5, n, major)
    BY <1>0, <2>1, <2>3, NumberStays
  <2> HIDE DEF t, m, maj, min
  <2> QED
    BY <1>0, <1>5, <2>1, <2>2, <2>4 DEF VersionRead, a5
<1>6. CASE st = "http_version_minor_start"
  <2>1. /\ is_digit(c) /\ next = "http_version_minor"
        /\ SaysNumber(s, a5, n - 1, major) /\ minor = 0
        /\ n >= a + 6 /\ Http(s, a) /\ All(s, a5, n - 1, Digits) /\ s[n] = 46
    BY <1>6 DEF InRequestLine, VersionRead, VersionSoFar
  <2>2. maj = major /\ min = Shifted(0, c)
    BY <1>6, <2>1 DEF Major, Minor, Version
  <2>3. 1 <= a5 /\ a5 <= (n - 1) + 1 /\ n - 1 <= Len(s) /\ n - 1 \in Int /\ 1 <= m /\ m <= Len(s) + 1
    BY <1>0, <2>1
  <2>4. SaysNumber(t, a5, n - 1, major)
    <3> DEFINE z == n - 1
    <3> HIDE DEF a5, z
    <3> QED
      BY <1>0, <2>1, <2>3, NumberStays DEF z
  <2>5. SaysNumber(t, m, m, Shifted(0, c))
    <3>1. SaysNumber(s, m, n, 0)
      <4> HIDE DEF m
      <4> QED
        BY <1>0, NumberBegins
    <3>2. All(s, m, n, Digits)
      BY <1>0 DEF All
    <3> HIDE DEF m
    <3>3. SaysNumber(t, m, n + 1, Shifted(0, c))
      BY <1>0, <1>1, <2>1, <2>3, <3>1, <3>2, NumberGrows
    <3> QED
      BY <1>0, <3>3
  <2>6. VersionAt(t, a, n, m)
    <3>1. Http(t, a) /\ t[n] = 46
      <4>1. n \in Int /\ n \in 1..n /\ a + 4 <= n
        BY <1>0, <2>1
      <4>2. t[n] = 46
        BY <1>0, <2>1, <4>1 DEF Agree
      <4> HIDE DEF t
      <4>3. Http(t, a)
        BY <1>0, <2>1, <4>1, HttpAgrees
      <4> QED
        BY <4>2, <4>3
    <3>2. All(t, a5, n - 1, Digits)
      BY <1>0, <2>1 DEF Agree, All
    <3>3. All(t, m, m, Digits)
      BY <1>0, <1>1, <2>1 DEF All
    <3> HIDE DEF t
    <3> QED
      BY <3>1, <3>2, <3>3 DEF VersionAt
  <2> HIDE DEF t, maj, min
  <2>7. SaysVersion(t, a, n, m, major, Shifted(0, c))
    BY <1>0, <2>1, <2>4, <2>5, <2>6 DEF SaysVersion
  <2>8. \E d \in Int : SaysVersion(t, a, d, m, maj, min)
    <3>1. n \in Int
      BY <1>0
    <3> HIDE DEF n, m
    <3> QED
      BY <2>2, <2>7, <3>1, Zenon
  <2> HIDE DEF m
  <2> QED
    BY <2>1, <2>8 DEF VersionRead
<1>7. CASE st = "http_version_minor"
  <2>1. PICK d \in Int : SaysVersion(s, a, d, n, major, minor)
    BY <1>7 DEF VersionRead
  <2>2. \/ is_digit(c) /\ next = "http_version_minor"
        \/ next = "expecting_newline_1"
    BY <1>7 DEF InRequestLine
  <2>3. SaysVersion(t, a, d, n, major, minor)
    BY <1>0, <2>1, VersionStays
  <2>4. CASE next = "expecting_newline_1"
    <3>1. maj = major /\ min = minor
      BY <1>7, <2>4 DEF Major, Minor, Version
    <3> HIDE DEF t, maj, min, m
    <3>2. \E x \in Int : SaysVersion(t, a, x, m - 1, maj, min)
      BY <1>0, <2>3, <3>1, Zenon
    <3> QED
      BY <2>4, <3>2 DEF VersionRead
  <2>5. CASE is_digit(c) /\ next = "http_version_minor"
    <3>1. maj = major /\ min = Shifted(minor, c)
      BY <1>7, <2>5 DEF Major, Minor, Version
    <3> DEFINE e == d + 1
    <3>2. /\ a + 6 <= d /\ d < n /\ VersionAt(t, a, d, n) /\ SaysNumber(t, a5, d - 1, major)
          /\ SaysNumber(s, e, n, minor) /\ All(s, e, n, Digits)
      BY <2>1, <2>3 DEF SaysVersion, VersionAt
    <3>3. e \in Int /\ 1 <= e /\ e <= Len(s) + 1
      BY <1>0, <3>2
    <3>4. SaysNumber(t, e, m, Shifted(minor, c))
      <4> HIDE DEF e
      <4> QED
        BY <1>0, <1>1, <2>5, <3>2, <3>3, NumberGrows
    <3>5. VersionAt(t, a, d, m)
      <4>1. All(t, e, m, Digits)
        BY <1>0, <1>1, <2>5, <3>2, <3>3 DEF Agree, All
      <4> HIDE DEF t, m
      <4> QED
        BY <3>2, <4>1 DEF VersionAt
    <3> HIDE DEF t, maj, min
    <3>6. SaysVersion(t, a, d, m, major, Shifted(minor, c))
      BY <1>0, <3>2, <3>4, <3>5 DEF SaysVersion
    <3>7. \E x \in Int : SaysVersion(t, a, x, m, maj, min)
      BY <3>1, <3>6, Zenon
    <3> HIDE DEF m
    <3> QED
      BY <2>5, <3>7 DEF VersionRead
  <2> QED
    BY <2>2, <2>4, <2>5
<1>8. \/ st \in {"http_version_h", "http_version_t_1", "http_version_t_2", "http_version_p"}
      \/ st = "http_version_slash"
      \/ st \in {"http_version_major_start", "http_version_major"} /\ next = "http_version_major"
      \/ st = "http_version_major" /\ next = "http_version_minor_start"
      \/ st = "http_version_minor_start"
      \/ st = "http_version_minor"
  BY DEF InRequestLine
<1> HIDE DEF t, m, maj, min
<1> QED
  BY <1>2, <1>3, <1>4, <1>5, <1>6, <1>7, <1>8

-----------------------------------------------------------------------------
(* What the request says when a text has been read *)

VersionPlaced(s, st, n, i, j, major, minor) ==
  /\ i < j /\ UriAt(s, 1, i, j) /\ s[j] = 32
  /\ VersionSoFar(s, st, j + 1, n) /\ VersionRead(s, st, j + 1, n, major, minor)

\* Of the request line, as far as it is there.
RequestLineRead(s, st, n, major, minor) ==
  st \in RequestLineStates \ {"method_start", "method", "uri"} =>
    \E i, j \in 2..n : VersionPlaced(s, st, n, i, j, major, minor)

\* Of the request line that ends at e.
FirstLineSays(s, e, i, j, d, major, minor) ==
  i < j /\ UriAt(s, 1, i, j) /\ s[j] = 32 /\ SaysVersion(s, j + 1, d, e - 1, major, minor)

FirstLineRead(s, major, minor) ==
  \E e \in Ends(s) : EndsFirst(s, e) /\ \E i, j, d \in 2..e : FirstLineSays(s, e, i, j, d, major, minor)

\* Of the header lines, the last from b on as far as it is there.
HeadersReadFrom(s, st, b, headers) ==
  /\ Begins(s, b) /\ Fields(s)[b - 2] \in Seq(HeaderType)
  /\ LineRead(st, Fields(s)[b - 2], SubSeq(s, b, Len(s)), headers)

HeadersRead(s, st, headers) == \E b \in 3..Len(s) + 1 : HeadersReadFrom(s, st, b, headers)

LEMMA OneBeginning ==
  ASSUME NEW s \in Seq(Char), NEW b \in Int, NEW a \in Int, b >= 3, a >= 3, Begins(s, b), Begins(s, a)
  PROVE  a = b
<1>1. /\ b - 2 \in Ends(s) /\ \A e \in Ends(s) : e <= b - 2
      /\ a - 2 \in Ends(s) /\ \A e \in Ends(s) : e <= a - 2
  BY DEF Begins
<1> QED
  BY <1>1

\* The request line stays as it is.
LEMMA FirstLineStays ==
  ASSUME NEW s \in Seq(Char), NEW c \in Char, NEW major, NEW minor, FirstLineRead(s, major, minor)
  PROVE  FirstLineRead(Append(s, c), major, minor)
<1> DEFINE t == Append(s, c)
           n == Len(s)
<1>0. /\ t \in Seq(Char) /\ n \in Nat /\ Len(t) = n + 1 /\ Agree(s, t, n) /\ n <= Len(t)
  BY AppendAgrees
<1>1. PICK e \in Ends(s) : EndsFirst(s, e) /\ \E i, j, d \in 2..e : FirstLineSays(s, e, i, j, d, major, minor)
  BY DEF FirstLineRead
<1>2. PICK i \in 2..e, j \in 2..e, d \in 2..e : FirstLineSays(s, e, i, j, d, major, minor)
  BY <1>1, Zenon
<1>3. e \in 1..n - 1
  BY <1>0 DEF Ends
<1>4. i < j /\ UriAt(s, 1, i, j) /\ s[j] = 32 /\ SaysVersion(s, j + 1, d, e - 1, major, minor)
  BY <1>2 DEF FirstLineSays
<1>5. /\ i \in Int /\ j \in Int /\ d \in Int /\ 1 < i /\ j <= n + 1 /\ j \in 1..n /\ 1 \in Int /\ n \in Int
      /\ j + 1 \in Int /\ 1 <= j + 1 /\ e - 1 \in Int /\ e - 1 <= n
  BY <1>0, <1>3
<1>6. SaysVersion(t, j + 1, d, e - 1, major, minor)
  <2> DEFINE a == j + 1
             z == e - 1
  <2>1. a \in Int /\ 1 <= a /\ z \in Int /\ z <= Len(s) /\ SaysVersion(s, a, d, z, major, minor)
    BY <1>4, <1>5
  <2> HIDE DEF a, z
  <2>2. SaysVersion(t, a, d, z, major, minor)
    BY <1>5, <2>1, VersionStays
  <2> QED
    BY <2>2 DEF a, z
<1>7. e \in Ends(t) /\ EndsFirst(t, e)
  <2>1. e \in Ends(t)
    BY <1>0, EndsAgree
  <2>2. EndsFirst(s, e) <=> EndsFirst(t, e)
    BY <1>0, HeaderLinesAgree
  <2> QED
    BY <1>1, <2>1, <2>2
<1> HIDE DEF t
<1>8. UriAt(t, 1, i, j) /\ t[j] = 32
  <2>1. t[j] = s[j]
    BY <1>0, <1>5 DEF Agree
  <2>2. UriAt(s, 1, i, j) <=> UriAt(t, 1, i, j)
    BY <1>0, <1>4, <1>5, UriAgrees
  <2> QED
    BY <1>4, <2>1, <2>2
<1>9. FirstLineSays(t, e, i, j, d, major, minor)
  BY <1>4, <1>6, <1>8 DEF FirstLineSays
<1>10. FirstLineRead(t, major, minor)
  BY <1>7, <1>9, Zenon DEF FirstLineRead
<1> QED
  BY <1>10 DEF t

\* A character more of the request line.
LEMMA RequestLineReadNext ==
  ASSUME NEW s \in Seq(Char), NEW c \in Char, NEW st, NEW folded, NEW next, NEW major, NEW minor,
         Reads(s, st, folded), InRequestLine(st, c, next), next # "header_line_start",
         RequestLineRead(s, st, Len(s), major, minor)
  PROVE  RequestLineRead(Append(s, c), next, Len(s) + 1, Major(major, st, next, c), Minor(minor, st, next, c))
<1> DEFINE t == Append(s, c)
           n == Len(s)
           m == n + 1
           maj == Major(major, st, next, c)
           min == Minor(minor, st, next, c)
<1>0. /\ t \in Seq(Char) /\ n \in Nat /\ Len(t) = m /\ t[m] = c /\ Agree(s, t, n) /\ m = n + 1 /\ m \in Int
      /\ \A j \in 2..n : j \in 2..m
  BY AppendAgrees
<1>1. Reads(t, next, folded)
  BY RequestLineNext
<1> SUFFICES ASSUME next \notin {"method_start", "method", "uri"}
             PROVE  \E i, j \in 2..m : VersionPlaced(t, next, m, i, j, maj, min)
  BY DEF RequestLineRead
<1>2. CASE st = "uri"
  <2>1. next = "http_version_h"
    BY <1>2 DEF InRequestLine
  <2>2. RequestLineSoFar(t, next, m)
    <3>1. next \notin HeaderStates
      BY <2>1 DEF HeaderStates
    <3> HIDE DEF t
    <3> QED
      BY <1>0, <1>1, <3>1 DEF Reads
  <2> HIDE DEF t, m, maj, min
  <2>3. PICK i \in 2..m, j \in 2..m : i < j /\ UriAt(t, 1, i, j) /\ t[j] = 32 /\ VersionSoFar(t, next, j + 1, m)
    BY <2>1, <2>2 DEF RequestLineSoFar
  <2>4. VersionRead(t, next, j + 1, m, maj, min)
    BY <2>1 DEF VersionRead
  <2>5. VersionPlaced(t, next, m, i, j, maj, min)
    BY <2>3, <2>4 DEF VersionPlaced
  <2> QED
    BY <2>5, Zenon
<1>3. CASE st # "uri"
  <2>1. st \in RequestLineStates \ {"method_start", "method", "uri"} /\ st # "expecting_newline_1"
    BY <1>3 DEF InRequestLine, RequestLineStates
  <2>2. PICK i \in 2..n, j \in 2..n : VersionPlaced(s, st, n, i, j, major, minor)
    BY <2>1 DEF RequestLineRead
  <2>3. i < j /\ UriAt(s, 1, i, j) /\ s[j] = 32 /\ VersionSoFar(s, st, j + 1, n) /\ VersionRead(s, st, j + 1, n, major, minor)
    BY <2>2 DEF VersionPlaced
  <2>4. j + 1 \in Int /\ j + 1 >= 1 /\ i \in 2..m /\ j \in 2..m /\ i \in Int /\ j \in Int /\ 1 < i /\ j <= n + 1 /\ n \in Int
        /\ 1 \in Int /\ 1 >= 1 /\ j \in 1..n
    BY <1>0
  <2> DEFINE a == j + 1
  <2>5. a \in Int /\ a >= 1 /\ VersionSoFar(s, st, a, n) /\ VersionRead(s, st, a, n, major, minor)
    BY <2>3, <2>4
  <2> HIDE DEF a
  <2>6. VersionRead(t, next, a, m, maj, min)
    BY <2>1, <2>5, VersionReadNext
  <2> HIDE DEF t, maj, min
  <2>7. VersionSoFar(t, next, a, m)
    BY <1>0, <2>1, <2>5, VersionNext
  <2>8. UriAt(t, 1, i, j) /\ t[j] = 32
    <3>1. t[j] = s[j]
      BY <1>0, <2>4 DEF Agree
    <3>2. UriAt(s, 1, i, j) <=> UriAt(t, 1, i, j)
      BY <1>0, <2>3, <2>4, UriAgrees
    <3> QED
      BY <2>3, <3>1, <3>2
  <2> HIDE DEF m
  <2>9. VersionPlaced(t, next, m, i, j, maj, min)
    BY <2>3, <2>6, <2>7, <2>8 DEF VersionPlaced, a
  <2> QED
    BY <2>4, <2>9, Zenon
<1> QED
  BY <1>2, <1>3

\* The end of the request line.
LEMMA FirstLineEnds ==
  ASSUME NEW s \in Seq(Char), NEW st, NEW folded, NEW major, NEW minor,
         Reads(s, st, folded), st = "expecting_newline_1", RequestLineRead(s, st, Len(s), major, minor)
  PROVE  /\ FirstLineRead(Append(s, 10), major, minor)
         /\ HeadersRead(Append(s, 10), "header_line_start", <<>>)
<1> DEFINE t == Append(s, 10)
           n == Len(s)
<1>0. /\ 10 \in Char /\ t \in Seq(Char) /\ n \in Nat /\ Len(t) = n + 1 /\ t[n + 1] = 10 /\ Agree(s, t, n)
  BY AppendAgrees DEF Char
<1>1. LinesFit(s, n) /\ Begins(s, 1) /\ RequestLineSoFar(s, st, n)
  BY DEF Reads, HeaderStates
<1>2. PICK i \in 2..n, j \in 2..n : VersionPlaced(s, st, n, i, j, major, minor)
  BY DEF RequestLineRead, RequestLineStates
<1>3. /\ i < j /\ UriAt(s, 1, i, j) /\ s[j] = 32 /\ VersionSoFar(s, st, j + 1, n)
      /\ VersionRead(s, st, j + 1, n, major, minor)
  BY <1>2 DEF VersionPlaced
<1>4. s[n] = 13 /\ IsVersion(s, j + 1, n - 1)
  BY <1>3 DEF VersionSoFar
<1>5. j \in 2..n - 1 /\ i \in 2..n - 1 /\ 1 + 1 = 2 /\ n # 0 /\ n \in Int /\ i \in Int /\ j \in Int
  BY <1>0, <1>3, <1>4
<1>6. IsRequestLine(s, 1, n - 1)
  BY <1>3, <1>4, <1>5 DEF IsRequestLine, BlanksAt
<1>7. Begins(t, n + 2) /\ EndsFirst(t, n) /\ n \in Ends(t)
  BY <1>0, <1>1, <1>4, <1>5, <1>6, LineEnds
<1>8. PICK d \in Int : SaysVersion(s, j + 1, d, n - 1, major, minor)
  BY <1>3 DEF VersionRead
<1>9. SaysVersion(t, j + 1, d, n - 1, major, minor) /\ d \in 2..n
  <2> DEFINE a == j + 1
             z == n - 1
  <2>1. a \in Int /\ 1 <= a /\ z \in Int /\ z <= Len(s) /\ SaysVersion(s, a, d, z, major, minor)
    BY <1>0, <1>5, <1>8
  <2>2. d \in 2..n
    BY <1>5, <2>1 DEF SaysVersion
  <2> HIDE DEF a, z
  <2>3. SaysVersion(t, a, d, z, major, minor)
    BY <1>0, <2>1, VersionStays
  <2> QED
    BY <2>2, <2>3 DEF a, z
<1>10. Fields(t)[n] = <<>>
  <2>1. Fields(t)[0] = <<>> /\ Fields(t)[n] = WithPlace(t, Fields(t)[n - 1], n)
    <3>1. n \in 1..Len(t)
      BY <1>0, <1>5
    <3> HIDE DEF t
    <3> QED
      BY <1>0, <3>1, FieldsDefined
  <2>2. Fields(t)[n - 1] = Fields(t)[0]
    <3> DEFINE z == n - 1
    <3>1. z \in 0..Len(t) /\ 0 \in 0..Len(t) /\ 0 <= z /\ \A e \in 0 + 1..z : e < n
      BY <1>0, <1>5
    <3>2. \A e \in 0 + 1..z : e \notin Ends(t)
      BY <1>0, <1>7, <3>1 DEF EndsFirst
    <3> HIDE DEF t, z
    <3>3. Fields(t)[z] = Fields(t)[0]
      BY <1>0, <3>1, <3>2, FieldsBetween
    <3> QED
      BY <3>3 DEF z
  <2> HIDE DEF t
  <2> QED
    BY <1>7, <2>1, <2>2, Zenon DEF WithPlace
<1> HIDE DEF t
<1>11. UriAt(t, 1, i, j) /\ t[j] = 32
  <2>1. t[j] = s[j]
    BY <1>0, <1>5 DEF Agree
  <2>2. UriAt(s, 1, i, j) <=> UriAt(t, 1, i, j)
    <3>1. 1 < i /\ j <= n + 1 /\ 1 \in Int /\ 1 >= 1
      BY <1>5
    <3> QED
      BY <1>0, <1>3, <1>5, <3>1, UriAgrees
  <2> QED
    BY <1>3, <2>1, <2>2
<1>12. FirstLineSays(t, n, i, j, d, major, minor)
  BY <1>3, <1>9, <1>11 DEF FirstLineSays
<1>13. FirstLineRead(t, major, minor)
  BY <1>7, <1>9, <1>12, Zenon DEF FirstLineRead
<1>14. HeadersRead(t, "header_line_start", <<>>)
  <2> DEFINE b == n + 2
  <2>1. b \in 3..Len(t) + 1 /\ b - 2 = n
    BY <1>0, <1>5
  <2>2. Fields(t)[b - 2] = <<>> /\ <<>> \in Seq(HeaderType)
    BY <1>10, <2>1, EmptySeq
  <2>3. SubSeq(t, b, Len(t)) = <<>>
    <3>1. \A k \in b..Len(t) : t[k] \in Char
      BY <1>0
    <3>2. SubSeq(t, b, Len(t)) \in Seq(Char) /\ Len(SubSeq(t, b, Len(t))) = 0
      BY <1>0, <3>1, SubSeqProperties
    <3> QED
      BY <3>2, EmptySeq
  <2>4. Begins(t, b)
    BY <1>7
  <2> HIDE DEF b
  <2>5. LineRead("header_line_start", Fields(t)[b - 2], SubSeq(t, b, Len(t)), <<>>)
    BY <2>2, <2>3 DEF LineRead
  <2>6. HeadersReadFrom(t, "header_line_start", b, <<>>)
    BY <2>2, <2>4, <2>5, Zenon DEF HeadersReadFrom
  <2> QED
    BY <2>1, <2>6, Zenon DEF HeadersRead
<1> QED
  BY <1>13, <1>14 DEF t

\* A character more of a header line.
LEMMA HeadersReadNext ==
  ASSUME NEW s \in Seq(Char), NEW c \in Char, NEW st, NEW headers \in Seq(HeaderType), NEW next,
         Reads(s, st, headers # <<>>), InHeaders(st, c, headers # <<>>, next),
         next \notin {"header_line_start", "good"}, HeadersRead(s, st, headers)
  PROVE  HeadersRead(Append(s, c), next, Headers(headers, st, next, c))
<1> DEFINE t == Append(s, c)
           n == Len(s)
           m == n + 1
           h == Headers(headers, st, next, c)
<1>0. /\ t \in Seq(Char) /\ n \in Nat /\ Len(t) = m /\ m = n + 1
  BY AppendAgrees
<1>1. PICK b \in 3..n + 1 : HeadersReadFrom(s, st, b, headers)
  BY DEF HeadersRead
<1>2. /\ Begins(s, b) /\ Fields(s)[b - 2] \in Seq(HeaderType)
      /\ LineRead(st, Fields(s)[b - 2], SubSeq(s, b, n), headers)
  BY <1>1, Zenon DEF HeadersReadFrom
<1>3. b - 2 \in Ends(s) /\ b - 2 \in 0..n - 1 /\ b \in 3..Len(t) + 1 /\ b \in Int /\ 1 <= b /\ b <= n + 1
  BY <1>0, <1>2 DEF Begins, Ends
<1>4. Begins(t, b)
  <2>1. LinesFit(s, n) /\ c # 10
    BY DEF Reads, InHeaders, IsToken, is_ctl, SP, CR, TAB, LF
  <2>2. Ends(t) = Ends(s)
    BY <2>1, SameLine
  <2> HIDE DEF t
  <2> QED
    BY <1>2, <2>2 DEF Begins
<1>5. Fields(t)[b - 2] = Fields(s)[b - 2]
  BY <1>3, FieldsAgree
<1>6. SubSeq(t, b, m) = Append(SubSeq(s, b, n), c)
  BY <1>3, PartGrows
<1> DEFINE line == SubSeq(s, b, n)
           fields == Fields(s)[b - 2]
<1>7. line \in Seq(Char)
  BY <1>0, <1>3, PartOf
<1> HIDE DEF line, fields
<1>8. LineRead(next, fields, Append(line, c), h)
  BY <1>2, <1>7, LineReadNext DEF line, fields
<1> HIDE DEF t, h, m
<1>9. HeadersReadFrom(t, next, b, h)
  BY <1>0, <1>2, <1>4, <1>5, <1>6, <1>8, Zenon DEF HeadersReadFrom, line, fields
<1>10. HeadersRead(t, next, h)
  BY <1>3, <1>9, Zenon DEF HeadersRead
<1> QED
  BY <1>10 DEF t, h

\* The end of a header line.
LEMMA HeaderLineEnds ==
  ASSUME NEW s \in Seq(Char), NEW headers \in Seq(HeaderType), NEW folded, NEW st, st = "expecting_newline_2",
         Reads(s, st, folded), HeadersRead(s, st, headers)
  PROVE  HeadersRead(Append(s, 10), "header_line_start", headers)
<1> DEFINE t == Append(s, 10)
           n == Len(s)
           m == n + 1
<1>0. /\ 10 \in Char /\ t \in Seq(Char) /\ n \in Nat /\ Len(t) = m /\ m = n + 1 /\ Agree(s, t, n)
  BY AppendAgrees DEF Char
<1>1. PICK b \in 3..n + 1 : HeadersReadFrom(s, st, b, headers)
  BY DEF HeadersRead
<1>2. /\ Begins(s, b) /\ Fields(s)[b - 2] \in Seq(HeaderType)
      /\ LineRead(st, Fields(s)[b - 2], SubSeq(s, b, n), headers)
  BY <1>1, Zenon DEF HeadersReadFrom
<1>3. PICK x \in 3..n + 1 : Begins(s, x) /\ HeaderLineSoFar(s, st, folded, x, n)
  BY DEF Reads, RequestLineStates
<1>4. x = b
  <2>1. x \in Int /\ b \in Int /\ x >= 3 /\ b >= 3
    OBVIOUS
  <2> QED
    BY <1>2, <1>3, <2>1, OneBeginning
<1>5. s[n] = 13 /\ IsHeaderLine(s, b - 2, n) /\ LinesFit(s, n)
  BY <1>3, <1>4 DEF HeaderLineSoFar, Reads, RequestLineStates
<1>6. b - 2 \in Ends(s) /\ b - 2 \in 1..n - 1 /\ b # 1 /\ n # 0 /\ \A e \in Ends(s) : e <= b - 2
  BY <1>0, <1>2 DEF Begins, Ends
<1>7. Begins(t, n + 2) /\ ~EndsFirst(t, n) /\ n \in Ends(t)
  BY <1>0, <1>2, <1>5, <1>6, LineEnds
<1>8. \A e \in Ends(t) : e <= b - 2 \/ e >= n
  <2>1. \A e \in Ends(t) : e < n => e \in Ends(s)
    <3>1. n <= Len(t)
      BY <1>0
    <3> QED
      BY <1>0, <3>1, EndsAgree
  <2>2. \A e \in Ends(t) : e \in Int
    BY DEF Ends
  <2> QED
    BY <1>0, <1>6, <2>1, <2>2
<1>9. b - 2 \in Ends(t)
  <2>1. Ends(s) \subseteq Ends(t)
    <3>1. n <= Len(t)
      BY <1>0
    <3> QED
      BY <1>0, <3>1, EndsAgree
  <2> QED
    BY <1>6, <2>1
<1> DEFINE a == b - 2
           z == n - 1
<1>10. a \in Ends(t) /\ EndsNext(t, a, n) /\ a + 2 = b /\ a \in 0..Len(t) /\ z \in 0..Len(t) /\ a <= z
       /\ n \in 1..Len(t) /\ a \in 0..n - 1
  BY <1>0, <1>6, <1>8, <1>9 DEF EndsNext
<1>11. \A e \in a + 1..z : e \notin Ends(t)
  BY <1>0, <1>8, <1>10
<1>12. Fields(t)[a] = Fields(s)[a]
  BY <1>0, <1>10, FieldsAgree
<1>13. LineBefore(t, n) = SubSeq(t, b, z)
  <2> HIDE DEF t, a, z
  <2>1. n \in Int
    BY <1>0
  <2>2. LineBefore(t, n) = SubSeq(t, a + 2, n - 1)
    BY <1>0, <1>10, <2>1, LineBeforeIs
  <2> QED
    BY <1>10, <2>2 DEF z
<1>14. Fields(t)[z] = Fields(t)[a]
  <2> HIDE DEF t, a, z
  <2> QED
    BY <1>0, <1>10, <1>11, FieldsBetween
<1>15. Fields(t)[n] = WithPlace(t, Fields(t)[z], n)
  <2>1. Fields(t)[n] = WithPlace(t, Fields(t)[n - 1], n)
    <3> HIDE DEF t
    <3> QED
      BY <1>0, <1>10, FieldsDefined
  <2> QED
    BY <2>1
<1>16. PICK l \in Seq(Char) : SubSeq(s, b, n) = Append(l, 13) /\ headers = WithLine(Fields(s)[a], l)
  BY <1>2, Zenon DEF LineRead
<1>17. l = SubSeq(t, b, z)
  <2> DEFINE u == SubSeq(s, b, n)
             v == SubSeq(t, b, z)
             k1 == n - b + 1
             k2 == z - b + 1
  <2>n. b <= n
    <3>1. s[b - 1] = 10
      <4>1. (b - 2) + 1 = b - 1
        OBVIOUS
      <4> QED
        BY <1>6, <4>1 DEF Ends
    <3>2. b - 1 # n
      BY <1>5, <3>1
    <3> QED
      BY <1>0, <3>2
  <2>i. b \in Int /\ n \in Int /\ z \in Int /\ z = n - 1 /\ 3 <= b /\ b <= n /\ k1 = n - b + 1 /\ k2 = z - b + 1
    BY <1>0, <2>n
  <2>j. k1 = k2 + 1 /\ k2 \in Nat
    <3>1. k2 = n - b
      BY <2>i
    <3> HIDE DEF k2
    <3> QED
      BY <2>i, <3>1
  <2>0. 1 <= b /\ b <= z + 1 /\ z <= Len(t) /\ b <= n + 1 /\ n <= Len(s)
    BY <1>0, <2>i
  <2>1. u \in Seq(Char) /\ Len(u) = k1 /\ \A k \in 1..k1 : u[k] = s[b + k - 1]
    BY <2>0, <2>i, PartOf
  <2> HIDE DEF u
  <2>2. u = Append(l, 13) /\ 13 \in Char
    BY <1>16 DEF u, Char
  <2>3. Len(u) = Len(l) + 1 /\ \A k \in 1..Len(l) : u[k] = l[k]
    BY <2>2, AppendProperties
  <2>4. v \in Seq(Char) /\ Len(v) = k2 /\ \A k \in 1..k2 : v[k] = t[b + k - 1]
    <3> HIDE DEF t, z
    <3> QED
      BY <1>0, <2>0, <2>i, PartOf
  <2> HIDE DEF v, k1, k2
  <2>5. Len(l) = Len(v) /\ Len(l) = k2 /\ Len(l) \in Nat
    <3>1. Len(l) \in Nat
      BY LenProperties
    <3> QED
      BY <2>j, <2>1, <2>3, <2>4, <3>1
  <2>6. \A k \in 1..Len(l) : l[k] = v[k]
    <3> TAKE k \in 1..Len(l)
    <3>1. k \in 1..k1 /\ k \in 1..k2 /\ b + k - 1 \in 1..n
      BY <2>i, <2>j, <2>0, <2>5
    <3>2. t[b + k - 1] = s[b + k - 1]
      BY <1>0, <3>1 DEF Agree
    <3> QED
      BY <2>1, <2>3, <2>4, <3>1, <3>2
  <2> QED
    BY <2>4, <2>5, <2>6, SeqEqual DEF v
<1>18. Fields(t)[n] = headers
  <2> HIDE DEF t, a, z
  <2>1. Fields(t)[n] = WithLine(Fields(t)[z], LineBefore(t, n))
    BY <1>7, <1>15, Zenon DEF WithPlace
  <2> QED
    BY <1>12, <1>13, <1>14, <1>16, <1>17, <2>1, Zenon
<1> DEFINE y == n + 2
<1>19. y \in 3..Len(t) + 1 /\ y - 2 = n /\ Begins(t, y)
  BY <1>0, <1>6, <1>7
<1>20. SubSeq(t, y, Len(t)) = <<>>
  <2>1. \A k \in y..Len(t) : t[k] \in Char
    BY <1>0
  <2>2. SubSeq(t, y, Len(t)) \in Seq(Char) /\ Len(SubSeq(t, y, Len(t))) = 0
    BY <1>0, <2>1, SubSeqProperties
  <2> QED
    BY <2>2, EmptySeq
<1> HIDE DEF t, y
<1>21. LineRead("header_line_start", Fields(t)[y - 2], SubSeq(t, y, Len(t)), headers)
  BY <1>18, <1>19, <1>20 DEF LineRead
<1>22. HeadersReadFrom(t, "header_line_start", y, headers)
  BY <1>18, <1>19, <1>21, Zenon DEF HeadersReadFrom
<1>23. HeadersRead(t, "header_line_start", headers)
  BY <1>19, <1>22, Zenon DEF HeadersRead
<1> QED
  BY <1>23 DEF t

\* The end of the last line.
LEMMA LastLineEnds ==
  ASSUME NEW s \in Seq(Char), NEW headers \in Seq(HeaderType), NEW folded, NEW st, st = "expecting_newline_3",
         Reads(s, st, folded), HeadersRead(s, st, headers)
  PROVE  Fields(Append(s, 10))[Len(Append(s, 10)) - 3] = headers
<1> DEFINE t == Append(s, 10)
           n == Len(s)
<1>0. /\ 10 \in Char /\ t \in Seq(Char) /\ n \in Nat /\ Len(t) = n + 1
  BY AppendAgrees DEF Char
<1>1. PICK b \in 3..n + 1 : HeadersReadFrom(s, st, b, headers)
  BY DEF HeadersRead
<1>2. Begins(s, b) /\ LineRead(st, Fields(s)[b - 2], SubSeq(s, b, n), headers)
  BY <1>1, Zenon DEF HeadersReadFrom
<1>3. PICK x \in 3..n + 1 : Begins(s, x) /\ HeaderLineSoFar(s, st, folded, x, n)
  BY DEF Reads, RequestLineStates
<1>4. x = b
  <2>1. x \in Int /\ b \in Int /\ x >= 3 /\ b >= 3
    OBVIOUS
  <2> QED
    BY <1>2, <1>3, <2>1, OneBeginning
<1>5. n = b
  BY <1>3, <1>4 DEF HeaderLineSoFar
<1>6. headers = Fields(s)[b - 2]
  BY <1>2 DEF LineRead
<1>7. Len(t) - 3 = b - 2 /\ b - 2 \in 0..n - 1
  BY <1>0, <1>5
<1>8. Fields(t)[b - 2] = Fields(s)[b - 2]
  BY <1>0, <1>7, FieldsAgree
<1> QED
  BY <1>6, <1>7, <1>8, Zenon

-----------------------------------------------------------------------------
(* A move keeps the request and what has been read together *)

\* What the request says when the parser is in a state, and when it has accepted.
Says(s, st, r) ==
  /\ RequestLineRead(s, st, Len(s), r.major, r.minor)
  /\ st \in HeaderStates => FirstLineRead(s, r.major, r.minor) /\ HeadersRead(s, st, r.headers)

SaysAll(s, r) ==
  FirstLineRead(s, r.major, r.minor) /\ r.headers = Fields(s)[Len(s) - 3]

LEMMA StoredParts ==
  ASSUME NEW r, NEW st, NEW next, NEW c
  PROVE  /\ Stored(r, st, next, c).major = Major(r.major, st, next, c)
         /\ Stored(r, st, next, c).minor = Minor(r.minor, st, next, c)
         /\ Stored(r, st, next, c).headers = Headers(r.headers, st, next, c)
BY DEF Stored, Major, Minor

\* Whatever moves a character makes possible, what is stored is what it says.
LEMMA SaysNext ==
  ASSUME NEW s \in Seq(Char), NEW c \in Char, NEW st, NEW next, NEW r, r.headers \in Seq(HeaderType),
         Reads(s, st, r.headers # <<>>), Moves(st, c, r.headers, next), Says(s, st, r)
  PROVE  IF next = "good" THEN SaysAll(Append(s, c), Stored(r, st, next, c))
         ELSE Says(Append(s, c), next, Stored(r, st, next, c))
<1> DEFINE t == Append(s, c)
           h == r.headers
           folded == h # <<>>
           q == Stored(r, st, next, c)
           maj == Major(r.major, st, next, c)
           min == Minor(r.minor, st, next, c)
           hs == Headers(h, st, next, c)
<1>0. q.major = maj /\ q.minor = min /\ q.headers = hs /\ Len(t) = Len(s) + 1
  BY StoredParts, AppendAgrees
<1>1. CASE InRequestLine(st, c, next) /\ next # "header_line_start"
  <2>1. next \notin HeaderStates /\ next # "good"
    BY <1>1 DEF InRequestLine, HeaderStates
  <2>2. RequestLineRead(t, next, Len(s) + 1, maj, min)
    BY <1>1, RequestLineReadNext DEF Says
  <2> HIDE DEF t, q, maj, min, hs
  <2> QED
    BY <1>0, <2>1, <2>2 DEF Says, t, q
<1>2. CASE InRequestLine(st, c, next) /\ next = "header_line_start"
  <2>1. st = "expecting_newline_1" /\ c = 10
    BY <1>2 DEF InRequestLine, LF
  <2>2. maj = r.major /\ min = r.minor /\ hs = h
    BY <1>2, <2>1 DEF Major, Minor, Version, Headers
  <2>3. h = <<>>
    BY <2>1 DEF Reads, RequestLineStates, HeaderStates
  <2>4. RequestLineRead(s, st, Len(s), r.major, r.minor)
    BY DEF Says
  <2>5. FirstLineRead(t, r.major, r.minor) /\ HeadersRead(t, "header_line_start", <<>>)
    BY <2>1, <2>4, FirstLineEnds
  <2> HIDE DEF t, q, maj, min, hs
  <2>6. RequestLineRead(t, next, Len(t), q.major, q.minor)
    BY <1>2 DEF RequestLineRead, RequestLineStates
  <2> QED
    BY <1>0, <1>2, <2>2, <2>3, <2>5, <2>6 DEF Says, t, q
<1>3. CASE InHeaders(st, c, folded, next)
  <2>0. folded \in BOOLEAN
    OBVIOUS
  <2>1. st \in HeaderStates /\ next \in HeaderStates \cup {"good"}
    BY <1>3, <2>0, HeaderMoves
  <2>2. maj = r.major /\ min = r.minor
    BY <2>1 DEF Major, Minor, Version, HeaderStates
  <2>3. FirstLineRead(s, r.major, r.minor) /\ HeadersRead(s, st, h)
    BY <2>1 DEF Says
  <2>4. FirstLineRead(t, r.major, r.minor)
    BY <2>3, FirstLineStays
  <2>5. RequestLineRead(t, next, Len(t), q.major, q.minor)
    BY <2>1 DEF RequestLineRead, RequestLineStates, HeaderStates
  <2>6. CASE next \notin {"header_line_start", "good"}
    <3>1. HeadersRead(t, next, hs)
      BY <1>3, <2>3, <2>6, HeadersReadNext
    <3> HIDE DEF t, q, maj, min, hs
    <3> QED
      BY <1>0, <2>2, <2>4, <2>5, <2>6, <3>1 DEF Says, t, q
  <2>7. CASE next = "header_line_start"
    <3>1. st = "expecting_newline_2" /\ c = 10
      BY <1>3, <2>7 DEF InHeaders, LF
    <3>2. hs = h
      BY <2>7, <3>1 DEF Headers
    <3>3. HeadersRead(t, next, h)
      BY <2>3, <2>7, <3>1, HeaderLineEnds
    <3> HIDE DEF t, q, maj, min, hs
    <3> QED
      BY <1>0, <2>2, <2>4, <2>5, <2>7, <3>2, <3>3 DEF Says, t, q
  <2>8. CASE next = "good"
    <3>1. st = "expecting_newline_3" /\ c = 10
      BY <1>3, <2>8 DEF InHeaders, LF
    <3>2. hs = h
      BY <2>8, <3>1 DEF Headers
    <3>3. Fields(t)[Len(t) - 3] = h
      BY <2>3, <3>1, LastLineEnds
    <3> HIDE DEF t, q, maj, min, hs
    <3> QED
      BY <1>0, <2>2, <2>4, <2>8, <3>2, <3>3 DEF SaysAll, t, q
  <2> QED
    BY <2>6, <2>7, <2>8
<1> QED
  BY <1>1, <1>2, <1>3 DEF Moves

-----------------------------------------------------------------------------
(* What is put into the request is what has been read, at every step *)

Understood ==
  /\ result = "indeterminate" => Says(seen, state_, request)
  /\ result = "good" => SaysAll(seen, request)

LEMMA UnderstoodFirst == Init => Understood
BY DEF Init, Understood, Says, RequestLineRead, HeaderStates

LEMMA UnderstoodNext ==
  ASSUME IInv, Understood, consume
  PROVE  Understood'
<1> DEFINE c == Head(buffer)
<1>0. /\ c \in Char /\ seen \in Seq(Char) /\ request.headers \in Seq(HeaderType) /\ result = "indeterminate"
      /\ Reads(seen, state_, request.headers # <<>>) /\ Says(seen, state_, request)
  BY HeadTailProperties DEF IInv, TypeOK, Recognised, Understood, Request, HeaderType, consume
<1>1. PICK next \in Targets(state_, c, request.headers) :
        /\ result' = IF next \in {"good", "bad"} THEN next ELSE "indeterminate"
        /\ state_' = IF next \in {"good", "bad"} THEN state_ ELSE next
        /\ request' = Stored(request, state_, next, c)
  BY DEF consume
<1>2. seen' = Append(seen, c)
  BY DEF consume
<1>3. CASE next = "bad"
  BY <1>1, <1>3 DEF Understood
<1>4. CASE next # "bad"
  <2>1. Moves(state_, c, request.headers, next)
    BY <1>1, <1>4, Zenon DEF Targets
  <2> HIDE DEF c
  <2>2. IF next = "good" THEN SaysAll(Append(seen, c), Stored(request, state_, next, c))
        ELSE Says(Append(seen, c), next, Stored(request, state_, next, c))
    BY <1>0, <2>1, SaysNext
  <2>3. CASE next = "good"
    BY <1>1, <1>2, <2>2, <2>3 DEF Understood
  <2>4. CASE next # "good"
    BY <1>1, <1>2, <1>4, <2>2, <2>4 DEF Understood
  <2> QED
    BY <2>3, <2>4
<1> QED
  BY <1>3, <1>4

LEMMA AlwaysUnderstood == Spec => []Understood
<1>1. IInv /\ Understood /\ [Next]_vars => Understood'
  <2> SUFFICES ASSUME IInv, Understood, [Next]_vars PROVE Understood'
    OBVIOUS
  <2>1. CASE consume
    BY <2>1, UnderstoodNext
  <2>2. ASSUME NEW n \in 1..BufferSize, ReadCompletes(n)
        PROVE  Understood'
    BY <2>2 DEF ReadCompletes, Understood
  <2>3. CASE UNCHANGED vars
    BY <2>3 DEF vars, Understood
  <2> QED
    BY <2>1, <2>2, <2>3 DEF Next
<1> QED
  BY <1>1, IInvInvariant, UnderstoodFirst, PTL DEF Spec

LEMMA NotTheDot ==
  ASSUME NEW s, NEW a \in Int, NEW f \in Int, a <= f, Http(s, a), s[f] = 46
  PROVE  a + 5 <= f
<1>1. f # a
  BY DEF Http
<1>2. f # a + 1
  BY DEF Http
<1>3. f # a + 2
  BY DEF Http
<1>4. f # a + 3
  BY DEF Http
<1>5. f # a + 4
  BY DEF Http
<1> QED
  BY <1>1, <1>2, <1>3, <1>4, <1>5

\* The version that a text says is the one the grammar finds in it.
LEMMA VersionIs ==
  ASSUME NEW s \in Seq(Char), NEW major, NEW minor, FirstLineRead(s, major, minor)
  PROVE  major = Meaning(s, Words).major /\ minor = Meaning(s, Words).minor
<1>0. \A e \in Ends(s) : e \in Nat /\ e < Len(s)
  BY LenProperties DEF Ends
<1>1. PICK e \in Ends(s) : EndsFirst(s, e) /\ \E i, j, d \in 2..e : FirstLineSays(s, e, i, j, d, major, minor)
  BY DEF FirstLineRead
<1>2. PICK i \in 2..e, j \in 2..e, d \in 2..e : FirstLineSays(s, e, i, j, d, major, minor)
  BY <1>1, Zenon
<1>3. /\ i < j /\ UriAt(s, 1, i, j) /\ s[j] = 32
      /\ j + 1 + 6 <= d /\ d < e - 1 /\ VersionAt(s, j + 1, d, e - 1)
      /\ SaysNumber(s, j + 1 + 5, d - 1, major) /\ SaysNumber(s, d + 1, e - 1, minor)
  BY <1>2 DEF FirstLineSays, SaysVersion
<1>4. (CHOOSE x \in Ends(s) : EndsFirst(s, x)) = e
  <2>1. \A x \in Ends(s) : EndsFirst(s, x) => x = e
    BY <1>0, <1>1 DEF EndsFirst
  <2> QED
    BY <1>1, <2>1
<1>5. i \in Int /\ j \in Int /\ d \in Int /\ e \in Int /\ 1 < i
  BY <1>0
<1> DEFINE pairs == (2..e) \X (2..e)
           b == CHOOSE x \in pairs : BlanksAt(s, 1, x[1], x[2], e - 1)
<1>6. b = <<i, j>>
  <2>1. IsVersion(s, j + 1, e - 1)
    <3>1. d \in j + 1 + 6..e - 1 - 1
      BY <1>3, <1>5
    <3> QED
      BY <1>3, <3>1, Zenon DEF IsVersion
  <2>2. <<i, j>> \in pairs /\ BlanksAt(s, 1, <<i, j>>[1], <<i, j>>[2], e - 1)
    BY <1>3, <2>1 DEF BlanksAt
  <2>3. b \in pairs /\ BlanksAt(s, 1, b[1], b[2], e - 1)
    BY <2>2, Zenon
  <2> HIDE DEF b
  <2>4. b[1] < b[2] /\ UriAt(s, 1, b[1], b[2]) /\ s[b[2]] = 32 /\ b[1] \in Int /\ b[2] \in Int /\ 1 < b[1] /\ b = <<b[1], b[2]>>
    BY <1>0, <2>3 DEF BlanksAt
  <2>5. b[1] = i /\ b[2] = j
    <3> DEFINE x == b[1]
               y == b[2]
    <3>1. x < y /\ UriAt(s, 1, x, y) /\ s[y] = 32 /\ x \in Int /\ y \in Int /\ 1 < x
      BY <2>4
    <3> HIDE DEF x, y
    <3>2. i = x /\ j = y
      BY <1>3, <1>5, <3>1, SameBlanks
    <3> QED
      BY <3>2 DEF x, y
  <2> QED
    BY <2>4, <2>5, Zenon
<1> DEFINE a == j + 1
           f == CHOOSE x \in a..Len(s) : VersionAt(s, a, x, e - 1)
<1>7. f = d
  <2>1. d \in a..Len(s) /\ VersionAt(s, a, d, e - 1)
    BY <1>0, <1>3, <1>5
  <2>2. f \in a..Len(s) /\ VersionAt(s, a, f, e - 1)
    BY <2>1, Zenon
  <2> HIDE DEF f
  <2>3. a \in Int /\ f \in Int /\ a <= f /\ a + 5 <= d
    BY <1>3, <1>5, <2>2
  <2> HIDE DEF a
  <2>4. /\ s[f] = 46 /\ Http(s, a) /\ All(s, a + 5, f - 1, Digits)
        /\ s[d] = 46 /\ All(s, a + 5, d - 1, Digits)
    BY <2>1, <2>2, Zenon DEF VersionAt
  <2>5. a + 5 <= f
    <3>1. a \in Int /\ f \in Int /\ a <= f /\ Http(s, a) /\ s[f] = 46
      BY <2>3, <2>4
    <3> QED
      BY <3>1, NotTheDot
  <2> QED
    BY <1>5, <2>3, <2>4, <2>5, SameDot
<1>8. /\ Meaning(s, Words).major = NumberIn(Words, SubSeq(s, j + 6, d - 1))
      /\ Meaning(s, Words).minor = NumberIn(Words, SubSeq(s, d + 1, e - 1))
  <2>1. b[2] = j
    <3> HIDE DEF b
    <3> QED
      BY <1>6
  <2> DEFINE x == NumberIn(Words, SubSeq(s, j + 6, d - 1))
             y == NumberIn(Words, SubSeq(s, d + 1, e - 1))
             v == MethodAndUri(s).method
             w == MethodAndUri(s).uri
             h == Fields(s)[Len(s) - 3]
             M == Meaning(s, Words)
  <2> HIDE DEF pairs
  <2>2. M = [method |-> v, uri |-> w, major |-> x, minor |-> y, headers |-> h]
    BY <1>4, <1>7, <2>1, Zenon DEF Meaning, pairs
  <2> HIDE DEF x, y, v, w, h, M
  <2>3. M.major = x /\ M.minor = y
    BY <2>2
  <2> QED
    BY <2>3 DEF M, x, y
<1>9. j + 1 + 5 = j + 6
  BY <1>5
<1> QED
  BY <1>3, <1>8, <1>9, Zenon DEF SaysNumber

\* Whatever is sent, in whatever pieces: what the parser has put into an accepted
\* request is what its text says, the version as an int holds it and every header
\* with the lines that continue it.
THEOREM GoodAlwaysMeaning == Spec => []GoodIsMeaning
<1>1. IInv /\ Understood => GoodIsMeaning
  <2> SUFFICES ASSUME IInv, Understood, result = "good" PROVE request = Meaning(seen, Words)
    BY DEF GoodIsMeaning
  <2>1. /\ seen \in Seq(Char) /\ FirstLineRead(seen, request.major, request.minor)
        /\ request.headers = Fields(seen)[Len(seen) - 3] /\ request \in Request
    BY DEF IInv, TypeOK, Understood, SaysAll
  <2>2. request.method = MethodAndUri(seen).method /\ request.uri = MethodAndUri(seen).uri
    BY RequestLineTaken
  <2>3. request.major = Meaning(seen, Words).major /\ request.minor = Meaning(seen, Words).minor
    BY <2>1, VersionIs
  <2>4. request = [ method |-> request.method, uri |-> request.uri, major |-> request.major,
                    minor |-> request.minor, headers |-> request.headers ]
    BY <2>1 DEF Request
  <2>5. \E x, y : Meaning(seen, Words) =
          [ method |-> MethodAndUri(seen).method, uri |-> MethodAndUri(seen).uri, major |-> x, minor |-> y,
            headers |-> Fields(seen)[Len(seen) - 3] ]
    BY Zenon DEF Meaning
  <2> DEFINE M == Meaning(seen, Words)
  <2> HIDE DEF M
  <2>6. M = [ method |-> MethodAndUri(seen).method, uri |-> MethodAndUri(seen).uri, major |-> M.major,
              minor |-> M.minor, headers |-> Fields(seen)[Len(seen) - 3] ]
    BY <2>5 DEF M
  <2> QED
    BY <2>1, <2>2, <2>3, <2>4, <2>6, Zenon DEF M
<1> QED
  BY <1>1, IInvInvariant, AlwaysUnderstood, PTL

=============================================================================
