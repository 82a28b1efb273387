--------------------------- MODULE RequestGrammar ---------------------------
(***************************************************************************)
(* What the request parser is to accept, said without a parser: a request  *)
(* is a sequence of lines, a line is a request line, a header field, the   *)
(* continuation of a field, or empty at the end.  s is the text, and a     *)
(* line or a part of one is the places from a to z in it.  Nothing here    *)
(* uses the definitions of RequestParser, which is compared with it.       *)
(***************************************************************************)
EXTENDS Integers, Sequences

Separators == {34, 40, 41, 44, 47, 58, 59, 60, 61, 62, 63, 64, 91, 92, 93, 123, 125}
Controls   == 0..31 \cup {127}
Digits     == 48..57
Blanks     == {32, 9}

All(s, a, z, S)  == \A k \in a..z : s[k] \in S
None(s, a, z, S) == \A k \in a..z : s[k] \notin S

Token(s, a, z) == a <= z /\ All(s, a, z, (33..126) \ Separators)
Text(s, a, z)  == None(s, a, z, Controls)

-----------------------------------------------------------------------------
(* Lines *)

Http(s, a) == s[a] = 72 /\ s[a + 1] = 84 /\ s[a + 2] = 84 /\ s[a + 3] = 80 /\ s[a + 4] = 47

\* d is the dot.
VersionAt(s, a, d, z) ==
  Http(s, a) /\ s[d] = 46 /\ All(s, a + 5, d - 1, Digits) /\ All(s, d + 1, z, Digits)

IsVersion(s, a, z) == \E d \in a + 6..z - 1 : VersionAt(s, a, d, z)

\* The uri is between i, a blank, and j; it may be empty.
UriAt(s, a, i, j) ==
  s[i] = 32 /\ Token(s, a, i - 1) /\ Text(s, i + 1, j - 1) /\ None(s, i + 1, j - 1, {32})

\* i and j are the blanks.
BlanksAt(s, a, i, j, z) == i < j /\ UriAt(s, a, i, j) /\ s[j] = 32 /\ IsVersion(s, j + 1, z)

IsRequestLine(s, a, z) == \E i, j \in a + 1..z : BlanksAt(s, a, i, j, z)

\* A name, a colon, one blank, and a value that may be empty.
IsField(s, a, z) ==
  \E i \in a + 1..z - 1 : Token(s, a, i - 1) /\ s[i] = 58 /\ s[i + 1] = 32 /\ Text(s, i + 2, z)

\* Blanks and tabs, and the rest of the value.
IsContinuation(s, a, z) ==
  \E i \in a..z : All(s, a, i, Blanks) /\ Text(s, i + 1, z)

\* The places of the carriage returns that end a line.
Ends(s) == {k \in 1..Len(s) - 1 : s[k] = 13 /\ s[k + 1] = 10}

EndsFirst(s, e) == e \in Ends(s) /\ \A x \in Ends(s) : e <= x

\* e ends the line after the one that a ends.
EndsNext(s, a, e) == a < e /\ \A x \in Ends(s) : x <= a \/ e <= x

\* That line is in its place: what it continues is no request line.
IsHeaderLine(s, a, e) ==
  IsField(s, a + 2, e - 1) \/ (~EndsFirst(s, a) /\ IsContinuation(s, a + 2, e - 1))

\* The lines that end before z are in their places.
LinesFit(s, z) ==
  /\ \A e \in Ends(s) : EndsFirst(s, e) => IsRequestLine(s, 1, e - 1)
  /\ \A a, e \in Ends(s) : EndsNext(s, a, e) /\ e < z => IsHeaderLine(s, a, e)

WellFormed(s) ==
  /\ Len(s) - 1 \in Ends(s) /\ Len(s) - 3 \in Ends(s)
  /\ LinesFit(s, Len(s) - 1)

-----------------------------------------------------------------------------
(* What a well-formed request says *)

MethodAndUri(s) ==
  LET e == CHOOSE e \in Ends(s) : EndsFirst(s, e)
      b == CHOOSE b \in (2..e) \X (2..e) : BlanksAt(s, 1, b[1], b[2], e - 1)
  IN  [method |-> SubSeq(s, 1, b[1] - 1), uri |-> SubSeq(s, b[1] + 1, b[2] - 1)]

\* What the first k digits of a sequence say, for each k.
Value(digits) ==
  LET upto[k \in 0..Len(digits)] ==
        IF k = 0 THEN 0 ELSE 10 * upto[k - 1] + digits[k] - 48
  IN  upto

\* In an int of the given number of values.
InInt(words, n) ==
  LET low == n % words
  IN  IF low < words - words \div 2 THEN low ELSE low - words

NumberIn(words, digits) == InInt(words, Value(digits)[Len(digits)])

Field(line) ==
  LET i == CHOOSE i \in DOMAIN line : line[i] = 58 /\ None(line, 1, i - 1, {58})
  IN  [name |-> SubSeq(line, 1, i - 1), value |-> SubSeq(line, i + 2, Len(line))]

WithoutBlanks(line) ==
  LET last == CHOOSE i \in DOMAIN line :
                /\ All(line, 1, i, Blanks)
                /\ i = Len(line) \/ line[i + 1] \notin Blanks
  IN  SubSeq(line, last + 1, Len(line))

\* A continuation adds what follows its blanks to the value before it.
WithLine(fields, line) ==
  IF IsContinuation(line, 1, Len(line))
  THEN [fields EXCEPT ![Len(fields)].value = @ \o WithoutBlanks(line)]
  ELSE Append(fields, Field(line))

\* The line that ends at e, which is not the first.
LineBefore(s, e) ==
  LET a == CHOOSE a \in Ends(s) : EndsNext(s, a, e)
  IN  SubSeq(s, a + 2, e - 1)

WithPlace(s, fields, n) ==
  IF n \in Ends(s) /\ ~EndsFirst(s, n) THEN WithLine(fields, LineBefore(s, n)) ELSE fields

\* What the header lines say that end up to each place.
Fields(s) ==
  LET upto[n \in 0..Len(s)] ==
        IF n = 0 THEN <<>> ELSE WithPlace(s, upto[n - 1], n)
  IN  upto

\* The last line, which is empty, is no header.
Meaning(s, words) ==
  LET e == CHOOSE e \in Ends(s) : EndsFirst(s, e)
      b == CHOOSE b \in (2..e) \X (2..e) : BlanksAt(s, 1, b[1], b[2], e - 1)
      d == CHOOSE d \in b[2] + 1..Len(s) : VersionAt(s, b[2] + 1, d, e - 1)
  IN  [ method |-> MethodAndUri(s).method,
        uri |-> MethodAndUri(s).uri,
        major |-> NumberIn(words, SubSeq(s, b[2] + 6, d - 1)),
        minor |-> NumberIn(words, SubSeq(s, d + 1, e - 1)),
        headers |-> Fields(s)[Len(s) - 3] ]

-----------------------------------------------------------------------------
(* Ways to go on: the ends of a small request with a field.  Whatever can  *)
(* still become a well-formed request becomes one with one of them.        *)

Small ==
  <<71, 32, 47, 32, 72, 84, 84, 80, 47, 49, 46, 49, 13, 10,
    65, 58, 32, 13, 10, 13, 10>>

End(i) == SubSeq(Small, i, Len(Small))

Hopeful(s) == \E t \in {s \o End(i) : i \in 1..Len(Small)} : WellFormed(t)

=============================================================================
