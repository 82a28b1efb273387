---------------------------- MODULE ReplyProofs ----------------------------
(***************************************************************************)
(* Theorems about Reply for every file, buffer size and content type.      *)
(***************************************************************************)
EXTENDS Reply, SequenceTheorems, TLAPS

\* A part of a sequence.
LEMMA SubSeqOfText ==
  ASSUME NEW S, NEW s \in Seq(S), NEW m \in Int, NEW n \in Int, m >= 1, n <= Len(s)
  PROVE  SubSeq(s, m, n) \in Seq(S)
<1>1. CASE m <= n
  <2>1. \A k \in m..n : s[k] \in S
    BY ElementOfSeq, LenProperties
  <2> QED
    BY <1>1, <2>1, SubSeqProperties
<1>2. CASE m > n
  BY <1>2, SubSeqProperties, EmptySeq
<1> QED
  BY <1>1, <1>2

\* The beginning of a sequence that is as long as it is the sequence.
LEMMA WholePrefix ==
  ASSUME NEW S, NEW s \in Seq(S), NEW m \in 0..Len(s)
  PROVE  SubSeq(s, 1, m) = s <=> m = Len(s)
<1>1. Len(s) \in Nat
  BY LenProperties
<1>2. SubSeq(s, 1, m) \in Seq(S) /\ Len(SubSeq(s, 1, m)) = m
  BY <1>1, SubSeqOfText
<1>3. SubSeq(s, 1, Len(s)) = s
  BY SubSeqFull
<1> QED
  BY <1>2, <1>3

-----------------------------------------------------------------------------
Symbols == Octets \cup {Text(t) : t \in Words} \cup {Number(n) : n \in Nat}

ReplyType == IF status = "ok" THEN type ELSE "text/html"

\* What has been read is the beginning of the file, all of it once the stream
\* has come to its end; what is sent is the beginning of a reply whose headers
\* were made from the content that is sent.
Copied ==
  /\ phase = "handling" => stream = "none" /\ offset = 0 /\ content = <<>> /\ ~changed
  /\ phase = "reading" => stream # "none" /\ status = "ok"
  /\ stream \in {"good", "ended"} /\ ~changed => content = SubSeq(file, 1, offset)
  /\ stream = "ended" /\ ~changed => offset = Len(file)

Sending ==
  /\ phase = "sending" => headers = Headers(Len(content), ReplyType) /\ status \in Statuses
  /\ \/ sent = <<>>
     \/ phase = "sending" /\ \E m \in 1..Len(ToBuffers) : sent = SubSeq(ToBuffers, 1, m)

IInv == TypeOK /\ Copied /\ Sending

-----------------------------------------------------------------------------
(* The layout of a reply *)

LEMMA SymbolsDiffer ==
  /\ CR # LF
  /\ \A t : Text(t) # CR /\ Text(t) # LF
  /\ \A n : Number(n) # CR /\ Number(n) # LF
  /\ \A t, n : Text(t) # Number(n)
  /\ \A t, u : Text(t) = Text(u) => t = u
  /\ \A m, n : Number(m) = Number(n) => m = n
BY DEF CR, LF, Octet, Text, Number

LEMMA SymbolTypes ==
  /\ CR \in Symbols /\ LF \in Symbols
  /\ Octets \subseteq Symbols
  /\ \A t \in Words : Text(t) \in Symbols
  /\ \A n \in Nat : Number(n) \in Symbols
BY DEF CR, LF, Octets, Symbols

LEMMA HeadType ==
  ASSUME NEW S, NEW a \in S, NEW b \in S, NEW c \in S, NEW d \in S, NEW e \in S, NEW f \in S,
         NEW r \in S, NEW l \in S
  PROVE  <<a, r, l, b, c, d, r, l, e, c, f, r, l, r, l>> \in Seq(S)
OBVIOUS

LEMMA HeadLayout ==
  ASSUME NEW n \in Nat, NEW t \in Words, NEW st \in Statuses,
         headers = Headers(n, t), status = st
  PROVE  /\ ReplyHead \in Seq(Symbols) /\ Len(ReplyHead) = 15
         /\ ReplyHead[1] = Text(st) /\ ReplyHead[2] = CR /\ ReplyHead[3] = LF
         /\ ReplyHead[4] = Text("Content-Length") /\ ReplyHead[5] = Text(": ")
         /\ ReplyHead[6] = Number(n) /\ ReplyHead[7] = CR /\ ReplyHead[8] = LF
         /\ ReplyHead[9] = Text("Content-Type") /\ ReplyHead[10] = Text(": ")
         /\ ReplyHead[11] = Text(t) /\ ReplyHead[12] = CR /\ ReplyHead[13] = LF
         /\ ReplyHead[14] = CR /\ ReplyHead[15] = LF
<1>1. /\ headers[1].name = "Content-Length" /\ headers[1].value = Number(n)
      /\ headers[2].name = "Content-Type" /\ headers[2].value = Text(t)
  BY DEF Headers
<1>2. StatusLine(status) = Text(st)
  BY DEF StatusLine
<1>3. ReplyHead = << Text(st), CR, LF, Text("Content-Length"), Text(": "), Number(n), CR, LF,
                Text("Content-Type"), Text(": "), Text(t), CR, LF, CR, LF >>
  BY <1>1, <1>2 DEF ReplyHead
<1>4. /\ Text(st) \in Symbols /\ Text("Content-Length") \in Symbols
      /\ Text(": ") \in Symbols /\ Number(n) \in Symbols
      /\ Text("Content-Type") \in Symbols /\ Text(t) \in Symbols
      /\ CR \in Symbols /\ LF \in Symbols
  <2>1. st \in Words /\ "Content-Length" \in Words /\ "Content-Type" \in Words /\ ": " \in Words
    <3> HIDE DEF Statuses
    <3> QED
      BY DEF Words
  <2> QED
    BY <2>1, SymbolTypes
<1> HIDE DEF Text, Number, CR, LF
<1>5. << Text(st), CR, LF, Text("Content-Length"), Text(": "), Number(n), CR, LF,
         Text("Content-Type"), Text(": "), Text(t), CR, LF, CR, LF >> \in Seq(Symbols)
  BY <1>4, HeadType, Zenon
<1> QED
  BY <1>3, <1>5

\* Where its line ends are.
LEMMA LineEnds ==
  ASSUME NEW n \in Nat, NEW t \in Words, NEW st \in Statuses,
         headers = Headers(n, t), status = st
  PROVE  /\ \A k \in 1..15 : ReplyHead[k] = LF <=> k \in {3, 8, 13, 15}
         /\ ReplyHead[12] = CR /\ ReplyHead[14] = CR
<1> DEFINE h == ReplyHead
<1>1. /\ h[1] = Text(st) /\ h[2] = CR /\ h[3] = LF
      /\ h[4] = Text("Content-Length") /\ h[5] = Text(": ")
      /\ h[6] = Number(n) /\ h[7] = CR /\ h[8] = LF
      /\ h[9] = Text("Content-Type") /\ h[10] = Text(": ")
      /\ h[11] = Text(t) /\ h[12] = CR /\ h[13] = LF
      /\ h[14] = CR /\ h[15] = LF
  BY HeadLayout
<1> HIDE DEF h
<1>2. CR # LF
  BY SymbolsDiffer
<1>3. /\ Text(st) # LF /\ Text("Content-Length") # LF /\ Text(": ") # LF
      /\ Number(n) # LF /\ Text("Content-Type") # LF /\ Text(t) # LF
  BY SymbolsDiffer
<1>4. h[3] = LF /\ h[8] = LF /\ h[13] = LF /\ h[15] = LF
  BY <1>1
<1>5. /\ h[1] # LF /\ h[2] # LF /\ h[4] # LF /\ h[5] # LF /\ h[6] # LF /\ h[7] # LF
      /\ h[9] # LF /\ h[10] # LF /\ h[11] # LF /\ h[12] # LF /\ h[14] # LF
  BY <1>1, <1>2, <1>3
<1>6. \A k \in 1..15 : h[k] = LF <=> k \in {3, 8, 13, 15}
  BY <1>4, <1>5
<1> QED
  BY <1>1, <1>6 DEF h

-----------------------------------------------------------------------------
(* What a client makes of the beginning of a reply *)

\* A reply as the client sees it: the first symbols of it.
Beginning(m) == SubSeq(ToBuffers, 1, m)

LEMMA BeginningLayout ==
  ASSUME NEW n \in Nat, NEW t \in Words, NEW st \in Statuses,
         headers = Headers(n, t), status = st, content \in Seq(Octets),
         NEW m \in 0..Len(ToBuffers)
  PROVE  /\ Len(ToBuffers) = 15 + Len(content) /\ ToBuffers \in Seq(Symbols)
         /\ Beginning(m) \in Seq(Symbols) /\ Len(Beginning(m)) = m
         /\ \A k \in 1..m : k <= 15 => Beginning(m)[k] = ReplyHead[k]
         /\ \A k \in 1..Len(content) : ToBuffers[15 + k] = content[k]
<1>1. ReplyHead \in Seq(Symbols) /\ Len(ReplyHead) = 15
  BY HeadLayout
<1>2. content \in Seq(Symbols) /\ Len(content) \in Nat
  BY SymbolTypes, LenProperties
<1>3. /\ ToBuffers \in Seq(Symbols) /\ Len(ToBuffers) = 15 + Len(content)
      /\ \A k \in 1..15 + Len(content) :
           ToBuffers[k] = IF k <= 15 THEN ReplyHead[k] ELSE content[k - 15]
  <2>1. ReplyHead \in Seq(Symbols) /\ content \in Seq(Symbols)
    BY <1>1, <1>2
  <2>2. /\ ReplyHead \o content \in Seq(Symbols)
        /\ Len(ReplyHead \o content) = Len(ReplyHead) + Len(content)
        /\ \A k \in 1..Len(ReplyHead) + Len(content) :
             (ReplyHead \o content)[k] =
               IF k <= Len(ReplyHead) THEN ReplyHead[k] ELSE content[k - Len(ReplyHead)]
    BY ONLY <2>1, ConcatProperties
  <2> QED
    BY <1>1, <2>2 DEF ToBuffers
<1>4. \A k \in 1..Len(content) : ToBuffers[15 + k] = content[k]
  <2> SUFFICES ASSUME NEW k \in 1..Len(content)
               PROVE  ToBuffers[15 + k] = content[k]
    OBVIOUS
  <2>1. 15 + k \in 1..15 + Len(content) /\ ~(15 + k <= 15) /\ (15 + k) - 15 = k
    BY <1>2
  <2> QED
    BY <1>3, <2>1
<1>5. m \in Nat /\ m <= Len(ToBuffers)
  BY <1>2, <1>3
<1>6. Beginning(m) \in Seq(Symbols)
  BY <1>3, <1>5, SubSeqOfText DEF Beginning
<1>7. Len(Beginning(m)) = m /\ \A k \in 1..m : Beginning(m)[k] = ToBuffers[k]
  BY <1>3, <1>5 DEF Beginning
<1>8. ASSUME NEW k \in 1..m, k <= 15
      PROVE  Beginning(m)[k] = ReplyHead[k]
  BY <1>2, <1>3, <1>5, <1>7, <1>8
<1> QED
  BY <1>3, <1>4, <1>6, <1>7, <1>8

\* The head ends with its fifteenth symbol and nowhere else, whatever the
\* content is.
LEMMA HeadEndsOnce ==
  ASSUME NEW n \in Nat, NEW t \in Words, NEW st \in Statuses,
         headers = Headers(n, t), status = st, content \in Seq(Octets),
         NEW m \in 0..Len(ToBuffers), NEW p \in Int
  PROVE  HeadEnds(Beginning(m), p) <=> p = 15 /\ m >= 15
<1> DEFINE s == Beginning(m)
<1>1. /\ s \in Seq(Symbols) /\ Len(s) = m /\ m \in Nat
      /\ \A k \in 1..m : k <= 15 => s[k] = ReplyHead[k]
  BY BeginningLayout, LenProperties
<1> HIDE DEF s
<1>2. /\ \A k \in 1..15 : ReplyHead[k] = LF <=> k \in {3, 8, 13, 15}
      /\ ReplyHead[12] = CR /\ ReplyHead[14] = CR
  BY LineEnds
<1>3. ASSUME NEW q \in 4..14
      PROVE  ~EmptyLine(s, q)
  <2> SUFFICES ASSUME EmptyLine(s, q)
               PROVE  FALSE
    OBVIOUS
  <2>1. q <= m /\ s[q - 2] = LF /\ s[q] = LF
    BY <1>1 DEF EmptyLine
  <2>2. s[q] = ReplyHead[q] /\ s[q - 2] = ReplyHead[q - 2]
    BY <1>1, <2>1
  <2>3. q \in {8, 13}
    BY <1>2, <2>1, <2>2
  <2> QED
    BY <1>2, <2>1, <2>2, <2>3
<1>4. m >= 15 => EmptyLine(s, 15)
  <2> SUFFICES ASSUME m >= 15
               PROVE  EmptyLine(s, 15)
    OBVIOUS
  <2>1. \A k \in 12..15 : s[k] = ReplyHead[k]
    BY <1>1
  <2> QED
    BY <1>1, <1>2, <2>1 DEF EmptyLine
<1>5. HeadEnds(s, p) => p = 15 /\ m >= 15
  <2> SUFFICES ASSUME HeadEnds(s, p)
               PROVE  p = 15 /\ m >= 15
    OBVIOUS
  <2>1. p \in 4..m /\ EmptyLine(s, p) /\ \A q \in 4..p - 1 : ~EmptyLine(s, q)
    BY <1>1 DEF HeadEnds, EmptyLine
  <2>2. ~(p \in 4..14)
    BY <1>3, <2>1
  <2>3. ~(p > 15)
    <3> SUFFICES ASSUME p > 15
                 PROVE  FALSE
      OBVIOUS
    <3>1. m >= 15 /\ 15 \in 4..p - 1
      BY <1>1, <2>1
    <3> QED
      BY <1>4, <2>1, <3>1
  <2> QED
    BY <1>1, <2>1, <2>2, <2>3
<1>6. m >= 15 => HeadEnds(s, 15)
  BY <1>3, <1>4 DEF HeadEnds
<1> QED
  BY <1>5, <1>6 DEF s

\* The length is named once, and in its place.
LEMMA HeaderFound ==
  ASSUME NEW n \in Nat, NEW t \in Words, NEW st \in Statuses,
         headers = Headers(n, t), status = st, content \in Seq(Octets),
         NEW m \in 0..Len(ToBuffers), m >= 15
  PROVE  /\ \A v : HasHeader(Beginning(m), 15, "Content-Length", Number(v)) <=> v = n
         /\ HasHeader(Beginning(m), 15, "Content-Type", Text(t))
<1> DEFINE s == Beginning(m)
<1>1. \A k \in 1..15 : s[k] = ReplyHead[k]
  <2>1. Len(ToBuffers) \in Nat
    BY BeginningLayout, LenProperties
  <2>2. \A k \in 1..m : k <= 15 => s[k] = ReplyHead[k]
    BY BeginningLayout
  <2> HIDE DEF s
  <2> QED
    BY <2>1, <2>2
<1> HIDE DEF s
<1>2. /\ ReplyHead[4] = Text("Content-Length") /\ ReplyHead[6] = Number(n)
      /\ ReplyHead[9] = Text("Content-Type") /\ ReplyHead[11] = Text(t)
  BY HeadLayout
<1>3. \A k \in 1..15 : ReplyHead[k] = LF <=> k \in {3, 8, 13, 15}
  BY LineEnds
<1>4. ASSUME NEW v, HasHeader(s, 15, "Content-Length", Number(v))
      PROVE  v = n
  <2>1. 15 - 3 = 12
    OBVIOUS
  <2>2. PICK k \in 3..12 : s[k - 1] = LF /\ s[k] = Text("Content-Length") /\ s[k + 2] = Number(v)
    BY <1>4, <2>1, Zenon DEF HasHeader
  <2>3. k - 1 \in 1..15 /\ k \in 1..15 /\ k + 2 \in 1..15
    OBVIOUS
  <2>4. s[k - 1] = ReplyHead[k - 1] /\ s[k] = ReplyHead[k] /\ s[k + 2] = ReplyHead[k + 2]
    BY <1>1, <2>3
  <2>5. k - 1 \in {3, 8, 13, 15}
    BY <1>3, <2>2, <2>3, <2>4
  <2>6. k = 4 \/ k = 9
    BY <2>5
  <2>7. Text("Content-Type") # Text("Content-Length")
    BY SymbolsDiffer
  <2>8. k = 4
    BY <1>2, <2>2, <2>4, <2>6, <2>7
  <2>9. 4 + 2 = 6
    OBVIOUS
  <2>10. Number(v) = Number(n)
    BY <1>2, <2>2, <2>4, <2>8, <2>9
  <2> QED
    BY <2>10, SymbolsDiffer
<1>5. HasHeader(s, 15, "Content-Length", Number(n))
  <2>1. 4 \in 3..12 /\ s[4 - 1] = LF /\ s[4] = Text("Content-Length") /\ s[4 + 2] = Number(n)
    BY <1>1, <1>2, <1>3
  <2> QED
    BY <2>1 DEF HasHeader
<1>6. HasHeader(s, 15, "Content-Type", Text(t))
  <2>1. 9 \in 3..12 /\ s[9 - 1] = LF /\ s[9] = Text("Content-Type") /\ s[9 + 2] = Text(t)
    BY <1>1, <1>2, <1>3
  <2> QED
    BY <2>1 DEF HasHeader
<1> QED
  BY <1>4, <1>5, <1>6 DEF s

\* The client takes the beginning for the whole exactly when it is as long as
\* the head and as the length the head names.
LEMMA WholeLength ==
  ASSUME NEW n \in Nat, NEW t \in Words, NEW st \in Statuses,
         headers = Headers(n, t), status = st, content \in Seq(Octets),
         NEW m \in 0..Len(ToBuffers)
  PROVE  Whole(Beginning(m)) <=> m = 15 + n
<1>1. Len(Beginning(m)) = m /\ m \in Nat
  BY BeginningLayout, LenProperties
<1>2. \A p \in Int : HeadEnds(Beginning(m), p) <=> p = 15 /\ m >= 15
  BY HeadEndsOnce
<1>3. m >= 15 => \A v : HasHeader(Beginning(m), 15, "Content-Length", Number(v)) <=> v = n
  BY HeaderFound
<1>4. Whole(Beginning(m)) =>
        m >= 15 /\ HasHeader(Beginning(m), 15, "Content-Length", Number(m - 15))
  BY <1>1, <1>2 DEF Whole
<1>5. m >= 15 /\ HasHeader(Beginning(m), 15, "Content-Length", Number(m - 15)) =>
        Whole(Beginning(m))
  BY <1>1, <1>2 DEF Whole
<1> QED
  BY <1>1, <1>3, <1>4, <1>5

-----------------------------------------------------------------------------
(* The invariant *)

THEOREM InitEstablishes == Init => IInv
<1> SUFFICES ASSUME Init
             PROVE  IInv
  OBVIOUS
<1>1. file \in Seq(Octets) /\ Len(file) \in Nat
  BY FilesAssumption, LenProperties DEF Init
<1>2. TypeOK
  <2>1. headers \in Seq([name : Words, value : ({"number"} \X Nat) \cup ({"text"} \X Words)])
    BY EmptySeq DEF Init
  <2>2. content \in Seq(Octets)
    BY EmptySeq DEF Init
  <2>3. offset \in Nat /\ (~changed => offset <= Len(file))
    BY <1>1 DEF Init
  <2>4. /\ phase \in {"handling", "reading", "sending"} /\ file \in Files /\ changed \in BOOLEAN
        /\ stream \in {"none", "good", "ended", "failed"} /\ status \in {"none"} \cup Statuses
        /\ type \in Types /\ sent = <<>>
    BY DEF Init
  <2> QED
    BY <2>1, <2>2, <2>3, <2>4 DEF TypeOK
<1>3. Copied
  BY DEF Init, Copied
<1>4. Sending
  BY DEF Init, Sending
<1> QED
  BY <1>2, <1>3, <1>4 DEF IInv

\* Headers that are made are headers.
LEMMA HeadersType ==
  ASSUME NEW n \in Nat, NEW t \in Words
  PROVE  Headers(n, t) \in Seq([name : Words, value : ({"number"} \X Nat) \cup ({"text"} \X Words)])
<1> DEFINE V == ({"number"} \X Nat) \cup ({"text"} \X Words)
<1>1. Number(n) \in V /\ Text(t) \in V
  BY DEF Number, Text
<1> HIDE DEF V
<1>2. "Content-Length" \in Words /\ "Content-Type" \in Words
  BY DEF Words
<1>3. /\ [name |-> "Content-Length", value |-> Number(n)] \in [name : Words, value : V]
      /\ [name |-> "Content-Type", value |-> Text(t)] \in [name : Words, value : V]
  BY <1>1, <1>2
<1> QED
  BY <1>3 DEF Headers, V

LEMMA StockKeeps ==
  ASSUME IInv, StockReply
  PROVE  IInv'
<1>1. content' \in Seq(Octets) /\ Len(content') \in Nat
  <2>1. status' \in Statuses /\ status' # "ok"
    BY DEF StockReply, Statuses
  <2>2. Octet(status') \in Octets
    BY <2>1 DEF Octets
  <2>3. content' = <<Octet(status')>>
    BY <2>1 DEF StockReply, stock_content
  <2> HIDE DEF Octet
  <2>4. <<Octet(status')>> \in Seq(Octets)
    BY <2>2
  <2> QED
    BY <2>3, <2>4, LenProperties
<1>2. "text/html" \in Words
  BY DEF Words
<1>3. TypeOK'
  <2>1. headers' \in Seq([name : Words, value : ({"number"} \X Nat) \cup ({"text"} \X Words)])
    BY <1>1, <1>2, HeadersType DEF StockReply
  <2>2. status' \in Statuses
    BY DEF StockReply, Statuses
  <2>3. sent' = <<>>
    BY DEF IInv, Sending, StockReply
  <2> QED
    BY <1>1, <2>1, <2>2, <2>3 DEF IInv, TypeOK, StockReply
<1>4. Copied'
  BY DEF IInv, Copied, StockReply
<1>5. Sending'
  <2>1. status' \in Statuses /\ status' # "ok"
    BY DEF StockReply, Statuses
  <2> QED
    BY <2>1 DEF IInv, Sending, StockReply, ReplyType
<1> QED
  BY <1>3, <1>4, <1>5 DEF IInv

LEMMA OpenKeeps ==
  ASSUME IInv, Open
  PROVE  IInv'
<1>1. file \in Seq(Octets) /\ Len(file) \in Nat
  BY FilesAssumption, LenProperties DEF IInv, TypeOK
<1>2. SubSeq(file, 1, 0) = <<>>
  BY <1>1, SubSeqProperties
<1>3. TypeOK'
  <2>1. "ok" \in Statuses
    BY DEF Statuses
  <2>2. sent' = <<>>
    BY DEF IInv, Sending, Open
  <2> QED
    BY <2>1, <2>2 DEF IInv, TypeOK, Open
<1>4. Copied'
  BY <1>2 DEF IInv, Copied, Open
<1>5. Sending'
  BY DEF IInv, Sending, Open
<1> QED
  BY <1>3, <1>4, <1>5 DEF IInv

\* A turn of the loop that delivers n octets, which the file has.
LEMMA ReadKeeps ==
  ASSUME IInv, NEW n \in Nat, NEW end \in {"good", "ended", "failed"}, Read(n, end),
         GoesOn(n) \/ ~changed => offset + n <= Len(file),
         end = "ended" /\ ~changed => offset + n = Len(file),
         end \in {"good", "ended"} => stream \in {"good", "ended"}
  PROVE  IInv'
<1>1. /\ file \in Seq(Octets) /\ Len(file) \in Nat /\ offset \in Nat /\ content \in Seq(Octets)
      /\ offset' = offset + n
  BY FilesAssumption, LenProperties DEF IInv, TypeOK, Read, After
<1>2. content' \in Seq(Octets) /\ Len(content') \in Nat
  <2>1. CASE GoesOn(n)
    <3>1. Delivered(n) \in Seq(Octets)
      BY <1>1, <2>1, SubSeqOfText DEF Delivered
    <3>2. content \o Delivered(n) \in Seq(Octets)
      BY <1>1, <3>1, ConcatProperties
    <3> QED
      BY <2>1, <3>2, LenProperties DEF Read
  <2>2. CASE ~GoesOn(n)
    BY <1>1, <2>2, LenProperties DEF Read
  <2> QED
    BY <2>1, <2>2
<1>3. type \in Words
  BY DEF IInv, TypeOK, Words
<1>4. sent' = <<>>
  BY DEF IInv, Sending, Read
<1>5. status = "ok" /\ phase = "reading" /\ "ok" \in Statuses
  BY DEF IInv, Copied, Read, Statuses
<1>6. TypeOK'
  <2>1. headers' \in Seq([name : Words, value : ({"number"} \X Nat) \cup ({"text"} \X Words)])
    <3>1. CASE GoesOn(n)
      BY <3>1 DEF IInv, TypeOK, Read
    <3>2. CASE ~GoesOn(n)
      <4>1. headers' = Headers(Len(content), type) /\ Len(content) \in Nat
        BY <1>1, <3>2, LenProperties DEF Read, Length
      <4> QED
        BY <1>3, <4>1, HeadersType
    <3> QED
      BY <3>1, <3>2
  <2>2. phase' \in {"reading", "sending"} /\ stream' = end
    BY <1>5 DEF Read
  <2>3. ~changed' => offset' <= Len(file')
    BY <1>1 DEF Read
  <2>4. file' = file /\ changed' = changed /\ status' = status /\ type' = type
    BY DEF Read
  <2>5. file \in Files /\ changed \in BOOLEAN /\ status \in Statuses \cup {"none"} /\ type \in Types
    BY DEF IInv, TypeOK
  <2>6. offset' \in Nat
    BY <1>1
  <2> QED
    BY <1>2, <1>4, <2>1, <2>2, <2>3, <2>4, <2>5, <2>6 DEF TypeOK
<1>7. Copied'
  <2>1. phase' \in {"reading", "sending"} /\ stream' = end /\ status' = status
    BY <1>5 DEF Read
  <2>2. ASSUME stream' \in {"good", "ended"}, ~changed'
        PROVE  content' = SubSeq(file', 1, offset')
    <3>1. content = SubSeq(file, 1, offset) /\ ~changed /\ file' = file
      BY <2>1, <2>2 DEF IInv, Copied, Read
    <3>2. CASE GoesOn(n)
      <4>1. offset \in 0..Len(file) /\ offset + n <= Len(file)
        BY <1>1, <3>1
      <4>2. SubSeq(file, 1, offset) \o SubSeq(file, offset + 1, offset + n) = SubSeq(file, 1, offset + n)
        BY <1>1, <4>1, ConcatAdjacentSubSeq
      <4> QED
        BY <1>1, <3>1, <3>2, <4>2 DEF Read, Delivered
    <3>3. CASE ~GoesOn(n)
      <4>1. offset' = offset
        BY <1>1, <3>3 DEF GoesOn
      <4>2. content' = content
        BY <3>3 DEF Read
      <4> QED
        BY <3>1, <4>1, <4>2
    <3> QED
      BY <3>2, <3>3
  <2>3. stream' = "ended" /\ ~changed' => offset' = Len(file')
    BY <1>1, <2>1 DEF Read
  <2> QED
    BY <1>5, <2>1, <2>2, <2>3 DEF Copied
<1>8. Sending'
  <2>1. CASE GoesOn(n)
    BY <1>4, <1>5, <2>1 DEF Sending, Read
  <2>2. CASE ~GoesOn(n)
    <3>1. headers' = Headers(Len(content'), type') /\ status' = "ok" /\ ReplyType' = type'
      BY <1>5, <2>2 DEF Read, Length, ReplyType
    <3> QED
      BY <1>4, <1>5, <3>1 DEF Sending
  <2> QED
    BY <2>1, <2>2
<1> QED
  BY <1>6, <1>7, <1>8 DEF IInv

LEMMA ReadChunkKeeps ==
  ASSUME IInv, ReadChunk
  PROVE  IInv'
<1>1. /\ BufSize \in Nat \ {0} /\ Len(file) \in Nat /\ offset \in Nat
      /\ ~changed => offset <= Len(file)
  BY FilesAssumption, SizeAssumption, LenProperties DEF IInv, TypeOK
<1>2. Rest \in Nat /\ (Rest > 0 => offset + Rest = Len(file))
      /\ (~changed => offset + Rest = Len(file))
  BY <1>1 DEF Rest
<1>3. CASE stream = "good" /\ Rest >= BufSize /\ Read(BufSize, "good")
  <2>1. offset + BufSize <= Len(file)
    BY <1>1, <1>2, <1>3
  <2> QED
    BY <1>1, <1>3, <2>1, ReadKeeps
<1>4. CASE stream = "good" /\ Rest < BufSize /\ Read(Rest, "ended")
  <2>1. GoesOn(Rest) \/ ~changed => offset + Rest <= Len(file)
    BY <1>1, <1>2 DEF GoesOn
  <2> QED
    BY <1>2, <1>4, <2>1, ReadKeeps
<1>5. CASE stream \in {"ended", "failed"} /\ Read(0, stream)
  <2>1. GoesOn(0) \/ ~changed => offset + 0 <= Len(file)
    BY <1>1 DEF GoesOn
  <2>2. stream = "ended" /\ ~changed => offset + 0 = Len(file)
    BY <1>1 DEF IInv, Copied
  <2> QED
    BY <1>5, <2>1, <2>2, ReadKeeps
<1> QED
  BY <1>3, <1>4, <1>5 DEF ReadChunk

LEMMA ReadFailsKeeps ==
  ASSUME IInv, ReadFails
  PROVE  IInv'
<1>1. /\ BufSize \in Nat \ {0} /\ Len(file) \in Nat /\ offset \in Nat
      /\ ~changed => offset <= Len(file)
  BY FilesAssumption, SizeAssumption, LenProperties DEF IInv, TypeOK
<1>2. PICK n \in 0..Least(BufSize - 1, Rest) : Read(n, "failed")
  BY DEF ReadFails
<1>3. n \in Nat /\ n <= Rest
  BY <1>1 DEF Least, Rest
<1>4. GoesOn(n) \/ ~changed => offset + n <= Len(file)
  BY <1>1, <1>3 DEF GoesOn, Rest
<1> QED
  BY <1>2, <1>3, <1>4, ReadKeeps

LEMMA ChangeKeeps ==
  ASSUME IInv, Change
  PROVE  IInv'
<1>1. ToBuffers' = ToBuffers
  BY DEF Change, ToBuffers, ReplyHead
<1>2. TypeOK'
  BY <1>1 DEF IInv, TypeOK, Change
<1>3. Copied'
  BY DEF IInv, Copied, Change
<1>4. Sending'
  BY <1>1 DEF IInv, Sending, Change, ReplyType
<1> QED
  BY <1>2, <1>3, <1>4 DEF IInv

LEMMA SendKeeps ==
  ASSUME IInv, Send
  PROVE  IInv'
<1>1. ToBuffers' = ToBuffers
  BY DEF Send, ToBuffers, ReplyHead
<1>2. PICK n \in Len(sent) + 1..Len(ToBuffers) : sent' = SubSeq(ToBuffers, 1, n)
  BY DEF Send
<1>3. /\ headers = Headers(Len(content), ReplyType) /\ status \in Statuses
      /\ content \in Seq(Octets) /\ Len(content) \in Nat /\ ReplyType \in Words
  BY LenProperties DEF IInv, Sending, TypeOK, Send, ReplyType, Words
<1>4. ToBuffers \in Seq(Symbols) /\ Len(ToBuffers) \in Nat
  <2>1. 0 \in 0..15 /\ 15 \in Nat
    OBVIOUS
  <2>2. ReplyHead \in Seq(Symbols)
    BY <1>3, HeadLayout
  <2>3. content \in Seq(Symbols)
    BY <1>3, SymbolTypes
  <2> QED
    BY <2>2, <2>3, ConcatProperties, LenProperties DEF ToBuffers
<1>5. Len(sent) \in Nat
  BY <1>4, LenProperties, SubSeqOfText DEF IInv, Sending
<1>6. n \in 1..Len(ToBuffers) /\ Len(sent') = n
  BY <1>2, <1>4, <1>5
<1>7. TypeOK'
  BY <1>1, <1>2, <1>6 DEF IInv, TypeOK, Send
<1>8. Copied'
  BY DEF IInv, Copied, Send
<1>9. Sending'
  BY <1>1, <1>2, <1>6 DEF IInv, Sending, Send, ReplyType
<1> QED
  BY <1>7, <1>8, <1>9 DEF IInv

THEOREM NextPreserves == IInv /\ [Next]_vars => IInv'
<1> SUFFICES ASSUME IInv, [Next]_vars
             PROVE  IInv'
  OBVIOUS
<1>1. CASE StockReply
  BY <1>1, StockKeeps
<1>2. CASE Open
  BY <1>2, OpenKeeps
<1>3. CASE ReadChunk
  BY <1>3, ReadChunkKeeps
<1>4. CASE ReadFails
  BY <1>4, ReadFailsKeeps
<1>5. CASE Change
  BY <1>5, ChangeKeeps
<1>6. CASE Send
  BY <1>6, SendKeeps
<1>7. CASE UNCHANGED vars
  BY <1>7 DEF vars, IInv, TypeOK, Copied, Sending, ReplyType, ToBuffers, ReplyHead
<1> QED
  BY <1>1, <1>2, <1>3, <1>4, <1>5, <1>6, <1>7 DEF Next

THEOREM Invariance == Spec => []IInv
BY InitEstablishes, NextPreserves, PTL DEF Spec

-----------------------------------------------------------------------------
(* The properties *)

\* The variables of a reply have their types, and what is sent of it is its
\* beginning (to_buffers and do_write), for every file and buffer size.
THEOREM TypeCorrect == Spec => []TypeOK
<1>1. IInv => TypeOK
  BY DEF IInv
<1> QED
  BY <1>1, Invariance, PTL

\* The loop of handle_request reads the whole file, whatever its length and
\* the buffer's are.
THEOREM WholeFileHolds == Spec => []WholeFile
<1>1. IInv => WholeFile
  <2> SUFFICES ASSUME IInv, stream = "ended", ~changed
               PROVE  content = file
    BY DEF WholeFile
  <2>1. file \in Seq(Octets) /\ Len(file) \in Nat
    BY FilesAssumption, LenProperties DEF IInv, TypeOK
  <2>2. content = SubSeq(file, 1, Len(file))
    BY DEF IInv, Copied
  <2>3. Len(file) \in 0..Len(file)
    BY <2>1
  <2> QED
    BY <2>1, <2>2, <2>3, WholePrefix
<1> QED
  BY <1>1, Invariance, PTL

\* What a client gets, once sending has begun, is a beginning of the reply.
LEMMA SentIsBeginning ==
  ASSUME IInv, phase = "sending"
  PROVE  /\ headers = Headers(Len(content), ReplyType) /\ status \in Statuses
         /\ content \in Seq(Octets) /\ Len(content) \in Nat /\ ReplyType \in Words
         /\ Len(ToBuffers) = 15 + Len(content) /\ ToBuffers \in Seq(Symbols)
         /\ \E m \in 0..Len(ToBuffers) : sent = Beginning(m)
<1>1. /\ headers = Headers(Len(content), ReplyType) /\ status \in Statuses
      /\ content \in Seq(Octets) /\ Len(content) \in Nat /\ ReplyType \in Words
  BY LenProperties DEF IInv, Sending, TypeOK, ReplyType, Words
<1>2. Len(ToBuffers) = 15 + Len(content) /\ ToBuffers \in Seq(Symbols)
  <2>1. ReplyHead \in Seq(Symbols) /\ Len(ReplyHead) = 15
    BY <1>1, HeadLayout
  <2>2. content \in Seq(Symbols)
    BY <1>1, SymbolTypes
  <2>3. /\ ReplyHead \o content \in Seq(Symbols)
        /\ Len(ReplyHead \o content) = Len(ReplyHead) + Len(content)
    <3>1. ReplyHead \in Seq(Symbols) /\ content \in Seq(Symbols)
      BY <2>1, <2>2
    <3> QED
      BY ONLY <3>1, ConcatProperties
  <2> QED
    BY <2>1, <2>3 DEF ToBuffers
<1>3. CASE sent = <<>>
  <2>1. Beginning(0) = <<>> /\ 0 \in 0..Len(ToBuffers)
    BY <1>1, <1>2, SubSeqProperties DEF Beginning
  <2> QED
    BY <1>1, <1>2, <1>3, <2>1
<1>4. CASE sent # <<>>
  <2>1. PICK m \in 1..Len(ToBuffers) : sent = Beginning(m)
    BY <1>4 DEF IInv, Sending, Beginning
  <2>2. m \in 0..Len(ToBuffers)
    BY <1>1, <1>2
  <2> QED
    BY <1>1, <1>2, <2>1, <2>2
<1> QED
  BY <1>3, <1>4

\* A client tells a reply that was cut off from a whole one, whatever the
\* content is.
THEOREM CutIsNoticedHolds == Spec => []CutIsNoticed
<1>1. IInv => CutIsNoticed
  <2> SUFFICES ASSUME IInv, phase = "sending"
               PROVE  Whole(sent) <=> sent = ToBuffers
    BY DEF CutIsNoticed
  <2>1. PICK m \in 0..Len(ToBuffers) : sent = Beginning(m)
    BY SentIsBeginning
  <2>2. Whole(Beginning(m)) <=> m = 15 + Len(content)
    BY SentIsBeginning, WholeLength
  <2>3. Beginning(m) = ToBuffers <=> m = Len(ToBuffers)
    BY SentIsBeginning, WholePrefix DEF Beginning
  <2> QED
    BY <2>1, <2>2, <2>3, SentIsBeginning
<1> QED
  BY <1>1, Invariance, PTL

\* The head of a whole reply is the reply's, and what follows it the content.
THEOREM ReceivedIsReplyHolds == Spec => []ReceivedIsReply
<1>1. IInv => ReceivedIsReply
  <2> SUFFICES ASSUME IInv, Whole(sent)
               PROVE  \E p \in 4..Len(sent) :
                        /\ HeadEnds(sent, p)
                        /\ SubSeq(sent, p + 1, Len(sent)) = content
                        /\ sent[1] = Text(status)
                        /\ HasHeader(sent, p, "Content-Type",
                                     Text(IF status = "ok" THEN type ELSE "text/html"))
    BY DEF ReceivedIsReply
  <2>1. phase = "sending"
    <3>1. sent # <<>>
      BY DEF Whole
    <3> QED
      BY <3>1 DEF IInv, Sending
  <2>2. sent = ToBuffers
    <3>1. PICK m \in 0..Len(ToBuffers) : sent = Beginning(m)
      BY <2>1, SentIsBeginning
    <3>2. Whole(Beginning(m)) <=> m = 15 + Len(content)
      BY <2>1, SentIsBeginning, WholeLength
    <3>3. Beginning(m) = ToBuffers <=> m = Len(ToBuffers)
      BY <2>1, SentIsBeginning, WholePrefix DEF Beginning
    <3> QED
      BY <2>1, <3>1, <3>2, <3>3, SentIsBeginning
  <2>3. sent = Beginning(Len(ToBuffers))
    <3>1. Len(ToBuffers) \in 0..Len(ToBuffers)
      BY <2>1, SentIsBeginning
    <3> QED
      BY <2>1, <2>2, <3>1, SentIsBeginning, WholePrefix DEF Beginning
  <2> DEFINE l == Len(ToBuffers)
  <2>4. l \in 0..l /\ l >= 15 /\ l = 15 + Len(content) /\ Len(sent) = l
    BY <2>1, <2>2, SentIsBeginning
  <2>5. HeadEnds(sent, 15)
    BY <2>1, <2>3, <2>4, SentIsBeginning, HeadEndsOnce
  <2>6. HasHeader(sent, 15, "Content-Type", Text(ReplyType))
    BY <2>1, <2>3, <2>4, SentIsBeginning, HeaderFound
  <2>7. sent[1] = Text(status)
    <3>1. \A k \in 1..l : k <= 15 => Beginning(l)[k] = ReplyHead[k]
      BY <2>1, <2>4, SentIsBeginning, BeginningLayout
    <3>2. ReplyHead[1] = Text(status)
      BY <2>1, SentIsBeginning, HeadLayout
    <3> QED
      BY <2>3, <2>4, <3>1, <3>2
  <2>8. SubSeq(sent, 16, l) = content
    <3>1. \A k \in 1..Len(content) : ToBuffers[15 + k] = content[k]
      BY <2>1, <2>4, SentIsBeginning, BeginningLayout
    <3>2. content \in Seq(Symbols) /\ sent \in Seq(Symbols) /\ Len(content) \in Nat
      BY <2>1, <2>2, SentIsBeginning, SymbolTypes
    <3>3. SubSeq(sent, 16, l) \in Seq(Symbols)
      BY <2>4, <3>2, SubSeqOfText
    <3>4. /\ Len(SubSeq(sent, 16, l)) = Len(content)
          /\ \A k \in 1..Len(content) : SubSeq(sent, 16, l)[k] = sent[15 + k]
      BY <2>4, <3>2
    <3>5. \A k \in 1..Len(content) : SubSeq(sent, 16, l)[k] = content[k]
      BY <2>2, <3>1, <3>4
    <3> QED
      BY <3>2, <3>3, <3>4, <3>5, SeqEqual
  <2>9. 15 \in 4..Len(sent) /\ 15 + 1 = 16
    BY <2>1, <2>4, SentIsBeginning
  <2>10. ReplyType = IF status = "ok" THEN type ELSE "text/html"
    BY DEF ReplyType
  <2> HIDE DEF l
  <2> QED
    BY <2>4, <2>5, <2>6, <2>7, <2>8, <2>9, <2>10
<1> QED
  BY <1>1, Invariance, PTL

=============================================================================
