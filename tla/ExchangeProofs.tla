--------------------------- MODULE ExchangeProofs ---------------------------
(***************************************************************************)
(* Theorems about Exchange for whatever a client sends: the invariants of  *)
(* the parser and of the handler, proved for each alone, hold when the one *)
(* feeds the other, and the handler's assumption about uris is the         *)
(* parser's invariant.                                                     *)
(***************************************************************************)
EXTENDS Exchange, SequenceTheorems, TLAPS

PP == INSTANCE RequestParserProofs

HP == INSTANCE RequestHandlerProofs WITH Uris <- Seq(P!TextChars \ {P!SP})

\* What Exchange takes from the components is what the proofs are about.
LEMMA SameParser ==
  /\ P!Init => PP!Init
  /\ P!Next => PP!Next
  /\ PP!TypeOK => P!TypeOK
<1>1. P!Init => PP!Init
  BY DEF P!Init, PP!Init
<1>2. P!consume => PP!consume
  BY DEF P!consume, PP!consume, P!Targets, PP!Targets, P!Moves, PP!Moves,
         P!InRequestLine, PP!InRequestLine, P!InHeaders, PP!InHeaders, P!Stored, PP!Stored,
         P!Headers, PP!Headers, P!AppendToLast, PP!AppendToLast, P!Version, PP!Version,
         P!Shifted, PP!Shifted, P!Method, PP!Method, P!RequestLineStates, PP!RequestLineStates,
         P!HeaderStates, PP!HeaderStates, P!IsToken, PP!IsToken, P!is_char, PP!is_char,
         P!is_ctl, PP!is_ctl, P!is_tspecial, PP!is_tspecial, P!is_digit, PP!is_digit,
         P!SP, PP!SP, P!TAB, PP!TAB, P!CR, PP!CR, P!LF, PP!LF
<1>3. ASSUME NEW n \in 1..BufferSize
      PROVE  P!ReadCompletes(n) => PP!ReadCompletes(n)
  BY DEF P!ReadCompletes, PP!ReadCompletes
<1>4. P!Next => PP!Next
  BY <1>2, <1>3 DEF P!Next, PP!Next
<1>5. PP!TypeOK => P!TypeOK
  BY DEF P!TypeOK, PP!TypeOK, P!Request, PP!Request, P!TokenChars, PP!TokenChars,
         P!TextChars, PP!TextChars, P!IntValues, PP!IntValues, P!Char, PP!Char, P!SP, PP!SP,
         P!RequestLineStates, PP!RequestLineStates, P!HeaderStates, PP!HeaderStates
<1> QED
  BY <1>1, <1>4, <1>5

LEMMA SameHandler ==
  /\ H!url_decode => HP!url_decode
  /\ H!handle_request => HP!handle_request
  /\ HP!TypeOK => H!TypeOK
  /\ HP!OpenedIsInside <=> H!OpenedIsInside
<1>1. H!url_decode => HP!url_decode
  BY DEF H!url_decode, HP!url_decode, H!Escape, HP!Escape, H!Values, HP!Values, H!Digit, HP!Digit,
         H!HexDigits, HP!HexDigits, H!AsChar, HP!AsChar, H!stock_reply, HP!stock_reply,
         H!PERCENT, HP!PERCENT, H!PLUS, HP!PLUS, H!MINUS, HP!MINUS
<1>2. H!handle_request => HP!handle_request
  BY DEF H!handle_request, HP!handle_request, H!Absolute, HP!Absolute, H!HasDots, HP!HasDots,
         H!WithIndex, HP!WithIndex, H!CStr, HP!CStr, H!Extension, HP!Extension,
         H!extension_to_type, HP!extension_to_type, H!mappings, HP!mappings, H!html, HP!html,
         H!stock_reply, HP!stock_reply, H!index_html, HP!index_html, H!SLASH, HP!SLASH,
         H!DOT, HP!DOT
<1>3. HP!TypeOK => H!TypeOK
  BY DEF H!TypeOK, HP!TypeOK, H!UriChars, HP!UriChars, H!Char, HP!Char
<1>4. HP!OpenedIsInside <=> H!OpenedIsInside
  BY DEF H!OpenedIsInside, HP!OpenedIsInside, H!HasDots, HP!HasDots, H!SLASH, HP!SLASH,
         H!DOT, HP!DOT
<1> QED
  BY <1>1, <1>2, <1>3, <1>4

\* The same for what they say of a text and of a uri.
LEMMA SameGrammar ==
  ASSUME NEW s
  PROVE  (PP!WellFormed(s) <=> P!WellFormed(s)) /\ PP!MethodAndUri(s) = P!MethodAndUri(s)
BY DEF P!WellFormed, PP!WellFormed, P!MethodAndUri, PP!MethodAndUri, P!LinesFit, PP!LinesFit,
       P!Ends, PP!Ends, P!EndsFirst, PP!EndsFirst, P!EndsNext, PP!EndsNext,
       P!IsHeaderLine, PP!IsHeaderLine, P!IsField, PP!IsField, P!IsContinuation, PP!IsContinuation,
       P!IsRequestLine, PP!IsRequestLine, P!BlanksAt, PP!BlanksAt, P!UriAt, PP!UriAt,
       P!IsVersion, PP!IsVersion, P!VersionAt, PP!VersionAt, P!Http, PP!Http,
       P!Token, PP!Token, P!Text, PP!Text, P!All, PP!All, P!None, PP!None,
       P!Separators, PP!Separators, P!Controls, PP!Controls, P!Digits, PP!Digits, P!Blanks, PP!Blanks

LEMMA SameMeaning ==
  ASSUME NEW s
  PROVE  /\ HP!ValidEncoding(s) <=> H!ValidEncoding(s)
         /\ HP!Decoded(s) = H!Decoded(s)
         /\ \A part : HP!HasPart(s, part) <=> H!HasPart(s, part)
         /\ HP!CStr(HP!WithIndex(s)) = H!CStr(H!WithIndex(s))
         /\ HP!SLASH = H!SLASH /\ HP!DOT = H!DOT
BY DEF H!ValidEncoding, HP!ValidEncoding, H!Decoded, HP!Decoded, H!Starts, HP!Starts,
       H!StandsFor, HP!StandsFor, H!Code, HP!Code, H!Rank, HP!Rank, H!Cardinality, HP!Cardinality, H!HasPart, HP!HasPart,
       H!CStr, HP!CStr, H!WithIndex, HP!WithIndex, H!index_html, HP!index_html,
       H!HexDigits, HP!HexDigits, H!Digit, HP!Digit, H!PERCENT, HP!PERCENT, H!PLUS, HP!PLUS,
       H!SLASH, HP!SLASH, H!DOT, HP!DOT

\* The assumptions of the components.
LEMMA Assumptions ==
  /\ Inputs \subseteq Seq(PP!Char) /\ BufferSize \in Nat \ {0} /\ Words \in Nat \ {0}
  /\ P!TextChars \ {P!SP} = HP!UriChars
  /\ PP!TextChars \ {PP!SP} = HP!UriChars
<1>1. Inputs \subseteq Seq(PP!Char)
  BY InputsAssumption DEF P!Char, PP!Char
<1>2. P!TextChars \ {P!SP} = HP!UriChars /\ PP!TextChars \ {PP!SP} = HP!UriChars
  BY DEF P!TextChars, PP!TextChars, HP!UriChars, P!Char, PP!Char, HP!Char, P!SP, PP!SP
<1> QED
  BY <1>1, <1>2, SizeAssumption

\* The handler is at its start while the request is read, and works on the uri
\* of a request that was accepted.
Handover ==
  /\ stage \in {"reading", "handling", "writing"}
  /\ stage = "writing" <=> status # "none"
  /\ stage = "reading" =>
       i = 0 /\ request_path = <<>> /\ full_path = <<>> /\ content_type = "none" /\ uri = <<>>
  /\ stage = "handling" \/ full_path # <<>> => result = "good" /\ uri = request.uri
  /\ stage = "writing" =>
       \/ result = "good" /\ uri = request.uri
       \/ result = "bad" /\ status = "bad_request" /\ full_path = <<>>

EInv == PP!IInv /\ HP!IInv /\ Handover

-----------------------------------------------------------------------------

LEMMA ParserStep ==
  ASSUME PP!IInv, P!Next
  PROVE  PP!IInv'
<1>1. CASE PP!consume
  BY <1>1, PP!ConsumeStep, Assumptions
<1>2. ASSUME NEW n \in 1..BufferSize, PP!ReadCompletes(n)
      PROVE  PP!IInv'
  BY <1>2, PP!ReadStep, Assumptions
<1> QED
  BY <1>1, <1>2, SameParser DEF PP!Next

LEMMA HandlerStep ==
  ASSUME HP!IInv, H!Next
  PROVE  HP!IInv'
<1>1. CASE H!url_decode
  BY <1>1, SameHandler, HP!DecodeStep, Assumptions
<1>2. CASE H!handle_request
  BY <1>2, SameHandler, HP!HandleStep, Assumptions
<1> QED
  BY <1>1, <1>2 DEF H!Next

LEMMA ParserKeeps == PP!IInv /\ UNCHANGED parser => PP!IInv'
BY DEF parser, PP!IInv, PP!TypeOK, PP!BackIsDefined, PP!LineSoFar, PP!Recognised

LEMMA HandlerKeeps == HP!IInv /\ UNCHANGED handler => HP!IInv'
BY DEF handler, HP!IInv, HP!TypeOK, HP!OpenedIsInside, HP!DecodedSoFar, HP!AnsweredByPath

\* The handler starts with any uri the parser may accept.
HandlerInit ==
  /\ uri \in Seq(HP!UriChars)
  /\ i = 0 /\ request_path = <<>> /\ status = "none" /\ full_path = <<>> /\ content_type = "none"

LEMMA HandlerStarts == HandlerInit => HP!IInv
BY HP!InitEstablishes, Assumptions DEF HandlerInit, HP!Init

LEMMA HandlerRestarts == HandlerInit' => HP!IInv'
BY HandlerStarts, PTL

THEOREM InitEstablishes == Init => EInv
<1> SUFFICES ASSUME Init
             PROVE  EInv
  OBVIOUS
<1>1. PP!IInv
  BY SameParser, PP!InitEstablishes, Assumptions DEF Init
<1>2. HP!IInv
  BY EmptySeq, HandlerStarts DEF Init, HandlerInit
<1>3. Handover
  BY DEF Init, Handover
<1> QED
  BY <1>1, <1>2, <1>3 DEF EInv

LEMMA ReadKeeps ==
  ASSUME EInv, Read
  PROVE  EInv'
<1>1. PP!IInv'
  BY ParserStep DEF EInv, Read
<1>2. HP!IInv'
  BY HandlerKeeps DEF EInv, Read
<1>3. Handover'
  BY DEF EInv, Handover, Read, handler
<1> QED
  BY <1>1, <1>2, <1>3 DEF EInv

LEMMA AcceptKeeps ==
  ASSUME EInv, Accept
  PROVE  EInv'
<1>1. PP!IInv'
  BY ParserKeeps DEF EInv, Accept
<1>2. uri' \in Seq(HP!UriChars)
  BY Assumptions DEF EInv, Accept, PP!IInv, PP!TypeOK, PP!Request
<1>3. HandlerInit
  BY DEF EInv, Handover, Accept, HandlerInit, HP!IInv, HP!TypeOK
<1>4. HP!IInv'
  BY <1>2, <1>3, HandlerRestarts DEF HandlerInit, Accept
<1>5. Handover'
  BY DEF EInv, Handover, Accept, parser
<1> QED
  BY <1>1, <1>4, <1>5 DEF EInv

LEMMA RefuseKeeps ==
  ASSUME EInv, Refuse
  PROVE  EInv'
<1>1. PP!IInv'
  BY ParserKeeps DEF EInv, Refuse
<1>2. HP!IInv'
  <2>1. /\ UNCHANGED <<uri, i, request_path, full_path>> /\ uri = <<>> /\ request_path = <<>> /\ i = 0
        /\ status' = "bad_request" /\ content_type' = "text/html"
    BY DEF EInv, Handover, Refuse, H!stock_reply
  <2>2. Len(uri) = 0
    BY <2>1
  <2>3. ~HP!Absolute(request_path)
    BY <2>1 DEF HP!Absolute
  <2>4. HP!TypeOK' /\ HP!OpenedIsInside'
    BY <2>1 DEF EInv, HP!IInv, HP!TypeOK, HP!OpenedIsInside
  <2>5. HP!DecodedSoFar'
    BY <2>1, <2>2 DEF EInv, HP!IInv, HP!DecodedSoFar
  <2>6. HP!AnsweredByPath'
    BY <2>1, <2>3 DEF EInv, HP!IInv, HP!AnsweredByPath
  <2> QED
    BY <2>4, <2>5, <2>6 DEF HP!IInv
<1>3. Handover'
  BY DEF EInv, Handover, Refuse, H!stock_reply, parser
<1> QED
  BY <1>1, <1>2, <1>3 DEF EInv

LEMMA HandleKeeps ==
  ASSUME EInv, Handle
  PROVE  EInv'
<1>1. PP!IInv'
  BY ParserKeeps DEF EInv, Handle
<1>2. HP!IInv'
  BY HandlerStep DEF EInv, Handle
<1>3. uri' = uri
  BY DEF Handle, H!Next, H!url_decode, H!handle_request
<1>4. Handover'
  BY <1>3 DEF EInv, Handover, Handle, parser
<1> QED
  BY <1>1, <1>2, <1>4 DEF EInv

THEOREM Invariance == Spec => []EInv
<1>1. EInv /\ UNCHANGED vars => EInv'
  BY ParserKeeps, HandlerKeeps DEF EInv, Handover, vars, parser, handler
<1>2. EInv /\ [Next]_vars => EInv'
  BY <1>1, ReadKeeps, AcceptKeeps, RefuseKeeps, HandleKeeps DEF Next
<1> QED
  BY <1>2, InitEstablishes, PTL DEF Spec

-----------------------------------------------------------------------------

\* The invariants of the parser and of the handler hold in every exchange.
THEOREM TypeCorrect == Spec => []TypeOK
<1>1. EInv => TypeOK
  BY SameParser, SameHandler DEF EInv, PP!IInv, HP!IInv, Handover, TypeOK
<1> QED
  BY <1>1, Invariance, PTL

\* Whatever a client sends, in whatever pieces, what is opened for it lies
\* below doc_root_, and only for a request that the parser has accepted.
THEOREM OpenedAlwaysInside == Spec => []OpenedIsInside
<1>1. EInv => OpenedIsInside
  BY SameHandler DEF EInv, HP!IInv, Handover, OpenedIsInside
<1> QED
  BY <1>1, Invariance, PTL

\* What is handled is what the client sent between two blanks.
THEOREM HandledAlwaysSent == Spec => []HandledIsSent
<1>1. EInv => HandledIsSent
  <2> SUFFICES ASSUME EInv, stage = "handling" \/ full_path # <<>>
               PROVE  /\ result = "good"
                      /\ \E m \in 1..Len(seen) :
                           /\ m + Len(uri) + 1 <= Len(seen)
                           /\ seen[m] = P!SP /\ seen[m + Len(uri) + 1] = P!SP
                           /\ \A k \in 1..Len(uri) : seen[m + k] = uri[k]
    BY DEF HandledIsSent
  <2>1. result = "good" /\ uri = request.uri
    BY DEF EInv, Handover
  <2> DEFINE l == Len(request.method)
  <2>2. /\ l + Len(uri) + 2 <= Len(seen)
        /\ \A k \in 1..Len(uri) : seen[l + 1 + k] = uri[k]
        /\ seen[l + 1] = PP!SP /\ seen[l + Len(uri) + 2] = PP!SP
    <3>1. state_ \notin {"method_start", "method", "uri"}
      BY <2>1 DEF EInv, PP!IInv, PP!HeaderStates
    <3> QED
      BY <2>1, <3>1 DEF EInv, PP!IInv, PP!LineSoFar
  <2>3. l \in Nat /\ Len(uri) \in Nat /\ Len(seen) \in Nat
    BY <2>1, LenProperties DEF EInv, PP!IInv, PP!TypeOK, PP!Request
  <2> HIDE DEF l
  <2>4. l + 1 \in 1..Len(seen) /\ (l + 1) + Len(uri) + 1 = l + Len(uri) + 2
    BY <2>2, <2>3
  <2>5. P!SP = PP!SP
    BY DEF P!SP, PP!SP
  <2> QED
    BY <2>1, <2>2, <2>4, <2>5
<1> QED
  BY <1>1, Invariance, PTL

\* Whatever a client sends, in whatever pieces, the answer fits its bytes: what
\* is not well-formed is refused, what is names its file by the uri in it.
THEOREM AnswerAlwaysFits == Spec => []AnswerFits
<1>1. EInv => AnswerFits
  <2> SUFFICES ASSUME EInv, stage = "writing" PROVE AnswerFits
    BY DEF AnswerFits
  <2>1. CASE result = "bad" /\ status = "bad_request" /\ full_path = <<>>
    <3>1. seen \in Seq(PP!Char) /\ \A t \in Seq(PP!Char) : ~PP!WellFormed(seen \o t)
      BY <2>1 DEF EInv, PP!IInv, PP!TypeOK, PP!Recognised
    <3>2. <<>> \in Seq(PP!Char) /\ seen \o <<>> = seen
      BY <3>1, EmptySeq, ConcatEmptySeq
    <3>3. ~P!WellFormed(seen)
      BY <3>1, <3>2, SameGrammar
    <3> QED
      BY <2>1, <3>3 DEF AnswerFits
  <2>2. CASE result = "good" /\ uri = request.uri
    <3>1. PP!WellFormed(seen) /\ uri = PP!MethodAndUri(seen).uri
      BY <2>2, Assumptions, PP!RequestLineTaken DEF EInv, PP!IInv, PP!Recognised
    <3>2. P!WellFormed(seen) /\ P!MethodAndUri(seen).uri = uri
      BY <3>1, SameGrammar
    <3>3. HP!ValidIsDecoded /\ HP!AnsweredByPath /\ status \in {"ok", "bad_request", "not_found"}
      BY HP!InvariantDecodes, Assumptions DEF EInv, HP!IInv, HP!TypeOK, Handover
    <3> DEFINE path == H!Decoded(uri)
    <3>4. ASSUME H!ValidEncoding(uri)
          PROVE  /\ status = "bad_request" <=>
                      path = <<>> \/ path[1] # H!SLASH \/ H!HasPart(path, <<H!DOT, H!DOT>>)
                 /\ status # "bad_request" => full_path = H!CStr(H!WithIndex(path))
      <4>1. HP!ValidEncoding(uri) /\ HP!Decoded(uri) = path
        BY <3>4, SameMeaning
      <4>2. /\ request_path = path
            /\ status = "bad_request" <=>
                 path = <<>> \/ path[1] # HP!SLASH \/ HP!HasPart(path, <<HP!DOT, HP!DOT>>)
        BY <3>3, <4>1 DEF HP!ValidIsDecoded
      <4>3. status # "bad_request" => full_path = HP!CStr(HP!WithIndex(path))
        BY <3>3, <4>2 DEF HP!AnsweredByPath
      <4> HIDE DEF path
      <4> QED
        BY <4>2, <4>3, SameMeaning
    <3> QED
      BY <3>2, <3>4 DEF AnswerFits
  <2> QED
    BY <2>1, <2>2 DEF EInv, Handover
<1> QED
  BY <1>1, Invariance, PTL

=============================================================================
