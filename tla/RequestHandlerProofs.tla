------------------------ MODULE RequestHandlerProofs ------------------------
(***************************************************************************)
(* Theorems about RequestHandler for every set of uris.                    *)
(***************************************************************************)
EXTENDS RequestHandler, SequenceTheorems, FiniteSetTheorems, WellFoundedInduction, TLAPS

\* A set of numbers that is not empty has a smallest one.
LEMMA Smallest ==
  ASSUME NEW T \in SUBSET Nat, T # {}
  PROVE  \E k \in T : \A j \in T : k <= j
<1>1. PICK k \in T : \A j \in T : ~ (<<j, k>> \in OpToRel(<, Nat))
  BY WFMin, NatLessThanWellFounded
<1>2. \A j \in T : ~ (j < k)
  BY <1>1 DEF OpToRel
<1> QED
  BY <1>2

-----------------------------------------------------------------------------
Types == {"none", "image/gif", "text/html", "image/jpeg", "image/png", "text/plain"}

LEMMA AsCharType ==
  ASSUME NEW n \in Int
  PROVE  AsChar(n) \in Char
<1>1. (n + 128) % 256 \in 0..255
  OBVIOUS
<1> QED
  BY <1>1 DEF AsChar, Char

\* An escape is complete where it has a value, and the value is a number.
LEMMA EscapeType ==
  ASSUME NEW s \in Seq(UriChars), NEW k \in 1..Len(s), NEW v \in Escape(s, k)
  PROVE  k + 2 <= Len(s) /\ v \in Int
<1>1. k + 2 <= Len(s) /\ v \in Values(s[k + 1], s[k + 2])
  BY DEF Escape
<1>2. s[k + 1] \in Int /\ s[k + 2] \in Int
  <2>1. k + 1 \in 1..Len(s) /\ k + 2 \in 1..Len(s)
    BY <1>1, LenProperties
  <2>2. s[k + 1] \in UriChars /\ s[k + 2] \in UriChars
    BY <2>1, ElementOfSeq
  <2>3. \A x \in UriChars : x \in Int
    BY DEF UriChars, Char
  <2> QED
    BY <2>2, <2>3, Zenon
<1>3. \A c \in Int : Digit(c) \in Int
  BY DEF Digit
<1> QED
  BY <1>1, <1>2, <1>3 DEF Values

LEMMA MimeType ==
  ASSUME NEW extension
  PROVE  extension_to_type(extension) \in Types
<1>1. CASE \E m \in mappings : m[1] = extension
  <2>1. (CHOOSE m \in mappings : m[1] = extension) \in mappings
    BY <1>1
  <2>2. \A m \in mappings : m[2] \in Types
    BY DEF mappings, Types
  <2> HIDE DEF mappings
  <2> QED
    BY <1>1, <2>1, <2>2, Zenon DEF extension_to_type
<1>2. CASE ~ \E m \in mappings : m[1] = extension
  BY <1>2, Zenon DEF extension_to_type, Types
<1> QED
  BY <1>1, <1>2

-----------------------------------------------------------------------------
(* Names below doc_root_ *)

\* The name of the index puts no two dots in a row.
LEMMA IndexKeepsInside ==
  ASSUME NEW path \in Seq(Char), Absolute(path), ~HasDots(path)
  PROVE  /\ WithIndex(path) \in Seq(Char)
         /\ Absolute(WithIndex(path)) /\ ~HasDots(WithIndex(path))
<1> DEFINE n == Len(path)
           full == path \o index_html
<1>0. n \in Nat \ {0}
  BY EmptySeq DEF Absolute
<1>1. CASE path[n] = SLASH
  <2>1. /\ index_html \in Seq(Char) /\ Len(index_html) = 10
        /\ index_html[1] # DOT
        /\ \A k \in 1..9 : ~(index_html[k] = DOT /\ index_html[k + 1] = DOT)
    BY DEF index_html, Char, DOT
  <2>2. /\ full \in Seq(Char) /\ Len(full) = n + 10
        /\ \A k \in 1..n + 10 : full[k] = IF k <= n THEN path[k] ELSE index_html[k - n]
    <3>1. /\ path \o index_html \in Seq(Char)
          /\ Len(path \o index_html) = Len(path) + Len(index_html)
          /\ \A k \in 1..Len(path) + Len(index_html) :
               (path \o index_html)[k] = IF k <= Len(path) THEN path[k] ELSE index_html[k - Len(path)]
      BY <2>1, ConcatProperties
    <3> QED
      BY <2>1, <3>1
  <2>3. WithIndex(path) = full
    BY <1>1 DEF WithIndex
  <2> HIDE DEF full
  <2>4. full # <<>> /\ full[1] = SLASH
    BY <1>0, <2>2, EmptySeq DEF Absolute
  <2>5. ASSUME NEW k \in 1..Len(full) - 1, full[k] = DOT, full[k + 1] = DOT
        PROVE  FALSE
    <3>1. CASE k < n
      BY <1>0, <2>2, <2>5, <3>1 DEF HasDots
    <3>2. CASE k = n
      BY <1>0, <1>1, <2>2, <2>5, <3>2 DEF DOT, SLASH
    <3>3. CASE k > n
      <4>1. k - n \in 1..9 /\ (k + 1) - n = (k - n) + 1
        BY <1>0, <2>2, <3>3
      <4>2. full[k] = index_html[k - n] /\ full[k + 1] = index_html[(k - n) + 1]
        BY <1>0, <2>2, <3>3, <4>1
      <4> QED
        BY <2>1, <2>5, <4>1, <4>2
    <3> QED
      BY <1>0, <3>1, <3>2, <3>3
  <2> QED
    BY <2>2, <2>3, <2>4, <2>5 DEF Absolute, HasDots
<1>2. CASE path[n] # SLASH
  BY <1>2 DEF WithIndex
<1> QED
  BY <1>1, <1>2

\* Where c_str() cuts a name off.
IsCut(path, n) ==
  /\ \A k \in 1..n : path[k] # 0
  /\ n = Len(path) \/ path[n + 1] = 0
  /\ CStr(path) = SubSeq(path, 1, n)

LEMMA CutAt ==
  ASSUME NEW path \in Seq(Char)
  PROVE  \E n \in 0..Len(path) : IsCut(path, n)
<1> DEFINE Cut(n) == /\ \A k \in 1..n : path[k] # 0
                     /\ n = Len(path) \/ path[n + 1] = 0
           T == {k \in 1..Len(path) : path[k] = 0}
<1>0. Len(path) \in Nat
  BY LenProperties
<1>1. \E n \in 0..Len(path) : Cut(n)
  <2>1. CASE T = {}
    BY <1>0, <2>1
  <2>2. CASE T # {}
    <3>0. T \in SUBSET Nat
      BY <1>0
    <3>1. PICK k \in T : \A j \in T : k <= j
      <4> HIDE DEF T
      <4> QED
        BY <3>0, <2>2, Smallest
    <3>2. k - 1 \in 0..Len(path) /\ path[(k - 1) + 1] = 0
      BY <1>0, <3>1
    <3>3. \A j \in 1..k - 1 : path[j] # 0
      BY <1>0, <3>1
    <3> QED
      BY <3>2, <3>3
  <2> QED
    BY <2>1, <2>2
<1> QED
  BY <1>1 DEF CStr, IsCut

\* Nor does cutting a name off put two dots in a row.
LEMMA CutKeepsInside ==
  ASSUME NEW path \in Seq(Char), Absolute(path), ~HasDots(path)
  PROVE  /\ CStr(path) \in Seq(Char)
         /\ Absolute(CStr(path)) /\ ~HasDots(CStr(path))
<1>0. Len(path) \in Nat \ {0}
  BY EmptySeq DEF Absolute
<1>2. PICK n \in 0..Len(path) : IsCut(path, n)
  BY CutAt
<1>3. n # 0
  BY <1>0, <1>2 DEF Absolute, SLASH, IsCut
<1>4. \A k \in 1..n : path[k] \in Char
  BY <1>0, ElementOfSeq
<1>5. /\ CStr(path) \in Seq(Char) /\ Len(CStr(path)) = n
      /\ \A k \in 1..n : CStr(path)[k] = path[k]
  BY <1>0, <1>2, <1>3, <1>4, SubSeqProperties DEF IsCut
<1> QED
  BY <1>0, <1>3, <1>5, EmptySeq DEF Absolute, HasDots

-----------------------------------------------------------------------------
(* The type of a file *)

\* Only a name with a null character is cut off.
LEMMA UncutHasNoNull ==
  ASSUME NEW path \in Seq(Char)
  PROVE  CStr(path) = path <=> \A k \in 1..Len(path) : path[k] # 0
<1>0. Len(path) \in Nat
  BY LenProperties
<1>1. PICK n \in 0..Len(path) : IsCut(path, n)
  BY CutAt
<1>2. \A k \in 1..n : path[k] \in Char
  BY <1>0, ElementOfSeq
<1>3. Len(CStr(path)) = n
  BY <1>0, <1>1, <1>2, SubSeqProperties DEF IsCut
<1>4. n = Len(path) => CStr(path) = path
  BY <1>1, SubSeqFull DEF IsCut
<1>5. n # Len(path) => n + 1 \in 1..Len(path) /\ path[n + 1] = 0
  BY <1>0, <1>1 DEF IsCut
<1> QED
  BY <1>0, <1>1, <1>3, <1>4, <1>5 DEF IsCut

\* The name of the index brings no null character.
LEMMA IndexUncut ==
  ASSUME NEW path \in Seq(Char), path # <<>>, CStr(path) = path
  PROVE  WithIndex(path) \in Seq(Char) /\ CStr(WithIndex(path)) = WithIndex(path)
<1>1. CASE path[Len(path)] = SLASH
  <2>1. /\ index_html \in Seq(Char) /\ Len(index_html) = 10
        /\ \A k \in 1..10 : index_html[k] # 0
    BY DEF index_html, Char
  <2>2. WithIndex(path) = path \o index_html
    BY <1>1 DEF WithIndex
  <2>3. /\ path \o index_html \in Seq(Char)
        /\ Len(path \o index_html) = Len(path) + 10
        /\ \A k \in 1..Len(path) + 10 :
             (path \o index_html)[k] = IF k <= Len(path) THEN path[k] ELSE index_html[k - Len(path)]
    <3>1. /\ path \o index_html \in Seq(Char)
          /\ Len(path \o index_html) = Len(path) + Len(index_html)
          /\ \A k \in 1..Len(path) + Len(index_html) :
               (path \o index_html)[k] = IF k <= Len(path) THEN path[k] ELSE index_html[k - Len(path)]
      BY <2>1, ConcatProperties
    <3> QED
      BY <2>1, <3>1
  <2>4. \A k \in 1..Len(path) : path[k] # 0
    BY UncutHasNoNull
  <2>5. Len(path) \in Nat
    BY LenProperties
  <2>6. ASSUME NEW k \in 1..Len(path) + 10
        PROVE  (path \o index_html)[k] # 0
    <3>1. CASE k <= Len(path)
      BY <2>3, <2>4, <2>5, <3>1
    <3>2. CASE ~(k <= Len(path))
      <4>1. k - Len(path) \in 1..10
        BY <2>5, <3>2
      <4> QED
        BY <2>1, <2>3, <3>2, <4>1
    <3> QED
      BY <3>1, <3>2
  <2> QED
    BY <2>2, <2>3, <2>6, UncutHasNoNull
<1>2. CASE path[Len(path)] # SLASH
  BY <1>2 DEF WithIndex
<1> QED
  BY <1>1, <1>2

\* An extension that has neither a dot nor a slash is found exactly if the name
\* ends with a dot and it.
LEMMA ExtensionIsSuffix ==
  ASSUME NEW path \in Seq(Char), NEW ext \in Seq(Char), ext # <<>>,
         \A k \in 1..Len(ext) : ext[k] # DOT /\ ext[k] # SLASH
  PROVE  EndsWith(path, <<DOT>> \o ext) <=> Extension(path) = ext
<1> DEFINE n == Len(path)
           Last(d) == path[d] = DOT /\ \A k \in d + 1..n : path[k] # DOT
<1>0. n \in Nat /\ Len(ext) \in Nat \ {0}
  BY LenProperties, EmptySeq
<1>1. /\ <<DOT>> \o ext \in Seq(Char) /\ Len(<<DOT>> \o ext) = 1 + Len(ext)
      /\ \A j \in 1..1 + Len(ext) : (<<DOT>> \o ext)[j] = IF j <= 1 THEN DOT ELSE ext[j - 1]
  <2>1. <<DOT>> \in Seq(Char) /\ Len(<<DOT>>) = 1 /\ <<DOT>>[1] = DOT
    BY DEF DOT, Char
  <2>2. \A j \in 1..1 + Len(ext) : j <= 1 => j = 1
    BY <1>0
  <2> QED
    BY <2>1, <2>2, ConcatProperties
<1>2. ASSUME NEW d \in 1..n
      PROVE  /\ SubSeq(path, d, n) \in Seq(Char) /\ Len(SubSeq(path, d, n)) = n - d + 1
             /\ \A j \in 1..n - d + 1 : SubSeq(path, d, n)[j] = path[d + j - 1]
  <2>1. \A k \in d..n : path[k] \in Char
    BY <1>0, ElementOfSeq
  <2> QED
    BY <1>0, <2>1, SubSeqProperties
<1>3. ASSUME NEW d \in 1..n, Last(d), NEW e \in 1..n, Last(e)
      PROVE  d = e
  BY <1>0, <1>3
<1>4. ASSUME EndsWith(path, <<DOT>> \o ext)
      PROVE  Extension(path) = ext
  <2>1. PICK d \in 1..n : SubSeq(path, d, n) = <<DOT>> \o ext
    BY <1>4 DEF EndsWith
  <2>2. n - d = Len(ext)
    BY <1>0, <1>1, <1>2, <2>1
  <2>3. path[d] = DOT
    BY <1>0, <1>1, <1>2, <2>1, <2>2
  <2>4. ASSUME NEW k \in d + 1..n
        PROVE  k - d \in 1..Len(ext) /\ path[k] = ext[k - d]
    <3>1. k - d \in 1..Len(ext) /\ k - d + 1 \in 2..1 + Len(ext)
      BY <1>0, <2>2
    <3>2. path[k] = SubSeq(path, d, n)[k - d + 1]
      <4>1. d + (k - d + 1) - 1 = k /\ k - d + 1 \in 1..n - d + 1
        BY <1>0
      <4> QED
        BY <1>2, <4>1
    <3>3. (<<DOT>> \o ext)[k - d + 1] = ext[k - d]
      BY <1>0, <1>1, <3>1
    <3> QED
      BY <2>1, <3>1, <3>2, <3>3
  <2>5. Last(d) /\ \A k \in d + 1..n : path[k] # SLASH
    BY <2>3, <2>4
  <2>6. d = CHOOSE e \in 1..n : Last(e)
    BY <1>3, <2>5
  <2>7. Extension(path) = SubSeq(path, d + 1, n)
    BY <2>3, <2>5, <2>6 DEF Extension
  <2>8. d + 1 \in 1..n
    BY <1>0, <2>2
  <2>9. ASSUME NEW j \in 1..Len(ext)
        PROVE  SubSeq(path, d + 1, n)[j] = ext[j]
    <3>1. j \in 1..n - (d + 1) + 1 /\ (d + 1) + j - 1 = d + j
      BY <1>0, <2>2
    <3>2. SubSeq(path, d + 1, n)[j] = path[d + j]
      BY <1>2, <2>8, <3>1
    <3>3. d + j \in d + 1..n /\ (d + j) - d = j
      BY <1>0, <2>2
    <3> QED
      BY <2>4, <3>2, <3>3
  <2>10. SubSeq(path, d + 1, n) \in Seq(Char) /\ Len(SubSeq(path, d + 1, n)) = Len(ext)
    BY <1>0, <1>2, <2>2, <2>8
  <2> QED
    BY <2>7, <2>9, <2>10, SeqEqual
<1>5. ASSUME Extension(path) = ext
      PROVE  EndsWith(path, <<DOT>> \o ext)
  <2> DEFINE T == {k \in 0..n - 1 : path[n - k] = DOT}
  <2>1. \E d \in 1..n : path[d] = DOT
    BY <1>5 DEF Extension
  <2>2. T \in SUBSET Nat /\ T # {}
    <3>1. PICK d \in 1..n : path[d] = DOT
      BY <2>1
    <3>2. n - d \in 0..n - 1 /\ n - (n - d) = d
      BY <1>0
    <3>3. n - d \in T
      BY <3>1, <3>2
    <3>4. 0..n - 1 \subseteq Nat
      BY <1>0
    <3> QED
      BY <3>3, <3>4
  <2>3. PICK k \in T : \A j \in T : k <= j
    <3> HIDE DEF T
    <3> QED
      BY <2>2, Smallest
  <2>4. n - k \in 1..n /\ Last(n - k)
    <3>1. n - k \in 1..n /\ path[n - k] = DOT
      BY <1>0, <2>3
    <3>2. ASSUME NEW e \in n - k + 1..n, path[e] = DOT
          PROVE  FALSE
      <4>1. n - e \in T /\ n - e < k
        BY <1>0, <2>3, <3>2
      <4> QED
        BY <1>0, <2>3, <4>1
    <3> QED
      BY <3>1, <3>2
  <2> DEFINE last == CHOOSE d \in 1..n : Last(d)
  <2>5. last \in 1..n /\ Last(last)
    BY <2>4
  <2>6. ext = SubSeq(path, last + 1, n)
    BY <1>5 DEF Extension
  <2> HIDE DEF last
  <2>7. SubSeq(path, last, n) = <<DOT>> \o ext
    BY <1>0, <2>5, <2>6, SubSeqRecursiveFirst
  <2> QED
    BY <2>5, <2>7 DEF EndsWith
<1> QED
  BY <1>4, <1>5

\* The table of types has one type for an extension.
TypeFor(extension) ==
  IF extension[1] = 103 THEN "image/gif"
  ELSE IF extension[1] = 104 THEN "text/html"
  ELSE IF extension[2] = 112 THEN "image/jpeg" ELSE "image/png"

LEMMA Mappings ==
  ASSUME NEW m \in mappings
  PROVE  /\ m[1] \in Seq(Char) /\ m[1] # <<>>
         /\ \A k \in 1..Len(m[1]) : m[1][k] # DOT /\ m[1][k] # SLASH
         /\ m[2] = TypeFor(m[1])
<1>1. CASE m = <<<<103, 105, 102>>, "image/gif">>
  BY <1>1 DEF TypeFor, Char, DOT, SLASH
<1>2. CASE m = <<<<104, 116, 109>>, "text/html">>
  BY <1>2 DEF TypeFor, Char, DOT, SLASH
<1>3. CASE m = <<html, "text/html">>
  BY <1>3 DEF TypeFor, Char, DOT, SLASH, html
<1>4. CASE m = <<<<106, 112, 103>>, "image/jpeg">>
  BY <1>4 DEF TypeFor, Char, DOT, SLASH
<1>5. CASE m = <<<<112, 110, 103>>, "image/png">>
  BY <1>5 DEF TypeFor, Char, DOT, SLASH
<1> QED
  BY <1>1, <1>2, <1>3, <1>4, <1>5 DEF mappings

\* The type found by what follows the last dot is the type of the mapping whose
\* extension the name ends with.
LEMMA TypeBySuffix ==
  ASSUME NEW path \in Seq(Char)
  PROVE  LET named == {m \in mappings : EndsWith(path, <<DOT>> \o m[1])}
         IN  {extension_to_type(Extension(path))} =
               IF named = {} THEN {"text/plain"} ELSE {m[2] : m \in named}
<1> DEFINE named == {m \in mappings : EndsWith(path, <<DOT>> \o m[1])}
           found == {m \in mappings : m[1] = Extension(path)}
<1>1. named = found
  BY Mappings, ExtensionIsSuffix
<1>2. CASE found = {}
  BY <1>1, <1>2 DEF extension_to_type
<1>3. CASE found # {}
  <2>1. extension_to_type(Extension(path)) = (CHOOSE m \in mappings : m[1] = Extension(path))[2]
    BY <1>3 DEF extension_to_type
  <2>2. PICK c \in found : extension_to_type(Extension(path)) = c[2]
    BY <1>3, <2>1
  <2>3. \A m \in found : m[2] = TypeFor(Extension(path))
    BY Mappings
  <2>4. {m[2] : m \in found} = {TypeFor(Extension(path))}
    BY <2>2, <2>3
  <2>5. extension_to_type(Extension(path)) = TypeFor(Extension(path))
    BY <2>2, <2>3
  <2> QED
    BY <1>1, <1>3, <2>4, <2>5
<1> QED
  BY <1>2, <1>3

-----------------------------------------------------------------------------
(* What a uri stands for *)

\* The characters that begin in the first j places.
Begun(s, j) == {q \in Starts(s) : q <= j}

\* path is what those characters stand for.
DecodesUpTo(s, j, path) ==
  /\ Len(path) = Cardinality(Begun(s, j))
  /\ \A p \in Begun(s, j) : path[Rank(s, p)] = StandsFor(s, p)
  /\ \A k \in 1..Len(path) : \E p \in Begun(s, j) : Rank(s, p) = k

LEMMA BegunFinite ==
  ASSUME NEW s \in Seq(UriChars), NEW j \in Int
  PROVE  /\ IsFiniteSet(Begun(s, j)) /\ Cardinality(Begun(s, j)) \in Nat
         /\ Begun(s, j) \subseteq 1..Len(s)
<1>1. Len(s) \in Nat
  BY LenProperties
<1>2. IsFiniteSet(1..Len(s))
  BY <1>1, FS_Interval
<1>3. Begun(s, j) \subseteq 1..Len(s)
  BY DEF Begun, Starts
<1> QED
  BY <1>2, <1>3, FS_Subset, FS_CardinalityType

\* Characters are counted from one, up to how many have begun.
LEMMA RankBounds ==
  ASSUME NEW s \in Seq(UriChars), NEW j \in Int, NEW p \in Begun(s, j)
  PROVE  Rank(s, p) \in 1..Cardinality(Begun(s, j))
<1>1. p \in Int /\ p <= j
  BY BegunFinite DEF Begun, Starts
<1>2. Rank(s, p) = Cardinality(Begun(s, p))
  BY DEF Rank, Begun
<1>3. Begun(s, p) \subseteq Begun(s, j)
  BY <1>1 DEF Begun, Starts
<1>4. IsFiniteSet(Begun(s, p)) /\ IsFiniteSet(Begun(s, j))
  BY <1>1, BegunFinite
<1>5. Cardinality(Begun(s, p)) <= Cardinality(Begun(s, j))
  BY <1>3, <1>4, FS_Subset
<1>6. p \in Begun(s, p)
  BY <1>1 DEF Begun
<1>7. Cardinality(Begun(s, p)) # 0
  BY <1>4, <1>6, FS_EmptySet
<1> QED
  BY <1>1, <1>2, <1>5, <1>7, BegunFinite

\* One more character is decoded.
LEMMA DecodesOneMore ==
  ASSUME NEW s \in Seq(UriChars), NEW j \in 0..Len(s) - 1, NEW e \in j + 1..Len(s),
         j + 1 \in Starts(s), \A q \in j + 2..e : q \notin Starts(s),
         NEW path \in Seq(Char), DecodesUpTo(s, j, path), StandsFor(s, j + 1) \in Char
  PROVE  DecodesUpTo(s, e, Append(path, StandsFor(s, j + 1)))
<1> DEFINE b == j + 1
           more == Append(path, StandsFor(s, b))
<1>0. Len(s) \in Nat /\ Len(path) \in Nat /\ j \in Int /\ e \in Int
  BY LenProperties
<1>1. Begun(s, e) = Begun(s, j) \cup {b} /\ Begun(s, b) = Begun(s, e) /\ b \notin Begun(s, j)
  <2>1. \A q \in Starts(s) : q \in Int
    BY <1>0 DEF Starts
  <2> QED
    BY <1>0, <2>1 DEF Begun
<1>2. Cardinality(Begun(s, e)) = Cardinality(Begun(s, j)) + 1
  BY <1>0, <1>1, BegunFinite, FS_AddElement
<1>3. Rank(s, b) = Len(path) + 1
  BY <1>1, <1>2 DEF Rank, Begun, DecodesUpTo
<1>4. /\ Len(more) = Len(path) + 1 /\ more[Len(path) + 1] = StandsFor(s, b)
      /\ \A k \in 1..Len(path) : more[k] = path[k]
  <2>1. /\ Len(Append(path, StandsFor(s, b))) = Len(path) + 1
        /\ Append(path, StandsFor(s, b))[Len(path) + 1] = StandsFor(s, b)
        /\ \A k \in 1..Len(path) : Append(path, StandsFor(s, b))[k] = path[k]
    BY AppendProperties
  <2> QED
    BY <2>1
<1> HIDE DEF more, b
<1>5. ASSUME NEW p \in Begun(s, e)
      PROVE  more[Rank(s, p)] = StandsFor(s, p)
  <2>1. CASE p = b
    BY <1>3, <1>4, <2>1
  <2>2. CASE p \in Begun(s, j)
    <3>1. Rank(s, p) \in 1..Len(path)
      BY <1>0, <2>2, RankBounds DEF DecodesUpTo
    <3> QED
      BY <1>4, <2>2, <3>1 DEF DecodesUpTo
  <2> QED
    BY <1>1, <2>1, <2>2
<1>6. ASSUME NEW k \in 1..Len(more)
      PROVE  \E p \in Begun(s, e) : Rank(s, p) = k
  <2>1. CASE k = Len(path) + 1
    BY <1>1, <1>3, <2>1
  <2>2. CASE k \in 1..Len(path)
    BY <1>1, <2>2 DEF DecodesUpTo
  <2> QED
    BY <1>0, <1>4, <2>1, <2>2
<1>7. Len(more) = Cardinality(Begun(s, e))
  BY <1>2, <1>4 DEF DecodesUpTo
<1>8. DecodesUpTo(s, e, more)
  BY <1>5, <1>6, <1>7 DEF DecodesUpTo
<1> QED
  BY <1>8 DEF more, b

\* What has been decoded to the end is the meaning of the uri.
LEMMA DecodesAll ==
  ASSUME NEW s \in Seq(UriChars), NEW path \in Seq(Char), DecodesUpTo(s, Len(s), path)
  PROVE  path = Decoded(s)
<1>0. Len(s) \in Nat /\ Len(path) \in Nat
  BY LenProperties
<1>1. Begun(s, Len(s)) = Starts(s)
  BY <1>0 DEF Begun, Starts
<1>2. ASSUME NEW k \in 1..Len(path)
      PROVE  path[k] = StandsFor(s, CHOOSE p \in Starts(s) : Rank(s, p) = k)
  <2> DEFINE c == CHOOSE p \in Starts(s) : Rank(s, p) = k
  <2>1. c \in Starts(s) /\ Rank(s, c) = k
    BY <1>1 DEF DecodesUpTo
  <2> HIDE DEF c
  <2>2. path[k] = StandsFor(s, c)
    BY <1>1, <2>1 DEF DecodesUpTo
  <2> QED
    BY <2>2 DEF c
<1>3. path = [k \in 1..Len(path) |-> path[k]]
  BY LenProperties
<1>4. Len(path) = Cardinality(Starts(s))
  BY <1>1 DEF DecodesUpTo
<1> QED
  BY <1>2, <1>3, <1>4 DEF Decoded

\* A character that is no escape stands alone.
LEMMA PlainNext ==
  ASSUME NEW s \in Seq(UriChars), NEW p \in Starts(s), s[p] # PERCENT, p + 1 <= Len(s)
  PROVE  p + 1 \in Starts(s)
BY LenProperties DEF Starts

\* A valid escape has one value, the character it stands for, and the next
\* character begins behind its digits.
LEMMA EscapeNext ==
  ASSUME NEW s \in Seq(UriChars), ValidEncoding(s), NEW p \in Starts(s), s[p] = PERCENT
  PROVE  /\ p + 2 <= Len(s)
         /\ Escape(s, p) = {Code(s, p)} /\ AsChar(Code(s, p)) = StandsFor(s, p)
         /\ p + 1 \notin Starts(s) /\ p + 2 \notin Starts(s)
         /\ p + 3 <= Len(s) => p + 3 \in Starts(s)
<1>0. p \in 1..Len(s) /\ Len(s) \in Nat /\ DOMAIN s = 1..Len(s)
  BY LenProperties DEF Starts
<1>1. p + 2 <= Len(s) /\ s[p + 1] \in HexDigits /\ s[p + 2] \in HexDigits
  BY <1>0 DEF ValidEncoding
<1>2. Escape(s, p) = {Code(s, p)}
  BY <1>1 DEF Escape, Values, Code
<1>3. \A c \in HexDigits : Digit(c) \in 0..15 /\ c # PERCENT
  BY DEF HexDigits, Digit, PERCENT
<1>4. Code(s, p) \in 0..255
  <2>1. Digit(s[p + 1]) \in 0..15 /\ Digit(s[p + 2]) \in 0..15
    BY <1>1, <1>3
  <2>2. \A a, b \in 0..15 : 16 * a + b \in 0..255
    OBVIOUS
  <2> QED
    BY <2>1, <2>2, Zenon DEF Code
<1>5. AsChar(Code(s, p)) = StandsFor(s, p)
  <2>1. \A n \in 0..255 : AsChar(n) = IF n > 127 THEN n - 256 ELSE n
    BY DEF AsChar
  <2> QED
    BY <1>4, <2>1 DEF StandsFor
<1>6. p + 1 \notin Starts(s) /\ p + 2 \notin Starts(s)
  BY <1>0, <1>1 DEF Starts
<1>7. s[p + 1] # PERCENT /\ s[p + 2] # PERCENT
  BY <1>1, <1>3
<1>8. p + 3 <= Len(s) => p + 3 \in Starts(s)
  BY <1>0, <1>7 DEF Starts
<1> QED
  BY <1>1, <1>2, <1>5, <1>6, <1>8

\* Two dots in a row, said as HasDots says it and as HasPart does.
LEMMA DotsArePart ==
  ASSUME NEW path \in Seq(Char)
  PROVE  HasDots(path) <=> HasPart(path, <<DOT, DOT>>)
<1>0. Len(path) \in Nat /\ Len(<<DOT, DOT>>) = 2
  BY LenProperties
<1>1. ASSUME NEW k \in 1..Len(path) - 1
      PROVE  SubSeq(path, k, k + 1) = <<DOT, DOT>> <=> path[k] = DOT /\ path[k + 1] = DOT
  <2>1. /\ SubSeq(path, k, k + 1) \in Seq(Char) /\ Len(SubSeq(path, k, k + 1)) = 2
        /\ SubSeq(path, k, k + 1)[1] = path[k] /\ SubSeq(path, k, k + 1)[2] = path[k + 1]
    <3>1. \A j \in k..k + 1 : path[j] \in Char
      BY <1>0, ElementOfSeq
    <3> QED
      BY <1>0, <3>1, SubSeqProperties
  <2>2. <<DOT, DOT>> \in Seq(Char)
    BY DEF DOT, Char
  <2>3. path[k] = DOT /\ path[k + 1] = DOT => SubSeq(path, k, k + 1) = <<DOT, DOT>>
    <3> HAVE path[k] = DOT /\ path[k + 1] = DOT
    <3>1. \A j \in 1..2 : SubSeq(path, k, k + 1)[j] = <<DOT, DOT>>[j]
      BY <2>1
    <3> QED
      BY <1>0, <2>1, <2>2, <3>1, SeqEqual
  <2>4. SubSeq(path, k, k + 1) = <<DOT, DOT>> => path[k] = DOT /\ path[k + 1] = DOT
    <3> HAVE SubSeq(path, k, k + 1) = <<DOT, DOT>>
    <3>0. <<DOT, DOT>>[1] = DOT /\ <<DOT, DOT>>[2] = DOT
      OBVIOUS
    <3>1. SubSeq(path, k, k + 1)[1] = DOT /\ SubSeq(path, k, k + 1)[2] = DOT
      BY <3>0, Zenon
    <3> QED
      BY <2>1, <3>1, Zenon
  <2> QED
    BY <2>3, <2>4
<1>2. \A k \in 1..Len(path) - 1 : k + 2 - 1 = k + 1
  OBVIOUS
<1> QED
  BY <1>0, <1>1, <1>2 DEF HasDots, HasPart

-----------------------------------------------------------------------------

\* What url_decode has made of a valid uri so far, and where it stands: at the
\* beginning of a character.
DecodedSoFar ==
  ValidEncoding(uri) =>
    /\ DecodesUpTo(uri, i, request_path)
    /\ i < Len(uri) => status = "none" /\ i + 1 \in Starts(uri)

\* What handle_request has answered, by the path.
AnsweredByPath ==
  /\ ValidEncoding(uri) /\ status # "none" =>
       (status = "bad_request" <=> ~Absolute(request_path) \/ HasDots(request_path))
  /\ status \in {"ok", "not_found"} =>
       Absolute(request_path) /\ full_path = CStr(WithIndex(request_path))
  /\ status = "ok" => content_type = extension_to_type(Extension(WithIndex(request_path)))

IInv == TypeOK /\ OpenedIsInside /\ DecodedSoFar /\ AnsweredByPath

THEOREM InitEstablishes == Init => IInv
<1> SUFFICES ASSUME Init
             PROVE  IInv
  OBVIOUS
<1>1. TypeOK /\ OpenedIsInside
  BY UrisAssumption, EmptySeq, LenProperties DEF Init, TypeOK, OpenedIsInside
<1>2. DecodedSoFar
  <2>0. uri \in Seq(UriChars) /\ Len(uri) \in Nat /\ i = 0 /\ request_path = <<>> /\ status = "none"
    BY <1>1, LenProperties DEF Init, TypeOK
  <2>1. Begun(uri, 0) = {}
    BY <2>0 DEF Begun, Starts
  <2>2. DecodesUpTo(uri, i, request_path)
    <3>1. Len(request_path) = 0 /\ Cardinality({}) = 0
      BY <2>0, FS_EmptySet
    <3> QED
      BY <2>0, <2>1, <3>1 DEF DecodesUpTo
  <2>3. 0 < Len(uri) => 1 \in Starts(uri)
    BY <2>0 DEF Starts
  <2> QED
    BY <2>0, <2>2, <2>3 DEF DecodedSoFar
<1>3. AnsweredByPath
  BY DEF Init, AnsweredByPath
<1> QED
  BY <1>1, <1>2, <1>3 DEF IInv

LEMMA DecodeStep ==
  ASSUME IInv, url_decode
  PROVE  IInv'
<1> DEFINE c == uri[i + 1]
<1>0. /\ uri \in Seq(UriChars) /\ i \in Nat /\ Len(uri) \in Nat /\ i < Len(uri)
      /\ request_path \in Seq(Char) /\ Len(request_path) \in Nat /\ Len(request_path) <= i
  BY LenProperties DEF IInv, TypeOK, url_decode
<1>1. i + 1 \in 1..Len(uri) /\ c \in UriChars
  BY <1>0, ElementOfSeq
<1>2. uri' = uri /\ full_path' = full_path /\ status = "none"
  BY DEF url_decode
<1>3. OpenedIsInside'
  BY <1>2 DEF IInv, OpenedIsInside
<1>4. CASE c = PERCENT /\ Escape(uri, i + 1) = {}
  <2>1. status' = "bad_request" /\ content_type' = "text/html" /\ UNCHANGED <<i, request_path>>
    BY <1>4 DEF url_decode, stock_reply
  <2>2. TypeOK'
    BY <1>2, <2>1 DEF IInv, TypeOK
  <2>3. ~ValidEncoding(uri)
    BY <1>0, <1>2, <1>4, EscapeNext DEF IInv, DecodedSoFar
  <2> QED
    BY <1>2, <1>3, <2>1, <2>2, <2>3 DEF IInv, DecodedSoFar, AnsweredByPath
<1>5. CASE c = PERCENT /\ Escape(uri, i + 1) # {}
  <2>1. PICK v \in Escape(uri, i + 1) : request_path' = Append(request_path, AsChar(v))
    BY <1>5 DEF url_decode
  <2>2. i' = i + 3 /\ status' = status /\ content_type' = content_type
    BY <1>5 DEF url_decode
  <2>3. i + 3 <= Len(uri) /\ AsChar(v) \in Char
    BY <1>0, <1>1, EscapeType, AsCharType
  <2>4. request_path' \in Seq(Char) /\ Len(request_path') = Len(request_path) + 1
    BY <1>0, <2>1, <2>3, AppendProperties
  <2>5. TypeOK'
    BY <1>0, <1>2, <2>2, <2>3, <2>4 DEF IInv, TypeOK
  <2>6. AnsweredByPath'
    BY <1>2, <2>2 DEF AnsweredByPath
  <2>7. ASSUME ValidEncoding(uri)
        PROVE  DecodesUpTo(uri, i + 3, request_path') /\ (i + 3 < Len(uri) => (i + 3) + 1 \in Starts(uri))
    <3>1. DecodesUpTo(uri, i, request_path) /\ i + 1 \in Starts(uri)
      BY <1>0, <2>7 DEF IInv, DecodedSoFar
    <3>2. /\ v = Code(uri, i + 1) /\ AsChar(v) = StandsFor(uri, i + 1)
          /\ (i + 1) + 1 \notin Starts(uri) /\ (i + 1) + 2 \notin Starts(uri)
          /\ (i + 1) + 3 <= Len(uri) => (i + 1) + 3 \in Starts(uri)
      BY <1>0, <1>5, <2>1, <2>7, <3>1, EscapeNext
    <3>3. i \in 0..Len(uri) - 1 /\ i + 3 \in i + 1..Len(uri)
      BY <1>0, <2>3
    <3>4. \A q \in i + 2..i + 3 : q \notin Starts(uri)
      <4>1. \A q \in i + 2..i + 3 : q = (i + 1) + 1 \/ q = (i + 1) + 2
        BY <1>0
      <4> QED
        BY <3>2, <4>1
    <3>5. DecodesUpTo(uri, i + 3, Append(request_path, StandsFor(uri, i + 1)))
      BY <1>0, <2>3, <3>1, <3>2, <3>3, <3>4, DecodesOneMore
    <3>6. (i + 1) + 3 = (i + 3) + 1 /\ (i + 3 < Len(uri) => (i + 1) + 3 <= Len(uri))
      BY <1>0
    <3> QED
      BY <2>1, <3>2, <3>5, <3>6
  <2> QED
    BY <1>2, <1>3, <2>2, <2>5, <2>6, <2>7 DEF IInv, DecodedSoFar
<1>6. CASE c # PERCENT
  <2>1. /\ request_path' = Append(request_path, IF c = PLUS THEN 32 ELSE c)
        /\ i' = i + 1 /\ status' = status /\ content_type' = content_type
    BY <1>6 DEF url_decode
  <2>2. (IF c = PLUS THEN 32 ELSE c) \in Char /\ StandsFor(uri, i + 1) = IF c = PLUS THEN 32 ELSE c
    BY <1>1, <1>6 DEF UriChars, Char, StandsFor
  <2>3. request_path' \in Seq(Char) /\ Len(request_path') = Len(request_path) + 1
    BY <1>0, <2>1, <2>2, AppendProperties
  <2>4. TypeOK'
    BY <1>0, <1>2, <2>1, <2>3 DEF IInv, TypeOK
  <2>5. AnsweredByPath'
    BY <1>2, <2>1 DEF AnsweredByPath
  <2>6. ASSUME ValidEncoding(uri)
        PROVE  DecodesUpTo(uri, i + 1, request_path') /\ (i + 1 < Len(uri) => (i + 1) + 1 \in Starts(uri))
    <3>1. DecodesUpTo(uri, i, request_path) /\ i + 1 \in Starts(uri)
      BY <1>0, <2>6 DEF IInv, DecodedSoFar
    <3>2. i + 1 < Len(uri) => (i + 1) + 1 \in Starts(uri)
      BY <1>0, <1>6, <3>1, PlainNext
    <3>3. i \in 0..Len(uri) - 1 /\ i + 1 \in i + 1..Len(uri) /\ \A q \in i + 2..i + 1 : q \notin Starts(uri)
      BY <1>0
    <3>4. DecodesUpTo(uri, i + 1, Append(request_path, StandsFor(uri, i + 1)))
      BY <1>0, <2>2, <3>1, <3>3, DecodesOneMore
    <3> QED
      BY <2>1, <2>2, <3>2, <3>4
  <2> QED
    BY <1>2, <1>3, <2>1, <2>4, <2>5, <2>6 DEF IInv, DecodedSoFar
<1> QED
  BY <1>4, <1>5, <1>6

LEMMA HandleStep ==
  ASSUME IInv, handle_request
  PROVE  IInv'
<1>1. UNCHANGED <<uri, i, request_path>>
  BY DEF handle_request
<1>2. DecodedSoFar'
  <2>1. i >= Len(uri) /\ i \in Int /\ Len(uri) \in Int
    BY LenProperties DEF IInv, TypeOK, handle_request
  <2> QED
    BY <1>1, <2>1 DEF IInv, DecodedSoFar
<1>3. CASE ~Absolute(request_path) \/ HasDots(request_path)
  <2>1. status' = "bad_request" /\ content_type' = "text/html" /\ full_path' = full_path
    BY <1>3 DEF handle_request, stock_reply
  <2> QED
    BY <1>1, <1>2, <1>3, <2>1 DEF IInv, TypeOK, OpenedIsInside, AnsweredByPath
<1>4. CASE Absolute(request_path) /\ ~HasDots(request_path)
  <2> DEFINE name == CStr(WithIndex(request_path))
             type == extension_to_type(Extension(WithIndex(request_path)))
  <2>1. name \in Seq(Char) /\ Absolute(name) /\ ~HasDots(name)
    BY <1>4, IndexKeepsInside, CutKeepsInside DEF IInv, TypeOK
  <2>2. type \in Types
    BY MimeType
  <2>3. full_path' = name
    BY <1>4 DEF handle_request
  <2>4. \/ status' = "ok" /\ content_type' = type
        \/ status' = "not_found" /\ content_type' = "text/html"
    BY <1>4 DEF handle_request, stock_reply
  <2>5. AnsweredByPath'
    BY <1>1, <1>4, <2>3, <2>4 DEF AnsweredByPath
  <2> HIDE DEF name, type
  <2>6. TypeOK'
    BY <1>1, <2>1, <2>2, <2>3, <2>4 DEF IInv, TypeOK, Types
  <2> QED
    BY <1>2, <2>1, <2>3, <2>5, <2>6 DEF IInv, OpenedIsInside, Absolute
<1> QED
  BY <1>3, <1>4

THEOREM IInvInvariant == Spec => []IInv
<1>1. IInv /\ UNCHANGED vars => IInv'
  BY DEF vars, IInv, TypeOK, OpenedIsInside, DecodedSoFar, AnsweredByPath
<1>2. IInv /\ [Next]_vars => IInv'
  BY <1>1, DecodeStep, HandleStep DEF Next
<1> QED
  BY <1>2, InitEstablishes, PTL DEF Spec

\* For every uri: the decoded path is made of characters and has room in the
\* uri's length, and the reply is of a known kind.
THEOREM TypeCorrect == Spec => []TypeOK
<1>1. IInv => TypeOK
  BY DEF IInv
<1> QED
  BY <1>1, IInvInvariant, PTL

\* For every uri, what is opened is an absolute name without two dots in a row.
THEOREM OpenedAlwaysInside == Spec => []OpenedIsInside
<1>1. IInv => OpenedIsInside
  BY DEF IInv
<1> QED
  BY <1>1, IInvInvariant, PTL

LEMMA InvariantDecodes == IInv => ValidIsDecoded
<1> SUFFICES ASSUME IInv, status # "none", ValidEncoding(uri)
             PROVE  /\ request_path = Decoded(uri)
                    /\ status = "bad_request" <=>
                         \/ Decoded(uri) = <<>>
                         \/ Decoded(uri)[1] # SLASH
                         \/ HasPart(Decoded(uri), <<DOT, DOT>>)
  BY DEF ValidIsDecoded
<1>1. i = Len(uri) /\ uri \in Seq(UriChars) /\ request_path \in Seq(Char)
  BY LenProperties DEF IInv, TypeOK, DecodedSoFar
<1>2. request_path = Decoded(uri)
  BY <1>1, DecodesAll DEF IInv, DecodedSoFar
<1> QED
  BY <1>1, <1>2, DotsArePart DEF IInv, AnsweredByPath, Absolute

\* Every uri with a valid encoding is decoded to what it stands for, and refused
\* exactly if that names nothing below doc_root_.
THEOREM ValidAlwaysDecoded == Spec => []ValidIsDecoded
BY InvariantDecodes, IInvInvariant, PTL

\* Every file whose name is not cut off is sent under the type its name calls
\* for, however many dots the path has and whether or not the index was added.
THEOREM TypeAlwaysFits == Spec => []TypeFitsName
<1>1. IInv => TypeFitsName
  <2> DEFINE named == {m \in mappings : EndsWith(full_path, <<DOT>> \o m[1])}
  <2> SUFFICES ASSUME IInv, status = "ok", request_path = CStr(request_path)
               PROVE  {content_type} = IF named = {} THEN {"text/plain"} ELSE {m[2] : m \in named}
    BY DEF TypeFitsName
  <2>1. request_path \in Seq(Char) /\ request_path # <<>>
    BY DEF IInv, TypeOK, AnsweredByPath, Absolute
  <2>2. WithIndex(request_path) \in Seq(Char) /\ full_path = WithIndex(request_path)
    BY <2>1, IndexUncut DEF IInv, AnsweredByPath
  <2>3. content_type = extension_to_type(Extension(full_path))
    BY <2>2 DEF IInv, AnsweredByPath
  <2> QED
    BY <2>2, <2>3, TypeBySuffix
<1> QED
  BY <1>1, IInvInvariant, PTL

=============================================================================
