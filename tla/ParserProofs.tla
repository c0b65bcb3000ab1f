---------------------------- MODULE ParserProofs ----------------------------
(***************************************************************************)
(* Proofs about Parser, for every set of sessions and every way recv()     *)
(* cuts them. Two inductive invariants: IInv, that beside the types a      *)
(* parser beyond its start line has offset >= 2 (only then does a result 0 *)
(* of findNewline mean "not found" and nothing else in parseHeaders and    *)
(* parseChunkedBody); and ParsingInv, which says at every phase how far    *)
(* into the encoding of the current request the parser is and what it has  *)
(* of it. Between them, how FlattenSeq lays out lines, chunks and requests.*)
(***************************************************************************)
EXTENDS ParserProperties, SequenceTheorems, WellFoundedInduction, TLAPS

BeyondStartLine == validation_phase # "READY" => offset >= 2

IInv == TypeOK /\ OffsetInPool /\ BeyondStartLine

\* What findNewline returns is 0 or a line end inside the pool.
LEMMA FindNewlineBounded ==
  ASSUME TypeOK, NEW from \in Nat, NEW i \in Nat, FindNewline(from, i)
  PROVE  i = 0 \/ (from <= i /\ i + 2 <= line_len)
  BY DEF FindNewline, TypeOK

\* A piece of the pool is a sequence of symbols.
LEMMA PoolPiece ==
  ASSUME TypeOK, OffsetInPool, NEW a \in Nat, NEW b \in Nat, b <= line_len
  PROVE  SubSeq(input, base + a + 1, base + b) \in Seq(Symbols)
  <1>1. \A i \in base + a + 1 .. base + b : input[i] \in Symbols
    BY DEF TypeOK, OffsetInPool
  <1> QED
    BY <1>1, SubSeqProperties DEF TypeOK

LEMMA InitIInv == Init => IInv
  BY ParserAssumption
  DEF Init, IInv, TypeOK, OffsetInPool, BeyondStartLine, Phases, Statuses

\* A symbol of the pool.
LEMMA TotalLineSymbol ==
  ASSUME TypeOK, OffsetInPool, NEW i \in Nat, i < line_len
  PROVE  TotalLine(i) \in Symbols
  BY DEF TypeOK, OffsetInPool, TotalLine

LEMMA ReadBufferIInv == IInv /\ ReadBuffer => IInv'
  BY ParserAssumption
  DEF IInv, ReadBuffer, TypeOK, OffsetInPool, BeyondStartLine, request

LEMMA ParseFirstLineIInv == IInv /\ ParseFirstLine => IInv'
  <1> SUFFICES ASSUME IInv, ParseFirstLine PROVE IInv'
    OBVIOUS
  <1>1. PICK crlf \in 0 .. line_len :
          /\ FindNewline(offset, crlf)
          /\ \/ /\ crlf = 0 /\ Throw
                /\ UNCHANGED <<offset, request>>
             \/ /\ crlf # 0 /\ offset' = crlf + 2
                /\ status' \in Statuses
                /\ method' \in StartLines \cup {"none"}
                /\ validation_phase' \in Phases
                /\ pc' \in {"recv", "loop"}
                /\ UNCHANGED <<headers, body>>
    BY DEF ParseFirstLine, IInv, TypeOK, Throw, NextTurn, GoodStartLine,
           Statuses, Phases
  <1>2. crlf # 0 => crlf + 2 <= line_len
    BY <1>1, FindNewlineBounded DEF IInv, TypeOK
  <1>3. UNCHANGED <<input, base, line_len, parsed>>
    BY DEF ParseFirstLine, Turn
  <1> QED
    BY <1>1, <1>2, <1>3
    DEF IInv, TypeOK, OffsetInPool, BeyondStartLine, Throw, request

\* checkBodyType chooses among the phases and statuses.
LEMMA CheckBodyTypeTypes ==
  ASSUME TypeOK, CheckBodyType
  PROVE  /\ validation_phase' \in Phases \ {"READY"}
         /\ status' \in Statuses
  BY DEF TypeOK, CheckBodyType, Phases, Statuses

LEMMA ParseHeadersIInv == IInv /\ ParseHeaders => IInv'
  <1> SUFFICES ASSUME IInv, ParseHeaders PROVE IInv'
    OBVIOUS
  <1>0. /\ UNCHANGED <<input, base, line_len, parsed, method, body>>
        /\ validation_phase = "ON_HEADER"
    BY DEF ParseHeaders, Turn
  <1>1. PICK crlf \in 0 .. line_len :
          /\ FindNewline(offset, crlf)
          /\ \/ /\ crlf = offset /\ CheckBodyType
                /\ offset' = offset + 2 /\ NextTurn
                /\ UNCHANGED headers
             \/ /\ crlf # offset /\ crlf = 0 /\ Throw
                /\ UNCHANGED <<offset, validation_phase, status, headers>>
             \/ /\ crlf # offset /\ crlf # 0 /\ offset' = crlf + 2
                /\ status' = "BAD_REQUEST_400" /\ Throw
                /\ UNCHANGED <<validation_phase, headers>>
             \/ /\ crlf # offset /\ crlf # 0 /\ ~BadHeader(crlf)
                /\ offset' = crlf + 2
                /\ headers' = headers \cup {TotalLine(offset)} /\ NextTurn
                /\ UNCHANGED <<validation_phase, status>>
    BY DEF ParseHeaders
  <1>2. crlf # 0 => offset <= crlf /\ crlf + 2 <= line_len
    BY <1>1, FindNewlineBounded DEF IInv, TypeOK
  <1>3. crlf = offset => offset + 2 <= line_len
    BY <1>0, <1>2 DEF IInv, BeyondStartLine, TypeOK
  <1>4. ~BadHeader(crlf) => TotalLine(offset) \in HeaderLines
    BY DEF BadHeader, IsHeader
  <1>5. /\ headers' \subseteq HeaderLines
        /\ validation_phase' \in Phases \ {"READY"}
        /\ status' \in Statuses
        /\ pc' \in {"recv", "loop"}
    BY <1>0, <1>1, <1>4, CheckBodyTypeTypes
    DEF IInv, TypeOK, Throw, NextTurn, Phases, Statuses
  <1>6. offset' \in Nat /\ offset' >= 2 /\ offset' <= line_len
    BY <1>0, <1>1, <1>2, <1>3 DEF IInv, TypeOK, BeyondStartLine, OffsetInPool
  <1> QED
    BY <1>0, <1>5, <1>6 DEF IInv, TypeOK, OffsetInPool, BeyondStartLine

LEMMA ParseBodyIInv == IInv /\ ParseBody => IInv'
  <1> SUFFICES ASSUME IInv, ParseBody PROVE IInv'
    OBVIOUS
  <1>1. SubSeq(input, base + offset + 1, base + line_len) \in Seq(Symbols)
    <2>1. offset \in Nat /\ line_len \in Nat /\ line_len <= line_len
      BY DEF IInv, TypeOK
    <2> QED
      BY <2>1, PoolPiece DEF IInv
  <1>2. body' \in Seq(Symbols)
    BY <1>1, ConcatProperties DEF ParseBody, IInv, TypeOK
  <1>3. /\ UNCHANGED <<input, base, line_len, parsed, method, headers>>
        /\ validation_phase = "ON_BODY"
        /\ offset' = line_len
    BY DEF ParseBody, Turn
  <1>4. /\ validation_phase' \in Phases
        /\ status' \in Statuses
        /\ pc' \in {"recv", "loop"}
    BY DEF ParseBody, NextTurn, IInv, TypeOK, Phases, Statuses
  <1> QED
    BY <1>2, <1>3, <1>4 DEF IInv, TypeOK, OffsetInPool, BeyondStartLine

LEMMA ParseChunkedBodyIInv == IInv /\ ParseChunkedBody => IInv'
  <1> SUFFICES ASSUME IInv, ParseChunkedBody PROVE IInv'
    OBVIOUS
  <1>0. /\ UNCHANGED <<input, base, line_len, parsed, status, method, headers>>
        /\ validation_phase = "ON_CHUNKED_BODY"
    BY DEF ParseChunkedBody, Turn
  <1>1. PICK size \in 0 .. line_len, data \in 0 .. line_len :
          /\ IF size = 0 THEN data = 0 ELSE FindNewline(size + 2, data)
          /\ \/ /\ Throw /\ UNCHANGED <<offset, validation_phase, body>>
             \/ /\ validation_phase' = "COMPLETE" /\ NextTurn
                /\ UNCHANGED <<offset, body>>
             \/ /\ size # 0 /\ data # 0
                /\ body' = body \o SubSeq(input, base + size + 3, base + data)
                /\ offset' = data + 2 /\ NextTurn
                /\ UNCHANGED validation_phase
    BY DEF ParseChunkedBody
  <1>2. CASE UNCHANGED <<offset, body>>
    BY <1>0, <1>1, <1>2
    DEF IInv, TypeOK, OffsetInPool, BeyondStartLine, Throw, NextTurn, Phases
  <1>3. CASE /\ size # 0 /\ data # 0
             /\ body' = body \o SubSeq(input, base + size + 3, base + data)
             /\ offset' = data + 2 /\ NextTurn
             /\ UNCHANGED validation_phase
    <2>1. data + 2 <= line_len
      BY <1>1, <1>3, FindNewlineBounded DEF IInv, TypeOK
    <2>2. SubSeq(input, base + size + 3, base + data) \in Seq(Symbols)
      <3>1. base + (size + 2) + 1 = base + size + 3
        BY DEF IInv, TypeOK
      <3>2. size + 2 \in Nat /\ data \in Nat /\ data <= line_len
        BY <2>1 DEF IInv, TypeOK
      <3>3. SubSeq(input, base + (size + 2) + 1, base + data) \in Seq(Symbols)
        BY <3>2, PoolPiece DEF IInv
      <3> QED
        BY <3>1, <3>3
    <2>3. body' \in Seq(Symbols)
      BY <1>3, <2>2, ConcatProperties DEF IInv, TypeOK
    <2> QED
      BY <1>0, <1>3, <2>1, <2>3
      DEF IInv, TypeOK, OffsetInPool, BeyondStartLine, NextTurn
  <1> QED
    BY <1>1, <1>2, <1>3

LEMMA NewParserIInv == IInv /\ NewParser => IInv'
  <1> SUFFICES ASSUME IInv, NewParser PROVE IInv'
    OBVIOUS
  <1>1. [start |-> method, status |-> status, body |-> body]
          \in [start : StartLines \cup {"none"}, status : Statuses,
               body : Seq(Symbols)]
    BY DEF IInv, TypeOK
  <1>2. parsed' \in Seq([start : StartLines \cup {"none"}, status : Statuses,
                         body : Seq(Symbols)])
    BY <1>1, AppendProperties DEF NewParser, IInv, TypeOK
  <1> QED
    BY <1>2
    DEF NewParser, NewRequest, IInv, TypeOK, OffsetInPool, BeyondStartLine,
        Phases, Statuses

LEMMA NextIInv == IInv /\ [Next]_vars => IInv'
  <1>1. IInv /\ UNCHANGED vars => IInv'
    BY DEF IInv, TypeOK, OffsetInPool, BeyondStartLine, vars, pool, request
  <1> QED
    BY <1>1, ReadBufferIInv, ParseFirstLineIInv, ParseHeadersIInv,
       ParseBodyIInv, ParseChunkedBodyIInv, NewParserIInv
    DEF Next

\* The members of Parser, Request and RequestPool keep their types, whatever
\* the client sends.
THEOREM ParserTypeCorrect == Spec => []TypeOK
  <1>1. IInv => TypeOK
    BY DEF IInv
  <1> QED
    BY <1>1, InitIInv, NextIInv, PTL DEF Spec

\* No turn of readBuffer reads total_line beyond line_len: offset stays inside
\* the pool for every input and every segmentation.
THEOREM ParserOffsetInPool == Spec => []OffsetInPool
  <1>1. IInv => OffsetInPool
    BY DEF IInv
  <1> QED
    BY <1>1, InitIInv, NextIInv, PTL DEF Spec

\* A set of numbers has a least one.
LEMMA LeastNatural ==
  ASSUME NEW T, T \subseteq Nat, T # {}
  PROVE  \E x \in T : \A y \in T : x <= y
<1> DEFINE R == {ss \in Nat \X Nat : ss[1] < ss[2]}
<1>1. R = OpToRel(<, Nat)
  BY DEF OpToRel
<1>2. IsWellFoundedOn(R, Nat)
  BY <1>1, NatLessThanWellFounded
<1>3. PICK x \in T : \A y \in T : <<y, x>> \notin R
  BY <1>2, WFMin
<1>4. ASSUME NEW y \in T, y < x PROVE FALSE
  <2>1. <<y, x>> \in Nat \X Nat /\ <<y, x>>[1] < <<y, x>>[2]
    BY <1>4
  <2>2. <<y, x>> \in R
    BY <2>1
  <2> QED
    BY <1>3, <2>2
<1> HIDE DEF R
<1> QED
  BY <1>4

\* A set of numbers that has 0, and with every number below limit the next, has
\* all numbers up to limit.
LEMMA AllUpTo ==
  ASSUME NEW limit \in Nat, NEW T, 0 \in T, \A n \in 0 .. limit - 1 : n \in T => n + 1 \in T
  PROVE  \A n \in 0 .. limit : n \in T
<1> DEFINE Bad == {n \in 0 .. limit : n \notin T}
<1> SUFFICES ASSUME Bad # {} PROVE FALSE
  OBVIOUS
<1>1. Bad \subseteq Nat
  OBVIOUS
<1>2. PICK x \in Bad : \A y \in Bad : x <= y
  <2> HIDE DEF Bad
  <2> QED
    BY <1>1, LeastNatural
<1>3. x \in 1 .. limit /\ x \notin T
  BY <1>2
<1>4. x - 1 \in 0 .. limit - 1 /\ (x - 1) + 1 = x
  BY <1>3
<1>5. x - 1 \in T
  BY <1>2, <1>4
<1> QED
  BY <1>3, <1>4, <1>5

\* f has the concatenations of the first pieces of s, up to n.
Concatenates(f, s, n) ==
  f = [i \in 1 .. n |-> IF i = 1 THEN s[i] ELSE f[i - 1] \o s[i]]

LEMMA ConcatenatesFirst ==
  ASSUME NEW f, NEW s, NEW n \in Nat \ {0}, Concatenates(f, s, n) PROVE f[1] = s[1]
<1> DEFINE at(k) == IF k = 1 THEN s[k] ELSE f[k - 1] \o s[k]
<1>1. f = [k \in 1 .. n |-> at(k)]
  BY DEF Concatenates
<1>2. 1 \in 1 .. n /\ at(1) = s[1]
  OBVIOUS
<1> HIDE DEF at
<1> QED
  BY <1>1, <1>2

LEMMA ConcatenatesNext ==
  ASSUME NEW f, NEW s, NEW n \in Nat, Concatenates(f, s, n), NEW i \in 1 .. n - 1
  PROVE  f[i + 1] = f[i] \o s[i + 1]
<1> DEFINE at(k) == IF k = 1 THEN s[k] ELSE f[k - 1] \o s[k]
<1>1. f = [k \in 1 .. n |-> at(k)]
  BY DEF Concatenates
<1>2. i + 1 \in 1 .. n /\ i + 1 # 1 /\ (i + 1) - 1 = i
  OBVIOUS
<1>3. at(i + 1) = f[i] \o s[i + 1]
  BY <1>2
<1> HIDE DEF at
<1> QED
  BY <1>1, <1>2, <1>3

LEMMA ConcatenationsExist ==
  ASSUME NEW s, NEW limit \in Nat PROVE \E f : Concatenates(f, s, limit)
<1> DEFINE T == {n \in 0 .. limit : \E f : Concatenates(f, s, n)}
<1>1. 0 \in T
  <2> DEFINE f == [i \in 1 .. 0 |-> 0]
  <2>1. Concatenates(f, s, 0)
    BY DEF Concatenates
  <2> QED
    BY <2>1
<1>2. ASSUME NEW n \in 0 .. limit - 1, n \in T PROVE n + 1 \in T
  <2>1. PICK f : Concatenates(f, s, n)
    BY <1>2
  <2> DEFINE next == IF n = 0 THEN s[n + 1] ELSE f[n] \o s[n + 1]
             g == [i \in 1 .. n + 1 |-> IF i = n + 1 THEN next ELSE f[i]]
             at(k) == IF k = 1 THEN s[k] ELSE g[k - 1] \o s[k]
  <2>0. \A i \in 1 .. n : i \in 1 .. n + 1 /\ g[i] = f[i]
    OBVIOUS
  <2>2. ASSUME NEW i \in 1 .. n + 1 PROVE g[i] = at(i)
    <3>1. CASE i = n + 1 /\ n = 0
      BY <3>1
    <3>2. CASE i = n + 1 /\ n # 0
      <4>1. g[i] = next /\ g[n] = f[n] /\ i - 1 = n
        <5>1. n \in 1 .. n /\ i - 1 = n
          BY <3>2
        <5>2. g[i] = next
          BY <3>2
        <5> QED
          BY <2>0, <5>1, <5>2
      <4>2. next = f[n] \o s[i]
        BY <3>2
      <4> HIDE DEF g, next
      <4>3. i # 1
        BY <3>2
      <4> QED
        BY <4>1, <4>2, <4>3
    <3>3. CASE i # n + 1
      <4>1. i \in 1 .. n /\ g[i] = f[i] /\ (i # 1 => g[i - 1] = f[i - 1])
        BY <2>0, <3>3
      <4>2. i = 1 => f[i] = s[i]
        BY <2>1, <4>1, ConcatenatesFirst
      <4>3. i # 1 => f[i] = f[i - 1] \o s[i]
        <5> SUFFICES ASSUME i # 1 PROVE f[i] = f[i - 1] \o s[i]
          OBVIOUS
        <5> DEFINE j == i - 1
        <5>1. j \in 1 .. n - 1 /\ j + 1 = i /\ n \in Nat
          BY <4>1
        <5> HIDE DEF j
        <5>2. f[j + 1] = f[j] \o s[j + 1]
          BY <2>1, <5>1, ConcatenatesNext
        <5>3. f[i] = f[j] \o s[i]
          BY <5>1, <5>2
        <5> QED
          BY <5>3 DEF j
      <4> HIDE DEF g
      <4> QED
        BY <4>1, <4>2, <4>3
    <3> QED
      BY <3>1, <3>2, <3>3
  <2>3. g = [i \in 1 .. n + 1 |-> at(i)]
    <3>1. DOMAIN g = 1 .. n + 1 /\ g = [i \in DOMAIN g |-> g[i]]
      OBVIOUS
    <3> HIDE DEF g, at
    <3> QED
      BY <2>2, <3>1
  <2>4. Concatenates(g, s, n + 1)
    BY <2>3 DEF Concatenates
  <2> HIDE DEF g
  <2> QED
    BY <2>4
<1> HIDE DEF T
<1>3. limit \in T
  BY <1>1, <1>2, AllUpTo
<1> QED
  BY <1>3 DEF T

LEMMA ConcatenationsAgree ==
  ASSUME NEW s, NEW t, NEW k \in Nat, NEW m \in Nat, k <= m, NEW f, NEW g,
         Concatenates(f, s, k), Concatenates(g, t, m), \A i \in 1 .. k : s[i] = t[i]
  PROVE  \A i \in 1 .. k : f[i] = g[i]
<1> DEFINE T == {i \in 0 .. k : i = 0 \/ f[i] = g[i]}
<1>1. 0 \in T
  OBVIOUS
<1>2. ASSUME NEW i \in 0 .. k - 1, i \in T PROVE i + 1 \in T
  <2>1. i + 1 \in 1 .. k /\ s[i + 1] = t[i + 1]
    BY <1>2
  <2>2. CASE i = 0
    <3>1. f[1] = s[1] /\ g[1] = t[1]
      BY <2>1, <2>2, ConcatenatesFirst
    <3> QED
      BY <2>1, <2>2, <3>1
  <2>3. CASE i # 0
    <3>1. f[i] = g[i] /\ i \in 1 .. k - 1 /\ i \in 1 .. m - 1
      BY <1>2, <2>1, <2>3
    <3>2. f[i + 1] = f[i] \o s[i + 1]
      BY <3>1, ConcatenatesNext
    <3>3. g[i + 1] = g[i] \o t[i + 1]
      BY <3>1, ConcatenatesNext
    <3>4. f[i + 1] = g[i + 1]
      BY <2>1, <3>1, <3>2, <3>3
    <3> QED
      BY <2>1, <3>4
  <2> QED
    BY <2>2, <2>3
<1>3. \A i \in 0 .. k : i \in T
  <2> HIDE DEF T
  <2> QED
    BY <1>1, <1>2, AllUpTo
<1> QED
  BY <1>3

\* FlattenSeq adds one piece after the other.
LEMMA FlattenIs ==
  ASSUME NEW s, Len(s) \in Nat \ {0}
  PROVE  \E f : Concatenates(f, s, Len(s)) /\ FlattenSeq(s) = f[Len(s)]
<1>1. FlattenSeq(s) = (CHOOSE f : Concatenates(f, s, Len(s)))[Len(s)]
  BY DEF FlattenSeq, Concatenates
<1>2. \E f : Concatenates(f, s, Len(s))
  BY ConcatenationsExist
<1> QED
  BY <1>1, <1>2

LEMMA FlattenNext ==
  ASSUME NEW a, NEW b, NEW n \in Nat \ {0}, Len(a) = n, Len(b) = n + 1,
         \A i \in 1 .. n : a[i] = b[i]
  PROVE  FlattenSeq(b) = FlattenSeq(a) \o b[n + 1]
<1> DEFINE m == n + 1
<1>0. n \in Nat /\ m \in Nat /\ m \in Nat \ {0} /\ n <= m /\ n \in 1 .. m - 1 /\ Len(b) = m
      /\ n \in 1 .. n
  OBVIOUS
<1> HIDE DEF m
<1>1. PICK f : Concatenates(f, a, n) /\ FlattenSeq(a) = f[n]
  BY FlattenIs
<1>2. PICK g : Concatenates(g, b, m) /\ FlattenSeq(b) = g[m]
  <2>1. Len(b) \in Nat \ {0}
    BY <1>0
  <2> QED
    BY <1>0, <2>1, FlattenIs
<1>3. g[n + 1] = g[n] \o b[n + 1]
  BY ONLY <1>0, <1>2, ConcatenatesNext
<1>4. f[n] = g[n]
  <2>1. \A i \in 1 .. n : a[i] = b[i]
    OBVIOUS
  <2>2. \A i \in 1 .. n : f[i] = g[i]
    BY ONLY <1>0, <1>1, <1>2, <2>1, ConcatenationsAgree
  <2> QED
    BY <1>0, <2>2
<1> QED
  BY <1>1, <1>2, <1>3, <1>4 DEF m

\* What FlattenSeq makes of the first n pieces.
Flat(s, n) == FlattenSeq(SubSeq(s, 1, n))

LEMMA FirstPieces ==
  ASSUME NEW X, NEW s \in Seq(X), NEW n \in 0 .. Len(s)
  PROVE  /\ SubSeq(s, 1, n) \in Seq(X) /\ Len(SubSeq(s, 1, n)) = n
         /\ \A i \in 1 .. n : SubSeq(s, 1, n)[i] = s[i]
<1>1. Len(s) \in Nat /\ \A i \in 1 .. n : s[i] \in X
  OBVIOUS
<1>2. \A i \in 1 .. n - 1 + 1 : 1 + i - 1 = i
  OBVIOUS
<1> QED
  BY <1>1, <1>2, SubSeqProperties

LEMMA FlatNone == ASSUME NEW X, NEW s \in Seq(X) PROVE Flat(s, 0) = <<>>
<1>1. SubSeq(s, 1, 0) = <<>>
  BY SubSeqEmpty
<1> QED
  BY <1>1 DEF Flat, FlattenSeq

LEMMA FlatAll == ASSUME NEW X, NEW s \in Seq(X) PROVE Flat(s, Len(s)) = FlattenSeq(s)
  BY SubSeqFull DEF Flat

LEMMA FlatNext ==
  ASSUME NEW X, NEW s \in Seq(Seq(X)), NEW n \in 0 .. Len(s) - 1, Flat(s, n) \in Seq(X)
  PROVE  Flat(s, n + 1) = Flat(s, n) \o s[n + 1]
<1>1. Len(s) \in Nat /\ n \in 0 .. Len(s) /\ n + 1 \in 0 .. Len(s) /\ n + 1 \in Nat \ {0}
  OBVIOUS
<1> DEFINE a == SubSeq(s, 1, n)
           b == SubSeq(s, 1, n + 1)
<1>2. Len(a) = n /\ \A i \in 1 .. n : a[i] = s[i]
  BY <1>1, FirstPieces
<1>3. Len(b) = n + 1 /\ \A i \in 1 .. n + 1 : b[i] = s[i]
  BY <1>1, FirstPieces
<1>0. Flat(s, n) = FlattenSeq(a) /\ Flat(s, n + 1) = FlattenSeq(b)
  BY DEF Flat
<1> HIDE DEF a, b
<1>4. PICK g : Concatenates(g, b, n + 1) /\ FlattenSeq(b) = g[n + 1]
  BY <1>1, <1>3, FlattenIs
<1>5. CASE n = 0
  <2>1. g[n + 1] = b[n + 1]
    BY <1>4, <1>5, ConcatenatesFirst
  <2>2. Flat(s, n) = <<>> /\ s[n + 1] \in Seq(X)
    BY <1>1, <1>5, FlatNone
  <2>3. Flat(s, n) \o s[n + 1] = s[n + 1]
    BY <2>2, ConcatEmptySeq
  <2> QED
    BY <1>0, <1>1, <1>3, <1>4, <1>5, <2>1, <2>3
<1>6. CASE n # 0
  <2>1. FlattenSeq(b) = FlattenSeq(a) \o b[n + 1]
    <3>1. n \in Nat \ {0} /\ \A i \in 1 .. n : i \in 1 .. n + 1
      BY <1>1, <1>6
    <3>2. \A i \in 1 .. n : a[i] = b[i]
      BY <1>2, <1>3, <3>1
    <3> QED
      BY <1>2, <1>3, <3>1, <3>2, FlattenNext
  <2>2. b[n + 1] = s[n + 1]
    BY <1>1, <1>3
  <2> QED
    BY <1>0, <2>1, <2>2
<1> QED
  BY <1>5, <1>6

LEMMA FlatType ==
  ASSUME NEW X, NEW s \in Seq(Seq(X))
  PROVE  \A n \in 0 .. Len(s) : Flat(s, n) \in Seq(X)
<1> DEFINE T == {n \in 0 .. Len(s) : Flat(s, n) \in Seq(X)}
<1>1. 0 \in T
  <2>1. Flat(s, 0) = <<>> /\ <<>> \in Seq(X) /\ Len(s) \in Nat
    BY FlatNone, EmptySeq, LenProperties
  <2>2. 0 \in 0 .. Len(s)
    BY <2>1
  <2> QED
    BY <2>1, <2>2
<1>2. ASSUME NEW n \in 0 .. Len(s) - 1, n \in T PROVE n + 1 \in T
  <2>1. Flat(s, n + 1) = Flat(s, n) \o s[n + 1]
    BY <1>2, FlatNext
  <2>2. s[n + 1] \in Seq(X) /\ n + 1 \in 0 .. Len(s)
    BY <1>2
  <2> QED
    BY <1>2, <2>1, <2>2, ConcatProperties
<1>3. Len(s) \in Nat
  OBVIOUS
<1> HIDE DEF T
<1>4. \A n \in 0 .. Len(s) : n \in T
  BY <1>1, <1>2, <1>3, AllUpTo
<1> QED
  BY <1>4 DEF T

\* Each piece has its place.
LEMMA FlatStep ==
  ASSUME NEW X, NEW s \in Seq(Seq(X)), NEW n \in 0 .. Len(s) - 1
  PROVE  /\ Flat(s, n) \in Seq(X) /\ Flat(s, n + 1) \in Seq(X) /\ s[n + 1] \in Seq(X)
         /\ Flat(s, n + 1) = Flat(s, n) \o s[n + 1]
         /\ Len(Flat(s, n + 1)) = Len(Flat(s, n)) + Len(s[n + 1])
         /\ \A i \in 1 .. Len(Flat(s, n)) : Flat(s, n + 1)[i] = Flat(s, n)[i]
         /\ \A i \in 1 .. Len(s[n + 1]) : Flat(s, n + 1)[Len(Flat(s, n)) + i] = s[n + 1][i]
<1> DEFINE a == Flat(s, n)
           p == s[n + 1]
           b == Flat(s, n + 1)
<1>1. n \in 0 .. Len(s) /\ n + 1 \in 0 .. Len(s) /\ n + 1 \in 1 .. Len(s)
  OBVIOUS
<1>2. a \in Seq(X) /\ b \in Seq(X) /\ p \in Seq(X)
  BY <1>1, FlatType
<1>3. b = a \o p
  BY <1>2, FlatNext
<1> HIDE DEF a, p, b
<1>4. /\ Len(b) = Len(a) + Len(p)
      /\ \A i \in 1 .. Len(a) + Len(p) : b[i] = IF i <= Len(a) THEN a[i] ELSE p[i - Len(a)]
  BY <1>2, <1>3, ConcatProperties
<1>5. Len(a) \in Nat /\ Len(p) \in Nat
  BY <1>2
<1>6. \A i \in 1 .. Len(a) : b[i] = a[i]
  BY <1>4, <1>5
<1>7. ASSUME NEW i \in 1 .. Len(p) PROVE b[Len(a) + i] = p[i]
  <2>1. Len(a) + i \in 1 .. Len(a) + Len(p) /\ ~(Len(a) + i <= Len(a)) /\ Len(a) + i - Len(a) = i
    BY <1>5
  <2> QED
    BY <1>4, <2>1
<1> QED
  BY <1>2, <1>3, <1>4, <1>6, <1>7 DEF a, p, b

\* What is there stays where it is.
LEMMA FlatGrows ==
  ASSUME NEW X, NEW s \in Seq(Seq(X)), NEW n \in 0 .. Len(s), NEW m \in n .. Len(s)
  PROVE  /\ Len(Flat(s, n)) <= Len(Flat(s, m))
         /\ \A i \in 1 .. Len(Flat(s, n)) : Flat(s, m)[i] = Flat(s, n)[i]
<1> DEFINE keeps(k) ==
             /\ Len(Flat(s, n)) <= Len(Flat(s, k))
             /\ \A i \in 1 .. Len(Flat(s, n)) : Flat(s, k)[i] = Flat(s, n)[i]
           T == {d \in 0 .. Len(s) - n : keeps(n + d)}
<1>0. Len(s) \in Nat /\ n \in Nat /\ Len(s) - n \in Nat
  OBVIOUS
<1>1. Len(Flat(s, n)) \in Nat
  BY FlatType, LenProperties
<1>2. 0 \in T
  <2>1. n + 0 = n
    BY <1>0
  <2>2. keeps(n)
    BY <1>1
  <2> QED
    BY <1>0, <2>1, <2>2
<1>3. ASSUME NEW d \in 0 .. (Len(s) - n) - 1, d \in T PROVE d + 1 \in T
  <2> DEFINE k == n + d
  <2>1. k \in 0 .. Len(s) - 1 /\ k + 1 = n + (d + 1) /\ d + 1 \in 0 .. Len(s) - n
    BY <1>0
  <2>2. keeps(k)
    BY <1>3
  <2> HIDE DEF k
  <2>3. /\ Len(Flat(s, k + 1)) = Len(Flat(s, k)) + Len(s[k + 1])
        /\ \A i \in 1 .. Len(Flat(s, k)) : Flat(s, k + 1)[i] = Flat(s, k)[i]
        /\ Len(Flat(s, k)) \in Nat /\ Len(s[k + 1]) \in Nat
    BY <2>1, FlatStep, LenProperties
  <2>4. keeps(k + 1)
    BY <1>1, <2>2, <2>3
  <2> QED
    BY <2>1, <2>4
<1> HIDE DEF T
<1>4. m - n \in T
  <2>1. \A d \in 0 .. Len(s) - n : d \in T
    BY <1>0, <1>2, <1>3, AllUpTo
  <2> QED
    BY <1>0, <2>1
<1>5. n + (m - n) = m
  BY <1>0
<1> QED
  BY <1>4, <1>5 DEF T

LEMMA FlatPiece ==
  ASSUME NEW X, NEW s \in Seq(Seq(X)), NEW n \in 0 .. Len(s) - 1
  PROVE  /\ FlattenSeq(s) \in Seq(X)
         /\ Len(Flat(s, n)) + Len(s[n + 1]) <= Len(FlattenSeq(s))
         /\ \A i \in 1 .. Len(s[n + 1]) :
              FlattenSeq(s)[Len(Flat(s, n)) + i] = s[n + 1][i]
<1>1. /\ Len(s) \in Nat /\ n + 1 \in 0 .. Len(s)
      /\ Len(s) \in n + 1 .. Len(s) /\ Len(s) \in 0 .. Len(s)
  OBVIOUS
<1>2. FlattenSeq(s) = Flat(s, Len(s)) /\ Flat(s, Len(s)) \in Seq(X)
  BY <1>1, FlatAll, FlatType
<1>3. /\ Len(Flat(s, n + 1)) <= Len(Flat(s, Len(s)))
      /\ \A i \in 1 .. Len(Flat(s, n + 1)) : Flat(s, Len(s))[i] = Flat(s, n + 1)[i]
  BY <1>1, FlatGrows
<1>4. /\ Len(Flat(s, n + 1)) = Len(Flat(s, n)) + Len(s[n + 1])
      /\ \A i \in 1 .. Len(s[n + 1]) : Flat(s, n + 1)[Len(Flat(s, n)) + i] = s[n + 1][i]
      /\ Len(Flat(s, n)) \in Nat /\ Len(s[n + 1]) \in Nat
  BY FlatStep, LenProperties
<1>5. ASSUME NEW i \in 1 .. Len(s[n + 1])
      PROVE  Flat(s, Len(s))[Len(Flat(s, n)) + i] = s[n + 1][i]
  <2>1. Len(Flat(s, n)) + i \in 1 .. Len(Flat(s, n + 1))
    BY <1>4
  <2> QED
    BY <1>3, <1>4, <2>1
<1> QED
  BY <1>2, <1>3, <1>4, <1>5

(***************************************************************************)
(* Where everything is in an encoded request.                              *)
(***************************************************************************)
LEMMA ConcatIs ==
  ASSUME NEW X, NEW s \in Seq(X), NEW t \in Seq(X)
  PROVE  /\ s \o t \in Seq(X) /\ Len(s) \in Nat /\ Len(t) \in Nat
         /\ Len(s \o t) = Len(s) + Len(t)
         /\ \A i \in 1 .. Len(s) : (s \o t)[i] = s[i]
         /\ \A i \in 1 .. Len(t) : (s \o t)[Len(s) + i] = t[i]
<1> DEFINE st == s \o t
           n == Len(s)
           m == Len(t)
<1>1. /\ st \in Seq(X) /\ Len(st) = Len(s) + Len(t)
      /\ \A i \in 1 .. Len(s) + Len(t) : st[i] = IF i <= Len(s) THEN s[i] ELSE t[i - Len(s)]
  BY ConcatProperties
<1>2. n \in Nat /\ m \in Nat
  BY LenProperties
<1> HIDE DEF st, n, m
<1>0. n = Len(s) /\ m = Len(t)
  BY DEF n, m
<1>3. \A i \in 1 .. n : st[i] = s[i]
  BY <1>0, <1>1, <1>2
<1>4. ASSUME NEW i \in 1 .. m PROVE st[n + i] = t[i]
  <2>1. n + i \in 1 .. n + m /\ ~(n + i <= n) /\ (n + i) - n = i
    BY <1>2
  <2> QED
    BY <1>0, <1>1, <2>1
<1> QED
  BY <1>0, <1>1, <1>2, <1>3, <1>4 DEF st

LEMMA LineLayout ==
  ASSUME NEW symbol \in Symbols
  PROVE  /\ <<symbol>> \o CRLF \in Seq(Symbols) /\ Len(<<symbol>> \o CRLF) = 3
         /\ (<<symbol>> \o CRLF)[1] = symbol /\ (<<symbol>> \o CRLF)[2] = "CR"
         /\ (<<symbol>> \o CRLF)[3] = "LF"
<1>1. CRLF \in Seq(Symbols) /\ Len(CRLF) = 2 /\ CRLF[1] = "CR" /\ CRLF[2] = "LF"
  BY DEF CRLF, Symbols, Bytes
<1>2. <<symbol>> \in Seq(Symbols) /\ Len(<<symbol>>) = 1 /\ <<symbol>>[1] = symbol
  OBVIOUS
<1> DEFINE line == <<symbol>> \o CRLF
<1> DEFINE s == <<symbol>>
<1> HIDE DEF CRLF, s
<1>5. s \in Seq(Symbols) /\ Len(s) = 1 /\ s[1] = symbol
  BY <1>2 DEF s
<1>6. /\ s \o CRLF \in Seq(Symbols) /\ Len(s \o CRLF) = Len(s) + Len(CRLF)
      /\ \A i \in 1 .. Len(s) : (s \o CRLF)[i] = s[i]
      /\ \A i \in 1 .. Len(CRLF) : (s \o CRLF)[Len(s) + i] = CRLF[i]
  BY <1>1, <1>5, ConcatIs
<1>7. s \o CRLF = line
  BY DEF s
<1>3. /\ line \in Seq(Symbols) /\ Len(line) = 1 + 2
      /\ \A i \in 1 .. 1 : line[i] = s[i]
      /\ \A i \in 1 .. 2 : line[1 + i] = CRLF[i]
  BY <1>1, <1>5, <1>6, <1>7
<1> HIDE DEF line
<1>4. line[1] = symbol /\ line[2] = "CR" /\ line[3] = "LF"
  <2>1. line[1 + 1] = CRLF[1] /\ line[1 + 2] = CRLF[2] /\ line[1] = s[1]
    BY <1>3
  <2> QED
    BY <1>1, <1>5, <2>1
<1> QED
  BY <1>3, <1>4 DEF line

LEMMA LinesLayout ==
  ASSUME NEW h \in Seq(HeaderLines)
  PROVE  /\ Lines(h) \in Seq(Symbols) /\ Len(Lines(h)) = 3 * Len(h)
         /\ \A j \in 0 .. Len(h) - 1 :
              /\ Lines(h)[3 * j + 1] = h[j + 1]
              /\ Lines(h)[3 * j + 2] = "CR" /\ Lines(h)[3 * j + 3] = "LF"
<1> DEFINE line(i) == <<h[i]>> \o CRLF
           s == [i \in DOMAIN h |-> line(i)]
<1>0. Len(h) \in Nat /\ DOMAIN h = 1 .. Len(h)
  OBVIOUS
<1>1. \A i \in 1 .. Len(h) :
        /\ line(i) \in Seq(Symbols) /\ Len(line(i)) = 3
        /\ line(i)[1] = h[i] /\ line(i)[2] = "CR" /\ line(i)[3] = "LF"
  <2> SUFFICES ASSUME NEW i \in 1 .. Len(h)
               PROVE  /\ line(i) \in Seq(Symbols) /\ Len(line(i)) = 3
                      /\ line(i)[1] = h[i] /\ line(i)[2] = "CR" /\ line(i)[3] = "LF"
    OBVIOUS
  <2>1. h[i] \in Symbols
    BY DEF Symbols
  <2> QED
    BY <2>1, LineLayout
<1> HIDE DEF line
<1>2. s \in Seq(Seq(Symbols)) /\ Len(s) = Len(h) /\ \A i \in 1 .. Len(h) : s[i] = line(i)
  BY <1>0, <1>1
<1>3. Lines(h) = FlattenSeq(s)
  BY DEF Lines, line
<1> HIDE DEF s
<1> DEFINE T == {n \in 0 .. Len(h) : Len(Flat(s, n)) = 3 * n}
<1>4. 0 \in T
  <2>1. Flat(s, 0) = <<>>
    BY <1>2, FlatNone
  <2> QED
    BY <1>0, <2>1
<1>5. ASSUME NEW n \in 0 .. Len(h) - 1, n \in T PROVE n + 1 \in T
  <2>1. Len(Flat(s, n + 1)) = Len(Flat(s, n)) + Len(s[n + 1])
    BY <1>2, FlatStep
  <2>2. n + 1 \in 1 .. Len(h) /\ Len(s[n + 1]) = 3
    BY <1>0, <1>1, <1>2
  <2> QED
    BY <1>5, <2>1, <2>2
<1>6. \A n \in 0 .. Len(h) : Len(Flat(s, n)) = 3 * n
  <2>1. \A n \in 0 .. Len(h) : n \in T
    <3> HIDE DEF T
    <3> QED
      BY <1>0, <1>4, <1>5, AllUpTo
  <2> QED
    BY <2>1
<1>7. Lines(h) \in Seq(Symbols) /\ Len(Lines(h)) = 3 * Len(h)
  <2>1. Len(h) \in 0 .. Len(h)
    BY <1>0
  <2>2. Flat(s, Len(h)) = Lines(h) /\ Flat(s, Len(h)) \in Seq(Symbols)
    BY <1>2, <1>3, <2>1, FlatAll, FlatType
  <2> QED
    BY <1>6, <2>1, <2>2
<1>8. ASSUME NEW j \in 0 .. Len(h) - 1
      PROVE  /\ Lines(h)[3 * j + 1] = h[j + 1]
             /\ Lines(h)[3 * j + 2] = "CR" /\ Lines(h)[3 * j + 3] = "LF"
  <2>1. j \in 0 .. Len(h) /\ j + 1 \in 1 .. Len(h)
    BY <1>0
  <2>2. Len(Flat(s, j)) = 3 * j /\ s[j + 1] = line(j + 1)
    BY <1>2, <1>6, <2>1
  <2>3. \A i \in 1 .. Len(s[j + 1]) : Lines(h)[Len(Flat(s, j)) + i] = s[j + 1][i]
    <3>1. j \in 0 .. Len(s) - 1
      BY <1>2
    <3> QED
      BY <1>2, <1>3, <3>1, FlatPiece
  <2>4. Len(s[j + 1]) = 3
    BY <1>1, <2>1, <2>2
  <2>5. /\ Lines(h)[3 * j + 1] = s[j + 1][1]
        /\ Lines(h)[3 * j + 2] = s[j + 1][2] /\ Lines(h)[3 * j + 3] = s[j + 1][3]
    BY <2>2, <2>3, <2>4
  <2> QED
    BY <1>1, <2>1, <2>2, <2>5
<1> QED
  BY <1>7, <1>8

\* The symbols before the body.
HeadLen(r) == 3 * Len(r.headers) + 5
Head0(r) == <<r.start>> \o CRLF \o Lines(r.headers) \o CRLF
Rest(r) == IF Chunked(r) THEN Chunks(r) ELSE r.body

LEMMA HeadLayout ==
  ASSUME NEW r, r.start \in StartLines, r.headers \in Seq(HeaderLines)
  PROVE  /\ Head0(r) \in Seq(Symbols) /\ Len(Head0(r)) = HeadLen(r)
         /\ Head0(r)[1] = r.start /\ Head0(r)[2] = "CR" /\ Head0(r)[3] = "LF"
         /\ \A j \in 1 .. Len(r.headers) :
              /\ Head0(r)[3 * j + 1] = r.headers[j]
              /\ Head0(r)[3 * j + 2] = "CR" /\ Head0(r)[3 * j + 3] = "LF"
         /\ Head0(r)[3 * Len(r.headers) + 4] = "CR" /\ Head0(r)[3 * Len(r.headers) + 5] = "LF"
<1> DEFINE a == <<r.start>> \o CRLF
           b == Lines(r.headers)
           ab == a \o b
           H == Len(r.headers)
           h == r.headers
<1>1. /\ a \in Seq(Symbols) /\ Len(a) = 3
      /\ a[1] = r.start /\ a[2] = "CR" /\ a[3] = "LF"
  <2>1. r.start \in Symbols
    BY DEF Symbols
  <2> QED
    BY <2>1, LineLayout
<1>2. /\ b \in Seq(Symbols) /\ Len(b) = 3 * H /\ H \in Nat
      /\ \A j \in 0 .. H - 1 : /\ b[3 * j + 1] = h[j + 1]
                               /\ b[3 * j + 2] = "CR" /\ b[3 * j + 3] = "LF"
  BY LinesLayout
<1>3. CRLF \in Seq(Symbols) /\ Len(CRLF) = 2 /\ CRLF[1] = "CR" /\ CRLF[2] = "LF"
  BY DEF CRLF, Symbols, Bytes
<1> DEFINE all == ab \o CRLF
<1>4. Head0(r) = all
  BY DEF Head0
<1> HIDE DEF a, b, H, h
<1>5. /\ ab \in Seq(Symbols) /\ Len(ab) = 3 + 3 * H
      /\ \A i \in 1 .. 3 : ab[i] = a[i]
      /\ \A i \in 1 .. 3 * H : ab[3 + i] = b[i]
  <2>1. /\ ab \in Seq(Symbols) /\ Len(ab) = Len(a) + Len(b)
        /\ \A i \in 1 .. Len(a) : ab[i] = a[i]
        /\ \A i \in 1 .. Len(b) : ab[Len(a) + i] = b[i]
    <3>1. a \in Seq(Symbols) /\ b \in Seq(Symbols)
      BY <1>1, <1>2
    <3> QED
      BY <3>1, ConcatIs
  <2> HIDE DEF ab
  <2> QED
    BY <1>1, <1>2, <2>1
<1> HIDE DEF ab
<1>6. /\ all \in Seq(Symbols) /\ Len(all) = (3 + 3 * H) + 2
      /\ \A i \in 1 .. 3 + 3 * H : all[i] = ab[i]
      /\ \A i \in 1 .. 2 : all[(3 + 3 * H) + i] = CRLF[i]
  <2>1. /\ all \in Seq(Symbols) /\ Len(all) = Len(ab) + Len(CRLF)
        /\ \A i \in 1 .. Len(ab) : all[i] = ab[i]
        /\ \A i \in 1 .. Len(CRLF) : all[Len(ab) + i] = CRLF[i]
    <3>1. ab \in Seq(Symbols) /\ CRLF \in Seq(Symbols)
      BY <1>3, <1>5
    <3> QED
      BY <3>1, ConcatIs
  <2> HIDE DEF all
  <2> QED
    BY <1>3, <1>5, <2>1
<1> HIDE DEF all
<1>7. all[1] = a[1] /\ all[2] = a[2] /\ all[3] = a[3]
  BY <1>2, <1>5, <1>6
<1>8. all[3 * H + 4] = CRLF[1] /\ all[3 * H + 5] = CRLF[2]
  <2>1. (3 + 3 * H) + 1 = 3 * H + 4 /\ (3 + 3 * H) + 2 = 3 * H + 5
    BY <1>2
  <2>2. all[(3 + 3 * H) + 1] = CRLF[1] /\ all[(3 + 3 * H) + 2] = CRLF[2]
    BY <1>6
  <2> QED
    BY <2>1, <2>2
<1>9. ASSUME NEW j \in 1 .. H
      PROVE all[3 * j + 1] = h[j] /\ all[3 * j + 2] = "CR" /\ all[3 * j + 3] = "LF"
  <2> DEFINE k == j - 1
  <2>1. k \in 0 .. H - 1 /\ k + 1 = j /\ 3 * j = 3 * k + 3
    BY <1>2
  <2> HIDE DEF k
  <2>2. ASSUME NEW i \in 1 .. 3 PROVE all[3 * j + i] = b[3 * k + i]
    <3>1. /\ 3 * k + i \in 1 .. 3 * H /\ 3 * j + i \in 1 .. 3 + 3 * H
          /\ 3 * j + i = 3 + (3 * k + i)
      BY <1>2, <2>1
    <3>2. all[3 * j + i] = ab[3 * j + i]
      BY <1>6, <3>1
    <3>3. ab[3 + (3 * k + i)] = b[3 * k + i]
      BY <1>5, <3>1
    <3> QED
      BY <3>1, <3>2, <3>3
  <2>3. /\ all[3 * j + 1] = b[3 * k + 1] /\ all[3 * j + 2] = b[3 * k + 2]
        /\ all[3 * j + 3] = b[3 * k + 3]
    BY <2>2
  <2> QED
    BY <1>2, <2>1, <2>3
<1> QED
  BY <1>1, <1>2, <1>3, <1>4, <1>6, <1>7, <1>8, <1>9 DEF HeadLen, H, h

LEMMA ThenSymbol ==
  ASSUME NEW s \in Seq(Symbols), NEW symbol \in Symbols
  PROVE  /\ s \o <<symbol>> \in Seq(Symbols) /\ Len(s) \in Nat
         /\ Len(s \o <<symbol>>) = Len(s) + 1
         /\ \A i \in 1 .. Len(s) : (s \o <<symbol>>)[i] = s[i]
         /\ (s \o <<symbol>>)[Len(s) + 1] = symbol
<1> DEFINE t == <<symbol>>
<1>1. t \in Seq(Symbols) /\ Len(t) = 1 /\ t[1] = symbol
  OBVIOUS
<1> HIDE DEF t
<1>2. /\ s \o t \in Seq(Symbols) /\ Len(s) \in Nat
      /\ Len(s \o t) = Len(s) + Len(t)
      /\ \A i \in 1 .. Len(s) : (s \o t)[i] = s[i]
      /\ \A i \in 1 .. Len(t) : (s \o t)[Len(s) + i] = t[i]
  <2>1. t \in Seq(Symbols)
    BY <1>1
  <2> QED
    BY <2>1, ConcatIs
<1>3. (s \o t)[Len(s) + 1] = symbol
  BY <1>1, <1>2
<1> QED
  BY <1>1, <1>2, <1>3 DEF t

LEMMA ThenCRLF ==
  ASSUME NEW s \in Seq(Symbols)
  PROVE  /\ s \o CRLF \in Seq(Symbols) /\ Len(s) \in Nat
         /\ Len(s \o CRLF) = Len(s) + 2
         /\ \A i \in 1 .. Len(s) : (s \o CRLF)[i] = s[i]
         /\ (s \o CRLF)[Len(s) + 1] = "CR" /\ (s \o CRLF)[Len(s) + 2] = "LF"
<1>1. CRLF \in Seq(Symbols) /\ Len(CRLF) = 2 /\ CRLF[1] = "CR" /\ CRLF[2] = "LF"
  BY DEF CRLF, Symbols, Bytes
<1>2. /\ s \o CRLF \in Seq(Symbols) /\ Len(s) \in Nat
      /\ Len(s \o CRLF) = Len(s) + Len(CRLF)
      /\ \A i \in 1 .. Len(s) : (s \o CRLF)[i] = s[i]
      /\ \A i \in 1 .. Len(CRLF) : (s \o CRLF)[Len(s) + i] = CRLF[i]
  <2>1. CRLF \in Seq(Symbols)
    BY <1>1
  <2> QED
    BY <2>1, ConcatIs
<1> QED
  BY <1>1, <1>2

\* The chunk size line, the data and the line end.
Piece(chunk) == <<"x">> \o CRLF \o chunk \o CRLF
Pieces(r) == [i \in DOMAIN r.chunks |-> Piece(r.chunks[i])]

LEMMA PieceLayout ==
  ASSUME NEW chunk \in Seq(Bytes)
  PROVE  /\ Piece(chunk) \in Seq(Symbols) /\ Len(chunk) \in Nat
         /\ Len(Piece(chunk)) = Len(chunk) + 5
         /\ Piece(chunk)[1] = "x" /\ Piece(chunk)[2] = "CR" /\ Piece(chunk)[3] = "LF"
         /\ \A i \in 1 .. Len(chunk) : Piece(chunk)[3 + i] = chunk[i]
         /\ Piece(chunk)[Len(chunk) + 4] = "CR" /\ Piece(chunk)[Len(chunk) + 5] = "LF"
<1> DEFINE a == <<"x">> \o CRLF
           ab == a \o chunk
           n == Len(chunk)
           all == ab \o CRLF
<1>1. a \in Seq(Symbols) /\ Len(a) = 3 /\ a[1] = "x" /\ a[2] = "CR" /\ a[3] = "LF"
  <2>1. "x" \in Symbols
    BY DEF Symbols, Bytes
  <2> QED
    BY <2>1, LineLayout
<1>2. chunk \in Seq(Symbols) /\ n \in Nat
  <2>1. Bytes \subseteq Symbols
    BY DEF Symbols
  <2> QED
    BY <2>1, SeqMonotonic, LenProperties
<1>3. all = Piece(chunk)
  BY DEF Piece
<1> HIDE DEF a
<1>4. /\ ab \in Seq(Symbols) /\ Len(ab) = Len(a) + Len(chunk)
      /\ \A i \in 1 .. Len(a) : ab[i] = a[i]
      /\ \A i \in 1 .. Len(chunk) : ab[Len(a) + i] = chunk[i]
  <2>1. a \in Seq(Symbols) /\ chunk \in Seq(Symbols)
    BY <1>1, <1>2
  <2> QED
    BY <2>1, ConcatIs
<1> HIDE DEF ab
<1>5. /\ Len(ab) = 3 + n /\ ab[1] = "x" /\ ab[2] = "CR" /\ ab[3] = "LF"
      /\ \A i \in 1 .. n : ab[3 + i] = chunk[i]
  BY <1>1, <1>2, <1>4
<1>6. /\ all \in Seq(Symbols) /\ Len(all) = Len(ab) + 2
      /\ \A i \in 1 .. Len(ab) : all[i] = ab[i]
      /\ all[Len(ab) + 1] = "CR" /\ all[Len(ab) + 2] = "LF"
  BY <1>4, ThenCRLF
<1> HIDE DEF all, n
<1>7. all[1] = "x" /\ all[2] = "CR" /\ all[3] = "LF" /\ Len(all) = n + 5
  BY <1>2, <1>5, <1>6
<1>8. ASSUME NEW i \in 1 .. n PROVE all[3 + i] = chunk[i]
  <2>1. 3 + i \in 1 .. Len(ab)
    BY <1>2, <1>5
  <2> QED
    BY <1>5, <1>6, <2>1
<1>9. all[n + 4] = "CR" /\ all[n + 5] = "LF"
  <2>1. Len(ab) + 1 = n + 4 /\ Len(ab) + 2 = n + 5
    BY <1>2, <1>5
  <2> QED
    BY <1>6, <2>1
<1> QED
  BY <1>2, <1>3, <1>6, <1>7, <1>8, <1>9 DEF n

LEMMA PiecesAre ==
  ASSUME NEW r, r.chunks \in Seq(Seq(Bytes))
  PROVE  /\ Pieces(r) \in Seq(Seq(Symbols)) /\ Len(Pieces(r)) = Len(r.chunks)
         /\ Len(r.chunks) \in Nat /\ DOMAIN r.chunks = 1 .. Len(r.chunks)
         /\ \A c \in 1 .. Len(r.chunks) :
              Pieces(r)[c] = Piece(r.chunks[c]) /\ r.chunks[c] \in Seq(Bytes)
<1> DEFINE chunks == r.chunks
           piece(i) == Piece(chunks[i])
<1>1. Len(chunks) \in Nat /\ DOMAIN chunks = 1 .. Len(chunks)
      /\ \A c \in 1 .. Len(chunks) : chunks[c] \in Seq(Bytes)
  OBVIOUS
<1>2. \A c \in 1 .. Len(chunks) : piece(c) \in Seq(Symbols)
  BY <1>1, PieceLayout
<1>3. Pieces(r) = [i \in 1 .. Len(chunks) |-> piece(i)]
  BY <1>1 DEF Pieces
<1> HIDE DEF chunks, piece
<1>4. /\ Pieces(r) \in Seq(Seq(Symbols)) /\ Len(Pieces(r)) = Len(chunks)
      /\ \A c \in 1 .. Len(chunks) : Pieces(r)[c] = piece(c)
  BY <1>1, <1>2, <1>3
<1> QED
  BY <1>1, <1>4 DEF chunks, piece

LEMMA ChunksLayout ==
  ASSUME NEW r, r.chunks \in Seq(Seq(Bytes))
  PROVE  LET F == FlattenSeq(Pieces(r))
             n == Len(F)
         IN  /\ F \in Seq(Symbols) /\ n \in Nat
             /\ Chunks(r) \in Seq(Symbols) /\ Len(Chunks(r)) = n + 5
             /\ \A i \in 1 .. n : Chunks(r)[i] = F[i]
             /\ Chunks(r)[n + 1] = "x" /\ Chunks(r)[n + 2] = "CR" /\ Chunks(r)[n + 3] = "LF"
             /\ Chunks(r)[n + 4] = "CR" /\ Chunks(r)[n + 5] = "LF"
<1> DEFINE F == FlattenSeq(Pieces(r))
           n == Len(F)
           a == F \o <<"x">>
           b == a \o CRLF
           all == b \o CRLF
<1>1. F \in Seq(Symbols) /\ n \in Nat
  <2>1. Pieces(r) \in Seq(Seq(Symbols)) /\ Len(Pieces(r)) \in 0 .. Len(Pieces(r))
    BY PiecesAre
  <2>2. F \in Seq(Symbols)
    BY <2>1, FlatAll, FlatType
  <2> QED
    BY <2>2, LenProperties
<1>2. all = Chunks(r)
  BY DEF Chunks, Pieces, Piece
<1> HIDE DEF F
<1>3. /\ a \in Seq(Symbols) /\ Len(a) = n + 1 /\ a[n + 1] = "x"
      /\ \A i \in 1 .. n : a[i] = F[i]
  <2>1. "x" \in Symbols
    BY DEF Symbols, Bytes
  <2> QED
    BY <1>1, <2>1, ThenSymbol
<1> HIDE DEF a, n
<1>4. /\ b \in Seq(Symbols) /\ Len(b) = Len(a) + 2
      /\ b[Len(a) + 1] = "CR" /\ b[Len(a) + 2] = "LF"
      /\ \A i \in 1 .. Len(a) : b[i] = a[i]
  BY <1>3, ThenCRLF
<1> HIDE DEF b
<1>5. /\ all \in Seq(Symbols) /\ Len(all) = Len(b) + 2
      /\ all[Len(b) + 1] = "CR" /\ all[Len(b) + 2] = "LF"
      /\ \A i \in 1 .. Len(b) : all[i] = b[i]
  BY <1>4, ThenCRLF
<1> HIDE DEF all
<1>6. /\ Len(b) = n + 3 /\ b[n + 2] = "CR" /\ b[n + 3] = "LF" /\ b[n + 1] = "x"
      /\ \A i \in 1 .. n : b[i] = F[i]
  <2>1. Len(a) + 1 = n + 2 /\ Len(a) + 2 = n + 3 /\ n + 1 \in 1 .. Len(a)
        /\ \A i \in 1 .. n : i \in 1 .. Len(a)
    BY <1>1, <1>3
  <2> QED
    BY <1>3, <1>4, <2>1
<1>7. /\ Len(all) = n + 5 /\ all[n + 4] = "CR" /\ all[n + 5] = "LF"
      /\ all[n + 1] = "x" /\ all[n + 2] = "CR" /\ all[n + 3] = "LF"
      /\ \A i \in 1 .. n : all[i] = F[i]
  <2>1. /\ Len(b) + 1 = n + 4 /\ Len(b) + 2 = n + 5
        /\ n + 1 \in 1 .. Len(b) /\ n + 2 \in 1 .. Len(b) /\ n + 3 \in 1 .. Len(b)
        /\ \A i \in 1 .. n : i \in 1 .. Len(b)
    BY <1>1, <1>6
  <2> QED
    BY <1>5, <1>6, <2>1
<1> QED
  BY <1>1, <1>2, <1>5, <1>7 DEF F, n

LEMMA RestType ==
  ASSUME NEW r, Sendable(r)
  PROVE  Rest(r) \in Seq(Symbols) /\ Len(Rest(r)) \in Nat
<1>1. r.body \in Seq(Bytes) /\ r.chunks \in Seq(Seq(Bytes)) /\ Bytes \subseteq Symbols
  BY DEF Sendable, Symbols
<1>2. r.body \in Seq(Symbols)
  BY <1>1, SeqMonotonic
<1>3. Chunks(r) \in Seq(Symbols)
  BY <1>1, ChunksLayout
<1>4. Rest(r) \in Seq(Symbols)
  BY <1>2, <1>3 DEF Rest
<1> QED
  BY <1>4, LenProperties

LEMMA EncodeLayout ==
  ASSUME NEW r, Sendable(r)
  PROVE  /\ Encode(r) \in Seq(Symbols) /\ HeadLen(r) \in Nat /\ Len(Rest(r)) \in Nat
         /\ Len(Encode(r)) = HeadLen(r) + Len(Rest(r))
         /\ \A i \in 1 .. HeadLen(r) : Encode(r)[i] = Head0(r)[i]
         /\ \A i \in 1 .. Len(Rest(r)) : Encode(r)[HeadLen(r) + i] = Rest(r)[i]
<1>1. Head0(r) \in Seq(Symbols) /\ Len(Head0(r)) = HeadLen(r)
  BY HeadLayout DEF Sendable
<1>2. Rest(r) \in Seq(Symbols)
  BY RestType
<1>3. Encode(r) = Head0(r) \o Rest(r)
  BY DEF Encode, Head0, Rest
<1>4. /\ Head0(r) \o Rest(r) \in Seq(Symbols) /\ Len(Head0(r)) \in Nat /\ Len(Rest(r)) \in Nat
      /\ Len(Head0(r) \o Rest(r)) = Len(Head0(r)) + Len(Rest(r))
      /\ \A i \in 1 .. Len(Head0(r)) : (Head0(r) \o Rest(r))[i] = Head0(r)[i]
      /\ \A i \in 1 .. Len(Rest(r)) : (Head0(r) \o Rest(r))[Len(Head0(r)) + i] = Rest(r)[i]
  <2>1. Head0(r) \in Seq(Symbols)
    BY <1>1
  <2> QED
    BY <2>1, <1>2, ConcatIs
<1> QED
  BY <1>1, <1>3, <1>4

\* Requests one after the other.
Connection(s) == s \in Seq(ToSet(s)) /\ \A n \in DOMAIN s : Sendable(s[n])
Encodings(s) == [i \in DOMAIN s |-> Encode(s[i])]
EndAt(s, n) == Len(Stream(SubSeq(s, 1, n)))

LEMMA EncodingsAre ==
  ASSUME NEW s, Connection(s)
  PROVE  /\ Len(s) \in Nat /\ DOMAIN s = 1 .. Len(s)
         /\ Encodings(s) \in Seq(Seq(Symbols)) /\ Len(Encodings(s)) = Len(s)
         /\ \A i \in 1 .. Len(s) : Encodings(s)[i] = Encode(s[i])
         /\ Stream(s) = FlattenSeq(Encodings(s))
<1>1. Len(s) \in Nat /\ DOMAIN s = 1 .. Len(s)
  BY DEF Connection
<1> DEFINE code(i) == Encode(s[i])
<1>2. \A i \in 1 .. Len(s) : code(i) \in Seq(Symbols)
  BY <1>1, EncodeLayout DEF Connection
<1>3. Encodings(s) = [i \in 1 .. Len(s) |-> code(i)]
  BY <1>1 DEF Encodings
<1> HIDE DEF code
<1>4. /\ Encodings(s) \in Seq(Seq(Symbols)) /\ Len(Encodings(s)) = Len(s)
      /\ \A i \in 1 .. Len(s) : Encodings(s)[i] = code(i)
  BY <1>1, <1>2, <1>3
<1>5. Stream(s) = FlattenSeq(Encodings(s))
  BY DEF Stream, Encodings
<1> QED
  BY <1>1, <1>4, <1>5 DEF code

LEMMA EndAtIs ==
  ASSUME NEW s, Connection(s), NEW n \in 0 .. Len(s)
  PROVE  Stream(SubSeq(s, 1, n)) = Flat(Encodings(s), n)
<1> DEFINE t == SubSeq(s, 1, n)
           u == SubSeq(Encodings(s), 1, n)
<1>1. /\ Len(s) \in Nat /\ n \in Nat /\ Encodings(s) \in Seq(Seq(Symbols))
      /\ Len(Encodings(s)) = Len(s) /\ n \in 0 .. Len(Encodings(s))
      /\ \A i \in 1 .. Len(s) : Encodings(s)[i] = Encode(s[i])
  BY EncodingsAre
<1>2. t \in Seq(ToSet(s)) /\ Len(t) = n /\ \A i \in 1 .. n : t[i] = s[i]
  BY FirstPieces DEF Connection
<1>3. u \in Seq(Seq(Symbols)) /\ Len(u) = n /\ \A i \in 1 .. n : u[i] = Encodings(s)[i]
  BY <1>1, FirstPieces
<1> HIDE DEF t, u
<1>4. DOMAIN t = 1 .. n
  BY <1>2
<1> DEFINE code(i) == Encode(t[i])
<1>5. ASSUME NEW i \in 1 .. n PROVE u[i] = code(i)
  <2>1. i \in 1 .. Len(s)
    BY <1>1
  <2>2. u[i] = Encode(s[i]) /\ t[i] = s[i]
    BY <1>1, <1>2, <1>3, <2>1
  <2> QED
    BY <2>2
<1>6. u = [i \in 1 .. n |-> u[i]]
  BY <1>3
<1>7. Encodings(t) = [i \in 1 .. n |-> code(i)]
  BY <1>4 DEF Encodings
<1>8. u = Encodings(t)
  <2> HIDE DEF code
  <2> QED
    BY <1>5, <1>6, <1>7
<1>9. Stream(t) = FlattenSeq(Encodings(t))
  BY DEF Stream, Encodings
<1> QED
  BY <1>8, <1>9 DEF Flat, t, u

LEMMA StreamLayout ==
  ASSUME NEW s, Connection(s), NEW n \in 0 .. Len(s) - 1
  PROVE  /\ EndAt(s, n) \in Nat /\ Len(Encode(s[n + 1])) \in Nat
         /\ EndAt(s, n + 1) = EndAt(s, n) + Len(Encode(s[n + 1]))
         /\ EndAt(s, n + 1) <= Len(Stream(s))
         /\ \A i \in 1 .. Len(Encode(s[n + 1])) :
              Stream(s)[EndAt(s, n) + i] = Encode(s[n + 1])[i]
<1> DEFINE E == Encodings(s)
<1>1. /\ Len(s) \in Nat /\ E \in Seq(Seq(Symbols)) /\ Len(E) = Len(s)
      /\ Stream(s) = FlattenSeq(E) /\ n \in 0 .. Len(E) - 1
      /\ n \in 0 .. Len(s) /\ n + 1 \in 0 .. Len(s) /\ n + 1 \in 1 .. Len(s)
  BY EncodingsAre
<1>2. E[n + 1] = Encode(s[n + 1])
  BY <1>1, EncodingsAre
<1>3. EndAt(s, n) = Len(Flat(E, n)) /\ EndAt(s, n + 1) = Len(Flat(E, n + 1))
  BY <1>1, EndAtIs DEF EndAt
<1> HIDE DEF E
<1>4. /\ Flat(E, n) \in Seq(Symbols) /\ E[n + 1] \in Seq(Symbols)
      /\ Len(Flat(E, n + 1)) = Len(Flat(E, n)) + Len(E[n + 1])
  BY <1>1, FlatStep
<1>5. /\ Len(Flat(E, n)) + Len(E[n + 1]) <= Len(FlattenSeq(E))
      /\ \A i \in 1 .. Len(E[n + 1]) : FlattenSeq(E)[Len(Flat(E, n)) + i] = E[n + 1][i]
  BY <1>1, FlatPiece
<1>6. Len(Flat(E, n)) \in Nat /\ Len(E[n + 1]) \in Nat
  BY <1>4, LenProperties
<1> QED
  BY <1>1, <1>2, <1>3, <1>4, <1>5, <1>6

LEMMA StreamEnds ==
  ASSUME NEW s, Connection(s)
  PROVE  EndAt(s, 0) = 0 /\ EndAt(s, Len(s)) = Len(Stream(s)) /\ Stream(s) \in Seq(Symbols)
<1> DEFINE E == Encodings(s)
<1>1. /\ Len(s) \in Nat /\ E \in Seq(Seq(Symbols)) /\ Len(E) = Len(s)
      /\ Stream(s) = FlattenSeq(E)
  BY EncodingsAre
<1>2. 0 \in 0 .. Len(s) /\ Len(s) \in 0 .. Len(s)
  BY <1>1
<1>3. EndAt(s, 0) = Len(Flat(E, 0)) /\ EndAt(s, Len(s)) = Len(Flat(E, Len(s)))
  BY <1>2, EndAtIs DEF EndAt
<1> HIDE DEF E
<1>4. Flat(E, 0) = <<>> /\ Flat(E, Len(s)) = FlattenSeq(E) /\ Flat(E, Len(s)) \in Seq(Symbols)
  BY <1>1, <1>2, FlatNone, FlatAll, FlatType
<1> QED
  BY <1>1, <1>3, <1>4

\* Where chunk c + 1 starts.
ChunkStart(r, c) == HeadLen(r) + Len(Flat(Pieces(r), c))

\* How chunk c + 1 lies in the encoding.
ChunkIn(r, c) ==
  LET at == ChunkStart(r, c)
      chunk == r.chunks[c + 1]
      e == Encode(r)
  IN  /\ at \in Nat /\ at >= HeadLen(r) /\ chunk \in Seq(Bytes) /\ Len(chunk) \in Nat
      /\ ChunkStart(r, c + 1) = at + Len(chunk) + 5
      /\ at + Len(chunk) + 5 <= Len(e)
      /\ e[at + 1] = "x" /\ e[at + 2] = "CR" /\ e[at + 3] = "LF"
      /\ \A i \in 1 .. Len(chunk) : e[at + 3 + i] = chunk[i]
      /\ e[at + Len(chunk) + 4] = "CR" /\ e[at + Len(chunk) + 5] = "LF"

LEMMA ChunkLayout ==
  ASSUME NEW r, Sendable(r), Chunked(r), NEW c \in 0 .. Len(r.chunks) - 1
  PROVE  ChunkIn(r, c)
<1> DEFINE P == Pieces(r)
           F == FlattenSeq(P)
           k == Len(Flat(P, c))
           H == HeadLen(r)
           chunk == r.chunks[c + 1]
           L == Len(chunk)
           e == Encode(r)
           at == ChunkStart(r, c)
<1>0. r.chunks \in Seq(Seq(Bytes))
  BY DEF Sendable
<1>1. /\ P \in Seq(Seq(Symbols)) /\ Len(P) = Len(r.chunks) /\ Len(P) \in Nat
      /\ \A d \in 1 .. Len(r.chunks) : P[d] = Piece(r.chunks[d]) /\ r.chunks[d] \in Seq(Bytes)
  BY <1>0, PiecesAre
<1>2. c + 1 \in 1 .. Len(r.chunks) /\ c \in 0 .. Len(P) - 1
  BY <1>1
<1>3. P[c + 1] = Piece(chunk) /\ chunk \in Seq(Bytes) /\ L \in Nat
  BY <1>1, <1>2, LenProperties
<1>4. /\ Len(Piece(chunk)) = L + 5
      /\ Piece(chunk)[1] = "x" /\ Piece(chunk)[2] = "CR" /\ Piece(chunk)[3] = "LF"
      /\ \A i \in 1 .. L : Piece(chunk)[3 + i] = chunk[i]
      /\ Piece(chunk)[L + 4] = "CR" /\ Piece(chunk)[L + 5] = "LF"
  BY <1>3, PieceLayout
<1>5. Len(Flat(P, c + 1)) = k + Len(P[c + 1]) /\ k \in Nat
  <2> HIDE DEF P
  <2> QED
    BY <1>1, <1>2, FlatStep, LenProperties
<1>6. k + Len(P[c + 1]) <= Len(F) /\ \A i \in 1 .. Len(P[c + 1]) : F[k + i] = P[c + 1][i]
  <2> HIDE DEF P
  <2> QED
    BY <1>1, <1>2, FlatPiece
<1>7. /\ Rest(r) = Chunks(r) /\ Len(F) \in Nat /\ Len(Rest(r)) = Len(F) + 5
      /\ \A i \in 1 .. Len(F) : Rest(r)[i] = F[i]
  BY <1>0, ChunksLayout DEF Rest
<1>8. /\ H \in Nat /\ Len(e) = H + Len(Rest(r))
      /\ \A i \in 1 .. Len(Rest(r)) : e[H + i] = Rest(r)[i]
  BY EncodeLayout
<1>9. at = H + k /\ ChunkStart(r, c + 1) = H + Len(Flat(P, c + 1))
  BY DEF ChunkStart
<1> HIDE DEF P, F, k, H, chunk, L, e, at
<1>10. ASSUME NEW i \in 1 .. L + 5 PROVE e[at + i] = Piece(chunk)[i]
  <2>1. k + i \in 1 .. Len(F) /\ k + i \in 1 .. Len(Rest(r)) /\ at + i = H + (k + i)
    BY <1>3, <1>4, <1>5, <1>6, <1>7, <1>8, <1>9
  <2>2. i \in 1 .. Len(P[c + 1])
    BY <1>3, <1>4
  <2> QED
    BY <1>3, <1>6, <1>7, <1>8, <2>1, <2>2
<1>11. /\ at \in Nat /\ at >= H /\ ChunkStart(r, c + 1) = at + L + 5 /\ at + L + 5 <= Len(e)
  <2>1. Len(P[c + 1]) = L + 5
    BY <1>3, <1>4
  <2>2. at = H + k /\ ChunkStart(r, c + 1) = H + (k + (L + 5))
    BY <1>5, <1>9, <2>1
  <2>3. k + (L + 5) <= Len(F) /\ Len(e) = H + (Len(F) + 5)
    BY <1>6, <1>7, <1>8, <2>1
  <2>4. L \in Nat /\ k \in Nat /\ Len(F) \in Nat /\ H \in Nat
    BY <1>3, <1>5, <1>7, <1>8
  <2> QED
    BY ONLY <2>2, <2>3, <2>4
<1>12. e[at + 1] = "x" /\ e[at + 2] = "CR" /\ e[at + 3] = "LF"
  BY <1>3, <1>4, <1>10
<1>13. ASSUME NEW i \in 1 .. L PROVE e[at + 3 + i] = chunk[i]
  <2>1. 3 + i \in 1 .. L + 5 /\ at + (3 + i) = at + 3 + i
    BY <1>3, <1>11
  <2>2. e[at + (3 + i)] = Piece(chunk)[3 + i]
    BY <1>10, <2>1
  <2> QED
    BY <1>4, <2>1, <2>2
<1>14. e[at + L + 4] = "CR" /\ e[at + L + 5] = "LF"
  <2>1. /\ L + 4 \in 1 .. L + 5 /\ L + 5 \in 1 .. L + 5
        /\ at + (L + 4) = at + L + 4 /\ at + (L + 5) = at + L + 5
    BY <1>3, <1>11
  <2>2. e[at + (L + 4)] = Piece(chunk)[L + 4] /\ e[at + (L + 5)] = Piece(chunk)[L + 5]
    BY <1>10, <2>1
  <2> QED
    BY <1>4, <2>1, <2>2
<1> QED
  BY <1>3, <1>11, <1>12, <1>13, <1>14 DEF chunk, L, e, at, H, ChunkIn

LEMMA LastChunkLayout ==
  ASSUME NEW r, Sendable(r), Chunked(r)
  PROVE  LET at == ChunkStart(r, Len(r.chunks))
             e == Encode(r)
         IN  /\ ChunkStart(r, 0) = HeadLen(r)
             /\ at \in Nat /\ at >= HeadLen(r) /\ Len(e) = at + 5
             /\ e[at + 1] = "x" /\ e[at + 2] = "CR" /\ e[at + 3] = "LF"
             /\ e[at + 4] = "CR" /\ e[at + 5] = "LF"
<1> DEFINE P == Pieces(r)
           F == FlattenSeq(P)
           n == Len(F)
           H == HeadLen(r)
           e == Encode(r)
           at == ChunkStart(r, Len(r.chunks))
<1>0. r.chunks \in Seq(Seq(Bytes))
  BY DEF Sendable
<1>1. P \in Seq(Seq(Symbols)) /\ Len(P) = Len(r.chunks)
  BY <1>0, PiecesAre
<1>2. Flat(P, 0) = <<>> /\ Flat(P, Len(r.chunks)) = F
  <2> HIDE DEF P
  <2> QED
    BY <1>1, FlatNone, FlatAll
<1>3. /\ Rest(r) = Chunks(r) /\ n \in Nat /\ Len(Rest(r)) = n + 5
      /\ Rest(r)[n + 1] = "x" /\ Rest(r)[n + 2] = "CR" /\ Rest(r)[n + 3] = "LF"
      /\ Rest(r)[n + 4] = "CR" /\ Rest(r)[n + 5] = "LF"
  BY <1>0, ChunksLayout DEF Rest
<1>4. /\ H \in Nat /\ Len(e) = H + Len(Rest(r))
      /\ \A i \in 1 .. Len(Rest(r)) : e[H + i] = Rest(r)[i]
  BY EncodeLayout
<1>5. at = H + n /\ ChunkStart(r, 0) = H + 0
  BY <1>2 DEF ChunkStart
<1> HIDE DEF P, F, n, H, e, at
<1>6. ASSUME NEW i \in 1 .. 5 PROVE e[at + i] = Rest(r)[n + i]
  <2>1. n + i \in 1 .. Len(Rest(r)) /\ at + i = H + (n + i)
    BY <1>3, <1>4, <1>5
  <2> QED
    BY <1>4, <2>1
<1>7. /\ e[at + 1] = "x" /\ e[at + 2] = "CR" /\ e[at + 3] = "LF"
      /\ e[at + 4] = "CR" /\ e[at + 5] = "LF"
  BY <1>3, <1>6
<1>8. at \in Nat /\ at >= H /\ Len(e) = at + 5 /\ ChunkStart(r, 0) = H
  BY <1>3, <1>4, <1>5
<1> QED
  BY <1>7, <1>8 DEF H, e, at

-----------------------------------------------------------------------------

\* The first j headers are good, each by itself and with the others.
HeadersGood(r, j) ==
  \A i, k \in 1 .. j :
    /\ r.headers[i] # "NOCOLON"
    /\ r.headers[i] = r.headers[k] => i = k
    /\ {r.headers[i], r.headers[k]} \subseteq ContentLengths => i = k

\* The status they leave, once the start line was taken.
StatusAfter(r, j) ==
  IF ~HeadersGood(r, j) THEN "BAD_REQUEST_400"
  ELSE IF r.start \in {"PATCH", "OPTIONS"} THEN "METHOD_NOT_ALLOWED_405"
  ELSE "NO_PROBLEM"

\* hs has what was stored of the first j headers: of the Content-Lengths the first.
HeadersRead(r, j, hs) ==
  /\ \A i \in 1 .. j :
       /\ r.headers[i] \notin ContentLengths \cup {"NOCOLON"} => r.headers[i] \in hs
       /\ r.headers[i] \in ContentLengths
            /\ (\A k \in 1 .. i - 1 : r.headers[k] \notin ContentLengths) =>
            hs \cap ContentLengths = {r.headers[i]}
  /\ \A h \in hs : \E i \in 1 .. j : r.headers[i] = h

Current == requests[Len(parsed) + 1]

\* Where the parser is in request r.
InRequest(r) ==
  /\ line_len <= Len(Encode(r))
  /\ pc = "loop" => offset < line_len /\ validation_phase # "COMPLETE"
  /\ validation_phase = "READY" /\ r.start # "BADLINE" =>
       offset = 0 /\ status = "NO_PROBLEM" /\ headers = {} /\ body = <<>>
  /\ validation_phase # "READY" => method = r.start /\ r.start # "BADLINE"
  /\ validation_phase = "ON_HEADER" =>
       /\ body = <<>>
       /\ \E j \in 0 .. Len(r.headers) :
            offset = 3 * j + 3 /\ HeadersRead(r, j, headers) /\ status = StatusAfter(r, j)
  /\ validation_phase = "ON_BODY" =>
       /\ ~Chunked(r) /\ offset >= HeadLen(r)
       /\ body = SubSeq(r.body, 1, offset - HeadLen(r))
       /\ headers \cap ContentLengths = {} => r.body = <<>>
       /\ headers \cap ContentLengths # {} =>
            ContentLength = Len(r.body) /\ status = StatusAfter(r, Len(r.headers))
  /\ validation_phase = "ON_CHUNKED_BODY" =>
       /\ Chunked(r) /\ status = StatusAfter(r, Len(r.headers))
       /\ \E c \in 0 .. Len(r.chunks) : offset = ChunkStart(r, c) /\ body = Flat(r.chunks, c)
  /\ validation_phase = "COMPLETE" =>
       /\ line_len = Len(Encode(r)) /\ status = ExpectedStatus(r)
       /\ status = "NO_PROBLEM" => body = ExpectedBody(r)

\* The requests parsed are done with, and the parser is in the next one.
ParsingInv ==
  /\ requests \in Sessions /\ input = Stream(requests)
  /\ Len(parsed) <= Len(requests) /\ Aligned /\ Faithful
  /\ Len(parsed) = Len(requests) => pc = "recv" /\ validation_phase = "READY"
  /\ Len(parsed) < Len(requests) => InRequest(Current)

\* What is in the pool is what was sent of r.
Receiving(r) == \A i \in 0 .. line_len - 1 : TotalLine(i) = Encode(r)[i + 1]

\* Where findNewline, sent to the beginning of a line of m symbols, ends up: at its
\* end, or nowhere when the end is not there yet.
LEMMA FindLine ==
  ASSUME TypeOK, NEW r, Receiving(r), NEW from \in Nat, NEW m \in Nat, from + m > 0,
         Encode(r)[from + m + 1] = "CR", Encode(r)[from + m + 2] = "LF",
         \A k \in 1 .. m : ~(Encode(r)[from + k] = "CR" /\ Encode(r)[from + k + 1] = "LF"),
         NEW i \in Nat, FindNewline(from, i)
  PROVE  \/ i = from + m /\ i + 2 <= line_len
         \/ i = 0 /\ line_len < from + m + 2
<1> DEFINE e == Encode(r)
<1>0. line_len \in Nat
  BY DEF TypeOK
<1>1. \A k \in 0 .. line_len - 2 : NewlineAt(k) <=> (e[k + 1] = "CR" /\ e[k + 2] = "LF")
  <2> SUFFICES ASSUME NEW k \in 0 .. line_len - 2
               PROVE  NewlineAt(k) <=> (e[k + 1] = "CR" /\ e[k + 2] = "LF")
    OBVIOUS
  <2>1. k \in 0 .. line_len - 1 /\ k + 1 \in 0 .. line_len - 1 /\ (k + 1) + 1 = k + 2
    BY <1>0
  <2>2. TotalLine(k) = e[k + 1] /\ TotalLine(k + 1) = e[(k + 1) + 1]
    BY <2>1 DEF Receiving
  <2> QED
    BY <2>1, <2>2 DEF NewlineAt
<1>2. \A k \in from .. from + m - 1 : ~(e[k + 1] = "CR" /\ e[k + 2] = "LF")
  <2> SUFFICES ASSUME NEW k \in from .. from + m - 1
               PROVE  ~(e[k + 1] = "CR" /\ e[k + 2] = "LF")
    OBVIOUS
  <2> DEFINE l == k - from + 1
  <2>1. l \in 1 .. m /\ from + l = k + 1 /\ from + l + 1 = k + 2
    OBVIOUS
  <2> HIDE DEF l
  <2> QED
    BY <2>1
<1>3. e[(from + m) + 1] = "CR" /\ e[(from + m) + 2] = "LF" /\ from + m \in Nat
  OBVIOUS
<1> HIDE DEF e
<1>4. from + m + 2 <= line_len => NewlineAt(from + m)
  <2>1. from + m + 2 <= line_len => from + m \in 0 .. line_len - 2
    BY <1>0, <1>3
  <2> QED
    BY <1>1, <1>3, <2>1
<1>5. ASSUME NEW k \in from .. from + m - 1, k <= line_len - 2 PROVE ~NewlineAt(k)
  <2>1. k \in 0 .. line_len - 2
    BY <1>0, <1>5
  <2> QED
    BY <1>1, <1>2, <2>1
<1>6. CASE /\ i \in from .. line_len - 2 /\ NewlineAt(i)
           /\ \A j \in from .. i - 1 : ~NewlineAt(j)
  <2>1. i >= from + m
    <3> SUFFICES ASSUME i < from + m PROVE FALSE
      BY <1>0, <1>6
    <3>1. i \in from .. from + m - 1 /\ i <= line_len - 2
      BY <1>0, <1>6
    <3> QED
      BY <1>5, <1>6, <3>1
  <2>2. i <= from + m
    <3> SUFFICES ASSUME i > from + m PROVE FALSE
      BY <1>0, <1>6
    <3>1. from + m \in from .. i - 1 /\ from + m + 2 <= line_len
      BY <1>0, <1>6
    <3> QED
      BY <1>4, <1>6, <3>1
  <2> QED
    BY <1>0, <1>6, <2>1, <2>2
<1>7. CASE i = 0 /\ \A j \in from .. line_len - 2 : ~NewlineAt(j)
  <2>1. from + m + 2 <= line_len => from + m \in from .. line_len - 2
    BY <1>0
  <2> QED
    BY <1>0, <1>4, <1>7, <2>1
<1> QED
  BY <1>6, <1>7 DEF FindNewline

\* Header j + 1 is refused when it is one too many, and only then.
LEMMA HeadersReadNext ==
  ASSUME NEW r, r.headers \in Seq(HeaderLines), NEW j \in 0 .. Len(r.headers) - 1, NEW hs,
         HeadersRead(r, j, hs), NEW h, h = r.headers[j + 1]
  PROVE  /\ h = "NOCOLON" \/ h \in hs \/ (h \in ContentLengths /\ hs \cap ContentLengths # {}) =>
              HeadersRead(r, j + 1, hs) /\ ~HeadersGood(r, j + 1)
         /\ ~(h = "NOCOLON" \/ h \in hs \/ (h \in ContentLengths /\ hs \cap ContentLengths # {})) =>
              /\ HeadersRead(r, j + 1, hs \cup {h})
              /\ HeadersGood(r, j) <=> HeadersGood(r, j + 1)
<1> DEFINE Bad == h = "NOCOLON" \/ h \in hs
                    \/ (h \in ContentLengths /\ hs \cap ContentLengths # {})
           H(i) == r.headers[i]
<1>0. Len(r.headers) \in Nat /\ j \in Nat /\ j + 1 \in 1 .. j + 1 /\ 1 .. j \subseteq 1 .. j + 1
      /\ (\A i \in 1 .. j + 1 : i \in 1 .. j \/ i = j + 1) /\ j + 1 \notin 1 .. j
      /\ "NOCOLON" \notin ContentLengths
  BY DEF ContentLengths
<1>0a. \A i \in 1 .. j + 1 : 1 .. i - 1 \subseteq 1 .. j /\ 1 .. i - 1 \subseteq 1 .. j + 1
  BY <1>0
<1>0b. \A i, k \in 1 .. j : k \notin 1 .. i - 1 /\ i \notin 1 .. k - 1 => i = k
  BY <1>0
<1>1. /\ \A i \in 1 .. j : H(i) \notin ContentLengths \cup {"NOCOLON"} => H(i) \in hs
      /\ \A i \in 1 .. j :
           H(i) \in ContentLengths /\ (\A k \in 1 .. i - 1 : H(k) \notin ContentLengths) =>
             hs \cap ContentLengths = {H(i)}
      /\ \A g \in hs : \E i \in 1 .. j : H(i) = g
  BY DEF HeadersRead
<1>2. H(j + 1) = h
  OBVIOUS
<1>g. \A n \in {j, j + 1} : HeadersGood(r, n) <=> (\A i, k \in 1 .. n :
         /\ H(i) # "NOCOLON" /\ (H(i) = H(k) => i = k)
         /\ ({H(i), H(k)} \subseteq ContentLengths => i = k))
  BY DEF HeadersGood
<1>r. \A gs : HeadersRead(r, j + 1, gs) <=>
        (/\ \A i \in 1 .. j + 1 :
              /\ H(i) \notin ContentLengths \cup {"NOCOLON"} => H(i) \in gs
              /\ H(i) \in ContentLengths /\ (\A k \in 1 .. i - 1 : H(k) \notin ContentLengths) =>
                   gs \cap ContentLengths = {H(i)}
         /\ \A g \in gs : \E i \in 1 .. j + 1 : H(i) = g)
  BY DEF HeadersRead
<1>z. j \in {j, j + 1} /\ j + 1 \in {j, j + 1} /\ 1 .. (j + 1) - 1 = 1 .. j
  BY <1>0
<1> HIDE DEF H
<1>3. ASSUME Bad PROVE ~HeadersGood(r, j + 1)
  <2>1. CASE h = "NOCOLON"
    BY <1>0, <1>2, <1>g, <1>z, <2>1
  <2>2. CASE h \in hs
    <3>1. PICK i \in 1 .. j : H(i) = h
      BY <1>1, <2>2
    <3>2. i \in 1 .. j + 1 /\ i # j + 1
      BY <1>0
    <3> QED
      BY <1>0, <1>2, <1>g, <1>z, <3>1, <3>2
  <2>3. CASE h \in ContentLengths /\ hs \cap ContentLengths # {}
    <3>1. PICK g \in hs : g \in ContentLengths
      BY <2>3
    <3>2. PICK i \in 1 .. j : H(i) = g
      BY <1>1
    <3>3. i \in 1 .. j + 1 /\ i # j + 1 /\ {H(i), H(j + 1)} \subseteq ContentLengths
      BY <1>0, <1>2, <2>3, <3>1, <3>2
    <3> QED
      BY <1>0, <1>g, <1>z, <3>3
  <2> QED
    BY <1>3, <2>1, <2>2, <2>3
<1>4. ASSUME Bad PROVE HeadersRead(r, j + 1, hs)
  <2>1. ASSUME NEW i \in 1 .. j + 1, H(i) \notin ContentLengths \cup {"NOCOLON"} PROVE H(i) \in hs
    BY <1>0, <1>1, <1>2, <1>4, <2>1
  <2>2. ASSUME NEW i \in 1 .. j + 1, H(i) \in ContentLengths,
               \A k \in 1 .. i - 1 : H(k) \notin ContentLengths
        PROVE  hs \cap ContentLengths = {H(i)}
    <3>1. CASE i \in 1 .. j
      BY <1>1, <2>2, <3>1
    <3>2. CASE i = j + 1
      <4>1. h \in ContentLengths /\ \A k \in 1 .. j : H(k) \notin ContentLengths
        BY <1>2, <1>z, <2>2, <3>2
      <4>2. hs \cap ContentLengths = {}
        BY <1>1, <4>1
      <4> QED
        BY <1>0, <1>4, <4>1, <4>2
    <3> QED
      BY <1>0, <3>1, <3>2
  <2>3. \A g \in hs : \E i \in 1 .. j + 1 : H(i) = g
    BY <1>0, <1>1
  <2> QED
    BY <1>r, <2>1, <2>2, <2>3
<1>5. ASSUME ~Bad PROVE HeadersRead(r, j + 1, hs \cup {h})
  <2>1. ASSUME NEW i \in 1 .. j + 1, H(i) \notin ContentLengths \cup {"NOCOLON"}
        PROVE  H(i) \in hs \cup {h}
    BY <1>0, <1>1, <1>2, <2>1
  <2>2. ASSUME NEW i \in 1 .. j + 1, H(i) \in ContentLengths,
               \A k \in 1 .. i - 1 : H(k) \notin ContentLengths
        PROVE  (hs \cup {h}) \cap ContentLengths = {H(i)}
    <3>1. CASE i \in 1 .. j
      <4>1. hs \cap ContentLengths = {H(i)}
        BY <1>1, <2>2, <3>1
      <4> QED
        BY <1>5, <4>1
    <3>2. CASE i = j + 1
      <4>1. h \in ContentLengths /\ \A k \in 1 .. j : H(k) \notin ContentLengths
        BY <1>2, <1>z, <2>2, <3>2
      <4>2. hs \cap ContentLengths = {}
        BY <1>1, <4>1
      <4> QED
        BY <1>2, <3>2, <4>1, <4>2
    <3> QED
      BY <1>0, <3>1, <3>2
  <2>3. \A g \in hs \cup {h} : \E i \in 1 .. j + 1 : H(i) = g
    BY <1>0, <1>1, <1>2
  <2> QED
    BY <1>r, <2>1, <2>2, <2>3
<1>6. HeadersGood(r, j + 1) => HeadersGood(r, j)
  BY <1>0, <1>g, <1>z
<1>7. ASSUME ~Bad, HeadersGood(r, j) PROVE HeadersGood(r, j + 1)
  <2>1. \A i, k \in 1 .. j : /\ H(i) # "NOCOLON" /\ (H(i) = H(k) => i = k)
                             /\ ({H(i), H(k)} \subseteq ContentLengths => i = k)
    BY <1>7, <1>g, <1>z
  <2>2. ASSUME NEW i \in 1 .. j, H(i) \in ContentLengths PROVE hs \cap ContentLengths = {H(i)}
    <3>1. ASSUME NEW k \in 1 .. i - 1 PROVE H(k) \notin ContentLengths
      <4>1. k \in 1 .. j /\ k # i
        BY <1>0
      <4> QED
        BY <2>1, <2>2, <4>1
    <3> QED
      BY <1>1, <2>2, <3>1
  <2>3. ASSUME NEW i \in 1 .. j
        PROVE  H(i) # h /\ ~({H(i), h} \subseteq ContentLengths)
    <3>1. H(i) # "NOCOLON"
      BY <2>1
    <3>2. ASSUME H(i) \in ContentLengths PROVE h \notin ContentLengths
      BY <1>7, <2>2, <3>2
    <3>3. ASSUME H(i) \notin ContentLengths PROVE H(i) # h
      BY <1>1, <1>7, <3>1, <3>3
    <3> QED
      BY <3>2, <3>3
  <2>4. ASSUME NEW i \in 1 .. j + 1, NEW k \in 1 .. j + 1
        PROVE  /\ H(i) # "NOCOLON" /\ (H(i) = H(k) => i = k)
               /\ ({H(i), H(k)} \subseteq ContentLengths => i = k)
    BY <1>0, <1>2, <1>7, <2>1, <2>3
  <2> QED
    BY <1>g, <1>z, <2>4
<1> QED
  BY <1>3, <1>4, <1>5, <1>6, <1>7

LEMMA StatusExpected ==
  ASSUME NEW r, Sendable(r), r.start # "BADLINE"
  PROVE  ExpectedStatus(r) = StatusAfter(r, Len(r.headers))
<1>1. DOMAIN r.headers = 1 .. Len(r.headers)
  BY DEF Sendable
<1>2. WellFormed(r) <=> HeadersGood(r, Len(r.headers))
  BY <1>1 DEF WellFormed, HeadersGood
<1> QED
  BY <1>2 DEF ExpectedStatus, StatusAfter

\* atol() of the one Content-Length stored.
LEMMA ContentLengthIs ==
  ASSUME NEW h \in ContentLengths, headers \cap ContentLengths = {h}
  PROVE  ContentLength = Length[h]
<1>1. CASE h = "CL0"
  <2>1. "CL1" \notin headers /\ "CL2" \notin headers
    BY <1>1 DEF ContentLengths
  <2>2. ContentLength = 0
    BY <2>1, Zenon DEF ContentLength
  <2> QED
    BY <1>1, <2>2 DEF Length
<1>2. CASE h = "CL1"
  <2>1. "CL1" \in headers /\ "CL2" \notin headers
    BY <1>2 DEF ContentLengths
  <2>2. ContentLength = 1
    BY <2>1, Zenon DEF ContentLength
  <2> QED
    BY <1>2, <2>2 DEF Length
<1>3. CASE h = "CL2"
  <2>1. "CL1" \notin headers /\ "CL2" \in headers
    BY <1>3 DEF ContentLengths
  <2>2. ContentLength = 2
    BY <2>1, Zenon DEF ContentLength
  <2> QED
    BY <1>3, <2>2 DEF Length
<1> QED
  BY <1>1, <1>2, <1>3 DEF ContentLengths

\* What the stored headers say of the body, once all were read.
LEMMA HeadersTell ==
  ASSUME NEW r, Sendable(r), NEW hs, HeadersRead(r, Len(r.headers), hs)
  PROVE  /\ "TE" \in hs <=> Chunked(r)
         /\ r.start \in {"GET", "PATCH"} => ~Chunked(r) /\ r.body = <<>>
         /\ r.start \notin {"GET", "PATCH"} /\ hs \cap ContentLengths # {} =>
              /\ ~Chunked(r)
              /\ \E h \in ContentLengths :
                   hs \cap ContentLengths = {h} /\ Len(r.body) = Length[h]
         /\ hs \cap ContentLengths = {} /\ ~Chunked(r) => r.body = <<>>
<1> DEFINE H(i) == r.headers[i]
           n == Len(r.headers)
           lengths == {i \in 1 .. n : H(i) \in ContentLengths}
<1>0. /\ n \in Nat /\ DOMAIN r.headers = 1 .. n /\ r.headers \in Seq(HeaderLines)
      /\ \A i \in 1 .. n : H(i) \in HeaderLines
      /\ r.body \in Seq(Bytes)
  BY DEF Sendable
<1>1. /\ \A i \in 1 .. n : H(i) \notin ContentLengths \cup {"NOCOLON"} => H(i) \in hs
      /\ \A i \in 1 .. n :
           H(i) \in ContentLengths /\ (\A k \in 1 .. i - 1 : H(k) \notin ContentLengths) =>
             hs \cap ContentLengths = {H(i)}
      /\ \A g \in hs : \E i \in 1 .. n : H(i) = g
  BY DEF HeadersRead
<1>2. IF Chunked(r)
        THEN r.start \notin {"GET", "PATCH"} /\ lengths = {}
        ELSE Len(r.body) = IF r.start \notin {"GET", "PATCH"} /\ lengths # {}
                             THEN Length[H(Min(lengths))] ELSE 0
  BY <1>0 DEF Sendable
<1>3. Len(r.body) = 0 => r.body = <<>>
  BY <1>0, EmptySeq
<1>4. "TE" \in hs <=> Chunked(r)
  BY <1>0, <1>1 DEF Chunked, ContentLengths
<1>5. lengths # {} =>
        /\ Min(lengths) \in lengths
        /\ \A k \in 1 .. Min(lengths) - 1 : H(k) \notin ContentLengths
  <2> SUFFICES ASSUME lengths # {} PROVE
        /\ Min(lengths) \in lengths
        /\ \A k \in 1 .. Min(lengths) - 1 : H(k) \notin ContentLengths
    OBVIOUS
  <2>1. PICK x \in lengths : \A y \in lengths : x <= y
    <3>1. lengths \subseteq Nat
      BY <1>0
    <3> HIDE DEF lengths
    <3> QED
      BY <3>1, LeastNatural
  <2>2. Min(lengths) \in lengths /\ \A y \in lengths : Min(lengths) <= y
    <3> HIDE DEF lengths
    <3> QED
      BY <2>1 DEF Min
  <2>3. ASSUME NEW k \in 1 .. Min(lengths) - 1 PROVE k \notin lengths /\ k \in 1 .. n
    <3> DEFINE m == Min(lengths)
    <3>1. m \in 1 .. n /\ \A y \in lengths : m <= y
      BY <2>2
    <3>2. k \in 1 .. m - 1
      OBVIOUS
    <3> HIDE DEF m, lengths
    <3> QED
      BY <1>0, <3>1, <3>2
  <2> QED
    BY <2>2, <2>3
<1>6. lengths # {} =>
        hs \cap ContentLengths = {H(Min(lengths))} /\ H(Min(lengths)) \in ContentLengths
  BY <1>1, <1>5
<1>7. hs \cap ContentLengths # {} => lengths # {}
  BY <1>1
<1> HIDE DEF lengths, H, n
<1>8. r.start \in {"GET", "PATCH"} => ~Chunked(r) /\ r.body = <<>>
  BY <1>2, <1>3
<1>9. ASSUME r.start \notin {"GET", "PATCH"}, hs \cap ContentLengths # {}
      PROVE  /\ ~Chunked(r)
             /\ \E h \in ContentLengths :
                  hs \cap ContentLengths = {h} /\ Len(r.body) = Length[h]
  BY <1>2, <1>6, <1>7, <1>9
<1>10. hs \cap ContentLengths = {} /\ ~Chunked(r) => r.body = <<>>
  BY <1>2, <1>3, <1>6
<1> QED
  BY <1>4, <1>8, <1>9, <1>10

\* The lines before the body, where they lie in the encoding.
LEMMA EncodedHead ==
  ASSUME NEW r, Sendable(r)
  PROVE  /\ Len(r.headers) \in Nat /\ HeadLen(r) = 3 * Len(r.headers) + 5
         /\ Len(Encode(r)) = HeadLen(r) + Len(Rest(r)) /\ Len(Rest(r)) \in Nat
         /\ Encode(r)[1] = r.start /\ Encode(r)[2] = "CR" /\ Encode(r)[3] = "LF"
         /\ r.start \in StartLines
         /\ \A j \in 1 .. Len(r.headers) :
              /\ Encode(r)[3 * j + 1] = r.headers[j] /\ r.headers[j] \in HeaderLines
              /\ Encode(r)[3 * j + 2] = "CR" /\ Encode(r)[3 * j + 3] = "LF"
         /\ Encode(r)[3 * Len(r.headers) + 4] = "CR" /\ Encode(r)[3 * Len(r.headers) + 5] = "LF"
<1> DEFINE n == Len(r.headers)
           e == Encode(r)
           h == Head0(r)
<1>1. n \in Nat /\ r.start \in StartLines /\ r.headers \in Seq(HeaderLines)
      /\ \A j \in 1 .. n : r.headers[j] \in HeaderLines
  BY DEF Sendable
<1>2. /\ h[1] = r.start /\ h[2] = "CR" /\ h[3] = "LF"
      /\ \A j \in 1 .. n :
           h[3 * j + 1] = r.headers[j] /\ h[3 * j + 2] = "CR" /\ h[3 * j + 3] = "LF"
      /\ h[3 * n + 4] = "CR" /\ h[3 * n + 5] = "LF"
  BY <1>1, HeadLayout
<1>3. /\ Len(e) = HeadLen(r) + Len(Rest(r)) /\ Len(Rest(r)) \in Nat
      /\ \A i \in 1 .. HeadLen(r) : e[i] = h[i]
  BY EncodeLayout
<1>4. HeadLen(r) = 3 * n + 5
  BY DEF HeadLen
<1> HIDE DEF n, e, h
<1>5. e[1] = h[1] /\ e[2] = h[2] /\ e[3] = h[3] /\ e[3 * n + 4] = h[3 * n + 4]
      /\ e[3 * n + 5] = h[3 * n + 5]
  BY <1>1, <1>3, <1>4
<1>6. ASSUME NEW j \in 1 .. n
      PROVE  e[3 * j + 1] = h[3 * j + 1] /\ e[3 * j + 2] = h[3 * j + 2]
             /\ e[3 * j + 3] = h[3 * j + 3]
  <2>1. 3 * j + 1 \in 1 .. HeadLen(r) /\ 3 * j + 2 \in 1 .. HeadLen(r)
        /\ 3 * j + 3 \in 1 .. HeadLen(r)
    BY <1>1, <1>4
  <2> QED
    BY <1>3, <2>1
<1>7. \A j \in 1 .. n :
        /\ e[3 * j + 1] = r.headers[j] /\ r.headers[j] \in HeaderLines
        /\ e[3 * j + 2] = "CR" /\ e[3 * j + 3] = "LF"
  BY <1>1, <1>2, <1>6
<1> QED
  BY <1>1, <1>2, <1>3, <1>4, <1>5, <1>7 DEF n, e, h

\* While r is received the parser stays within r, whatever the turn.
LEMMA ReadBufferInRequest ==
  ASSUME NEW r, Sendable(r), IInv, InRequest(r), ReadBuffer, ~Pipelining,
         base + Len(Encode(r)) = EndOf(Len(parsed) + 1), Len(Encode(r)) \in Nat
  PROVE  InRequest(r)'
<1>1. PICK k \in 1 .. MaxRecv : base + line_len + k <= EndOf(Len(parsed) + 1)
                                /\ line_len' = line_len + k
  BY DEF ReadBuffer
<1>2. /\ pc' = "loop" /\ validation_phase # "COMPLETE"
      /\ UNCHANGED <<requests, input, base, offset, request, parsed>>
  BY DEF ReadBuffer
<1>3. k \in Nat \ {0} /\ base \in Nat /\ line_len \in Nat /\ offset <= line_len /\ offset \in Nat
  BY ParserAssumption DEF IInv, TypeOK, OffsetInPool
<1>4. line_len' <= Len(Encode(r)) /\ offset < line_len'
  BY <1>1, <1>3
<1>5. UNCHANGED <<validation_phase, status, method, headers, body, offset>>
  BY <1>2 DEF request
<1> QED
  BY <1>2, <1>4, <1>5 DEF InRequest, ContentLength

\* The start line, good or not there yet.
LEMMA ParseFirstLineInRequest ==
  ASSUME NEW r, Sendable(r), IInv, IInv', InRequest(r), Receiving(r), ParseFirstLine
  PROVE  InRequest(r)'
<1> DEFINE e == Encode(r)
<1>0. /\ pc = "loop" /\ validation_phase = "READY"
      /\ UNCHANGED <<requests, input, base, line_len, parsed>>
  BY DEF ParseFirstLine, Turn
<1>1. /\ line_len <= Len(e) /\ line_len \in Nat /\ TypeOK
      /\ offset' \in Nat /\ offset' <= line_len
  BY <1>0 DEF InRequest, IInv, TypeOK, OffsetInPool
<1>2. e[1] = r.start /\ e[2] = "CR" /\ e[3] = "LF" /\ r.start \in StartLines
      /\ Len(r.headers) \in Nat
  BY EncodedHead
<1> HIDE DEF e
<1>3. PICK crlf \in 0 .. line_len :
        /\ FindNewline(offset, crlf)
        /\ \/ /\ crlf = 0 /\ Throw
              /\ UNCHANGED <<offset, request>>
           \/ /\ crlf # 0 /\ ~GoodStartLine(crlf)
              /\ offset' = crlf + 2
              /\ status' = "BAD_REQUEST_400"
              /\ Throw
              /\ UNCHANGED <<validation_phase, method, headers, body>>
           \/ /\ crlf # 0 /\ GoodStartLine(crlf)
              /\ offset' = crlf + 2
              /\ method' = TotalLine(0)
              /\ status' = IF method' \in {"PATCH", "OPTIONS"}
                             THEN "METHOD_NOT_ALLOWED_405" ELSE status
              /\ validation_phase' = "ON_HEADER"
              /\ UNCHANGED <<headers, body>>
              /\ NextTurn
  BY DEF ParseFirstLine
<1>4. CASE crlf = 0 /\ Throw /\ UNCHANGED <<offset, request>>
  <2>1. pc' = "recv" /\ validation_phase' = "READY"
        /\ UNCHANGED <<validation_phase, status, method, headers, body, offset>>
    BY <1>0, <1>4 DEF Throw, request
  <2>2. line_len' <= Len(Encode(r))
    BY <1>0, <1>1 DEF e
  <2> QED
    BY <1>0, <2>1, <2>2 DEF InRequest
<1>5. CASE r.start = "BADLINE" /\ crlf # 0
  <2>1. GoodStartLine(crlf) => TotalLine(0) = e[0 + 1]
    <3> SUFFICES ASSUME GoodStartLine(crlf) PROVE 0 \in 0 .. line_len - 1
      BY DEF Receiving, e
    <3>1. crlf = 1
      BY DEF GoodStartLine
    <3> QED
      BY <1>1, <3>1
  <2>2. ~GoodStartLine(crlf)
    BY <1>2, <1>5, <2>1 DEF GoodStartLine
  <2>3. pc' = "recv" /\ validation_phase' = "READY"
    BY <1>0, <1>3, <1>5, <2>2 DEF Throw
  <2>4. line_len' <= Len(Encode(r))
    BY <1>0, <1>1 DEF e
  <2> QED
    BY <1>5, <2>3, <2>4 DEF InRequest
<1>6. CASE r.start # "BADLINE" /\ crlf # 0
  <2>1. offset = 0 /\ status = "NO_PROBLEM" /\ headers = {} /\ body = <<>>
    BY <1>0, <1>6 DEF InRequest
  <2>2. crlf = 1 /\ 3 <= line_len
    <3>1. /\ 0 + 1 > 0 /\ e[0 + 1 + 1] = "CR" /\ e[0 + 1 + 2] = "LF"
          /\ \A k \in 1 .. 1 : ~(e[0 + k] = "CR" /\ e[0 + k + 1] = "LF")
          /\ FindNewline(0, crlf) /\ crlf \in Nat /\ 0 \in Nat /\ 1 \in Nat
      BY <1>2, <1>3, <2>1 DEF StartLines
    <3>2. \/ crlf = 0 + 1 /\ crlf + 2 <= line_len
          \/ crlf = 0 /\ line_len < 0 + 1 + 2
      BY ONLY <1>1, <3>1, FindLine, Receiving(r) DEF e
    <3> QED
      BY <1>1, <1>6, <3>2
  <2>3. TotalLine(0) = r.start
    <3>1. 0 \in 0 .. line_len - 1
      BY <1>1, <2>2
    <3>2. TotalLine(0) = e[0 + 1]
      BY <3>1 DEF Receiving, e
    <3> QED
      BY <1>2, <3>2
  <2>4. GoodStartLine(crlf)
    BY <1>2, <1>6, <2>2, <2>3 DEF GoodStartLine
  <2>5. /\ offset' = 3 /\ method' = r.start /\ validation_phase' = "ON_HEADER"
        /\ status' = IF r.start \in {"PATCH", "OPTIONS"} THEN "METHOD_NOT_ALLOWED_405"
                     ELSE "NO_PROBLEM"
        /\ headers' = {} /\ body' = <<>> /\ NextTurn
    BY <1>3, <1>6, <2>1, <2>2, <2>3, <2>4
  <2>6. HeadersGood(r, 0) /\ HeadersRead(r, 0, {})
    BY DEF HeadersGood, HeadersRead
  <2>7. status' = StatusAfter(r, 0)
    BY <2>5, <2>6 DEF StatusAfter
  <2>8. \E j \in 0 .. Len(r.headers) :
          offset' = 3 * j + 3 /\ HeadersRead(r, j, headers') /\ status' = StatusAfter(r, j)
    <3>1. 0 \in 0 .. Len(r.headers) /\ offset' = 3 * 0 + 3
      BY <1>2, <2>5
    <3> QED
      BY <2>5, <2>6, <2>7, <3>1
  <2>9. pc' = "loop" => offset' < line_len'
    BY <1>0, <1>1, <2>5 DEF NextTurn
  <2>10. line_len' <= Len(Encode(r))
    BY <1>0, <1>1 DEF e
  <2> QED
    BY <1>6, <2>5, <2>8, <2>9, <2>10 DEF InRequest
<1> QED
  BY <1>3, <1>4, <1>5, <1>6

\* A header line.
LEMMA HeaderLineInRequest ==
  ASSUME NEW r, Sendable(r), IInv, IInv', InRequest(r), Receiving(r), ParseHeaders,
         NEW j \in 0 .. Len(r.headers) - 1, offset = 3 * j + 3,
         HeadersRead(r, j, headers), status = StatusAfter(r, j)
  PROVE  InRequest(r)'
<1> DEFINE e == Encode(r)
           h == r.headers[j + 1]
<1>0. /\ pc = "loop" /\ validation_phase = "ON_HEADER"
      /\ UNCHANGED <<requests, input, base, line_len, parsed, method, body>>
  BY DEF ParseHeaders, Turn
<1>1. /\ line_len <= Len(e) /\ line_len \in Nat /\ TypeOK
      /\ offset' \in Nat /\ offset' <= line_len
      /\ body = <<>> /\ method = r.start /\ r.start # "BADLINE"
      /\ offset < line_len
  BY <1>0 DEF InRequest, IInv, TypeOK, OffsetInPool
<1>2. /\ Len(r.headers) \in Nat /\ j \in Nat /\ j + 1 \in 1 .. Len(r.headers)
      /\ e[3 * (j + 1) + 1] = h /\ h \in HeaderLines
      /\ e[3 * (j + 1) + 2] = "CR" /\ e[3 * (j + 1) + 3] = "LF"
  <2>1. Len(r.headers) \in Nat
    BY EncodedHead
  <2>2. j \in Nat /\ j + 1 \in 1 .. Len(r.headers)
    BY <2>1
  <2> QED
    BY <2>1, <2>2, EncodedHead
<1>3. /\ 3 * (j + 1) + 1 = offset + 1 /\ 3 * (j + 1) + 2 = offset + 1 + 1
      /\ 3 * (j + 1) + 3 = offset + 1 + 2 /\ offset \in Nat /\ offset > 0
  BY <1>2
<1>3a. e[offset + 1] = h /\ e[offset + 1 + 1] = "CR" /\ e[offset + 1 + 2] = "LF"
  <2> HIDE DEF e, h
  <2> QED
    BY <1>2, <1>3
<1>3b. r.headers \in Seq(HeaderLines) /\ line_len' <= Len(Encode(r))
  BY <1>0, <1>1 DEF Sendable
<1> HIDE DEF e, h
<1>4. PICK crlf \in 0 .. line_len :
          /\ FindNewline(offset, crlf)
          /\ \/ /\ crlf = offset /\ CheckBodyType
                /\ offset' = offset + 2 /\ NextTurn
                /\ UNCHANGED headers
             \/ /\ crlf # offset /\ crlf = 0 /\ Throw
                /\ UNCHANGED <<offset, validation_phase, status, headers>>
             \/ /\ crlf # offset /\ crlf # 0 /\ BadHeader(crlf)
                /\ offset' = crlf + 2
                /\ status' = "BAD_REQUEST_400" /\ Throw
                /\ UNCHANGED <<validation_phase, headers>>
             \/ /\ crlf # offset /\ crlf # 0 /\ ~BadHeader(crlf)
                /\ offset' = crlf + 2
                /\ headers' = headers \cup {TotalLine(offset)} /\ NextTurn
                /\ UNCHANGED <<validation_phase, status>>
  BY DEF ParseHeaders
<1>5. crlf = offset + 1 \/ crlf = 0
  <2>1. /\ offset + 1 > 0 /\ offset \in Nat /\ 1 \in Nat /\ crlf \in Nat
        /\ \A k \in 1 .. 1 : ~(e[offset + k] = "CR" /\ e[offset + k + 1] = "LF")
    BY <1>2, <1>3, <1>3a DEF HeaderLines
  <2>2. FindNewline(offset, crlf)
    BY <1>4
  <2>3. \/ crlf = offset + 1 /\ crlf + 2 <= line_len
        \/ crlf = 0 /\ line_len < offset + 1 + 2
    BY ONLY <1>1, <1>3a, <2>1, <2>2, FindLine, Receiving(r) DEF e
  <2> QED
    BY <2>3
<1>6. crlf # offset
  BY <1>3, <1>5
<1>7. TotalLine(offset) = h
  <2>1. offset \in 0 .. line_len - 1
    BY <1>1, <1>3
  <2> QED
    BY <1>3a, <2>1 DEF Receiving, e
<1>8. crlf # 0 => (BadHeader(crlf) <=> \/ h = "NOCOLON" \/ h \in headers
                                       \/ h \in ContentLengths /\ headers \cap ContentLengths # {})
  BY <1>2, <1>5, <1>7 DEF BadHeader, IsHeader, Duplicate
<1> DEFINE Bad == \/ h = "NOCOLON" \/ h \in headers
                  \/ (h \in ContentLengths /\ headers \cap ContentLengths # {})
<1>9. /\ Bad => HeadersRead(r, j + 1, headers) /\ ~HeadersGood(r, j + 1)
      /\ ~Bad => /\ HeadersRead(r, j + 1, headers \cup {h})
                 /\ HeadersGood(r, j) <=> HeadersGood(r, j + 1)
  BY <1>3b, HeadersReadNext DEF h
<1> HIDE DEF Bad
<1>10. CASE crlf = 0
  <2>1. pc' = "recv" /\ UNCHANGED <<offset, validation_phase, status, headers, method, body>>
    BY <1>0, <1>4, <1>6, <1>10 DEF Throw
  <2>2. j \in 0 .. Len(r.headers) /\ offset' = 3 * j + 3 /\ HeadersRead(r, j, headers')
        /\ status' = StatusAfter(r, j)
    BY <1>2, <2>1
  <2> QED
    BY <1>0, <1>1, <1>3b, <2>1, <2>2 DEF InRequest
<1>11. CASE crlf # 0 /\ Bad
  <2>1. /\ offset' = crlf + 2 /\ status' = "BAD_REQUEST_400" /\ pc' = "recv"
        /\ UNCHANGED <<validation_phase, headers>>
    BY <1>4, <1>6, <1>8, <1>11 DEF Throw, Bad
  <2>2. /\ j + 1 \in 0 .. Len(r.headers) /\ offset' = 3 * (j + 1) + 3
        /\ HeadersRead(r, j + 1, headers') /\ status' = StatusAfter(r, j + 1)
    BY <1>2, <1>5, <1>9, <1>11, <2>1 DEF StatusAfter
  <2> QED
    BY <1>0, <1>1, <1>3b, <2>1, <2>2 DEF InRequest
<1>12. CASE crlf # 0 /\ ~Bad
  <2>1. /\ offset' = crlf + 2 /\ headers' = headers \cup {h} /\ NextTurn
        /\ UNCHANGED <<validation_phase, status>>
    BY <1>4, <1>6, <1>7, <1>8, <1>12 DEF Bad
  <2>2. /\ j + 1 \in 0 .. Len(r.headers) /\ offset' = 3 * (j + 1) + 3
        /\ HeadersRead(r, j + 1, headers') /\ status' = StatusAfter(r, j + 1)
    BY <1>2, <1>5, <1>9, <1>12, <2>1 DEF StatusAfter
  <2>3. pc' = "loop" => offset' < line_len'
    BY <1>0, <1>1, <2>1 DEF NextTurn
  <2> QED
    BY <1>0, <1>1, <1>3b, <2>1, <2>2, <2>3 DEF InRequest
<1> QED
  BY <1>10, <1>11, <1>12

\* The empty line after the headers.
LEMMA HeadersEndInRequest ==
  ASSUME NEW r, Sendable(r), IInv, IInv', InRequest(r), Receiving(r), ParseHeaders,
         NEW j, j = Len(r.headers), offset = 3 * j + 3,
         HeadersRead(r, j, headers), status = StatusAfter(r, j)
  PROVE  InRequest(r)'
<1> DEFINE e == Encode(r)
<1>0. /\ pc = "loop" /\ validation_phase = "ON_HEADER"
      /\ UNCHANGED <<requests, input, base, line_len, parsed, method, body>>
  BY DEF ParseHeaders, Turn
<1>1. /\ line_len <= Len(e) /\ line_len \in Nat /\ TypeOK
      /\ offset' \in Nat /\ offset' <= line_len
      /\ body = <<>> /\ method = r.start /\ r.start # "BADLINE"
      /\ offset < line_len
  BY <1>0 DEF InRequest, IInv, TypeOK, OffsetInPool
<1>2. /\ j \in Nat /\ HeadLen(r) = offset + 2 /\ offset \in Nat /\ offset > 0
      /\ e[offset + 1] = "CR" /\ e[offset + 2] = "LF"
      /\ Len(e) = HeadLen(r) + Len(Rest(r)) /\ Len(Rest(r)) \in Nat
  <2>1. /\ Len(r.headers) \in Nat /\ HeadLen(r) = 3 * Len(r.headers) + 5
        /\ e[3 * Len(r.headers) + 4] = "CR" /\ e[3 * Len(r.headers) + 5] = "LF"
        /\ Len(e) = HeadLen(r) + Len(Rest(r)) /\ Len(Rest(r)) \in Nat
    BY EncodedHead
  <2>2. 3 * Len(r.headers) + 4 = offset + 1 /\ 3 * Len(r.headers) + 5 = offset + 2
        /\ offset \in Nat /\ offset > 0
    BY <2>1
  <2> HIDE DEF e
  <2> QED
    BY <2>1, <2>2
<1>3. /\ line_len' <= Len(Encode(r)) /\ r.body \in Seq(Bytes)
  BY <1>0, <1>1 DEF Sendable
<1> HIDE DEF e
<1>4. PICK crlf \in 0 .. line_len :
          /\ FindNewline(offset, crlf)
          /\ \/ /\ crlf = offset /\ CheckBodyType
                /\ offset' = offset + 2 /\ NextTurn
                /\ UNCHANGED headers
             \/ /\ crlf # offset /\ crlf = 0 /\ Throw
                /\ UNCHANGED <<offset, validation_phase, status, headers>>
             \/ crlf # offset /\ crlf # 0
  BY DEF ParseHeaders
<1>5. crlf = offset \/ crlf = 0
  <2>1. /\ offset + 0 > 0 /\ offset \in Nat /\ 0 \in Nat /\ crlf \in Nat
        /\ e[offset + 0 + 1] = "CR" /\ e[offset + 0 + 2] = "LF"
        /\ \A k \in 1 .. 0 : ~(e[offset + k] = "CR" /\ e[offset + k + 1] = "LF")
    BY <1>2
  <2>2. FindNewline(offset, crlf)
    BY <1>4
  <2>3. \/ crlf = offset + 0 /\ crlf + 2 <= line_len
        \/ crlf = 0 /\ line_len < offset + 0 + 2
    BY ONLY <1>1, <2>1, <2>2, FindLine, Receiving(r) DEF e
  <2> QED
    BY <1>2, <2>3
<1>6. CASE crlf = 0
  <2>1. pc' = "recv" /\ UNCHANGED <<offset, validation_phase, status, headers, method, body>>
    BY <1>0, <1>2, <1>4, <1>6 DEF Throw
  <2>2. j \in 0 .. Len(r.headers) /\ offset' = 3 * j + 3 /\ HeadersRead(r, j, headers')
        /\ status' = StatusAfter(r, j)
    BY <1>2, <2>1
  <2> QED
    BY <1>0, <1>1, <1>3, <2>1, <2>2 DEF InRequest
<1>7. CASE crlf = offset
  <2>0. /\ CheckBodyType /\ offset' = HeadLen(r) /\ NextTurn /\ headers' = headers
    BY <1>2, <1>4, <1>7
  <2>1. /\ "TE" \in headers <=> Chunked(r)
        /\ r.start \in {"GET", "PATCH"} => ~Chunked(r) /\ r.body = <<>>
        /\ r.start \notin {"GET", "PATCH"} /\ headers \cap ContentLengths # {} =>
             /\ ~Chunked(r)
             /\ \E h \in ContentLengths :
                  headers \cap ContentLengths = {h} /\ Len(r.body) = Length[h]
        /\ headers \cap ContentLengths = {} /\ ~Chunked(r) => r.body = <<>>
    BY HeadersTell
  <2>2. HeadLen(r) <= line_len
    BY <1>1, <2>0
  <2>3. r.body = <<>> /\ ~Chunked(r) => line_len = Len(e)
    <3>1. r.body = <<>> /\ ~Chunked(r) => Len(Rest(r)) = 0
      BY DEF Rest
    <3> QED
      BY <1>1, <1>2, <2>2, <3>1
  <2>4. StatusAfter(r, j) = ExpectedStatus(r)
    BY <1>1, StatusExpected
  <2>5. line_len' = Len(Encode(r)) <=> line_len = Len(e)
    BY <1>0 DEF e
  <2>6. \E n \in 0 .. Len(r.headers) : n = j
    BY <1>2
  <2>7. validation_phase' # "COMPLETE" /\ pc' = "loop" => offset' < line_len'
    BY <1>0, <1>1, <2>0 DEF NextTurn
  <2>8. validation_phase' = "COMPLETE" => pc' = "recv"
    BY <2>0 DEF NextTurn
  <2>9. body' = <<>> /\ method' = r.start /\ headers' = headers
    BY <1>0, <1>1, <2>0
  <2>10. SubSeq(r.body, 1, offset' - HeadLen(r)) = <<>>
    <3>1. offset' - HeadLen(r) = 0
      BY <1>2, <2>0
    <3> QED
      BY <1>3, <3>1, SubSeqEmpty
  <2>11. CASE /\ method \in {"GET", "PATCH"} \/ "CL0" \in headers
              /\ validation_phase' = "COMPLETE" /\ UNCHANGED status
    <3>1. r.body = <<>> /\ ~Chunked(r)
      <4>1. CASE method \in {"GET", "PATCH"}
        BY <1>1, <2>1, <4>1
      <4>2. CASE r.start \notin {"GET", "PATCH"} /\ "CL0" \in headers
        <5>1. "CL0" \in ContentLengths /\ Length["CL0"] = 0
          BY DEF ContentLengths, Length
        <5>2. ~Chunked(r) /\ Len(r.body) = 0
          BY <2>1, <4>2, <5>1
        <5> QED
          BY <1>3, <5>2, EmptySeq
      <4> QED
        BY <1>1, <2>11, <4>1, <4>2
    <3>2. status' = ExpectedStatus(r) /\ body' = ExpectedBody(r)
      BY <2>4, <2>9, <2>11, <3>1 DEF ExpectedBody
    <3> QED
      BY <1>1, <1>3, <2>3, <2>5, <2>8, <2>9, <2>11, <3>1, <3>2 DEF InRequest
  <2>12. CASE /\ method \notin {"GET", "PATCH"} /\ headers \cap {"CL1", "CL2"} # {}
              /\ validation_phase' = "ON_BODY" /\ UNCHANGED status
    <3>1. headers \cap ContentLengths # {}
      BY <2>12 DEF ContentLengths
    <3>2. PICK h \in ContentLengths :
            headers \cap ContentLengths = {h} /\ Len(r.body) = Length[h]
      BY <1>1, <2>1, <2>12, <3>1
    <3>3. headers' \cap ContentLengths = {h}
      BY <2>9, <3>2
    <3>4. ContentLength' = Length[h]
      <4>1. ContentLength = Length[h]
        BY <3>2, ContentLengthIs
      <4> QED
        BY <2>9, <4>1 DEF ContentLength
    <3>5. ContentLength' = Len(r.body) /\ status' = StatusAfter(r, Len(r.headers))
          /\ headers' \cap ContentLengths # {}
      BY <2>12, <3>1, <3>2, <3>3, <3>4
    <3>6. ~Chunked(r)
      BY <1>1, <2>1, <2>12, <3>1
    <3>7. offset' >= HeadLen(r) /\ body' = SubSeq(r.body, 1, offset' - HeadLen(r))
      BY <1>2, <2>0, <2>9, <2>10
    <3> QED
      BY <1>1, <1>3, <2>7, <2>9, <2>12, <3>5, <3>6, <3>7 DEF InRequest
  <2>13. CASE /\ method \notin {"GET", "PATCH"} /\ headers \cap ContentLengths = {}
              /\ "TE" \in headers
              /\ validation_phase' = "ON_CHUNKED_BODY" /\ UNCHANGED status
    <3>1. Chunked(r)
      BY <2>1, <2>13
    <3>2. offset' = ChunkStart(r, 0)
      BY <2>0, <3>1, LastChunkLayout
    <3>3. body' = Flat(r.chunks, 0) /\ 0 \in 0 .. Len(r.chunks)
      <4>1. r.chunks \in Seq(Seq(Bytes))
        BY DEF Sendable
      <4>2. Flat(r.chunks, 0) = <<>>
        BY <4>1, FlatNone
      <4> QED
        BY <2>9, <4>1, <4>2
    <3>4. \E c \in 0 .. Len(r.chunks) : offset' = ChunkStart(r, c) /\ body' = Flat(r.chunks, c)
      BY <3>2, <3>3
    <3> QED
      BY <1>1, <1>3, <2>7, <2>9, <2>13, <3>1, <3>4 DEF InRequest
  <2>14. CASE /\ method \notin {"GET", "PATCH"} /\ headers \cap ContentLengths = {}
              /\ "TE" \notin headers
              /\ validation_phase' = "ON_BODY"
    <3>1. ~Chunked(r) /\ r.body = <<>> /\ headers' \cap ContentLengths = {}
      BY <2>1, <2>9, <2>14
    <3>2. offset' >= HeadLen(r) /\ body' = SubSeq(r.body, 1, offset' - HeadLen(r))
      BY <1>2, <2>0, <2>9, <2>10
    <3> QED
      BY <1>1, <1>3, <2>7, <2>9, <2>14, <3>1, <3>2 DEF InRequest
  <2> QED
    BY <2>0, <2>11, <2>12, <2>13, <2>14 DEF CheckBodyType
<1> QED
  BY <1>5, <1>6, <1>7

LEMMA ParseHeadersInRequest ==
  ASSUME NEW r, Sendable(r), IInv, IInv', InRequest(r), Receiving(r), ParseHeaders
  PROVE  InRequest(r)'
<1>1. validation_phase = "ON_HEADER"
  BY DEF ParseHeaders, Turn
<1>2. PICK j \in 0 .. Len(r.headers) :
        offset = 3 * j + 3 /\ HeadersRead(r, j, headers) /\ status = StatusAfter(r, j)
  BY <1>1 DEF InRequest
<1>3. Len(r.headers) \in Nat
  BY EncodedHead
<1>4. j \in 0 .. Len(r.headers) - 1 \/ j = Len(r.headers)
  BY <1>3
<1> QED
  BY <1>2, <1>4, HeaderLineInRequest, HeadersEndInRequest

\* The pool from a to b.
Received(a, b) == SubSeq(input, base + a + 1, base + b)

\* A piece of the pool is the same piece of what was sent.
LEMMA ReceivedPiece ==
  ASSUME TypeOK, OffsetInPool, NEW r, Receiving(r),
         NEW a \in Nat, NEW b \in Nat, a <= b, b <= line_len
  PROVE  /\ Received(a, b) \in Seq(Symbols) /\ Len(Received(a, b)) = b - a
         /\ \A i \in 1 .. b - a : Received(a, b)[i] = Encode(r)[a + i]
<1> DEFINE lo == base + a + 1
           hi == base + b
           p == SubSeq(input, lo, hi)
<1>0. base \in Nat /\ line_len \in Nat /\ base + line_len <= Len(input) /\ input \in Seq(Symbols)
  BY DEF TypeOK, OffsetInPool
<1>1. \A i \in lo .. hi : input[i] \in Symbols
  BY <1>0
<1>2. /\ p \in Seq(Symbols) /\ Len(p) = IF lo <= hi THEN hi - lo + 1 ELSE 0
      /\ \A i \in 1 .. hi - lo + 1 : p[i] = input[lo + i - 1]
  <2>1. lo \in Int /\ hi \in Int
    BY <1>0
  <2> HIDE DEF lo, hi
  <2> QED
    BY <1>1, <2>1, SubSeqProperties
<1>3. hi - lo + 1 = b - a /\ (lo > hi => b - a = 0)
  BY <1>0
<1> HIDE DEF p
<1>4. ASSUME NEW i \in 1 .. b - a PROVE p[i] = Encode(r)[a + i]
  <2> DEFINE k == a + i - 1
  <2>1. /\ k \in 0 .. line_len - 1 /\ k + 1 = a + i /\ lo + i - 1 = base + k + 1
    BY <1>0
  <2>2. p[i] = input[lo + i - 1]
    BY <1>2, <1>3
  <2> HIDE DEF k, lo
  <2>3. p[i] = TotalLine(k)
    BY <2>1, <2>2 DEF TotalLine
  <2> QED
    BY <2>1, <2>3 DEF Receiving
<1> QED
  BY <1>2, <1>3, <1>4 DEF p, Received

\* The beginning of s and the symbols that follow in it.
LEMMA PrefixGrows ==
  ASSUME NEW s \in Seq(Symbols), NEW p \in Seq(Symbols), NEW n \in 0 .. Len(s),
         n + Len(p) <= Len(s), \A i \in 1 .. Len(p) : p[i] = s[n + i]
  PROVE  SubSeq(s, 1, n) \o p = SubSeq(s, 1, n + Len(p)) /\ n + Len(p) \in 0 .. Len(s)
<1> DEFINE m == n + Len(p)
           u == SubSeq(s, 1, n)
           v == SubSeq(s, 1, m)
<1>1. Len(s) \in Nat /\ Len(p) \in Nat /\ n \in Nat /\ m \in 0 .. Len(s)
  BY LenProperties
<1>2. u \in Seq(Symbols) /\ Len(u) = n /\ \A i \in 1 .. n : u[i] = s[i]
  BY FirstPieces
<1>3. v \in Seq(Symbols) /\ Len(v) = m /\ \A i \in 1 .. m : v[i] = s[i]
  <2> HIDE DEF m
  <2> QED
    BY <1>1, FirstPieces
<1> HIDE DEF u, v
<1>4. /\ u \o p \in Seq(Symbols) /\ Len(u \o p) = Len(u) + Len(p)
      /\ \A i \in 1 .. Len(u) : (u \o p)[i] = u[i]
      /\ \A i \in 1 .. Len(p) : (u \o p)[Len(u) + i] = p[i]
  BY <1>2, ConcatIs
<1>5. ASSUME NEW i \in 1 .. m PROVE (u \o p)[i] = v[i]
  <2>1. CASE i \in 1 .. n
    BY <1>2, <1>3, <1>4, <2>1
  <2>2. CASE i \notin 1 .. n
    <3> DEFINE k == i - n
    <3>1. k \in 1 .. Len(p) /\ n + k = i
      BY <1>1, <2>2
    <3> HIDE DEF k
    <3>2. (u \o p)[Len(u) + k] = p[k] /\ p[k] = s[n + k]
      BY <1>4, <3>1
    <3> QED
      BY <1>2, <1>3, <3>1, <3>2
  <2> QED
    BY <2>1, <2>2
<1>6. Len(u \o p) = m
  BY <1>2, <1>4
<1>7. u \o p = v
  <2> HIDE DEF m
  <2> QED
    BY <1>3, <1>4, <1>5, <1>6, SeqEqual
<1> QED
  BY <1>1, <1>7 DEF u, v

LEMMA ParseBodyInRequest ==
  ASSUME NEW r, Sendable(r), IInv, IInv', InRequest(r), Receiving(r), ParseBody,
         r.start # "BADLINE"
  PROVE  InRequest(r)'
<1> DEFINE e == Encode(r)
           H == HeadLen(r)
           piece == Received(offset, line_len)
           n == offset - H
<1>0. /\ pc = "loop" /\ validation_phase = "ON_BODY"
      /\ UNCHANGED <<requests, input, base, line_len, parsed, method, headers>>
      /\ body' = body \o piece /\ offset' = line_len
      /\ validation_phase' = IF Len(body') < ContentLength THEN "ON_BODY" ELSE "COMPLETE"
      /\ status' = IF Len(body') > ContentLength THEN "BAD_REQUEST_400" ELSE status
      /\ NextTurn
  BY DEF ParseBody, Turn, Received
<1>1. /\ line_len <= Len(e) /\ line_len \in Nat /\ offset \in Nat
      /\ method = r.start /\ offset < line_len /\ ~Chunked(r) /\ offset >= H
      /\ body = SubSeq(r.body, 1, n)
      /\ headers \cap ContentLengths = {} => r.body = <<>>
      /\ headers \cap ContentLengths # {} =>
           ContentLength = Len(r.body) /\ status = StatusAfter(r, Len(r.headers))
  BY <1>0 DEF InRequest, IInv, TypeOK
<1>2. /\ H \in Nat /\ Len(e) = H + Len(r.body) /\ Len(r.body) \in Nat
      /\ \A i \in 1 .. Len(r.body) : e[H + i] = r.body[i]
      /\ r.body \in Seq(Symbols)
  <2>1. Rest(r) = r.body /\ Rest(r) \in Seq(Symbols)
    BY <1>1, RestType DEF Rest
  <2> QED
    BY <2>1, EncodeLayout
<1>3. /\ piece \in Seq(Symbols) /\ Len(piece) = line_len - offset
      /\ \A i \in 1 .. line_len - offset : piece[i] = e[offset + i]
  <2>1. offset <= line_len /\ line_len <= line_len /\ TypeOK /\ OffsetInPool
    BY DEF IInv, OffsetInPool, TypeOK
  <2> QED
    BY <1>1, <2>1, ReceivedPiece
<1> HIDE DEF e, H, piece
<1>4. n \in 0 .. Len(r.body) /\ n + Len(piece) = line_len - H /\ n + Len(piece) <= Len(r.body)
  <2>1. /\ line_len \in Nat /\ offset \in Nat /\ H \in Nat /\ Len(r.body) \in Nat
        /\ offset < line_len /\ offset >= H /\ line_len <= Len(e) /\ Len(e) = H + Len(r.body)
        /\ Len(piece) = line_len - offset
    BY <1>1, <1>2, <1>3
  <2> QED
    BY ONLY <2>1
<1>5. ASSUME NEW i \in 1 .. Len(piece) PROVE piece[i] = r.body[n + i]
  <2>1. i \in 1 .. line_len - offset /\ n + i \in 1 .. Len(r.body) /\ H + (n + i) = offset + i
    BY <1>1, <1>2, <1>3
  <2> QED
    BY <1>2, <1>3, <2>1
<1>6. body' = SubSeq(r.body, 1, line_len - H)
  <2> HIDE DEF n
  <2>1. SubSeq(r.body, 1, n) \o piece = SubSeq(r.body, 1, n + Len(piece))
    BY <1>2, <1>3, <1>4, <1>5, PrefixGrows
  <2> QED
    BY <1>0, <1>1, <1>4, <2>1
<1>7. Len(body') = line_len - H
  <2>1. line_len - H \in 0 .. Len(r.body)
    BY <1>1, <1>2
  <2> QED
    BY <1>2, <1>6, <2>1, FirstPieces
<1>8. headers \cap ContentLengths # {}
  <2>1. r.body # <<>>
    BY <1>1, <1>2
  <2> QED
    BY <1>1, <2>1
<1>9. ContentLength = Len(r.body) /\ status = StatusAfter(r, Len(r.headers))
  BY <1>1, <1>8
<1>10. status' = status
  BY <1>0, <1>1, <1>2, <1>7, <1>9
<1>11. ContentLength' = ContentLength
  BY <1>0 DEF ContentLength
<1>12. line_len' <= Len(Encode(r)) /\ line_len' = line_len /\ offset' - HeadLen(r) = line_len - H
  BY <1>0, <1>1 DEF e, H
<1>13. CASE Len(body') < ContentLength
  <2>1. validation_phase' = "ON_BODY" /\ (pc' = "loop" => line_len # offset')
    BY <1>0, <1>13 DEF NextTurn
  <2>2. pc' # "loop"
    BY <1>0, <2>1
  <2>3. offset' >= HeadLen(r) /\ body' = SubSeq(r.body, 1, offset' - HeadLen(r))
    <3>1. offset' >= H
      BY <1>0, <1>1, <1>2
    <3> QED
      BY <1>6, <1>12, <3>1 DEF H
  <2>4. ContentLength' = Len(r.body) /\ status' = StatusAfter(r, Len(r.headers))
        /\ headers' \cap ContentLengths # {}
    BY <1>0, <1>8, <1>9, <1>10, <1>11
  <2> QED
    BY <1>0, <1>1, <1>12, <2>1, <2>2, <2>3, <2>4 DEF InRequest
<1>14. CASE ~(Len(body') < ContentLength)
  <2>1. validation_phase' = "COMPLETE" /\ pc' = "recv"
    BY <1>0, <1>14 DEF NextTurn
  <2>2. line_len = Len(e) /\ line_len - H = Len(r.body)
    <3>1. ~(line_len - H < Len(r.body))
      BY <1>7, <1>9, <1>14
    <3>2. line_len \in Nat /\ H \in Nat /\ Len(r.body) \in Nat /\ Len(e) = H + Len(r.body)
          /\ line_len <= Len(e)
      BY <1>1, <1>2
    <3> QED
      BY ONLY <3>1, <3>2
  <2>3. body' = ExpectedBody(r)
    <3>1. SubSeq(r.body, 1, Len(r.body)) = r.body
      BY <1>2, SubSeqFull
    <3> QED
      BY <1>1, <1>6, <2>2, <3>1 DEF ExpectedBody
  <2>4. status' = ExpectedStatus(r)
    BY <1>9, <1>10, StatusExpected
  <2>5. line_len' = Len(Encode(r)) /\ method' = r.start
    BY <1>0, <1>1, <2>2 DEF e
  <2> QED
    BY <1>12, <2>1, <2>3, <2>4, <2>5 DEF InRequest
<1> QED
  BY <1>13, <1>14

\* No line end lies inside a chunk.
LEMMA NoLineEndInside ==
  ASSUME NEW chunk \in Seq(Bytes), NEW i \in 1 .. Len(chunk) - 1, chunk[i] = "CR",
         chunk[i + 1] = "LF"
  PROVE  SubSeq(chunk, i, i + 1) = CRLF
<1> DEFINE two == SubSeq(chunk, i, i + 1)
<1>0. Len(chunk) \in Nat
  OBVIOUS
<1>1. i \in Int /\ i + 1 \in Int /\ (\A k \in i .. i + 1 : k \in 1 .. Len(chunk))
  BY <1>0
<1>2. \A k \in i .. i + 1 : chunk[k] \in Bytes
  BY <1>1
<1>3. /\ two \in Seq(Bytes)
      /\ Len(two) = IF i <= i + 1 THEN i + 1 - i + 1 ELSE 0
      /\ \A k \in 1 .. i + 1 - i + 1 : two[k] = chunk[i + k - 1]
  BY <1>1, <1>2, SubSeqProperties
<1> HIDE DEF two
<1>4. /\ Len(two) = 2 /\ 1 \in 1 .. i + 1 - i + 1
      /\ 2 \in 1 .. i + 1 - i + 1 /\ i + 1 - 1 = i /\ i + 2 - 1 = i + 1
  BY <1>1, <1>3
<1>5. two[1] = "CR" /\ two[2] = "LF"
  BY <1>3, <1>4
<1>6. CRLF \in Seq(Bytes) /\ Len(CRLF) = 2 /\ CRLF[1] = "CR" /\ CRLF[2] = "LF"
  BY DEF CRLF, Bytes
<1>7. \A k \in 1 .. Len(two) : two[k] = CRLF[k]
  BY <1>4, <1>5, <1>6
<1>8. two = CRLF
  BY <1>3, <1>4, <1>6, <1>7, SeqEqual
<1> QED
  BY <1>8 DEF two

\* A line of m symbols in e.
LineAt(e, from, m) ==
  /\ from + m > 0
  /\ e[from + m + 1] = "CR" /\ e[from + m + 2] = "LF"
  /\ \A k \in 1 .. m : ~(e[from + k] = "CR" /\ e[from + k + 1] = "LF")

\* FindLine, for a line known to lie there.
LEMMA FindLineAt ==
  ASSUME TypeOK, NEW r, Receiving(r), NEW from \in Nat, NEW m \in Nat,
         LineAt(Encode(r), from, m),
         NEW i \in Nat, FindNewline(from, i), i # 0
  PROVE  i = from + m /\ i + 2 <= line_len
  BY FindLine DEF LineAt

\* A chunk lies in e from at on.
ChunkAt(e, at, chunk) ==
  /\ at \in Nat /\ at > 0 /\ chunk \in Seq(Bytes) /\ Len(chunk) \in Nat
  /\ e[at + 1] = "x" /\ e[at + 2] = "CR" /\ e[at + 3] = "LF"
  /\ \A i \in 1 .. Len(chunk) : e[at + 3 + i] = chunk[i]
  /\ e[at + Len(chunk) + 4] = "CR" /\ e[at + Len(chunk) + 5] = "LF"
  /\ \A i \in 1 .. Len(chunk) - 1 : SubSeq(chunk, i, i + 1) # CRLF

LEMMA ChunkLines ==
  ASSUME NEW e, NEW at, NEW chunk, ChunkAt(e, at, chunk)
  PROVE  LineAt(e, at, 1) /\ LineAt(e, at + 3, Len(chunk))
<1> DEFINE L == Len(chunk)
           from == at + 3
<1>1. /\ at \in Nat /\ at > 0 /\ chunk \in Seq(Bytes) /\ L \in Nat
      /\ e[at + 1] = "x" /\ e[at + 2] = "CR" /\ e[at + 3] = "LF"
      /\ \A i \in 1 .. L : e[at + 3 + i] = chunk[i]
      /\ e[at + L + 4] = "CR" /\ e[at + L + 5] = "LF"
      /\ \A i \in 1 .. L - 1 : SubSeq(chunk, i, i + 1) # CRLF
  BY DEF ChunkAt
<1>2. LineAt(e, at, 1)
  BY <1>1 DEF LineAt
<1>3. /\ from \in Nat /\ from + L > 0 /\ at + L + 4 = from + L + 1 /\ at + L + 5 = from + L + 2
      /\ \A i \in 1 .. L : e[from + i] = chunk[i]
  BY <1>1
<1> HIDE DEF from, L
<1>4. e[from + L + 1] = "CR" /\ e[from + L + 2] = "LF"
  BY <1>1, <1>3
<1>5. ASSUME NEW i \in 1 .. L, e[from + i] = "CR", e[from + i + 1] = "LF" PROVE FALSE
  <2>1. CASE i = L
    BY <1>4, <1>5, <2>1
  <2>2. CASE i # L
    <3>1. i \in 1 .. L - 1 /\ i + 1 \in 1 .. L /\ from + (i + 1) = from + i + 1
      BY <1>1, <1>3, <2>2
    <3>2. chunk[i] = "CR" /\ chunk[i + 1] = "LF"
      BY <1>3, <1>5, <3>1
    <3>3. i \in 1 .. Len(chunk) - 1
      BY <3>1 DEF L
    <3> QED
      BY <1>1, <3>1, <3>2, <3>3, NoLineEndInside
  <2> QED
    BY <2>1, <2>2
<1>6. LineAt(e, from, L)
  BY <1>3, <1>4, <1>5 DEF LineAt
<1> QED
  BY <1>2, <1>6 DEF from, L

\* A size line and a data line: where findNewline finds their ends.
LEMMA DataLine ==
  ASSUME NEW r, TypeOK, OffsetInPool, Receiving(r), NEW chunk,
         ChunkAt(Encode(r), offset, chunk),
         NEW size \in Nat, NEW data \in Nat, FindNewline(offset, size), size # 0,
         FindNewline(size + 2, data), data # 0
  PROVE  /\ size = offset + 1 /\ data = offset + 3 + Len(chunk) /\ data + 2 <= line_len
         /\ SubSeq(input, base + size + 3, base + data) = chunk
<1> DEFINE e == Encode(r)
           from == offset + 3
           L == Len(chunk)
<1>0. LineAt(e, offset, 1) /\ LineAt(e, from, L)
  BY ChunkLines
<1>1. offset \in Nat /\ L \in Nat /\ from \in Nat /\ base \in Nat /\ line_len \in Nat
      /\ chunk \in Seq(Bytes) /\ \A i \in 1 .. L : e[from + i] = chunk[i]
  BY DEF TypeOK, ChunkAt
<1> HIDE DEF e, from, L
<1>2. size = offset + 1
  <2> DEFINE one == 1
  <2>1. one \in Nat /\ LineAt(e, offset, one)
    BY <1>0
  <2> HIDE DEF one
  <2>2. size = offset + one
    BY ONLY <1>1, <2>1, size \in Nat, size # 0, FindNewline(offset, size), TypeOK,
            Receiving(r), FindLineAt DEF e
  <2> QED
    BY <2>2 DEF one
<1>3. FindNewline(from, data)
  <2>1. size + 2 = from
    BY <1>1, <1>2 DEF from
  <2> QED
    BY <2>1
<1>4. data = from + L /\ data + 2 <= line_len
  BY ONLY <1>0, <1>1, <1>3, data \in Nat, data # 0, TypeOK, Receiving(r), FindLineAt DEF e
<1>5. SubSeq(input, base + size + 3, base + data) = chunk
  <2> DEFINE p == Received(from, data)
  <2>1. from <= data /\ data <= line_len /\ data - from = L /\ base + from + 1 = base + size + 3
    BY <1>1, <1>2, <1>4 DEF from
  <2>2. from \in Nat /\ data \in Nat /\ from <= data /\ data <= line_len
    BY <1>1, <2>1
  <2>3. /\ p \in Seq(Symbols) /\ Len(p) = data - from
        /\ \A i \in 1 .. data - from : p[i] = e[from + i]
    BY ONLY <2>2, TypeOK, OffsetInPool, Receiving(r), ReceivedPiece DEF e
  <2>4. chunk \in Seq(Symbols)
    <3>1. Bytes \subseteq Symbols
      BY DEF Symbols
    <3> QED
      BY <1>1, <3>1, SeqMonotonic
  <2>5. p = SubSeq(input, base + size + 3, base + data)
    BY <2>1 DEF Received
  <2> HIDE DEF p
  <2>6. Len(p) = Len(chunk) /\ \A i \in 1 .. Len(p) : p[i] = chunk[i]
    BY <1>1, <2>1, <2>3 DEF L
  <2>7. p = chunk
    BY <2>3, <2>4, <2>6, SeqEqual
  <2> QED
    BY <2>5, <2>7
<1> QED
  BY <1>1, <1>2, <1>4, <1>5 DEF from, L

\* A turn of the loop at chunk c + 1, or at the last chunk if there is none.
LEMMA ChunkTurn ==
  ASSUME NEW r, IInv, IInv', InRequest(r), ParseChunkedBody
  PROVE  /\ pc = "loop" /\ line_len' = line_len /\ method' = r.start /\ status' = status
         /\ line_len' <= Len(Encode(r)) /\ status = StatusAfter(r, Len(r.headers))
         /\ pc' = "loop" => offset' < line_len' /\ validation_phase' # "COMPLETE"
         /\ TypeOK /\ OffsetInPool /\ offset \in Nat /\ line_len \in Nat
         /\ line_len <= Len(Encode(r))
<1>0. /\ pc = "loop" /\ validation_phase = "ON_CHUNKED_BODY"
      /\ UNCHANGED <<requests, input, base, line_len, parsed, status, method, headers>>
  BY DEF ParseChunkedBody, Turn
<1>1. /\ line_len <= Len(Encode(r)) /\ line_len \in Nat /\ TypeOK /\ OffsetInPool
      /\ offset \in Nat /\ offset' \in Nat /\ offset' <= line_len
      /\ method = r.start /\ status = StatusAfter(r, Len(r.headers))
  BY <1>0 DEF InRequest, IInv, TypeOK, OffsetInPool
<1>2. Throw \/ NextTurn
  BY DEF ParseChunkedBody
<1>3. pc' = "loop" => offset' < line_len' /\ validation_phase' # "COMPLETE"
  BY <1>0, <1>1, <1>2 DEF Throw, NextTurn
<1> QED
  BY <1>0, <1>1, <1>3

\* A chunk.
LEMMA ChunkInRequest ==
  ASSUME NEW r, Sendable(r), IInv, IInv', InRequest(r), Receiving(r), ParseChunkedBody,
         Chunked(r), r.start # "BADLINE", NEW c \in 0 .. Len(r.chunks) - 1,
         offset = ChunkStart(r, c), body = Flat(r.chunks, c)
  PROVE  InRequest(r)'
<1> DEFINE e == Encode(r)
           chunk == r.chunks[c + 1]
           L == Len(chunk)
<1>2. /\ Len(r.chunks) \in Nat /\ c \in 0 .. Len(r.chunks) /\ c + 1 \in 0 .. Len(r.chunks)
      /\ c + 1 \in DOMAIN r.chunks /\ r.chunks \in Seq(Seq(Bytes))
  <2>1. r.chunks \in Seq(Seq(Bytes))
    BY DEF Sendable
  <2>2. Len(r.chunks) \in Nat /\ DOMAIN r.chunks = 1 .. Len(r.chunks)
    BY <2>1
  <2> QED
    BY <2>1, <2>2
<1>3. chunk \in Seq(Bytes) /\ L >= 1 /\ L \in Nat
      /\ \A i \in 1 .. L - 1 : SubSeq(chunk, i, i + 1) # CRLF
  <2>1. \A d \in DOMAIN r.chunks :
          /\ r.chunks[d] # <<>>
          /\ \A i \in 1 .. Len(r.chunks[d]) - 1 : SubSeq(r.chunks[d], i, i + 1) # CRLF
    BY DEF Sendable
  <2>2. chunk # <<>> /\ \A i \in 1 .. L - 1 : SubSeq(chunk, i, i + 1) # CRLF
    BY ONLY <1>2, <2>1, Zenon
  <2>3. chunk \in Seq(Bytes)
    BY <1>2
  <2> HIDE DEF chunk
  <2> QED
    BY <2>2, <2>3, EmptySeq
<1>4. ChunkAt(e, offset, chunk) /\ ChunkStart(r, c + 1) = offset + L + 5
  <2> DEFINE at == ChunkStart(r, c)
  <2>2. /\ at \in Nat /\ at >= HeadLen(r) /\ chunk \in Seq(Bytes) /\ L \in Nat
        /\ ChunkStart(r, c + 1) = at + L + 5
        /\ e[at + 1] = "x" /\ e[at + 2] = "CR" /\ e[at + 3] = "LF"
        /\ \A i \in 1 .. L : e[at + 3 + i] = chunk[i]
        /\ e[at + L + 4] = "CR" /\ e[at + L + 5] = "LF"
    <3>1. ChunkIn(r, c)
      BY ChunkLayout
    <3> QED
      BY ONLY <3>1 DEF ChunkIn
  <2>3. HeadLen(r) = 3 * Len(r.headers) + 5 /\ Len(r.headers) \in Nat
    BY EncodedHead
  <2> HIDE DEF at, e, chunk, L
  <2>4. at > 0
    BY ONLY <2>2, <2>3
  <2>5. ChunkAt(e, at, chunk) /\ ChunkStart(r, c + 1) = at + L + 5
    BY ONLY <2>2, <2>4, <1>3 DEF ChunkAt, L
  <2> QED
    BY <2>5 DEF at
<1>5. /\ pc = "loop" /\ line_len' = line_len /\ method' = r.start /\ status' = status
      /\ line_len' <= Len(Encode(r)) /\ status = StatusAfter(r, Len(r.headers))
      /\ pc' = "loop" => offset' < line_len' /\ validation_phase' # "COMPLETE"
      /\ TypeOK /\ OffsetInPool /\ offset \in Nat /\ line_len \in Nat
  BY ChunkTurn
<1> HIDE DEF e, chunk, L
<1>6. PICK size \in 0 .. line_len, data \in 0 .. line_len :
       /\ FindNewline(offset, size)
       /\ IF size = 0 THEN data = 0 ELSE FindNewline(size + 2, data)
       /\ \/ /\ size = 0 \/ data = 0
             /\ Throw
             /\ UNCHANGED <<offset, validation_phase, body>>
          \/ /\ size # 0 /\ data # 0 /\ data = size + 2
             /\ validation_phase' = "COMPLETE"
             /\ UNCHANGED <<offset, body>>
             /\ NextTurn
          \/ /\ size # 0 /\ data # 0 /\ data # size + 2
             /\ body' = body \o SubSeq(input, base + size + 3, base + data)
             /\ offset' = data + 2
             /\ UNCHANGED validation_phase
             /\ NextTurn
  BY DEF ParseChunkedBody
<1>7. validation_phase = "ON_CHUNKED_BODY"
  BY DEF ParseChunkedBody, Turn
<1>8. CASE size = 0 \/ data = 0
  <2>1. UNCHANGED <<offset, validation_phase, body>>
    BY <1>6, <1>8
  <2>2. offset' = ChunkStart(r, c) /\ body' = Flat(r.chunks, c)
    BY <2>1
  <2> QED
    BY <1>2, <1>5, <1>7, <2>1, <2>2 DEF InRequest
<1>9. CASE size # 0 /\ data # 0
  <2>1. /\ size = offset + 1 /\ data = offset + 3 + L
        /\ SubSeq(input, base + size + 3, base + data) = chunk
    <3>1. FindNewline(offset, size) /\ FindNewline(size + 2, data) /\ size \in Nat /\ data \in Nat
      BY <1>5, <1>6, <1>9
    <3> QED
      BY ONLY <1>4, <1>5, <1>9, <3>1, Receiving(r), DataLine DEF e, L
  <2>2. data # size + 2 /\ data + 2 = offset + L + 5
    BY ONLY <1>3, <1>5, <2>1
  <2>3. /\ body' = body \o chunk /\ offset' = ChunkStart(r, c + 1)
        /\ UNCHANGED validation_phase
    BY <1>4, <1>6, <1>9, <2>1, <2>2
  <2>4. body' = Flat(r.chunks, c + 1)
    <3>1. Flat(r.chunks, c + 1) = Flat(r.chunks, c) \o r.chunks[c + 1]
      BY <1>2, FlatStep
    <3> QED
      BY <2>3, <3>1 DEF chunk
  <2> QED
    BY <1>2, <1>5, <1>7, <2>3, <2>4 DEF InRequest
<1> QED
  BY <1>8, <1>9

\* The last chunk.
LEMMA LastChunkInRequest ==
  ASSUME NEW r, Sendable(r), IInv, IInv', InRequest(r), Receiving(r), ParseChunkedBody,
         Chunked(r), r.start # "BADLINE",
         offset = ChunkStart(r, Len(r.chunks)), body = FlattenSeq(r.chunks)
  PROVE  InRequest(r)'
<1> DEFINE e == Encode(r)
           none == <<>>
<1>2. /\ Len(r.chunks) \in Nat /\ Len(r.chunks) \in 0 .. Len(r.chunks)
      /\ FlattenSeq(r.chunks) = Flat(r.chunks, Len(r.chunks))
  <2>1. r.chunks \in Seq(Seq(Bytes))
    BY DEF Sendable
  <2>2. Len(r.chunks) \in Nat
    BY <2>1
  <2> QED
    BY <2>1, <2>2, FlatAll
<1>3. ChunkAt(e, offset, none) /\ Len(e) = offset + 5
  <2> DEFINE at == ChunkStart(r, Len(r.chunks))
  <2>1. /\ at \in Nat /\ at >= HeadLen(r) /\ Len(e) = at + 5
        /\ e[at + 1] = "x" /\ e[at + 2] = "CR" /\ e[at + 3] = "LF"
        /\ e[at + 4] = "CR" /\ e[at + 5] = "LF"
    BY ONLY LastChunkLayout, Sendable(r), Chunked(r), Zenon
  <2>2. HeadLen(r) = 3 * Len(r.headers) + 5 /\ Len(r.headers) \in Nat
    BY EncodedHead
  <2> HIDE DEF at, e
  <2>3. at > 0 /\ Len(none) = 0 /\ none \in Seq(Bytes)
    BY ONLY <2>1, <2>2
  <2>4. ChunkAt(e, at, none) /\ Len(e) = at + 5
    BY ONLY <2>1, <2>3 DEF ChunkAt
  <2> QED
    BY <2>4 DEF at
<1>4. /\ pc = "loop" /\ line_len' = line_len /\ method' = r.start /\ status' = status
      /\ line_len' <= Len(Encode(r)) /\ status = StatusAfter(r, Len(r.headers))
      /\ pc' = "loop" => offset' < line_len' /\ validation_phase' # "COMPLETE"
      /\ TypeOK /\ OffsetInPool /\ offset \in Nat /\ line_len \in Nat /\ line_len <= Len(e)
  BY ChunkTurn
<1> HIDE DEF e
<1>5. PICK size \in 0 .. line_len, data \in 0 .. line_len :
       /\ FindNewline(offset, size)
       /\ IF size = 0 THEN data = 0 ELSE FindNewline(size + 2, data)
       /\ \/ /\ size = 0 \/ data = 0
             /\ Throw
             /\ UNCHANGED <<offset, validation_phase, body>>
          \/ /\ size # 0 /\ data # 0 /\ data = size + 2
             /\ validation_phase' = "COMPLETE"
             /\ UNCHANGED <<offset, body>>
             /\ NextTurn
          \/ size # 0 /\ data # 0 /\ data # size + 2
  BY DEF ParseChunkedBody
<1>6. validation_phase = "ON_CHUNKED_BODY"
  BY DEF ParseChunkedBody, Turn
<1>7. CASE size = 0 \/ data = 0
  <2>1. UNCHANGED <<offset, validation_phase, body>>
    BY <1>5, <1>7
  <2>2. offset' = ChunkStart(r, Len(r.chunks)) /\ body' = Flat(r.chunks, Len(r.chunks))
    BY <1>2, <2>1
  <2> QED
    BY <1>2, <1>4, <1>6, <2>1, <2>2 DEF InRequest
<1>8. CASE size # 0 /\ data # 0
  <2>1. size = offset + 1 /\ data = offset + 3 + 0 /\ data + 2 <= line_len
    <3>1. FindNewline(offset, size) /\ FindNewline(size + 2, data) /\ size \in Nat /\ data \in Nat
      BY <1>4, <1>5, <1>8
    <3>2. Len(none) = 0
      OBVIOUS
    <3> HIDE DEF none
    <3>3. size = offset + 1 /\ data = offset + 3 + Len(none) /\ data + 2 <= line_len
      BY ONLY <1>3, <1>4, <1>8, <3>1, Receiving(r), DataLine DEF e
    <3> QED
      BY <3>2, <3>3
  <2>2. data = size + 2 /\ line_len = Len(e)
    BY ONLY <1>3, <1>4, <2>1
  <2>3. validation_phase' = "COMPLETE" /\ body' = body
    BY <1>5, <1>8, <2>2
  <2>4. body' = ExpectedBody(r)
    BY <2>3 DEF ExpectedBody
  <2>5. status' = ExpectedStatus(r)
    BY <1>4, StatusExpected
  <2>6. line_len' = Len(Encode(r))
    BY <1>4, <2>2 DEF e
  <2> QED
    BY <1>4, <2>3, <2>4, <2>5, <2>6 DEF InRequest
<1> QED
  BY <1>7, <1>8

LEMMA ParseChunkedBodyInRequest ==
  ASSUME NEW r, Sendable(r), IInv, IInv', InRequest(r), Receiving(r), ParseChunkedBody
  PROVE  InRequest(r)'
<1>1. validation_phase = "ON_CHUNKED_BODY"
  BY DEF ParseChunkedBody, Turn
<1>2. Chunked(r) /\ r.start # "BADLINE"
  BY <1>1 DEF InRequest
<1>3. PICK c \in 0 .. Len(r.chunks) : offset = ChunkStart(r, c) /\ body = Flat(r.chunks, c)
  BY <1>1 DEF InRequest
<1>4. Len(r.chunks) \in Nat /\ Flat(r.chunks, Len(r.chunks)) = FlattenSeq(r.chunks)
  <2>1. r.chunks \in Seq(Seq(Bytes))
    BY DEF Sendable
  <2> QED
    BY <2>1, FlatAll
<1>5. c \in 0 .. Len(r.chunks) - 1 \/ c = Len(r.chunks)
  BY <1>4
<1> QED
  BY <1>2, <1>3, <1>4, <1>5, ChunkInRequest, LastChunkInRequest

\* The request being received, and what is in the pool of it.
LEMMA ReceivingCurrent ==
  ASSUME IInv, ParsingInv, Len(parsed) < Len(requests)
  PROVE  /\ Sendable(Current) /\ Receiving(Current) /\ Len(Encode(Current)) \in Nat
         /\ base + Len(Encode(Current)) = EndOf(Len(parsed) + 1)
         /\ Len(parsed) + 1 \in 1 .. Len(requests)
<1> DEFINE n == Len(parsed)
           e == Encode(requests[n + 1])
<1>1. Connection(requests) /\ input = Stream(requests) /\ n \in Nat /\ Len(requests) \in Nat
      /\ line_len <= Len(e)
  <2>1. parsed \in Seq([start : StartLines \cup {"none"}, status : Statuses,
                        body : Seq(Symbols)])
    BY DEF IInv, TypeOK
  <2>2. n \in Nat
    BY <2>1, LenProperties
  <2>3. requests \in Sessions /\ input = Stream(requests)
    BY DEF ParsingInv
  <2>4. Connection(requests)
    BY <2>3, SessionsAssumption DEF Connection
  <2>5. Len(requests) \in Nat
    BY <2>4, EncodingsAre
  <2>6. line_len <= Len(e)
    BY DEF ParsingInv, InRequest, Current
  <2> QED
    BY <2>2, <2>3, <2>4, <2>5, <2>6
<1>2. n \in 0 .. Len(requests) - 1 /\ n + 1 \in 1 .. Len(requests)
  BY <1>1
<1> HIDE DEF n, e
<1>3. /\ EndAt(requests, n) \in Nat /\ Len(e) \in Nat
      /\ EndAt(requests, n + 1) = EndAt(requests, n) + Len(e)
      /\ \A i \in 1 .. Len(e) : Stream(requests)[EndAt(requests, n) + i] = e[i]
  BY <1>1, <1>2, StreamLayout DEF e
<1>4. base = EndAt(requests, n)
  BY DEF ParsingInv, Aligned, EndOf, EndAt, n
<1>5. Sendable(requests[n + 1])
  <2>1. DOMAIN requests = 1 .. Len(requests)
    BY <1>1, EncodingsAre
  <2> QED
    BY <1>1, <1>2, <2>1 DEF Connection
<1>6. ASSUME NEW i \in 0 .. line_len - 1 PROVE TotalLine(i) = e[i + 1]
  <2>1. i + 1 \in 1 .. Len(e) /\ base + i + 1 = base + (i + 1)
    <3>1. line_len \in Nat /\ base \in Nat
      BY DEF IInv, TypeOK
    <3> QED
      BY <1>1, <1>3, <3>1
  <2>2. TotalLine(i) = Stream(requests)[base + (i + 1)]
    BY <1>1, <2>1 DEF TotalLine
  <2> QED
    BY <1>3, <1>4, <2>1, <2>2
<1> QED
  BY <1>2, <1>3, <1>4, <1>5, <1>6 DEF Current, Receiving, EndOf, EndAt, n, e

\* Nothing was received yet.
LEMMA InitParsingInv == Init => ParsingInv
<1> SUFFICES ASSUME Init PROVE ParsingInv
  OBVIOUS
<1>1. Connection(requests) /\ requests \in Sessions /\ input = Stream(requests)
  BY SessionsAssumption DEF Init, Connection
<1>2. Len(requests) \in Nat /\ EndAt(requests, 0) = 0 /\ Len(parsed) = 0 /\ base = 0
      /\ DOMAIN parsed = {}
  BY <1>1, EncodingsAre, StreamEnds DEF Init
<1>3. Aligned /\ Faithful
  BY <1>2 DEF Aligned, Faithful, EndOf, EndAt
<1>4. Len(parsed) < Len(requests) => InRequest(Current)
  <2> SUFFICES ASSUME Len(parsed) < Len(requests) PROVE InRequest(Current)
    OBVIOUS
  <2> DEFINE r == Current
  <2>1. Sendable(r)
    <3>1. 1 \in DOMAIN requests /\ r = requests[1]
      BY <1>1, <1>2, EncodingsAre DEF Current
    <3> QED
      BY <1>1, <3>1 DEF Connection
  <2>2. Len(Encode(r)) \in Nat
    <3>1. Len(r.headers) \in Nat /\ HeadLen(r) = 3 * Len(r.headers) + 5
          /\ Len(Encode(r)) = HeadLen(r) + Len(Rest(r)) /\ Len(Rest(r)) \in Nat
      BY <2>1, EncodedHead
    <3> HIDE DEF r
    <3> QED
      BY <3>1
  <2>3. line_len = 0 /\ offset = 0 /\ validation_phase = "READY" /\ status = "NO_PROBLEM"
        /\ headers = {} /\ body = <<>> /\ pc = "recv"
    BY DEF Init
  <2> HIDE DEF r
  <2> QED
    BY <2>2, <2>3 DEF InRequest, r
<1> QED
  BY <1>1, <1>2, <1>3, <1>4 DEF ParsingInv, Init

\* A turn of readBuffer, and what recv() adds.
LEMMA TurnParsingInv ==
  ASSUME ~Pipelining, IInv, IInv', ParsingInv,
         ReadBuffer \/ ParseFirstLine \/ ParseHeaders \/ ParseBody \/ ParseChunkedBody
  PROVE  ParsingInv'
<1>1. UNCHANGED <<requests, input, base, parsed>>
  BY DEF ReadBuffer, ParseFirstLine, ParseHeaders, ParseBody, ParseChunkedBody, Turn
<1>2. /\ requests' \in Sessions /\ input' = Stream(requests')
      /\ Len(parsed') <= Len(requests') /\ Aligned' /\ Faithful'
  BY <1>1 DEF ParsingInv, Aligned, Faithful, EndOf
<1>3. Len(parsed) # Len(requests)
  <2> SUFFICES ASSUME Len(parsed) = Len(requests) PROVE FALSE
    OBVIOUS
  <2>1. pc = "recv" /\ validation_phase = "READY"
    BY DEF ParsingInv
  <2>2. ReadBuffer
    BY <2>1 DEF ParseFirstLine, ParseHeaders, ParseBody, ParseChunkedBody, Turn
  <2>3. base + line_len <= Len(input) /\ base \in Nat /\ line_len \in Nat
    BY DEF IInv, TypeOK, OffsetInPool
  <2>4. Connection(requests) /\ input = Stream(requests)
    BY SessionsAssumption DEF ParsingInv, Connection
  <2>5. base = Len(input)
    <3>1. EndAt(requests, Len(requests)) = Len(Stream(requests))
      BY <2>4, StreamEnds
    <3> QED
      BY <2>4, <3>1 DEF ParsingInv, Aligned, EndOf, EndAt
  <2>6. PICK k \in 1 .. MaxRecv : base + line_len + k <= Len(input)
    BY <2>2 DEF ReadBuffer
  <2>7. k \in Nat \ {0}
    BY ParserAssumption
  <2> QED
    BY <2>3, <2>5, <2>6, <2>7
<1>4. Len(parsed) < Len(requests)
  <2>1. Len(parsed) <= Len(requests)
    BY DEF ParsingInv
  <2>2. Len(parsed) \in Nat /\ Len(requests) \in Nat
    <3>1. parsed \in Seq([start : StartLines \cup {"none"}, status : Statuses,
                          body : Seq(Symbols)])
      BY DEF IInv, TypeOK
    <3>2. Connection(requests)
      BY SessionsAssumption DEF ParsingInv, Connection
    <3> QED
      BY <3>1, <3>2, EncodingsAre, LenProperties
  <2> QED
    BY <1>3, <2>1, <2>2
<1>5. PICK r : r = Current
  OBVIOUS
<1>6. /\ Sendable(r) /\ Receiving(r) /\ Len(Encode(r)) \in Nat
      /\ base + Len(Encode(r)) = EndOf(Len(parsed) + 1) /\ InRequest(r)
  BY <1>4, <1>5, ReceivingCurrent DEF ParsingInv
<1>7. Current' = r
  BY <1>1, <1>5 DEF Current
<1>8. InRequest(r)'
  <2>1. CASE ReadBuffer
    BY <1>6, <2>1, ReadBufferInRequest
  <2>2. CASE ParseFirstLine
    BY <1>6, <2>2, ParseFirstLineInRequest
  <2>3. CASE ParseHeaders
    BY <1>6, <2>3, ParseHeadersInRequest
  <2>4. CASE ParseBody
    <3>1. r.start # "BADLINE"
      BY <1>6, <2>4 DEF ParseBody, Turn, InRequest
    <3> QED
      BY <1>6, <2>4, <3>1, ParseBodyInRequest
  <2>5. CASE ParseChunkedBody
    BY <1>6, <2>5, ParseChunkedBodyInRequest
  <2> QED
    BY <2>1, <2>2, <2>3, <2>4, <2>5
<1>9. InRequest(Current)'
  BY <1>7, <1>8 DEF InRequest
<1>10. Len(parsed') # Len(requests')
  BY <1>1, <1>3
<1> QED
  BY <1>2, <1>9, <1>10 DEF ParsingInv

\* A new parser begins where the next request does.
LEMMA NewParserParsingInv ==
  ASSUME IInv, IInv', ParsingInv, NewParser
  PROVE  ParsingInv'
<1> DEFINE n == Len(parsed)
           outcome == [start |-> method, status |-> status, body |-> body]
           R == [start : StartLines \cup {"none"}, status : Statuses, body : Seq(Symbols)]
<1>0. /\ pc = "recv" /\ validation_phase = "COMPLETE"
      /\ parsed' = Append(parsed, outcome)
      /\ base' = base + line_len /\ line_len' = 0 /\ offset' = 0
      /\ validation_phase' = "READY" /\ status' = "NO_PROBLEM"
      /\ method' = "none" /\ headers' = {} /\ body' = <<>>
      /\ requests' = requests /\ input' = input /\ pc' = pc
  BY DEF NewParser, NewRequest
<1>1. parsed \in Seq(R) /\ outcome \in R /\ n \in Nat
  BY DEF IInv, TypeOK
<1>2. Connection(requests) /\ Len(requests) \in Nat /\ DOMAIN requests = 1 .. Len(requests)
  <2>1. Connection(requests)
    BY SessionsAssumption DEF ParsingInv, Connection
  <2> QED
    BY <2>1, EncodingsAre
<1>3. n < Len(requests)
  <2>1. n <= Len(requests) /\ n # Len(requests)
    BY <1>0 DEF ParsingInv
  <2> QED
    BY <1>1, <1>2, <2>1
<1> DEFINE r == Current
<1>4. /\ line_len = Len(Encode(r)) /\ status = ExpectedStatus(r) /\ method = r.start
      /\ status = "NO_PROBLEM" => body = ExpectedBody(r)
  BY <1>0, <1>3 DEF ParsingInv, InRequest
<1>5. base + Len(Encode(r)) = EndOf(n + 1) /\ n + 1 \in 1 .. Len(requests)
      /\ r = requests[n + 1]
  BY <1>3, ReceivingCurrent DEF Current
<1> HIDE DEF r, n, R
<1>6. /\ Len(parsed') = n + 1 /\ DOMAIN parsed' = 1 .. n + 1 /\ parsed'[n + 1] = outcome
      /\ \A i \in 1 .. n : parsed'[i] = parsed[i]
  <2>1. /\ Append(parsed, outcome) \in Seq(R)
        /\ Len(Append(parsed, outcome)) = Len(parsed) + 1
        /\ \A i \in 1 .. Len(parsed) : Append(parsed, outcome)[i] = parsed[i]
        /\ Append(parsed, outcome)[Len(parsed) + 1] = outcome
    <3> HIDE DEF outcome
    <3> QED
      BY <1>1, AppendProperties
  <2> QED
    BY <1>0, <2>1 DEF n
<1>7. Aligned'
  <2>2. base' = EndOf(n + 1)
    BY <1>0, <1>4, <1>5
  <2>3. Aligned' <=> base' = Len(Stream(SubSeq(requests', 1, Len(parsed'))))
    BY DEF Aligned, EndOf
  <2> QED
    BY <1>0, <1>6, <2>2, <2>3 DEF EndOf
<1>8. Faithful'
  <2>1. outcome.start = method /\ outcome.status = status /\ outcome.body = body
    OBVIOUS
  <2>2. \A i \in 1 .. n :
          /\ parsed[i].start = requests[i].start
          /\ parsed[i].status = ExpectedStatus(requests[i])
          /\ parsed[i].status = "NO_PROBLEM" => parsed[i].body = ExpectedBody(requests[i])
    <3>1. DOMAIN parsed = 1 .. n
      BY <1>1 DEF n
    <3> QED
      BY <3>1 DEF ParsingInv, Faithful
  <2> HIDE DEF outcome
  <2>3. ASSUME NEW i \in 1 .. n + 1
        PROVE  /\ parsed'[i].start = requests[i].start
               /\ parsed'[i].status = ExpectedStatus(requests[i])
               /\ parsed'[i].status = "NO_PROBLEM" => parsed'[i].body = ExpectedBody(requests[i])
    <3>1. CASE i = n + 1
      BY <1>4, <1>5, <1>6, <2>1, <3>1
    <3>2. CASE i # n + 1
      <4>1. i \in 1 .. n
        BY <1>1, <3>2
      <4> QED
        BY <1>6, <2>2, <4>1
    <3> QED
      BY <3>1, <3>2
  <2> QED
    BY <1>0, <1>6, <2>3 DEF Faithful
<1>9. Len(parsed') <= Len(requests')
  BY <1>0, <1>5, <1>6
<1>10. ASSUME Len(parsed') < Len(requests') PROVE InRequest(Current)'
  <2> DEFINE q == requests[n + 2]
  <2>1. Sendable(q) /\ Current' = q
    <3>1. n + 2 \in DOMAIN requests /\ Len(parsed') + 1 = n + 2
      BY <1>0, <1>1, <1>2, <1>6, <1>10
    <3> QED
      BY <1>0, <1>2, <3>1 DEF Connection, Current
  <2>2. Len(Encode(q)) \in Nat
    <3>1. Len(q.headers) \in Nat /\ HeadLen(q) = 3 * Len(q.headers) + 5
          /\ Len(Encode(q)) = HeadLen(q) + Len(Rest(q)) /\ Len(Rest(q)) \in Nat
      BY <2>1, EncodedHead
    <3> HIDE DEF q
    <3> QED
      BY <3>1
  <2> HIDE DEF q
  <2> QED
    BY <1>0, <2>1, <2>2 DEF InRequest
<1> QED
  BY <1>0, <1>7, <1>8, <1>9, <1>10 DEF ParsingInv

LEMMA NextParsingInv ==
  ASSUME ~Pipelining PROVE (IInv /\ ParsingInv) /\ [Next]_vars => (IInv /\ ParsingInv)'
<1> SUFFICES ASSUME IInv, ParsingInv, [Next]_vars PROVE IInv' /\ ParsingInv'
  OBVIOUS
<1>1. IInv'
  BY NextIInv
<1>2. CASE UNCHANGED vars
  BY <1>1, <1>2 DEF ParsingInv, Aligned, Faithful, EndOf, InRequest, Current, ContentLength,
     vars, pool, request
<1>3. CASE NewParser
  BY <1>1, <1>3, NewParserParsingInv
<1>4. CASE ReadBuffer \/ ParseFirstLine \/ ParseHeaders \/ ParseBody \/ ParseChunkedBody
  BY <1>1, <1>4, TurnParsingInv
<1> QED
  BY <1>1, <1>2, <1>3, <1>4 DEF Next

\* However recv() cuts what the client sends, the requests handed to HttpProcessor are
\* those the client sent, in their order, with the status and body each deserves: as
\* long as it waits for a request to be parsed before it sends the next.
THEOREM AlwaysFaithful == ~Pipelining => (Spec => []Faithful)
<1> SUFFICES ASSUME ~Pipelining PROVE Spec => []Faithful
  OBVIOUS
<1>1. Init => IInv /\ ParsingInv
  BY InitIInv, InitParsingInv
<1>2. (IInv /\ ParsingInv) /\ [Next]_vars => (IInv /\ ParsingInv)'
  BY NextParsingInv
<1>3. IInv /\ ParsingInv => Faithful
  BY DEF ParsingInv
<1> QED
  BY <1>1, <1>2, <1>3, PTL DEF Spec

\* No parser completes before the last symbol of its request came, and none takes a
\* symbol of the next one.
THEOREM AlwaysAligned == ~Pipelining => (Spec => []Aligned)
<1> SUFFICES ASSUME ~Pipelining PROVE Spec => []Aligned
  OBVIOUS
<1>1. Init => IInv /\ ParsingInv
  BY InitIInv, InitParsingInv
<1>2. (IInv /\ ParsingInv) /\ [Next]_vars => (IInv /\ ParsingInv)'
  BY NextParsingInv
<1>3. IInv /\ ParsingInv => Aligned
  BY DEF ParsingInv
<1> QED
  BY <1>1, <1>2, <1>3, PTL DEF Spec
=============================================================================
