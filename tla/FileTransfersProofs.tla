------------------------- MODULE FileTransfersProofs ------------------------
(***************************************************************************)
(* Proofs that an answered GET is a snapshot of its file and that an       *)
(* answered upload is in its file whole, for any number of requests, any   *)
(* sizes, and any interleaving of their parts.                             *)
(***************************************************************************)
EXTENDS FileTransfersProperties, SequenceTheorems, TLAPS

Units == (Files \cup {"none"}) \X Nat

Phases == {"ready", "reading", "writing", "answered", "abandoned"}
Methods == {"", "GET", "POST", "PUT", "DELETE"}

TransferType ==
  [phase : Phases, method : Methods, file : Files \cup {"none"}, length : Nat,
   offset : Nat, size : Nat, body : Seq(Units)]

TypeOK ==
  /\ name \in Files \cup {"none"}
  /\ content \in [Files -> Seq(Units)]
  /\ transfer \in [Transfers -> TransferType]
  /\ opened \in [Transfers -> Seq(Units)]
  /\ disturbed \in [Transfers -> SUBSET Methods]

Begins(s, t) == Len(s) <= Len(t) /\ \A i \in 1 .. Len(s) : s[i] = t[i]

\* What was opened is still the beginning of the file, and what was read of it, too.
Reader(t) ==
  LET f == transfer[t].file IN
  /\ f \in Files
  /\ transfer[t].size = Len(opened[t])
  /\ transfer[t].offset = Len(transfer[t].body)
  /\ Begins(opened[t], content[f])
  /\ Begins(transfer[t].body, content[f])
  /\ transfer[t].phase = "answered" => Len(transfer[t].body) = transfer[t].size

Writer(t) == transfer[t].file \in Files /\ transfer[t].offset <= transfer[t].length

Kept(t) ==
  /\ Ready(t) => transfer[t].body = <<>> /\ transfer[t].offset = 0
  /\ transfer[t].phase = "reading" =>
       transfer[t].method = "GET" /\ transfer[t].file \in Files
  /\ transfer[t].phase = "writing" =>
       Writer(t) /\ transfer[t].method \in {"POST", "PUT"}
  /\ /\ transfer[t].phase \in {"reading", "answered"} /\ transfer[t].method = "GET"
     /\ "POST" \notin disturbed[t]
     => Reader(t)

IInv == TypeOK /\ \A t \in Transfers : Kept(t)

LEMMA ChangedOne ==
  ASSUME TypeOK, NEW t \in Transfers, NEW r \in TransferType,
         transfer' = [transfer EXCEPT ![t] = r]
  PROVE  /\ transfer' \in [Transfers -> TransferType] /\ transfer'[t] = r
         /\ \A u \in Transfers \ {t} : transfer'[u] = transfer[u]
  BY DEF TypeOK

LEMMA MaxOfTwo ==
  ASSUME NEW a \in Int, NEW b \in Int
  PROVE  Max({a, b}) = IF a >= b THEN a ELSE b
<1>1. \E x \in {a, b} : \A y \in {a, b} : x >= y
  OBVIOUS
<1> QED
  BY <1>1 DEF Max

LEMMA MinOfTwo ==
  ASSUME NEW a \in Int, NEW b \in Int
  PROVE  Min({a, b}) = IF a <= b THEN a ELSE b
<1>1. \E x \in {a, b} : \A y \in {a, b} : x <= y
  OBVIOUS
<1> QED
  BY <1>1 DEF Min

LEMMA BeginsSelf ==
  ASSUME NEW s \in Seq(Units) PROVE Begins(s, s)
  BY DEF Begins

LEMMA BeginsTransitive ==
  ASSUME NEW r \in Seq(Units), NEW s \in Seq(Units), NEW t \in Seq(Units),
         Begins(r, s), Begins(s, t)
  PROVE  Begins(r, t)
  BY DEF Begins

(***************************************************************************)
(* What a step of another request leaves alone.                            *)
(***************************************************************************)
LEMMA OthersKept ==
  ASSUME IInv, TypeOK', NEW u \in Transfers,
         transfer'[u] = transfer[u], opened'[u] = opened[u],
         disturbed[u] \subseteq disturbed'[u],
         \/ "POST" \in disturbed'[u]
         \/ \A f \in Files : f = transfer[u].file => Begins(content[f], content'[f])
  PROVE  Kept(u)'
<1> DEFINE f == transfer[u].file
<1>1. Kept(u)
  BY DEF IInv
<1>2. ASSUME transfer[u].phase \in {"reading", "answered"}, transfer[u].method = "GET",
             "POST" \notin disturbed'[u]
      PROVE  Reader(u)'
  <2>1. Reader(u)
    BY <1>1, <1>2 DEF Kept
  <2>2. f \in Files /\ Begins(content[f], content'[f])
    BY <1>2, <2>1 DEF Reader
  <2>3. /\ content[f] \in Seq(Units) /\ content'[f] \in Seq(Units)
        /\ opened[u] \in Seq(Units) /\ transfer[u].body \in Seq(Units)
    BY <2>2 DEF IInv, TypeOK, TransferType
  <2>4. Begins(opened[u], content'[f]) /\ Begins(transfer[u].body, content'[f])
    BY <2>1, <2>2, <2>3, BeginsTransitive DEF Reader
  <2> QED
    BY <2>1, <2>2, <2>4 DEF Reader
<1> QED
  BY <1>1, <1>2 DEF Kept, Ready, Writer

\* The same when nothing but the request of t changes.
LEMMA OnlyOne ==
  ASSUME IInv, TypeOK', NEW t \in Transfers, UNCHANGED <<content, disturbed>>,
         \A u \in Transfers \ {t} : transfer'[u] = transfer[u] /\ opened'[u] = opened[u],
         Kept(t)'
  PROVE  IInv'
<1> SUFFICES ASSUME NEW u \in Transfers \ {t} PROVE Kept(u)'
  BY DEF IInv
<1>1. \A f \in Files : content[f] \in Seq(Units)
  BY DEF IInv, TypeOK
<1>2. \A f \in Files : Begins(content[f], content'[f])
  BY <1>1, BeginsSelf
<1> QED
  BY <1>2, OthersKept

(***************************************************************************)
(* The steps.                                                              *)
(***************************************************************************)
LEMMA GetKeeps ==
  ASSUME IInv, NEW t \in Transfers, Get(t) PROVE IInv'
<1>1. name \in Files /\ content[name] \in Seq(Units)
  BY DEF IInv, TypeOK, Get
<1> DEFINE phase == IF content[name] = <<>> THEN "answered" ELSE "reading"
           r == [transfer[t] EXCEPT !.method = "GET", !.file = name,
                                    !.size = Len(content[name]), !.phase = phase]
<1>2. transfer' = [transfer EXCEPT ![t] = r]
  BY DEF Get, IInv, TypeOK
<1>3. TypeOK'
  <2>1. r \in TransferType
    <3>1. transfer[t] \in TransferType
      BY DEF IInv, TypeOK
    <3>2. phase \in Phases /\ Len(content[name]) \in Nat
      BY <1>1 DEF Phases
    <3> HIDE DEF phase
    <3> QED
      BY <1>1, <3>1, <3>2 DEF TransferType, Methods
  <2> HIDE DEF r
  <2> QED
    BY <1>1, <1>2, <2>1, ChangedOne DEF Get, IInv, TypeOK
<1>4. transfer[t].body = <<>> /\ transfer[t].offset = 0
  BY DEF IInv, Kept, Get
<1>5. /\ opened'[t] = content[name] /\ content' = content
      /\ transfer'[t].body = <<>> /\ transfer'[t].offset = 0
      /\ transfer'[t].file = name /\ transfer'[t].size = Len(content[name])
      /\ transfer'[t].method = "GET"
      /\ transfer'[t].phase = IF content[name] = <<>> THEN "answered" ELSE "reading"
  BY <1>2, <1>4 DEF Get, IInv, TypeOK, TransferType
<1>6. Begins(content[name], content[name]) /\ Begins(<<>>, content[name])
  BY <1>1 DEF Begins
<1>7. Reader(t)'
  BY <1>1, <1>5, <1>6 DEF Reader
<1>8. Kept(t)'
  BY <1>1, <1>5, <1>7 DEF Kept, Ready
<1>9. \A u \in Transfers \ {t} : transfer'[u] = transfer[u] /\ opened'[u] = opened[u]
  BY DEF Get, IInv, TypeOK
<1> QED
  BY <1>3, <1>8, <1>9, OnlyOne DEF Get

\* A request that is not a reader, and where it is one that writes, has a file.
LEMMA UploadKeepsType ==
  ASSUME TypeOK, NEW t \in Transfers, NEW method \in {"POST", "PUT"}, Upload(t, method)
  PROVE  /\ transfer' \in [Transfers -> TransferType]
         /\ \A u \in Transfers \ {t} : transfer'[u] = transfer[u]
         /\ transfer'[t].phase = "writing" /\ transfer'[t].method = method
         /\ transfer'[t].file = Opened(t) /\ Opened(t) \in Files
         /\ transfer'[t].offset = transfer[t].offset /\ transfer'[t].length \in Nat
<1>1. PICK n \in 0 .. BodyLen :
        transfer' = [transfer EXCEPT ![t].method = method, ![t].file = Opened(t),
                                     ![t].length = n, ![t].phase = "writing"]
  BY DEF Upload
<1>2. Opened(t) \in Files /\ n \in Nat
  BY FileTransfersAssumption DEF Opened, TypeOK, Files
<1> DEFINE r == [transfer[t] EXCEPT !.method = method, !.file = Opened(t),
                                    !.length = n, !.phase = "writing"]
<1>3. transfer' = [transfer EXCEPT ![t] = r]
  BY <1>1 DEF TypeOK
<1>4. transfer[t] \in TransferType
  BY DEF TypeOK
<1>5. /\ r \in TransferType
      /\ r.phase = "writing" /\ r.method = method /\ r.file = Opened(t)
      /\ r.offset = transfer[t].offset /\ r.length \in Nat
  BY <1>2, <1>4 DEF TransferType, Phases, Methods
<1> HIDE DEF r
<1> QED
  BY <1>2, <1>3, <1>5, ChangedOne

LEMMA PostKeeps ==
  ASSUME IInv, NEW t \in Transfers, Post(t) PROVE IInv'
<1>1. /\ \A u \in Transfers \ {t} : transfer'[u] = transfer[u]
      /\ transfer'[t].phase = "writing" /\ transfer'[t].method = "POST"
      /\ transfer'[t].file = Opened(t) /\ Opened(t) \in Files
      /\ transfer'[t].offset = 0 /\ transfer'[t].length \in Nat
  BY UploadKeepsType DEF Post, IInv, Kept
<1>2. <<>> \in Seq(Units)
  OBVIOUS
<1>3. \A u \in Transfers :
        disturbed'[u] = IF u # t /\ transfer[u].file = Opened(t)
                          THEN disturbed[u] \cup {"POST"} ELSE disturbed[u]
  BY DEF Post, Changes
<1>4. TypeOK'
  <2>1. disturbed' \in [Transfers -> SUBSET Methods]
    <3>1. \A u \in Transfers : disturbed[u] \in SUBSET Methods
      BY DEF IInv, TypeOK
    <3>2. \A u \in Transfers : disturbed[u] \cup {"POST"} \in SUBSET Methods
      BY <3>1 DEF Methods
    <3> QED
      BY <3>1, <3>2 DEF Post, Changes
  <2>2. content' \in [Files -> Seq(Units)]
    BY <1>1, <1>2 DEF Post, IInv, TypeOK
  <2> QED
    BY <1>1, <2>1, <2>2, UploadKeepsType DEF Post, IInv, TypeOK
<1>5. Kept(t)'
  BY <1>1 DEF Kept, Ready, Writer
<1>6. ASSUME NEW u \in Transfers \ {t} PROVE Kept(u)'
  <2>1. CASE transfer[u].file = Opened(t)
    BY <1>1, <1>3, <1>4, <2>1, OthersKept DEF Post
  <2>2. CASE transfer[u].file # Opened(t)
    <3>1. ASSUME NEW f \in Files, f = transfer[u].file
          PROVE  Begins(content[f], content'[f])
      <4>1. content'[f] = content[f] /\ content[f] \in Seq(Units)
        BY <2>2, <3>1 DEF Post, IInv, TypeOK
      <4> QED
        BY <4>1, BeginsSelf
    <3> QED
      BY <1>1, <1>3, <1>4, <3>1, OthersKept DEF Post
  <2> QED
    BY <2>1, <2>2
<1> QED
  BY <1>4, <1>5, <1>6 DEF IInv

LEMMA PutKeeps ==
  ASSUME IInv, NEW t \in Transfers, Put(t) PROVE IInv'
<1>1. /\ \A u \in Transfers \ {t} : transfer'[u] = transfer[u]
      /\ transfer'[t].phase = "writing" /\ transfer'[t].method = "PUT"
      /\ transfer'[t].file = Opened(t) /\ Opened(t) \in Files
      /\ transfer'[t].offset = 0 /\ transfer'[t].length \in Nat
  BY UploadKeepsType DEF Put, IInv, Kept
<1>2. TypeOK'
  BY <1>1, UploadKeepsType DEF Put, IInv, TypeOK
<1>3. Kept(t)'
  BY <1>1 DEF Kept, Ready, Writer
<1> QED
  BY <1>1, <1>2, <1>3, OnlyOne DEF Put

LEMMA DeleteKeeps ==
  ASSUME IInv, NEW t \in Transfers, Delete(t) PROVE IInv'
<1> DEFINE r == [transfer[t] EXCEPT !.method = "DELETE", !.phase = "answered"]
<1>0. transfer' = [transfer EXCEPT ![t] = r]
  BY DEF Delete, IInv, TypeOK
<1>1. r \in TransferType /\ r.method = "DELETE" /\ r.phase = "answered"
  <2>1. transfer[t] \in TransferType
    BY DEF IInv, TypeOK
  <2> QED
    BY <2>1 DEF TransferType, Phases, Methods
<1> HIDE DEF r
<1>2. /\ TypeOK' /\ transfer'[t] = r
      /\ \A u \in Transfers \ {t} : transfer'[u] = transfer[u]
  BY <1>0, <1>1, ChangedOne DEF Delete, IInv, TypeOK
<1>3. Kept(t)'
  BY <1>1, <1>2 DEF Kept, Ready
<1> QED
  BY <1>2, <1>3, OnlyOne DEF Delete

LEMMA AbandonKeeps ==
  ASSUME IInv, NEW t \in Transfers, Abandon(t) PROVE IInv'
<1> DEFINE r == [transfer[t] EXCEPT !.phase = "abandoned"]
<1>0. transfer' = [transfer EXCEPT ![t] = r]
  BY DEF Abandon, IInv, TypeOK
<1>1. r \in TransferType /\ r.phase = "abandoned"
  <2>1. transfer[t] \in TransferType
    BY DEF IInv, TypeOK
  <2> QED
    BY <2>1 DEF TransferType, Phases, Methods
<1> HIDE DEF r
<1>2. /\ TypeOK' /\ transfer'[t] = r
      /\ \A u \in Transfers \ {t} : transfer'[u] = transfer[u]
  BY <1>0, <1>1, ChangedOne DEF Abandon, IInv, TypeOK
<1>3. Kept(t)'
  BY <1>1, <1>2 DEF Kept, Ready
<1> QED
  BY <1>2, <1>3, OnlyOne DEF Abandon

LEMMA ReadCount ==
  ASSUME NEW size \in Nat, NEW len \in Nat, NEW from \in Nat, NEW n,
         n = Max({0, Min({size, len - from})})
  PROVE  n \in Nat /\ (n = 0 \/ from + n <= len)
<1> DEFINE m == Min({size, len - from})
<1>1. m \in Int /\ m <= len - from
  BY MinOfTwo
<1> HIDE DEF m
<1>2. n = IF 0 >= m THEN 0 ELSE m
  BY <1>1, MaxOfTwo DEF m
<1> QED
  BY <1>1, <1>2

\* The pieces of staticFileReadEvent and fileWriteEvent.
Part(s, from, n) == SubSeq(s, from + 1, from + n)
Join(s, part) == s \o part
AfterRead(old, offset, body, phase) ==
  [old EXCEPT !.offset = offset, !.body = body, !.phase = phase]
AfterWrite(old, n, phase) == [old EXCEPT !.offset = @ + n, !.phase = phase]

LEMMA PartRead ==
  ASSUME NEW s \in Seq(Units), NEW from \in Nat, NEW n \in Nat,
         n = 0 \/ from + n <= Len(s)
  PROVE  LET part == Part(s, from, n) IN
         /\ part \in Seq(Units) /\ Len(part) = n
         /\ \A i \in 1 .. n : part[i] = s[from + i]
<1> DEFINE part == SubSeq(s, from + 1, from + n)
<1>1. \A i \in from + 1 .. from + n : s[i] \in Units
  BY ElementOfSeq
<1>2. /\ part \in Seq(Units)
      /\ Len(part) = IF from + 1 <= from + n THEN from + n - (from + 1) + 1 ELSE 0
      /\ \A i \in 1 .. from + n - (from + 1) + 1 : part[i] = s[from + 1 + i - 1]
  BY <1>1, SubSeqProperties
<1>3. from + n - (from + 1) + 1 = n
  OBVIOUS
<1>4. \A i \in 1 .. n : from + 1 + i - 1 = from + i
  OBVIOUS
<1>5. Part(s, from, n) = part
  BY DEF Part
<1> HIDE DEF part
<1> QED
  BY <1>2, <1>3, <1>4, <1>5

LEMMA Joined ==
  ASSUME NEW s \in Seq(Units), NEW t \in Seq(Units)
  PROVE  LET body == Join(s, t) IN
         /\ body \in Seq(Units) /\ Len(body) = Len(s) + Len(t)
         /\ \A i \in 1 .. Len(body) :
              body[i] = IF i <= Len(s) THEN s[i] ELSE t[i - Len(s)]
  BY ConcatProperties DEF Join

LEMMA TransferRead ==
  ASSUME NEW old \in TransferType, NEW offset \in Nat, NEW body \in Seq(Units),
         NEW phase \in Phases
  PROVE  LET r == AfterRead(old, offset, body, phase) IN
         /\ r \in TransferType /\ r.file = old.file /\ r.offset = offset /\ r.body = body
         /\ r.phase = phase /\ r.method = old.method /\ r.size = old.size
  BY DEF TransferType, AfterRead

LEMMA TransferWritten ==
  ASSUME NEW old \in TransferType, NEW n \in Nat, NEW phase \in Phases
  PROVE  LET r == AfterWrite(old, n, phase) IN
         /\ r \in TransferType /\ r.file = old.file /\ r.offset = old.offset + n
         /\ r.phase = phase /\ r.length = old.length /\ r.method = old.method
<1>1. old.offset \in Nat /\ old.offset + n \in Nat
  BY DEF TransferType
<1> QED
  BY <1>1 DEF TransferType, AfterWrite

LEMMA ReadKeeps ==
  ASSUME IInv, NEW t \in Transfers, staticFileReadEvent(t) PROVE IInv'
<1> DEFINE f == transfer[t].file
           from == transfer[t].offset
           n == Max({0, Min({BufSize, Length(t) - from})})
           part == Part(content[f], from, n)
           body == Join(transfer[t].body, part)
           phase == IF Complete(transfer[t].size, body) THEN "answered" ELSE "reading"
           r == AfterRead(transfer[t], from + n, body, phase)
<1>1. /\ transfer[t].phase = "reading" /\ from # Length(t)
      /\ transfer' = [transfer EXCEPT ![t] = r]
      /\ UNCHANGED <<name, content, opened, disturbed>>
  BY DEF staticFileReadEvent, IInv, TypeOK, Part, Join, AfterRead
<1>2. /\ transfer[t] \in TransferType /\ transfer[t].method = "GET" /\ from \in Nat
      /\ f \in Files /\ transfer[t].body \in Seq(Units) /\ content[f] \in Seq(Units)
  BY <1>1 DEF IInv, TypeOK, Kept, TransferType
<1>3. n \in Nat /\ (n = 0 \/ from + n <= Len(content[f]))
  <2>1. Length(t) = Len(content[f]) /\ Length(t) \in Nat /\ BufSize \in Nat
    BY <1>2, FileTransfersAssumption DEF Length
  <2> QED
    BY <1>2, <2>1, ReadCount
<1> HIDE DEF n
<1>4. /\ part \in Seq(Units) /\ Len(part) = n
      /\ \A i \in 1 .. n : part[i] = content[f][from + i]
  BY <1>2, <1>3, PartRead
<1> HIDE DEF part
<1>5. /\ body \in Seq(Units) /\ Len(body) = Len(transfer[t].body) + n
      /\ \A i \in 1 .. Len(body) :
           body[i] = IF i <= Len(transfer[t].body) THEN transfer[t].body[i]
                     ELSE part[i - Len(transfer[t].body)]
  BY <1>2, <1>4, Joined
<1> HIDE DEF body
<1>6. phase \in Phases /\ (phase = "answered" => Len(body) = transfer[t].size)
      /\ phase \in {"answered", "reading"}
  BY DEF Phases, Complete
<1> HIDE DEF phase
<1>7. /\ r \in TransferType /\ r.file = f /\ r.offset = from + n /\ r.body = body
      /\ r.phase = phase /\ r.method = "GET" /\ r.size = transfer[t].size
  <2>1. from + n \in Nat
    BY <1>2, <1>3
  <2>2. /\ transfer[t] \in TransferType /\ body \in Seq(Units) /\ phase \in Phases
    BY <1>2, <1>5, <1>6
  <2>3. /\ r \in TransferType /\ r.file = transfer[t].file /\ r.offset = from + n
        /\ r.body = body /\ r.phase = phase /\ r.method = transfer[t].method
        /\ r.size = transfer[t].size
    BY <2>1, <2>2, TransferRead
  <2> HIDE DEF r
  <2> QED
    BY <1>2, <2>3
<1> HIDE DEF r
<1>8. /\ TypeOK' /\ transfer'[t] = r
      /\ \A u \in Transfers \ {t} : transfer'[u] = transfer[u]
  BY <1>1, <1>7, ChangedOne DEF IInv, TypeOK
<1>9. ASSUME "POST" \notin disturbed[t] PROVE Reader(t)'
  <2>1. Reader(t)
    BY <1>1, <1>2, <1>9 DEF IInv, Kept
  <2>2. Begins(body, content[f])
    <3>1. from = Len(transfer[t].body) /\ Begins(transfer[t].body, content[f])
      BY <2>1 DEF Reader
    <3>2. Len(body) <= Len(content[f])
      BY <1>2, <1>3, <1>5, <3>1 DEF Begins
    <3>3. ASSUME NEW i \in 1 .. Len(body) PROVE body[i] = content[f][i]
      <4>1. CASE i <= Len(transfer[t].body)
        BY <1>2, <1>5, <3>1, <3>3, <4>1 DEF Begins
      <4>2. CASE i > Len(transfer[t].body)
        <5>1. i - from \in 1 .. n /\ body[i] = part[i - from]
          BY <1>2, <1>3, <1>5, <3>1, <3>3, <4>2
        <5>2. part[i - from] = content[f][from + (i - from)]
          BY <1>4, <5>1
        <5>3. from + (i - from) = i
          BY <1>2
        <5> QED
          BY <5>1, <5>2, <5>3
      <4> QED
        BY <1>2, <1>5, <3>3, <4>1, <4>2
    <3> QED
      BY <3>2, <3>3 DEF Begins
  <2>3. r.offset = Len(body)
    BY <1>5, <1>7, <2>1 DEF Reader
  <2> QED
    BY <1>1, <1>2, <1>6, <1>7, <1>8, <2>1, <2>2, <2>3 DEF Reader
<1>10. Kept(t)'
  BY <1>1, <1>2, <1>6, <1>7, <1>8, <1>9 DEF Kept, Ready
<1> QED
  BY <1>1, <1>8, <1>10, OnlyOne

\* A write at the end of the file leaves what was there as its beginning, and so
\* does a write of nothing.
LEMMA WrittenBegins ==
  ASSUME NEW t \in Transfers, transfer[t].offset \in Nat, NEW from \in Nat, NEW n \in Nat,
         content[transfer[t].file] \in Seq(Units)
  PROVE  /\ Written(t, from, n) \in Seq(Units)
         /\ n = 0 \/ from = Len(content[transfer[t].file]) =>
              Begins(content[transfer[t].file], Written(t, from, n))
<1> DEFINE old == content[transfer[t].file]
           m == Max({Len(old), from + n})
<1>1. Len(old) \in Nat /\ m \in Nat /\ m >= Len(old)
  <2>1. Len(old) \in Nat /\ from + n \in Nat
    OBVIOUS
  <2>2. Len(old) \in Int /\ from + n \in Int
    BY <2>1
  <2>3. m = IF Len(old) >= from + n THEN Len(old) ELSE from + n
    BY <2>2, MaxOfTwo, Zenon
  <2> HIDE DEF m
  <2> QED
    BY <2>1, <2>3
<1> HIDE DEF m
<1>2. /\ \A i \in Nat, u \in Files \cup {"none"} : Unit(u, i) \in Units
      /\ Hole \in Units
  BY DEF Unit, Units, Hole
<1>3. ASSUME NEW i \in 1 .. m
      PROVE  (IF i \in from + 1 .. from + n THEN Unit(t, transfer[t].offset + i - from)
              ELSE IF i <= Len(old) THEN old[i] ELSE Hole) \in Units
  <2>1. CASE i \in from + 1 .. from + n
    <3>1. transfer[t].offset + i - from \in Nat /\ t \in Files \cup {"none"}
      BY <2>1 DEF Files
    <3> QED
      BY <1>2, <2>1, <3>1
  <2>2. CASE i \notin from + 1 .. from + n
    BY <1>1, <1>2, <2>2, ElementOfSeq
  <2> QED
    BY <2>1, <2>2
<1>4. Written(t, from, n) =
        [i \in 1 .. m |->
           IF i \in from + 1 .. from + n THEN Unit(t, transfer[t].offset + i - from)
           ELSE IF i <= Len(old) THEN old[i] ELSE Hole]
  BY DEF Written, m
<1>5. Written(t, from, n) \in Seq(Units) /\ Len(Written(t, from, n)) = m
  BY <1>1, <1>3, <1>4
<1>6. ASSUME n = 0 \/ from = Len(old), NEW i \in 1 .. Len(old)
      PROVE  old[i] = Written(t, from, n)[i]
  BY <1>1, <1>4, <1>6
<1> QED
  BY <1>1, <1>5, <1>6 DEF Begins

LEMMA WriteKeeps ==
  ASSUME IInv, NEW t \in Transfers, fileWriteEvent(t) PROVE IInv'
<1> DEFINE f == transfer[t].file
           left == transfer[t].length - transfer[t].offset
<1>1. PICK n \in IF left = 0 THEN {0} ELSE 1 .. left :
        /\ content' = [content EXCEPT ![f] = Written(t, Place(t), n)]
        /\ transfer' = [transfer EXCEPT ![t].offset = @ + n,
                          ![t].phase = IF n = left THEN "answered" ELSE "writing"]
        /\ IF n = 0 THEN UNCHANGED disturbed ELSE Changes(t, transfer[t].method, f)
  BY DEF fileWriteEvent
<1>2. transfer[t].phase = "writing" /\ UNCHANGED <<name, opened>>
  BY DEF fileWriteEvent
<1>3. /\ transfer[t] \in TransferType /\ f \in Files /\ content[f] \in Seq(Units)
      /\ transfer[t].offset \in Nat /\ transfer[t].length \in Nat
      /\ transfer[t].offset <= transfer[t].length
      /\ transfer[t].method \in {"POST", "PUT"} /\ transfer[t].method \in Methods
  BY <1>2 DEF IInv, TypeOK, Kept, Writer, TransferType
<1>4. left \in Nat /\ n \in Nat /\ n <= left
  BY <1>1, <1>3
<1> DEFINE phase == IF n = left THEN "answered" ELSE "writing"
           r == AfterWrite(transfer[t], n, phase)
<1>5. transfer' = [transfer EXCEPT ![t] = r]
  BY <1>1 DEF IInv, TypeOK, AfterWrite
<1>6. phase \in {"answered", "writing"}
  OBVIOUS
<1> HIDE DEF phase
<1>7. /\ r \in TransferType /\ r.file = f /\ r.offset = transfer[t].offset + n
      /\ r.phase = phase /\ r.length = transfer[t].length /\ r.method = transfer[t].method
  <2>1. phase \in Phases
    BY <1>6 DEF Phases
  <2> QED
    BY <1>3, <1>4, <2>1, TransferWritten
<1> HIDE DEF r
<1>8. /\ transfer' \in [Transfers -> TransferType] /\ transfer'[t] = r
      /\ \A u \in Transfers \ {t} : transfer'[u] = transfer[u]
  BY <1>5, <1>7, ChangedOne DEF IInv
<1>9. Place(t) \in Nat
  BY <1>3 DEF Place, Length
<1>10. content' \in [Files -> Seq(Units)]
  BY <1>1, <1>3, <1>4, <1>9, WrittenBegins DEF IInv, TypeOK
<1>11. /\ disturbed' \in [Transfers -> SUBSET Methods]
       /\ \A u \in Transfers : disturbed[u] \subseteq disturbed'[u]
       /\ n # 0 => \A u \in Transfers \ {t} :
                     transfer[u].file = f => transfer[t].method \in disturbed'[u]
  <2>1. CASE n = 0
    BY <1>1, <2>1 DEF IInv, TypeOK
  <2>2. CASE n # 0
    BY <1>1, <1>3, <2>2 DEF IInv, TypeOK, Changes
  <2> QED
    BY <2>1, <2>2
<1>12. TypeOK'
  BY <1>2, <1>8, <1>10, <1>11 DEF IInv, TypeOK
<1>13. Kept(t)'
  <2>1. transfer[t].offset + n <= transfer[t].length
    BY <1>3, <1>4
  <2>2. Writer(t)'
    BY <1>3, <1>7, <1>8, <2>1 DEF Writer
  <2> QED
    BY <1>3, <1>6, <1>7, <1>8, <2>2 DEF Kept, Ready
<1>14. ASSUME NEW u \in Transfers \ {t} PROVE Kept(u)'
  <2>1. \/ "POST" \in disturbed'[u]
        \/ \A g \in Files : g = transfer[u].file => Begins(content[g], content'[g])
    <3>1. SUFFICES ASSUME "POST" \notin disturbed'[u], NEW g \in Files, g = transfer[u].file
                   PROVE  Begins(content[g], content'[g])
      OBVIOUS
    <3>2. CASE g # f
      <4>1. content'[g] = content[g] /\ content[g] \in Seq(Units)
        BY <1>1, <3>2 DEF IInv, TypeOK
      <4> QED
        BY <4>1, BeginsSelf
    <3>3. CASE g = f
      <4>1. content'[f] = Written(t, Place(t), n)
        BY <1>1, <1>3 DEF IInv, TypeOK
      <4>2. n = 0 \/ Place(t) = Len(content[f])
        <5>1. n = 0 \/ transfer[t].method = "PUT"
          BY <1>3, <1>11, <3>1, <3>3
        <5> QED
          BY <5>1 DEF Place, Length
      <4> QED
        BY <1>3, <1>4, <1>9, <3>3, <4>1, <4>2, WrittenBegins
    <3> QED
      BY <3>2, <3>3
  <2> QED
    BY <1>2, <1>8, <1>11, <1>12, <2>1, OthersKept
<1> QED
  BY <1>12, <1>13, <1>14 DEF IInv

(***************************************************************************)
(* The theorem.                                                            *)
(***************************************************************************)
LEMMA InitKeeps == Init => IInv
<1> SUFFICES ASSUME Init PROVE IInv
  OBVIOUS
<1>1. /\ NoTransfer \in TransferType /\ <<>> \in Seq(Units)
      /\ NoTransfer.phase = "ready" /\ NoTransfer.body = <<>> /\ NoTransfer.offset = 0
  BY DEF NoTransfer, TransferType, Phases, Methods
<1>2. Body("original", FileLen) \in Seq(Units)
  BY FileTransfersAssumption DEF Body, Unit, Units, Files
<1>3. TypeOK
  BY <1>1, <1>2 DEF Init, TypeOK, Files
<1>4. \A t \in Transfers : transfer[t] = NoTransfer
  BY DEF Init
<1>5. \A t \in Transfers : Kept(t)
  BY <1>1, <1>4 DEF Kept, Ready
<1> QED
  BY <1>3, <1>5 DEF IInv

LEMMA NextKeeps == IInv /\ [Next]_vars => IInv'
<1> SUFFICES ASSUME IInv, [Next]_vars PROVE IInv'
  OBVIOUS
<1>1. CASE UNCHANGED vars
  BY <1>1 DEF vars, IInv, TypeOK, Kept, Ready, Writer, Reader
<1> QED
  BY <1>1, GetKeeps, PostKeeps, PutKeeps, DeleteKeeps, ReadKeeps, WriteKeeps, AbandonKeeps
  DEF Next

LEMMA SameUnits ==
  ASSUME NEW r \in Seq(Units), NEW s \in Seq(Units), NEW t \in Seq(Units),
         Begins(r, t), Begins(s, t), Len(r) = Len(s)
  PROVE  r = s
<1>1. \A i \in 1 .. Len(r) : r[i] = s[i]
  BY DEF Begins
<1> QED
  BY <1>1, SeqEqual

\* However many requests share a file, and however their reads and writes come in
\* between each other: a GET that is answered, and whose file no POST took over,
\* was given exactly what was in the file when it was opened, though
\* staticFileReadEvent never compares more than a length (static_file.cpp:87).
THEOREM AlwaysSnapshot == Spec => []Snapshot
<1>1. IInv => Snapshot
  <2> SUFFICES ASSUME IInv, NEW t \in Transfers, Answered(t, "GET"),
                      "POST" \notin disturbed[t]
               PROVE  transfer[t].body = opened[t]
    BY DEF Snapshot
  <2>1. Reader(t) /\ transfer[t].phase = "answered"
    BY DEF IInv, Kept, Answered
  <2>2. /\ opened[t] \in Seq(Units) /\ transfer[t].body \in Seq(Units)
        /\ content[transfer[t].file] \in Seq(Units)
    BY <2>1 DEF IInv, TypeOK, TransferType, Reader
  <2> QED
    BY <2>1, <2>2, SameUnits DEF Reader
<1> QED
  BY <1>1, InitKeeps, NextKeeps, PTL DEF Spec

(***************************************************************************)
(* Uploads. What was written so far is kept: of a POST at the beginning of *)
(* its file, of a PUT wherever its parts were appended.                    *)
(***************************************************************************)
\* No file has a unit of t.
Unwritten(t) == \A f \in Files : \A i \in 1 .. Len(content[f]) : content[f][i][1] # t

Begun(t) ==
  LET units == content[transfer[t].file] IN
  /\ transfer[t].offset <= Len(units)
  /\ \A i \in 1 .. transfer[t].offset : units[i] = Unit(t, i)

Stored(t) ==
  /\ Ready(t) => Unwritten(t)
  /\ transfer[t].phase \in {"writing", "answered"} /\ "POST" \notin disturbed[t] =>
       /\ transfer[t].method \in {"POST", "PUT"} => transfer[t].file \in Files
       /\ transfer[t].method = "POST" => Begun(t)
       /\ transfer[t].method = "PUT" => Appended(t, transfer[t].offset)
  /\ transfer[t].phase = "answered" /\ transfer[t].method \in {"POST", "PUT"} =>
       transfer[t].offset = transfer[t].length

UInv == \A t \in Transfers : Stored(t)

\* A step writes units of t only, or leaves holes.
AddsOnly(t) ==
  \A f \in Files : \A i \in 1 .. Len(content'[f]) :
    \/ content'[f][i][1] \in {t, "none"}
    \/ i \in 1 .. Len(content[f]) /\ content'[f][i] = content[f][i]

\* The parts of a PUT stay where they are when the file only grows by units of
\* others.
GrowsWithout(u, s, r) ==
  /\ Begins(s, r)
  /\ \A i \in 1 .. Len(r) : r[i][1] # u \/ (i \in 1 .. Len(s) /\ r[i] = s[i])

LEMMA AppendedStays ==
  ASSUME NEW u, NEW s \in Seq(Units), NEW r \in Seq(Units), GrowsWithout(u, s, r)
  PROVE  UnitsOf(u, r) = UnitsOf(u, s) /\ \A i \in UnitsOf(u, s) : r[i] = s[i]
  <1>1. DOMAIN s = 1 .. Len(s) /\ DOMAIN r = 1 .. Len(r) /\ Len(s) <= Len(r)
    BY DEF GrowsWithout, Begins
  <1>2. \A i \in 1 .. Len(s) : i \in 1 .. Len(r) /\ r[i] = s[i]
    BY <1>1 DEF GrowsWithout, Begins
  <1> QED
    BY <1>1, <1>2 DEF GrowsWithout, UnitsOf

LEMMA OthersStored ==
  ASSUME IInv, IInv', UInv, NEW t \in Transfers, NEW u \in Transfers \ {t},
         transfer'[u] = transfer[u], disturbed[u] \subseteq disturbed'[u], AddsOnly(t),
         \/ "POST" \in disturbed'[u]
         \/ \A f \in Files : f = transfer[u].file => Begins(content[f], content'[f])
  PROVE  Stored(u)'
  <1> DEFINE f == transfer[u].file
  <1>1. Stored(u)
    BY DEF UInv
  <1>2. u # "none" /\ u # t
    BY FileTransfersAssumption
  <1>3. \A g \in Files : content[g] \in Seq(Units) /\ content'[g] \in Seq(Units)
    BY DEF IInv, TypeOK
  <1>4. ASSUME Ready(u)' PROVE Unwritten(u)'
    <2>1. Unwritten(u)
      BY <1>1, <1>4 DEF Stored, Ready
    <2> QED
      BY <1>2, <2>1 DEF Unwritten, AddsOnly
  <1>5. ASSUME transfer[u].phase \in {"writing", "answered"}, "POST" \notin disturbed'[u],
               transfer[u].method \in {"POST", "PUT"}
        PROVE  /\ f \in Files /\ Begins(content[f], content'[f])
               /\ transfer[u].offset \in Nat
    BY <1>1, <1>5 DEF Stored, IInv, TypeOK, TransferType
  <1>6. ASSUME transfer[u].phase \in {"writing", "answered"}, "POST" \notin disturbed'[u],
               transfer[u].method = "POST"
        PROVE  Begun(u)'
    <2>1. Begun(u) /\ f \in Files /\ Begins(content[f], content'[f])
          /\ transfer[u].offset \in Nat
      BY <1>1, <1>5, <1>6 DEF Stored
    <2>2. /\ transfer[u].offset <= Len(content'[f])
          /\ \A i \in 1 .. transfer[u].offset : content'[f][i] = Unit(u, i)
      BY <1>3, <2>1 DEF Begun, Begins
    <2> QED
      BY <2>2 DEF Begun
  <1>7. ASSUME transfer[u].phase \in {"writing", "answered"}, "POST" \notin disturbed'[u],
               transfer[u].method = "PUT"
        PROVE  Appended(u, transfer[u].offset)'
    <2>1. Appended(u, transfer[u].offset) /\ f \in Files /\ Begins(content[f], content'[f])
          /\ transfer[u].offset \in Nat
      BY <1>1, <1>5, <1>7 DEF Stored
    <2>2. GrowsWithout(u, content[f], content'[f])
      BY <1>2, <2>1 DEF AddsOnly, GrowsWithout
    <2>3. /\ UnitsOf(u, content'[f]) = UnitsOf(u, content[f])
          /\ \A i \in UnitsOf(u, content[f]) : content'[f][i] = content[f][i]
      BY <1>3, <2>1, <2>2, AppendedStays
    <2>4. /\ {content[f][i] : i \in UnitsOf(u, content[f])} =
               {Unit(u, k) : k \in 1 .. transfer[u].offset}
          /\ \A i, j \in UnitsOf(u, content[f]) :
               i < j => content[f][i][2] < content[f][j][2]
      BY <2>1 DEF Appended
    <2>5. /\ {content'[f][i] : i \in UnitsOf(u, content'[f])} =
               {Unit(u, k) : k \in 1 .. transfer[u].offset}
          /\ \A i, j \in UnitsOf(u, content'[f]) :
               i < j => content'[f][i][2] < content'[f][j][2]
      BY <2>3, <2>4
    <2> QED
      BY <2>5 DEF Appended
  <1> QED
    BY <1>1, <1>4, <1>5, <1>6, <1>7 DEF Stored

\* The same when no file changes.
LEMMA OnlyOneStored ==
  ASSUME IInv, IInv', UInv, NEW t \in Transfers, UNCHANGED <<content, disturbed>>,
         \A u \in Transfers \ {t} : transfer'[u] = transfer[u],
         Stored(t)'
  PROVE  UInv'
  <1> SUFFICES ASSUME NEW u \in Transfers \ {t} PROVE Stored(u)'
    BY DEF UInv
  <1>1. \A f \in Files : content[f] \in Seq(Units)
    BY DEF IInv, TypeOK
  <1>2. \A f \in Files : Begins(content[f], content'[f])
    BY <1>1, BeginsSelf
  <1>3. AddsOnly(t)
    BY DEF AddsOnly
  <1> QED
    BY <1>2, <1>3, OthersStored

LEMMA GetStores ==
  ASSUME IInv, IInv', UInv, NEW t \in Transfers, Get(t) PROVE UInv'
  <1>1. \A u \in Transfers \ {t} : transfer'[u] = transfer[u]
    BY DEF Get, IInv, TypeOK
  <1>2. transfer'[t].method = "GET" /\ transfer'[t].phase # "ready"
    BY DEF Get, IInv, TypeOK, TransferType
  <1> QED
    BY <1>1, <1>2, OnlyOneStored DEF Get, Stored, Ready

LEMMA DeleteStores ==
  ASSUME IInv, IInv', UInv, NEW t \in Transfers, Delete(t) PROVE UInv'
  <1>1. \A u \in Transfers \ {t} : transfer'[u] = transfer[u]
    BY DEF Delete, IInv, TypeOK
  <1>2. transfer'[t].method = "DELETE" /\ transfer'[t].phase # "ready"
    BY DEF Delete, IInv, TypeOK, TransferType
  <1> QED
    BY <1>1, <1>2, OnlyOneStored DEF Delete, Stored, Ready

LEMMA AbandonStores ==
  ASSUME IInv, IInv', UInv, NEW t \in Transfers, Abandon(t) PROVE UInv'
  <1>1. \A u \in Transfers \ {t} : transfer'[u] = transfer[u]
    BY DEF Abandon, IInv, TypeOK
  <1>2. transfer'[t].phase = "abandoned"
    BY DEF Abandon, IInv, TypeOK, TransferType
  <1> QED
    BY <1>1, <1>2, OnlyOneStored DEF Abandon, Stored, Ready

LEMMA ReadStores ==
  ASSUME IInv, IInv', UInv, NEW t \in Transfers, staticFileReadEvent(t) PROVE UInv'
  <1>1. /\ \A u \in Transfers \ {t} : transfer'[u] = transfer[u]
        /\ transfer'[t].method = transfer[t].method /\ transfer'[t].phase # "ready"
    BY DEF staticFileReadEvent, IInv, TypeOK, TransferType
  <1>2. transfer[t].method = "GET"
    BY DEF staticFileReadEvent, IInv, Kept
  <1> QED
    BY <1>1, <1>2, OnlyOneStored DEF staticFileReadEvent, Stored, Ready

\* A request begins with nothing stored: a POST in a file it truncated, a PUT in
\* one that has no unit of it.
LEMMA PostStores ==
  ASSUME IInv, IInv', UInv, NEW t \in Transfers, Post(t) PROVE UInv'
  <1>1. /\ \A u \in Transfers \ {t} : transfer'[u] = transfer[u]
        /\ transfer'[t].phase = "writing" /\ transfer'[t].method = "POST"
        /\ transfer'[t].file = Opened(t) /\ Opened(t) \in Files
        /\ transfer'[t].offset = 0
    BY UploadKeepsType DEF Post, IInv, Kept
  <1>2. \A f \in Files : /\ content[f] \in Seq(Units)
                         /\ content'[f] = IF f = Opened(t) THEN <<>> ELSE content[f]
    BY <1>1 DEF Post, IInv, TypeOK
  <1>3. \A u \in Transfers :
          disturbed'[u] = IF u # t /\ transfer[u].file = Opened(t)
                            THEN disturbed[u] \cup {"POST"} ELSE disturbed[u]
    BY DEF Post, Changes
  <1>4. AddsOnly(t)
    BY <1>2 DEF AddsOnly
  <1>5. Stored(t)'
    BY <1>1, <1>2 DEF Stored, Ready, Begun
  <1>6. ASSUME NEW u \in Transfers \ {t} PROVE Stored(u)'
    <2>1. \/ "POST" \in disturbed'[u]
          \/ \A f \in Files : f = transfer[u].file => Begins(content[f], content'[f])
      BY <1>2, <1>3, BeginsSelf
    <2> QED
      BY <1>1, <1>3, <1>4, <2>1, OthersStored
  <1> QED
    BY <1>5, <1>6 DEF UInv

LEMMA PutStores ==
  ASSUME IInv, IInv', UInv, NEW t \in Transfers, Put(t) PROVE UInv'
  <1>1. /\ \A u \in Transfers \ {t} : transfer'[u] = transfer[u]
        /\ transfer'[t].phase = "writing" /\ transfer'[t].method = "PUT"
        /\ transfer'[t].file = Opened(t) /\ Opened(t) \in Files
        /\ transfer'[t].offset = 0
    BY UploadKeepsType DEF Put, IInv, Kept
  <1>2. UnitsOf(t, content[Opened(t)]) = {}
    <2>1. Unwritten(t)
      BY DEF Put, UInv, Stored
    <2>2. content[Opened(t)] \in Seq(Units)
      BY <1>1 DEF IInv, TypeOK
    <2> QED
      BY <1>1, <2>1, <2>2 DEF Unwritten, UnitsOf
  <1>3. content' = content
    BY DEF Put
  <1>4. Appended(t, 0)'
    BY <1>1, <1>2, <1>3 DEF Appended
  <1>5. Stored(t)'
    BY <1>1, <1>4 DEF Stored, Ready
  <1> QED
    BY <1>1, <1>5, OnlyOneStored DEF Put

\* What a write of the next n units of t after an offset makes of a file.
Overwrites(t, old, new, from, offset, n) ==
  /\ new \in Seq(Units)
  /\ Len(new) = IF Len(old) >= from + n THEN Len(old) ELSE from + n
  /\ \A i \in 1 .. Len(old) :
       i \in 1 .. Len(new) /\ (i \notin from + 1 .. from + n => new[i] = old[i])
  /\ \A j \in 1 .. n :
       from + j \in 1 .. Len(new) /\ new[from + j] = Unit(t, offset + j)
  /\ \A i \in 1 .. Len(new) :
       \/ i \in 1 .. Len(old) /\ new[i] = old[i]
       \/ new[i][1] \in {t, "none"}

LEMMA WrittenUnits ==
  ASSUME NEW t \in Transfers, NEW from \in Nat, NEW n \in Nat, NEW offset \in Nat,
         NEW old \in Seq(Units), NEW new,
         offset = transfer[t].offset, old = content[transfer[t].file],
         new = Written(t, from, n)
  PROVE  Overwrites(t, old, new, from, offset, n)
  <1> DEFINE m == Max({Len(old), from + n})
  <1>1. m = IF Len(old) >= from + n THEN Len(old) ELSE from + n
    <2>1. Len(old) \in Int /\ from + n \in Int
      OBVIOUS
    <2> QED
      BY <2>1, MaxOfTwo, Zenon
  <1>2. new \in Seq(Units)
    BY WrittenBegins
  <1>3. new = [i \in 1 .. m |->
                 IF i \in from + 1 .. from + n THEN Unit(t, offset + i - from)
                 ELSE IF i <= Len(old) THEN old[i] ELSE Hole]
    BY DEF Written, m
  <1>4. m \in Nat /\ Len(old) <= m /\ from + n <= m
    BY <1>1
  <1> HIDE DEF m
  <1>5. Len(new) = m
    BY <1>2, <1>3, <1>4, LenProperties
  <1>6. ASSUME NEW i \in 1 .. Len(old)
        PROVE  i \in 1 .. Len(new) /\ (i \notin from + 1 .. from + n => new[i] = old[i])
    BY <1>3, <1>4, <1>5, <1>6
  <1>7. ASSUME NEW j \in 1 .. n
        PROVE  from + j \in 1 .. Len(new) /\ new[from + j] = Unit(t, offset + j)
    <2>1. from + j \in 1 .. m /\ from + j \in from + 1 .. from + n
      BY <1>4
    <2>2. new[from + j] = Unit(t, offset + (from + j) - from)
      BY <1>3, <2>1
    <2>3. offset + (from + j) - from = offset + j
      OBVIOUS
    <2> QED
      BY <1>5, <2>1, <2>2, <2>3
  <1>8. ASSUME NEW i \in 1 .. Len(new)
        PROVE  \/ i \in 1 .. Len(old) /\ new[i] = old[i]
               \/ new[i][1] \in {t, "none"}
    <2>1. new[i] = IF i \in from + 1 .. from + n THEN Unit(t, offset + i - from)
                   ELSE IF i <= Len(old) THEN old[i] ELSE Hole
      BY <1>3, <1>5
    <2>2. (\A k : Unit(t, k)[1] = t) /\ Hole[1] = "none"
      BY DEF Unit, Hole
    <2>3. CASE i \in from + 1 .. from + n
      BY <2>1, <2>2, <2>3
    <2>4. CASE i \notin from + 1 .. from + n /\ i <= Len(old)
      BY <2>1, <2>4
    <2>5. CASE i \notin from + 1 .. from + n /\ ~(i <= Len(old))
      BY <2>1, <2>2, <2>5
    <2> QED
      BY <2>3, <2>4, <2>5
  <1> QED
    BY <1>1, <1>2, <1>5, <1>6, <1>7, <1>8 DEF Overwrites

\* r is s with the next n units of u after its first k at the end.
Continues(u, s, r, k, n) ==
  /\ Len(r) = Len(s) + n
  /\ \A i \in 1 .. Len(s) : r[i] = s[i]
  /\ \A j \in 1 .. n : r[Len(s) + j] = Unit(u, k + j)

LEMMA ContinuedUnits ==
  ASSUME NEW u, NEW s \in Seq(Units), NEW r \in Seq(Units), NEW k \in Nat, NEW n \in Nat,
         Continues(u, s, r, k, n),
         {s[i] : i \in UnitsOf(u, s)} = {Unit(u, l) : l \in 1 .. k},
         \A i, j \in UnitsOf(u, s) : i < j => s[i][2] < s[j][2]
  PROVE  /\ {r[i] : i \in UnitsOf(u, r)} = {Unit(u, l) : l \in 1 .. k + n}
         /\ \A i, j \in UnitsOf(u, r) : i < j => r[i][2] < r[j][2]
  <1>1. Len(s) \in Nat /\ Len(r) = Len(s) + n
    BY DEF Continues
  <1>2. \A i \in UnitsOf(u, s) :
          /\ i \in 1 .. Len(s) /\ r[i] = s[i]
          /\ \E l \in 1 .. k : r[i] = Unit(u, l)
    BY DEF Continues, UnitsOf
  <1>3. \A j \in 1 .. n : r[Len(s) + j] = Unit(u, k + j)
    BY DEF Continues
  <1>4. ASSUME NEW i
        PROVE  i \in UnitsOf(u, r) <=> i \in UnitsOf(u, s) \/ \E j \in 1 .. n : i = Len(s) + j
    <2>1. CASE i \in 1 .. Len(s)
      <3>1. r[i] = s[i] /\ i \in 1 .. Len(r) /\ ~(\E j \in 1 .. n : i = Len(s) + j)
        BY <1>1, <2>1 DEF Continues
      <3> QED
        BY <2>1, <3>1 DEF UnitsOf
    <2>2. ASSUME NEW j \in 1 .. n, i = Len(s) + j
          PROVE  i \in UnitsOf(u, r)
      <3>1. i \in 1 .. Len(r) /\ r[i] = Unit(u, k + j)
        BY <1>1, <1>3, <2>2
      <3> QED
        BY <3>1 DEF UnitsOf, Unit
    <2>3. ASSUME i \in 1 .. Len(r), i \notin 1 .. Len(s)
          PROVE  \E j \in 1 .. n : i = Len(s) + j
      <3>1. i - Len(s) \in 1 .. n /\ i = Len(s) + (i - Len(s))
        BY <1>1, <2>3
      <3> QED
        BY <3>1
    <2>4. (i \in UnitsOf(u, s) => i \in 1 .. Len(s)) /\ (i \in UnitsOf(u, r) => i \in 1 .. Len(r))
      BY DEF UnitsOf
    <2> QED
      BY <2>1, <2>2, <2>3, <2>4
  <1>5. ASSUME NEW i \in UnitsOf(u, r)
        PROVE  \E l \in 1 .. k + n : r[i] = Unit(u, l)
    <2>1. CASE i \in UnitsOf(u, s)
      <3>1. PICK l \in 1 .. k : r[i] = Unit(u, l)
        BY <1>2, <2>1
      <3> QED
        BY <3>1
    <2>2. ASSUME NEW j \in 1 .. n, i = Len(s) + j
          PROVE  \E l \in 1 .. k + n : r[i] = Unit(u, l)
      <3>1. k + j \in 1 .. k + n /\ r[i] = Unit(u, k + j)
        BY <1>3, <2>2
      <3> QED
        BY <3>1
    <2> QED
      BY <1>4, <2>1, <2>2
  <1>6. ASSUME NEW l \in 1 .. k + n
        PROVE  \E i \in UnitsOf(u, r) : r[i] = Unit(u, l)
    <2>1. CASE l \in 1 .. k
      <3>1. PICK i \in UnitsOf(u, s) : s[i] = Unit(u, l)
        BY <2>1
      <3> QED
        BY <1>2, <1>4, <3>1
    <2>2. CASE l \notin 1 .. k
      <3>1. l - k \in 1 .. n /\ k + (l - k) = l
        BY <2>2
      <3>2. Len(s) + (l - k) \in UnitsOf(u, r) /\ r[Len(s) + (l - k)] = Unit(u, l)
        BY <1>3, <1>4, <3>1
      <3> QED
        BY <3>2
    <2> QED
      BY <2>1, <2>2
  <1>7. ASSUME NEW i \in UnitsOf(u, r), NEW j \in UnitsOf(u, r), i < j
        PROVE  r[i][2] < r[j][2]
    <2>1. \A a \in UnitsOf(u, s) : r[a][2] \in 1 .. k
      BY <1>2 DEF Unit
    <2>2. \A b \in 1 .. n : r[Len(s) + b][2] = k + b
      BY <1>3 DEF Unit
    <2>3. CASE i \in UnitsOf(u, s) /\ j \in UnitsOf(u, s)
      BY <1>2, <1>7, <2>3
    <2>4. ASSUME i \in UnitsOf(u, s), NEW b \in 1 .. n, j = Len(s) + b
          PROVE  r[i][2] < r[j][2]
      <3>1. r[i][2] \in 1 .. k /\ r[j][2] = k + b
        BY <2>1, <2>2, <2>4
      <3> QED
        BY <3>1
    <2>5. ASSUME NEW a \in 1 .. n, i = Len(s) + a, NEW b \in 1 .. n, j = Len(s) + b
          PROVE  r[i][2] < r[j][2]
      <3>1. a < b /\ r[i][2] = k + a /\ r[j][2] = k + b
        BY <1>1, <1>7, <2>2, <2>5
      <3> QED
        BY <3>1
    <2>6. ASSUME NEW a \in 1 .. n, i = Len(s) + a
          PROVE  j \notin UnitsOf(u, s)
      <3>1. j \in UnitsOf(u, s) => j \in 1 .. Len(s)
        BY <1>2
      <3> QED
        BY <1>1, <1>7, <2>6, <3>1
    <2> QED
      BY <1>4, <2>3, <2>4, <2>5, <2>6
  <1> QED
    BY <1>5, <1>6, <1>7

LEMMA WriteStores ==
  ASSUME IInv, IInv', UInv, NEW t \in Transfers, fileWriteEvent(t) PROVE UInv'
  <1>1. /\ transfer \in [Transfers -> TransferType] /\ transfer[t] \in TransferType
        /\ transfer[t].phase = "writing" /\ Writer(t)
        /\ transfer[t].method \in {"POST", "PUT"}
    BY DEF fileWriteEvent, IInv, TypeOK, Kept
  <1>2. PICK f \in Files, offset \in Nat, length \in Nat, method \in {"POST", "PUT"} :
          /\ f = transfer[t].file /\ offset = transfer[t].offset
          /\ length = transfer[t].length /\ method = transfer[t].method /\ offset <= length
    BY <1>1 DEF Writer, TransferType
  <1>3. PICK left \in Nat : left = length - offset
    BY <1>2
  <1>4. PICK n \in Nat :
          /\ n <= left
          /\ content' = [content EXCEPT ![f] = Written(t, Place(t), n)]
          /\ transfer' = [transfer EXCEPT ![t].offset = @ + n,
                            ![t].phase = IF n = left THEN "answered" ELSE "writing"]
          /\ IF n = 0 THEN UNCHANGED disturbed ELSE Changes(t, method, f)
    <2>1. PICK n \in IF left = 0 THEN {0} ELSE 1 .. left :
            /\ content' = [content EXCEPT ![f] = Written(t, Place(t), n)]
            /\ transfer' = [transfer EXCEPT ![t].offset = @ + n,
                              ![t].phase = IF n = left THEN "answered" ELSE "writing"]
            /\ IF n = 0 THEN UNCHANGED disturbed ELSE Changes(t, method, f)
      BY <1>2, <1>3 DEF fileWriteEvent
    <2>2. n \in Nat /\ n <= left
      BY <2>1
    <2> QED
      BY <2>1, <2>2
  <1>5. PICK old \in Seq(Units) : old = content[f]
    BY DEF IInv, TypeOK
  <1>6. PICK from \in Nat : from = Place(t) /\ from = IF method = "PUT" THEN Len(old) ELSE offset
    BY <1>2, <1>5 DEF Place, Length
  <1>7. PICK new : new = Written(t, from, n)
    OBVIOUS
  <1>8. /\ new \in Seq(Units)
        /\ Len(new) = IF Len(old) >= from + n THEN Len(old) ELSE from + n
        /\ \A i \in 1 .. Len(old) :
             i \in 1 .. Len(new) /\ (i \notin from + 1 .. from + n => new[i] = old[i])
        /\ \A j \in 1 .. n :
             from + j \in 1 .. Len(new) /\ new[from + j] = Unit(t, offset + j)
        /\ \A i \in 1 .. Len(new) :
             \/ i \in 1 .. Len(old) /\ new[i] = old[i]
             \/ new[i][1] \in {t, "none"}
    <2>1. Overwrites(t, old, new, from, offset, n)
      BY <1>2, <1>5, <1>7, WrittenUnits
    <2> QED
      BY <2>1 DEF Overwrites
  <1>9. /\ \A u \in Transfers \ {t} : transfer'[u] = transfer[u]
        /\ transfer'[t].file = f /\ transfer'[t].method = method
        /\ transfer'[t].length = length /\ transfer'[t].offset = offset + n
        /\ transfer'[t].phase = IF n = left THEN "answered" ELSE "writing"
    BY <1>1, <1>2, <1>4 DEF TransferType
  <1>10. \A g \in Files : /\ content[g] \in Seq(Units)
                          /\ content'[g] = IF g = f THEN new ELSE content[g]
    BY <1>4, <1>6, <1>7 DEF IInv, TypeOK
  <1>11. AddsOnly(t)
    BY <1>5, <1>8, <1>10 DEF AddsOnly
  <1>12. /\ \A u \in Transfers : disturbed[u] \subseteq disturbed'[u]
         /\ disturbed'[t] = disturbed[t]
         /\ n # 0 => \A u \in Transfers \ {t} : transfer[u].file = f => method \in disturbed'[u]
    <2>1. CASE n = 0
      BY <1>4, <2>1
    <2>2. CASE n # 0
      <3>1. disturbed' = [u \in Transfers |->
                            IF u # t /\ transfer[u].file = f THEN disturbed[u] \cup {method}
                            ELSE disturbed[u]]
        BY <1>4, <2>2 DEF Changes
      <3> QED
        BY <3>1
    <2> QED
      BY <2>1, <2>2
  <1>13. ASSUME NEW u \in Transfers \ {t} PROVE Stored(u)'
    <2>1. ASSUME "POST" \notin disturbed'[u], NEW g \in Files, g = transfer[u].file
          PROVE  Begins(content[g], content'[g])
      <3>1. CASE g # f
        BY <1>10, <3>1, BeginsSelf
      <3>2. CASE g = f
        <4>1. n = 0 \/ from = Len(old)
          BY <1>6, <1>12, <2>1, <3>2
        <4>2. Begins(old, new)
          <5>1. Len(old) <= Len(new)
            BY <1>8
          <5>2. \A i \in 1 .. Len(old) : i \notin from + 1 .. from + n
            BY <4>1
          <5> QED
            BY <1>8, <5>1, <5>2 DEF Begins
        <4> QED
          BY <1>5, <1>10, <3>2, <4>2
      <3> QED
        BY <3>1, <3>2
    <2> QED
      BY <1>9, <1>11, <1>12, <2>1, OthersStored
  <1>14. ASSUME "POST" \notin disturbed[t], method = "POST"
         PROVE  Begun(t)'
    <2>1. from = offset /\ offset <= Len(old) /\ \A i \in 1 .. offset : old[i] = Unit(t, i)
      BY <1>1, <1>2, <1>5, <1>6, <1>14 DEF UInv, Stored, Begun
    <2>2. offset + n <= Len(new)
      BY <1>8, <2>1
    <2>3. ASSUME NEW i \in 1 .. offset + n PROVE new[i] = Unit(t, i)
      <3>1. CASE i <= offset
        <4>1. i \in 1 .. offset /\ i \in 1 .. Len(old) /\ i \notin from + 1 .. from + n
          BY <2>1, <3>1
        <4> QED
          BY <1>8, <2>1, <4>1
      <3>2. CASE i > offset
        <4>1. i - offset \in 1 .. n /\ from + (i - offset) = i /\ offset + (i - offset) = i
          BY <2>1, <3>2
        <4> QED
          BY <1>8, <4>1
      <3> QED
        BY <3>1, <3>2
    <2> QED
      BY <1>9, <1>10, <2>2, <2>3 DEF Begun
  <1>15. ASSUME "POST" \notin disturbed[t], method = "PUT"
         PROVE  Appended(t, transfer[t].offset)'
    <2>1. /\ {old[i] : i \in UnitsOf(t, old)} = {Unit(t, l) : l \in 1 .. offset}
          /\ \A i, j \in UnitsOf(t, old) : i < j => old[i][2] < old[j][2]
      BY <1>1, <1>2, <1>5, <1>15 DEF UInv, Stored, Appended
    <2>2. Continues(t, old, new, offset, n)
      <3>1. from = Len(old) /\ Len(new) = Len(old) + n
        BY <1>6, <1>8, <1>15
      <3>2. \A i \in 1 .. Len(old) : i \notin from + 1 .. from + n
        BY <3>1
      <3> QED
        BY <1>8, <3>1, <3>2 DEF Continues
    <2>3. /\ {new[i] : i \in UnitsOf(t, new)} = {Unit(t, l) : l \in 1 .. offset + n}
          /\ \A i, j \in UnitsOf(t, new) : i < j => new[i][2] < new[j][2]
      BY <1>8, <2>1, <2>2, ContinuedUnits
    <2>4. content'[f] = new
      BY <1>10
    <2> QED
      BY <1>9, <2>3, <2>4 DEF Appended
  <1>16. transfer'[t].phase = "answered" => transfer'[t].offset = transfer'[t].length
    BY <1>2, <1>3, <1>9
  <1>17. Stored(t)'
    BY <1>2, <1>9, <1>12, <1>14, <1>15, <1>16 DEF Stored, Ready
  <1> QED
    BY <1>13, <1>17 DEF UInv

LEMMA InitStores == Init => UInv
  <1> SUFFICES ASSUME Init, NEW t \in Transfers PROVE Stored(t)
    BY DEF UInv
  <1>1. transfer[t].phase = "ready"
    BY DEF Init, NoTransfer
  <1>2. ASSUME NEW f \in Files, NEW i \in 1 .. Len(content[f])
        PROVE  content[f][i][1] # t
    <2>1. CASE f = "original"
      <3>1. content[f] = Body("original", FileLen)
        BY <2>1 DEF Init, Files
      <3>2. i \in 1 .. FileLen
        BY <1>2, <3>1, FileTransfersAssumption DEF Body
      <3>3. content[f][i] = Unit("original", i)
        BY <3>1, <3>2 DEF Body
      <3> QED
        BY <3>3, FileTransfersAssumption DEF Unit
    <2>2. CASE f # "original"
      BY <1>2, <2>2 DEF Init, Files
    <2> QED
      BY <2>1, <2>2
  <1> QED
    BY <1>1, <1>2 DEF Stored, Ready, Unwritten

LEMMA NextStores == IInv /\ IInv' /\ UInv /\ [Next]_vars => UInv'
  <1> SUFFICES ASSUME IInv, IInv', UInv, [Next]_vars PROVE UInv'
    OBVIOUS
  <1>1. CASE UNCHANGED vars
    <2>1. ASSUME NEW t \in Transfers PROVE Stored(t)'
      <3>1. Stored(t)
        BY DEF UInv
      <3>2. transfer' = transfer /\ content' = content /\ disturbed' = disturbed
        BY <1>1 DEF vars
      <3>3. Appended(t, transfer[t].offset)' <=> Appended(t, transfer[t].offset)
        BY <3>2 DEF Appended
      <3> QED
        BY <3>1, <3>2, <3>3 DEF Stored, Ready, Unwritten, Begun
    <2> QED
      BY <2>1 DEF UInv
  <1> QED
    BY <1>1, GetStores, PostStores, PutStores, DeleteStores, ReadStores, WriteStores,
       AbandonStores
    DEF Next

\* However many requests share a file: the body of an upload that was answered is
\* in the file whole, a POST's from its beginning and a PUT's in its order, though
\* write() takes any part of it at a time (static_file.cpp:128) and others
\* append, read, remove and create files of that name in between.
THEOREM UploadsAlwaysKept == Spec => []UploadsKept
  <1>1. ASSUME IInv, UInv, NEW t \in Transfers, "POST" \notin disturbed[t],
               Answered(t, "POST")
        PROVE  SubSeq(content[transfer[t].file], 1, transfer[t].length) =
                 Body(t, transfer[t].length)
    <2>1. PICK s, n : s = content[transfer[t].file] /\ n = transfer[t].length
      OBVIOUS
    <2>2. s \in Seq(Units) /\ n \in Nat /\ n <= Len(s) /\ \A i \in 1 .. n : s[i] = Unit(t, i)
      BY <1>1, <2>1 DEF IInv, TypeOK, TransferType, UInv, Stored, Begun, Answered
    <2>3. SubSeq(s, 1, n) = [i \in 1 .. n |-> s[i]]
      BY <2>2
    <2> QED
      BY <2>1, <2>2, <2>3 DEF Body
  <1>2. ASSUME IInv, UInv, NEW t \in Transfers, "POST" \notin disturbed[t],
               Answered(t, "PUT")
        PROVE  Appended(t, transfer[t].length)
    BY <1>2 DEF UInv, Stored, Answered
  <1>3. IInv /\ UInv => UploadsKept
    BY <1>1, <1>2 DEF UploadsKept
  <1> QED
    BY <1>3, InitKeeps, NextKeeps, InitStores, NextStores, PTL DEF Spec
=============================================================================
