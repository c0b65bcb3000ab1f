-------------------------- MODULE ServerTurnsProofs -------------------------
(***************************************************************************)
(* Proofs about what the clients see: their responses come in order, no    *)
(* request in progress loses the filters it waits for, and every step of   *)
(* the server is one HttpService allows or none at all.                    *)
(***************************************************************************)
EXTENDS ServerTurns, ServerInvariantProofs

(***************************************************************************)
(* Multiples of the length of a request or response.                       *)
(***************************************************************************)
LEMMA Places ==
  ASSUME NEW q \in Nat, NEW d \in Nat \ {0}, NEW r \in 0 .. d - 1
  PROVE  (q * d + r) \div d = q /\ (q * d + r) % d = r
  OBVIOUS

LEMMA Multiples ==
  ASSUME NEW k \in Nat, NEW d \in Nat \ {0}
  PROVE  k * d \in Nat /\ (k + 1) * d = k * d + d
  OBVIOUS

LEMMA FewerMultiples ==
  ASSUME NEW q \in Nat, NEW p \in Nat, NEW d \in Nat \ {0}, q * d <= p * d
  PROVE  q <= p
  <1> SUFFICES ASSUME p < q
               PROVE  FALSE
    OBVIOUS
  <1>1. PICK x \in Nat : q = p + 1 + x
    <2>1. q - p - 1 \in Nat /\ q = p + 1 + (q - p - 1)
      OBVIOUS
    <2> QED
      BY <2>1
  <1>2. q * d = p * d + d + x * d /\ x * d >= 0
    BY <1>1
  <1> QED
    BY <1>2

(***************************************************************************)
(* Steps that leave a client's turn alone.                                 *)
(***************************************************************************)
SameMessage(r, s) ==
  s.m_type = r.m_type /\ s.length = r.length /\ s.offset = r.offset

\* The response of r was generated.
NewMessage(r, s) ==
  /\ r.m_type # "CLIENT" /\ s.m_type = "CLIENT"
  /\ s.length = r.length + ResponseLen /\ s.offset = 0

Proceeds(r, s) ==
  /\ s.st = r.st /\ s.conn = r.conn /\ s.req = r.req /\ s.first = r.first
  /\ SameMessage(r, s) \/ NewMessage(r, s)

\* Client c and its objects go on as they did, or are torn down.
Undisturbed(c) ==
  /\ conn'[c].sent = conn[c].sent /\ conn'[c].rcvd = conn[c].rcvd
  /\ conn'[c].out = conn[c].out
  /\ conn'[c].st \in {"idle", "backlog"} => conn[c].st \in {"idle", "backlog"}
  /\ TornDown(c) => TornDown(c)'
  /\ \A u \in Udatas : heap'[u].st = "live" /\ heap'[u].conn = c =>
       Proceeds(heap[u], heap'[u])
  /\ \A u \in Udatas : Serving(u, c) => Serving(u, c)' \/ TornDown(c)'

LEMMA TurnStays ==
  ASSUME TypeOK, Accounts, NEW c \in Conns, NEW k \in RequestNo, Turn(c, k),
         Undisturbed(c)
  PROVE  Turn(c, k)'
  <1>1. \A u \in Udatas : heap'[u].st = "live" /\ heap'[u].conn = c =>
          u \in LiveUdatas /\ heap[u].conn = c /\ heap'[u].req = heap[u].req
    BY DEF Undisturbed, Proceeds, LiveUdatas
  <1>2. \A u \in Udatas : (Reader(u, c)' => Reader(u, c))
                            /\ (Serving(u, c)' => Serving(u, c))
    BY <1>1 DEF Reader, Serving, LiveUdatas
  <1>3. OneEach(c)'
    BY <1>2 DEF Turn, OneEach
  <1>4. Arriving(c, k)'
    BY DEF Turn, Arriving, Undisturbed
  <1>5. ASSUME NEW u \in Udatas, Reader(u, c)'
        PROVE  Buffered(u, c, k)'
    <2>1. Reader(u, c) /\ Proceeds(heap[u], heap'[u]) /\ Buffered(u, c, k)
      BY <1>2, <1>5 DEF Undisturbed, Reader, LiveUdatas, Turn
    <2>2. heap[u].m_type = "CLIENT"
      BY <2>1 DEF Reader, Accounts, Objects, Shaped, ClientShape, FileShape, PipeShape
    <2> QED
      BY <2>1, <2>2 DEF Proceeds, NewMessage, SameMessage, Buffered, Undisturbed
  <1>6. ASSUME NEW u \in Udatas, Serving(u, c)'
        PROVE  Answering(u, c, k)'
    <2>1. Serving(u, c) /\ Proceeds(heap[u], heap'[u]) /\ Answering(u, c, k)
      BY <1>2, <1>6 DEF Undisturbed, Serving, LiveUdatas, Turn
    <2> QED
      BY <2>1, ServerAssumption
      DEF Proceeds, NewMessage, SameMessage, Answering, Undisturbed
  <1>7. AllAnswered(c, k)'
    BY DEF Turn, AllAnswered, Undisturbed
  <1>8. Ordered(c)'
    BY DEF Turn, Ordered, Undisturbed
  <1> QED
    BY <1>3, <1>4, <1>5, <1>6, <1>7, <1>8 DEF Turn

LEMMA TurnsStay ==
  ASSUME TypeOK, Accounts, Turns, \A c \in Conns : Undisturbed(c)
  PROVE  Turns'
  BY TurnStays DEF Turns

\* Once torn down, always torn down.
TornKept == \A c \in Conns : TornDown(c) => TornDown(c)'

LEMMA TornStays ==
  ASSUME \A c \in Conns : conn[c].st = "closed" => conn'[c].st = "closed",
         event_list = {} => /\ event_list' = {} /\ m_fd_set \subseteq m_fd_set'
                            /\ \A f \in m_fd_set : Is(f, "sock") => fdt'[f] = fdt[f],
         m_fd_set \subseteq Fds
  PROVE  TornKept
  <1>1. \A c, f : f \in m_fd_set /\ fdt[f] = SockEntry(c) => Is(f, "sock")
    BY DEF Is, SockEntry
  <1> QED
    BY <1>1 DEF TornKept, TornDown

\* A step for client c, and for nobody else.
OnlyFor(c) ==
  /\ \A d \in Conns \ {c} : conn'[d] = conn[d]
  /\ \A u \in Udatas : \/ heap'[u] = heap[u]
                       \/ /\ heap[u].st = "live" => heap[u].conn = c
                          /\ heap'[u].st = "live" => heap'[u].conn = c

LEMMA OthersUndisturbed ==
  ASSUME NEW c \in Conns, OnlyFor(c), TornKept, NEW d \in Conns \ {c}
  PROVE  Undisturbed(d)
  <1>1. conn'[d] = conn[d] /\ (TornDown(d) => TornDown(d)')
    BY DEF OnlyFor, TornKept
  <1>2. ASSUME NEW u \in Udatas, heap'[u].st = "live" /\ heap'[u].conn = d
        PROVE  Proceeds(heap[u], heap'[u])
    BY <1>2 DEF OnlyFor, Proceeds, SameMessage
  <1>3. ASSUME NEW u \in Udatas, Serving(u, d)
        PROVE  Serving(u, d)'
    BY <1>3 DEF OnlyFor, Serving, LiveUdatas
  <1> QED
    BY <1>1, <1>2, <1>3 DEF Undisturbed

LEMMA TurnsMove ==
  ASSUME TypeOK, Accounts, Turns, NEW c \in Conns, OnlyFor(c), TornKept,
         NEW k \in RequestNo, Turn(c, k)'
  PROVE  Turns'
  <1>1. \A d \in Conns \ {c} : \E j \in RequestNo : Turn(d, j)'
    BY OthersUndisturbed, TurnStays DEF Turns
  <1> QED
    BY <1>1 DEF Turns

\* Only the object u changes, and only as its request goes on.
LEMMA ProgressStays ==
  ASSUME TypeOK, Accounts, Turns, TornKept, UNCHANGED conn,
         NEW u \in Udatas, Proceeds(heap[u], heap'[u]),
         \A v \in Udatas \ {u} : heap'[v] = heap[v]
  PROVE  Turns'
  <1>1. \A v \in Udatas : Proceeds(heap[v], heap'[v])
    BY DEF Proceeds, SameMessage
  <1>2. \A c \in Conns : Undisturbed(c)
    BY <1>1 DEF Undisturbed, TornKept, Serving, LiveUdatas, Proceeds
  <1> QED
    BY <1>2, TurnsStay

\* No object changes.
LEMMA HeapStays ==
  ASSUME TypeOK, Accounts, Turns, TornKept, UNCHANGED heap,
         \A c \in Conns : /\ conn'[c].sent = conn[c].sent
                          /\ conn'[c].rcvd = conn[c].rcvd
                          /\ conn'[c].out = conn[c].out
                          /\ conn'[c].st \in {"idle", "backlog"} =>
                               conn[c].st \in {"idle", "backlog"}
  PROVE  Turns'
  <1>1. \A c \in Conns : Undisturbed(c)
    BY DEF Undisturbed, TornKept, Serving, LiveUdatas, Proceeds, SameMessage
  <1> QED
    BY <1>1, TurnsStay

(***************************************************************************)
(* What the handlers do to a message.                                      *)
(***************************************************************************)
LEMMA RespondsMessage ==
  ASSUME NEW h, HeapType(h), NEW u \in Udatas, h[u].st = "live"
  PROVE  LET r == Respond(u, h)[u] IN
         /\ r.m_type = "CLIENT" /\ r.length = h[u].length + ResponseLen
         /\ r.offset = 0 /\ r.st = h[u].st /\ r.conn = h[u].conn
         /\ r.req = h[u].req /\ r.first = h[u].first
         /\ \A v \in Udatas \ {u} : Respond(u, h)[v] = h[v]
  <1> DEFINE r == [h[u] EXCEPT !.m_type = "CLIENT",
                               !.length = h[u].length + ResponseLen,
                               !.offset = 0]
  <1>1. Respond(u, h) = [h EXCEPT ![u] = r]
    BY DEF Respond, HeapType
  <1>2. h[u] \in UdataRecord
    BY DEF HeapType
  <1>3. Respond(u, h)[u] = r /\ \A v \in Udatas \ {u} : Respond(u, h)[v] = h[v]
    BY <1>1 DEF HeapType
  <1> QED
    BY <1>2, <1>3 DEF UdataRecord

\* h is the heap in which the response of u is about to be generated.
LEMMA RespondsProceeds ==
  ASSUME TypeOK, NEW u \in LiveUdatas, heap[u].m_type # "CLIENT",
         NEW h, HeapType(h), h[u].st = "live", h[u].conn = heap[u].conn,
         h[u].req = heap[u].req, h[u].first = heap[u].first,
         h[u].length = heap[u].length, h[u].offset = heap[u].offset,
         \A v \in Udatas \ {u} : h[v] = heap[v], heap' = Respond(u, h)
  PROVE  /\ Proceeds(heap[u], heap'[u])
         /\ \A v \in Udatas \ {u} : heap'[v] = heap[v]
  BY RespondsMessage DEF Proceeds, NewMessage, LiveUdatas

\* What becomes of the message of a request that is served.
MessageOf(r, s) ==
  \/ s.m_type = "CLIENT" /\ s.length = r.length + ResponseLen /\ s.offset = 0
  \/ s.m_type # "CLIENT" /\ s.length = r.length /\ s.offset = r.offset

LEMMA ServedMessage ==
  ASSUME TypeOK, NEW r, LiveRecord(r), NEW u \in Udatas, heap[u].st = "live",
         NEW sock, NEW c, ProcessRequest(r, u, sock, c)
  PROVE  heap'[u].req = r.req /\ MessageOf(r, heap'[u])
  <1>1. PICK n \in Udatas, kind \in ServedAs(r) :
          LET s == [heap EXCEPT ![u] = [r EXCEPT !.kind = kind]] IN
          /\ Fresh(n)
          /\ \/ kind = "inline" /\ AddInline(s, u, sock, c, n)
             \/ kind = "empty" /\ AddEmptyFile(s, u, sock, c, n)
             \/ kind = "file" /\ AddFile(s, u, sock, c, n)
             \/ kind = "upload" /\ AddUpload(s, u, sock, c, n)
             \/ kind = "cgiGet" /\ AddCgi(s, u, sock, c, n, FALSE)
             \/ kind = "cgiPost" /\ AddCgi(s, u, sock, c, n, TRUE)
             \/ kind = "cgiNoProc" /\ AddCgiNoProcess(s, u, sock, c, n)
    BY DEF ProcessRequest
  <1> DEFINE q == [r EXCEPT !.kind = kind]
             s == [heap EXCEPT ![u] = q]
  <1>2. n # u
    BY <1>1 DEF Fresh
  <1>3. kind \in RequestKinds \cup {"none"}
    BY ServerAssumption DEF ServedAs, LiveRecord, UdataRecord, RequestKinds
  <1>4. /\ LiveRecord(q) /\ q \in UdataRecord /\ q.st = "live" /\ q.req = r.req
        /\ q.length = r.length /\ q.offset = r.offset /\ q.m_type = r.m_type
    BY <1>3 DEF LiveRecord, UdataRecord
  <1> HIDE DEF q
  <1>5. HeapType(s) /\ s[u] = q
    <2>1. heap \in [Udatas -> UdataRecord] /\ HeapType(heap)
      BY TypeParts DEF HeapType
    <2>2. s \in [Udatas -> UdataRecord] /\ s[u] = q /\ \A v \in Udatas \ {u} : s[v] = heap[v]
      BY <1>4, <2>1
    <2> QED
      BY <1>4, <2>1, <2>2 DEF HeapType, LiveRecord
  <1> HIDE DEF s
  <1>6. \A h : h[n] = h[n] /\ (DOMAIN h = Udatas =>
                NextReader(h, sock, c, n)[u] = h[u])
    BY <1>2 DEF NextReader
  <1>7. CASE \E h : DOMAIN h = Udatas /\ heap' = NextReader(h, sock, c, n)
                      /\ h[u].req = q.req /\ MessageOf(q, h[u])
    BY <1>4, <1>6, <1>7 DEF MessageOf
  <1>8. /\ DOMAIN Respond(u, s) = Udatas /\ Respond(u, s)[u].req = q.req
        /\ MessageOf(q, Respond(u, s)[u])
    <2>1. DOMAIN Respond(u, s) = Udatas
      BY <1>5 DEF Respond, HeapType
    <2> QED
      BY <1>4, <1>5, <2>1, RespondsMessage DEF MessageOf
  <1>9. CASE kind = "inline" /\ AddInline(s, u, sock, c, n)
    BY <1>7, <1>8, <1>9 DEF AddInline
  <1>10. CASE kind = "empty" /\ AddEmptyFile(s, u, sock, c, n)
    <2>1. PICK f \in Fds :
            heap' = NextReader([Respond(u, s) EXCEPT ![u].static_read_file_fd = f],
                               sock, c, n)
      BY <1>10 DEF AddEmptyFile
    <2> DEFINE a == Respond(u, s)[u]
               b == [a EXCEPT !.static_read_file_fd = f]
               h == [Respond(u, s) EXCEPT ![u] = b]
    <2>2. heap' = NextReader(h, sock, c, n)
      BY <2>1
    <2>3. a \in UdataRecord
      BY <1>4, <1>5, Responds, LiveRecord(Respond(u, s)[u]) DEF LiveRecord
    <2>4. b.req = a.req /\ b.m_type = a.m_type /\ b.length = a.length
            /\ b.offset = a.offset
      BY <2>3 DEF UdataRecord
    <2>5. DOMAIN h = Udatas /\ h[u] = b
      BY <1>8
    <2> HIDE DEF b, h
    <2>6. h[u].req = q.req /\ MessageOf(q, h[u])
      BY <1>8, <2>4, <2>5 DEF MessageOf
    <2> QED
      BY <1>7, <2>2, <2>5, <2>6
  <1>11. ASSUME NEW b, heap' = NextReader([s EXCEPT ![u] = b], sock, c, n),
                b.req = q.req, b.m_type # "CLIENT",
                b.length = q.length, b.offset = q.offset
         PROVE  heap'[u].req = r.req /\ MessageOf(r, heap'[u])
    <2> DEFINE h == [s EXCEPT ![u] = b]
    <2>1. DOMAIN h = Udatas /\ h[u] = b
      BY <1>5 DEF HeapType
    <2> QED
      BY <1>7, <1>11, <2>1 DEF MessageOf
  <1>12. CASE kind \in {"file", "upload"}
    <2>1. PICK f \in Fds :
            \/ heap' = NextReader([s EXCEPT ![u].m_type = "STATIC_FILE",
                                            ![u].static_read_file_fd = f], sock, c, n)
            \/ heap' = NextReader([s EXCEPT ![u].m_type = "STATIC_FILE",
                                            ![u].static_write_file_fd = f], sock, c, n)
      BY <1>1, <1>12 DEF AddFile, AddUpload, s, q
    <2> DEFINE a == [q EXCEPT !.m_type = "STATIC_FILE", !.static_read_file_fd = f]
               b == [q EXCEPT !.m_type = "STATIC_FILE", !.static_write_file_fd = f]
    <2>2. heap' = NextReader([s EXCEPT ![u] = a], sock, c, n)
            \/ heap' = NextReader([s EXCEPT ![u] = b], sock, c, n)
      BY <2>1, <1>5 DEF HeapType
    <2>3. /\ a.req = q.req /\ a.m_type # "CLIENT"
          /\ a.length = q.length /\ a.offset = q.offset
      BY <1>4 DEF UdataRecord
    <2>4. /\ b.req = q.req /\ b.m_type # "CLIENT"
          /\ b.length = q.length /\ b.offset = q.offset
      BY <1>4 DEF UdataRecord
    <2> HIDE DEF a, b
    <2> QED
      BY <1>11, <2>2, <2>3, <2>4
  <1>13. CASE kind \in {"cgiGet", "cgiPost", "cgiNoProc"}
    <2>1. PICK a, b, p :
            \/ heap' = NextReader([s EXCEPT ![u].m_type = "PIPE",
                                            ![u].m_read_pipe_fd = a,
                                            ![u].m_write_pipe_fd = b,
                                            ![u].m_child_pid = p], sock, c, n)
            \/ heap' = NextReader([s EXCEPT ![u].m_type = "PIPE"], sock, c, n)
      <3>1. ASSUME NEW post, AddCgi(s, u, sock, c, n, post)
            PROVE  \E a, b, p : heap' =
                     NextReader([s EXCEPT ![u].m_type = "PIPE",
                                          ![u].m_read_pipe_fd = a,
                                          ![u].m_write_pipe_fd = b,
                                          ![u].m_child_pid = p], sock, c, n)
        <4>1. PICK p \in Pids, w \in Fds, rfd \in Fds :
                LET wfd == IF post THEN w ELSE None IN
                heap' = NextReader([s EXCEPT ![u].m_type = "PIPE",
                                             ![u].m_read_pipe_fd = rfd,
                                             ![u].m_write_pipe_fd = wfd,
                                             ![u].m_child_pid = p], sock, c, n)
          BY <3>1 DEF AddCgi
        <4> DEFINE wfd == IF post THEN w ELSE None
        <4>2. heap' = NextReader([s EXCEPT ![u].m_type = "PIPE",
                                           ![u].m_read_pipe_fd = rfd,
                                           ![u].m_write_pipe_fd = wfd,
                                           ![u].m_child_pid = p], sock, c, n)
          BY <4>1
        <4> HIDE DEF wfd
        <4> QED
          BY <4>2
      <3> QED
        BY <1>1, <1>13, <3>1 DEF AddCgiNoProcess, s, q
    <2> DEFINE x == [q EXCEPT !.m_type = "PIPE", !.m_read_pipe_fd = a,
                              !.m_write_pipe_fd = b, !.m_child_pid = p]
               y == [q EXCEPT !.m_type = "PIPE"]
    <2>2. heap' = NextReader([s EXCEPT ![u] = x], sock, c, n)
            \/ heap' = NextReader([s EXCEPT ![u] = y], sock, c, n)
      BY <2>1, <1>5 DEF HeapType
    <2>3. /\ x.req = q.req /\ x.m_type # "CLIENT"
          /\ x.length = q.length /\ x.offset = q.offset
      BY <1>4 DEF UdataRecord
    <2>4. /\ y.req = q.req /\ y.m_type # "CLIENT"
          /\ y.length = q.length /\ y.offset = q.offset
      BY <1>4 DEF UdataRecord
    <2> HIDE DEF x, y
    <2> QED
      BY <1>11, <2>2, <2>3, <2>4
  <1> QED
    BY <1>1, <1>9, <1>10, <1>12, <1>13 DEF s, q

(***************************************************************************)
(* clientWriteEvent: the next units of the message.                        *)
(***************************************************************************)
\* The next n units of the whole connection's.
NextUnits(c, n) == [i \in 1 .. n |-> Service!Unit(c, Len(conn[c].out) + i)]

LEMMA UnitsFollow ==
  ASSUME NEW u \in Udatas, NEW c, heap[u].conn = c, NEW k \in Nat \ {0},
         Answering(u, c, k), NEW n \in Nat, heap[u].offset \in Nat,
         heap[u].offset + n <= ResponseLen
  PROVE  Units(u, n) = NextUnits(c, n)
  <1> DEFINE o == heap[u].offset
  <1>1. heap[u].req = k /\ Len(conn[c].out) = (k - 1) * ResponseLen + o
    BY DEF Answering
  <1>2. ASSUME NEW i \in 1 .. n
        PROVE  Service!Unit(c, Len(conn[c].out) + i) = <<c, k, o + i>>
    <2>1. /\ k - 1 \in Nat /\ o + i - 1 \in 0 .. ResponseLen - 1
          /\ ResponseLen \in Nat \ {0}
      BY ServerAssumption
    <2>2. (k - 1) * ResponseLen \in Nat
      BY <2>1, Multiples
    <2>3. Len(conn[c].out) + i - 1 = (k - 1) * ResponseLen + (o + i - 1)
      BY <1>1, <2>2
    <2>4. /\ (Len(conn[c].out) + i - 1) \div ResponseLen = k - 1
          /\ (Len(conn[c].out) + i - 1) % ResponseLen = o + i - 1
      <3>1. PICK q \in Nat, x \in 0 .. ResponseLen - 1 : q = k - 1 /\ x = o + i - 1
        BY <2>1
      <3>2. (q * ResponseLen + x) \div ResponseLen = q
              /\ (q * ResponseLen + x) % ResponseLen = x
        BY <2>1, Places
      <3> QED
        BY <2>3, <3>1, <3>2
    <2> QED
      BY <2>4 DEF Service!Unit
  <1> QED
    BY <1>1, <1>2 DEF Units, NextUnits

LEMMA OrderedGrows ==
  ASSUME NEW c, NEW T, conn[c].out \in Seq(T), Ordered(c), NEW n \in Nat,
         conn'[c].out = conn[c].out \o NextUnits(c, n)
  PROVE  Len(conn'[c].out) = Len(conn[c].out) + n /\ Ordered(c)'
  <1> DEFINE l == Len(conn[c].out)
             t == NextUnits(c, n)
  <1>1. l \in Nat /\ Len(t) = n /\ \A i \in 1 .. n : t[i] = Service!Unit(c, l + i)
    BY DEF NextUnits
  <1>2. /\ Len(conn'[c].out) = l + n
        /\ \A i \in 1 .. l : conn'[c].out[i] = conn[c].out[i]
        /\ \A i \in l + 1 .. l + n : conn'[c].out[i] = t[i - l]
    BY <1>1 DEF NextUnits
  <1> HIDE DEF t
  <1>3. \A i \in l + 1 .. l + n : conn'[c].out[i] = Service!Unit(c, i)
    BY <1>1, <1>2
  <1>4. \A i \in 1 .. l : conn'[c].out[i] = Service!Unit(c, i)
    BY <1>2 DEF Ordered, Service!Unit
  <1> QED
    BY <1>1, <1>2, <1>3, <1>4 DEF Ordered, Service!Unit

\* What the write does: n units more, of the message of u, and u goes with the last.
Writes(u, c, n) ==
  /\ conn'[c].sent = conn[c].sent /\ conn'[c].rcvd = conn[c].rcvd
  /\ conn'[c].st = conn[c].st
  /\ conn'[c].out = conn[c].out \o Units(u, n)
  /\ \A v \in Udatas \ {u} : heap'[v] = heap[v]
  /\ \/ /\ heap[u].offset + n < heap[u].length
        /\ heap'[u] = [heap[u] EXCEPT !.offset = heap[u].offset + n]
     \/ heap[u].offset + n = heap[u].length /\ heap'[u].st = "freed"

LEMMA TurnWritten ==
  ASSUME TypeOK, Accounts, NEW u \in LiveUdatas, NEW c \in Conns,
         heap[u].conn = c, heap[u].req # 0, heap[u].m_type = "CLIENT",
         NEW k \in RequestNo, Turn(c, k), NEW n \in Nat \ {0}, Writes(u, c, n),
         TornDown(c) => TornDown(c)'
  PROVE  /\ Units(u, n) = NextUnits(c, n)
         /\ Turn(c, k)'
  <1> DEFINE o == heap[u].offset
  <1>1. u \in Udatas /\ Serving(u, c) /\ Answering(u, c, k)
    BY DEF Serving, LiveUdatas, Turn
  <1>2. /\ k \in Nat \ {0} /\ o \in Nat /\ o + n <= ResponseLen
        /\ heap[u].length = ResponseLen /\ ResponseLen \in Nat \ {0}
    <2>1. k # 0 /\ k \in Nat /\ heap[u].length = ResponseLen
      BY <1>1 DEF Answering, RequestNo
    <2>2. heap[u] \in UdataRecord /\ heap[u].offset \in Nat /\ ResponseLen \in Nat \ {0}
      BY <1>1, ServerAssumption DEF TypeOK, UdataRecord
    <2>3. o + n <= heap[u].length
      BY <2>1, <2>2 DEF Writes
    <2> QED
      BY <2>1, <2>2, <2>3
  <1>3. Units(u, n) = NextUnits(c, n)
    BY <1>1, <1>2, UnitsFollow
  <1>4. Len(conn'[c].out) = Len(conn[c].out) + n /\ Ordered(c)'
    <2>1. conn[c].out \in Seq(Conns \X RequestNo \X Nat)
      BY DEF TypeOK, ConnRecord
    <2> QED
      BY <1>3, <2>1, OrderedGrows DEF Writes, Turn
  <1>5. Len(conn'[c].out) = (k - 1) * ResponseLen + (o + n)
    <2>1. (k - 1) * ResponseLen \in Nat
      BY <1>2, Multiples, k - 1 \in Nat
    <2> QED
      BY <1>1, <1>2, <1>4, <2>1 DEF Answering
  <1>6. ASSUME NEW v \in Udatas \ {u}
        PROVE  /\ Reader(v, c)' <=> Reader(v, c)
               /\ ~Serving(v, c)' /\ ~Serving(v, c)
    <2>1. heap'[v] = heap[v]
      BY DEF Writes
    <2> QED
      BY <1>1, <2>1 DEF Reader, Serving, LiveUdatas, Turn, OneEach
  <1>7. ~Reader(u, c)'
    <2>1. heap'[u].st = "freed" \/ heap'[u].req = heap[u].req
      BY <1>1 DEF Writes, TypeOK, UdataRecord
    <2> QED
      BY <2>1 DEF Reader, LiveUdatas
  <1>8. OneEach(c)'
    BY <1>6, <1>7 DEF OneEach, Turn
  <1>9. Arriving(c, k)'
    <2>1. conn[c].st \notin {"idle", "backlog"}
      <3>1. Is(heap[u].m_client_sock, "sock") /\ fdt[heap[u].m_client_sock].of = c
        BY OwnedSocket DEF Is
      <3> QED
        BY <3>1 DEF Accounts, Objects, SocketsApart, Is
    <2> QED
      BY <2>1 DEF Turn, Arriving, Writes
  <1>10. ASSUME NEW v \in Udatas, Reader(v, c)'
         PROVE  Buffered(v, c, k)'
    BY <1>6, <1>7, <1>10 DEF Turn, Buffered, Writes
  <1>11. ASSUME NEW v \in Udatas, Serving(v, c)'
         PROVE  Answering(v, c, k)'
    <2>1. v = u /\ heap'[u].st # "freed"
      BY <1>6, <1>11 DEF Serving, LiveUdatas
    <2>2. /\ heap'[u].req = k /\ heap'[u].offset = o + n /\ o + n < ResponseLen
          /\ heap'[u].m_type = "CLIENT" /\ heap'[u].length = ResponseLen
      BY <1>1, <1>2, <2>1 DEF Writes, Answering, TypeOK, UdataRecord
    <2> QED
      BY <1>1, <1>5, <2>1, <2>2 DEF Answering, Writes
  <1>12. AllAnswered(c, k)'
    <2> SUFFICES ASSUME \A v \in Udatas : ~Serving(v, c)'
                 PROVE  Len(conn'[c].out) = k * ResponseLen
      BY DEF AllAnswered
    <2>1. heap'[u].st = "freed"
      <3>1. ASSUME heap'[u] = [heap[u] EXCEPT !.offset = heap[u].offset + n]
            PROVE  heap'[u].st = "live" /\ heap'[u].conn = c /\ heap'[u].req # 0
        BY <1>1, <3>1 DEF LiveUdatas, TypeOK, UdataRecord
      <3>2. heap'[u].st = "live" => ~(heap'[u].conn = c /\ heap'[u].req # 0)
        BY <1>1 DEF Serving, LiveUdatas
      <3> QED
        BY <3>1, <3>2 DEF Writes
    <2>2. o + n = ResponseLen
      BY <1>1, <1>2, <2>1 DEF Writes, TypeOK, UdataRecord, LiveUdatas
    <2>3. k * ResponseLen = (k - 1) * ResponseLen + ResponseLen
      BY <1>2
    <2> QED
      BY <1>5, <2>2, <2>3
  <1> QED
    BY <1>3, <1>4, <1>8, <1>9, <1>10, <1>11, <1>12 DEF Turn

\* m_fd_set and the sockets are left to the end of the batch by its handlers.
LEMMA HandlerTornKept ==
  ASSUME TypeOK, event_list # {},
         \A c \in Conns : conn[c].st = "closed" => conn'[c].st = "closed"
  PROVE  TornKept
  BY TornStays DEF TypeOK

LEMMA ClientWrites ==
  ASSUME TypeOK, Orderly, Accounts, Turns, NEW e, ClientWriteEvent(e)
  PROVE  LET u == e.udata IN
         /\ event_list # {} /\ \A d \in Conns : conn'[d].st = conn[d].st
         /\ \/ UNCHANGED <<heap, conn>>
            \/ /\ u \in LiveUdatas /\ heap[u].req # 0 /\ heap[u].m_type = "CLIENT"
               /\ \E c \in Conns, n \in Nat \ {0} :
                    /\ c = heap[u].conn /\ Writes(u, c, n)
                    /\ \A d \in Conns \ {c} : conn'[d] = conn[d]
  <1> DEFINE u == e.udata
  <1>1. /\ e \in event_list /\ u \in LiveUdatas /\ e.ident = heap[u].m_client_sock
        /\ heap[u].req # 0 /\ heap[u].m_type = "CLIENT"
    BY ClientWriteEffect DEF ClientShape
  <1>2. PICK c \in Conns : /\ c = heap[u].conn /\ fdt[e.ident] = SockEntry(c)
                           /\ fdt[e.ident].of = c /\ Is(e.ident, "sock")
    BY <1>1, OwnedSocket DEF Is
  <1>3. ClientWriteFails(e) \/ ClientWriteSome(e)
    BY DEF ClientWriteEvent
  <1>4. \A d \in Conns : conn'[d].st = conn[d].st
    <2>1. Written(c) \/ UNCHANGED conn
      BY <1>2, ClientWriteEffect
    <2> QED
      BY <2>1 DEF Written
  <1>5. CASE ClientWriteFails(e)
    BY <1>1, <1>4, <1>5 DEF ClientWriteFails
  <1>6. CASE ClientWriteSome(e)
    <2>1. heap[u] \in UdataRecord /\ u \in Udatas
      BY <1>1 DEF TypeOK, LiveUdatas
    <2>2. PICK k \in RequestNo : Turn(c, k)
      BY DEF Turns
    <2>3. heap[u].offset < heap[u].length
      BY <1>1, <1>2, <2>1, <2>2 DEF Turn, Serving, Answering
    <2>4. heap[u].offset \in Nat /\ heap[u].length \in Nat
      BY <2>1 DEF UdataRecord
    <2>5. PICK n \in 0 .. heap[u].length - heap[u].offset :
            /\ n = 0 => heap[u].length = heap[u].offset
            /\ conn' = Sent(e.ident, u, n)
            /\ IF heap[u].offset + n < heap[u].length
                 THEN heap' = [heap EXCEPT ![u].offset = @ + n]
                 ELSE heap' = [heap EXCEPT ![u] = FreedUdata]
      BY <1>6 DEF ClientWriteSome
    <2>6. n \in Nat \ {0}
      BY <2>3, <2>4, <2>5
    <2>7. /\ conn'[c].sent = conn[c].sent /\ conn'[c].rcvd = conn[c].rcvd
          /\ conn'[c].out = conn[c].out \o Units(u, n)
          /\ \A d \in Conns \ {c} : conn'[d] = conn[d]
      <3> DEFINE out == conn[c].out \o Units(u, n)
                 full == heap[u].offset + n < heap[u].length
                 q == [conn[c] EXCEPT !.out = out, !.full = full]
      <3>1. conn' = [conn EXCEPT ![c].out = out, ![c].full = full]
        BY <1>2, <2>5 DEF Sent
      <3> HIDE DEF out, full
      <3>2. conn' = [conn EXCEPT ![c] = q]
        BY <3>1 DEF TypeOK
      <3>3. q.sent = conn[c].sent /\ q.rcvd = conn[c].rcvd /\ q.out = out
        BY DEF TypeOK, ConnRecord
      <3> HIDE DEF q
      <3>4. conn'[c] = q /\ \A d \in Conns \ {c} : conn'[d] = conn[d]
        BY <3>2 DEF TypeOK
      <3> QED
        BY <3>3, <3>4 DEF out
    <2>8. /\ \A v \in Udatas \ {u} : heap'[v] = heap[v]
          /\ \/ /\ heap[u].offset + n < heap[u].length
                /\ heap'[u] = [heap[u] EXCEPT !.offset = heap[u].offset + n]
             \/ heap[u].offset + n = heap[u].length /\ heap'[u].st = "freed"
      <3>1. CASE heap[u].offset + n < heap[u].length
        BY <2>1, <2>5, <3>1 DEF TypeOK
      <3>2. CASE ~(heap[u].offset + n < heap[u].length)
        <4>1. heap[u].offset + n = heap[u].length
          BY <2>4, <2>5, <3>2
        <4>2. heap' = [heap EXCEPT ![u] = FreedUdata]
          BY <2>5, <3>2
        <4>3. FreedUdata.st = "freed"
          BY DEF FreedUdata, UnusedUdata
        <4> HIDE DEF u
        <4> QED
          BY <2>1, <4>1, <4>2, <4>3 DEF TypeOK
      <3> QED
        BY <3>1, <3>2
    <2>9. Writes(u, c, n)
      BY <1>4, <2>7, <2>8 DEF Writes
    <2> QED
      BY <1>1, <1>2, <1>4, <2>6, <2>7, <2>9
  <1> QED
    BY <1>3, <1>5, <1>6

LEMMA ClientWriteTurns ==
  ASSUME TypeOK, Orderly, Accounts, Turns, NEW e, ClientWriteEvent(e)
  PROVE  Turns'
  <1> DEFINE u == e.udata
  <1>1. TornKept
    BY ClientWrites, HandlerTornKept
  <1>2. CASE UNCHANGED <<heap, conn>>
    BY <1>1, <1>2, HeapStays
  <1>3. CASE ~UNCHANGED <<heap, conn>>
    <2>1. PICK c \in Conns, n \in Nat \ {0} :
            /\ c = heap[u].conn /\ Writes(u, c, n)
            /\ \A d \in Conns \ {c} : conn'[d] = conn[d]
      BY <1>3, ClientWrites
    <2>2. /\ u \in LiveUdatas /\ u \in Udatas /\ heap[u] \in UdataRecord
          /\ heap[u].req # 0 /\ heap[u].m_type = "CLIENT"
      BY <1>3, ClientWrites DEF LiveUdatas, TypeOK
    <2>3. PICK k \in RequestNo : Turn(c, k)
      BY DEF Turns
    <2>4. Turn(c, k)'
      BY <1>1, <2>1, <2>2, <2>3, TurnWritten DEF TornKept
    <2>5. OnlyFor(c)
      <3>1. heap'[u].st = "live" => heap'[u].conn = c
        BY <2>1, <2>2 DEF Writes, UdataRecord
      <3> QED
        BY <2>1, <3>1 DEF OnlyFor, Writes
    <2> QED
      BY <1>1, <2>4, <2>5, TurnsMove
  <1> QED
    BY <1>2, <1>3

(***************************************************************************)
(* clientReadEvent: more of the next request, or all of it.                *)
(***************************************************************************)
\* A request whose first segment follows k whole requests is the next one.
LEMMA FirstSegment ==
  ASSUME NEW k \in Nat
  PROVE  RequestAt(k * Segments + 1) = k + 1
  <1>1. Segments \in Nat \ {0} /\ k * Segments \in Nat
    BY ServerAssumption, Multiples
  <1>2. 0 \in 0 .. Segments - 1
    BY <1>1
  <1>3. (k * Segments + 0) \div Segments = k /\ (k * Segments + 0) % Segments = 0
    BY <1>1, <1>2, Places
  <1>4. (k * Segments + 1) - 1 = k * Segments + 0 /\ k * Segments + 1 > 0
    BY <1>1
  <1> QED
    BY <1>3, <1>4 DEF RequestAt

LEMMA BuffersNext ==
  ASSUME TypeOK, NEW u \in LiveUdatas, heap[u].req = 0, NEW c \in Conns,
         NEW k \in RequestNo, Buffered(u, c, k)
  PROVE  LET q == ReadBuffer(heap[u], c) IN
         /\ q.st = "live" /\ q.conn = heap[u].conn /\ q.m_type = heap[u].m_type
         /\ q.length = 0 /\ q.offset = 0 /\ q.first = k * Segments + 1
         /\ q.req = IF conn[c].sent >= (k + 1) * Segments THEN k + 1 ELSE 0
  <1> DEFINE first == IF heap[u].first = 0 THEN conn[c].rcvd + 1 ELSE heap[u].first
             done == IF RequestAt(first) # 0
                          /\ conn[c].sent >= RequestAt(first) * Segments
                       THEN RequestAt(first) ELSE 0
  <1>1. heap[u] \in UdataRecord /\ heap[u].st = "live"
    BY DEF TypeOK, LiveUdatas
  <1>2. first = k * Segments + 1
    <2>1. k * Segments \in Nat
      BY ServerAssumption, Multiples DEF RequestNo
    <2> QED
      BY <2>1 DEF Buffered
  <1>3. RequestAt(first) = k + 1 /\ k + 1 # 0
    BY <1>2, FirstSegment DEF RequestNo
  <1>4. done = IF conn[c].sent >= (k + 1) * Segments THEN k + 1 ELSE 0
    BY <1>3
  <1>5. ReadBuffer(heap[u], c) = [heap[u] EXCEPT !.first = first, !.req = done]
    BY DEF ReadBuffer
  <1> HIDE DEF first, done
  <1> QED
    BY <1>1, <1>2, <1>4, <1>5 DEF UdataRecord, Buffered

\* What is received of c, while it is there, is of the request after the k-th, and
\* all before that is answered.
LEMMA NothingInProgress ==
  ASSUME TypeOK, Accounts, NEW c \in Conns, NEW k \in RequestNo, Turn(c, k),
         conn[c].rcvd < conn[c].sent
  PROVE  \A u \in Udatas : ~Serving(u, c)
  BY DEF Turn, Answering, TypeOK, ConnRecord, SegmentNo

LEMMA ReadsData ==
  ASSUME TypeOK, Orderly, Accounts, NEW e, ClientReadEvent(e), ~ClientReadEof(e)
  PROVE  LET u == e.udata
             c == heap[u].conn
             q == ReadBuffer(heap[u], c)
         IN /\ ~e.eof /\ conn[c].rcvd < conn[c].sent
            /\ conn' = [conn EXCEPT ![c].rcvd = conn[c].sent]
            /\ IF q.req = 0 THEN heap' = [heap EXCEPT ![u] = q]
                            ELSE ProcessRequest(q, u, e.ident, c)
  <1> DEFINE u == e.udata
             c == heap[u].conn
  <1>1. /\ e \in event_list /\ u \in LiveUdatas
        /\ e.ident = heap[u].m_client_sock /\ e.filter = "READ"
    BY ClientReadEffect
  <1>2. Is(e.ident, "sock") /\ fdt[e.ident].of = c
    BY <1>1, OwnedSocket DEF Is
  <1>3. ClientReadData(e)
    BY DEF ClientReadEvent
  <1>4. StillReady(e)
    BY <1>1 DEF Accounts, BatchKept, BatchReady, Batch
  <1>5. ~e.eof /\ conn[c].rcvd < conn[c].sent /\ CanReceive(e.ident)
    BY <1>1, <1>2, <1>3, <1>4 DEF StillReady, ClientReadData, CanReceive
  <1> QED
    BY <1>2, <1>3, <1>5 DEF ClientReadData

\* How the numbers of a connection compare.
LEMMA Counts ==
  ASSUME TypeOK, NEW c \in Conns, NEW k \in RequestNo
  PROVE  /\ conn[c].sent \in Nat /\ conn[c].rcvd \in Nat
         /\ conn[c].sent <= MaxRequests * Segments
         /\ k \in Nat /\ k + 1 \in Nat /\ MaxRequests \in Nat
         /\ Segments \in Nat \ {0} /\ ResponseLen \in Nat \ {0}
         /\ k * Segments \in Nat /\ (k + 1) * Segments \in Nat
         /\ (k + 1) * Segments = k * Segments + Segments
         /\ k * ResponseLen \in Nat
  <1>1. /\ MaxRequests \in Nat /\ Segments \in Nat \ {0}
        /\ ResponseLen \in Nat \ {0}
    BY ServerAssumption
  <1>2. k \in Nat /\ k + 1 \in Nat
    BY <1>1 DEF RequestNo
  <1>3. conn[c].sent \in SegmentNo /\ conn[c].rcvd \in SegmentNo
    BY DEF TypeOK, ConnRecord
  <1>4. MaxRequests * Segments \in Nat
    BY <1>1, Multiples
  <1> HIDE DEF SegmentNo
  <1>5. /\ conn[c].sent \in Nat /\ conn[c].rcvd \in Nat
        /\ conn[c].sent <= MaxRequests * Segments
    BY <1>3, <1>4 DEF SegmentNo
  <1> QED
    BY <1>1, <1>2, <1>5, Multiples

LEMMA TurnBuffered ==
  ASSUME TypeOK, Accounts, NEW u \in LiveUdatas, NEW c \in Conns,
         heap[u].conn = c, heap[u].req = 0, NEW k \in RequestNo, Turn(c, k),
         conn[c].rcvd < conn[c].sent, conn[c].sent < (k + 1) * Segments,
         conn' = [conn EXCEPT ![c].rcvd = conn[c].sent],
         heap' = [heap EXCEPT ![u] = ReadBuffer(heap[u], c)],
         TornDown(c) => TornDown(c)'
  PROVE  Turn(c, k)'
  <1> DEFINE q == ReadBuffer(heap[u], c)
  <1>1. u \in Udatas /\ Reader(u, c) /\ Buffered(u, c, k)
    BY DEF Reader, LiveUdatas, Turn
  <1>2. /\ conn[c].sent \in Nat /\ conn[c].rcvd \in Nat /\ k * Segments \in Nat
        /\ (k + 1) * Segments \in Nat
    BY Counts
  <1>3. /\ q.st = "live" /\ q.conn = c /\ q.length = 0 /\ q.offset = 0
        /\ q.first = k * Segments + 1 /\ q.req = 0
    BY <1>1, <1>2, BuffersNext
  <1>4. heap'[u] = q /\ \A v \in Udatas \ {u} : heap'[v] = heap[v]
    BY <1>1 DEF TypeOK
  <1> HIDE DEF q
  <1>5. /\ conn'[c].rcvd = conn[c].sent /\ conn'[c].sent = conn[c].sent
        /\ conn'[c].out = conn[c].out /\ conn'[c].st = conn[c].st
    BY DEF TypeOK, ConnRecord
  <1>6. \A v \in Udatas : ~Serving(v, c)
    BY NothingInProgress
  <1>7. \A v \in Udatas : /\ Reader(v, c)' <=> Reader(v, c)
                          /\ Serving(v, c)' <=> Serving(v, c)
    BY <1>1, <1>3, <1>4 DEF Reader, Serving, LiveUdatas
  <1>8. OneEach(c)'
    BY <1>7 DEF OneEach, Turn
  <1>9. Arriving(c, k)'
    <2>1. conn[c].st \notin {"idle", "backlog"}
      BY OwnedSocket DEF Accounts, Objects, SocketsApart, Is
    <2> QED
      BY <1>2, <1>5, <2>1 DEF Turn, Arriving
  <1>10. ASSUME NEW v \in Udatas, Reader(v, c)'
         PROVE  Buffered(v, c, k)'
    <2>1. v = u
      BY <1>1, <1>7, <1>10 DEF Turn, OneEach
    <2>2. k * Segments + 1 <= conn[c].sent
      BY <1>2 DEF Turn, Arriving
    <2> QED
      BY <1>3, <1>4, <1>5, <2>1, <2>2 DEF Buffered
  <1>11. AllAnswered(c, k)'
    BY <1>5, <1>6 DEF Turn, AllAnswered
  <1>12. Ordered(c)'
    BY <1>5 DEF Turn, Ordered
  <1> QED
    BY <1>6, <1>7, <1>8, <1>9, <1>10, <1>11, <1>12 DEF Turn

\* The k + 1st request is complete: it is in progress now, and n reads on.
LEMMA TurnServed ==
  ASSUME TypeOK, Accounts, NEW u \in LiveUdatas, NEW c \in Conns,
         heap[u].conn = c, heap[u].req = 0,
         NEW k \in RequestNo, Turn(c, k), NEW j \in Nat, j = k + 1,
         conn[c].rcvd < conn[c].sent, conn[c].sent >= j * Segments,
         event_list # {}, conn' = [conn EXCEPT ![c].rcvd = conn[c].sent],
         heap'[u].st = "live", heap'[u].conn = c, heap'[u].req = j,
         MessageOf(ReadBuffer(heap[u], c), heap'[u]),
         NEW n \in Udatas, NEW sock, n # u, heap[n].st = "unused",
         heap'[n] = NewUdata(c, sock),
         \A v \in Udatas \ {u, n} : heap'[v] = heap[v]
  PROVE  j \in RequestNo /\ Turn(c, j)'
  <1>1. u \in Udatas /\ Reader(u, c) /\ Buffered(u, c, k)
    BY DEF Reader, LiveUdatas, Turn
  <1>2. /\ conn[c].sent \in Nat /\ conn[c].rcvd \in Nat
        /\ MaxRequests \in Nat /\ Segments \in Nat \ {0} /\ ResponseLen \in Nat \ {0}
        /\ conn[c].sent <= MaxRequests * Segments /\ k \in Nat /\ j \in Nat
        /\ j * Segments \in Nat /\ k * ResponseLen \in Nat
    BY Counts
  <1>3. (j + 1) * Segments = j * Segments + Segments /\ j - 1 = k /\ j # 0
    <2>1. (j + 1) * Segments = j * Segments + Segments
      BY <1>2, Multiples
    <2>2. j - 1 = k /\ j # 0
      BY k \in Nat DEF RequestNo
    <2> QED
      BY <2>1, <2>2
  <1>4. conn[c].sent = j * Segments
    <2>1. conn[c].sent <= (k + 1) * Segments /\ (k + 1) * Segments = j * Segments
      BY DEF Turn, Arriving
    <2> QED
      BY <1>2, <2>1
  <1>5. j \in RequestNo
    <2>1. j * Segments <= MaxRequests * Segments
      BY <1>2, <1>4
    <2>2. j <= MaxRequests
      BY <1>2, <2>1, FewerMultiples
    <2> QED
      BY <1>2, <2>2 DEF RequestNo
  <1>6. /\ conn'[c].rcvd = j * Segments /\ conn'[c].sent = j * Segments
        /\ conn'[c].out = conn[c].out /\ conn'[c].st = conn[c].st
    BY <1>4 DEF TypeOK, ConnRecord
  <1>7. \A v \in Udatas : ~Serving(v, c)
    BY NothingInProgress
  <1>8. conn[c].st \in {"open", "fin", "reset"}
    BY OwnedSocket DEF Accounts, Objects, SocketsApart, Is
  <1>9. Len(conn[c].out) = k * ResponseLen
    BY <1>7, <1>8 DEF Turn, AllAnswered, TornDown
  <1>10. /\ heap'[n].st = "live" /\ heap'[n].conn = c /\ heap'[n].req = 0
         /\ heap'[n].first = 0 /\ heap'[n].length = 0 /\ heap'[n].offset = 0
    BY DEF NewUdata, UnusedUdata
  <1>11. ASSUME NEW v \in Udatas
         PROVE  /\ Reader(v, c)' <=> v = n
                /\ Serving(v, c)' <=> v = u
    <2>1. CASE v = u
      BY <1>2, <2>1 DEF Reader, Serving, LiveUdatas
    <2>2. CASE v = n
      BY <1>10, <2>2 DEF Reader, Serving, LiveUdatas
    <2>3. CASE v \notin {u, n}
      <3>1. ~Reader(v, c) /\ ~Serving(v, c)
        BY <1>1, <1>7, <2>3 DEF Turn, OneEach
      <3> QED
        BY <2>3, <3>1 DEF Reader, Serving, LiveUdatas
    <2> QED
      BY <2>1, <2>2, <2>3
  <1>12. OneEach(c)'
    BY <1>11 DEF OneEach
  <1>13. Arriving(c, j)'
    <2>1. /\ j * Segments <= j * Segments /\ j * Segments < (j + 1) * Segments
          /\ j * Segments <= (j + 1) * Segments
      BY <1>2, <1>3
    <2> QED
      BY <1>6, <1>8, <2>1 DEF Arriving
  <1>14. Buffered(n, c, j)'
    BY <1>6, <1>10 DEF Buffered
  <1>15. Answering(u, c, j)'
    <2> DEFINE q == ReadBuffer(heap[u], c)
    <2>1. q.length = 0 /\ q.offset = 0
      BY <1>1, BuffersNext
    <2> HIDE DEF q
    <2>2. MessageOf(q, heap'[u])
      BY DEF q
    <2>3. Len(conn[c].out) = (j - 1) * ResponseLen /\ 0 + ResponseLen = ResponseLen
            /\ 0 < ResponseLen /\ (j - 1) * ResponseLen + 0 = (j - 1) * ResponseLen
      <3>1. Len(conn[c].out) = (j - 1) * ResponseLen
        BY <1>3, <1>9
      <3>2. (j - 1) * ResponseLen \in Nat
        BY <1>2, <1>3
      <3> QED
        BY <1>2, <3>1, <3>2
    <2> QED
      BY <1>6, <2>1, <2>2, <2>3 DEF Answering, MessageOf
  <1>16. AllAnswered(c, j)'
    BY <1>1, <1>11 DEF AllAnswered
  <1>17. Ordered(c)'
    BY <1>6 DEF Turn, Ordered
  <1> QED
    BY <1>5, <1>11, <1>12, <1>13, <1>14, <1>15, <1>16, <1>17 DEF Turn

LEMMA ClientReadTurns ==
  ASSUME TypeOK, Orderly, Accounts, Turns, NEW e, ClientReadEvent(e)
  PROVE  Turns'
  <1> DEFINE u == e.udata
             r == heap[u]
  <1>1. /\ e \in event_list /\ u \in LiveUdatas /\ u \in Udatas
        /\ e.ident = r.m_client_sock /\ e.filter = "READ"
    BY ClientReadEffect DEF LiveUdatas
  <1>2. PICK c \in Conns : c = r.conn
    BY <1>1, OwnedSocket
  <1>3. CASE ClientReadEof(e)
    <2>1. UNCHANGED <<heap, conn>>
      BY <1>3 DEF ClientReadEof
    <2>2. TornKept
      BY <1>1, <2>1, HandlerTornKept
    <2> QED
      BY <2>1, <2>2, HeapStays
  <1>4. CASE ~ClientReadEof(e)
    <2> DEFINE q == ReadBuffer(r, c)
    <2>1. /\ ~e.eof /\ conn[c].rcvd < conn[c].sent
          /\ conn' = [conn EXCEPT ![c].rcvd = conn[c].sent]
          /\ IF q.req = 0 THEN heap' = [heap EXCEPT ![u] = q]
                          ELSE ProcessRequest(q, u, e.ident, c)
      BY <1>2, <1>4, ReadsData
    <2>2. \A d \in Conns \ {c} : conn'[d] = conn[d]
      BY <2>1 DEF TypeOK
    <2>3. conn'[c].st = conn[c].st
      BY <2>1 DEF TypeOK, ConnRecord
    <2>4. TornKept
      BY <1>1, <2>2, <2>3, HandlerTornKept
    <2>5. PICK k \in RequestNo : Turn(c, k)
      BY DEF Turns
    <2>6. LiveRecord(r) /\ r.req = 0 /\ ClientShape(r) /\ r.m_type = "CLIENT"
      <3>1. HandledAs(e, "READ", "CLIENT")
        BY DEF ClientReadEvent
      <3>2. LiveRecord(r) /\ InShape(r) /\ r.m_type = "CLIENT"
              /\ <<e.ident, "READ">> \in Filters(r)
        BY <1>1, <3>1, Handled
      <3> QED
        BY <3>2 DEF InShape, ClientShape, FileShape, PipeShape, Filters
    <2>7. Buffered(u, c, k)
      BY <1>1, <1>2, <2>5, <2>6 DEF Turn, Reader
    <2>8. /\ q.st = "live" /\ q.conn = c
          /\ q.req = IF conn[c].sent >= (k + 1) * Segments THEN k + 1 ELSE 0
      BY <1>1, <1>2, <2>6, <2>7, BuffersNext
    <2>9. k + 1 # 0 /\ (conn[c].sent < (k + 1) * Segments
                          \/ conn[c].sent >= (k + 1) * Segments)
      BY ServerAssumption DEF RequestNo, TypeOK, ConnRecord, SegmentNo
    <2>10. CASE conn[c].sent < (k + 1) * Segments
      <3>1. ~(conn[c].sent >= (k + 1) * Segments)
        BY <2>10, ServerAssumption DEF RequestNo, TypeOK, ConnRecord, SegmentNo
      <3>2. heap' = [heap EXCEPT ![u] = q]
        BY <2>1, <2>8, <3>1
      <3>3. Turn(c, k)'
        BY <1>1, <1>2, <2>1, <2>4, <2>5, <2>6, <2>10, <3>2, TurnBuffered DEF TornKept
      <3>4. OnlyFor(c)
        <4>1. heap'[u] = q /\ \A v \in Udatas \ {u} : heap'[v] = heap[v]
          BY <1>1, <3>2 DEF TypeOK
        <4> HIDE DEF q
        <4> QED
          BY <1>2, <2>2, <2>8, <4>1 DEF OnlyFor
      <3> QED
        BY <2>4, <3>3, <3>4, TurnsMove
    <2>11. CASE conn[c].sent >= (k + 1) * Segments
      <3>1. q.req = k + 1 /\ ProcessRequest(q, u, e.ident, c)
        BY <2>1, <2>8, <2>9, <2>11
      <3>2. LiveRecord(q)
        BY <1>1, <2>1, <2>6, ReadBufferTypes DEF LiveRecord
      <3>3. heap'[u].req = k + 1 /\ MessageOf(q, heap'[u])
        <4>1. heap[u].st = "live"
          BY <1>1 DEF LiveUdatas
        <4> HIDE DEF q
        <4> QED
          BY <1>1, <3>1, <3>2, <4>1, ServedMessage
      <3>4. PICK n \in Udatas, s \in Seq(Change) : Serves(u, n, s)
        <4>1. ~Quiet
          BY <1>1, <2>6, <2>9, <3>3 DEF Quiet, SameObject
        <4> QED
          BY <1>4, <4>1, ClientReadEffect
      <3>5. /\ n # u /\ heap[n].st = "unused" /\ heap'[n] = NewUdata(c, r.m_client_sock)
            /\ \A v \in Udatas \ {u, n} : heap'[v] = heap[v]
            /\ heap'[u].st = "live" /\ heap'[u].conn = c
        BY <1>2, <3>4 DEF Serves, BecomesWithReader
      <3>6. PICK j \in Nat : j = k + 1
        BY Counts
      <3>7. j \in RequestNo /\ Turn(c, j)'
        <4>1. /\ conn[c].sent >= j * Segments /\ heap'[u].req = j
              /\ MessageOf(ReadBuffer(heap[u], c), heap'[u])
          BY <2>11, <3>3, <3>6
        <4>2. event_list # {} /\ heap[u].conn = c /\ heap[u].req = 0
          BY <1>1, <1>2, <2>6
        <4> HIDE DEF q
        <4> QED
          BY <1>1, <2>1, <2>5, <3>5, <3>6, <4>1, <4>2, TurnServed
      <3>8. OnlyFor(c)
        <4>1. heap'[n].conn = c
          BY <3>5 DEF NewUdata, UnusedUdata
        <4> QED
          BY <1>2, <2>2, <3>5, <4>1 DEF OnlyFor
      <3> QED
        BY <2>4, <3>7, <3>8, TurnsMove
    <2> QED
      BY <2>9, <2>10, <2>11
  <1> QED
    BY <1>3, <1>4

(***************************************************************************)
(* serverReadEvent: a client that sent no request of which anything was    *)
(* received.                                                               *)
(***************************************************************************)
LEMMA NobodysObject ==
  ASSUME TypeOK, Accounts, NEW c \in Conns, conn[c].st = "backlog"
  PROVE  /\ \A u \in Udatas : ~Reader(u, c) /\ ~Serving(u, c)
         /\ ~TornDown(c)
  <1>1. \A u \in LiveUdatas : heap[u].conn # c
    <2>1. \A u \in LiveUdatas : conn[heap[u].conn].st \in {"open", "fin", "reset"}
      BY OwnedSocket, SocketOf
    <2> QED
      BY <2>1
  <1>2. ~TornDown(c)
    <2>1. ASSUME NEW f \in m_fd_set, fdt[f] = SockEntry(c)
          PROVE  FALSE
      <3>1. HasLeft(fdt[f].of) /\ fdt[f].of = c
        BY <2>1 DEF Accounts, OnlyDeparted, SockEntry
      <3> QED
        BY <3>1 DEF HasLeft
    <2> QED
      BY <2>1 DEF TornDown
  <1> QED
    BY <1>1, <1>2 DEF Reader, Serving

LEMMA TurnAdmitted ==
  ASSUME TypeOK, Accounts, NEW c, NEW f, NEW n, Admits(c, f, n),
         NEW k \in RequestNo, Turn(c, k)
  PROVE  Turn(c, k)'
  <1>1. /\ c \in Conns /\ conn[c].st = "backlog" /\ n \in Udatas
        /\ heap'[n] = NewUdata(c, f) /\ \A v \in Udatas \ {n} : heap'[v] = heap[v]
    BY DEF Admits
  <1>2. /\ conn'[c].st = "open" /\ conn'[c].out = conn[c].out
        /\ conn'[c].sent = conn[c].sent /\ conn'[c].rcvd = conn[c].rcvd
    BY <1>1 DEF Admits, TypeOK, ConnRecord
  <1>3. /\ \A u \in Udatas : ~Reader(u, c) /\ ~Serving(u, c)
        /\ ~TornDown(c)
    BY <1>1, NobodysObject
  <1>4. /\ heap'[n].st = "live" /\ heap'[n].conn = c /\ heap'[n].req = 0
        /\ heap'[n].first = 0 /\ heap'[n].length = 0 /\ heap'[n].offset = 0
    BY <1>1 DEF NewUdata, UnusedUdata
  <1>5. \A v \in Udatas : (Reader(v, c)' => v = n) /\ ~Serving(v, c)'
    BY <1>1, <1>3, <1>4 DEF Reader, Serving, LiveUdatas
  <1>6. OneEach(c)'
    BY <1>5 DEF OneEach
  <1>7. Arriving(c, k)'
    BY <1>2 DEF Turn, Arriving
  <1>8. Buffered(n, c, k)'
    <2>1. conn[c].rcvd = 0 /\ k * Segments <= 0
      BY <1>1 DEF Turn, Arriving
    <2>2. k * Segments = 0
      BY <1>1, <2>1, Counts
    <2> QED
      BY <1>2, <1>4, <2>1, <2>2 DEF Buffered
  <1>9. AllAnswered(c, k)'
    BY <1>2, <1>3 DEF Turn, AllAnswered
  <1>10. Ordered(c)'
    BY <1>2 DEF Turn, Ordered
  <1> QED
    BY <1>5, <1>6, <1>7, <1>8, <1>9, <1>10 DEF Turn

LEMMA AcceptTurns ==
  ASSUME TypeOK, Accounts, Turns, Accept, event_list = {} => event_list' = {}
  PROVE  Turns'
  <1>1. CASE \E c \in Conns, f \in Fds, n \in Udatas : Admits(c, f, n)
    <2>1. PICK c \in Conns, f \in Fds, n \in Udatas : Admits(c, f, n)
      BY <1>1
    <2>2. PICK k \in RequestNo : Turn(c, k)
      BY DEF Turns
    <2>3. \A d \in Conns \ {c} : conn'[d] = conn[d]
      BY <2>1 DEF Admits, TypeOK
    <2>4. TornKept
      <3>1. conn[c].st # "closed"
        BY <2>1 DEF Admits
      <3>2. \A g \in m_fd_set : Is(g, "sock") => fdt'[g] = fdt[g]
        BY <2>1 DEF Admits, Is, FreeFds
      <3>3. m_fd_set' = m_fd_set
        BY <2>1 DEF Admits
      <3> QED
        BY <2>3, <3>1, <3>2, <3>3, TornStays DEF TypeOK
    <2>5. OnlyFor(c)
      <3>1. heap'[n].conn = c /\ heap[n].st # "live"
        BY <2>1 DEF Admits, NewUdata, UnusedUdata
      <3> QED
        BY <2>1, <2>3, <3>1 DEF OnlyFor, Admits
    <2> QED
      BY <2>1, <2>2, <2>4, <2>5, TurnAdmitted, TurnsMove
  <1>2. CASE /\ \/ UNCHANGED conn
                \/ \E c \in Conns : /\ conn[c].st = "backlog"
                                    /\ conn' = [conn EXCEPT ![c].st = "closed"]
             /\ UNCHANGED <<heap, m_fd_set, fdt>>
    <2>1. \A d \in Conns : /\ conn'[d].sent = conn[d].sent
                           /\ conn'[d].rcvd = conn[d].rcvd
                           /\ conn'[d].out = conn[d].out
                           /\ conn'[d].st = conn[d].st \/ conn'[d].st = "closed"
      <3>1. conn \in [Conns -> ConnRecord]
        BY DEF TypeOK
      <3>2. ASSUME NEW c \in Conns, conn' = [conn EXCEPT ![c].st = "closed"],
                   NEW d \in Conns
            PROVE  /\ conn'[d].sent = conn[d].sent /\ conn'[d].rcvd = conn[d].rcvd
                   /\ conn'[d].out = conn[d].out
                   /\ conn'[d].st = conn[d].st \/ conn'[d].st = "closed"
        BY <3>1, <3>2 DEF ConnRecord
      <3> QED
        BY <1>2, <3>2
    <2>2. TornKept
      BY <1>2, <2>1, TornStays DEF TypeOK
    <2> QED
      BY <1>2, <2>1, <2>2, HeapStays
  <1> QED
    BY <1>1, <1>2, AcceptEffect

(***************************************************************************)
(* A client that does not pipeline sends nothing while its request is in   *)
(* progress.                                                               *)
(***************************************************************************)
LEMMA NothingRequested ==
  ASSUME TypeOK, Accounts, NEW c \in Conns, NEW k \in RequestNo, Turn(c, k),
         Connected(c), Requested(c) = Answered(c)
  PROVE  /\ \A u \in Udatas : ~Serving(u, c)
         /\ conn[c].sent < (k + 1) * Segments
  <1>1. /\ conn[c].sent \in Nat /\ k \in Nat /\ k + 1 \in Nat
        /\ Segments \in Nat \ {0} /\ ResponseLen \in Nat \ {0}
        /\ (k + 1) * Segments \in Nat
    BY Counts
  <1>2. \A j \in Nat, x \in Nat \ {0} : (j * x) \div x = j
    <2>1. ASSUME NEW j \in Nat, NEW x \in Nat \ {0}
          PROVE  (j * x) \div x = j
      <3>1. 0 \in 0 .. x - 1 /\ j * x + 0 = j * x
        BY Multiples
      <3> QED
        BY <3>1, Places
    <2> QED
      BY <2>1
  <1>3. ASSUME NEW u \in Udatas, Serving(u, c)
        PROVE  FALSE
    <2>1. Answering(u, c, k) /\ k # 0
      BY <1>3 DEF Turn, Serving, Answering
    <2>2. Requested(c) = k
      BY <1>1, <1>2, <2>1 DEF Requested, Answering
    <2>3. heap[u].offset \in 0 .. ResponseLen - 1
      BY <1>1, <2>1 DEF Answering, TypeOK, UdataRecord
    <2>4. Answered(c) = k - 1
      <3>1. PICK q \in Nat, x \in 0 .. ResponseLen - 1 : q = k - 1 /\ x = heap[u].offset
        BY <1>1, <2>1, <2>3
      <3>2. (q * ResponseLen + x) \div ResponseLen = q
        BY <1>1, Places
      <3> QED
        BY <2>1, <3>1, <3>2 DEF Answered, Answering
    <2>5. k = k - 1
      BY <2>2, <2>4
    <2> QED
      BY <2>5, k \in Nat DEF RequestNo
  <1>4. ~TornDown(c)
    <2>1. conn[c].st \in {"backlog", "open"}
      BY DEF Connected
    <2>2. ASSUME NEW f \in m_fd_set, fdt[f] = SockEntry(c)
          PROVE  FALSE
      <3>1. HasLeft(fdt[f].of) /\ fdt[f].of = c
        BY <2>2 DEF Accounts, OnlyDeparted, SockEntry
      <3> QED
        BY <2>1, <3>1 DEF HasLeft
    <2> QED
      BY <2>1, <2>2 DEF TornDown
  <1>5. Answered(c) = k
    BY <1>1, <1>2, <1>3, <1>4 DEF Turn, AllAnswered, Answered
  <1>6. conn[c].sent # (k + 1) * Segments
    <2>1. ASSUME conn[c].sent = (k + 1) * Segments
          PROVE  Requested(c) = k + 1
      BY <1>1, <1>2, <2>1 DEF Requested
    <2> QED
      BY <1>1, <1>5, <2>1
  <1>7. conn[c].sent <= (k + 1) * Segments
    BY DEF Turn, Arriving
  <1> QED
    BY <1>1, <1>3, <1>6, <1>7

LEMMA SendTurns ==
  ASSUME TypeOK, InTurn, Accounts, Turns, NEW c \in Conns, Send(c)
  PROVE  Turns'
  <1>1. PICK k \in RequestNo : Turn(c, k)
    BY DEF Turns
  <1>2. /\ \A u \in Udatas : ~Serving(u, c)
        /\ conn[c].sent < (k + 1) * Segments
    BY <1>1, NothingRequested DEF Send, InTurn
  <1>3. /\ conn'[c].sent = conn[c].sent + 1 /\ conn'[c].rcvd = conn[c].rcvd
        /\ conn'[c].out = conn[c].out /\ conn'[c].st = conn[c].st
        /\ \A d \in Conns \ {c} : conn'[d] = conn[d]
    BY DEF Send, TypeOK, ConnRecord
  <1>4. UNCHANGED <<heap, m_fd_set, event_list, fdt>>
    BY DEF Send, ServerUnchanged
  <1>5. TornKept
    BY <1>3, <1>4, TornStays DEF TypeOK
  <1>6. OnlyFor(c)
    BY <1>3, <1>4 DEF OnlyFor
  <1>7. Arriving(c, k)'
    <2>1. conn[c].sent + 1 <= (k + 1) * Segments /\ conn[c].rcvd <= conn[c].sent + 1
      <3> DEFINE next == (k + 1) * Segments
      <3>1. next \in Nat /\ conn[c].sent \in Nat /\ conn[c].rcvd \in Nat
        BY Counts
      <3>2. conn[c].sent < next /\ conn[c].rcvd <= conn[c].sent
        BY <1>1, <1>2 DEF Turn, Arriving
      <3> HIDE DEF next
      <3>3. conn[c].sent + 1 <= next /\ conn[c].rcvd <= conn[c].sent + 1
        BY <3>1, <3>2
      <3> QED
        BY <3>3 DEF next
    <2> QED
      BY <1>1, <1>3, <2>1 DEF Turn, Arriving
  <1>8. \A u \in Udatas : /\ Reader(u, c)' <=> Reader(u, c)
                          /\ ~Serving(u, c)'
    BY <1>2, <1>4 DEF Reader, Serving, LiveUdatas
  <1>9. Turn(c, k)'
    <2>1. OneEach(c)'
      BY <1>1, <1>8 DEF Turn, OneEach
    <2>2. \A u \in Udatas : Reader(u, c)' => Buffered(u, c, k)'
      BY <1>1, <1>3, <1>4, <1>8 DEF Turn, Buffered
    <2>3. AllAnswered(c, k)'
      BY <1>1, <1>2, <1>3, <1>5 DEF Turn, AllAnswered, TornKept
    <2>4. Ordered(c)'
      BY <1>1, <1>3 DEF Turn, Ordered
    <2> QED
      BY <1>7, <1>8, <2>1, <2>2, <2>3, <2>4 DEF Turn
  <1> QED
    BY <1>5, <1>6, <1>9, TurnsMove

(***************************************************************************)
(* Files and pipes: a request goes on, and in the end has its message.     *)
(***************************************************************************)
\* q is what r has become, with nothing of its request or message changed.
SameTurn(r, q) ==
  /\ q.conn = r.conn /\ q.req = r.req /\ q.first = r.first
  /\ q.m_type = r.m_type /\ q.length = r.length /\ q.offset = r.offset

LEMMA GoesOnQuietly ==
  ASSUME TypeOK, NEW u \in LiveUdatas, NEW q, q.st = "live", SameTurn(heap[u], q),
         heap' = [heap EXCEPT ![u] = q]
  PROVE  /\ Proceeds(heap[u], heap'[u])
         /\ \A v \in Udatas \ {u} : heap'[v] = heap[v]
  BY DEF TypeOK, LiveUdatas, Proceeds, SameMessage, SameTurn

LEMMA GoesOnResponding ==
  ASSUME TypeOK, NEW u \in LiveUdatas, heap[u].m_type # "CLIENT",
         NEW q, LiveRecord(q), SameTurn(heap[u], q),
         heap' = Respond(u, [heap EXCEPT ![u] = q])
  PROVE  /\ Proceeds(heap[u], heap'[u])
         /\ \A v \in Udatas \ {u} : heap'[v] = heap[v]
  <1> DEFINE h == [heap EXCEPT ![u] = q]
  <1>1. u \in Udatas /\ heap \in [Udatas -> UdataRecord] /\ HeapType(heap)
    BY TypeParts DEF LiveUdatas, HeapType
  <1>2. h \in [Udatas -> UdataRecord] /\ h[u] = q /\ \A v \in Udatas \ {u} : h[v] = heap[v]
    BY <1>1 DEF LiveRecord
  <1>3. HeapType(h)
    BY <1>1, <1>2 DEF HeapType, LiveRecord
  <1> HIDE DEF h
  <1>4. h[u].st = "live" /\ heap' = Respond(u, h)
    BY <1>2 DEF LiveRecord, h
  <1> QED
    BY <1>2, <1>3, <1>4, RespondsProceeds DEF SameTurn

LEMMA FileReadTurns ==
  ASSUME TypeOK, Orderly, Accounts, Turns, NEW e, StaticFileReadEvent(e)
  PROVE  Turns'
  <1> DEFINE u == e.udata
             r == heap[u]
  <1>1. /\ e \in event_list /\ u \in LiveUdatas /\ u \in Udatas
        /\ r.m_type = "STATIC_FILE" /\ UNCHANGED conn
    BY FileReadEffect DEF Answers, LiveUdatas
  <1>2. TornKept
    BY <1>1, HandlerTornKept
  <1>3. r \in UdataRecord /\ LiveRecord(r)
    BY <1>1, LiveObject DEF LiveRecord
  <1>4. CASE StaticFileReadSome(e)
    <2> DEFINE p == [r EXCEPT !.body = r.body + 1]
               q == [r EXCEPT !.body = FileLen, !.static_read_file_fd = None]
    <2>1. heap' = [heap EXCEPT ![u] = p] \/ heap' = Respond(u, [heap EXCEPT ![u] = q])
      BY <1>1, <1>4 DEF StaticFileReadSome, TypeOK
    <2>2. p.st = "live" /\ SameTurn(r, p)
      BY <1>3 DEF LiveRecord, UdataRecord, SameTurn
    <2>3. LiveRecord(q) /\ SameTurn(r, q)
      BY <1>3, ServerAssumption, FileLen \in 0 .. FileLen
      DEF LiveRecord, UdataRecord, SameTurn, FdOrNone
    <2> HIDE DEF p, q
    <2>4. Proceeds(r, heap'[u]) /\ \A v \in Udatas \ {u} : heap'[v] = heap[v]
      BY <1>1, <2>1, <2>2, <2>3, GoesOnQuietly, GoesOnResponding
    <2> QED
      BY <1>1, <1>2, <2>4, ProgressStays
  <1>5. CASE UNCHANGED heap
    BY <1>1, <1>2, <1>5, HeapStays
  <1> QED
    BY <1>4, <1>5 DEF StaticFileReadEvent, TransferFails

LEMMA FileWriteTurns ==
  ASSUME TypeOK, Orderly, Accounts, Turns, NEW e, FileWriteEvent(e)
  PROVE  Turns'
  <1> DEFINE u == e.udata
             r == heap[u]
  <1>1. /\ e \in event_list /\ u \in LiveUdatas /\ u \in Udatas
        /\ r.m_type = "STATIC_FILE" /\ UNCHANGED conn
    BY FileWriteEffect DEF Answers, LiveUdatas
  <1>2. TornKept
    BY <1>1, HandlerTornKept
  <1>3. r \in UdataRecord /\ LiveRecord(r)
    BY <1>1, LiveObject DEF LiveRecord
  <1>4. CASE FileWriteSome(e)
    <2>1. PICK k \in 1 .. BodyLen - r.m_file_write_offset :
            LET s == [heap EXCEPT ![u].m_file_write_offset = r.m_file_write_offset + k] IN
            heap' = s \/ heap' = Respond(u, [s EXCEPT ![u].static_write_file_fd = None])
      BY <1>4 DEF FileWriteSome
    <2> DEFINE w == r.m_file_write_offset + k
               p == [r EXCEPT !.m_file_write_offset = w]
               q == [r EXCEPT !.m_file_write_offset = w, !.static_write_file_fd = None]
    <2>2. w \in 0 .. BodyLen
      BY <1>3, ServerAssumption DEF UdataRecord
    <2>3. heap' = [heap EXCEPT ![u] = p] \/ heap' = Respond(u, [heap EXCEPT ![u] = q])
      BY <1>1, <2>1 DEF TypeOK
    <2> HIDE DEF w
    <2>4. p.st = "live" /\ SameTurn(r, p)
      BY <1>3 DEF LiveRecord, UdataRecord, SameTurn
    <2>5. LiveRecord(q) /\ SameTurn(r, q)
      BY <1>3, <2>2 DEF LiveRecord, UdataRecord, SameTurn, FdOrNone
    <2> HIDE DEF p, q
    <2>6. Proceeds(r, heap'[u]) /\ \A v \in Udatas \ {u} : heap'[v] = heap[v]
      BY <1>1, <2>3, <2>4, <2>5, GoesOnQuietly, GoesOnResponding
    <2> QED
      BY <1>1, <1>2, <2>6, ProgressStays
  <1>5. CASE UNCHANGED heap
    BY <1>1, <1>2, <1>5, HeapStays
  <1> QED
    BY <1>4, <1>5 DEF FileWriteEvent, TransferFails

LEMMA PipeWriteTurns ==
  ASSUME TypeOK, Orderly, Accounts, Turns, NEW e, PipeWriteEvent(e)
  PROVE  Turns'
  <1> DEFINE u == e.udata
             r == heap[u]
  <1>1. /\ e \in event_list /\ u \in LiveUdatas /\ u \in Udatas /\ UNCHANGED conn
    BY PipeWriteEffect DEF Shuts, LiveUdatas
  <1>2. TornKept
    BY <1>1, HandlerTornKept
  <1>3. r \in UdataRecord /\ LiveRecord(r)
    BY <1>1, LiveObject DEF LiveRecord
  <1>4. CASE PipeWriteSome(e)
    <2>1. PICK k \in 1 .. BodyLen - r.m_file_write_offset :
            LET s == [heap EXCEPT ![u].m_file_write_offset = r.m_file_write_offset + k] IN
            heap' = s \/ heap' = [s EXCEPT ![u].m_write_pipe_fd = None]
      BY <1>4 DEF PipeWriteSome
    <2> DEFINE w == r.m_file_write_offset + k
               p == [r EXCEPT !.m_file_write_offset = w]
               q == [r EXCEPT !.m_file_write_offset = w, !.m_write_pipe_fd = None]
    <2>2. heap' = [heap EXCEPT ![u] = p] \/ heap' = [heap EXCEPT ![u] = q]
      BY <1>1, <2>1 DEF TypeOK
    <2> HIDE DEF w
    <2>3. p.st = "live" /\ SameTurn(r, p) /\ q.st = "live" /\ SameTurn(r, q)
      BY <1>3 DEF LiveRecord, UdataRecord, SameTurn
    <2> HIDE DEF p, q
    <2>4. Proceeds(r, heap'[u]) /\ \A v \in Udatas \ {u} : heap'[v] = heap[v]
      BY <1>1, <2>2, <2>3, GoesOnQuietly
    <2> QED
      BY <1>1, <1>2, <2>4, ProgressStays
  <1>5. CASE UNCHANGED heap
    BY <1>1, <1>2, <1>5, HeapStays
  <1> QED
    BY <1>4, <1>5 DEF PipeWriteEvent, PipeWriteNothing, TransferFails

LEMMA PipeReapedTurns ==
  ASSUME TypeOK, Accounts, Turns, PipeReadReaped
  PROVE  Turns'
  <1> DEFINE u == cur.udata
             r == heap[u]
             f == cur.ident
             s == <<Add(r.m_client_sock, "WRITE", u), Delete(r.m_child_pid, "TIMER")>>
  <1>1. /\ u \in LiveUdatas /\ u \in Udatas /\ PipeShape(r) /\ UNCHANGED event_list
        /\ Answers(u, {f}, s)
    BY PipeReapedEffect DEF LiveUdatas
  <1>2. /\ UNCHANGED <<conn, m_fd_set>> /\ {f} \subseteq Private(r)
        /\ \A g \in Fds : fdt'[g] = IF g \in {f} THEN FreeEntry ELSE fdt[g]
    BY <1>1 DEF Answers
  <1>3. SocketsStay
    BY <1>1, <1>2, FreedSocketsStay
  <1>4. TornKept
    BY <1>1, <1>2, <1>3, TornStays DEF SocketsStay, Is, TypeOK
  <1>5. CASE PipeChildSignaled(u)
    BY <1>2, <1>4, <1>5, HeapStays DEF PipeChildSignaled
  <1>6. CASE PipeChildExited(u, f)
    <2> DEFINE q == [r EXCEPT !.m_read_pipe_fd = None, !.m_write_pipe_fd = None,
                              !.m_child_pid = None]
    <2>1. heap' = Respond(u, [heap EXCEPT ![u] = q])
      BY <1>1, <1>6 DEF PipeChildExited, TypeOK
    <2>2. r \in UdataRecord /\ LiveRecord(r)
      BY <1>1, LiveObject DEF LiveRecord
    <2>3. LiveRecord(q) /\ SameTurn(r, q)
      BY <2>2 DEF LiveRecord, UdataRecord, SameTurn, FdOrNone, PidOrNone
    <2> HIDE DEF q
    <2>4. r.m_type # "CLIENT"
      BY <1>1 DEF PipeShape
    <2>5. Proceeds(r, heap'[u]) /\ \A v \in Udatas \ {u} : heap'[v] = heap[v]
      BY <1>1, <2>1, <2>3, <2>4, GoesOnResponding
    <2> QED
      BY <1>1, <1>2, <1>4, <2>5, ProgressStays
  <1> QED
    BY <1>5, <1>6 DEF PipeReadReaped

(***************************************************************************)
(* clearUdata.                                                             *)
(***************************************************************************)
LEMMA FreedTurns ==
  ASSUME TypeOK, Orderly, Accounts, Turns, NEW u \in LiveUdatas, NEW s, Frees(u, s),
         heap[u].m_client_sock \in m_fd_set, UNCHANGED <<conn, event_list>>,
         event_list = {}
  PROVE  Turns'
  <1>1. /\ UNCHANGED m_fd_set /\ heap'[u].st = "freed"
        /\ \A v \in Udatas \ {u} : heap'[v] = heap[v]
        /\ \A f \in Fds : fdt'[f] = IF f \in Private(heap[u]) THEN FreeEntry ELSE fdt[f]
    BY DEF Frees
  <1>2. SocketsStay
    BY <1>1, FreedSocketsStay
  <1>3. TornKept
    BY <1>1, <1>2, TornStays DEF SocketsStay, Is, TypeOK
  <1>4. PICK d \in Conns : d = heap[u].conn /\ TornDown(d)'
    <2>1. PICK d \in Conns : /\ d = heap[u].conn
                             /\ fdt[heap[u].m_client_sock] = SockEntry(d)
      BY OwnedSocket
    <2>2. TornDown(d)
      BY <2>1 DEF TornDown
    <2> QED
      BY <1>3, <2>1, <2>2 DEF TornKept
  <1>5. ASSUME NEW c \in Conns
        PROVE  Undisturbed(c)
    <2>1. \A v \in Udatas : heap'[v].st = "live" /\ heap'[v].conn = c =>
            Proceeds(heap[v], heap'[v])
      BY <1>1 DEF Proceeds, SameMessage
    <2>2. ASSUME NEW v \in Udatas, Serving(v, c)
          PROVE  Serving(v, c)' \/ TornDown(c)'
      <3>1. CASE v = u
        BY <1>4, <2>2, <3>1 DEF Serving
      <3>2. CASE v # u
        BY <1>1, <2>2, <3>2 DEF Serving, LiveUdatas
      <3> QED
        BY <3>1, <3>2
    <2> QED
      BY <1>3, <2>1, <2>2 DEF Undisturbed, TornKept
  <1> QED
    BY <1>5, TurnsStay

LEMMA ClearedTurns ==
  ASSUME TypeOK, Accounts, Turns, NEW f \in m_fd_set, ClearSocket(f)
  PROVE  Turns'
  <1> DEFINE c == fdt[f].of
  <1>1. /\ f \in Fds /\ c \in Conns /\ HasLeft(c) /\ fdt[f].kind = "sock"
        /\ UNCHANGED <<heap, event_list>> /\ event_list = {}
        /\ \A g \in Fds : fdt'[g] = IF g = f THEN FreeEntry ELSE fdt[g]
        /\ \A d \in Conns : conn'[d].st = IF d = c THEN "closed" ELSE conn[d].st
        /\ m_fd_set' = m_fd_set \ {f}
    BY ClearSocketEffect
  <1>2. \A d \in Conns : /\ conn'[d].sent = conn[d].sent
                         /\ conn'[d].rcvd = conn[d].rcvd
                         /\ conn'[d].out = conn[d].out
    <2>1. PICK F : Close(F)
      BY DEF ClearSocket
    <2> SUFFICES ASSUME NEW d \in Conns
                 PROVE  /\ conn'[d].sent = conn[d].sent /\ conn'[d].rcvd = conn[d].rcvd
                        /\ conn'[d].out = conn[d].out
      OBVIOUS
    <2>2. conn'[d] = conn[d]
            \/ conn'[d] = [conn[d] EXCEPT !.st = "closed", !.full = FALSE]
      BY <2>1 DEF Close
    <2>3. conn[d] \in ConnRecord
      BY DEF TypeOK
    <2> QED
      BY <2>2, <2>3 DEF ConnRecord
  <1>3. TornKept
    <2> SUFFICES ASSUME NEW d \in Conns, TornDown(d)
                 PROVE  TornDown(d)'
      BY DEF TornKept
    <2>1. CASE d = c
      BY <1>1, <2>1 DEF TornDown
    <2>2. CASE d # c /\ conn[d].st = "closed"
      BY <1>1, <2>2 DEF TornDown
    <2>3. CASE d # c /\ conn[d].st # "closed"
      <3>1. PICK g \in m_fd_set : fdt[g] = SockEntry(d)
        BY <2>3 DEF TornDown
      <3>2. g # f /\ g \in Fds
        BY <2>3, <3>1 DEF SockEntry, TypeOK
      <3> QED
        BY <1>1, <3>1, <3>2 DEF TornDown
    <2> QED
      BY <2>1, <2>2, <2>3
  <1> QED
    BY <1>1, <1>2, <1>3, HeapStays

(***************************************************************************)
(* Every step.                                                             *)
(***************************************************************************)
LEMMA HandleTurns ==
  ASSUME TypeOK, Orderly, Accounts, Turns, NEW e, Handle(e)
  PROVE  Turns'
  <1>1. CASE ServerReadEvent(e)
    <2>1. event_list # {}
      BY <1>1 DEF ServerReadEvent, Dispatch
    <2>2. CASE Accept
      BY <2>1, <2>2, AcceptTurns
    <2>3. CASE UNCHANGED <<heap, conn>>
      BY <2>1, <2>3, HandlerTornKept, HeapStays
    <2> QED
      BY <1>1, <2>2, <2>3 DEF ServerReadEvent
  <1>2. CASE PipeReadEvent(e)
    <2>1. UNCHANGED <<heap, conn>> /\ event_list # {}
      BY <1>2, PipeReadEffect
    <2> QED
      BY <2>1, HandlerTornKept, HeapStays
  <1>3. CASE BrokenPipe(e)
    <2>1. UNCHANGED <<heap, conn>> /\ event_list # {}
      BY <1>3 DEF BrokenPipe, Dispatch
    <2> QED
      BY <2>1, HandlerTornKept, HeapStays
  <1> QED
    BY <1>1, <1>2, <1>3, ClientReadTurns, ClientWriteTurns, FileReadTurns,
       FileWriteTurns, PipeWriteTurns, NoTimeout DEF Handle

LEMMA ClientTurns ==
  ASSUME TypeOK, InTurn, Accounts, Turns, NEW c \in Conns, Client(c)
  PROVE  Turns'
  <1>1. UNCHANGED <<heap, m_fd_set, event_list, fdt>>
    BY DEF Client, Connect, Send, Drain, Fin, Reset, Abort, ServerUnchanged
  <1>2. CASE ~Send(c)
    <2>1. conn \in [Conns -> ConnRecord] /\ conn[c] \in ConnRecord
      BY DEF TypeOK
    <2>2. \A d \in Conns \ {c} : conn'[d] = conn[d]
      BY <1>2, <2>1 DEF Client, Connect, Drain, Fin, Reset, Abort
    <2>3. /\ conn'[c].sent = conn[c].sent /\ conn'[c].rcvd = conn[c].rcvd
          /\ conn'[c].out = conn[c].out
          /\ conn[c].st = "closed" => conn'[c].st = "closed"
          /\ conn'[c].st \in {"idle", "backlog"} => conn[c].st \in {"idle", "backlog"}
      <3>1. CASE Connect(c)
        BY <2>1, <3>1 DEF Connect, ConnRecord
      <3>2. CASE Drain(c)
        BY <2>1, <3>2 DEF Drain, ConnRecord
      <3>3. CASE Fin(c)
        BY <2>1, <3>3 DEF Fin, ConnRecord
      <3>4. CASE Reset(c)
        BY <2>1, <3>4 DEF Reset, ConnRecord
      <3>5. CASE Abort(c)
        BY <2>1, <3>5 DEF Abort, ConnRecord
      <3> QED
        BY <1>2, <3>1, <3>2, <3>3, <3>4, <3>5 DEF Client
    <2>4. TornKept
      BY <1>1, <2>2, <2>3, TornStays DEF TypeOK
    <2> QED
      BY <1>1, <2>2, <2>3, <2>4, HeapStays
  <1> QED
    BY <1>2, SendTurns

LEMMA StillTurns ==
  ASSUME TypeOK, Accounts, Turns, UNCHANGED <<heap, conn>>,
         \/ UNCHANGED <<m_fd_set, event_list, fdt>>
         \/ m_fd_set = {}
  PROVE  Turns'
  <1>1. TornKept
    BY DEF TornKept, TornDown
  <1> QED
    BY <1>1, HeapStays

LEMMA ServerStepTurns ==
  ASSUME TypeOK, Orderly, Accounts, Turns, ServerStep
  PROVE  Turns'
  <1>1. CASE ApplyChange
    BY <1>1, StillTurns DEF ApplyChange
  <1>2. CASE Poll
    <2>1. UNCHANGED <<heap, conn>> /\ m_fd_set = {}
      BY <1>2 DEF Poll, Accounts, Phases
    <2> QED
      BY <2>1, StillTurns
  <1>3. CASE EndBatch
    BY <1>3, StillTurns DEF EndBatch
  <1>4. ASSUME NEW f \in m_fd_set, NEW u \in Udatas, Clear(f, u)
        PROVE  Turns'
    <2>1. CASE ClearUdata(f, u)
      BY <2>1, ClearUdataEffect, FreedTurns
    <2>2. CASE ClearKill(f, u)
      BY <2>2, StillTurns DEF ClearKill, Clearing
    <2> QED
      BY <1>4, <2>1, <2>2 DEF Clear
  <1>5. CASE AcceptReturns
    BY <1>5, AcceptTurns DEF AcceptReturns, Wake
  <1>6. CASE ClearReaped
    <2> DEFINE u == cur.udata
               s == <<Delete(heap[u].m_child_pid, "TIMER")>>
    <2>1. /\ u \in LiveUdatas /\ heap[u].m_client_sock \in m_fd_set
          /\ Frees(u, s) /\ UNCHANGED <<conn, event_list>>
      BY <1>6, ClearReapedEffect
    <2>2. event_list = {}
      BY <1>6 DEF ClearReaped, Wake, Accounts, Phases
    <2> QED
      BY <2>1, <2>2, FreedTurns
  <1> QED
    BY <1>1, <1>2, <1>3, <1>4, <1>5, <1>6, HandleTurns, ClearedTurns, PipeReapedTurns,
       NoFreedObject, NoTimeout DEF ServerStep

LEMMA TurnsKept ==
  ASSUME TypeOK, InTurn, Accounts, Turns, [Next]_vars
  PROVE  Turns'
  <1>1. ASSUME NEW p \in Pids, Child(p)
        PROVE  UNCHANGED <<heap, conn, m_fd_set, event_list, fdt>>
    BY <1>1
    DEF Child, ChildReads, ChildWrites, ChildClosesStdout, ChildExits, ChildCrashes,
        ChildDies, ProcessUnchanged, ServerUnchanged
  <1>2. CASE UNCHANGED vars
    BY <1>2, StillTurns DEF vars
  <1> QED
    BY <1>1, <1>2, StillTurns, ServerStepTurns, ClientTurns DEF Next, InTurn

LEMMA InitTurns ==
  ASSUME Init
  PROVE  Turns
  <1> SUFFICES ASSUME NEW c \in Conns
               PROVE  0 \in RequestNo /\ Turn(c, 0)
    BY DEF Turns
  <1>1. /\ conn[c].st = "idle" /\ conn[c].sent = 0 /\ conn[c].rcvd = 0
        /\ conn[c].out = <<>> /\ Len(conn[c].out) = 0
    BY DEF Init
  <1>2. \A u \in Udatas : ~Reader(u, c) /\ ~Serving(u, c)
    BY DEF Init, UnusedUdata, Reader, Serving, LiveUdatas
  <1>3. 0 \in RequestNo /\ Segments \in Nat \ {0} /\ ResponseLen \in Nat \ {0}
    BY ServerAssumption DEF RequestNo
  <1>4. 0 * Segments = 0 /\ (0 + 1) * Segments = Segments /\ 0 * ResponseLen = 0
    BY <1>3
  <1>5. OneEach(c) /\ AllAnswered(c, 0) /\ Ordered(c)
    BY <1>1, <1>2, <1>4 DEF OneEach, AllAnswered, Ordered
  <1>6. Arriving(c, 0)
    BY <1>1, <1>3, <1>4 DEF Arriving
  <1> QED
    BY <1>2, <1>3, <1>5, <1>6 DEF Turn

\* Every client takes its turns: what it sent, what was received, which objects it
\* has and what it was given agree on the number of the request in progress.
THEOREM TurnsAlwaysTaken ==
  ASSUME InTurn
  PROVE  Spec => []Turns
  <1>1. Init => Turns
    BY InitTurns
  <1>2. TypeOK /\ Accounts /\ Turns /\ [Next]_vars => Turns'
    BY TurnsKept
  <1>3. Spec => []TypeOK /\ []Accounts
    BY ServerTypeCorrect, AccountsAlwaysKept DEF InTurn
  <1> QED
    BY <1>1, <1>2, <1>3, PTL DEF Spec

\* Clients that wait for their responses are given them in the order of their
\* requests, each from its first byte to its last (clientWriteEvent, client.cpp:107).
THEOREM AlwaysInOrder ==
  ASSUME InTurn
  PROVE  Spec => []InOrder
  <1>1. Turns => InOrder
    BY DEF Turns, Turn, Ordered, InOrder
  <1> QED
    BY <1>1, TurnsAlwaysTaken, PTL

(***************************************************************************)
(* What requests in progress wait for.                                     *)
(***************************************************************************)
\* In heap h, u has a request in progress that waits for this filter.
Awaits(h, u, id, filter) == Mine(h, u, id, filter) /\ h[u].req # 0

WokenEach ==
  \A u, id, filter : Awaits(heap, u, id, filter) =>
    Registers(knotes, change_list, id, filter, u)

LEMMA WokenParts == TypeOK => (Woken <=> WokenEach)
  <1> SUFFICES ASSUME TypeOK
               PROVE  Woken <=> WokenEach
    OBVIOUS
  <1>1. ASSUME Woken, NEW u, NEW id, NEW filter, Awaits(heap, u, id, filter)
        PROVE  Registers(knotes, change_list, id, filter, u)
    <2>1. /\ u \in LiveUdatas /\ heap[u].req # 0 /\ id # None
          /\ <<id, filter>> \in Filters(heap[u])
      BY <1>1 DEF Awaits, Mine, LiveUdatas
    <2>2. <<id, filter>>[1] = id /\ <<id, filter>>[2] = filter
      OBVIOUS
    <2> QED
      BY <1>1, <2>1, <2>2 DEF Woken
  <1>2. ASSUME WokenEach, NEW u \in LiveUdatas, heap[u].req # 0,
               NEW a \in Filters(heap[u]), a[1] # None
        PROVE  Registers(knotes, change_list, a[1], a[2], u)
    <2>1. heap[u].m_type \in {"CLIENT", "PIPE", "STATIC_FILE"} /\ u \in Udatas
          /\ heap[u].st = "live"
      BY DEF TypeOK, UdataRecord, LiveUdatas
    <2>2. a = <<a[1], a[2]>>
      BY <2>1 DEF Filters
    <2>3. Awaits(heap, u, a[1], a[2])
      BY <1>2, <2>1, <2>2 DEF Awaits, Mine
    <2> QED
      BY <1>2, <2>3 DEF WokenEach
  <1> QED
    BY <1>1, <1>2 DEF Woken, WokenEach

LEMMA WokenPartsPrime == TypeOK' => (Woken' <=> WokenEach')
  BY WokenParts, PTL

\* Nobody else waits for the filter of a request in progress.
AwaitsApart ==
  \A u, v, id, filter :
    Awaits(heap, u, id, filter) /\ Mine(heap, v, id, filter) => u = v

OneForEach == \A c \in Conns : OneEach(c)

\* What an object that waits for a filter is to its descriptor or child.
LEMMA MineOf ==
  ASSUME TypeOK, Objects, NEW u, NEW id, NEW filter, Mine(heap, u, id, filter)
  PROVE  /\ u \in LiveUdatas /\ u \in Udatas /\ LiveRecord(heap[u])
         /\ \/ filter = "TIMER" /\ heap[u].m_child_pid = id /\ id # None
            \/ filter # "TIMER" /\ id \in Fds /\ fdt[id].kind = "sock"
                                /\ fdt[id].of = heap[u].conn
                                /\ filter = IF heap[u].req = 0 THEN "READ" ELSE "WRITE"
            \/ filter # "TIMER" /\ id \in Fds /\ fdt[id].kind \in {"rfile", "wfile"}
                                /\ fdt[id].of = u
            \/ filter # "TIMER" /\ id \in Fds /\ fdt[id].kind \in {"piper", "pipew"}
                                /\ fdt[id].of = heap[u].m_child_pid
                                /\ heap[u].m_child_pid # None
  <1>1. u \in LiveUdatas /\ u \in Udatas /\ LiveRecord(heap[u]) /\ InShape(heap[u]) /\ Owns(u)
    BY LiveObject, ObjectsParts DEF Mine, Objects, LiveUdatas
  <1>2. id # None /\ <<id, filter>> \in Filters(heap[u])
    BY DEF Mine
  <1>3. CASE ClientShape(heap[u])
    <2>1. id = heap[u].m_client_sock
          /\ filter = IF heap[u].req = 0 THEN "READ" ELSE "WRITE"
      BY <1>2, <1>3 DEF ClientShape, Filters
    <2>2. id \in Fds /\ fdt[id] = SockEntry(heap[u].conn)
      BY <1>1, <2>1, SocketsOwned
    <2> QED
      BY <1>1, <2>1, <2>2 DEF SockEntry
  <1>4. CASE FileShape(heap[u])
    <2>1. \/ id = heap[u].static_read_file_fd /\ filter = "READ"
          \/ id = heap[u].static_write_file_fd /\ filter = "WRITE"
      BY <1>2, <1>4 DEF FileShape, Filters
    <2>2. fdt[id].kind \in {"rfile", "wfile"} /\ fdt[id].of = u
      BY <1>1, <1>2, <2>1 DEF Owns, Is, OutFileEntry
    <2>3. id \in Fds
      BY <1>2, <1>4, <2>1 DEF FileShape
    <2> QED
      BY <1>1, <2>1, <2>2, <2>3
  <1>5. CASE PipeShape(heap[u])
    <2>0. heap[u].m_child_pid # None
      BY <1>5, Positive DEF PipeShape, None
    <2>1. \/ id = heap[u].m_read_pipe_fd /\ filter = "READ"
          \/ id = heap[u].m_write_pipe_fd /\ filter = "WRITE"
          \/ id = heap[u].m_child_pid /\ filter = "TIMER"
      BY <1>2, <1>5 DEF PipeShape, Filters
    <2>2. CASE filter = "TIMER"
      BY <1>1, <2>0, <2>1, <2>2
    <2>3. CASE filter # "TIMER"
      <3>1. fdt[id] = PipeEntry(IF filter = "READ" THEN "piper" ELSE "pipew",
                                heap[u].m_child_pid)
        BY <1>1, <1>2, <2>1, <2>3 DEF Owns
      <3>2. id \in Fds
        BY <1>2, <1>5, <2>1, <2>3 DEF PipeShape
      <3> QED
        BY <1>1, <2>0, <2>3, <3>1, <3>2 DEF PipeEntry
    <2> QED
      BY <2>2, <2>3
  <1> QED
    BY <1>1, <1>3, <1>4, <1>5 DEF InShape

LEMMA AwaitsOnce == TypeOK /\ Objects /\ OneForEach => AwaitsApart
  <1> SUFFICES ASSUME TypeOK, Objects, OneForEach, NEW u, NEW v, NEW id, NEW filter,
                      Awaits(heap, u, id, filter), Mine(heap, v, id, filter)
               PROVE  u = v
    BY DEF AwaitsApart
  <1>1. Mine(heap, u, id, filter) /\ heap[u].req # 0
    BY DEF Awaits
  <1>2. /\ u \in LiveUdatas /\ u \in Udatas /\ v \in LiveUdatas /\ v \in Udatas
        /\ LiveRecord(heap[u])
    BY <1>1, MineOf
  <1>3. CASE heap[u].m_child_pid # None /\ heap[u].m_child_pid = heap[v].m_child_pid
    BY <1>2, <1>3 DEF Objects, ChildrenApart
  <1>4. CASE heap[u].conn = heap[v].conn /\ heap[v].req # 0
    <2>1. PICK c \in Conns : heap[u].conn = c
      BY <1>2 DEF LiveRecord
    <2>2. Serving(u, c) /\ Serving(v, c)
      BY <1>1, <1>2, <1>4, <2>1 DEF Serving
    <2> QED
      BY <1>2, <2>1, <2>2 DEF OneForEach, OneEach
  <1>5. \/ heap[u].m_child_pid # None /\ heap[u].m_child_pid = heap[v].m_child_pid
        \/ heap[u].conn = heap[v].conn /\ heap[v].req # 0
        \/ u = v
    <2>1. CASE filter = "TIMER"
      <3>1. heap[u].m_child_pid = id /\ id # None /\ heap[v].m_child_pid = id
        BY <1>1, <2>1, MineOf
      <3> QED
        BY <3>1
    <2>2. CASE filter # "TIMER"
      <3>1. \/ fdt[id].kind = "sock" /\ fdt[id].of = heap[u].conn
                                     /\ filter = "WRITE"
            \/ fdt[id].kind \in {"rfile", "wfile"} /\ fdt[id].of = u
            \/ fdt[id].kind \in {"piper", "pipew"}
                 /\ fdt[id].of = heap[u].m_child_pid /\ heap[u].m_child_pid # None
        BY <1>1, <2>2, MineOf
      <3>2. \/ fdt[id].kind = "sock" /\ fdt[id].of = heap[v].conn
                 /\ filter = IF heap[v].req = 0 THEN "READ" ELSE "WRITE"
            \/ fdt[id].kind \in {"rfile", "wfile"} /\ fdt[id].of = v
            \/ fdt[id].kind \in {"piper", "pipew"}
                 /\ fdt[id].of = heap[v].m_child_pid /\ heap[v].m_child_pid # None
        BY <2>2, MineOf
      <3> QED
        BY <3>1, <3>2
    <2> QED
      BY <2>1, <2>2
  <1> QED
    BY <1>3, <1>4, <1>5

LEMMA AwaitsOncePrime == TypeOK' /\ Objects' /\ OneForEach' => AwaitsApart'
  BY AwaitsOnce, PTL

LEMMA TurnsApart == Turns => OneForEach
  BY DEF Turns, Turn, OneForEach

LEMMA TurnsApartPrime == Turns' => OneForEach'
  BY TurnsApart, PTL

(***************************************************************************)
(* Steps that leave what requests in progress wait for registered.         *)
(***************************************************************************)
\* Of the numbers up to 4 some is the last.
LEMMA LastOfFew ==
  ASSUME NEW n \in 0 .. 4, NEW S, S \subseteq 1 .. n, S # {}
  PROVE  \E i \in S : \A j \in S : j <= i
  <1>1. S \subseteq {1, 2, 3, 4}
    OBVIOUS
  <1>2. CASE 4 \in S
    BY <1>1, <1>2
  <1>3. CASE 4 \notin S /\ 3 \in S
    BY <1>1, <1>3
  <1>4. CASE 4 \notin S /\ 3 \notin S /\ 2 \in S
    BY <1>1, <1>4
  <1>5. CASE 4 \notin S /\ 3 \notin S /\ 2 \notin S
    <2>1. \A j \in S : j = 1
      BY <1>1, <1>5
    <2>2. 1 \in S
      BY <2>1
    <2> QED
      BY <2>1, <2>2
  <1> QED
    BY <1>2, <1>3, <1>4, <1>5

\* Every change of s for a filter is one that adds it for u.
Adds(s, id, filter, u) ==
  \A c \in ChangesOf(s) :
    c.ident = id /\ c.filter = filter => c = Add(id, filter, u)

LEMMA RegistersAdded ==
  ASSUME NEW K, NEW l \in Seq(Change), NEW s \in Seq(Change), Len(s) \in 0 .. 4,
         NEW id, NEW filter, NEW u, KeyIn(s, [ident |-> id, filter |-> filter]),
         Adds(s, id, filter, u)
  PROVE  Registers(K, l \o s, id, filter, u)
  <1> DEFINE k == [ident |-> id, filter |-> filter, udata |-> u]
             S == {j \in 1 .. Len(s) : SameKey(s[j], k)}
  <1>1. S # {} /\ S \subseteq 1 .. Len(s)
    BY DEF KeyIn, SameKey
  <1>2. PICK i \in S : \A j \in S : j <= i
    <2> HIDE DEF S
    <2> QED
      BY <1>1, LastOfFew
  <1>3. i \in 1 .. Len(s) /\ s[i] = Add(id, filter, u)
    BY <1>2 DEF Adds, ChangesOf, SameKey
  <1>4. /\ Len(l) + i \in 1 .. Len(l \o s) /\ (l \o s)[Len(l) + i] = Add(id, filter, u)
        /\ Len(l) \in Nat
    BY <1>3, Appended
  <1>5. ASSUME NEW j \in 1 .. Len(l \o s), j >= (Len(l) + i) + 1, SameKey((l \o s)[j], k)
        PROVE  FALSE
    <2>1. j \notin 1 .. Len(l)
      BY <1>3, <1>4, <1>5
    <2>2. PICK m \in 1 .. Len(s) : j = Len(l) + m
      BY <1>5, <2>1, Appended
    <2>3. (l \o s)[j] = s[m]
      BY <2>2, Appended
    <2>4. m \in S
      BY <1>5, <2>3
    <2>5. m <= i
      BY <1>2, <2>4
    <2> HIDE DEF S
    <2> QED
      BY <1>3, <1>4, <1>5, <2>2, <2>5
  <1>6. ~Overruled(l \o s, k, (Len(l) + i) + 1)
    BY <1>5 DEF Overruled
  <1> QED
    BY <1>4, <1>6 DEF Registers

\* Whoever waits for a filter after the changes s did so before or has it added,
\* and none of s deletes it.
Wakes(s) ==
  /\ Len(s) \in 0 .. 4
  /\ \A u, id, filter : Awaits(heap', u, id, filter) =>
       /\ Awaits(heap, u, id, filter) \/ Add(id, filter, u) \in ChangesOf(s)
       /\ \A c \in ChangesOf(s) :
            c.op = "DELETE" => ~(c.ident = id /\ c.filter = filter)

LEMMA WokenKept ==
  ASSUME TypeOK, Woken, TypeOK', Objects', OneForEach', NEW s, NEW X,
         Pushes(s, X), Wakes(s)
  PROVE  Woken'
  <1> SUFFICES ASSUME NEW u, NEW id, NEW filter, Awaits(heap', u, id, filter)
               PROVE  Registers(knotes', change_list', id, filter, u)
    BY WokenPartsPrime DEF WokenEach
  <1>1. /\ change_list \in Seq(Change) /\ s \in Seq(Change)
        /\ change_list' = change_list \o s /\ Len(s) \in 0 .. 4
    BY DEF TypeOK, Pushes, Wakes
  <1>2. Mine(heap', u, id, filter)
    BY DEF Awaits
  <1>3. filter # "TIMER" => id \in Fds /\ id \notin X
    <2>1. filter # "TIMER" => id \in Fds \ FreeFds'
      BY <1>2, MineOpenPrime DEF FiltersOpen
    <2> QED
      BY <2>1 DEF Pushes
  <1>4. ASSUME NEW c \in ChangesOf(s), c.ident = id, c.filter = filter
        PROVE  c = Add(id, filter, u)
    <2>1. c \in Change /\ c.op \in {"ADD", "DELETE"}
      BY <1>1 DEF ChangesOf, Change
    <2>2. c.op = "ADD"
      BY <1>4, <2>1 DEF Wakes
    <2>3. Proper(heap', c)
      BY <2>2 DEF Pushes, ChangesOf
    <2>4. c.udata # ServerUdata
      <3>1. ServerUdata \notin Udatas /\ ListenFd \notin Fds
        BY Positive DEF ServerUdata, ListenFd
      <3> QED
        BY <1>3, <1>4, <2>1, <2>2, <3>1 DEF Change
    <2>5. Mine(heap', c.udata, id, filter)
      BY <1>4, <2>3, <2>4 DEF Proper
    <2>6. c.udata = u
      BY <2>5, AwaitsOncePrime DEF AwaitsApart
    <2> QED
      BY <1>4, <2>1, <2>2, <2>6 DEF Change, Add
  <1>5. CASE KeyIn(s, [ident |-> id, filter |-> filter])
    <2>1. Adds(s, id, filter, u)
      BY <1>4 DEF Adds
    <2> QED
      BY <1>1, <1>5, <2>1, RegistersAdded
  <1>6. CASE ~KeyIn(s, [ident |-> id, filter |-> filter])
    <2>1. Add(id, filter, u) \notin ChangesOf(s)
      BY <1>6, KeyInChanges DEF SameKey, Add
    <2>2. Awaits(heap, u, id, filter)
      BY <2>1 DEF Wakes
    <2>3. Registers(knotes, change_list, id, filter, u)
      BY <2>2, WokenParts DEF WokenEach
    <2> QED
      BY <1>3, <1>6, <2>3, RegistersStays
  <1> QED
    BY <1>5, <1>6

\* What a step starts from, and leads to.
Settled == TypeOK /\ Accounts /\ Turns

LEMMA SettledParts == Settled => TypeOK /\ Accounts /\ Objects /\ OneForEach /\ AwaitsApart
  BY TurnsApart, AwaitsOnce DEF Settled, Accounts

LEMMA SettledPartsPrime ==
  Settled' => TypeOK' /\ Accounts' /\ Objects' /\ OneForEach' /\ AwaitsApart'
  BY SettledParts, PTL

LEMMA WokenPushed ==
  ASSUME Settled, Woken, Settled', NEW s, NEW X, Pushes(s, X), Wakes(s)
  PROVE  Woken'
  BY SettledParts, SettledPartsPrime, WokenKept

\* A step about u, which leaves the other objects alone or makes readers of them.
LEMMA WakesOf ==
  ASSUME Settled, NEW u \in Udatas, NEW s, Len(s) \in 0 .. 4,
         \A v \in Udatas \ {u} : heap'[v] = heap[v] \/ heap'[v].req = 0,
         \A id, filter : Awaits(heap', u, id, filter) =>
           Awaits(heap, u, id, filter) \/ Add(id, filter, u) \in ChangesOf(s),
         \A c \in ChangesOf(s) : c.op = "DELETE" =>
           Mine(heap, u, c.ident, c.filter) /\ ~Awaits(heap', u, c.ident, c.filter)
  PROVE  Wakes(s)
  <1> SUFFICES ASSUME NEW v, NEW id, NEW filter, Awaits(heap', v, id, filter)
               PROVE  /\ \/ Awaits(heap, v, id, filter)
                         \/ Add(id, filter, v) \in ChangesOf(s)
                      /\ \A c \in ChangesOf(s) : c.op = "DELETE" =>
                           ~(c.ident = id /\ c.filter = filter)
    BY DEF Wakes
  <1>1. CASE v = u
    BY <1>1
  <1>2. CASE v # u
    <2>1. v \in Udatas /\ heap'[v].req # 0
      BY DEF Awaits, Mine
    <2>2. heap'[v] = heap[v]
      BY <1>2, <2>1
    <2>3. Awaits(heap, v, id, filter)
      BY <2>2 DEF Awaits, Mine
    <2>4. ~Mine(heap, u, id, filter)
      BY <1>2, <2>3, SettledParts DEF AwaitsApart
    <2> QED
      BY <2>3, <2>4
  <1> QED
    BY <1>1, <1>2

\* Neither objects nor filters change.
LEMMA StillWoken ==
  ASSUME Settled, Woken, Settled', \A u \in Udatas : SameObject(heap[u], heap'[u]),
         UNCHANGED <<change_list, knotes>>
  PROVE  Woken'
  <1> SUFFICES ASSUME NEW u, NEW id, NEW filter, Awaits(heap', u, id, filter)
               PROVE  Registers(knotes', change_list', id, filter, u)
    BY WokenPartsPrime, SettledPartsPrime DEF WokenEach
  <1>1. SameObject(heap[u], heap'[u]) /\ heap'[u].st = "live"
    BY DEF Awaits, Mine
  <1>2. Awaits(heap, u, id, filter)
    BY <1>1 DEF Awaits, Mine, Filters, SameObject
  <1>3. Registers(knotes, change_list, id, filter, u)
    BY <1>2, WokenParts, SettledParts DEF WokenEach
  <1> QED
    BY <1>3 DEF Registers, Overruled

LEMMA OnlyPause ==
  ASSUME UNCHANGED heap
  PROVE  \A u \in Udatas : SameObject(heap[u], heap'[u])
  BY DEF SameObject

LEMMA ApplyWoken ==
  ASSUME Settled, Woken, Settled', ApplyChange
  PROVE  Woken'
  <1> SUFFICES ASSUME NEW u, NEW id, NEW filter, Awaits(heap', u, id, filter)
               PROVE  Registers(knotes', change_list', id, filter, u)
    BY WokenPartsPrime, SettledPartsPrime DEF WokenEach
  <1>1. Awaits(heap, u, id, filter)
    BY DEF ApplyChange
  <1>2. Registers(knotes, change_list, id, filter, u)
    BY <1>1, WokenParts, SettledParts DEF WokenEach
  <1>3. filter = "TIMER" \/ id \in Fds \ FreeFds
    BY <1>1, MineOpen, SettledParts DEF FiltersOpen, Awaits
  <1>4. Registrable(Add(id, filter, u))
    BY <1>3 DEF Registrable, Add
  <1> QED
    BY <1>2, <1>4, RegistersApplied, SettledParts

\* A file or child is done: its object waits for its socket instead.
LEMMA AnswersWoken ==
  ASSUME Settled, Woken, Settled', GoesOn, NEW u, NEW X, NEW s, Answers(u, X, s),
         NEW e \in Batch, e.udata = u, X = {e.ident}, e.ident \in Fds,
         NEW D, D \in {{}, {Delete(heap[u].m_child_pid, "TIMER")}},
         heap[u].m_child_pid # None <=> D # {},
         ChangesOf(s) = {Add(heap[u].m_client_sock, "WRITE", u)} \cup D,
         Len(s) \in 0 .. 4
  PROVE  Woken'
  <1>1. TypeOK /\ Accounts /\ Objects
    BY SettledParts
  <1>2. Carries(s, X, e)
    BY <1>1, AnswersCarries
  <1>3. /\ u \in Udatas /\ u \in LiveUdatas /\ ClientShape(heap'[u])
        /\ SameRequest(heap[u], heap'[u]) /\ heap[u].req # 0
        /\ \A v \in Udatas \ {u} : heap'[v] = heap[v]
    BY DEF Answers, LiveUdatas
  <1>4. Filters(heap'[u]) = {<<heap[u].m_client_sock, "WRITE">>}
    BY <1>3 DEF Filters, ClientShape, SameRequest
  <1>5. ASSUME NEW id, NEW filter, Awaits(heap', u, id, filter)
        PROVE  Add(id, filter, u) \in ChangesOf(s) /\ filter = "WRITE"
    BY <1>4, <1>5 DEF Awaits, Mine
  <1>6. ASSUME NEW c \in ChangesOf(s), c.op = "DELETE"
        PROVE  Mine(heap, u, c.ident, c.filter) /\ ~Awaits(heap', u, c.ident, c.filter)
    <2>1. c = Delete(heap[u].m_child_pid, "TIMER") /\ heap[u].m_child_pid # None
      BY <1>6 DEF Add
    <2>2. c.ident = heap[u].m_child_pid /\ c.filter = "TIMER"
      BY <2>1 DEF Delete
    <2>3. PipeShape(heap[u])
      BY <1>1, <1>3, <2>1 DEF Objects, Shaped, ClientShape, FileShape
    <2>4. <<c.ident, c.filter>> \in Filters(heap[u])
      BY <2>2, <2>3 DEF PipeShape, Filters
    <2> QED
      BY <1>3, <1>5, <2>1, <2>2, <2>4 DEF Mine, LiveUdatas
  <1>7. Wakes(s)
    BY <1>3, <1>5, <1>6, WakesOf
  <1> QED
    BY <1>2, <1>7, WokenPushed DEF Carries

\* An object that is deleted takes its filters with it.
LEMMA FreesWakes ==
  ASSUME Settled, NEW u, NEW s, Frees(u, s), Len(s) \in 0 .. 4,
         \A c \in ChangesOf(s) : Mine(heap, u, c.ident, c.filter)
  PROVE  Wakes(s)
  <1>1. /\ u \in Udatas /\ \A id, filter : ~Awaits(heap', u, id, filter)
        /\ \A v \in Udatas \ {u} : heap'[v] = heap[v]
    BY DEF Frees, LiveUdatas, Awaits, Mine
  <1> QED
    BY <1>1, WakesOf

LEMMA OneChangeOf ==
  ASSUME NEW a
  PROVE  ChangesOf(<<a>>) = {a} /\ Len(<<a>>) \in 0 .. 4
  BY DEF ChangesOf

LEMMA NoneFew == Len(<<>>) \in 0 .. 4 /\ ChangesOf(<<>>) = {}
  BY DEF ChangesOf

(***************************************************************************)
(* Every step leaves what requests in progress wait for registered.        *)
(***************************************************************************)
\* What a request that is served waits for is added.
LEMMA ServedAdds ==
  ASSUME TypeOK, Accounts, NEW u, NEW n \in Udatas, NEW s, Serves(u, n, s)
  PROVE  /\ Len(s) \in 0 .. 3 /\ \A c \in ChangesOf(s) : c.op = "ADD"
         /\ \A a \in Filters(heap'[u]) : a[1] # None =>
              Add(a[1], a[2], u) \in ChangesOf(s)
  <1> DEFINE r == heap'[u]
             sock == heap[u].m_client_sock
  <1>1. /\ u \in Udatas /\ r.req # 0 /\ r.m_client_sock = sock
        /\ Served(u, sock, r, s)
    BY DEF Serves, LiveUdatas
  <1>2. \A id, filter : Add(id, filter, u).op = "ADD"
    BY DEF Add
  <1>3. CASE ServedInline(u, sock, r, s)
    <2>1. ChangesOf(s) = {Add(sock, "WRITE", u)} /\ Len(s) = 1
      BY <1>3 DEF ServedInline, ChangesOf
    <2>2. Filters(r) = {<<sock, "WRITE">>}
      BY <1>1, <1>3 DEF ServedInline, ClientShape, Filters
    <2> QED
      BY <1>2, <2>1, <2>2
  <1>4. CASE ServedFile(u, r, s)
    <2>1. FreeFds \subseteq Fds /\ None \notin Fds
      BY Positive DEF FreeFds
    <2>2. Filters(r) = {<<r.static_read_file_fd, "READ">>,
                        <<r.static_write_file_fd, "WRITE">>}
      BY <1>4 DEF ServedFile, FileShape, Filters
    <2>3. \/ /\ s = <<Add(r.static_read_file_fd, "READ", u)>>
             /\ r.static_write_file_fd = None
          \/ /\ s = <<Add(r.static_write_file_fd, "WRITE", u)>>
             /\ r.static_read_file_fd = None
      BY <1>4, <2>1 DEF ServedFile, FileShape
    <2>4. \/ /\ ChangesOf(s) = {Add(r.static_read_file_fd, "READ", u)}
             /\ Len(s) = 1 /\ r.static_write_file_fd = None
          \/ /\ ChangesOf(s) = {Add(r.static_write_file_fd, "WRITE", u)}
             /\ Len(s) = 1 /\ r.static_read_file_fd = None
      BY <2>3 DEF ChangesOf
    <2> QED
      BY <1>2, <2>2, <2>4
  <1>5. CASE ServedCgi(u, r, s)
    <2> DEFINE p == r.m_child_pid
               rfd == r.m_read_pipe_fd
               wfd == r.m_write_pipe_fd
               few == {Add(rfd, "READ", u), Add(p, "TIMER", u)}
    <2>1. /\ r.m_type = "PIPE" /\ rfd \in Fds /\ p \in Pids /\ wfd \in FdOrNone
          /\ s = CgiEvents(u, rfd, wfd, p)
      BY <1>5 DEF ServedCgi, PipeShape, FreeFds, FdOrNone
    <2>2. Filters(r) = {<<rfd, "READ">>, <<wfd, "WRITE">>, <<p, "TIMER">>}
      BY <2>1 DEF Filters
    <2>3. /\ Add(p, "TIMER", u) \in Change /\ Add(rfd, "READ", u) \in Change
          /\ Add(wfd, "WRITE", u) \in Change
      BY <1>1, <2>1, ChangeTypes DEF FdOrNone, PidOrNone
    <2>4. <<Add(rfd, "READ", u), Add(p, "TIMER", u)>> \in Seq(Change)
          /\ ChangesOf(<<Add(rfd, "READ", u), Add(p, "TIMER", u)>>) = few
          /\ Len(<<Add(rfd, "READ", u), Add(p, "TIMER", u)>>) = 2
      BY <2>3, ChangesOfTwo
    <2>5. CASE wfd = None
      <3>1. s = <<>> \o <<Add(rfd, "READ", u), Add(p, "TIMER", u)>>
        BY <2>1, <2>5 DEF CgiEvents
      <3>2. s = <<Add(rfd, "READ", u), Add(p, "TIMER", u)>>
        BY <2>4, <3>1
      <3> QED
        BY <1>2, <2>2, <2>4, <2>5, <3>2
    <2>6. CASE wfd # None
      <3>1. s = <<Add(wfd, "WRITE", u)>> \o <<Add(rfd, "READ", u), Add(p, "TIMER", u)>>
        BY <2>1, <2>6 DEF CgiEvents
      <3>2. /\ <<Add(wfd, "WRITE", u)>> \in Seq(Change)
            /\ ChangesOf(<<Add(wfd, "WRITE", u)>>) = {Add(wfd, "WRITE", u)}
            /\ Len(<<Add(wfd, "WRITE", u)>>) = 1
        BY <2>3, ChangesOfOne
      <3>3. ChangesOf(s) = {Add(wfd, "WRITE", u)} \cup few
        BY <2>4, <3>1, <3>2, ChangesOfBoth, Zenon
      <3>4. Len(s) = 3
        BY <2>4, <3>1, <3>2, Appended
      <3> QED
        BY <1>2, <2>2, <3>3, <3>4
    <2> QED
      BY <2>5, <2>6
  <1> QED
    BY <1>1, <1>3, <1>4, <1>5 DEF Served

LEMMA ServesWoken ==
  ASSUME Settled, Woken, Settled', GoesOn, NEW u, NEW n \in Udatas, NEW s,
         Serves(u, n, s), NEW e \in event_list,
         e.ident = heap[u].m_client_sock, e.filter = "READ"
  PROVE  Woken'
  <1> DEFINE a == Add(heap[u].m_client_sock, "READ", n)
             w == s \o <<a>>
  <1>1. TypeOK /\ Accounts
    BY SettledParts
  <1>2. Carries(w, {}, e)
    BY <1>1, ServesCarries
  <1>3. /\ u \in LiveUdatas /\ u \in Udatas /\ n # u
        /\ heap'[n] = NewUdata(heap[u].conn, heap[u].m_client_sock)
        /\ \A v \in Udatas \ {u, n} : heap'[v] = heap[v]
        /\ s \in Seq(Change)
    BY DEF Serves, BecomesWithReader, LiveUdatas
  <1>4. heap[u].conn \in Conns /\ heap[u].m_client_sock \in Fds
    BY <1>1, <1>3, OwnedSocket
  <1>5. heap'[n].req = 0
    BY <1>3, <1>4, NewReader
  <1>6. a \in Change /\ a.op = "ADD"
    BY <1>4, ChangeTypes, None \in PidOrNone DEF FdOrNone, PidOrNone, Add
  <1>7. <<a>> \in Seq(Change) /\ ChangesOf(<<a>>) = {a} /\ Len(<<a>>) = 1
    BY <1>6, ChangesOfOne
  <1> HIDE DEF a
  <1>8. /\ Len(s) \in 0 .. 3 /\ \A c \in ChangesOf(s) : c.op = "ADD"
        /\ \A b \in Filters(heap'[u]) : b[1] # None =>
             Add(b[1], b[2], u) \in ChangesOf(s)
    BY <1>1, ServedAdds
  <1>9. ChangesOf(w) = ChangesOf(s) \cup {a} /\ Len(w) = Len(s) + 1
    <2>1. ChangesOf(s \o <<a>>) = ChangesOf(s) \cup ChangesOf(<<a>>)
      BY <1>3, <1>7, ChangesOfBoth
    <2>2. Len(s \o <<a>>) = Len(s) + Len(<<a>>)
      BY <1>3, <1>7, Appended
    <2> QED
      BY <1>7, <2>1, <2>2
  <1> HIDE DEF w
  <1>10. Len(w) \in 0 .. 4 /\ \A c \in ChangesOf(w) : c.op # "DELETE"
    <2>1. ASSUME NEW c \in ChangesOf(w)
          PROVE  c.op = "ADD"
      BY <1>6, <1>8, <1>9
    <2>2. PICK l \in 0 .. 3 : l = Len(s)
      BY <1>8
    <2>3. Len(w) = l + 1
      BY <1>9, <2>2
    <2>4. l + 1 \in 0 .. 4
      OBVIOUS
    <2>5. Len(w) \in 0 .. 4
      BY <2>3, <2>4, Zenon
    <2>6. "ADD" # "DELETE"
      OBVIOUS
    <2> QED
      BY <2>1, <2>5, <2>6, Zenon
  <1>11. \A v \in Udatas \ {u} : heap'[v] = heap[v] \/ heap'[v].req = 0
    BY <1>3, <1>5
  <1>12. ASSUME NEW id, NEW filter, Awaits(heap', u, id, filter)
         PROVE  Add(id, filter, u) \in ChangesOf(w)
    <2>1. <<id, filter>> \in Filters(heap'[u]) /\ id # None
      BY <1>12 DEF Awaits, Mine
    <2> QED
      BY <1>8, <1>9, <2>1
  <1>13. Wakes(w)
    BY <1>3, <1>10, <1>11, <1>12, WakesOf
  <1> QED
    BY <1>2, <1>13, WokenPushed DEF Carries

LEMMA AcceptWoken ==
  ASSUME Settled, Woken, Settled', Accept, MayOpen
  PROVE  Woken'
  <1>1. CASE \E c \in Conns, f \in Fds, n \in Udatas : Admits(c, f, n)
    <2>1. PICK c \in Conns, f \in Fds, n \in Udatas : Admits(c, f, n)
      BY <1>1
    <2> DEFINE a == Add(f, "READ", n)
    <2>2. Carries(<<a>>, {}, NoEvent)
      BY <2>1, SettledParts, AdmitsCarries
    <2>3. /\ heap'[n].req = 0
          /\ \A v \in Udatas \ {n} : heap'[v] = heap[v]
      BY <2>1, NewReader DEF Admits
    <2>4. ChangesOf(<<a>>) = {a} /\ Len(<<a>>) \in 0 .. 4 /\ a.op = "ADD"
      BY OneChangeOf DEF Add
    <2> HIDE DEF a
    <2>5. \A id, filter : ~Awaits(heap', n, id, filter)
      BY <2>3 DEF Awaits
    <2>6. Wakes(<<a>>)
      BY <2>3, <2>4, <2>5, WakesOf
    <2> QED
      BY <2>2, <2>6, WokenPushed DEF Carries
  <1>2. CASE UNCHANGED <<heap, change_list, knotes>>
    BY <1>2, OnlyPause, StillWoken
  <1> QED
    BY <1>1, <1>2, AcceptEffect, SettledParts

LEMMA ClientReadWoken ==
  ASSUME Settled, Orderly, Woken, Settled', NEW e, ClientReadEvent(e)
  PROVE  Woken'
  <1>0. PICK u : u = e.udata
    OBVIOUS
  <1>1. /\ e \in event_list /\ u \in LiveUdatas
        /\ e.ident = heap[u].m_client_sock /\ e.filter = "READ"
        /\ \/ ClientReadEof(e)
           \/ Quiet /\ UNCHANGED <<change_list, knotes>>
           \/ \E n \in Udatas, s \in Seq(Change) : Serves(u, n, s)
    BY <1>0, SettledParts, ClientReadEffect
  <1>2. (MayOpen' => MayOpen) /\ GoesOn /\ UNCHANGED knotes
    BY SettledParts, DispatchBatch DEF ClientReadEvent
  <1>3. CASE ClientReadEof(e)
    <2> DEFINE a == Delete(e.ident, "READ")
    <2>1. e.ident \in Fds /\ fdt[e.ident].kind = "sock" /\ u \in Udatas
      BY <1>1, OwnedSocket, SettledParts DEF LiveUdatas
    <2>2. Carries(<<a>>, {}, e)
      BY <1>2, <1>3, <2>1, EofCarries, SettledParts
    <2>3. /\ ChangesOf(<<a>>) = {a} /\ Len(<<a>>) \in 0 .. 4
          /\ a.ident = e.ident /\ a.filter = "READ"
      BY OneChangeOf DEF Delete
    <2> HIDE DEF a
    <2>4. heap' = heap
      BY <1>3 DEF ClientReadEof
    <2>5. ASSUME NEW v, NEW id, NEW filter, Awaits(heap', v, id, filter)
          PROVE  ~(e.ident = id /\ filter = "READ")
      <3>1. Mine(heap, v, id, filter) /\ heap[v].req # 0
        BY <2>4, <2>5 DEF Awaits
      <3> QED
        BY <2>1, <3>1, MineOf, SettledParts
    <2>6. Wakes(<<a>>)
      BY <2>3, <2>4, <2>5 DEF Wakes
    <2> QED
      BY <2>2, <2>6, WokenPushed DEF Carries
  <1>4. CASE Quiet /\ UNCHANGED <<change_list, knotes>>
    BY <1>4, StillWoken DEF Quiet
  <1>5. CASE \E n \in Udatas, s \in Seq(Change) : Serves(u, n, s)
    BY <1>1, <1>2, <1>5, ServesWoken
  <1> QED
    BY <1>1, <1>3, <1>4, <1>5

LEMMA ClientWriteWoken ==
  ASSUME Settled, Orderly, Woken, Settled', NEW e, ClientWriteEvent(e)
  PROVE  Woken'
  <1>0. PICK u : u = e.udata
    OBVIOUS
  <1>1. /\ u \in LiveUdatas /\ e.ident = heap[u].m_client_sock /\ e.filter = "WRITE"
        /\ ClientShape(heap[u]) /\ heap[u].req # 0
        /\ \/ UNCHANGED <<heap, change_list, knotes>>
           \/ Quiet /\ UNCHANGED <<change_list, knotes>>
           \/ Frees(u, <<Delete(e.ident, "WRITE")>>)
    BY <1>0, SettledParts, ClientWriteEffect
  <1>2. GoesOn
    BY SettledParts, DispatchBatch DEF ClientWriteEvent
  <1>3. CASE Frees(u, <<Delete(e.ident, "WRITE")>>)
    <2> DEFINE a == Delete(e.ident, "WRITE")
    <2>1. Carries(<<a>>, {}, e)
      BY <1>1, <1>2, <1>3, SettledParts, WrittenCarries
    <2>2. /\ ChangesOf(<<a>>) = {a} /\ Len(<<a>>) \in 0 .. 4
          /\ a.ident = e.ident /\ a.filter = "WRITE"
      BY OneChangeOf DEF Delete
    <2>3. Frees(u, <<a>>)
      BY <1>3
    <2> HIDE DEF a
    <2>4. e.ident \in Fds /\ e.ident # None /\ u \in Udatas /\ heap[u].st = "live"
      BY <1>1, OwnedSocket, SettledParts, Positive DEF LiveUdatas
    <2>5. Filters(heap[u]) = {<<e.ident, "WRITE">>}
      BY <1>1 DEF Filters, ClientShape
    <2>6. Mine(heap, u, a.ident, a.filter)
      BY <2>2, <2>4, <2>5 DEF Mine
    <2>7. Wakes(<<a>>)
      BY <2>2, <2>3, <2>6, FreesWakes
    <2> QED
      BY <2>1, <2>7, WokenPushed DEF Carries
  <1> QED
    BY <1>1, <1>3, OnlyPause, StillWoken DEF Quiet

LEMMA FileEventsWoken ==
  ASSUME Settled, Orderly, Woken, Settled', NEW e,
         StaticFileReadEvent(e) \/ FileWriteEvent(e)
  PROVE  Woken'
  <1>0. PICK u : u = e.udata
    OBVIOUS
  <1> DEFINE s == <<Add(heap[u].m_client_sock, "WRITE", u)>>
  <1>1. /\ u \in LiveUdatas /\ heap[u].m_type = "STATIC_FILE"
        /\ \/ Quiet /\ UNCHANGED <<change_list, knotes>>
           \/ Answers(u, {e.ident}, s)
    BY <1>0, SettledParts, FileReadEffect, FileWriteEffect
  <1>2. GoesOn /\ e \in Batch
    BY SettledParts, DispatchBatch DEF StaticFileReadEvent, FileWriteEvent
  <1>3. CASE Answers(u, {e.ident}, s)
    <2>1. heap[u].m_child_pid = None /\ InShape(heap[u]) /\ Owns(u)
      BY <1>1, SettledParts, ObjectsParts
      DEF Objects, Shaped, ClientShape, FileShape, PipeShape
    <2>2. Private(heap[u]) = {e.ident} /\ u \in Udatas
      BY <1>1, <1>3 DEF Answers, LiveUdatas
    <2>3. e.ident \in Fds
      BY <1>1, <2>1, <2>2, PrivateKind, SettledParts
    <2>4. /\ ChangesOf(s) = {Add(heap[u].m_client_sock, "WRITE", u)} \cup {}
          /\ Len(s) \in 0 .. 4
      BY OneChangeOf
    <2> HIDE DEF s
    <2> QED
      BY <1>0, <1>2, <1>3, <2>1, <2>3, <2>4, AnswersWoken
  <1>4. CASE Quiet /\ UNCHANGED <<change_list, knotes>>
    BY <1>4, StillWoken DEF Quiet
  <1> QED
    BY <1>1, <1>3, <1>4

LEMMA PipeReapedWoken ==
  ASSUME Settled, Woken, Settled', PipeReadReaped
  PROVE  Woken'
  <1>0. PICK u, p, e : u = cur.udata /\ p = heap[u].m_child_pid /\ e = cur
    OBVIOUS
  <1> DEFINE s == <<Add(heap[u].m_client_sock, "WRITE", u), Delete(p, "TIMER")>>
             D == {Delete(p, "TIMER")}
  <1>1. /\ p \in Pids /\ PipeShape(heap[u]) /\ e.ident = heap[u].m_read_pipe_fd
        /\ Answers(u, {e.ident}, s)
        /\ pc = "reapPipe" /\ pc' = "dispatch" /\ event_list' = event_list
    BY <1>0, PipeReapedEffect, SettledParts
  <1>2. GoesOn /\ e \in Batch /\ e.ident \in Fds
    BY <1>0, <1>1 DEF Batch, GoesOn, PipeShape
  <1>3. /\ D \in {{}, {Delete(heap[u].m_child_pid, "TIMER")}} /\ D # {}
        /\ heap[u].m_child_pid # None
    BY <1>0, <1>1, Positive DEF None
  <1>4. /\ ChangesOf(s) = {Add(heap[u].m_client_sock, "WRITE", u)} \cup D
        /\ Len(s) \in 0 .. 4
    BY DEF ChangesOf
  <1> HIDE DEF s, D
  <1> QED
    BY <1>0, <1>1, <1>2, <1>3, <1>4, AnswersWoken

LEMMA PipeWriteWoken ==
  ASSUME Settled, Orderly, Woken, Settled', NEW e, PipeWriteEvent(e)
  PROVE  Woken'
  <1>0. PICK u : u = e.udata
    OBVIOUS
  <1>1. \/ Quiet /\ UNCHANGED <<change_list, knotes>>
        \/ Shuts(u, e.ident)
    BY <1>0, SettledParts, PipeWriteEffect
  <1>2. GoesOn /\ e \in Batch
    BY SettledParts, DispatchBatch DEF PipeWriteEvent
  <1>3. CASE Shuts(u, e.ident)
    <2>1. Carries(<<>>, {e.ident}, e)
      BY <1>2, <1>3, SettledParts, ShutsCarries
    <2>2. /\ u \in Udatas /\ heap[u].st = "live" /\ PipeShape(heap[u])
          /\ PipeShape(heap'[u]) /\ heap'[u].m_write_pipe_fd = None
          /\ heap'[u].m_read_pipe_fd = heap[u].m_read_pipe_fd
          /\ heap'[u].m_child_pid = heap[u].m_child_pid
          /\ \A v \in Udatas \ {u} : heap'[v] = heap[v]
      BY <1>3 DEF Shuts, LiveUdatas
    <2>3. ASSUME NEW id, NEW filter, Awaits(heap', u, id, filter)
          PROVE  Awaits(heap, u, id, filter)
      BY <2>2, <2>3 DEF Awaits, Mine, Filters, PipeShape
    <2>4. Wakes(<<>>)
      BY <2>2, <2>3, NoneFew, WakesOf
    <2> QED
      BY <2>1, <2>4, WokenPushed DEF Carries
  <1>4. CASE Quiet /\ UNCHANGED <<change_list, knotes>>
    BY <1>4, StillWoken DEF Quiet
  <1> QED
    BY <1>1, <1>3, <1>4

LEMMA HandleWoken ==
  ASSUME Settled, Orderly, Woken, Settled', NEW e, Handle(e)
  PROVE  Woken'
  <1>1. CASE ServerReadEvent(e)
    <2>1. CASE Accept
      <3>1. pc = "dispatch" /\ e \in event_list
        BY <1>1 DEF ServerReadEvent, Dispatch
      <3> QED
        BY <2>1, <3>1, AcceptWoken DEF MayOpen
    <2>2. CASE UNCHANGED <<heap, change_list, knotes>>
      BY <2>2, OnlyPause, StillWoken
    <2> QED
      BY <1>1, <2>1, <2>2 DEF ServerReadEvent
  <1>2. CASE PipeReadEvent(e)
    <2>1. UNCHANGED <<heap, change_list, knotes>>
      BY <1>2, PipeReadEffect, SettledParts
    <2> QED
      BY <2>1, OnlyPause, StillWoken
  <1>3. CASE BrokenPipe(e)
    BY <1>3, OnlyPause, StillWoken DEF BrokenPipe
  <1> QED
    BY <1>1, <1>2, <1>3, ClientReadWoken, ClientWriteWoken, FileEventsWoken,
       PipeWriteWoken, NoTimeout, SettledParts DEF Handle

LEMMA ClearUdataWoken ==
  ASSUME Settled, Orderly, Woken, Settled', NEW f \in m_fd_set, NEW u \in Udatas,
         ClearUdata(f, u)
  PROVE  Woken'
  <1>1. /\ u \in LiveUdatas /\ heap[u].m_client_sock = f
        /\ heap[u].m_child_pid = None
        /\ Frees(u, <<>>)
        /\ UNCHANGED <<pc, event_list>>
        /\ pc = "dispatch" /\ event_list = {}
    BY ClearUdataEffect, SettledParts
  <1>2. Pushes(<<>>, Private(heap[u]))
    BY <1>1, DestroyedPushes, SettledParts
  <1>3. Wakes(<<>>)
    BY <1>1, NoneFew, FreesWakes
  <1> QED
    BY <1>2, <1>3, WokenPushed

LEMMA ClearReapedWoken ==
  ASSUME Settled, Orderly, Woken, Settled', ClearReaped
  PROVE  Woken'
  <1>0. PICK u, p : u = cur.udata /\ p = heap[u].m_child_pid
    OBVIOUS
  <1> DEFINE a == Delete(p, "TIMER")
  <1>1. /\ u \in LiveUdatas /\ heap[u].m_client_sock = cur.ident
        /\ cur.ident \in m_fd_set /\ p \in Pids
        /\ Frees(u, <<a>>)
        /\ UNCHANGED event_list
        /\ pc' = "dispatch" /\ event_list = {}
    BY <1>0, ClearReapedEffect, SettledParts
  <1>2. a = Delete(heap[u].m_child_pid, "TIMER")
    BY <1>0
  <1>3. /\ ChangesOf(<<a>>) = {a} /\ Len(<<a>>) \in 0 .. 4
        /\ a.ident = p /\ a.filter = "TIMER"
    BY OneChangeOf DEF Delete
  <1> HIDE DEF a
  <1>4. Pushes(<<a>>, Private(heap[u]))
    BY <1>1, <1>2, DestroyedPushes, SettledParts
  <1>5. Mine(heap, u, p, "TIMER")
    <2>1. p # None /\ PipeShape(heap[u])
      BY <1>0, <1>1, Positive, SettledParts
      DEF Objects, Shaped, ClientShape, FileShape, None
    <2> QED
      BY <1>0, <1>1, <2>1 DEF PipeShape, Filters, Mine, LiveUdatas
  <1>6. Wakes(<<a>>)
    BY <1>1, <1>3, <1>5, FreesWakes
  <1> QED
    BY <1>4, <1>6, WokenPushed

LEMMA ClearSocketWoken ==
  ASSUME Settled, Woken, Settled', NEW f \in m_fd_set, ClearSocket(f)
  PROVE  Woken'
  <1>1. Pushes(<<>>, {f})
    BY ClearSocketPushes, SettledParts
  <1>2. heap' = heap
    BY ClearSocketEffect, SettledParts
  <1>3. Wakes(<<>>)
    BY <1>2, NoneFew DEF Wakes
  <1> QED
    BY <1>1, <1>3, WokenPushed

LEMMA ServerStepWoken ==
  ASSUME Settled, Orderly, Woken, Settled', ServerStep
  PROVE  Woken'
  <1>1. CASE Poll
    <2>1. UNCHANGED <<heap, change_list, knotes>>
      BY <1>1 DEF Poll, Orderly
    <2> QED
      BY <2>1, OnlyPause, StillWoken
  <1>2. CASE EndBatch
    BY <1>2, OnlyPause, StillWoken DEF EndBatch
  <1>3. ASSUME NEW f \in m_fd_set, NEW u \in Udatas, Clear(f, u)
        PROVE  Woken'
    <2>1. CASE ClearKill(f, u)
      <3>1. UNCHANGED <<heap, change_list, knotes>>
        BY <2>1, ClearKillEffect, SettledParts
      <3> QED
        BY <3>1, OnlyPause, StillWoken
    <2> QED
      BY <1>3, <2>1, ClearUdataWoken DEF Clear
  <1>4. CASE AcceptReturns
    BY <1>4, AcceptWoken DEF AcceptReturns, Wake, MayOpen
  <1> QED
    BY <1>1, <1>2, <1>3, <1>4, ApplyWoken, HandleWoken, ClearSocketWoken,
       PipeReapedWoken, ClearReapedWoken, NoFreedObject, NoTimeout, SettledParts
    DEF ServerStep

LEMMA WokenStays ==
  ASSUME InTurn, Settled, Woken, [Next]_vars
  PROVE  Woken'
  <1>1. Settled'
    BY NextTypes, AccountsKept, TurnsKept DEF Settled, InTurn
  <1>2. ASSUME NEW c \in Conns, Client(c)
        PROVE  UNCHANGED <<heap, change_list, knotes>>
    BY <1>2 DEF Client, Connect, Send, Drain, Fin, Reset, Abort, ServerUnchanged
  <1>3. ASSUME NEW p \in Pids, Child(p)
        PROVE  UNCHANGED <<heap, change_list, knotes>>
    BY <1>3
    DEF Child, ChildReads, ChildWrites, ChildClosesStdout, ChildExits, ChildCrashes,
        ChildDies, ProcessUnchanged, ServerUnchanged
  <1>4. CASE UNCHANGED vars
    BY <1>1, <1>4, OnlyPause, StillWoken DEF vars
  <1> QED
    BY <1>1, <1>2, <1>3, <1>4, OnlyPause, StillWoken, ServerStepWoken DEF Next, InTurn

LEMMA InitWoken ==
  ASSUME Init
  PROVE  Woken
  BY DEF Init, Woken, LiveUdatas, UnusedUdata

\* The filters a request waits for are among those of its object, and there are any.
LEMMA AwaitedAreFilters ==
  ASSUME TypeOK, Accounts, NEW u \in LiveUdatas, heap[u].req # 0, NEW a \in Awaited(u)
  PROVE  a \in Filters(heap[u]) /\ a[1] # None
  <1>1. /\ LiveRecord(heap[u]) /\ InShape(heap[u]) /\ None \notin Fds
        /\ None \notin Pids
    BY LiveObject, ObjectsParts, Positive DEF Accounts, Objects, None
  <1>2. CASE ClientShape(heap[u])
    BY <1>1, <1>2 DEF ClientShape, Awaited, Filters, LiveRecord
  <1>3. CASE FileShape(heap[u])
    BY <1>1, <1>3 DEF FileShape, Awaited, Filters
  <1>4. CASE PipeShape(heap[u])
    BY <1>1, <1>4 DEF PipeShape, Awaited, Filters
  <1> QED
    BY <1>1, <1>2, <1>3, <1>4 DEF InShape

LEMMA WokenWaits ==
  ASSUME TypeOK, Accounts, Woken
  PROVE  NoLostWakeup
  <1> SUFFICES ASSUME Waiting, NEW u \in LiveUdatas, heap[u].req # 0,
                      NEW a \in Awaited(u)
               PROVE  \E k \in knotes : k.ident = a[1] /\ k.filter = a[2] /\ k.udata = u
    BY DEF NoLostWakeup
  <1>1. Registers(knotes, change_list, a[1], a[2], u)
    BY AwaitedAreFilters DEF Woken
  <1>2. Len(change_list) = 0
    BY KeptInWaiting
  <1> QED
    BY <1>1, <1>2 DEF Registers

\* No request in progress loses the filters it waits for: whenever kevent() sleeps,
\* they are registered with its object, although a closed descriptor loses its
\* filter, a handler deletes those it is done with, and the changes are applied
\* later (process.cpp:61, static_file.cpp:40, pipe.cpp:72, client.cpp:137).
THEOREM WakeupsNeverLost ==
  ASSUME InTurn
  PROVE  Spec => []NoLostWakeup
  <1>1. Init => Woken
    BY InitWoken
  <1>2. TypeOK /\ Accounts /\ Turns /\ Woken /\ [Next]_vars => Woken'
    BY WokenStays DEF Settled
  <1>3. TypeOK /\ Accounts /\ Woken => NoLostWakeup
    BY WokenWaits
  <1>4. Spec => []TypeOK /\ []Accounts /\ []Turns
    BY ServerTypeCorrect, AccountsAlwaysKept, TurnsAlwaysTaken DEF InTurn
  <1> QED
    BY <1>1, <1>2, <1>3, <1>4, PTL DEF Spec

(***************************************************************************)
(* The server implements HttpService: every step is one of the service's   *)
(* for one client, or changes nothing the clients can tell.                *)
(***************************************************************************)
\* Nothing of client d changes that the service tells apart.
Unseen(d) ==
  /\ Presence(d)' = Presence(d)
  /\ Requested(d)' = Requested(d)
  /\ conn'[d].out = conn[d].out

LEMMA UnseenSame ==
  ASSUME NEW d, conn'[d].st = conn[d].st, conn'[d].sent = conn[d].sent,
         conn'[d].out = conn[d].out
  PROVE  Unseen(d)
  BY DEF Unseen, Presence, Requested

LEMMA UnseenStep ==
  ASSUME \A d \in Conns : Unseen(d)
  PROVE  UNCHANGED Service!vars
  <1>1. /\ [d \in Conns |-> Presence(d)]' = [d \in Conns |-> Presence(d)]
        /\ [d \in Conns |-> Requested(d)]' = [d \in Conns |-> Requested(d)]
        /\ [d \in Conns |-> conn[d].out]' = [d \in Conns |-> conn[d].out]
    BY DEF Unseen
  <1> QED
    BY <1>1 DEF Service!vars

\* What the service sees of the others.
LEMMA SeenOf ==
  ASSUME NEW c \in Conns, \A d \in Conns \ {c} : conn'[d] = conn[d]
  PROVE  \A d \in Conns \ {c} : Unseen(d)
  BY UnseenSame

LEMMA SeesPresence ==
  ASSUME NEW c \in Conns, \A d \in Conns \ {c} : Unseen(d),
         Requested(c)' = Requested(c), conn'[c].out = conn[c].out,
         NEW from, NEW to, Presence(c) = from, Presence(c)' = to
  PROVE  LET here == [d \in Conns |-> Presence(d)]
             asked == [d \in Conns |-> Requested(d)]
             got == [d \in Conns |-> conn[d].out]
         IN /\ here[c] = from /\ here' = [here EXCEPT ![c] = to]
            /\ UNCHANGED <<asked, got>>
  BY DEF Unseen

LEMMA Arrives ==
  ASSUME NEW c \in Conns, \A d \in Conns \ {c} : Unseen(d),
         Requested(c)' = Requested(c), conn'[c].out = conn[c].out,
         \/ Presence(c) = "away" /\ Presence(c)' = "connected"
         \/ Presence(c) = "connected" /\ Presence(c)' = "leaving"
         \/ Presence(c) = "leaving" /\ Presence(c)' = "released"
  PROVE  Service!Next
  <1>1. CASE Presence(c) = "away" /\ Presence(c)' = "connected"
    <2>1. Service!Arrive(c)
      BY <1>1, SeesPresence DEF Service!Arrive
    <2> QED
      BY <2>1 DEF Service!Next
  <1>2. CASE Presence(c) = "connected" /\ Presence(c)' = "leaving"
    <2>1. Service!Leave(c)
      BY <1>2, SeesPresence DEF Service!Leave
    <2> QED
      BY <2>1 DEF Service!Next
  <1>3. CASE Presence(c) = "leaving" /\ Presence(c)' = "released"
    <2>1. Service!Release(c)
      BY <1>3, SeesPresence DEF Service!Release
    <2> QED
      BY <2>1 DEF Service!Next
  <1> QED
    BY <1>1, <1>2, <1>3

LEMMA Asks ==
  ASSUME NEW c \in Conns, \A d \in Conns \ {c} : Unseen(d),
         Presence(c) = "connected", Presence(c)' = "connected",
         Requested(c) < MaxRequests, Requested(c)' = Requested(c) + 1,
         conn'[c].out = conn[c].out
  PROVE  Service!Next
  <1>1. Service!Ask(c)
    BY DEF Service!Ask, Unseen
  <1> QED
    BY <1>1 DEF Service!Next

LEMMA Replies ==
  ASSUME NEW c \in Conns, \A d \in Conns \ {c} : Unseen(d),
         Presence(c) \in {"connected", "leaving"}, Presence(c)' = Presence(c),
         Requested(c)' = Requested(c),
         NEW n \in 1 .. Requested(c) * ResponseLen - Len(conn[c].out),
         conn'[c].out = conn[c].out \o NextUnits(c, n)
  PROVE  Service!Next
  <1> DEFINE got == [d \in Conns |-> conn[d].out]
  <1>1. got[c] = conn[c].out
    OBVIOUS
  <1>2. got' = [got EXCEPT ![c] =
                  got[c] \o [i \in 1 .. n |-> Service!Unit(c, Len(got[c]) + i)]]
    BY DEF Unseen, NextUnits
  <1>3. /\ [d \in Conns |-> Presence(d)]' = [d \in Conns |-> Presence(d)]
        /\ [d \in Conns |-> Requested(d)]' = [d \in Conns |-> Requested(d)]
    BY DEF Unseen
  <1>4. Service!Reply(c)
    BY <1>1, <1>2, <1>3 DEF Service!Reply
  <1> QED
    BY <1>4 DEF Service!Next

ServiceStep == Service!Next \/ UNCHANGED Service!vars

\* Nobody's connection changes in a way the service sees.
LEMMA UnseenBy ==
  ASSUME \A d \in Conns : /\ conn'[d].st = conn[d].st /\ conn'[d].sent = conn[d].sent
                          /\ conn'[d].out = conn[d].out
  PROVE  ServiceStep
  BY UnseenSame, UnseenStep DEF ServiceStep

LEMMA SendServes ==
  ASSUME TypeOK, InTurn, Accounts, Turns, NEW c \in Conns, Send(c)
  PROVE  ServiceStep
  <1>1. PICK k \in RequestNo : Turn(c, k)
    BY DEF Turns
  <1>2. /\ conn'[c].sent = conn[c].sent + 1
        /\ conn'[c].out = conn[c].out /\ conn'[c].st = conn[c].st
        /\ \A d \in Conns \ {c} : conn'[d] = conn[d]
    BY DEF Send, TypeOK, ConnRecord
  <1>3. \A d \in Conns \ {c} : Unseen(d)
    BY <1>2, SeenOf
  <1>4. Presence(c) = "connected" /\ Presence(c)' = "connected"
    BY <1>2 DEF Send, Connected, Presence
  <1> DEFINE this == k * Segments
             next == (k + 1) * Segments
  <1>5. /\ this \in Nat /\ next = this + Segments /\ Segments \in Nat \ {0}
        /\ k \in Nat /\ k + 1 \in Nat /\ conn[c].sent \in Nat /\ MaxRequests \in Nat
    BY Counts
  <1>6. this <= conn[c].sent /\ conn[c].sent < next
    <2>1. this <= conn[c].rcvd /\ conn[c].rcvd <= conn[c].sent /\ conn[c].rcvd \in Nat
      BY <1>1, Counts DEF Turn, Arriving
    <2>2. conn[c].sent < next
      BY <1>1, NothingRequested DEF Send, InTurn
    <2> HIDE DEF this, next
    <2> QED
      BY <1>5, <2>1, <2>2
  <1>7. Requested(c) = k
    <2>1. PICK x \in 0 .. Segments - 1 : conn[c].sent = this + x
      <3> HIDE DEF this, next
      <3>1. conn[c].sent - this \in 0 .. Segments - 1
              /\ conn[c].sent = this + (conn[c].sent - this)
        BY <1>5, <1>6
      <3> QED
        BY <3>1
    <2> QED
      BY <1>5, <2>1, Places DEF Requested
  <1>8. Requested(c)' = conn'[c].sent \div Segments
    BY DEF Requested
  <1>9. CASE conn[c].sent + 1 < next
    <2>1. PICK x \in 0 .. Segments - 1 : conn'[c].sent = this + x
      <3> HIDE DEF this, next
      <3>1. (conn[c].sent + 1) - this \in 0 .. Segments - 1
              /\ conn[c].sent + 1 = this + ((conn[c].sent + 1) - this)
        BY <1>5, <1>6, <1>9
      <3> QED
        BY <1>2, <3>1
    <2>2. Requested(c)' = k
      BY <1>5, <1>8, <2>1, Places
    <2>3. Unseen(c)
      BY <1>2, <1>4, <1>7, <2>2 DEF Unseen
    <2> QED
      BY <1>3, <2>3, UnseenStep DEF ServiceStep
  <1>10. CASE conn[c].sent + 1 = next
    <2>1. Requested(c)' = k + 1
      <3>1. PICK j \in Nat : j = k + 1
        BY <1>5
      <3>2. 0 \in 0 .. Segments - 1 /\ (j * Segments + 0) \div Segments = j
              /\ j * Segments + 0 = j * Segments
        BY <1>5, Places, Multiples
      <3> QED
        BY <1>2, <1>8, <1>10, <3>1, <3>2
    <2>2. k < MaxRequests
      <3>1. conn[c].sent < MaxRequests * Segments /\ MaxRequests * Segments \in Nat
        BY <1>5, Multiples DEF Send
      <3>2. next <= MaxRequests * Segments
        <4> HIDE DEF next
        <4> QED
          BY <1>5, <1>10, <3>1
      <3>3. k + 1 <= MaxRequests
        BY <1>5, <3>2, FewerMultiples
      <3> HIDE DEF next, this
      <3>4. k \in Nat /\ MaxRequests \in Nat
        BY <1>5
      <3> QED
        BY <3>3, <3>4
    <2> QED
      BY <1>2, <1>3, <1>4, <1>7, <2>1, <2>2, Asks DEF ServiceStep
  <1>11. conn[c].sent + 1 < next \/ conn[c].sent + 1 = next
    <2> HIDE DEF this, next
    <2>1. next \in Nat
      BY <1>5
    <2> QED
      BY <1>5, <1>6, <2>1
  <1> QED
    BY <1>9, <1>10, <1>11

LEMMA WriteServes ==
  ASSUME TypeOK, Orderly, Accounts, Turns, NEW e, ClientWriteEvent(e)
  PROVE  ServiceStep
  <1> DEFINE u == e.udata
  <1>1. CASE UNCHANGED <<heap, conn>>
    BY <1>1, UnseenBy
  <1>2. CASE ~UNCHANGED <<heap, conn>>
    <2>1. PICK c \in Conns, n \in Nat \ {0} :
            /\ c = heap[u].conn /\ Writes(u, c, n)
            /\ \A d \in Conns \ {c} : conn'[d] = conn[d]
      BY <1>2, ClientWrites
    <2>2. /\ u \in LiveUdatas /\ u \in Udatas /\ heap[u] \in UdataRecord
          /\ heap[u].req # 0 /\ heap[u].m_type = "CLIENT"
      BY <1>2, ClientWrites DEF LiveUdatas, TypeOK
    <2>3. PICK k \in RequestNo : Turn(c, k)
      BY DEF Turns
    <2>4. event_list # {} /\ conn'[c].st = conn[c].st
      BY ClientWrites
    <2>5. Units(u, n) = NextUnits(c, n)
      <3>1. TornDown(c) => TornDown(c)'
        BY <2>4 DEF TornDown
      <3> QED
        BY <2>1, <2>2, <2>3, <3>1, TurnWritten
    <2>6. Answering(u, c, k) /\ k # 0 /\ k \in Nat
      BY <2>1, <2>2, <2>3 DEF Turn, Serving, Answering, RequestNo
    <2>7. Requested(c) = k
      <3>1. 0 \in 0 .. Segments - 1 /\ k * Segments + 0 = k * Segments
        BY <2>6, ServerAssumption, Multiples
      <3> QED
        BY <2>6, <3>1, ServerAssumption, Places DEF Answering, Requested
    <2>8. n \in 1 .. Requested(c) * ResponseLen - Len(conn[c].out)
      <3> DEFINE before == (k - 1) * ResponseLen
      <3>1. before \in Nat /\ k * ResponseLen = before + ResponseLen
              /\ ResponseLen \in Nat \ {0}
        BY <2>6, ServerAssumption
      <3>2. /\ Len(conn[c].out) = before + heap[u].offset
            /\ heap[u].length = ResponseLen
        BY <2>2, <2>6 DEF Answering
      <3>3. heap[u].offset \in Nat
        BY <2>2, ServerAssumption DEF UdataRecord
      <3>4. heap[u].offset + n < heap[u].length \/ heap[u].offset + n = heap[u].length
        BY <2>1 DEF Writes
      <3> HIDE DEF before, u
      <3>5. PICK o \in Nat : o = heap[u].offset
        BY <3>3
      <3>6. n \in 1 .. (before + ResponseLen) - (before + o)
        BY <3>1, <3>2, <3>4, <3>5
      <3> QED
        BY <2>7, <3>1, <3>2, <3>5, <3>6
    <2>9. /\ Presence(c) \in {"connected", "leaving"} /\ Presence(c)' = Presence(c)
          /\ Requested(c)' = Requested(c)
      <3>1. conn[c].st \in {"open", "fin", "reset"}
        BY <2>1, <2>2, OwnedSocket, SocketOf
      <3> QED
        BY <2>1, <2>4, <3>1 DEF Presence, Writes, Requested
    <2>10. \A d \in Conns \ {c} : Unseen(d)
      BY <2>1, SeenOf
    <2>11. conn'[c].out = conn[c].out \o NextUnits(c, n)
      BY <2>1, <2>5 DEF Writes
    <2> QED
      BY <2>8, <2>9, <2>10, <2>11, Replies DEF ServiceStep
  <1> QED
    BY <1>1, <1>2

LEMMA AcceptServes ==
  ASSUME TypeOK, DescriptorsLeft, Accept
  PROVE  ServiceStep
  <1>1. PICK c \in Backlog : RegisterClient(c) \/ RefuseClient(c)
    BY DEF Accept
  <1>2. RegisterClient(c)
    BY <1>1 DEF DescriptorsLeft, RefuseClient
  <1>3. conn' = [conn EXCEPT ![c].st = "open"]
    BY <1>2 DEF RegisterClient
  <1>4. c \in Conns /\ conn[c].st = "backlog"
    BY <1>1 DEF Backlog
  <1>5. /\ conn'[c].st = "open" /\ conn'[c].sent = conn[c].sent
        /\ conn'[c].out = conn[c].out
        /\ \A d \in Conns \ {c} : conn'[d] = conn[d]
    BY <1>3, <1>4 DEF TypeOK, ConnRecord
  <1>6. Unseen(c)
    BY <1>4, <1>5 DEF Unseen, Presence, Requested
  <1>7. \A d \in Conns \ {c} : Unseen(d)
    BY <1>4, <1>5, SeenOf
  <1>8. \A d \in Conns : Unseen(d)
    BY <1>6, <1>7
  <1> QED
    BY <1>8, UnseenStep DEF ServiceStep

LEMMA ClientServes ==
  ASSUME TypeOK, InTurn, Accounts, Turns, "abort" \notin Faults,
         NEW c \in Conns, Client(c)
  PROVE  ServiceStep
  <1>1. conn \in [Conns -> ConnRecord] /\ conn[c] \in ConnRecord
    BY DEF TypeOK
  <1>2. CASE ~Send(c)
    <2>1. \A d \in Conns \ {c} : conn'[d] = conn[d]
      BY <1>1, <1>2 DEF Client, Connect, Drain, Fin, Reset, Abort
    <2>2. \A d \in Conns \ {c} : Unseen(d)
      BY <2>1, SeenOf
    <2>3. /\ conn'[c].sent = conn[c].sent /\ conn'[c].out = conn[c].out
          /\ \/ conn[c].st = "idle" /\ conn'[c].st = "backlog"
             \/ conn'[c].st = conn[c].st
             \/ conn[c].st = "open" /\ conn'[c].st \in {"fin", "reset"}
             \/ conn[c].st = "fin" /\ conn'[c].st = "reset"
      <3>1. CASE Connect(c)
        BY <1>1, <3>1 DEF Connect, ConnRecord
      <3>2. CASE Drain(c)
        BY <1>1, <3>2 DEF Drain, ConnRecord
      <3>3. CASE Fin(c)
        BY <1>1, <3>3 DEF Fin, ConnRecord
      <3>4. CASE Reset(c)
        BY <1>1, <3>4 DEF Reset, ConnRecord
      <3> QED
        BY <1>2, <3>1, <3>2, <3>3, <3>4 DEF Client, Abort
    <2>4. Requested(c)' = Requested(c)
      BY <2>3 DEF Requested
    <2>5. \/ Presence(c)' = Presence(c)
          \/ Presence(c) = "away" /\ Presence(c)' = "connected"
          \/ Presence(c) = "connected" /\ Presence(c)' = "leaving"
      BY <2>3 DEF Presence
    <2>6. CASE Presence(c)' = Presence(c)
      BY <2>2, <2>3, <2>4, <2>6, UnseenStep DEF Unseen, ServiceStep
    <2> QED
      BY <2>2, <2>3, <2>4, <2>5, <2>6, Arrives DEF ServiceStep
  <1> QED
    BY <1>2, SendServes

LEMMA ClearedServes ==
  ASSUME TypeOK, Accounts, NEW f \in m_fd_set, ClearSocket(f)
  PROVE  ServiceStep
  <1> DEFINE s == fdt[f]
  <1>1. PICK c \in Conns : /\ c = fdt[f].of /\ HasLeft(c) /\ fdt[f] = SockEntry(c)
                           /\ f \in Fds
    BY ClearSocketEffect
  <1>2. \A d \in Conns : conn'[d].st = IF d = c THEN "closed" ELSE conn[d].st
    BY <1>1, ClearSocketEffect
  <1>3. \A d \in Conns : conn'[d].sent = conn[d].sent /\ conn'[d].out = conn[d].out
    <2>1. PICK F : Close(F)
      BY DEF ClearSocket
    <2> SUFFICES ASSUME NEW d \in Conns
                 PROVE  conn'[d].sent = conn[d].sent /\ conn'[d].out = conn[d].out
      OBVIOUS
    <2>2. conn'[d] = conn[d]
            \/ conn'[d] = [conn[d] EXCEPT !.st = "closed", !.full = FALSE]
      BY <2>1 DEF Close
    <2>3. conn[d] \in ConnRecord
      BY DEF TypeOK
    <2> QED
      BY <2>2, <2>3 DEF ConnRecord
  <1>4. \A d \in Conns \ {c} : Unseen(d)
    BY <1>2, <1>3, UnseenSame
  <1>5. /\ Presence(c) = "leaving" /\ Presence(c)' = "released"
        /\ Requested(c)' = Requested(c)
    BY <1>1, <1>2, <1>3 DEF Presence, HasLeft, Requested
  <1> QED
    BY <1>3, <1>4, <1>5, Arrives DEF ServiceStep

LEMMA HandleServes ==
  ASSUME TypeOK, Orderly, Accounts, Turns, DescriptorsLeft, NEW e, Handle(e)
  PROVE  ServiceStep
  <1>1. CASE ServerReadEvent(e)
    <2>1. Accept \/ UNCHANGED conn
      BY <1>1 DEF ServerReadEvent
    <2> QED
      BY <2>1, AcceptServes, UnseenBy
  <1>2. CASE ClientReadEvent(e)
    <2>1. CASE ClientReadEof(e)
      BY <2>1, UnseenBy DEF ClientReadEof
    <2>2. CASE ~ClientReadEof(e)
      <3>1. PICK c : conn' = [conn EXCEPT ![c].rcvd = conn[c].sent]
        BY <1>2, <2>2, ReadsData
      <3>2. \A d \in Conns : /\ conn'[d].st = conn[d].st /\ conn'[d].sent = conn[d].sent
                             /\ conn'[d].out = conn[d].out
        BY <3>1 DEF TypeOK, ConnRecord
      <3> QED
        BY <3>2, UnseenBy
    <2> QED
      BY <2>1, <2>2
  <1>3. CASE \/ StaticFileReadEvent(e) \/ FileWriteEvent(e) \/ PipeReadEvent(e)
             \/ PipeWriteEvent(e) \/ BrokenPipe(e)
    <2>1. UNCHANGED conn
      BY <1>3, FileReadEffect, FileWriteEffect, PipeReadEffect, PipeWriteEffect
      DEF Answers, Shuts, BrokenPipe
    <2> QED
      BY <2>1, UnseenBy
  <1> QED
    BY <1>1, <1>2, <1>3, WriteServes, NoTimeout DEF Handle

LEMMA StepServes ==
  ASSUME TypeOK, InTurn, Accounts, Turns, "abort" \notin Faults, DescriptorsLeft,
         [Next]_vars
  PROVE  [Service!Next]_Service!vars
  <1>0. Orderly
    BY DEF InTurn
  <1>1. CASE UNCHANGED conn
    BY <1>1, UnseenBy DEF ServiceStep
  <1>2. CASE \E e \in event_list : Handle(e)
    BY <1>0, <1>2, HandleServes DEF ServiceStep
  <1>3. CASE \E f \in m_fd_set, u \in Udatas : Clear(f, u)
    <2>1. UNCHANGED conn
      BY <1>0, <1>3, ClearUdataEffect, ClearKillEffect DEF Clear
    <2> QED
      BY <1>1, <2>1
  <1>4. CASE \E f \in m_fd_set : ClearSocket(f)
    BY <1>4, ClearedServes DEF ServiceStep
  <1>5. CASE AcceptReturns
    BY <1>5, AcceptServes DEF AcceptReturns, ServiceStep
  <1>6. CASE PipeReadReaped \/ ClearReaped
    <2>1. UNCHANGED conn
      BY <1>0, <1>6, PipeReapedEffect, ClearReapedEffect DEF Answers
    <2> QED
      BY <1>1, <2>1
  <1>7. CASE \E c \in Conns : Client(c)
    BY <1>7, ClientServes DEF ServiceStep
  <1>8. CASE \E p \in Pids : Child(p)
    <2>1. UNCHANGED conn
      BY <1>8
      DEF Child, ChildReads, ChildWrites, ChildClosesStdout, ChildExits, ChildCrashes,
          ChildDies, ProcessUnchanged
    <2> QED
      BY <1>1, <2>1
  <1>9. ApplyChange \/ Poll \/ EndBatch \/ (\E u \in Udatas : UseAfterFree(u))
          \/ UNCHANGED vars => UNCHANGED conn
    BY DEF ApplyChange, Poll, EndBatch, UseAfterFree, vars
  <1> QED
    BY <1>1, <1>2, <1>3, <1>4, <1>5, <1>6, <1>7, <1>8, <1>9, NoTimeout
    DEF Next, ServerStep

\* The event loop implements HttpService, as far as safety goes, for clients that do
\* not abort a connection before it is accepted and while none has to be refused:
\* every step of Server::start and its handlers is a step of the service or none.
THEOREM ServiceImplemented ==
  ASSUME InTurn, "abort" \notin Faults
  PROVE  Spec /\ []DescriptorsLeft => Service!Safe
  <1>1. Init => Service!Init
    <2> SUFFICES ASSUME Init
                 PROVE  Service!Init
      OBVIOUS
    <2>1. \A c \in Conns : conn[c].st = "idle" /\ conn[c].sent = 0 /\ conn[c].out = <<>>
      BY DEF Init
    <2>2. 0 \div Segments = 0
      BY ServerAssumption
    <2>3. \A c \in Conns : Presence(c) = "away" /\ Requested(c) = 0
      BY <2>1, <2>2 DEF Presence, Requested
    <2> QED
      BY <2>1, <2>3 DEF Service!Init
  <1>2. TypeOK /\ Accounts /\ Turns /\ DescriptorsLeft /\ [Next]_vars =>
          [Service!Next]_Service!vars
    BY StepServes
  <1>3. Spec => []TypeOK /\ []Accounts
    BY ServerTypeCorrect, AccountsAlwaysKept DEF InTurn
  <1> QED
    BY <1>1, <1>2, <1>3, TurnsAlwaysTaken, PTL DEF Spec, Service!Safe
=============================================================================
