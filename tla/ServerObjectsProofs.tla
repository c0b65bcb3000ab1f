------------------------ MODULE ServerObjectsProofs ------------------------
(***************************************************************************)
(* The part of the invariant of ServerInvariant that is about objects and  *)
(* descriptors: what each handler does to them, and that every descriptor  *)
(* stays with the one object that keeps its number.                        *)
(***************************************************************************)
EXTENDS ServerInvariant, ServerProofs

(***************************************************************************)
(* Objects of the heap.                                                    *)
(***************************************************************************)
LEMMA LiveObject ==
  ASSUME TypeOK, NEW u \in LiveUdatas
  PROVE  u \in Udatas /\ heap[u].st = "live" /\ LiveRecord(heap[u])
  BY TypeParts DEF LiveUdatas, HeapType, LiveRecord

\* What an object does when a request is answered.
LEMMA Responds ==
  ASSUME NEW h, HeapType(h), NEW u \in Udatas, LiveRecord(h[u])
  PROVE  /\ LiveRecord(Respond(u, h)[u])
         /\ Respond(u, h)[u].m_type = "CLIENT"
         /\ \A v \in Udatas \ {u} : Respond(u, h)[v] = h[v]
         /\ Respond(u, h)[u].m_client_sock = h[u].m_client_sock
         /\ Respond(u, h)[u].conn = h[u].conn
         /\ Respond(u, h)[u].req = h[u].req
         /\ Respond(u, h)[u].kind = h[u].kind
         /\ Respond(u, h)[u].m_read_pipe_fd = h[u].m_read_pipe_fd
         /\ Respond(u, h)[u].m_write_pipe_fd = h[u].m_write_pipe_fd
         /\ Respond(u, h)[u].m_child_pid = h[u].m_child_pid
         /\ Respond(u, h)[u].static_read_file_fd = h[u].static_read_file_fd
         /\ Respond(u, h)[u].static_write_file_fd = h[u].static_write_file_fd
  <1> DEFINE r == [h[u] EXCEPT !.m_type = "CLIENT",
                               !.length = h[u].length + ResponseLen,
                               !.offset = 0]
  <1>1. Respond(u, h) = [h EXCEPT ![u] = r]
    BY DEF Respond, HeapType
  <1>2. h[u] \in UdataRecord
    BY DEF HeapType
  <1>3. h[u].length + ResponseLen \in Nat
    BY <1>2, ServerAssumption DEF UdataRecord
  <1>4. Respond(u, h)[u] = r /\ \A v \in Udatas \ {u} : Respond(u, h)[v] = h[v]
    BY <1>1 DEF HeapType
  <1>5. r \in UdataRecord
    BY <1>2, <1>3 DEF UdataRecord
  <1> QED
    BY <1>2, <1>4, <1>5 DEF UdataRecord, LiveRecord

LEMMA NewReader ==
  ASSUME NEW c \in Conns, NEW f \in Fds
  PROVE  LET r == NewUdata(c, f) IN
         /\ LiveRecord(r) /\ ClientShape(r) /\ r.req = 0 /\ r.kind = "none"
         /\ r.m_client_sock = f /\ r.conn = c
  <1>1. UnusedUdata \in UdataRecord
    BY ServerAssumption
    DEF UnusedUdata, UdataRecord, FdOrNone, PidOrNone, SegmentNo, RequestNo,
        None
  <1>2. /\ NewUdata(c, f) \in UdataRecord
        /\ NewUdata(c, f).m_client_sock = f /\ NewUdata(c, f).conn = c
        /\ NewUdata(c, f).st = "live" /\ NewUdata(c, f).req = 0
        /\ NewUdata(c, f).kind = "none" /\ ClientShape(NewUdata(c, f))
    BY <1>1 DEF NewUdata, UnusedUdata, UdataRecord, FdOrNone, ClientShape
  <1> QED
    BY <1>2 DEF LiveRecord

\* The heap in which u has become r, and perhaps n a new reader.
Becomes(u, r) ==
  heap'[u] = r /\ \A v \in Udatas \ {u} : heap'[v] = heap[v]

BecomesWithReader(u, r, n, c, sock) ==
  /\ n \in Udatas /\ n # u /\ heap[n].st = "unused"
  /\ heap'[u] = r /\ heap'[n] = NewUdata(c, sock)
  /\ \A v \in Udatas \ {u, n} : heap'[v] = heap[v]

\* r and s are for the same client and request.
SameRequest(r, s) ==
  /\ s.st = "live" /\ r.m_client_sock = s.m_client_sock /\ r.conn = s.conn
  /\ r.req = s.req

(***************************************************************************)
(* How a request is served: what u becomes, which descriptors are opened   *)
(* for it, and which changes s are pushed before the new reader's.         *)
(***************************************************************************)
ServedInline(u, sock, r, s) ==
  /\ ClientShape(r)
  /\ s = <<Add(sock, "WRITE", u)>>
  /\ UNCHANGED <<fdt, proc>>

ServedFile(u, r, s) ==
  /\ FileShape(r)
  /\ \/ /\ r.static_read_file_fd \in FreeFds
        /\ fdt' = [fdt EXCEPT ![r.static_read_file_fd] = FileEntry(u)]
        /\ s = <<Add(r.static_read_file_fd, "READ", u)>>
     \/ /\ r.static_write_file_fd \in FreeFds
        /\ fdt' = [fdt EXCEPT ![r.static_write_file_fd] = OutFileEntry(u)]
        /\ s = <<Add(r.static_write_file_fd, "WRITE", u)>>
  /\ UNCHANGED proc

ServedCgi(u, r, s) ==
  LET p == r.m_child_pid
      rfd == r.m_read_pipe_fd
      wfd == r.m_write_pipe_fd
  IN /\ PipeShape(r) /\ rfd \in FreeFds /\ wfd \in FreeFds \cup {None}
     /\ rfd # wfd
     /\ fdt' = [f \in Fds |-> IF f = rfd THEN PipeEntry("piper", p)
                              ELSE IF f = wfd THEN PipeEntry("pipew", p)
                              ELSE fdt[f]]
     /\ proc[p].st = "none"
     /\ proc' = [proc EXCEPT ![p].st = "running"]
     /\ s = CgiEvents(u, rfd, wfd, p)

Served(u, sock, r, s) ==
  ServedInline(u, sock, r, s) \/ ServedFile(u, r, s) \/ ServedCgi(u, r, s)

\* Two objects of a heap given in turn.
LEMMA TwoObjects ==
  ASSUME NEW h, HeapType(h), NEW u \in Udatas, NEW n \in Udatas \ {u},
         NEW c, NEW sock
  PROVE  LET h2 == NextReader(h, sock, c, n) IN
         /\ h2[u] = h[u] /\ h2[n] = NewUdata(c, sock)
         /\ \A v \in Udatas \ {u, n} : h2[v] = h[v]
  BY DEF NextReader, HeapType

LEMMA Pushed ==
  ASSUME TypeOK, NEW s \in Seq(Change), NEW f \in Fds, NEW n \in Udatas,
         PushWithReader(s, f, n)
  PROVE  change_list' = change_list \o (s \o <<Add(f, "READ", n)>>)
  BY DEF PushWithReader, Push

\* The processed request, before it is served.
LEMMA ServedEffect ==
  ASSUME TypeOK, Orderly, NEW r, LiveRecord(r), ClientShape(r), r.req # 0,
         r.kind = "none", NEW u \in Udatas, heap[u].st = "live",
         NEW sock \in Fds, NEW c \in Conns, ProcessRequest(r, u, sock, c)
  PROVE  \E n \in Udatas, s \in Seq(Change) : \E r1 :
           /\ BecomesWithReader(u, r1, n, c, sock) /\ SameRequest(r, r1)
           /\ m_udata_map' = AddUdataMap(sock, n)
           /\ change_list' = change_list \o (s \o <<Add(sock, "READ", n)>>)
           /\ Served(u, sock, r1, s)
  <1>1. PICK n \in Udatas, kind \in ServedAs(r) :
          LET h == [heap EXCEPT ![u] = [r EXCEPT !.kind = kind]] IN
          /\ Fresh(n)
          /\ m_udata_map' = AddUdataMap(sock, n)
          /\ \/ kind = "inline" /\ AddInline(h, u, sock, c, n)
             \/ kind = "empty" /\ AddEmptyFile(h, u, sock, c, n)
             \/ kind = "file" /\ AddFile(h, u, sock, c, n)
             \/ kind = "upload" /\ AddUpload(h, u, sock, c, n)
             \/ kind = "cgiGet" /\ AddCgi(h, u, sock, c, n, FALSE)
             \/ kind = "cgiPost" /\ AddCgi(h, u, sock, c, n, TRUE)
             \/ kind = "cgiNoProc" /\ AddCgiNoProcess(h, u, sock, c, n)
    BY DEF ProcessRequest
  <1> DEFINE h == [heap EXCEPT ![u] = [r EXCEPT !.kind = kind]]
             h1 == h[u]
  <1>2. kind \in Kinds \cup {"inline"} /\ kind \in RequestKinds
    BY ServerAssumption DEF ServedAs, RequestKinds
  <1>3. /\ kind # "empty" /\ kind # "cgiNoProc"
        /\ kind = "upload" => "upload" \in Kinds
        /\ kind = "cgiPost" => "cgiPost" \in Kinds
    BY <1>2 DEF Orderly
  <1>4. /\ HeapType(heap) /\ heap[n].st = "unused" /\ n # u
    BY <1>1, TypeParts DEF Fresh
  <1>5. LiveRecord([r EXCEPT !.kind = kind])
    BY <1>2, FieldTypes, None \in FdOrNone, None \in PidOrNone
    DEF FdOrNone, PidOrNone
  <1>6. /\ HeapType(h) /\ h1 = [r EXCEPT !.kind = kind]
        /\ \A v \in Udatas \ {u} : h[v] = heap[v]
    BY <1>4, <1>5, LiveRecordTypes DEF HeapType
  <1>7. /\ LiveRecord(h1) /\ ClientShape(h1) /\ h1.req # 0 /\ SameRequest(r, h1)
    BY <1>5, <1>6 DEF ClientShape, LiveRecord, UdataRecord, SameRequest
  <1> HIDE DEF h1, h
  <1>8. /\ Fds \subseteq FdOrNone /\ None \in FdOrNone
        /\ Pids \subseteq PidOrNone /\ None \in PidOrNone
        /\ \A f \in Fds : /\ <<Add(f, "READ", u)>> \in Seq(Change)
                         /\ <<Add(f, "WRITE", u)>> \in Seq(Change)
    BY OneChange DEF FdOrNone, PidOrNone
  <1>9. ASSUME NEW g, HeapType(g), NEW s \in Seq(Change),
               heap' = NextReader(g, sock, c, n),
               \A v \in Udatas \ {u} : g[v] = h[v],
               SameRequest(h1, g[u]), PushWithReader(s, sock, n),
               Served(u, sock, g[u], s)
        PROVE  \E m \in Udatas, s1 \in Seq(Change) : \E r1 :
                 /\ BecomesWithReader(u, r1, m, c, sock) /\ SameRequest(r, r1)
                 /\ m_udata_map' = AddUdataMap(sock, m)
                 /\ change_list' = change_list \o (s1 \o <<Add(sock, "READ", m)>>)
                 /\ Served(u, sock, r1, s1)
    <2>1. BecomesWithReader(u, g[u], n, c, sock)
      <3>1. /\ heap'[u] = g[u] /\ heap'[n] = NewUdata(c, sock)
            /\ \A v \in Udatas \ {u, n} : heap'[v] = g[v]
        BY <1>4, <1>9, TwoObjects
      <3> QED
        BY <1>4, <1>6, <1>9, <3>1 DEF BecomesWithReader
    <2>2. SameRequest(r, g[u])
      BY <1>7, <1>9 DEF SameRequest
    <2>3. change_list' = change_list \o (s \o <<Add(sock, "READ", n)>>)
      BY <1>9, Pushed
    <2> DEFINE r1 == g[u]
    <2>4. /\ BecomesWithReader(u, r1, n, c, sock) /\ SameRequest(r, r1)
          /\ Served(u, sock, r1, s)
      BY <1>9, <2>1, <2>2
    <2>5. m_udata_map' = AddUdataMap(sock, n)
      BY <1>1
    <2> HIDE DEF r1
    <2> QED
      BY <1>9, <2>3, <2>4, <2>5
  <1> DEFINE Goal == \E m \in Udatas, s \in Seq(Change) : \E r1 :
               /\ BecomesWithReader(u, r1, m, c, sock) /\ SameRequest(r, r1)
               /\ m_udata_map' = AddUdataMap(sock, m)
               /\ change_list' = change_list \o (s \o <<Add(sock, "READ", m)>>)
               /\ Served(u, sock, r1, s)
             Ready(g, s) ==
               /\ HeapType(g) /\ s \in Seq(Change)
               /\ heap' = NextReader(g, sock, c, n)
               /\ \A v \in Udatas \ {u} : g[v] = h[v]
               /\ SameRequest(h1, g[u]) /\ PushWithReader(s, sock, n)
               /\ Served(u, sock, g[u], s)
  <1>a. ASSUME NEW g, NEW s, Ready(g, s)
        PROVE  Goal
    BY <1>9, <1>a
  <1> SUFFICES Goal
    OBVIOUS
  <1> HIDE DEF Goal
  <1>10. CASE AddInline(h, u, sock, c, n)
    <2> DEFINE g == Respond(u, h)
               s == <<Add(sock, "WRITE", u)>>
    <2>1. /\ HeapType(g) /\ \A v \in Udatas \ {u} : g[v] = h[v]
          /\ SameRequest(h1, g[u]) /\ ClientShape(g[u])
      <3>1. HeapType(g)
        BY <1>6, RespondTypes
      <3>2. LiveRecord(h[u])
        BY <1>7 DEF h1
      <3>a. HeapType(h)
        BY <1>6
      <3> HIDE DEF g
      <3>3. /\ LiveRecord(g[u]) /\ g[u].m_type = "CLIENT"
            /\ \A v \in Udatas \ {u} : g[v] = h[v]
            /\ g[u].m_client_sock = h1.m_client_sock /\ g[u].conn = h1.conn
            /\ g[u].req = h1.req /\ g[u].m_read_pipe_fd = h1.m_read_pipe_fd
            /\ g[u].m_write_pipe_fd = h1.m_write_pipe_fd
            /\ g[u].m_child_pid = h1.m_child_pid
            /\ g[u].static_read_file_fd = h1.static_read_file_fd
            /\ g[u].static_write_file_fd = h1.static_write_file_fd
        BY <3>a, <3>2, Responds DEF g, h1
      <3>4. SameRequest(h1, g[u]) /\ ClientShape(g[u])
        BY <1>7, <3>3 DEF SameRequest, ClientShape, LiveRecord
      <3> QED
        BY <3>1, <3>3, <3>4
    <2>2. s \in Seq(Change)
      BY <1>8
    <2>3. /\ heap' = NextReader(g, sock, c, n) /\ PushWithReader(s, sock, n)
          /\ UNCHANGED <<fdt, proc>>
      BY <1>10 DEF AddInline
    <2> HIDE DEF g
    <2>4. Served(u, sock, g[u], s)
      BY <2>1, <2>3 DEF Served, ServedInline
    <2> HIDE DEF s
    <2> QED
      BY <1>a, <2>1, <2>2, <2>3, <2>4
  <1>11. CASE AddFile(h, u, sock, c, n)
    <2>1. PICK f \in Fds :
            /\ Lowest(f, 0)
            /\ fdt' = [fdt EXCEPT ![f] = FileEntry(u)]
            /\ heap' = NextReader([h EXCEPT ![u].m_type = "STATIC_FILE",
                                            ![u].static_read_file_fd = f],
                                  sock, c, n)
            /\ PushWithReader(<<Add(f, "READ", u)>>, sock, n)
            /\ UNCHANGED proc
      BY <1>11 DEF AddFile
    <2> DEFINE r1 == [h1 EXCEPT !.m_type = "STATIC_FILE",
                                !.static_read_file_fd = f]
               g == [h EXCEPT ![u] = r1]
    <2>2. [h EXCEPT ![u].m_type = "STATIC_FILE", ![u].static_read_file_fd = f] = g
      BY <1>6 DEF HeapType, h1
    <2>3. /\ LiveRecord(r1) /\ FileShape(r1) /\ SameRequest(h1, r1)
          /\ r1.static_read_file_fd = f
      <3>1. LiveRecord(r1)
        BY <1>7, <1>8, <1>2, FieldTypes
      <3> QED
        BY <1>7, <3>1 DEF FileShape, ClientShape, SameRequest, LiveRecord, UdataRecord
    <2> HIDE DEF r1
    <2>4. /\ HeapType(g) /\ g[u] = r1 /\ \A v \in Udatas \ {u} : g[v] = h[v]
      BY <1>6, <2>3, LiveRecordTypes DEF HeapType
    <2>5. f \in FreeFds /\ <<Add(f, "READ", u)>> \in Seq(Change)
      BY <1>8, <2>1 DEF Lowest
    <2> HIDE DEF g
    <2>6. Served(u, sock, g[u], <<Add(f, "READ", u)>>)
      BY <2>1, <2>3, <2>4, <2>5 DEF Served, ServedFile
    <2>7. Ready(g, <<Add(f, "READ", u)>>)
      BY <2>1, <2>2, <2>3, <2>4, <2>5, <2>6
    <2> QED
      BY <1>a, <2>7
  <1>12. CASE "upload" \in Kinds /\ AddUpload(h, u, sock, c, n)
    <2>1. PICK f \in Fds :
            /\ Lowest(f, 0)
            /\ fdt' = [fdt EXCEPT ![f] = OutFileEntry(u)]
            /\ heap' = NextReader([h EXCEPT ![u].m_type = "STATIC_FILE",
                                            ![u].static_write_file_fd = f],
                                  sock, c, n)
            /\ PushWithReader(<<Add(f, "WRITE", u)>>, sock, n)
            /\ UNCHANGED proc
      BY <1>12 DEF AddUpload
    <2> DEFINE r1 == [h1 EXCEPT !.m_type = "STATIC_FILE",
                                !.static_write_file_fd = f]
               g == [h EXCEPT ![u] = r1]
    <2>2. [h EXCEPT ![u].m_type = "STATIC_FILE", ![u].static_write_file_fd = f] = g
      BY <1>6 DEF HeapType, h1
    <2>3. /\ LiveRecord(r1) /\ FileShape(r1) /\ SameRequest(h1, r1)
          /\ r1.static_write_file_fd = f
      <3>1. LiveRecord(r1)
        BY <1>7, <1>8, <1>2, FieldTypes
      <3> QED
        BY <1>7, <1>12, <3>1
        DEF FileShape, ClientShape, SameRequest, LiveRecord, UdataRecord
    <2> HIDE DEF r1
    <2>4. /\ HeapType(g) /\ g[u] = r1 /\ \A v \in Udatas \ {u} : g[v] = h[v]
      BY <1>6, <2>3, LiveRecordTypes DEF HeapType
    <2>5. f \in FreeFds /\ <<Add(f, "WRITE", u)>> \in Seq(Change)
      BY <1>8, <2>1 DEF Lowest
    <2> HIDE DEF g
    <2>6. Served(u, sock, g[u], <<Add(f, "WRITE", u)>>)
      BY <2>1, <2>3, <2>4, <2>5 DEF Served, ServedFile
    <2>7. Ready(g, <<Add(f, "WRITE", u)>>)
      BY <2>1, <2>2, <2>3, <2>4, <2>5, <2>6
    <2> QED
      BY <1>a, <2>7
  <1>13. ASSUME NEW post \in BOOLEAN, AddCgi(h, u, sock, c, n, post),
                post => "cgiPost" \in Kinds
         PROVE  Goal
    <2>1. PICK p \in Pids, w \in Fds, rfd \in Fds :
            LET wfd == IF post THEN w ELSE None IN
            /\ proc[p].st = "none"
            /\ Lowest(w, 1) /\ Lowest(rfd, 2)
            /\ fdt' = [f \in Fds |-> IF f = rfd THEN PipeEntry("piper", p)
                                     ELSE IF f = wfd THEN PipeEntry("pipew", p)
                                     ELSE fdt[f]]
            /\ proc' = [proc EXCEPT ![p].st = "running"]
            /\ heap' = NextReader([h EXCEPT ![u].m_type = "PIPE",
                                            ![u].m_read_pipe_fd = rfd,
                                            ![u].m_write_pipe_fd = wfd,
                                            ![u].m_child_pid = p], sock, c, n)
            /\ PushWithReader(CgiEvents(u, rfd, wfd, p), sock, n)
      BY <1>13 DEF AddCgi
    <2> DEFINE wfd == IF post THEN w ELSE None
    <2>2. /\ rfd \in FreeFds /\ wfd \in FreeFds \cup {None} /\ rfd # wfd
          /\ wfd \in FdOrNone /\ (wfd # None => wfd \in Fds /\ "cgiPost" \in Kinds)
      <3>1. rfd \in FreeFds /\ w \in FreeFds
        BY <2>1 DEF Lowest
      <3>2. rfd # w
        <4> SUFFICES ASSUME rfd = w PROVE FALSE
          OBVIOUS
        <4> DEFINE size == Cardinality({g \in FreeFds : g < w})
        <4>1. size = 1 /\ size = 2
          BY <2>1 DEF Lowest
        <4> HIDE DEF size
        <4> QED
          BY <4>1
      <3>3. None \notin Fds
        BY Positive
      <3> QED
        BY <1>8, <1>13, <3>1, <3>2, <3>3
    <2>3. /\ proc[p].st = "none"
          /\ fdt' = [f \in Fds |-> IF f = rfd THEN PipeEntry("piper", p)
                                   ELSE IF f = wfd THEN PipeEntry("pipew", p)
                                   ELSE fdt[f]]
          /\ proc' = [proc EXCEPT ![p].st = "running"]
          /\ heap' = NextReader([h EXCEPT ![u].m_type = "PIPE",
                                          ![u].m_read_pipe_fd = rfd,
                                          ![u].m_write_pipe_fd = wfd,
                                          ![u].m_child_pid = p], sock, c, n)
          /\ PushWithReader(CgiEvents(u, rfd, wfd, p), sock, n)
      BY <2>1
    <2> HIDE DEF wfd
    <2> DEFINE r1 == [h1 EXCEPT !.m_type = "PIPE", !.m_read_pipe_fd = rfd,
                                !.m_write_pipe_fd = wfd, !.m_child_pid = p]
               g == [h EXCEPT ![u] = r1]
    <2>4. [h EXCEPT ![u].m_type = "PIPE", ![u].m_read_pipe_fd = rfd,
                    ![u].m_write_pipe_fd = wfd, ![u].m_child_pid = p] = g
      BY <1>6 DEF HeapType, h1
    <2>5. /\ LiveRecord(r1) /\ PipeShape(r1) /\ SameRequest(h1, r1)
          /\ r1.m_read_pipe_fd = rfd /\ r1.m_write_pipe_fd = wfd
          /\ r1.m_child_pid = p
      <3>1. LiveRecord(r1)
        BY <1>7, <1>8, <1>2, <2>2, FieldTypes
      <3> QED
        BY <1>7, <2>2, <3>1
        DEF PipeShape, ClientShape, SameRequest, LiveRecord, UdataRecord
    <2> HIDE DEF r1
    <2>6. /\ HeapType(g) /\ g[u] = r1 /\ \A v \in Udatas \ {u} : g[v] = h[v]
      BY <1>6, <2>5, LiveRecordTypes DEF HeapType
    <2>7. CgiEvents(u, rfd, wfd, p) \in Seq(Change)
      BY <1>8, <2>2, CgiEventsTypes
    <2>8. heap' = NextReader(g, sock, c, n)
      BY <2>3, <2>4
    <2> HIDE DEF g
    <2>9. Served(u, sock, g[u], CgiEvents(u, rfd, wfd, p))
      BY <2>2, <2>3, <2>5, <2>6 DEF Served, ServedCgi
    <2>10. Ready(g, CgiEvents(u, rfd, wfd, p))
      BY <2>3, <2>5, <2>6, <2>7, <2>8, <2>9
    <2> QED
      BY <1>a, <2>10
  <1> QED
    BY <1>1, <1>3, <1>10, <1>11, <1>12, <1>13 DEF h

(***************************************************************************)
(* Owners. Only sockets are shared: the reader of a client and the objects *)
(* of its requests in progress have the same one.                          *)
(***************************************************************************)
Private(r) ==
  {r.static_read_file_fd, r.static_write_file_fd,
   r.m_read_pipe_fd, r.m_write_pipe_fd} \ {None}

\* The descriptors u keeps are the ones it opened: one part of DescriptorsOwned.
Owns(u) ==
  LET r == heap[u] IN
  /\ fdt[r.m_client_sock] = SockEntry(r.conn)
  /\ r.static_read_file_fd # None =>
       Is(r.static_read_file_fd, "rfile") /\ fdt[r.static_read_file_fd].of = u
  /\ r.static_write_file_fd # None =>
       fdt[r.static_write_file_fd] = OutFileEntry(u)
  /\ r.m_read_pipe_fd # None =>
       fdt[r.m_read_pipe_fd] = PipeEntry("piper", r.m_child_pid)
  /\ r.m_write_pipe_fd # None =>
       fdt[r.m_write_pipe_fd] = PipeEntry("pipew", r.m_child_pid)

\* f, when it is a file or a pipe, has an owner: one part of FilesHeld.
Held(f) ==
  /\ Is(f, "rfile") => fdt[f].of \in LiveUdatas
                       /\ heap[fdt[f].of].static_read_file_fd = f
  /\ Is(f, "wfile") => fdt[f].of \in LiveUdatas
                       /\ heap[fdt[f].of].static_write_file_fd = f
  /\ Is(f, "piper") => \E u \in LiveUdatas : heap[u].m_read_pipe_fd = f
  /\ Is(f, "pipew") => \E u \in LiveUdatas : heap[u].m_write_pipe_fd = f

InShape(r) == ClientShape(r) \/ FileShape(r) \/ PipeShape(r)

LEMMA ObjectsParts ==
  /\ Shaped <=> \A u \in LiveUdatas : InShape(heap[u])
  /\ DescriptorsOwned <=> \A u \in LiveUdatas : Owns(u)
  /\ FilesHeld <=> \A f \in Fds : Held(f)
  BY DEF Shaped, InShape, DescriptorsOwned, Owns, FilesHeld, Held

LEMMA ObjectsPartsPrime ==
  /\ Shaped' <=> \A u \in LiveUdatas' : InShape(heap'[u])
  /\ DescriptorsOwned' <=> \A u \in LiveUdatas' : Owns(u)'
  /\ FilesHeld' <=> \A f \in Fds : Held(f)'
  BY DEF Shaped, InShape, DescriptorsOwned, Owns, FilesHeld, Held

\* What an object that owns f opened it as.
LEMMA PrivateKind ==
  ASSUME TypeOK, NEW u \in LiveUdatas, InShape(heap[u]), Owns(u),
         NEW f \in Private(heap[u])
  PROVE  /\ f \in Fds
         /\ \/ /\ f = heap[u].static_read_file_fd /\ heap[u].m_type = "STATIC_FILE"
               /\ fdt[f].kind = "rfile" /\ fdt[f].of = u
            \/ /\ f = heap[u].static_write_file_fd /\ heap[u].m_type = "STATIC_FILE"
               /\ fdt[f].kind = "wfile" /\ fdt[f].of = u
            \/ /\ f = heap[u].m_read_pipe_fd /\ heap[u].m_type = "PIPE"
               /\ fdt[f].kind = "piper" /\ fdt[f].of = heap[u].m_child_pid
               /\ heap[u].m_child_pid \in Pids
            \/ /\ f = heap[u].m_write_pipe_fd /\ heap[u].m_type = "PIPE"
               /\ fdt[f].kind = "pipew" /\ fdt[f].of = heap[u].m_child_pid
               /\ heap[u].m_child_pid \in Pids
  BY DEF Private, InShape, ClientShape, FileShape, PipeShape, Owns, Is,
         OutFileEntry, PipeEntry

LEMMA PrivateApart ==
  ASSUME TypeOK, Shaped, DescriptorsOwned, ChildrenApart,
         NEW u \in LiveUdatas, NEW v \in LiveUdatas, NEW f,
         f \in Private(heap[u]), f \in Private(heap[v])
  PROVE  u = v
  <1>1. InShape(heap[u]) /\ Owns(u) /\ InShape(heap[v]) /\ Owns(v)
    BY ObjectsParts
  <1>2. None \notin Pids
    BY Positive DEF None
  <1> QED
    BY <1>1, <1>2, PrivateKind DEF ChildrenApart

(***************************************************************************)
(* A step that is about one object and may make another.                   *)
(***************************************************************************)
\* v is a new reader.
Begins(v) ==
  /\ heap[v].st = "unused" /\ heap'[v].st = "live"
  /\ ClientShape(heap'[v]) /\ Owns(v)'

Moves(u) ==
  /\ \A v \in Udatas \ {u} : heap'[v] = heap[v] \/ Begins(v)
  /\ \A f \in Fds : \/ fdt'[f] = fdt[f] \/ f \in FreeFds
                    \/ u \in LiveUdatas /\ f \in Private(heap[u])

LEMMA MovesKeepOwners ==
  ASSUME TypeOK, Objects, NEW u \in Udatas, Moves(u),
         u \in LiveUdatas' =>
           /\ InShape(heap'[u]) /\ Owns(u)'
           /\ \/ heap'[u].m_child_pid = None
              \/ u \in LiveUdatas /\ heap'[u].m_child_pid = heap[u].m_child_pid
              \/ \A v \in LiveUdatas : heap[v].m_child_pid # heap'[u].m_child_pid,
         \A f \in Fds : f \in FreeFds \/ (u \in LiveUdatas /\ f \in Private(heap[u]))
                          => Held(f)'
  PROVE  Shaped' /\ DescriptorsOwned' /\ ChildrenApart' /\ FilesHeld'
  <1>1. ASSUME NEW v \in LiveUdatas', v # u
        PROVE  \/ /\ v \in LiveUdatas /\ heap'[v] = heap[v]
               \/ /\ Begins(v) /\ v \notin LiveUdatas
                  /\ heap'[v].m_child_pid = None
    BY <1>1 DEF Moves, LiveUdatas, Begins, ClientShape
  <1>2. ASSUME NEW v \in LiveUdatas, v # u
        PROVE  v \in LiveUdatas' /\ heap'[v] = heap[v]
    BY <1>2 DEF Moves, LiveUdatas, Begins
  <1>3. \A v \in LiveUdatas : InShape(heap[v]) /\ Owns(v) /\ LiveRecord(heap[v])
    BY ObjectsParts, LiveObject DEF Objects
  <1>4. Shaped'
    BY <1>1, <1>3, ObjectsPartsPrime DEF Begins, InShape
  <1>5. DescriptorsOwned'
    <2>1. ASSUME NEW v \in LiveUdatas, v # u
          PROVE  Owns(v)'
      <3>1. ASSUME NEW f \in Private(heap[v]) \cup {heap[v].m_client_sock}
            PROVE  fdt'[f] = fdt[f]
        <4>1. CASE f \in Private(heap[v])
          <5>1. f \in Fds /\ f \notin FreeFds
            BY <1>3, <4>1, PrivateKind DEF FreeFds
          <5>2. ~(u \in LiveUdatas /\ f \in Private(heap[u]))
            BY <2>1, <4>1, PrivateApart DEF Objects
          <5> QED
            BY <5>1, <5>2 DEF Moves
        <4>2. CASE f = heap[v].m_client_sock
          <5>1. f \in Fds /\ fdt[f].kind = "sock"
            <6>1. f \in Fds
              BY <1>3, <4>2 DEF LiveRecord
            <6>2. fdt[f] = SockEntry(heap[v].conn)
              BY <1>3, <4>2 DEF Owns
            <6> QED
              BY <6>1, <6>2 DEF SockEntry
          <5>2. f \notin FreeFds
            BY <5>1 DEF FreeFds
          <5>3. ~(u \in LiveUdatas /\ f \in Private(heap[u]))
            BY <1>3, <5>1, PrivateKind
          <5> QED
            BY <5>1, <5>2, <5>3 DEF Moves
        <4> QED
          BY <3>1, <4>1, <4>2
      <3>2. heap'[v] = heap[v] /\ Owns(v)
        BY <1>2, <1>3, <2>1
      <3> QED
        BY <3>1, <3>2 DEF Owns, Private, Is
    <2> QED
      BY <1>1, <2>1, ObjectsPartsPrime DEF Begins
  <1>6. ChildrenApart'
    <2> SUFFICES ASSUME NEW v \in LiveUdatas', NEW w \in LiveUdatas',
                        heap'[v].m_child_pid # None,
                        heap'[v].m_child_pid = heap'[w].m_child_pid
                 PROVE  v = w
      BY DEF ChildrenApart
    <2> QED
      BY <1>1 DEF ChildrenApart, Objects
  <1>7. FilesHeld'
    <2> SUFFICES ASSUME NEW f \in Fds, f \notin FreeFds,
                        ~(u \in LiveUdatas /\ f \in Private(heap[u]))
                 PROVE  Held(f)'
      BY ObjectsPartsPrime
    <2>1. fdt'[f] = fdt[f] /\ Held(f) /\ f # None
      BY ObjectsParts, Positive DEF Moves, Objects
    <2> QED
      BY <1>2, <2>1 DEF Held, Is, Private
  <1> QED
    BY <1>4, <1>5, <1>6, <1>7

(***************************************************************************)
(* m_udata_map and the sockets.                                            *)
(***************************************************************************)
LEMMA MapKept ==
  ASSUME MapExact, UNCHANGED m_udata_map,
         \A u \in Udatas : /\ heap'[u].st = "live" <=> heap[u].st = "live"
                           /\ heap[u].st = "live" =>
                                heap'[u].m_client_sock = heap[u].m_client_sock
  PROVE  MapExact'
  BY DEF MapExact, LiveUdatas

LEMMA MapAdded ==
  ASSUME TypeOK, MapExact, NEW n \in Udatas, NEW f \in Fds,
         heap[n].st = "unused", heap'[n].st = "live",
         heap'[n].m_client_sock = f, m_udata_map' = AddUdataMap(f, n),
         \A u \in Udatas \ {n} :
           /\ heap'[u].st = "live" <=> heap[u].st = "live"
           /\ heap[u].st = "live" => heap'[u].m_client_sock = heap[u].m_client_sock
  PROVE  MapExact'
  <1>1. f # ListenFd
    BY Positive
  <1>2. DOMAIN m_udata_map' = DOMAIN m_udata_map \cup {f}
    BY DEF AddUdataMap
  <1>3. \A g \in DOMAIN m_udata_map' : \A u :
          u \in m_udata_map'[g] <=>
            \/ g \in DOMAIN m_udata_map /\ u \in m_udata_map[g]
            \/ g = f /\ u = n
    BY DEF AddUdataMap
  <1>4. \A g \in DOMAIN m_udata_map \ {ListenFd} : m_udata_map[g] \subseteq Udatas
    BY TypeParts DEF MapType
  <1> QED
    BY <1>1, <1>2, <1>3, <1>4 DEF MapExact, LiveUdatas

LEMMA MapRemoved ==
  ASSUME TypeOK, MapExact, NEW u \in LiveUdatas, heap'[u].st = "freed",
         m_udata_map' = RemoveUdata(heap[u].m_client_sock, u),
         \A v \in Udatas \ {u} : heap'[v] = heap[v]
  PROVE  MapExact'
  <1>2. DOMAIN m_udata_map' = DOMAIN m_udata_map
    BY DEF RemoveUdata
  <1>3. \A g \in DOMAIN m_udata_map' : \A v :
          v \in m_udata_map'[g] <=>
            v \in m_udata_map[g] /\ ~(g = heap[u].m_client_sock /\ v = u)
    BY DEF RemoveUdata
  <1>4. \A g \in DOMAIN m_udata_map \ {ListenFd} : m_udata_map[g] \subseteq Udatas
    BY TypeParts DEF MapType
  <1> QED
    BY <1>2, <1>3, <1>4 DEF MapExact, LiveUdatas

\* No socket was opened or closed, and nobody's connection closed.
LEMMA SocketsKept ==
  ASSUME TypeOK, SocketsApart, DOMAIN m_udata_map \subseteq DOMAIN m_udata_map',
         \A f \in Fds : fdt'[f].kind = "sock" => fdt'[f] = fdt[f],
         \A c \in Conns : conn[c].st \in {"open", "fin", "reset"} =>
                            conn'[c].st \in {"open", "fin", "reset"}
  PROVE  SocketsApart'
  <1> SUFFICES ASSUME NEW f \in Fds, fdt'[f].kind = "sock"
               PROVE  /\ f \in DOMAIN m_udata_map'
                      /\ conn'[fdt'[f].of].st \in {"open", "fin", "reset"}
                      /\ \A g \in Fds : fdt'[g] = fdt'[f] => g = f
    BY DEF SocketsApart, Is
  <1>1. fdt'[f] = fdt[f] /\ \A g \in Fds : fdt'[g] = fdt'[f] => fdt'[g] = fdt[g]
    OBVIOUS
  <1>2. fdt[f].of \in Conns
    BY <1>1 DEF TypeOK, FdEntry
  <1> QED
    BY <1>1, <1>2 DEF SocketsApart, Is

\* What close() does to files and pipes.
LEMMA ClosesFiles ==
  ASSUME TypeOK, NEW F, Close(F), \A f \in F \cap Fds : fdt[f].kind # "sock"
  PROVE  /\ UNCHANGED conn
         /\ \A f \in Fds : fdt'[f] = IF f \in F THEN FreeEntry ELSE fdt[f]
         /\ knotes' = {k \in knotes : k.filter = "TIMER" \/ k.ident \notin F}
  <1>1. \A f \in F \cap Fds : \A c : fdt[f] # SockEntry(c)
    BY DEF SockEntry
  <1>2. conn' = [c \in Conns |-> conn[c]]
    BY <1>1 DEF Close
  <1>3. conn = [c \in Conns |-> conn[c]]
    BY DEF TypeOK
  <1> QED
    BY <1>2, <1>3 DEF Close

(***************************************************************************)
(* Steps that leave every object and descriptor to whom it was.            *)
(***************************************************************************)
SameObject(r, s) ==
  /\ s.st = r.st /\ s.m_type = r.m_type /\ s.conn = r.conn
  /\ s.m_client_sock = r.m_client_sock
  /\ s.static_read_file_fd = r.static_read_file_fd
  /\ s.static_write_file_fd = r.static_write_file_fd
  /\ s.m_read_pipe_fd = r.m_read_pipe_fd
  /\ s.m_write_pipe_fd = r.m_write_pipe_fd
  /\ s.m_child_pid = r.m_child_pid
  /\ s.req = r.req /\ s.kind = r.kind

SameEntry(d, e) ==
  e = d \/ (d.kind = "rfile" /\ e.kind = "rfile" /\ e.of = d.of)

Quiet ==
  /\ \A u \in Udatas : SameObject(heap[u], heap'[u])
  /\ \A f \in Fds : SameEntry(fdt[f], fdt'[f])
  /\ UNCHANGED m_udata_map

LEMMA QuietObjects ==
  ASSUME TypeOK, Objects, Quiet,
         \A c \in Conns : conn[c].st \in {"open", "fin", "reset"} =>
                            conn'[c].st \in {"open", "fin", "reset"}
  PROVE  Objects'
  <1>1. LiveUdatas' = LiveUdatas
    BY DEF LiveUdatas, Quiet, SameObject
  <1>2. \A u \in LiveUdatas : u \in Udatas /\ SameObject(heap[u], heap'[u])
    BY DEF LiveUdatas, Quiet
  <1>3. \A u \in LiveUdatas : InShape(heap[u]) /\ Owns(u) /\ LiveRecord(heap[u])
    BY ObjectsParts, LiveObject DEF Objects
  <1>4. Shaped'
    <2>1. ASSUME NEW u \in LiveUdatas
          PROVE  InShape(heap'[u])
      BY <1>2, <1>3 DEF SameObject, InShape, ClientShape, FileShape, PipeShape
    <2> QED
      BY <1>1, <2>1, ObjectsPartsPrime
  <1>5. DescriptorsOwned'
    <2>1. ASSUME NEW u \in LiveUdatas
          PROVE  Owns(u)'
      <3>1. \A f \in Private(heap[u]) \cup {heap[u].m_client_sock} :
              f \in Fds /\ SameEntry(fdt[f], fdt'[f])
        BY <1>3, PrivateKind DEF LiveRecord, Quiet
      <3>2. fdt'[heap[u].m_client_sock] = SockEntry(heap[u].conn)
        BY <1>3, <3>1 DEF SameEntry, Owns, SockEntry
      <3>3. heap[u].static_read_file_fd # None =>
              /\ Is(heap[u].static_read_file_fd, "rfile")'
              /\ fdt'[heap[u].static_read_file_fd].of = u
        BY <1>2, <1>3, <3>1 DEF SameEntry, Owns, Private, Is, SameObject
      <3>4. heap[u].static_write_file_fd # None =>
              fdt'[heap[u].static_write_file_fd] = OutFileEntry(u)
        BY <1>3, <3>1 DEF SameEntry, Owns, Private, OutFileEntry
      <3>a. \A p : /\ PipeEntry("piper", p).kind = "piper"
                    /\ PipeEntry("pipew", p).kind = "pipew"
        BY DEF PipeEntry
      <3>5. heap[u].m_read_pipe_fd # None =>
              fdt'[heap[u].m_read_pipe_fd] = PipeEntry("piper", heap[u].m_child_pid)
        BY <1>3, <3>1, <3>a DEF SameEntry, Owns, Private
      <3>6. heap[u].m_write_pipe_fd # None =>
              fdt'[heap[u].m_write_pipe_fd] = PipeEntry("pipew", heap[u].m_child_pid)
        BY <1>3, <3>1, <3>a DEF SameEntry, Owns, Private
      <3> QED
        BY <1>2, <3>2, <3>3, <3>4, <3>5, <3>6 DEF Owns, SameObject, Is
    <2> QED
      BY <1>1, <2>1, ObjectsPartsPrime
  <1>6. ChildrenApart'
    BY <1>1, <1>2 DEF ChildrenApart, SameObject, Objects
  <1>7. FilesHeld'
    <2>1. ASSUME NEW f \in Fds
          PROVE  Held(f)'
      <3>1. Held(f) /\ SameEntry(fdt[f], fdt'[f])
        BY ObjectsParts DEF Objects, Quiet
      <3>2. fdt'[f].kind = fdt[f].kind /\ fdt'[f].of = fdt[f].of
        BY <3>1 DEF SameEntry
      <3> QED
        BY <1>1, <1>2, <3>1, <3>2 DEF Held, Is, SameObject
    <2> QED
      BY <2>1, ObjectsPartsPrime
  <1>8. SocketsApart'
    <2>1. \A f \in Fds : fdt'[f].kind = "sock" => fdt'[f] = fdt[f]
      BY DEF Quiet, SameEntry
    <2> QED
      BY <2>1, SocketsKept DEF Objects, Quiet
  <1>9. MapExact'
    BY MapKept DEF Objects, Quiet, SameObject
  <1> QED
    BY <1>4, <1>5, <1>6, <1>7, <1>8, <1>9 DEF Objects

(***************************************************************************)
(* What the handlers do to objects and descriptors.                        *)
(***************************************************************************)
\* The object an event is for waits for just that event.
LEMMA Handled ==
  ASSUME TypeOK, Accounts, NEW e \in event_list, NEW filter, NEW type,
         HandledAs(e, filter, type), filter # "TIMER"
  PROVE  LET u == e.udata
             r == heap[u]
         IN /\ u \in Udatas /\ u \in LiveUdatas /\ LiveRecord(r) /\ e.ident \in Fds
            /\ r.m_type = type /\ e.filter = filter
            /\ <<e.ident, filter>> \in Filters(r) /\ e.ident # None
            /\ InShape(r) /\ Owns(u)
  <1>1. e \in Event /\ e.udata \in Udatas /\ e.udata # ServerUdata
    BY Positive DEF TypeOK, HandledAs, ServerUdata
  <1>2. e.ident \in Fds /\ LiveRecord(heap[e.udata])
    BY <1>1, HandledAsTypes
  <1>3. Proper(heap, e)
    BY DEF Accounts, BatchKept, BatchProper, Batch
  <1> QED
    BY <1>1, <1>2, <1>3, ObjectsParts
    DEF Proper, Mine, HandledAs, LiveUdatas, Accounts, Objects

\* u answers: it is a writer now, and its files or pipes X are closed.
Answers(u, X, s) ==
  /\ u \in LiveUdatas /\ heap[u].m_type # "CLIENT" /\ heap[u].req # 0
  /\ Private(heap[u]) = X
  /\ ClientShape(heap'[u]) /\ SameRequest(heap[u], heap'[u])
  /\ \A v \in Udatas \ {u} : heap'[v] = heap[v]
  /\ \A f \in Fds : fdt'[f] = IF f \in X THEN FreeEntry ELSE fdt[f]
  /\ knotes' = {k \in knotes : k.filter = "TIMER" \/ k.ident \notin X}
  /\ s \in Seq(Change) /\ change_list' = change_list \o s
  /\ UNCHANGED <<m_udata_map, m_fd_set, conn>>

LEMMA SocketsOwned ==
  ASSUME NEW u, Owns(u), LiveRecord(heap[u])
  PROVE  /\ heap[u].m_client_sock \in Fds
         /\ fdt[heap[u].m_client_sock] = SockEntry(heap[u].conn)
         /\ fdt[heap[u].m_client_sock].kind = "sock"
  <1>1. fdt[heap[u].m_client_sock] = SockEntry(heap[u].conn)
    BY DEF Owns
  <1> QED
    BY <1>1 DEF LiveRecord, SockEntry

LEMMA FreeEntryKind == FreeEntry.kind = "free"
  BY DEF FreeEntry

\* A writer owns its socket only.
LEMMA ClientOwns ==
  ASSUME NEW u \in Udatas, NEW s \in Udatas, ClientShape(heap'[u]),
         heap'[u].m_client_sock = heap[s].m_client_sock,
         heap'[u].conn = heap[s].conn,
         fdt'[heap[s].m_client_sock] = SockEntry(heap[s].conn)
  PROVE  Owns(u)'
  BY DEF Owns, ClientShape

LEMMA AnswersObjects ==
  ASSUME TypeOK, Accounts, NEW u, NEW X, NEW s, Answers(u, X, s)
  PROVE  Objects'
  <1>1. /\ u \in Udatas /\ u \in LiveUdatas /\ LiveRecord(heap[u])
        /\ InShape(heap[u]) /\ Owns(u) /\ Objects
    BY LiveObject, ObjectsParts DEF Answers, Accounts, Objects
  <1>2. \A f \in X : f \in Fds /\ fdt[f].kind # "sock"
    BY <1>1, PrivateKind DEF Answers
  <1>3. Moves(u)
    BY <1>1 DEF Answers, Moves
  <1>4. Owns(u)'
    <2>1. fdt'[heap[u].m_client_sock] = SockEntry(heap[u].conn)
      BY <1>1, <1>2, SocketsOwned DEF Answers
    <2> QED
      BY <1>1, <2>1, ClientOwns DEF Answers, SameRequest
  <1>5. InShape(heap'[u]) /\ heap'[u].m_child_pid = None
    BY DEF Answers, InShape, ClientShape
  <1>6. ASSUME NEW f \in Fds, f \in FreeFds \/ f \in Private(heap[u])
        PROVE  Held(f)'
    <2>1. fdt'[f].kind = "free"
      BY <1>6, FreeEntryKind DEF Answers, FreeFds
    <2> QED
      BY <2>1 DEF Held, Is
  <1>7. Shaped' /\ DescriptorsOwned' /\ ChildrenApart' /\ FilesHeld'
    BY <1>1, <1>3, <1>4, <1>5, <1>6, MovesKeepOwners
  <1>8. SocketsApart'
    <2>1. \A f \in Fds : fdt'[f].kind = "sock" => fdt'[f] = fdt[f]
      BY FreeEntryKind DEF Answers
    <2> QED
      BY <1>1, <2>1, SocketsKept DEF Objects, Answers
  <1>9. MapExact'
    <2>1. heap'[u].st = "live" /\ heap'[u].m_client_sock = heap[u].m_client_sock
      BY DEF Answers, SameRequest
    <2>2. \A v \in Udatas : /\ heap'[v].st = "live" <=> heap[v].st = "live"
                            /\ heap[v].st = "live" =>
                                heap'[v].m_client_sock = heap[v].m_client_sock
      BY <1>1, <2>1 DEF Answers, LiveUdatas
    <2> QED
      BY <1>1, <2>2, MapKept DEF Objects, Answers
  <1> QED
    BY <1>7, <1>8, <1>9 DEF Objects

\* u is deleted, and its files and pipes are closed.
Frees(u, s) ==
  /\ u \in LiveUdatas
  /\ heap'[u].st = "freed"
  /\ \A v \in Udatas \ {u} : heap'[v] = heap[v]
  /\ \A f \in Fds : fdt'[f] = IF f \in Private(heap[u]) THEN FreeEntry ELSE fdt[f]
  /\ knotes' = {k \in knotes : k.filter = "TIMER" \/ k.ident \notin Private(heap[u])}
  /\ s \in Seq(Change) /\ change_list' = change_list \o s
  /\ m_udata_map' = RemoveUdata(heap[u].m_client_sock, u)
  /\ \A c \in Conns : conn'[c].st = conn[c].st
  /\ UNCHANGED m_fd_set

LEMMA FreesObjects ==
  ASSUME TypeOK, Accounts, NEW u, NEW s, Frees(u, s)
  PROVE  Objects'
  <1>1. /\ u \in Udatas /\ u \in LiveUdatas /\ LiveRecord(heap[u])
        /\ InShape(heap[u]) /\ Owns(u) /\ Objects
    BY LiveObject, ObjectsParts DEF Frees, Accounts, Objects
  <1>2. u \notin LiveUdatas'
    BY DEF Frees, LiveUdatas
  <1>3. Moves(u)
    BY <1>1 DEF Frees, Moves
  <1>6. ASSUME NEW f \in Fds, f \in FreeFds \/ f \in Private(heap[u])
        PROVE  Held(f)'
    <2>1. fdt'[f].kind = "free"
      BY <1>6, FreeEntryKind DEF Frees, FreeFds
    <2> QED
      BY <2>1 DEF Held, Is
  <1>7. Shaped' /\ DescriptorsOwned' /\ ChildrenApart' /\ FilesHeld'
    BY <1>1, <1>2, <1>3, <1>6, MovesKeepOwners
  <1>8. SocketsApart'
    <2>1. \A f \in Fds : fdt'[f].kind = "sock" => fdt'[f] = fdt[f]
      BY FreeEntryKind DEF Frees
    <2>2. DOMAIN m_udata_map' = DOMAIN m_udata_map
      BY DEF Frees, RemoveUdata
    <2>3. \A f \in Fds : fdt[f].kind = "sock" => fdt[f].of \in Conns
      BY DEF TypeOK, FdEntry
    <2> QED
      BY <1>1, <2>1, <2>2, <2>3 DEF Objects, Frees, SocketsApart, Is
  <1>9. MapExact'
    BY <1>1, MapRemoved DEF Objects, Frees
  <1> QED
    BY <1>7, <1>8, <1>9 DEF Objects

(***************************************************************************)
(* Requests.                                                               *)
(***************************************************************************)
\* u was a reader, its request is served and n reads on.
Serves(u, n, s) ==
  LET r == heap[u] IN
  /\ u \in LiveUdatas /\ ClientShape(r) /\ r.req = 0
  /\ BecomesWithReader(u, heap'[u], n, r.conn, r.m_client_sock)
  /\ heap'[u].st = "live" /\ heap'[u].m_client_sock = r.m_client_sock
  /\ heap'[u].conn = r.conn /\ heap'[u].req # 0
  /\ Served(u, r.m_client_sock, heap'[u], s)
  /\ m_udata_map' = AddUdataMap(r.m_client_sock, n)
  /\ s \in Seq(Change)
  /\ change_list' = change_list \o (s \o <<Add(r.m_client_sock, "READ", n)>>)
  /\ conn' = [conn EXCEPT ![r.conn].rcvd = conn[r.conn].sent]
  /\ UNCHANGED <<m_fd_set, knotes>>

\* What a reader that was given data has become.
LEMMA ReadBufferFields ==
  ASSUME NEW r, LiveRecord(r), r.req = 0, ClientShape(r), NEW c
  PROVE  LET q == ReadBuffer(r, c) IN
         /\ q.st = "live" /\ q.m_client_sock = r.m_client_sock /\ q.conn = r.conn
         /\ ClientShape(q) /\ q.kind = "none"
         /\ q.req = 0 => SameObject(r, q)
  <1> DEFINE first == IF r.first = 0 THEN conn[c].rcvd + 1 ELSE r.first
             n == RequestAt(first)
             done == IF n # 0 /\ conn[c].sent >= n * Segments THEN n ELSE 0
  <1>1. ReadBuffer(r, c) = [r EXCEPT !.first = first, !.req = done]
    BY DEF ReadBuffer
  <1> HIDE DEF first, done
  <1> QED
    BY <1>1 DEF LiveRecord, UdataRecord, ClientShape, SameObject

\* What recv() leaves of the connection.
Received(c) == conn' = [conn EXCEPT ![c].rcvd = conn[c].sent]

LEMMA ClientReadEffect ==
  ASSUME TypeOK, Orderly, Accounts, NEW e, ClientReadEvent(e)
  PROVE  LET u == e.udata IN
         /\ e \in event_list /\ u \in LiveUdatas
         /\ e.ident = heap[u].m_client_sock /\ e.filter = "READ"
         /\ \/ /\ ClientReadEof(e)
               /\ conn[heap[u].conn].st \in {"fin", "reset"}
            \/ /\ Quiet /\ Received(heap[u].conn)
               /\ UNCHANGED <<m_fd_set, change_list, fdt, knotes, proc>>
            \/ \E n \in Udatas, s \in Seq(Change) : Serves(u, n, s)
  <1> DEFINE u == e.udata
             r == heap[u]
  <1>1. e \in event_list /\ HandledAs(e, "READ", "CLIENT") /\ knotes' = knotes
    BY DEF ClientReadEvent, Dispatch
  <1>2. /\ u \in Udatas /\ u \in LiveUdatas /\ LiveRecord(r) /\ e.ident \in Fds
        /\ r.m_type = "CLIENT" /\ e.filter = "READ"
        /\ <<e.ident, "READ">> \in Filters(r) /\ InShape(r) /\ Owns(u)
    BY <1>1, Handled
  <1>3. /\ ClientShape(r) /\ r.req = 0 /\ r.kind = "none"
        /\ e.ident = r.m_client_sock
    BY <1>2 DEF InShape, ClientShape, FileShape, PipeShape, Filters
  <1>4. Is(e.ident, "sock") /\ fdt[e.ident].of = r.conn
    <2>1. fdt[e.ident] = SockEntry(r.conn) /\ e.ident \in Fds
      BY <1>2, <1>3, SocketsOwned
    <2>2. SockEntry(r.conn).kind = "sock" /\ SockEntry(r.conn).of = r.conn
      BY DEF SockEntry
    <2> QED
      BY <2>1, <2>2 DEF Is
  <1>5. StillReady(e)
    BY <1>1 DEF Accounts, BatchKept, BatchReady, Batch
  <1>6. CASE ClientReadEof(e)
    <2>1. conn[r.conn].st \in {"fin", "reset"}
      BY <1>2, <1>4, <1>5, <1>6 DEF StillReady, ClientReadEof
    <2> QED
      BY <1>1, <1>2, <1>3, <1>6, <2>1
  <1>7. CASE ClientReadData(e)
    <2>1. ~e.eof /\ CanReceive(e.ident)
      BY <1>2, <1>4, <1>5, <1>7 DEF StillReady, ClientReadData, CanReceive
    <2> DEFINE q == ReadBuffer(r, r.conn)
    <2>2. /\ Received(r.conn) /\ UNCHANGED m_fd_set
          /\ IF q.req = 0
               THEN /\ heap' = [heap EXCEPT ![u] = q]
                    /\ UNCHANGED <<m_udata_map, change_list, fdt, proc>>
               ELSE ProcessRequest(q, u, e.ident, r.conn)
      BY <1>4, <1>7, <2>1 DEF ClientReadData, Received
    <2>3. LiveRecord(q)
      BY <1>2, <1>4, <2>1, ReadBufferTypes DEF CanReceive, LiveRecord
    <2>4. /\ q.m_client_sock = r.m_client_sock /\ q.conn = r.conn
          /\ ClientShape(q) /\ q.kind = "none"
          /\ q.req = 0 => SameObject(r, q)
      BY <1>2, <1>3, ReadBufferFields
    <2> HIDE DEF q
    <2>5. CASE q.req = 0
      <3>1. heap' = [heap EXCEPT ![u] = q] /\ UNCHANGED <<m_udata_map, fdt>>
        BY <2>2, <2>5
      <3>2. heap'[u] = q /\ \A v \in Udatas \ {u} : heap'[v] = heap[v]
        BY <1>2, <3>1 DEF TypeOK
      <3>3. Quiet
        BY <2>4, <2>5, <3>1, <3>2 DEF Quiet, SameObject, SameEntry
      <3> QED
        BY <1>1, <1>2, <1>3, <2>2, <2>5, <3>3
    <2>6. CASE q.req # 0
      <3>1. ProcessRequest(q, u, e.ident, r.conn)
        BY <2>2, <2>6
      <3>2. heap[u].st = "live" /\ r.conn \in Conns
        BY <1>2 DEF LiveRecord
      <3>3. PICK n \in Udatas, s \in Seq(Change) : \E r1 :
              /\ BecomesWithReader(u, r1, n, r.conn, e.ident) /\ SameRequest(q, r1)
              /\ m_udata_map' = AddUdataMap(e.ident, n)
              /\ change_list' = change_list \o (s \o <<Add(e.ident, "READ", n)>>)
              /\ Served(u, e.ident, r1, s)
        BY <1>2, <2>3, <2>4, <2>6, <3>1, <3>2, ServedEffect
      <3>4. PICK r1 :
              /\ BecomesWithReader(u, r1, n, r.conn, e.ident) /\ SameRequest(q, r1)
              /\ m_udata_map' = AddUdataMap(e.ident, n)
              /\ change_list' = change_list \o (s \o <<Add(e.ident, "READ", n)>>)
              /\ Served(u, e.ident, r1, s)
        BY <3>3
      <3>5. heap'[u] = r1
        BY <3>4 DEF BecomesWithReader
      <3>6. Serves(u, n, s)
        BY <1>1, <1>2, <1>3, <2>2, <2>4, <2>6, <3>4, <3>5
        DEF Serves, SameRequest, Received
      <3> QED
        BY <1>1, <1>2, <1>3, <3>6
    <2> QED
      BY <2>5, <2>6
  <1> QED
    BY <1>6, <1>7 DEF ClientReadEvent

LEMMA PrivateOfReader ==
  ASSUME NEW r, ClientShape(r)
  PROVE  Private(r) = {}
  BY DEF Private, ClientShape

\* Descriptors opened for a request belong to it.
LEMMA ServesOwner ==
  ASSUME TypeOK, Accounts, NEW u, NEW n \in Udatas, NEW s, Serves(u, n, s)
  PROVE  /\ InShape(heap'[u]) /\ Owns(u)' /\ Owns(n)'
         /\ \A f \in Fds : fdt'[f] = fdt[f] \/ f \in FreeFds
         /\ \A f \in FreeFds : Held(f)' /\ fdt'[f].kind # "sock"
         /\ \/ heap'[u].m_child_pid = None
            \/ heap'[u].m_child_pid \in Pids /\ proc[heap'[u].m_child_pid].st = "none"
  <1> DEFINE r == heap'[u]
             sock == heap[u].m_client_sock
  <1>1. /\ u \in Udatas /\ LiveRecord(heap[u]) /\ Owns(u)
        /\ sock \in Fds /\ fdt[sock] = SockEntry(heap[u].conn) /\ sock \notin FreeFds
    <2>1. u \in Udatas /\ LiveRecord(heap[u]) /\ Owns(u)
      BY LiveObject, ObjectsParts DEF Serves, Accounts, Objects
    <2> QED
      BY <2>1, SocketsOwned DEF FreeFds
  <1>2. /\ r.m_client_sock = sock /\ r.conn = heap[u].conn /\ r.st = "live"
        /\ n # u /\ heap'[n] = NewUdata(heap[u].conn, sock)
        /\ Served(u, sock, r, s)
    BY DEF Serves, BecomesWithReader
  <1>3. u \in LiveUdatas'
    BY <1>1, <1>2 DEF LiveUdatas
  <1>4. heap[u].conn \in Conns
    BY <1>1 DEF LiveRecord
  <1>5. /\ ClientShape(heap'[n]) /\ heap'[n].m_client_sock = sock
        /\ heap'[n].conn = heap[u].conn
    BY <1>1, <1>2, <1>4, NewReader
  <1>6. /\ \A f \in FreeFds : fdt[f].kind = "free" /\ f \in Fds /\ f # None
        /\ None \notin Fds
    BY Positive DEF FreeFds
  <1> SUFFICES /\ InShape(r) /\ Owns(u)'
               /\ \A f \in Fds : fdt'[f] = fdt[f] \/ f \in FreeFds
               /\ \A f \in FreeFds : Held(f)' /\ fdt'[f].kind # "sock"
               /\ \/ r.m_child_pid = None
                  \/ r.m_child_pid \in Pids /\ proc[r.m_child_pid].st = "none"
    BY <1>1, <1>5, ClientOwns
  <1>7. CASE ServedInline(u, sock, r, s)
    <2>1. ClientShape(r) /\ fdt' = fdt
      BY <1>7 DEF ServedInline
    <2>2. Owns(u)'
      BY <1>1, <1>2, <2>1, ClientOwns
    <2> QED
      BY <1>6, <2>1, <2>2 DEF InShape, ClientShape, Held, Is
  <1>8. CASE ServedFile(u, r, s)
    <2>1. FileShape(r)
      BY <1>8 DEF ServedFile
    <2>2. CASE /\ r.static_read_file_fd \in FreeFds
               /\ fdt' = [fdt EXCEPT ![r.static_read_file_fd] = FileEntry(u)]
      <3> DEFINE f == r.static_read_file_fd
      <3>1. /\ f \in Fds /\ fdt'[f] = FileEntry(u) /\ f # sock
            /\ \A g \in Fds \ {f} : fdt'[g] = fdt[g]
        BY <1>1, <1>6, <2>2 DEF TypeOK
      <3>2. fdt'[f].kind = "rfile" /\ fdt'[f].of = u
        BY <3>1 DEF FileEntry
      <3>3. r.static_write_file_fd = None
        BY <1>6, <2>1, <2>2 DEF FileShape
      <3>4. Owns(u)'
        BY <1>1, <1>2, <2>1, <3>1, <3>2, <3>3 DEF Owns, FileShape, Is
      <3>5. \A g \in FreeFds : Held(g)' /\ fdt'[g].kind # "sock"
        BY <1>3, <1>6, <3>1, <3>2 DEF Held, Is
      <3> QED
        BY <2>1, <2>2, <3>1, <3>4, <3>5 DEF InShape, FileShape
    <2>3. CASE /\ r.static_write_file_fd \in FreeFds
               /\ fdt' = [fdt EXCEPT ![r.static_write_file_fd] = OutFileEntry(u)]
      <3> DEFINE f == r.static_write_file_fd
      <3>1. /\ f \in Fds /\ fdt'[f] = OutFileEntry(u) /\ f # sock
            /\ \A g \in Fds \ {f} : fdt'[g] = fdt[g]
        BY <1>1, <1>6, <2>3 DEF TypeOK
      <3>2. fdt'[f].kind = "wfile" /\ fdt'[f].of = u
        BY <3>1 DEF OutFileEntry
      <3>3. r.static_read_file_fd = None
        BY <1>6, <2>1, <2>3 DEF FileShape
      <3>4. Owns(u)'
        BY <1>1, <1>2, <2>1, <3>1, <3>3 DEF Owns, FileShape
      <3>5. \A g \in FreeFds : Held(g)' /\ fdt'[g].kind # "sock"
        BY <1>3, <1>6, <3>1, <3>2 DEF Held, Is
      <3> QED
        BY <2>1, <2>3, <3>1, <3>4, <3>5 DEF InShape, FileShape
    <2> QED
      BY <1>8, <2>2, <2>3 DEF ServedFile
  <1>9. CASE ServedCgi(u, r, s)
    <2> DEFINE p == r.m_child_pid
               rfd == r.m_read_pipe_fd
               wfd == r.m_write_pipe_fd
    <2>1. /\ PipeShape(r) /\ rfd \in FreeFds /\ wfd \in FreeFds \cup {None}
          /\ rfd # wfd /\ proc[p].st = "none"
          /\ \A f \in Fds : fdt'[f] = IF f = rfd THEN PipeEntry("piper", p)
                                      ELSE IF f = wfd THEN PipeEntry("pipew", p)
                                      ELSE fdt[f]
      BY <1>9 DEF ServedCgi
    <2>2. /\ fdt'[rfd] = PipeEntry("piper", p) /\ fdt'[sock] = fdt[sock]
          /\ wfd # None => fdt'[wfd] = PipeEntry("pipew", p)
          /\ PipeEntry("piper", p).kind = "piper"
          /\ PipeEntry("pipew", p).kind = "pipew"
      <3>1. /\ PipeEntry("piper", p).kind = "piper"
            /\ PipeEntry("pipew", p).kind = "pipew"
        BY DEF PipeEntry
      <3>2. sock # rfd /\ sock # wfd /\ (wfd # None => wfd \in Fds) /\ rfd \in Fds
        BY <1>1, <1>6, <2>1
      <3> QED
        BY <1>1, <2>1, <3>1, <3>2
    <2>3. Owns(u)'
      BY <1>1, <1>2, <2>1, <2>2 DEF Owns, PipeShape
    <2>4. ASSUME NEW f \in FreeFds PROVE Held(f)' /\ fdt'[f].kind # "sock"
      BY <1>3, <1>6, <2>1, <2>2 DEF Held, Is
    <2>5. \A f \in Fds : fdt'[f] = fdt[f] \/ f \in FreeFds
      BY <1>6, <2>1
    <2>6. InShape(r) /\ p \in Pids
      BY <2>1 DEF InShape, PipeShape
    <2> QED
      BY <2>1, <2>3, <2>4, <2>5, <2>6
  <1> QED
    BY <1>2, <1>7, <1>8, <1>9 DEF Served

LEMMA ServesObjects ==
  ASSUME TypeOK, Accounts, NEW u, NEW n \in Udatas, NEW s, Serves(u, n, s)
  PROVE  Objects'
  <1> DEFINE sock == heap[u].m_client_sock
  <1>1. /\ u \in Udatas /\ u \in LiveUdatas /\ LiveRecord(heap[u]) /\ sock \in Fds
        /\ Objects
    BY LiveObject DEF Serves, Accounts, LiveRecord
  <1>2. /\ InShape(heap'[u]) /\ Owns(u)' /\ Owns(n)'
        /\ \A f \in Fds : fdt'[f] = fdt[f] \/ f \in FreeFds
        /\ \A f \in FreeFds : Held(f)' /\ fdt'[f].kind # "sock"
        /\ \/ heap'[u].m_child_pid = None
           \/ heap'[u].m_child_pid \in Pids /\ proc[heap'[u].m_child_pid].st = "none"
    BY ServesOwner
  <1>3. /\ n # u /\ heap[n].st = "unused"
        /\ heap'[n] = NewUdata(heap[u].conn, sock)
        /\ \A v \in Udatas \ {u, n} : heap'[v] = heap[v]
        /\ heap'[u].st = "live" /\ heap'[u].m_client_sock = sock
    BY DEF Serves, BecomesWithReader
  <1>4. /\ ClientShape(heap'[n]) /\ heap'[n].st = "live"
        /\ heap'[n].m_client_sock = sock
    <2>1. heap[u].conn \in Conns
      BY <1>1 DEF LiveRecord
    <2> QED
      BY <1>1, <1>3, <2>1, NewReader DEF LiveRecord
  <1>5. Moves(u)
    BY <1>2, <1>3, <1>4 DEF Moves, Begins
  <1>6. \/ heap'[u].m_child_pid = None
        \/ \A v \in LiveUdatas : heap[v].m_child_pid # heap'[u].m_child_pid
    <2>1. \A v \in LiveUdatas : heap[v].m_child_pid # None =>
            proc[heap[v].m_child_pid].st # "none"
      BY DEF Accounts, ChildrenKept, Alive, Zombie
    <2> QED
      BY <1>2, <2>1
  <1>7. \A f \in Private(heap[u]) : FALSE
    BY PrivateOfReader DEF Serves
  <1>8. Shaped' /\ DescriptorsOwned' /\ ChildrenApart' /\ FilesHeld'
    BY <1>1, <1>2, <1>5, <1>6, <1>7, MovesKeepOwners
  <1>9. SocketsApart'
    <2>1. DOMAIN m_udata_map \subseteq DOMAIN m_udata_map'
      BY DEF Serves, AddUdataMap
    <2>2. \A c : conn'[c].st = conn[c].st
      BY DEF Serves, TypeOK, ConnRecord
    <2> QED
      BY <1>1, <1>2, <2>1, <2>2, SocketsKept DEF Objects
  <1>10. MapExact'
    <2>1. \A v \in Udatas \ {n} :
            /\ heap'[v].st = "live" <=> heap[v].st = "live"
            /\ heap[v].st = "live" => heap'[v].m_client_sock = heap[v].m_client_sock
      BY <1>1, <1>3 DEF LiveUdatas
    <2>2. m_udata_map' = AddUdataMap(sock, n)
      BY DEF Serves
    <2> QED
      BY <1>1, <1>3, <1>4, <2>1, <2>2, MapAdded DEF Objects
  <1> QED
    BY <1>8, <1>9, <1>10 DEF Objects

(***************************************************************************)
(* New clients.                                                            *)
(***************************************************************************)
\* c is given the descriptor f and the reader n.
Admits(c, f, n) ==
  /\ c \in Conns /\ conn[c].st = "backlog" /\ f \in FreeFds
  /\ n \in Udatas /\ heap[n].st = "unused" /\ heap'[n] = NewUdata(c, f)
  /\ \A v \in Udatas \ {n} : heap'[v] = heap[v]
  /\ \A g \in Fds : fdt'[g] = IF g = f THEN SockEntry(c) ELSE fdt[g]
  /\ conn' = [conn EXCEPT ![c].st = "open"]
  /\ m_udata_map' = AddUdataMap(f, n)
  /\ change_list' = change_list \o <<Add(f, "READ", n)>>
  /\ <<Add(f, "READ", n)>> \in Seq(Change)
  /\ UNCHANGED <<m_fd_set, knotes, proc>>

LEMMA AcceptEffect ==
  ASSUME TypeOK, Accept
  PROVE  \/ \E c \in Conns, f \in Fds, n \in Udatas : Admits(c, f, n)
         \/ /\ Quiet
            /\ \/ UNCHANGED conn
               \/ \E c \in Conns : /\ conn[c].st = "backlog"
                                   /\ conn' = [conn EXCEPT ![c].st = "closed"]
            /\ UNCHANGED <<heap, m_fd_set, change_list, fdt, knotes, proc>>
  <1>1. PICK c \in Conns : /\ conn[c].st = "backlog"
                           /\ RegisterClient(c) \/ RefuseClient(c)
    BY DEF Accept, Backlog
  <1>2. CASE RegisterClient(c)
    <2>1. PICK f \in Fds, n \in Udatas :
            /\ Lowest(f, 0) /\ Fresh(n)
            /\ fdt' = [fdt EXCEPT ![f] = SockEntry(c)]
            /\ conn' = [conn EXCEPT ![c].st = "open"]
            /\ heap' = [heap EXCEPT ![n] = NewUdata(c, f)]
            /\ m_udata_map' = AddUdataMap(f, n)
            /\ Push(<<Add(f, "READ", n)>>)
      BY <1>2 DEF RegisterClient
    <2>2. <<Add(f, "READ", n)>> \in Seq(Change)
      BY OneChange, None \in PidOrNone DEF FdOrNone, PidOrNone
    <2>3. heap'[n] = NewUdata(c, f) /\ \A v \in Udatas \ {n} : heap'[v] = heap[v]
      BY <2>1 DEF TypeOK
    <2>4. \A g \in Fds : fdt'[g] = IF g = f THEN SockEntry(c) ELSE fdt[g]
      BY <2>1 DEF TypeOK
    <2>5. f \in FreeFds /\ heap[n].st = "unused"
      BY <2>1 DEF Lowest, Fresh
    <2>6. Admits(c, f, n)
      BY <1>1, <2>1, <2>2, <2>3, <2>4, <2>5 DEF Admits, Push, Accept
    <2> QED
      BY <2>6
  <1>3. CASE RefuseClient(c)
    <2>1. UNCHANGED <<heap, fdt, m_udata_map>>
      BY <1>3 DEF RefuseClient
    <2>2. Quiet
      BY <2>1 DEF Quiet, SameObject, SameEntry
    <2> QED
      BY <1>1, <1>3, <2>2 DEF RefuseClient, Accept
  <1> QED
    BY <1>1, <1>2, <1>3

LEMMA AdmitsObjects ==
  ASSUME TypeOK, Accounts, NEW c, NEW f, NEW n, Admits(c, f, n)
  PROVE  Objects'
  <1>1. /\ c \in Conns /\ f \in Fds /\ f \in FreeFds /\ n \in Udatas
        /\ heap[n].st = "unused" /\ n \notin LiveUdatas /\ Objects
        /\ fdt'[f] = SockEntry(c) /\ SockEntry(c).kind = "sock"
    BY DEF Admits, FreeFds, LiveUdatas, Accounts, SockEntry
  <1>2. /\ LiveRecord(heap'[n]) /\ ClientShape(heap'[n])
        /\ heap'[n].m_client_sock = f /\ heap'[n].conn = c
    BY <1>1, NewReader DEF Admits
  <1>3. /\ heap'[n].st = "live" /\ heap'[n].m_child_pid = None
        /\ InShape(heap'[n]) /\ Owns(n)'
    BY <1>1, <1>2 DEF LiveRecord, ClientShape, InShape, Owns
  <1>4. Moves(n)
    BY DEF Admits, Moves
  <1>5. ASSUME NEW g \in Fds, g \in FreeFds
        PROVE  Held(g)'
    <2>1. fdt'[g].kind \in {"sock", "free"}
      BY <1>1, <1>5 DEF Admits, FreeFds
    <2> QED
      BY <2>1 DEF Held, Is
  <1>6. Shaped' /\ DescriptorsOwned' /\ ChildrenApart' /\ FilesHeld'
    BY <1>1, <1>3, <1>4, <1>5, MovesKeepOwners
  <1>7. SocketsApart'
    <2>1. DOMAIN m_udata_map' = DOMAIN m_udata_map \cup {f}
      BY DEF Admits, AddUdataMap
    <2>2. /\ conn'[c].st = "open"
          /\ \A d \in Conns \ {c} : conn'[d].st = conn[d].st
      BY <1>1 DEF Admits, TypeOK, ConnRecord
    <2>3. \A g \in Fds \ {f} : fdt'[g] = fdt[g]
      BY DEF Admits
    <2>4. \A g \in Fds : fdt[g].kind = "sock" => fdt[g].of \in Conns \ {c}
      <3>1. \A g \in Fds : fdt[g].kind = "sock" => fdt[g].of \in Conns
        BY DEF TypeOK, FdEntry
      <3> QED
        BY <1>1, <3>1 DEF Objects, SocketsApart, Is, Admits
    <2>5. \A g \in Fds : fdt[g].kind = "sock" => fdt[g] # SockEntry(c)
      BY <2>4 DEF SockEntry
    <2>6. SockEntry(c).of = c
      BY DEF SockEntry
    <2> SUFFICES ASSUME NEW g \in Fds, fdt'[g].kind = "sock"
                 PROVE  /\ g \in DOMAIN m_udata_map'
                        /\ conn'[fdt'[g].of].st \in {"open", "fin", "reset"}
                        /\ \A h \in Fds : fdt'[h] = fdt'[g] => h = g
      BY DEF SocketsApart, Is
    <2>7. CASE g = f
      <3>1. \A h \in Fds \ {f} : fdt[h] # SockEntry(c)
        BY <1>1, <2>5
      <3> QED
        BY <1>1, <2>1, <2>2, <2>3, <2>6, <2>7, <3>1
    <2>8. CASE g # f
      <3>1. /\ fdt'[g] = fdt[g] /\ fdt[g] # SockEntry(c)
            /\ fdt[g].of \in Conns \ {c}
        BY <2>3, <2>4, <2>5, <2>8
      <3>2. /\ g \in DOMAIN m_udata_map /\ conn[fdt[g].of].st \in {"open", "fin", "reset"}
            /\ \A h \in Fds : fdt[h] = fdt[g] => h = g
        BY <1>1, <2>8, <3>1 DEF Objects, SocketsApart, Is
      <3> QED
        BY <1>1, <2>1, <2>2, <2>3, <2>8, <3>1, <3>2
    <2> QED
      BY <2>7, <2>8
  <1>8. MapExact'
    BY <1>1, <1>2, <1>3, MapAdded DEF Admits, Objects
  <1> QED
    BY <1>6, <1>7, <1>8 DEF Objects

(***************************************************************************)
(* Responses are written.                                                  *)
(***************************************************************************)
\* c was sent something: only what it was sent, and whether it has room, change.
Written(c) ==
  \A d \in Conns :
    /\ conn'[d].st = conn[d].st /\ conn'[d].sent = conn[d].sent
    /\ conn'[d].rcvd = conn[d].rcvd
    /\ d # c => conn'[d].full = conn[d].full

LEMMA SentWritten ==
  ASSUME TypeOK, NEW f \in Fds, NEW c, fdt[f] = SockEntry(c), NEW u, NEW k,
         conn' = Sent(f, u, k)
  PROVE  Written(c)
  <1>1. fdt[f].kind = "sock" /\ fdt[f].of = c
    BY DEF SockEntry
  <1> DEFINE out == conn[c].out \o Units(u, k)
             full == heap[u].offset + k < heap[u].length
  <1>2. conn' = [conn EXCEPT ![c].out = out, ![c].full = full]
    BY <1>1 DEF Sent, Is
  <1> HIDE DEF out, full
  <1>3. conn' = [conn EXCEPT ![c] = [conn[c] EXCEPT !.out = out, !.full = full]]
    BY <1>2 DEF TypeOK
  <1> DEFINE q == [conn[c] EXCEPT !.out = out, !.full = full]
  <1>4. c \in Conns
    BY <1>1 DEF TypeOK, FdEntry
  <1>5. /\ q.st = conn[c].st /\ q.sent = conn[c].sent /\ q.rcvd = conn[c].rcvd
    BY <1>4 DEF TypeOK, ConnRecord
  <1> HIDE DEF q
  <1>6. \A d \in Conns : conn'[d] = IF d = c THEN q ELSE conn[d]
    BY <1>3 DEF TypeOK, q
  <1> QED
    BY <1>5, <1>6 DEF Written

LEMMA ClientWriteEffect ==
  ASSUME TypeOK, Orderly, Accounts, NEW e, ClientWriteEvent(e)
  PROVE  LET u == e.udata IN
         /\ e \in event_list /\ u \in LiveUdatas
         /\ e.ident = heap[u].m_client_sock /\ e.filter = "WRITE"
         /\ ClientShape(heap[u]) /\ heap[u].req # 0
         /\ UNCHANGED proc
         /\ \/ /\ m_fd_set' = m_fd_set \cup {e.ident}
               /\ conn[heap[u].conn].st = "reset"
               /\ UNCHANGED <<heap, m_udata_map, change_list, fdt, knotes, conn>>
            \/ /\ Quiet /\ Written(heap[u].conn)
               /\ UNCHANGED <<m_fd_set, change_list, fdt, knotes>>
            \/ /\ Frees(u, <<Delete(e.ident, "WRITE")>>) /\ Written(heap[u].conn)
               /\ UNCHANGED <<fdt, knotes>>
  <1> DEFINE u == e.udata
             r == heap[u]
  <1>1. /\ e \in event_list /\ HandledAs(e, "WRITE", "CLIENT")
        /\ UNCHANGED <<fdt, knotes, proc>>
    BY DEF ClientWriteEvent, Dispatch
  <1>2. /\ u \in Udatas /\ u \in LiveUdatas /\ LiveRecord(r) /\ e.ident \in Fds
        /\ r.m_type = "CLIENT" /\ e.filter = "WRITE"
        /\ <<e.ident, "WRITE">> \in Filters(r) /\ InShape(r) /\ Owns(u)
    BY <1>1, Handled
  <1>3. ClientShape(r) /\ r.req # 0 /\ e.ident = r.m_client_sock
    BY <1>2 DEF InShape, ClientShape, FileShape, PipeShape, Filters
  <1>4. Is(e.ident, "sock") /\ fdt[e.ident].of = r.conn /\ fdt[e.ident] = SockEntry(r.conn)
    <2>1. fdt[e.ident] = SockEntry(r.conn) /\ e.ident \in Fds
      BY <1>2, <1>3, SocketsOwned
    <2>2. SockEntry(r.conn).kind = "sock" /\ SockEntry(r.conn).of = r.conn
      BY DEF SockEntry
    <2> QED
      BY <2>1, <2>2 DEF Is
  <1>5. StillReady(e)
    BY <1>1 DEF Accounts, BatchKept, BatchReady, Batch
  <1>6. CASE ClientWriteFails(e)
    <2>1. conn[r.conn].st \in {"open", "fin", "reset"}
      BY <1>4 DEF Accounts, Objects, SocketsApart, Is
    <2>2. conn[r.conn].st = "reset"
      BY <1>2, <1>4, <1>5, <1>6, <2>1 DEF StillReady, ClientWriteFails, CanWrite
    <2> QED
      BY <1>1, <1>2, <1>3, <1>6, <2>2 DEF ClientWriteFails
  <1>7. CASE ClientWriteSome(e)
    <2>1. PICK k \in 0 .. r.length - r.offset :
            /\ conn' = Sent(e.ident, u, k) /\ UNCHANGED m_fd_set
            /\ \/ /\ heap' = [heap EXCEPT ![u].offset = @ + k]
                  /\ UNCHANGED <<m_udata_map, change_list>>
               \/ /\ heap' = [heap EXCEPT ![u] = FreedUdata]
                  /\ m_udata_map' = RemoveUdata(e.ident, u)
                  /\ Push(<<Delete(e.ident, "WRITE")>>)
      BY <1>7 DEF ClientWriteSome
    <2>2. Written(r.conn)
      BY <1>2, <1>4, <2>1, SentWritten
    <2>3. CASE /\ heap' = [heap EXCEPT ![u].offset = @ + k]
               /\ UNCHANGED <<m_udata_map, change_list>>
      <3> DEFINE q == [r EXCEPT !.offset = r.offset + k]
      <3>1. heap'[u] = q /\ \A v \in Udatas \ {u} : heap'[v] = heap[v]
        BY <1>2, <2>3 DEF TypeOK
      <3>2. SameObject(r, q)
        BY <1>2 DEF SameObject, LiveRecord, UdataRecord
      <3> HIDE DEF q
      <3>3. Quiet
        BY <1>1, <2>3, <3>1, <3>2 DEF Quiet, SameObject, SameEntry
      <3> QED
        BY <1>1, <1>2, <1>3, <2>1, <2>2, <2>3, <3>3
    <2>4. CASE /\ heap' = [heap EXCEPT ![u] = FreedUdata]
               /\ m_udata_map' = RemoveUdata(e.ident, u)
               /\ Push(<<Delete(e.ident, "WRITE")>>)
      <3>1. <<Delete(e.ident, "WRITE")>> \in Seq(Change)
        BY <1>2, OneChange, None \in PidOrNone DEF FdOrNone, PidOrNone
      <3>2. heap'[u].st = "freed" /\ \A v \in Udatas \ {u} : heap'[v] = heap[v]
        BY <1>2, <2>4 DEF TypeOK, FreedUdata, UnusedUdata
      <3>3. Private(r) = {}
        BY <1>3, PrivateOfReader
      <3>4. \A c \in Conns : conn'[c].st = conn[c].st
        BY <2>2 DEF Written
      <3>5. Frees(u, <<Delete(e.ident, "WRITE")>>)
        BY <1>1, <1>2, <1>3, <2>1, <2>4, <3>1, <3>2, <3>3, <3>4 DEF Frees, Push
      <3> QED
        BY <1>1, <1>2, <1>3, <2>2, <3>5
    <2> QED
      BY <2>1, <2>3, <2>4
  <1> QED
    BY <1>6, <1>7 DEF ClientWriteEvent

(***************************************************************************)
(* Files and pipes.                                                        *)
(***************************************************************************)
\* g is the heap in which u holds nothing more; then u responds.
LEMMA AnswersMade ==
  ASSUME TypeOK, NEW u \in LiveUdatas, InShape(heap[u]), Owns(u),
         heap[u].m_type # "CLIENT",
         NEW X, Private(heap[u]) = X,
         NEW F, Close(F), \A f \in Fds \cup {ListenFd} : f \in F <=> f \in X,
         NEW g, HeapType(g), \A v \in Udatas \ {u} : g[v] = heap[v],
         LiveRecord(g[u]), g[u].m_client_sock = heap[u].m_client_sock,
         g[u].conn = heap[u].conn, g[u].req = heap[u].req,
         Private(g[u]) = {}, g[u].m_child_pid = None,
         heap' = Respond(u, g), NEW s \in Seq(Change), Push(s),
         UNCHANGED <<m_udata_map, m_fd_set>>
  PROVE  Answers(u, X, s)
  <1>1. u \in Udatas /\ LiveRecord(heap[u]) /\ heap[u].st = "live"
    BY LiveObject
  <1>2. \A f \in X : f \in Fds /\ fdt[f].kind # "sock"
    BY PrivateKind
  <1>3. /\ UNCHANGED conn
        /\ \A f \in Fds : fdt'[f] = IF f \in F THEN FreeEntry ELSE fdt[f]
        /\ knotes' = {k \in knotes : k.filter = "TIMER" \/ k.ident \notin F}
    <2>1. \A f \in F \cap Fds : fdt[f].kind # "sock"
      BY <1>2
    <2> QED
      BY <2>1, ClosesFiles
  <1>4. knotes' = {k \in knotes : k.filter = "TIMER" \/ k.ident \notin X}
    <2>2. \A k \in knotes : k.filter # "TIMER" => k.ident \in Fds \cup {ListenFd}
      BY DEF TypeOK, Knote
    <2> QED
      BY <1>3, <2>2
  <1>5. \A f \in Fds : fdt'[f] = IF f \in X THEN FreeEntry ELSE fdt[f]
    BY <1>3
  <1>6. heap[u].req # 0
    BY DEF InShape, ClientShape, FileShape, PipeShape
  <1>7. /\ LiveRecord(heap'[u]) /\ heap'[u].m_type = "CLIENT"
        /\ \A v \in Udatas \ {u} : heap'[v] = g[v]
        /\ heap'[u].m_client_sock = g[u].m_client_sock
        /\ heap'[u].conn = g[u].conn /\ heap'[u].req = g[u].req
        /\ heap'[u].m_read_pipe_fd = g[u].m_read_pipe_fd
        /\ heap'[u].m_write_pipe_fd = g[u].m_write_pipe_fd
        /\ heap'[u].m_child_pid = g[u].m_child_pid
        /\ heap'[u].static_read_file_fd = g[u].static_read_file_fd
        /\ heap'[u].static_write_file_fd = g[u].static_write_file_fd
    BY <1>1, Responds
  <1>8. /\ g[u].static_read_file_fd = None /\ g[u].static_write_file_fd = None
        /\ g[u].m_read_pipe_fd = None /\ g[u].m_write_pipe_fd = None
    BY DEF Private
  <1>9. ClientShape(heap'[u]) /\ SameRequest(heap[u], heap'[u])
    BY <1>6, <1>7, <1>8 DEF ClientShape, SameRequest, LiveRecord
  <1>10. \A v \in Udatas \ {u} : heap'[v] = heap[v]
    BY <1>7
  <1> QED
    BY <1>3, <1>4, <1>5, <1>6, <1>9, <1>10 DEF Answers, Push

\* What a file's object owns.
LEMMA PrivateOfFile ==
  ASSUME NEW r, FileShape(r), NEW f, f # None,
         f = r.static_read_file_fd \/ f = r.static_write_file_fd
  PROVE  Private(r) = {f}
  BY Positive DEF FileShape, Private

LEMMA FileReadEffect ==
  ASSUME TypeOK, Orderly, Accounts, NEW e, StaticFileReadEvent(e)
  PROVE  LET u == e.udata IN
         /\ e \in event_list /\ u \in LiveUdatas /\ e.filter = "READ"
         /\ heap[u].m_type = "STATIC_FILE" /\ e.ident = heap[u].static_read_file_fd
         /\ UNCHANGED proc
         /\ \/ Quiet /\ UNCHANGED <<m_fd_set, change_list, knotes, conn>>
            \/ Answers(u, {e.ident}, <<Add(heap[u].m_client_sock, "WRITE", u)>>)
  <1> DEFINE u == e.udata
             r == heap[u]
             sock == heap[u].m_client_sock
  <1>1. /\ e \in event_list /\ HandledAs(e, "READ", "STATIC_FILE")
        /\ UNCHANGED m_udata_map
    BY DEF StaticFileReadEvent, Dispatch
  <1>2. /\ u \in Udatas /\ u \in LiveUdatas /\ LiveRecord(r) /\ e.ident \in Fds
        /\ r.m_type = "STATIC_FILE" /\ e.filter = "READ"
        /\ <<e.ident, "READ">> \in Filters(r) /\ InShape(r) /\ Owns(u)
        /\ e.ident # None
    BY <1>1, Handled
  <1>3. FileShape(r) /\ e.ident = r.static_read_file_fd
    BY <1>2 DEF InShape, ClientShape, FileShape, PipeShape, Filters
  <1>4. fdt[e.ident].kind = "rfile"
    BY <1>2, <1>3 DEF Owns, Is
  <1>5. ~TransferFails(e, "rfile")
    BY <1>2, <1>4 DEF TransferFails, Orderly, Is, WouldBlock
  <1>6. StaticFileReadSome(e)
    BY <1>5 DEF StaticFileReadEvent
  <1>7. UNCHANGED <<m_fd_set, proc>>
    BY <1>6 DEF StaticFileReadSome
  <1>8. CASE r.body + 1 < FileLen
    <2>1. /\ heap' = [heap EXCEPT ![u].body = @ + 1]
          /\ fdt' = [fdt EXCEPT ![e.ident].left = @ - 1]
          /\ UNCHANGED <<change_list, knotes, conn>>
      BY <1>6, <1>8 DEF StaticFileReadSome
    <2> DEFINE q == [r EXCEPT !.body = r.body + 1]
               d == [fdt[e.ident] EXCEPT !.left = fdt[e.ident].left - 1]
    <2>2. heap'[u] = q /\ \A v \in Udatas \ {u} : heap'[v] = heap[v]
      BY <1>2, <2>1 DEF TypeOK
    <2>3. SameObject(r, q)
      BY <1>2 DEF SameObject, LiveRecord, UdataRecord
    <2>4. fdt'[e.ident] = d /\ \A f \in Fds \ {e.ident} : fdt'[f] = fdt[f]
      BY <1>2, <2>1 DEF TypeOK
    <2>5. SameEntry(fdt[e.ident], d)
      <3>1. fdt[e.ident] \in FdEntry
        BY <1>2 DEF TypeOK
      <3>2. d.kind = fdt[e.ident].kind /\ d.of = fdt[e.ident].of
        BY <3>1 DEF FdEntry
      <3> QED
        BY <1>4, <3>2 DEF SameEntry
    <2> HIDE DEF q, d
    <2>6. Quiet
      BY <1>1, <2>2, <2>3, <2>4, <2>5 DEF Quiet, SameObject, SameEntry
    <2> QED
      BY <1>1, <1>2, <1>3, <1>7, <2>1, <2>6
  <1>9. CASE ~(r.body + 1 < FileLen)
    <2> DEFINE q == [r EXCEPT !.body = FileLen, !.static_read_file_fd = None]
               g == [heap EXCEPT ![u].body = FileLen,
                                 ![u].static_read_file_fd = None]
               s == <<Add(sock, "WRITE", u)>>
    <2>1. heap' = Respond(u, g) /\ Push(s) /\ Close({e.ident})
      BY <1>6, <1>9 DEF StaticFileReadSome
    <2>2. g = [heap EXCEPT ![u] = q]
      BY <1>2 DEF TypeOK
    <2>3. LiveRecord(q)
      <3>1. FileLen \in 0 .. FileLen
        BY ServerAssumption
      <3> QED
        BY <1>2, <3>1, WholeFileTypes
    <2>4. HeapType(g) /\ g[u] = q /\ \A v \in Udatas \ {u} : g[v] = heap[v]
      <3> HIDE DEF g, q
      <3> QED
        BY <1>2, <2>2, <2>3, LiveRecordTypes, TypeParts DEF HeapType
    <2>5. r.static_write_file_fd = None
      BY <1>2, <1>3, Positive DEF FileShape
    <2>6. /\ q.m_client_sock = r.m_client_sock /\ q.conn = r.conn /\ q.req = r.req
          /\ q.m_child_pid = None /\ Private(q) = {}
      BY <1>2, <1>3, <2>5 DEF LiveRecord, UdataRecord, FileShape, Private
    <2>7. s \in Seq(Change)
      BY <1>2, OneChange, None \in PidOrNone DEF FdOrNone, PidOrNone, LiveRecord
    <2>8. Private(r) = {e.ident}
      BY <1>2, <1>3, PrivateOfFile
    <2> HIDE DEF g, q, s
    <2>9. LiveRecord(g[u])
      BY <2>3, <2>4
    <2>10. Answers(u, {e.ident}, s)
      BY <1>1, <1>2, <1>7, <2>1, <2>4, <2>6, <2>7, <2>8, <2>9, AnswersMade
    <2> QED
      BY <1>1, <1>2, <1>3, <1>7, <2>10 DEF s
  <1> QED
    BY <1>8, <1>9

LEMMA FileWriteEffect ==
  ASSUME TypeOK, Orderly, Accounts, NEW e, FileWriteEvent(e)
  PROVE  LET u == e.udata IN
         /\ e \in event_list /\ u \in LiveUdatas /\ e.filter = "WRITE"
         /\ heap[u].m_type = "STATIC_FILE" /\ e.ident = heap[u].static_write_file_fd
         /\ UNCHANGED proc
         /\ \/ Quiet /\ UNCHANGED <<m_fd_set, change_list, knotes, conn>>
            \/ Answers(u, {e.ident}, <<Add(heap[u].m_client_sock, "WRITE", u)>>)
  <1> DEFINE u == e.udata
             r == heap[u]
             sock == heap[u].m_client_sock
  <1>1. /\ e \in event_list /\ HandledAs(e, "WRITE", "STATIC_FILE")
        /\ UNCHANGED m_udata_map
    BY DEF FileWriteEvent, Dispatch
  <1>2. /\ u \in Udatas /\ u \in LiveUdatas /\ LiveRecord(r) /\ e.ident \in Fds
        /\ r.m_type = "STATIC_FILE" /\ e.filter = "WRITE"
        /\ <<e.ident, "WRITE">> \in Filters(r) /\ InShape(r) /\ Owns(u)
        /\ e.ident # None
    BY <1>1, Handled
  <1>3. FileShape(r) /\ e.ident = r.static_write_file_fd
    BY <1>2 DEF InShape, ClientShape, FileShape, PipeShape, Filters
  <1>4. fdt[e.ident].kind = "wfile"
    BY <1>2, <1>3 DEF Owns, OutFileEntry
  <1>5. ~TransferFails(e, "wfile")
    BY <1>2, <1>4 DEF TransferFails, Orderly, Is, WouldBlock
  <1>6. FileWriteSome(e)
    BY <1>5 DEF FileWriteEvent
  <1>7. PICK k \in 1 .. BodyLen - r.m_file_write_offset :
          LET written == r.m_file_write_offset + k
              s == [heap EXCEPT ![u].m_file_write_offset = written]
          IN /\ \/ /\ heap' = s
                   /\ UNCHANGED <<change_list, fdt, knotes, conn>>
                \/ /\ heap' = Respond(u, [s EXCEPT
                                            ![u].static_write_file_fd = None])
                   /\ Push(<<Add(heap[u].m_client_sock, "WRITE", u)>>)
                   /\ Close({e.ident})
             /\ UNCHANGED <<m_fd_set, proc>>
    BY <1>6 DEF FileWriteSome
  <1> DEFINE w == r.m_file_write_offset + k
             q == [r EXCEPT !.m_file_write_offset = w]
             t == [q EXCEPT !.static_write_file_fd = None]
             g == [heap EXCEPT ![u].m_file_write_offset = w]
             h == [g EXCEPT ![u].static_write_file_fd = None]
             s == <<Add(sock, "WRITE", u)>>
  <1>8. w \in 0 .. BodyLen
    BY <1>2, ServerAssumption DEF LiveRecord, UdataRecord
  <1>9. LiveRecord(q) /\ LiveRecord(t)
    BY <1>2, <1>8 DEF LiveRecord, UdataRecord, FdOrNone
  <1>10. g = [heap EXCEPT ![u] = q]
    BY <1>2 DEF TypeOK
  <1>11. h = [heap EXCEPT ![u] = t]
    BY <1>2, <1>10 DEF TypeOK
  <1>12. SameObject(r, q)
    BY <1>2 DEF SameObject, LiveRecord, UdataRecord
  <1>13. r.static_read_file_fd = None
    BY <1>2, <1>3, Positive DEF FileShape
  <1>14. /\ t.m_client_sock = r.m_client_sock /\ t.conn = r.conn /\ t.req = r.req
         /\ t.m_child_pid = None /\ Private(t) = {}
    BY <1>2, <1>3, <1>13 DEF LiveRecord, UdataRecord, FileShape, Private
  <1>15. /\ HeapType(g) /\ g[u] = q /\ \A v \in Udatas \ {u} : g[v] = heap[v]
         /\ HeapType(h) /\ h[u] = t /\ \A v \in Udatas \ {u} : h[v] = heap[v]
    <2> HIDE DEF g, h, q, t
    <2> QED
      BY <1>2, <1>9, <1>10, <1>11, LiveRecordTypes, TypeParts DEF HeapType
  <1>16. s \in Seq(Change)
    BY <1>2, OneChange, None \in PidOrNone DEF FdOrNone, PidOrNone, LiveRecord
  <1>17. Private(r) = {e.ident}
    BY <1>2, <1>3, PrivateOfFile
  <1>18. \/ heap' = g /\ UNCHANGED <<change_list, fdt, knotes, conn, m_fd_set, proc>>
         \/ /\ heap' = Respond(u, h) /\ Push(s) /\ Close({e.ident})
            /\ UNCHANGED <<m_fd_set, proc>>
    BY <1>7
  <1> HIDE DEF g, h, q, t, s
  <1>19. CASE heap' = g /\ UNCHANGED <<change_list, fdt, knotes, conn, m_fd_set, proc>>
    <2>1. Quiet
      BY <1>1, <1>12, <1>15, <1>19 DEF Quiet, SameObject, SameEntry
    <2> QED
      BY <1>1, <1>2, <1>3, <1>19, <2>1
  <1>20. CASE /\ heap' = Respond(u, h) /\ Push(s) /\ Close({e.ident})
              /\ UNCHANGED <<m_fd_set, proc>>
    <2>1. LiveRecord(h[u])
      BY <1>9, <1>15
    <2>2. Answers(u, {e.ident}, s)
      BY <1>1, <1>2, <1>14, <1>15, <1>16, <1>17, <1>20, <2>1, AnswersMade
    <2> QED
      BY <1>1, <1>2, <1>3, <1>20, <2>2 DEF s
  <1> QED
    BY <1>18, <1>19, <1>20

LEMMA PipeReadEffect ==
  ASSUME TypeOK, Orderly, Accounts, NEW e, PipeReadEvent(e)
  PROVE  LET u == e.udata
             p == heap[u].m_child_pid
         IN
         /\ e \in event_list /\ u \in LiveUdatas /\ e.filter = "READ"
         /\ PipeShape(heap[u]) /\ e.ident = heap[u].m_read_pipe_fd
         /\ fdt[e.ident] = PipeEntry("piper", p)
         /\ UNCHANGED <<heap, m_udata_map, m_fd_set, change_list, fdt, knotes,
                        conn>>
         /\ \/ Continue /\ proc' = [proc EXCEPT ![p].out = "read"]
            \/ Sleep("reapPipe", e) /\ StdoutEnded(p) /\ UNCHANGED proc
  <1> DEFINE u == e.udata
             r == heap[u]
             p == heap[u].m_child_pid
  <1>1. /\ e \in event_list /\ HandledAs(e, "READ", "PIPE")
        /\ UNCHANGED m_udata_map
    BY DEF PipeReadEvent, Dispatch
  <1>2. /\ u \in Udatas /\ u \in LiveUdatas /\ LiveRecord(r) /\ e.ident \in Fds
        /\ r.m_type = "PIPE" /\ e.filter = "READ"
        /\ <<e.ident, "READ">> \in Filters(r) /\ InShape(r) /\ Owns(u)
        /\ e.ident # None
    BY <1>1, Handled
  <1>3. PipeShape(r) /\ e.ident = r.m_read_pipe_fd
    BY <1>2 DEF InShape, ClientShape, FileShape, PipeShape, Filters
  <1>4. fdt[e.ident] = PipeEntry("piper", p)
    BY <1>2, <1>3 DEF Owns
  <1>5. fdt[e.ident].kind = "piper" /\ fdt[e.ident].of = p
    BY <1>4 DEF PipeEntry
  <1>6. proc[p].out = "ready" \/ StdoutEnded(p)
    <2>1. StillReady(e)
      BY <1>1 DEF Accounts, BatchKept, BatchReady, Batch
    <2> QED
      BY <1>2, <1>5, <2>1 DEF StillReady, Is
  <1>7. ~TransferFails(e, "piper")
    BY <1>2, <1>5, <1>6 DEF TransferFails, Orderly, Is, WouldBlock
  <1>8. CASE PipeReadSome(e)
    BY <1>1, <1>2, <1>3, <1>4, <1>5, <1>8 DEF PipeReadSome
  <1>9. CASE PipeReadEnd(e)
    BY <1>1, <1>2, <1>3, <1>4, <1>5, <1>9 DEF PipeReadEnd
  <1> QED
    BY <1>7, <1>8, <1>9 DEF PipeReadEvent

\* The child whose output has ended has exited, and its input was closed before.
LEMMA PipeReapedEffect ==
  ASSUME TypeOK, Accounts, PipeReadReaped
  PROVE  LET u == cur.udata
             p == heap[u].m_child_pid
         IN
         /\ u \in LiveUdatas /\ p \in Pids /\ Zombie(p) /\ proc' = Reaped(p)
         /\ PipeShape(heap[u]) /\ cur.ident = heap[u].m_read_pipe_fd
         /\ heap[u].m_write_pipe_fd = None
         /\ Answers(u, {cur.ident}, <<Add(heap[u].m_client_sock, "WRITE", u),
                                      Delete(p, "TIMER")>>)
         /\ pc = "reapPipe" /\ pc' = "dispatch" /\ UNCHANGED event_list
  <1> DEFINE u == cur.udata
             r == heap[u]
             p == heap[u].m_child_pid
             sock == heap[u].m_client_sock
  <1>1. pc = "reapPipe" /\ pc' = "dispatch" /\ UNCHANGED event_list
    BY DEF PipeReadReaped, Wake
  <1>2. /\ u \in Udatas /\ u \in LiveUdatas /\ r.m_type = "PIPE"
        /\ r.m_read_pipe_fd = cur.ident /\ StdoutEnded(p) /\ cur.ident \in Fds
    BY <1>1 DEF TypeOK, LiveUdatas, Accounts, Phases
  <1>3. LiveRecord(r) /\ InShape(r) /\ Owns(u)
    BY <1>2, LiveObject, ObjectsParts DEF Accounts, Objects
  <1>4. PipeShape(r) /\ p \in Pids /\ p # None
    BY <1>2, <1>3, Positive DEF InShape, ClientShape, FileShape, PipeShape, None
  <1>5. /\ Alive(p) \/ Zombie(p)
        /\ proc[p].st \notin {"dying", "signaled"}
        /\ r.m_write_pipe_fd # None => proc[p].st = "running" /\ ~proc[p].closed
    BY <1>1, <1>2, <1>4 DEF Accounts, ChildrenKept, Ending
  <1>6. ~Alive(p) /\ Zombie(p) /\ proc[p].st = "exited"
    BY <1>4, <1>5 DEF PipeReadReaped, WaitBlocks, Alive, Zombie
  <1>7. proc' = Reaped(p)
    BY <1>4, <1>6 DEF PipeReadReaped, WaitOutcomes
  <1>8. r.m_write_pipe_fd = None
    BY <1>2, <1>5, <1>6
  <1>9. PipeChildExited(u, cur.ident) /\ UNCHANGED <<m_udata_map, m_fd_set>>
    BY <1>4, <1>6 DEF PipeReadReaped, PipeChildExited
  <1> DEFINE q == [r EXCEPT !.m_read_pipe_fd = None, !.m_write_pipe_fd = None,
                            !.m_child_pid = None]
             g == [heap EXCEPT ![u].m_read_pipe_fd = None,
                               ![u].m_write_pipe_fd = None,
                               ![u].m_child_pid = None]
             s == <<Add(sock, "WRITE", u), Delete(p, "TIMER")>>
             F == {None, cur.ident}
  <1>10. heap' = Respond(u, g) /\ Push(s) /\ Close(F)
    BY <1>8, <1>9 DEF PipeChildExited
  <1>11. g = [heap EXCEPT ![u] = q]
    BY <1>2 DEF TypeOK
  <1>12. LiveRecord(q)
    BY <1>3 DEF LiveRecord, UdataRecord, FdOrNone, PidOrNone
  <1>13. /\ q.m_client_sock = r.m_client_sock /\ q.conn = r.conn /\ q.req = r.req
         /\ q.m_child_pid = None /\ Private(q) = {}
    BY <1>3, <1>4 DEF LiveRecord, UdataRecord, PipeShape, Private
  <1>14. s \in Seq(Change)
    BY <1>2, <1>3, <1>4, OneChange DEF FdOrNone, PidOrNone, LiveRecord
  <1>15. Private(r) = {cur.ident}
    BY <1>2, <1>4, <1>8, Positive DEF PipeShape, Private
  <1>16. \A f \in Fds \cup {ListenFd} : f \in F <=> f \in {cur.ident}
    BY <1>2, Positive DEF ListenFd, None
  <1> HIDE DEF g, q, s, F
  <1>17. HeapType(g) /\ g[u] = q /\ \A v \in Udatas \ {u} : g[v] = heap[v]
    BY <1>2, <1>11, <1>12, LiveRecordTypes, TypeParts DEF HeapType
  <1>18. LiveRecord(g[u])
    BY <1>12, <1>17
  <1>19. Answers(u, {cur.ident}, s)
    BY <1>2, <1>3, <1>9, <1>10, <1>13, <1>14, <1>15, <1>16, <1>17, <1>18, AnswersMade
  <1> QED
    BY <1>1, <1>2, <1>4, <1>6, <1>7, <1>8, <1>19 DEF s

\* u has written all of the child's input and closes the pipe f.
Shuts(u, f) ==
  LET r == heap[u]
      q == heap'[u]
  IN /\ u \in LiveUdatas /\ PipeShape(r) /\ f = r.m_write_pipe_fd /\ f \in Fds
     /\ PipeShape(q) /\ SameRequest(r, q) /\ q.m_write_pipe_fd = None
     /\ q.m_read_pipe_fd = r.m_read_pipe_fd /\ q.m_child_pid = r.m_child_pid
     /\ \A v \in Udatas \ {u} : heap'[v] = heap[v]
     /\ \A g \in Fds : fdt'[g] = IF g = f THEN FreeEntry ELSE fdt[g]
     /\ knotes' = {k \in knotes : k.filter = "TIMER" \/ k.ident # f}
     /\ UNCHANGED <<m_udata_map, m_fd_set, change_list, conn>>

LEMMA PipeWriteEffect ==
  ASSUME TypeOK, Orderly, Accounts, NEW e, PipeWriteEvent(e)
  PROVE  LET u == e.udata
             p == heap[u].m_child_pid
         IN
         /\ e \in event_list /\ u \in LiveUdatas /\ e.filter = "WRITE"
         /\ PipeShape(heap[u]) /\ e.ident = heap[u].m_write_pipe_fd
         /\ fdt[e.ident] = PipeEntry("pipew", p)
         /\ \/ UNCHANGED proc
            \/ \E b \in BOOLEAN : proc' = [proc EXCEPT ![p].full = b]
         /\ \/ Quiet /\ UNCHANGED <<m_fd_set, change_list, knotes, conn>>
            \/ Shuts(u, e.ident)
  <1> DEFINE u == e.udata
             r == heap[u]
             p == heap[u].m_child_pid
  <1>1. /\ e \in event_list /\ HandledAs(e, "WRITE", "PIPE")
        /\ UNCHANGED m_udata_map
    BY DEF PipeWriteEvent, Dispatch
  <1>2. /\ u \in Udatas /\ u \in LiveUdatas /\ LiveRecord(r) /\ e.ident \in Fds
        /\ r.m_type = "PIPE" /\ e.filter = "WRITE"
        /\ <<e.ident, "WRITE">> \in Filters(r) /\ InShape(r) /\ Owns(u)
        /\ e.ident # None
    BY <1>1, Handled
  <1>3. PipeShape(r) /\ e.ident = r.m_write_pipe_fd
    BY <1>2 DEF InShape, ClientShape, FileShape, PipeShape, Filters
  <1>4. fdt[e.ident] = PipeEntry("pipew", p)
    BY <1>2, <1>3 DEF Owns
  <1>5. fdt[e.ident].kind = "pipew" /\ fdt[e.ident].of = p
    BY <1>4 DEF PipeEntry
  <1>6. ~proc[p].full \/ ~Alive(p)
    <2>1. StillReady(e)
      BY <1>1 DEF Accounts, BatchKept, BatchReady, Batch
    <2> QED
      BY <1>2, <1>5, <2>1 DEF StillReady, Is
  <1>7. ~TransferFails(e, "pipew")
    BY <1>2, <1>5, <1>6 DEF TransferFails, Orderly, Is, WouldBlock
  <1>8. CASE PipeWriteNothing(e)
    <2>1. UNCHANGED <<heap, m_fd_set, change_list, fdt, knotes, conn, proc>>
      BY <1>8 DEF PipeWriteNothing
    <2>2. Quiet
      BY <1>1, <2>1 DEF Quiet, SameObject, SameEntry
    <2> QED
      BY <1>1, <1>2, <1>3, <1>4, <2>1, <2>2
  <1>9. CASE PipeWriteSome(e)
    <2> DEFINE rest == BodyLen - heap[u].m_file_write_offset
    <2>1. PICK k \in 1 .. rest :
            LET s == [heap EXCEPT ![u].m_file_write_offset = @ + k] IN
            /\ proc' = [proc EXCEPT ![p].full = k < rest]
            /\ \/ heap' = s /\ UNCHANGED <<fdt, knotes, conn>>
               \/ /\ heap' = [s EXCEPT ![u].m_write_pipe_fd = None]
                  /\ Close({e.ident})
            /\ UNCHANGED <<m_fd_set, change_list>>
      BY <1>5, <1>9 DEF PipeWriteSome
    <2> DEFINE w == r.m_file_write_offset + k
               q == [r EXCEPT !.m_file_write_offset = w]
               t == [q EXCEPT !.m_write_pipe_fd = None]
               g == [heap EXCEPT ![u].m_file_write_offset = @ + k]
               h == [g EXCEPT ![u].m_write_pipe_fd = None]
               b == k < rest
    <2>2. g = [heap EXCEPT ![u] = q]
      BY <1>2 DEF TypeOK
    <2>3. h = [heap EXCEPT ![u] = t]
      BY <1>2, <2>2 DEF TypeOK
    <2>4. SameObject(r, q)
      BY <1>2 DEF SameObject, LiveRecord, UdataRecord
    <2>5. /\ PipeShape(t) /\ SameRequest(r, t) /\ t.m_write_pipe_fd = None
          /\ t.m_read_pipe_fd = r.m_read_pipe_fd /\ t.m_child_pid = r.m_child_pid
      BY <1>2, <1>3 DEF PipeShape, SameRequest, LiveRecord, UdataRecord
    <2>6. /\ proc' = [proc EXCEPT ![p].full = b] /\ b \in BOOLEAN
          /\ UNCHANGED <<m_fd_set, change_list>>
          /\ \/ heap' = g /\ UNCHANGED <<fdt, knotes, conn>>
             \/ heap' = h /\ Close({e.ident})
      BY <2>1
    <2>7. \E bb \in BOOLEAN : proc' = [proc EXCEPT ![p].full = bb]
      <3> HIDE DEF b
      <3> QED
        BY <2>6
    <2> HIDE DEF g, h, q, t, b, w
    <2>8. /\ g[u] = q /\ \A v \in Udatas \ {u} : g[v] = heap[v]
          /\ h[u] = t /\ \A v \in Udatas \ {u} : h[v] = heap[v]
      BY <1>2, <2>2, <2>3 DEF TypeOK
    <2>9. CASE heap' = g /\ UNCHANGED <<fdt, knotes, conn>>
      <3>1. Quiet
        BY <1>1, <2>4, <2>8, <2>9 DEF Quiet, SameObject, SameEntry
      <3> QED
        BY <1>1, <1>2, <1>3, <1>4, <2>6, <2>7, <2>9, <3>1
    <2>10. CASE heap' = h /\ Close({e.ident})
      <3>1. /\ UNCHANGED conn
            /\ \A f \in Fds : fdt'[f] = IF f \in {e.ident} THEN FreeEntry ELSE fdt[f]
            /\ knotes' = {k2 \in knotes : k2.filter = "TIMER" \/ k2.ident \notin {e.ident}}
        BY <1>5, <2>10, ClosesFiles
      <3>2. knotes' = {k2 \in knotes : k2.filter = "TIMER" \/ k2.ident # e.ident}
        BY <3>1
      <3>3. Shuts(u, e.ident)
        BY <1>1, <1>2, <1>3, <2>5, <2>6, <2>8, <2>10, <3>1, <3>2 DEF Shuts
      <3> QED
        BY <1>1, <1>2, <1>3, <1>4, <2>7, <3>3
    <2> QED
      BY <2>6, <2>9, <2>10
  <1> QED
    BY <1>7, <1>8, <1>9 DEF PipeWriteEvent

LEMMA ShutsObjects ==
  ASSUME TypeOK, Accounts, NEW u, NEW f, Shuts(u, f)
  PROVE  Objects'
  <1>1. /\ u \in Udatas /\ u \in LiveUdatas /\ LiveRecord(heap[u])
        /\ InShape(heap[u]) /\ Owns(u) /\ Objects
    BY LiveObject, ObjectsParts DEF Shuts, Accounts, Objects
  <1>2. /\ f \in Fds /\ f # None /\ f \in Private(heap[u])
        /\ fdt[f] = PipeEntry("pipew", heap[u].m_child_pid)
        /\ fdt[f].kind = "pipew"
    BY <1>1, Positive DEF Shuts, Owns, Private, PipeEntry
  <1>3. Moves(u)
    BY <1>1, <1>2 DEF Shuts, Moves
  <1>4. /\ fdt[heap[u].m_client_sock] = SockEntry(heap[u].conn)
        /\ heap[u].m_client_sock \in Fds
        /\ fdt[heap[u].m_client_sock].kind = "sock"
    BY <1>1, SocketsOwned
  <1>5. /\ fdt[heap[u].m_read_pipe_fd] = PipeEntry("piper", heap[u].m_child_pid)
        /\ fdt[heap[u].m_read_pipe_fd].kind = "piper"
        /\ heap[u].m_read_pipe_fd \in Fds
    BY <1>1, Positive DEF Shuts, PipeShape, Owns, PipeEntry
  <1>6. /\ fdt'[heap[u].m_client_sock] = fdt[heap[u].m_client_sock]
        /\ fdt'[heap[u].m_read_pipe_fd] = fdt[heap[u].m_read_pipe_fd]
    BY <1>2, <1>4, <1>5 DEF Shuts
  <1>7. Owns(u)'
    BY <1>4, <1>5, <1>6 DEF Shuts, SameRequest, PipeShape, Owns
  <1>8. InShape(heap'[u]) /\ heap'[u].m_child_pid = heap[u].m_child_pid
    BY DEF Shuts, InShape
  <1>9. ASSUME NEW g \in Fds, g \in FreeFds \/ g \in Private(heap[u])
        PROVE  Held(g)'
    <2>1. CASE fdt'[g].kind = "free"
      BY <2>1 DEF Held, Is
    <2>2. CASE g = heap[u].m_read_pipe_fd
      <3>1. u \in LiveUdatas' /\ heap'[u].m_read_pipe_fd = g
        BY <1>1, <2>2 DEF Shuts, SameRequest, LiveUdatas
      <3> QED
        BY <1>5, <1>6, <2>2, <3>1 DEF Held, Is
    <2>3. \/ g \in FreeFds \/ g = f \/ g = heap[u].m_read_pipe_fd
      BY <1>9 DEF Shuts, PipeShape, Private
    <2>4. g \in FreeFds \/ g = f => fdt'[g].kind = "free"
      BY FreeEntryKind DEF Shuts, FreeFds
    <2> QED
      BY <2>1, <2>2, <2>3, <2>4
  <1>10. Shaped' /\ DescriptorsOwned' /\ ChildrenApart' /\ FilesHeld'
    BY <1>1, <1>3, <1>7, <1>8, <1>9, MovesKeepOwners
  <1>11. SocketsApart'
    <2>1. \A g \in Fds : fdt'[g].kind = "sock" => fdt'[g] = fdt[g]
      BY FreeEntryKind DEF Shuts
    <2> QED
      BY <1>1, <2>1, SocketsKept DEF Objects, Shuts
  <1>12. MapExact'
    <2>1. \A v \in Udatas : /\ heap'[v].st = "live" <=> heap[v].st = "live"
                            /\ heap[v].st = "live" =>
                                heap'[v].m_client_sock = heap[v].m_client_sock
      BY <1>1 DEF Shuts, SameRequest, LiveUdatas
    <2> QED
      BY <1>1, <2>1, MapKept DEF Objects, Shuts
  <1> QED
    BY <1>10, <1>11, <1>12 DEF Objects

(***************************************************************************)
(* Tearing clients down.                                                   *)
(***************************************************************************)
\* An object m_udata_map lists for a socket is alive and that client's; while
\* sockets are torn down nobody uploads.
LEMMA Cleared ==
  ASSUME TypeOK, Orderly, Accounts, NEW f \in m_fd_set, NEW u, Registered(f, u)
  PROVE  /\ f \in Fds /\ u \in LiveUdatas /\ heap[u].m_client_sock = f
         /\ LiveRecord(heap[u]) /\ InShape(heap[u]) /\ Owns(u)
         /\ heap[u].static_write_file_fd = None
  <1>1. f \in Fds /\ f # ListenFd
    BY Positive DEF TypeOK
  <1>2. u \in LiveUdatas /\ heap[u].m_client_sock = f
    BY <1>1 DEF Registered, Accounts, Objects, MapExact
  <1>3. LiveRecord(heap[u]) /\ InShape(heap[u]) /\ Owns(u)
    BY <1>2, LiveObject, ObjectsParts DEF Accounts, Objects
  <1>4. "upload" \notin Kinds
    <2>1. /\ HasLeft(fdt[f].of) /\ fdt[f].of \in Conns
      BY <1>1 DEF Accounts, OnlyDeparted, TypeOK, FdEntry, Is
    <2>2. conn[fdt[f].of].st \in Faults \cap {"fin", "reset"}
      BY <2>1 DEF Accounts, OnlyDeparted, HasLeft
    <2> QED
      BY <2>2 DEF Orderly
  <1>5. heap[u].static_write_file_fd = None
    BY <1>3, <1>4 DEF InShape, ClientShape, FileShape, PipeShape
  <1> QED
    BY <1>1, <1>2, <1>3, <1>5

LEMMA Destroyed ==
  ASSUME TypeOK, NEW u \in LiveUdatas, InShape(heap[u]), Owns(u),
         heap[u].static_write_file_fd = None,
         Destroy(heap[u].m_client_sock, u), NEW s \in Seq(Change),
         change_list' = change_list \o s
  PROVE  Frees(u, s) /\ UNCHANGED conn
  <1> DEFINE X == Private(heap[u])
             F == {heap[u].static_read_file_fd, heap[u].m_read_pipe_fd,
                   heap[u].m_write_pipe_fd}
  <1>1. /\ u \in Udatas /\ Close(F) /\ heap' = [heap EXCEPT ![u] = FreedUdata]
        /\ m_udata_map' = RemoveUdata(heap[u].m_client_sock, u)
        /\ UNCHANGED m_fd_set
    BY DEF Destroy, LiveUdatas
  <1>2. /\ \A f \in Fds \cup {ListenFd} : f \in F <=> f \in X
        /\ \A f \in F \cap Fds : f \in X
    BY Positive DEF Private, ListenFd, None
  <1>3. heap'[u].st = "freed" /\ \A v \in Udatas \ {u} : heap'[v] = heap[v]
    BY <1>1 DEF TypeOK, FreedUdata, UnusedUdata
  <1> HIDE DEF F, X
  <1>4. \A f \in F \cap Fds : fdt[f].kind # "sock"
    BY <1>2, PrivateKind DEF X
  <1>5. /\ UNCHANGED conn
        /\ \A f \in Fds : fdt'[f] = IF f \in F THEN FreeEntry ELSE fdt[f]
        /\ knotes' = {k \in knotes : k.filter = "TIMER" \/ k.ident \notin F}
    BY <1>1, <1>4, ClosesFiles
  <1>6. \A k \in knotes : k.filter # "TIMER" => k.ident \in Fds \cup {ListenFd}
    BY DEF TypeOK, Knote
  <1>7. knotes' = {k \in knotes : k.filter = "TIMER" \/ k.ident \notin X}
    BY <1>2, <1>5, <1>6
  <1>8. \A f \in Fds : fdt'[f] = IF f \in X THEN FreeEntry ELSE fdt[f]
    BY <1>2, <1>5
  <1> QED
    BY <1>1, <1>3, <1>5, <1>7, <1>8 DEF Frees, X

LEMMA ClearUdataEffect ==
  ASSUME TypeOK, Orderly, Accounts, NEW f \in m_fd_set, NEW u \in Udatas,
         ClearUdata(f, u)
  PROVE  /\ u \in LiveUdatas /\ heap[u].m_client_sock = f
         /\ heap[u].m_child_pid = None
         /\ Frees(u, <<>>)
         /\ UNCHANGED <<conn, proc, change_list, pc, cur, event_list>>
         /\ pc = "dispatch" /\ event_list = {}
  <1>1. /\ Registered(f, u) /\ heap[u].m_child_pid = None /\ Destroy(f, u)
        /\ pc = "dispatch" /\ event_list = {}
        /\ UNCHANGED <<change_list, proc, pc, cur, event_list>>
    BY DEF ClearUdata, Clearing, Continue
  <1>2. /\ u \in LiveUdatas /\ heap[u].m_client_sock = f
        /\ InShape(heap[u]) /\ Owns(u) /\ heap[u].static_write_file_fd = None
    BY <1>1, Cleared
  <1>3. <<>> \in Seq(Change) /\ change_list' = change_list \o <<>>
    <2>1. change_list \in Seq(Change)
      BY DEF TypeOK
    <2> QED
      BY <1>1, <2>1
  <1> QED
    BY <1>1, <1>2, <1>3, Destroyed

LEMMA ClearKillEffect ==
  ASSUME TypeOK, Orderly, Accounts, NEW f \in m_fd_set, NEW u \in Udatas,
         ClearKill(f, u)
  PROVE  /\ u \in LiveUdatas /\ heap[u].m_client_sock = f /\ Registered(f, u)
         /\ heap[u].m_child_pid \in Pids
         /\ proc' = Terminated(heap[u].m_child_pid)
         /\ pc = "dispatch" /\ pc' = "reapClear" /\ event_list = {}
         /\ cur' = [ident |-> f, filter |-> "READ", udata |-> u, eof |-> FALSE]
         /\ UNCHANGED <<heap, m_udata_map, m_fd_set, change_list, event_list,
                        fdt, knotes, conn>>
  <1>1. /\ Registered(f, u) /\ heap[u].m_child_pid # None
        /\ pc = "dispatch" /\ event_list = {}
    BY DEF ClearKill, Clearing
  <1>2. u \in LiveUdatas /\ heap[u].m_client_sock = f /\ LiveRecord(heap[u])
    BY <1>1, Cleared
  <1>3. heap[u].m_child_pid \in Pids
    BY <1>1, <1>2 DEF LiveRecord, UdataRecord, PidOrNone
  <1> QED
    BY <1>1, <1>2, <1>3 DEF ClearKill, Clearing, Sleep

LEMMA ClearReapedEffect ==
  ASSUME TypeOK, Orderly, Accounts, ClearReaped
  PROVE  LET u == cur.udata
             p == heap[u].m_child_pid
         IN /\ u \in LiveUdatas /\ heap[u].m_client_sock = cur.ident
            /\ cur.ident \in m_fd_set
            /\ p \in Pids /\ Zombie(p) /\ proc' = Reaped(p)
            /\ Frees(u, <<Delete(p, "TIMER")>>)
            /\ UNCHANGED <<conn, event_list>>
            /\ pc = "reapClear" /\ pc' = "dispatch" /\ event_list = {}
  <1> DEFINE u == cur.udata
             p == heap[u].m_child_pid
  <1>1. /\ pc = "reapClear" /\ pc' = "dispatch" /\ UNCHANGED event_list
        /\ ~WaitBlocks(p) /\ proc' \in WaitOutcomes(p)
        /\ Push(<<Delete(p, "TIMER")>>) /\ Destroy(cur.ident, u)
    BY DEF ClearReaped, Wake
  <1>2. /\ event_list = {} /\ cur.ident \in m_fd_set /\ Registered(cur.ident, u)
        /\ p # None
    BY <1>1 DEF Accounts, Phases
  <1>3. /\ u \in LiveUdatas /\ heap[u].m_client_sock = cur.ident
        /\ LiveRecord(heap[u]) /\ InShape(heap[u]) /\ Owns(u)
        /\ heap[u].static_write_file_fd = None
    BY <1>2, Cleared
  <1>4. p \in Pids
    BY <1>2, <1>3 DEF LiveRecord, UdataRecord, PidOrNone
  <1>5. Alive(p) \/ Zombie(p)
    BY <1>2, <1>3 DEF Accounts, ChildrenKept
  <1>6. Zombie(p) /\ proc' = Reaped(p)
    BY <1>1, <1>2, <1>5 DEF WaitBlocks, WaitOutcomes
  <1>7. <<Delete(p, "TIMER")>> \in Seq(Change)
    <2>1. u \in Udatas /\ None \in FdOrNone /\ p \in PidOrNone
      BY <1>3, <1>4 DEF LiveUdatas, FdOrNone, PidOrNone
    <2> QED
      BY <2>1, OneChange
  <1>8. Frees(u, <<Delete(p, "TIMER")>>) /\ UNCHANGED conn
    BY <1>1, <1>3, <1>7, Destroyed DEF Push
  <1> QED
    BY <1>1, <1>2, <1>3, <1>4, <1>6, <1>8

\* The socket itself: nobody is left who knows it.
LEMMA ClearSocketEffect ==
  ASSUME TypeOK, Accounts, NEW f \in m_fd_set, ClearSocket(f)
  PROVE  /\ f \in Fds /\ fdt[f].kind = "sock" /\ HasLeft(fdt[f].of)
         /\ fdt[f].of \in Conns /\ fdt[f] = SockEntry(fdt[f].of)
         /\ \A u \in LiveUdatas : heap[u].m_client_sock # f
         /\ \A g \in Fds : fdt'[g] = IF g = f THEN FreeEntry ELSE fdt[g]
         /\ knotes' = {k \in knotes : k.filter = "TIMER" \/ k.ident # f}
         /\ \A c \in Conns : conn'[c].st = IF c = fdt[f].of THEN "closed"
                                           ELSE conn[c].st
         /\ m_fd_set' = m_fd_set \ {f}
         /\ UNCHANGED <<heap, m_udata_map, change_list, proc, pc, cur, event_list>>
         /\ pc = "dispatch" /\ event_list = {}
  <1>1. /\ f \in Fds /\ fdt[f].kind = "sock" /\ HasLeft(fdt[f].of)
    BY DEF Accounts, OnlyDeparted, Is, TypeOK
  <1>2. f \in DOMAIN m_udata_map /\ \A g \in Fds : fdt[g] = fdt[f] => g = f
    BY <1>1 DEF Accounts, Objects, SocketsApart, Is
  <1>3. fdt[f].of \in Conns /\ fdt[f] = SockEntry(fdt[f].of)
    BY <1>1 DEF TypeOK, FdEntry, SockEntry
  <1>4. Close({f}) /\ m_fd_set' = m_fd_set \ {f}
    BY <1>2 DEF ClearSocket
  <1>5. \A u \in LiveUdatas : heap[u].m_client_sock # f
    <2>1. ~\E u \in Udatas : Registered(f, u)
      BY DEF ClearSocket
    <2> QED
      BY <2>1 DEF Accounts, Objects, MapExact, LiveUdatas, Registered
  <1>6. \A g \in Fds : fdt'[g] = IF g = f THEN FreeEntry ELSE fdt[g]
    BY <1>4 DEF Close
  <1>7. knotes' = {k \in knotes : k.filter = "TIMER" \/ k.ident # f}
    BY <1>4 DEF Close
  <1>8. ASSUME NEW c \in Conns
        PROVE  conn'[c].st = IF c = fdt[f].of THEN "closed" ELSE conn[c].st
    <2>1. fdt[f] = SockEntry(c) <=> c = fdt[f].of
      BY <1>3 DEF SockEntry
    <2>2. conn'[c] = IF fdt[f] = SockEntry(c)
                       THEN [conn[c] EXCEPT !.st = "closed", !.full = FALSE]
                       ELSE conn[c]
      BY <1>1, <1>4 DEF Close
    <2>3. [conn[c] EXCEPT !.st = "closed", !.full = FALSE].st = "closed"
      BY DEF TypeOK, ConnRecord
    <2> QED
      BY <2>1, <2>2, <2>3
  <1> QED
    BY <1>1, <1>3, <1>4, <1>5, <1>6, <1>7, <1>8 DEF ClearSocket, Clearing, Continue

LEMMA ClearSocketObjects ==
  ASSUME TypeOK, Accounts, NEW f \in m_fd_set, ClearSocket(f)
  PROVE  Objects'
  <1>1. /\ f \in Fds /\ fdt[f].kind = "sock"
        /\ fdt[f].of \in Conns /\ fdt[f] = SockEntry(fdt[f].of)
        /\ \A u \in LiveUdatas : heap[u].m_client_sock # f
        /\ \A g \in Fds : fdt'[g] = IF g = f THEN FreeEntry ELSE fdt[g]
        /\ \A c \in Conns : conn'[c].st = IF c = fdt[f].of THEN "closed"
                                          ELSE conn[c].st
        /\ UNCHANGED <<heap, m_udata_map>>
        /\ LiveUdatas' = LiveUdatas
    BY ClearSocketEffect DEF LiveUdatas
  <1>2. \A u \in LiveUdatas : InShape(heap[u]) /\ Owns(u) /\ LiveRecord(heap[u])
    BY ObjectsParts, LiveObject DEF Accounts, Objects
  <1>3. Shaped'
    BY <1>1, <1>2, ObjectsPartsPrime
  <1>4. DescriptorsOwned'
    <2>1. ASSUME NEW u \in LiveUdatas
          PROVE  Owns(u)'
      <3>1. \A g \in Private(heap[u]) \cup {heap[u].m_client_sock} :
              fdt'[g] = fdt[g]
        BY <1>1, <1>2, PrivateKind DEF LiveRecord
      <3> QED
        BY <1>1, <1>2, <3>1 DEF Owns, Private, Is
    <2> QED
      BY <1>1, <2>1, ObjectsPartsPrime
  <1>5. ChildrenApart' /\ MapExact'
    BY <1>1 DEF Accounts, Objects, ChildrenApart, MapExact
  <1>6. FilesHeld'
    <2>1. ASSUME NEW g \in Fds
          PROVE  Held(g)'
      <3>1. Held(g) /\ (fdt'[g] = fdt[g] \/ fdt'[g].kind = "free")
        BY <1>1, ObjectsParts, FreeEntryKind DEF Accounts, Objects
      <3> QED
        BY <1>1, <3>1 DEF Held, Is
    <2> QED
      BY <2>1, ObjectsPartsPrime
  <1>7. SocketsApart'
    <2> SUFFICES ASSUME NEW g \in Fds, fdt'[g].kind = "sock"
                 PROVE  /\ g \in DOMAIN m_udata_map'
                        /\ conn'[fdt'[g].of].st \in {"open", "fin", "reset"}
                        /\ \A h \in Fds : fdt'[h] = fdt'[g] => h = g
      BY DEF SocketsApart, Is
    <2>1. g # f /\ fdt'[g] = fdt[g]
      BY <1>1, FreeEntryKind
    <2>2. /\ g \in DOMAIN m_udata_map /\ conn[fdt[g].of].st \in {"open", "fin", "reset"}
          /\ \A h \in Fds : fdt[h] = fdt[g] => h = g
      BY <2>1 DEF Accounts, Objects, SocketsApart, Is
    <2>3. fdt[g].of \in Conns /\ fdt[g] = SockEntry(fdt[g].of)
      BY <2>1 DEF TypeOK, FdEntry, SockEntry
    <2>4. fdt[g].of # fdt[f].of
      BY <1>1, <2>1, <2>2, <2>3
    <2> QED
      BY <1>1, <2>1, <2>2, <2>3, <2>4, FreeEntryKind
  <1> QED
    BY <1>3, <1>4, <1>5, <1>6, <1>7 DEF Objects
=============================================================================
