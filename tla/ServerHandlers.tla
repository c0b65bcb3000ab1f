--------------------------- MODULE ServerHandlers ---------------------------
(***************************************************************************)
(* The event handlers of src/src/Server/event/. Each handler is one action *)
(* with the event e it was called for: it runs to its end without another  *)
(* handler in between, and the kernel is seen through the system calls it  *)
(* makes. A handler that calls a blocking waitpid() or accept() is cut     *)
(* there in two: pc says where the whole process sleeps.                   *)
(***************************************************************************)
EXTENDS ServerState

\* Server::start takes e out of the batch and calls its handler.
Dispatch(e) ==
  /\ pc = "dispatch"
  /\ e \in event_list
  /\ event_list' = event_list \ {e}

\* getEventStatus: the filter and the present type of the udata decide.
HandledAs(e, filter, type) ==
  /\ e.filter = filter
  /\ e.udata \in Udatas
  /\ heap[e.udata].st = "live"
  /\ heap[e.udata].m_type = type

Continue == pc' = pc /\ cur' = cur
Sleep(where, e) == pc' = where /\ cur' = e
Wake(where, back) ==
  /\ pc = where
  /\ pc' = back
  /\ cur' = NoEvent
  /\ UNCHANGED event_list

Push(changes) == change_list' = change_list \o changes

\* Mutant of Respond: m_type is not set back to CLIENT.
RespondKeepingType(u, s) ==
  [s EXCEPT ![u].length = @ + ResponseLen, ![u].offset = 0]

\* The handlers' end: u's response message is generated and will be written
\* by clientWriteEvent. A second message for one Response is appended to the
\* first (Response::response_message only grows).
Respond(u, s) ==
  [s EXCEPT ![u].m_type = "CLIENT", ![u].length = @ + ResponseLen,
            ![u].offset = 0]

(***************************************************************************)
(* serverReadEvent and clientReadAccept.                                   *)
(***************************************************************************)
\* Mutant of RegisterClient: the event is added for the listening socket.
RegisterClientOnListener(c) ==
  \E f \in Fds, n \in Udatas :
    /\ Lowest(f, 0) /\ Fresh(n)
    /\ fdt' = [fdt EXCEPT ![f] = SockEntry(c)]
    /\ conn' = [conn EXCEPT ![c].st = "open"]
    /\ heap' = [heap EXCEPT ![n] = NewUdata(c, f)]
    /\ m_udata_map' = AddUdataMap(f, n)
    /\ Push(<<Add(ListenFd, "READ", n)>>)

RegisterClient(c) ==
  \E f \in Fds, n \in Udatas :
    /\ Lowest(f, 0) /\ Fresh(n)
    /\ fdt' = [fdt EXCEPT ![f] = SockEntry(c)]
    /\ conn' = [conn EXCEPT ![c].st = "open"]
    /\ heap' = [heap EXCEPT ![n] = NewUdata(c, f)]
    /\ m_udata_map' = AddUdataMap(f, n)
    /\ Push(<<Add(f, "READ", n)>>)

\* accept() fails for want of a descriptor: the kernel drops the connection
\* or leaves it in the backlog.
RefuseClient(c) ==
  /\ FreeFds = {}
  /\ conn' \in {conn, [conn EXCEPT ![c].st = "closed"]}
  /\ UNCHANGED <<heap, m_udata_map, change_list, fdt>>

Accept ==
  /\ \E c \in Backlog : RegisterClient(c) \/ RefuseClient(c)
  /\ UNCHANGED <<m_fd_set, knotes, proc>>

ServerReadEvent(e) ==
  /\ Dispatch(e)
  /\ e.udata = ServerUdata
  /\ IF Backlog # {}
       THEN Accept /\ Continue
       ELSE /\ Sleep("accept", e)     \* the listening socket is blocking
            /\ UNCHANGED <<heap, m_udata_map, m_fd_set, change_list, fdt,
                           knotes, conn, proc>>

AcceptReturns == Wake("accept", "dispatch") /\ Accept

(***************************************************************************)
(* addStaticRequestEvent and addCgiRequestEvent, one operator per way the  *)
(* request is served. s is the heap with the request stored in u, n the    *)
(* udata that takes over reading from the socket. HttpProcessor has opened *)
(* the file, or made the pipes and forked the child.                       *)
(***************************************************************************)
NextReader(s, sock, c, n) == [s EXCEPT ![n] = NewUdata(c, sock)]

\* Mutant of PushWithReader: nobody reads the socket after the first request.
PushWithoutReader(changes, sock, n) == Push(changes)

\* The changes of a handler end with the new reader's.
PushWithReader(changes, sock, n) ==
  Push(changes \o <<Add(sock, "READ", n)>>)

\* No file is involved: auto index, redirection, DELETE and every error.
AddInline(s, u, sock, c, n) ==
  /\ heap' = NextReader(Respond(u, s), sock, c, n)
  /\ PushWithReader(<<Add(sock, "WRITE", u)>>, sock, n)
  /\ UNCHANGED <<fdt, proc>>

\* The file is empty: it is closed again, but static_read_file_fd keeps its
\* number.
AddEmptyFile(s, u, sock, c, n) ==
  \E f \in Fds :
    /\ Lowest(f, 0)
    /\ heap' = NextReader([Respond(u, s) EXCEPT ![u].static_read_file_fd = f],
                          sock, c, n)
    /\ PushWithReader(<<Add(sock, "WRITE", u)>>, sock, n)
    /\ UNCHANGED <<fdt, proc>>

AddFile(s, u, sock, c, n) ==
  \E f \in Fds :
    /\ Lowest(f, 0)
    /\ fdt' = [fdt EXCEPT ![f] = FileEntry(u)]
    /\ heap' = NextReader([s EXCEPT ![u].m_type = "STATIC_FILE",
                                    ![u].static_read_file_fd = f], sock, c, n)
    /\ PushWithReader(<<Add(f, "READ", u)>>, sock, n)
    /\ UNCHANGED proc

AddUpload(s, u, sock, c, n) ==
  \E f \in Fds :
    /\ Lowest(f, 0)
    /\ fdt' = [fdt EXCEPT ![f] = OutFileEntry(u)]
    /\ heap' = NextReader([s EXCEPT ![u].m_type = "STATIC_FILE",
                                    ![u].static_write_file_fd = f], sock, c, n)
    /\ PushWithReader(<<Add(f, "WRITE", u)>>, sock, n)
    /\ UNCHANGED proc

(* pipeAndFork makes two pipes, four descriptors in a row: the ends of the  *)
(* pipe to the child and then of the pipe from it, the read end first. The  *)
(* server keeps the third, and for a POST the second as well.               *)
CgiEvents(u, rfd, wfd, p) ==
  (IF wfd = None THEN <<>> ELSE <<Add(wfd, "WRITE", u)>>)
    \o <<Add(rfd, "READ", u), Add(p, "TIMER", u)>>

AddCgi(s, u, sock, c, n, post) ==
  \E p \in Pids, w \in Fds, rfd \in Fds :
    LET wfd == IF post THEN w ELSE None IN
    /\ proc[p].st = "none" /\ \A q \in Pids : q < p => proc[q].st # "none"
    /\ Cardinality(FreeFds) >= 4 /\ Lowest(w, 1) /\ Lowest(rfd, 2)
    /\ fdt' = [f \in Fds |-> IF f = rfd THEN PipeEntry("piper", p)
                             ELSE IF f = wfd THEN PipeEntry("pipew", p)
                             ELSE fdt[f]]
    /\ proc' = [proc EXCEPT ![p].st = "running"]
    /\ heap' = NextReader([s EXCEPT ![u].m_type = "PIPE",
                                    ![u].m_read_pipe_fd = rfd,
                                    ![u].m_write_pipe_fd = wfd,
                                    ![u].m_child_pid = p], sock, c, n)
    /\ PushWithReader(CgiEvents(u, rfd, wfd, p), sock, n)

\* A PUT, DELETE or HEAD that a CGI location accepts: the method's handler
\* throws, cgi_flag stays set and no process exists.
AddCgiNoProcess(s, u, sock, c, n) ==
  /\ heap' = NextReader([s EXCEPT ![u].m_type = "PIPE"], sock, c, n)
  /\ PushWithReader(CgiEvents(u, None, None, None), sock, n)
  /\ UNCHANGED <<fdt, proc>>

\* The ways the request of r may be served. Any request may end in an error
\* response; one that is processed again is the same request.
ServedAs(r) == {"inline"} \cup (IF r.kind = "none" THEN Kinds ELSE {r.kind})

ProcessRequest(r, u, sock, c) ==
  \E n \in Udatas, kind \in ServedAs(r) :
    LET s == [heap EXCEPT ![u] = [r EXCEPT !.kind = kind]] IN
    /\ Fresh(n)
    /\ m_udata_map' = AddUdataMap(sock, n)
    /\ \/ kind = "inline" /\ AddInline(s, u, sock, c, n)
       \/ kind = "empty" /\ AddEmptyFile(s, u, sock, c, n)
       \/ kind = "file" /\ AddFile(s, u, sock, c, n)
       \/ kind = "upload" /\ AddUpload(s, u, sock, c, n)
       \/ kind = "cgiGet" /\ AddCgi(s, u, sock, c, n, FALSE)
       \/ kind = "cgiPost" /\ AddCgi(s, u, sock, c, n, TRUE)
       \/ kind = "cgiNoProc" /\ AddCgiNoProcess(s, u, sock, c, n)

(***************************************************************************)
(* clientReadEvent and readClientSocketBuffer.                             *)
(***************************************************************************)
\* The request whose first segment is i, or 0 when i is in the middle of one.
RequestAt(i) ==
  IF i > 0 /\ (i - 1) % Segments = 0 THEN (i - 1) \div Segments + 1 ELSE 0

(* Parser::readBuffer on all that client c has sent: a parser whose request *)
(* is COMPLETE drops the data; otherwise its request completes with its     *)
(* last segment, and whatever was received after that is lost with the      *)
(* parser. A stream that does not start with a start line never completes.  *)
ReadBuffer(r, c) ==
  IF r.req # 0 THEN r
  ELSE LET first == IF r.first = 0 THEN conn[c].rcvd + 1 ELSE r.first
           n == RequestAt(first)
       IN  [r EXCEPT !.first = first,
                     !.req = IF n # 0 /\ conn[c].sent >= n * Segments
                               THEN n ELSE 0]

\* Mutant of ClientReadEof: only the READ filter is removed.
ClientReadEofIgnored(e) ==
  /\ e.eof
  /\ Push(<<Delete(e.ident, "READ")>>)
  /\ UNCHANGED <<heap, m_udata_map, m_fd_set, fdt, conn, proc>>

ClientReadEof(e) ==
  /\ e.eof
  /\ m_fd_set' = m_fd_set \cup {e.ident}
  /\ Push(<<Delete(e.ident, "READ")>>)
  /\ UNCHANGED <<heap, m_udata_map, fdt, conn, proc>>

\* recv() has data for the socket e.ident; otherwise it fails, or finds the end
\* of the stream, and the handler goes on to look at the request all the same.
CanReceive(f) == Is(f, "sock") /\ conn[fdt[f].of].rcvd < conn[fdt[f].of].sent

ClientReadData(e) ==
  LET u == e.udata
      c == IF Is(e.ident, "sock") THEN fdt[e.ident].of ELSE heap[u].conn
      r == IF CanReceive(e.ident) THEN ReadBuffer(heap[u], c) ELSE heap[u]
  IN /\ ~e.eof
     /\ IF CanReceive(e.ident)
          THEN /\ conn' = [conn EXCEPT ![c].rcvd = conn[c].sent]
               /\ UNCHANGED m_fd_set
          ELSE /\ m_fd_set' = m_fd_set \cup {e.ident}
               /\ UNCHANGED conn
     /\ IF r.req = 0
          THEN /\ heap' = [heap EXCEPT ![u] = r]
               /\ UNCHANGED <<m_udata_map, change_list, fdt, proc>>
          ELSE ProcessRequest(r, u, e.ident, c)

ClientReadEvent(e) ==
  /\ Dispatch(e)
  /\ HandledAs(e, "READ", "CLIENT")
  /\ ClientReadEof(e) \/ ClientReadData(e)
  /\ Continue
  /\ UNCHANGED knotes

(***************************************************************************)
(* clientWriteEvent. It writes to whatever e.ident now names.              *)
(***************************************************************************)
CanWrite(f) ==
  \/ Is(f, "sock") /\ conn[fdt[f].of].st \in {"open", "fin"}
                   /\ ~conn[fdt[f].of].full
  \/ Is(f, "wfile")
  \/ Is(f, "pipew") /\ Alive(fdt[f].of) /\ ~proc[fdt[f].of].full

\* Nobody can read what is written any more: write() raises SIGPIPE.
NoReader(f) ==
  \/ Is(f, "sock") /\ conn[fdt[f].of].st = "reset"
  \/ Is(f, "pipew") /\ ~Alive(fdt[f].of)

\* Mutant of Units: write() starts from the beginning of the message.
UnitsFromStart(u, k) ==
  [i \in 1 .. k |-> <<heap[u].conn, heap[u].req, i>>]

\* The next k units of u's message.
Units(u, k) ==
  [i \in 1 .. k |-> <<heap[u].conn, heap[u].req, heap[u].offset + i>>]

\* A write() to a socket that took less than it was offered has filled it.
Sent(f, u, k) ==
  IF Is(f, "sock")
    THEN [conn EXCEPT
            ![fdt[f].of].out = @ \o Units(u, k),
            ![fdt[f].of].full = heap[u].offset + k < heap[u].length]
    ELSE conn

\* Mutant of ClientWriteFails: the client may be dropped without an error.
ClientDroppedAnyway(e) ==
  /\ m_fd_set' = m_fd_set \cup {e.ident}
  /\ UNCHANGED <<heap, m_udata_map, change_list, conn>>

ClientWriteFails(e) ==
  /\ e.eof \/ ~CanWrite(e.ident)
  /\ m_fd_set' = m_fd_set \cup {e.ident}
  /\ UNCHANGED <<heap, m_udata_map, change_list, conn>>

ClientWriteSome(e) ==
  LET u == e.udata IN
  \E k \in 0 .. heap[u].length - heap[u].offset :
    /\ ~e.eof /\ CanWrite(e.ident)
    /\ k = 0 => heap[u].length = heap[u].offset
    /\ conn' = Sent(e.ident, u, k)
    /\ IF heap[u].offset + k < heap[u].length
         THEN /\ heap' = [heap EXCEPT ![u].offset = @ + k]
              /\ UNCHANGED <<m_udata_map, change_list>>
         ELSE /\ heap' = [heap EXCEPT ![u] = FreedUdata]
              /\ m_udata_map' = RemoveUdata(e.ident, u)
              /\ Push(<<Delete(e.ident, "WRITE")>>)
    /\ UNCHANGED m_fd_set

ClientWriteEvent(e) ==
  /\ Dispatch(e)
  /\ HandledAs(e, "WRITE", "CLIENT")
  /\ ClientWriteFails(e) \/ ClientWriteSome(e)
  /\ Continue
  /\ UNCHANGED <<fdt, knotes, proc>>

(***************************************************************************)
(* staticFileReadEvent and fileWriteEvent.                                 *)
(***************************************************************************)
\* A pipe of a living child with nothing to read in it, or no room to write.
WouldBlock(f) ==
  LET p == fdt[f].of IN
  \/ Is(f, "piper") /\ proc[p].out # "ready" /\ ~StdoutEnded(p)
  \/ Is(f, "pipew") /\ proc[p].full /\ Alive(p)

(* A read() or write() returned -1: the client of the udata is dropped. It  *)
(* does so on a descriptor that is not the one it was, too: what it would   *)
(* transfer through a descriptor that became somebody else's is left out.   *)
TransferFails(e, kind) ==
  /\ "ioError" \in Faults \/ ~Is(e.ident, kind) \/ WouldBlock(e.ident)
  /\ m_fd_set' = m_fd_set \cup {heap[e.udata].m_client_sock}
  /\ UNCHANGED <<heap, change_list, fdt, knotes, conn, proc>>

StaticFileReadSome(e) ==
  LET u == e.udata IN
  /\ Is(e.ident, "rfile") /\ fdt[e.ident].left > 0
  /\ IF heap[u].body + 1 < FileLen
       THEN /\ heap' = [heap EXCEPT ![u].body = @ + 1]
            /\ fdt' = [fdt EXCEPT ![e.ident].left = @ - 1]
            /\ UNCHANGED <<change_list, knotes, conn>>
       ELSE /\ heap' = Respond(u, [heap EXCEPT ![u].body = FileLen,
                                              ![u].static_read_file_fd = None])
            /\ Push(<<Add(heap[u].m_client_sock, "WRITE", u)>>)
            /\ Close({e.ident})
  /\ UNCHANGED <<m_fd_set, proc>>

StaticFileReadEvent(e) ==
  /\ Dispatch(e)
  /\ HandledAs(e, "READ", "STATIC_FILE")
  /\ StaticFileReadSome(e) \/ TransferFails(e, "rfile")
  /\ Continue
  /\ UNCHANGED m_udata_map

\* Mutant of FileWriteSome: static_write_file_fd keeps the closed number.
FileWriteKeepingFd(e) ==
  LET u == e.udata IN
  \E k \in 1 .. BodyLen - heap[u].m_file_write_offset :
    LET written == heap[u].m_file_write_offset + k
        s == [heap EXCEPT ![u].m_file_write_offset = written]
    IN /\ Is(e.ident, "wfile")
       /\ IF written < BodyLen
            THEN /\ heap' = s
                 /\ UNCHANGED <<change_list, fdt, knotes, conn>>
            ELSE /\ heap' = Respond(u, s)
                 /\ Push(<<Add(heap[u].m_client_sock, "WRITE", u)>>)
                 /\ Close({e.ident})
       /\ UNCHANGED <<m_fd_set, proc>>

FileWriteSome(e) ==
  LET u == e.udata IN
  \E k \in 1 .. BodyLen - heap[u].m_file_write_offset :
    LET written == heap[u].m_file_write_offset + k
        s == [heap EXCEPT ![u].m_file_write_offset = written]
    IN /\ Is(e.ident, "wfile")
       /\ IF written < BodyLen
            THEN /\ heap' = s
                 /\ UNCHANGED <<change_list, fdt, knotes, conn>>
            ELSE /\ heap' = Respond(u, [s EXCEPT
                                          ![u].static_write_file_fd = None])
                 /\ Push(<<Add(heap[u].m_client_sock, "WRITE", u)>>)
                 /\ Close({e.ident})
       /\ UNCHANGED <<m_fd_set, proc>>

FileWriteEvent(e) ==
  /\ Dispatch(e)
  /\ HandledAs(e, "WRITE", "STATIC_FILE")
  /\ FileWriteSome(e) \/ TransferFails(e, "wfile")
  /\ Continue
  /\ UNCHANGED m_udata_map

(***************************************************************************)
(* pipeReadEvent, pipeWriteEvent and cgiProcessTimeoutEvent.               *)
(***************************************************************************)
PipeReadSome(e) ==
  /\ Is(e.ident, "piper") /\ proc[fdt[e.ident].of].out = "ready"
  /\ proc' = [proc EXCEPT ![fdt[e.ident].of].out = "read"]
  /\ Continue
  /\ UNCHANGED <<heap, m_fd_set, change_list, fdt, knotes, conn>>

\* End of the child's output: waitpid() for the child.
PipeReadEnd(e) ==
  /\ Is(e.ident, "piper") /\ proc[fdt[e.ident].of].out # "ready"
  /\ StdoutEnded(fdt[e.ident].of)
  /\ Sleep("reapPipe", e)
  /\ UNCHANGED <<heap, m_fd_set, change_list, fdt, knotes, conn, proc>>

PipeReadEvent(e) ==
  /\ Dispatch(e)
  /\ HandledAs(e, "READ", "PIPE")
  /\ PipeReadSome(e) \/ PipeReadEnd(e) \/ (TransferFails(e, "piper") /\ Continue)
  /\ UNCHANGED m_udata_map

\* The child was killed by a signal: nothing is closed, and m_child_pid still
\* names the process that is gone.
PipeChildSignaled(u) ==
  /\ m_fd_set' = m_fd_set \cup {heap[u].m_client_sock}
  /\ UNCHANGED <<heap, change_list, fdt, knotes, conn>>

\* Mutants of PipeChildExited: m_child_pid, or the pipe's descriptors, are kept.
PipeChildKeepingPid(u, f) ==
  /\ heap' = Respond(u, [heap EXCEPT ![u].m_read_pipe_fd = None,
                                     ![u].m_write_pipe_fd = None])
  /\ Push(<<Add(heap[u].m_client_sock, "WRITE", u),
            Delete(heap[u].m_child_pid, "TIMER")>>)
  /\ Close({heap[u].m_write_pipe_fd, f})
  /\ UNCHANGED m_fd_set

PipeChildKeepingFds(u, f) ==
  /\ heap' = Respond(u, [heap EXCEPT ![u].m_child_pid = None])
  /\ Push(<<Add(heap[u].m_client_sock, "WRITE", u),
            Delete(heap[u].m_child_pid, "TIMER")>>)
  /\ Close({heap[u].m_write_pipe_fd, f})
  /\ UNCHANGED m_fd_set

PipeChildExited(u, f) ==
  /\ heap' = Respond(u, [heap EXCEPT ![u].m_read_pipe_fd = None,
                                     ![u].m_write_pipe_fd = None,
                                     ![u].m_child_pid = None])
  /\ Push(<<Add(heap[u].m_client_sock, "WRITE", u),
            Delete(heap[u].m_child_pid, "TIMER")>>)
  /\ Close({heap[u].m_write_pipe_fd, f})
  /\ UNCHANGED m_fd_set

\* waitpid() returns. When it fails it leaves status as it is, uninitialised.
PipeReadReaped ==
  LET u == cur.udata
      p == heap[u].m_child_pid
  IN /\ Wake("reapPipe", "dispatch")
     /\ ~WaitBlocks(p)
     /\ proc' \in WaitOutcomes(p)
     /\ \/ (p \in Pids => proc[p].st # "exited") /\ PipeChildSignaled(u)
        \/ (p \in Pids => proc[p].st # "signaled")
             /\ PipeChildExited(u, cur.ident)
     /\ UNCHANGED m_udata_map

PipeWriteSome(e) ==
  LET u == e.udata
      rest == BodyLen - heap[u].m_file_write_offset
  IN \E k \in 1 .. rest :
       LET s == [heap EXCEPT ![u].m_file_write_offset = @ + k] IN
       /\ ~e.eof /\ Is(e.ident, "pipew") /\ CanWrite(e.ident)
       /\ proc' = [proc EXCEPT ![fdt[e.ident].of].full = k < rest]
       /\ IF k < rest
            THEN heap' = s /\ UNCHANGED <<fdt, knotes, conn>>
            ELSE /\ heap' = [s EXCEPT ![u].m_write_pipe_fd = None]
                 /\ Close({e.ident})
       /\ UNCHANGED <<m_fd_set, change_list>>

\* The child is gone: data is 0, nothing is written and the knote stays.
PipeWriteNothing(e) ==
  /\ e.eof
  /\ UNCHANGED <<heap, m_fd_set, change_list, fdt, knotes, conn, proc>>

PipeWriteEvent(e) ==
  /\ Dispatch(e)
  /\ HandledAs(e, "WRITE", "PIPE")
  /\ PipeWriteSome(e) \/ PipeWriteNothing(e) \/ TransferFails(e, "pipew")
  /\ Continue
  /\ UNCHANGED m_udata_map

\* Both pipe ends are closed, whatever m_type is now; their numbers stay in the
\* udata. kill() and waitpid() go to the pid the timer was set for.
CgiProcessTimeoutEvent(e) ==
  /\ Dispatch(e)
  /\ e.filter = "TIMER" /\ heap[e.udata].st = "live"
  /\ Close({heap[e.udata].m_read_pipe_fd, heap[e.udata].m_write_pipe_fd})
  /\ proc' = Terminated(e.ident)
  /\ Sleep("reapTimeout", e)
  /\ UNCHANGED <<heap, m_udata_map, m_fd_set, change_list>>

CgiTimeoutReaped ==
  LET u == cur.udata IN
  /\ Wake("reapTimeout", "dispatch")
  /\ ~WaitBlocks(cur.ident)
  /\ proc' \in WaitOutcomes(cur.ident)
  /\ heap' = Respond(u, [heap EXCEPT ![u].m_child_pid = None])
  /\ Push(<<Add(heap[u].m_client_sock, "WRITE", u)>>)
  /\ UNCHANGED <<m_udata_map, m_fd_set, fdt, knotes, conn>>

(***************************************************************************)
(* SIGPIPE, which the program does not handle, ends the process.           *)
(***************************************************************************)
BrokenPipe(e) ==
  /\ Dispatch(e)
  /\ \/ HandledAs(e, "WRITE", "CLIENT")
     \/ HandledAs(e, "WRITE", "PIPE")
  /\ ~e.eof /\ NoReader(e.ident)
  /\ pc' = "killed" /\ cur' = cur
  /\ UNCHANGED <<heap, m_udata_map, m_fd_set, change_list, fdt, knotes, conn,
                 proc>>

(***************************************************************************)
(* clearUdata, at the end of a batch: the sockets of m_fd_set in ascending *)
(* order, and for each of them every udata of m_udata_map.                 *)
(***************************************************************************)
Clearing(f) ==
  /\ pc = "dispatch" /\ event_list = {}
  /\ f \in m_fd_set /\ \A g \in m_fd_set : f <= g
  /\ UNCHANGED event_list

Registered(f, u) == f \in DOMAIN m_udata_map /\ u \in m_udata_map[f]

\* Mutant of Destroy: the object is deleted without closing its descriptors.
DestroyKeepingDescriptors(f, u) ==
  /\ Close({})
  /\ heap' = [heap EXCEPT ![u] = FreedUdata]
  /\ m_udata_map' = RemoveUdata(f, u)
  /\ UNCHANGED m_fd_set

\* close() of the udata's descriptors and delete. static_write_file_fd is not
\* among them.
Destroy(f, u) ==
  /\ Close({heap[u].static_read_file_fd, heap[u].m_read_pipe_fd,
            heap[u].m_write_pipe_fd})
  /\ heap' = [heap EXCEPT ![u] = FreedUdata]
  /\ m_udata_map' = RemoveUdata(f, u)
  /\ UNCHANGED m_fd_set

ClearUdata(f, u) ==
  /\ Clearing(f) /\ Registered(f, u)
  /\ heap[u].st = "live" /\ heap[u].m_child_pid = None
  /\ Destroy(f, u)
  /\ Continue
  /\ UNCHANGED <<change_list, proc>>

ClearKill(f, u) ==
  /\ Clearing(f) /\ Registered(f, u)
  /\ heap[u].st = "live" /\ heap[u].m_child_pid # None
  /\ proc' = Terminated(heap[u].m_child_pid)
  /\ Sleep("reapClear", [ident |-> f, filter |-> "READ", udata |-> u,
                         eof |-> FALSE])
  /\ UNCHANGED <<heap, m_udata_map, m_fd_set, change_list, fdt, knotes, conn>>

ClearReaped ==
  LET p == heap[cur.udata].m_child_pid IN
  /\ Wake("reapClear", "dispatch")
  /\ ~WaitBlocks(p)
  /\ proc' \in WaitOutcomes(p)
  /\ Push(<<Delete(p, "TIMER")>>)
  /\ Destroy(cur.ident, cur.udata)

\* A descriptor m_udata_map has never seen is skipped, not closed.
ClearSocket(f) ==
  /\ Clearing(f) /\ ~\E u \in Udatas : Registered(f, u)
  /\ m_fd_set' = m_fd_set \ {f}
  /\ Close(IF f \in DOMAIN m_udata_map THEN {f} ELSE {})
  /\ Continue
  /\ UNCHANGED <<heap, m_udata_map, change_list, proc>>

\* Server::start or clearUdata uses a t_event_udata that was deleted: the next
\* event of the batch carries it, or m_udata_map still lists it. Nothing is
\* known of the process afterwards.
UseAfterFree(u) ==
  /\ pc = "dispatch"
  /\ heap[u].st = "freed"
  /\ \/ \E e \in event_list : e.udata = u
     \/ event_list = {} /\ \E f \in m_fd_set : Registered(f, u)
  /\ pc' = "undefined"
  /\ UNCHANGED <<heap, m_udata_map, m_fd_set, change_list, event_list, cur,
                 fdt, knotes, conn, proc>>
=============================================================================
