---------------------------- MODULE ServerState ----------------------------
(***************************************************************************)
(* The state of the event loop of class Server (src/include/Server.hpp)    *)
(* together with the part of the operating system the loop talks to: the   *)
(* descriptor table, the kqueue, the client sockets and the CGI children.  *)
(*                                                                         *)
(* A t_event_udata is an element of Udatas and lives in heap; it is never  *)
(* reused once freed, so that a use after delete is a visible state.       *)
(* Descriptors are small integers because the kernel hands out the lowest  *)
(* free one and the code compares them with -1.                            *)
(***************************************************************************)
EXTENDS Integers, FiniteSets, Sequences

CONSTANTS
  Conns,        \* the clients, each opening one TCP connection
  Fds,          \* descriptors the process may hold besides the listening socket
  Udatas,       \* addresses "new t_event_udata" may return
  Pids,         \* process ids fork() may return
  Kinds,        \* the ways a request may be served, see RequestKinds
  Faults,       \* what goes wrong around the server, see FaultKinds
  MaxRequests,  \* requests a client sends on its connection
  Segments,     \* TCP segments a request arrives in
  Pipelining,   \* may a client send a request before the previous response?
  FileLen,      \* read() calls a served file takes, when none is short
  BodyLen,      \* units of a request body that is uploaded or piped to a CGI
  ResponseLen,  \* units of a response message; a write() takes one or more
  MaxEvents     \* MAX_EVENT_LIST_SIZE

RequestKinds ==
  {"inline", "empty", "file", "upload", "cgiGet", "cgiPost", "cgiNoProc"}

FaultKinds ==
  {"fin", "reset", "abort", "timeout", "crash", "early", "closeStdout",
   "ioError"}

ASSUME ServerAssumption ==
  /\ Fds \subseteq Nat \ {0} /\ IsFiniteSet(Fds)
  /\ Udatas \subseteq Nat \ {0} /\ IsFiniteSet(Udatas)
  /\ Pids \subseteq Nat \ {0} /\ IsFiniteSet(Pids)
  /\ IsFiniteSet(Conns)
  /\ Kinds \subseteq RequestKinds
  /\ Faults \subseteq FaultKinds
  /\ MaxRequests \in Nat /\ Segments \in Nat \ {0}
  /\ Pipelining \in BOOLEAN
  /\ FileLen \in Nat \ {0} /\ BodyLen \in Nat \ {0}
  /\ ResponseLen \in Nat \ {0} /\ MaxEvents \in Nat \ {0}

VARIABLES
  heap,         \* the t_event_udata objects
  m_udata_map,  \* descriptor -> set of udata, for descriptors ever registered
  m_fd_set,     \* sockets to tear down at the end of the batch
  change_list,  \* m_kqueue.change_list
  event_list,   \* the events of this batch not yet dispatched
  pc,           \* where Server::start is
  cur,          \* the event or udata whose handler is blocked in the kernel
  fdt,          \* kernel: descriptor table
  knotes,       \* kernel: filters registered in the kqueue
  conn,         \* kernel and client: the two ends of each connection
  proc          \* kernel: the CGI children

loop == <<m_fd_set, change_list, event_list, pc, cur>>
vars == <<heap, m_udata_map, m_fd_set, change_list, event_list, pc, cur,
          fdt, knotes, conn, proc>>

None == -1          \* the code's "no descriptor" and "no child"
ListenFd == 0       \* the listening socket
ServerUdata == 0    \* its t_event_udata, which is never freed

(***************************************************************************)
(* Objects of the program.                                                 *)
(***************************************************************************)
FdOrNone == Fds \cup {None}
PidOrNone == Pids \cup {None}
RequestNo == 0 .. MaxRequests
SegmentNo == 0 .. MaxRequests * Segments

(* kind is how the request of the udata is served, "none" before that.      *)
(* first and req stand for the Parser and the Request of the udata: the     *)
(* first segment the parser has buffered (0: none) and the number of the    *)
(* request once validation_phase = COMPLETE (0: not yet). conn is the       *)
(* client the udata was created for. body is m_response->body.size(),       *)
(* length and offset are m_response_write's.                                *)
UdataRecord ==
  [st : {"unused", "live", "freed"},
   m_type : {"CLIENT", "PIPE", "STATIC_FILE"},
   conn : Conns \cup {None},
   m_client_sock : FdOrNone,
   m_read_pipe_fd : FdOrNone,
   m_write_pipe_fd : FdOrNone,
   m_child_pid : PidOrNone,
   static_read_file_fd : FdOrNone,
   static_write_file_fd : FdOrNone,
   kind : RequestKinds \cup {"none"},
   first : SegmentNo,
   req : RequestNo,
   m_file_write_offset : 0 .. BodyLen,
   body : 0 .. FileLen,
   length : Nat,
   offset : Nat]

UnusedUdata ==
  [st |-> "unused", m_type |-> "CLIENT", conn |-> None,
   m_client_sock |-> None, m_read_pipe_fd |-> None, m_write_pipe_fd |-> None,
   m_child_pid |-> None, static_read_file_fd |-> None,
   static_write_file_fd |-> None, kind |-> "none",
   first |-> 0, req |-> 0, m_file_write_offset |-> 0, body |-> 0,
   length |-> 0, offset |-> 0]

\* A freed object keeps nothing but the fact that it was freed.
FreedUdata == [UnusedUdata EXCEPT !.st = "freed"]

\* Mutant of NewUdata: m_client_sock is left at -1.
NewUdataWithoutSocket(c, sock) ==
  [UnusedUdata EXCEPT !.st = "live", !.conn = c]

\* new t_event_udata(CLIENT, ...) with its Request, Response and client socket.
NewUdata(c, sock) ==
  [UnusedUdata EXCEPT !.st = "live", !.conn = c, !.m_client_sock = sock]

Live(u) == u = ServerUdata \/ (u \in Udatas /\ heap[u].st = "live")

\* The allocator returns the first address never used.
Fresh(n) ==
  /\ heap[n].st = "unused"
  /\ \A m \in Udatas : m < n => heap[m].st # "unused"

(***************************************************************************)
(* Objects of the kernel.                                                  *)
(***************************************************************************)
\* One per knote; eof is EV_EOF, which on the write end of a pipe comes with
\* data = 0. Only the server's own socket has the server's udata.
Event ==
  [ident : {ListenFd}, filter : {"READ"}, udata : {ServerUdata}, eof : {FALSE}]
    \cup [ident : Fds, filter : {"READ", "WRITE"}, udata : Udatas, eof : BOOLEAN]
    \cup [ident : PidOrNone, filter : {"TIMER"}, udata : Udatas, eof : {FALSE}]
Knote ==
  [ident : {ListenFd}, filter : {"READ"}, udata : {ServerUdata}]
    \cup [ident : Fds, filter : {"READ", "WRITE"}, udata : Udatas]
    \cup [ident : PidOrNone, filter : {"TIMER"}, udata : Udatas]
Change ==
  [op : {"ADD"}, ident : {ListenFd}, filter : {"READ"}, udata : {ServerUdata}]
    \cup [op : {"ADD"}, ident : FdOrNone, filter : {"READ", "WRITE"},
          udata : Udatas]
    \cup [op : {"ADD"}, ident : PidOrNone, filter : {"TIMER"}, udata : Udatas]
    \cup [op : {"DELETE"}, ident : FdOrNone, filter : {"READ", "WRITE"},
          udata : {None}]
    \cup [op : {"DELETE"}, ident : PidOrNone, filter : {"TIMER"}, udata : {None}]
NoEvent == [ident |-> None, filter |-> "TIMER", udata |-> None, eof |-> FALSE]

FdEntry ==
  [kind : {"free"}, of : {None}, left : {0}]
    \cup [kind : {"sock"}, of : Conns, left : {0}]
    \cup [kind : {"rfile"}, of : Udatas, left : 0 .. FileLen]
    \cup [kind : {"wfile"}, of : Udatas, left : {0}]
    \cup [kind : {"piper", "pipew"}, of : Pids, left : {0}]

FreeEntry == [kind |-> "free", of |-> None, left |-> 0]
SockEntry(c) == [kind |-> "sock", of |-> c, left |-> 0]
FileEntry(u) == [kind |-> "rfile", of |-> u, left |-> FileLen]
OutFileEntry(u) == [kind |-> "wfile", of |-> u, left |-> 0]
PipeEntry(end, p) == [kind |-> end, of |-> p, left |-> 0]

Is(f, kind) == f \in Fds /\ fdt[f].kind = kind

(* The client's side and the server's side of one connection: segments the  *)
(* client sent and recv() took, whether the send buffer is full, and the    *)
(* units of response the client was given, each <<client, request, unit>>.  *)
ConnRecord ==
  [st : {"idle", "backlog", "open", "fin", "reset", "closed"},
   sent : SegmentNo, rcvd : SegmentNo, full : BOOLEAN,
   out : Seq(Conns \X RequestNo \X Nat)]

(* dying: SIGTERM is pending. exited and signaled are the two kinds of      *)
(* zombie. out: what the child put on its stdout and the server did not     *)
(* read yet. full: its stdin pipe is full. closed: it closed its stdout.    *)
ProcRecord ==
  [st : {"none", "running", "dying", "exited", "signaled", "reaped"},
   out : {"none", "ready", "read"}, full : BOOLEAN, closed : BOOLEAN]

NoProc == [st |-> "none", out |-> "none", full |-> FALSE, closed |-> FALSE]

Alive(p) == proc[p].st \in {"running", "dying"}
Zombie(p) == proc[p].st \in {"exited", "signaled"}
\* Nobody but the server can still read from, or write to, the pipes of p.
StdoutEnded(p) == ~Alive(p) \/ proc[p].closed

(***************************************************************************)
(* System calls.                                                           *)
(***************************************************************************)
FreeFds == {f \in Fds : fdt[f].kind = "free"}

\* f is the descriptor the (k+1)-th of a series of opens gets.
Lowest(f, k) ==
  /\ f \in FreeFds
  /\ Cardinality({g \in FreeFds : g < f}) = k

(* close() of every descriptor in F that is open: the kernel drops the      *)
(* knotes of the descriptor, whoever registered them, and a socket's peer   *)
(* sees the connection go (SO_LINGER with a zero timeout, accept.cpp:20).   *)
Close(F) ==
  /\ fdt' = [f \in Fds |-> IF f \in F THEN FreeEntry ELSE fdt[f]]
  /\ knotes' = {k \in knotes : k.filter = "TIMER" \/ k.ident \notin F}
  /\ conn' = [c \in Conns |->
                IF \E f \in F \cap Fds : fdt[f] = SockEntry(c)
                  THEN [conn[c] EXCEPT !.st = "closed", !.full = FALSE]
                  ELSE conn[c]]

\* kill(p, SIGTERM); -1 addresses every process the user may signal.
Terminated(p) ==
  [q \in Pids |->
     IF p \in {q, None} /\ proc[q].st = "running"
       THEN [proc[q] EXCEPT !.st = "dying"] ELSE proc[q]]

\* waitpid(p): -1 waits for any child, and fails at once when there is none.
WaitBlocks(p) ==
  IF p = None
    THEN (\E q \in Pids : Alive(q)) /\ ~\E q \in Pids : Zombie(q)
    ELSE Alive(p)

Reaped(p) == [proc EXCEPT ![p] = [NoProc EXCEPT !.st = "reaped"]]

\* What waitpid(p) that does not block leaves of the process table.
WaitOutcomes(p) ==
  IF p = None
    THEN IF \E q \in Pids : Zombie(q)
           THEN {Reaped(q) : q \in {q \in Pids : Zombie(q)}} ELSE {proc}
    ELSE IF Zombie(p) THEN {Reaped(p)} ELSE {proc}

Readable(f) ==
  LET o == fdt[f].of IN
  CASE fdt[f].kind = "sock"  ->
         conn[o].rcvd < conn[o].sent \/ conn[o].st \in {"fin", "reset"}
    [] fdt[f].kind = "rfile" -> fdt[f].left > 0
    [] fdt[f].kind = "piper" -> proc[o].out = "ready" \/ StdoutEnded(o)
    [] OTHER -> FALSE

Writable(f) ==
  LET o == fdt[f].of IN
  CASE fdt[f].kind = "sock"  -> ~conn[o].full \/ conn[o].st = "reset"
    [] fdt[f].kind = "wfile" -> TRUE
    [] fdt[f].kind = "pipew" -> ~proc[o].full \/ ~Alive(o)
    [] OTHER -> FALSE

\* EV_EOF of a READ event: a client sends no more, or nobody has the write end of
\* the pipe open (pipe.cpp:38). A handler of another type that gets the end of a
\* pipe sees the flag too.
ReadEof(f) ==
  \/ Is(f, "sock") /\ conn[fdt[f].of].st \in {"fin", "reset"}
  \/ Is(f, "piper") /\ StdoutEnded(fdt[f].of)
WriteEof(f) ==
  \/ Is(f, "sock") /\ conn[fdt[f].of].st = "reset"
  \/ Is(f, "pipew") /\ ~Alive(fdt[f].of)

Backlog == {c \in Conns : conn[c].st = "backlog"}

\* The events kevent() must report, and the timers that may have expired.
EventOf(k, eof) ==
  [ident |-> k.ident, filter |-> k.filter, udata |-> k.udata, eof |-> eof]

ReadyEvents ==
  {EventOf(k, ReadEof(k.ident)) : k \in
      {k \in knotes : k.filter = "READ" /\ k.ident \in Fds /\ Readable(k.ident)}}
    \cup
  {EventOf(k, WriteEof(k.ident)) : k \in
      {k \in knotes : k.filter = "WRITE" /\ k.ident \in Fds /\ Writable(k.ident)}}
    \cup
  {EventOf(k, FALSE) : k \in
      {k \in knotes : k.ident = ListenFd /\ Backlog # {}}}

Timers == {k \in knotes : k.filter = "TIMER"}

(***************************************************************************)
(* change_list and m_udata_map.                                            *)
(***************************************************************************)
\* addEventToChangeList
Add(id, filter, u) ==
  [op |-> "ADD", ident |-> id, filter |-> filter, udata |-> u]
Delete(id, filter) ==
  [op |-> "DELETE", ident |-> id, filter |-> filter, udata |-> None]

\* Mutant of AddUdataMap: the new object takes the place of the others.
AddUdataMapReplacing(f, u) ==
  [g \in DOMAIN m_udata_map \cup {f} |-> IF g = f THEN {u} ELSE m_udata_map[g]]

AddUdataMap(f, u) ==
  [g \in DOMAIN m_udata_map \cup {f} |->
     (IF g \in DOMAIN m_udata_map THEN m_udata_map[g] ELSE {})
       \cup (IF g = f THEN {u} ELSE {})]

\* Mutant of RemoveUdata: the object stays in the map.
RemoveNothing(f, u) == m_udata_map

RemoveUdata(f, u) ==
  [g \in DOMAIN m_udata_map |-> m_udata_map[g] \ (IF g = f THEN {u} ELSE {})]
=============================================================================
