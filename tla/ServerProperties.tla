-------------------------- MODULE ServerProperties --------------------------
(***************************************************************************)
(* What should hold of the event loop. The comment of each property names  *)
(* the code it is about; README.md says under which faults it does hold.   *)
(***************************************************************************)
EXTENDS Server

\* The type invariant: every variable keeps the shape its declaration in
\* Server.hpp, or the kernel, gives it.
TypeOK ==
  /\ heap \in [Udatas -> UdataRecord]
  /\ DOMAIN m_udata_map \subseteq Fds \cup {ListenFd}
  /\ \A f \in DOMAIN m_udata_map :
       m_udata_map[f] \subseteq IF f = ListenFd THEN {ServerUdata} ELSE Udatas
  /\ m_fd_set \subseteq Fds
  /\ \A u \in Udatas : heap[u].st = "live" =>
       heap[u].m_client_sock \in Fds /\ heap[u].conn \in Conns
  /\ change_list \in Seq(Change)
  /\ event_list \subseteq Event
  /\ pc \in {"kevent", "dispatch", "accept", "reapPipe", "reapTimeout",
             "reapClear", "killed", "undefined"}
  /\ cur \in Event \cup {NoEvent}
  /\ pc \in {"reapPipe", "reapTimeout", "reapClear"} =>
       cur.udata \in Udatas /\ heap[cur.udata].st = "live"
  /\ pc \in {"reapPipe", "reapClear"} => cur.ident \in Fds
  /\ fdt \in [Fds -> FdEntry]
  /\ knotes \subseteq Knote
  /\ conn \in [Conns -> ConnRecord]
  /\ proc \in [Pids -> ProcRecord]

LiveUdatas == {u \in Udatas : heap[u].st = "live"}

\* The loop is about to sleep in kevent(), or sleeps there.
Waiting == pc = "kevent" /\ change_list = <<>>

(***************************************************************************)
(* Memory.                                                                 *)
(***************************************************************************)
\* No filter the kernel still watches leads to a deleted t_event_udata, so the
\* next kevent() cannot return a dangling pointer: clientWriteEvent and
\* clearUdata delete the object while its knotes are only closed or removed by
\* other means.
NoDanglingKnote == Waiting => \A k \in knotes : Live(k.udata)

\* No handler and no clearUdata is ever given a deleted t_event_udata: neither
\* by an event of the batch in which the object went, nor by a later batch, nor
\* by m_udata_map (Server.cpp:135, udata.cpp:59).
NoUseAfterFree == pc # "undefined"

\* Every object in use is found in m_udata_map under its own client socket, and
\* nothing else is: clearUdata(fd) deletes exactly the objects of that client.
MapExact ==
  /\ \A u \in LiveUdatas :
       /\ heap[u].m_client_sock \in DOMAIN m_udata_map
       /\ u \in m_udata_map[heap[u].m_client_sock]
  /\ \A f \in DOMAIN m_udata_map \ {ListenFd} : \A u \in m_udata_map[f] :
       u \in LiveUdatas /\ heap[u].m_client_sock = f

(***************************************************************************)
(* Descriptors and processes.                                              *)
(***************************************************************************)
\* A descriptor number an object holds is still the descriptor it opened: a
\* later close(), read() or write() cannot hit somebody else's.
DescriptorsOwned ==
  \A u \in LiveUdatas :
    LET r == heap[u] IN
    /\ fdt[r.m_client_sock] = SockEntry(r.conn)
    /\ r.static_read_file_fd # None =>
         Is(r.static_read_file_fd, "rfile") /\ fdt[r.static_read_file_fd].of = u
    /\ r.static_write_file_fd # None =>
         fdt[r.static_write_file_fd] = OutFileEntry(u)
    /\ r.m_read_pipe_fd # None =>
         fdt[r.m_read_pipe_fd] = PipeEntry("piper", r.m_child_pid)
    /\ r.m_write_pipe_fd # None =>
         fdt[r.m_write_pipe_fd] = PipeEntry("pipew", r.m_child_pid)

\* No descriptor leaks: each open one is held by an object through which some
\* handler or clearUdata will close it.
NoDescriptorLeak ==
  \A f \in Fds :
    \/ fdt[f] = FreeEntry
    \/ f \in m_fd_set
    \/ \E u \in LiveUdatas :
         LET r == heap[u] IN
         f \in {r.m_client_sock, r.static_read_file_fd, r.static_write_file_fd,
                r.m_read_pipe_fd, r.m_write_pipe_fd}

\* No zombie and no runaway: a child that was forked and not yet waited for is
\* the m_child_pid of an object, and such an m_child_pid is never the number of
\* a process already waited for, which kill() would send to a stranger.
ChildrenTracked ==
  /\ \A p \in Pids : Alive(p) \/ Zombie(p) =>
       \E u \in LiveUdatas : heap[u].m_child_pid = p
  /\ \A u \in LiveUdatas : heap[u].m_child_pid # None =>
       proc[heap[u].m_child_pid].st # "reaped"

\* A client that was torn down leaves nothing behind: whatever requests it had
\* in progress, their objects went with its socket (udata.cpp:42).
NothingLeftBehind ==
  Waiting => \A u \in LiveUdatas : conn[heap[u].conn].st # "closed"

(***************************************************************************)
(* Events.                                                                 *)
(***************************************************************************)
\* Whenever the loop sleeps, each connection has exactly one READ filter, and
\* its object is a fresh reader of that connection, waiting for a request.
EveryClientHeard ==
  Waiting => \A f \in Fds : Is(f, "sock") =>
    \E k \in knotes :
      /\ k.ident = f /\ k.filter = "READ"
      /\ \A j \in knotes : j.ident = f /\ j.filter = "READ" => j = k
      /\ k.udata \in LiveUdatas
      /\ heap[k.udata].conn = fdt[f].of /\ heap[k.udata].req = 0

\* The filters that still have to fire for the request of u to be answered.
Awaited(u) ==
  LET r == heap[u] IN
  CASE r.m_type = "CLIENT" -> {<<r.m_client_sock, "WRITE">>}
    [] r.m_type = "STATIC_FILE" /\ r.static_read_file_fd # None ->
         {<<r.static_read_file_fd, "READ">>}
    [] r.m_type = "STATIC_FILE" /\ r.static_read_file_fd = None ->
         {<<r.static_write_file_fd, "WRITE">>}
    [] r.m_type = "PIPE" ->
         {<<r.m_read_pipe_fd, "READ">>, <<r.m_child_pid, "TIMER">>}
           \cup {<<f, "WRITE">> : f \in {r.m_write_pipe_fd} \ {None}}

\* Whenever the loop sleeps, a request in progress has the filters its next
\* step depends on: none was deleted, replaced or never registered.
NoLostWakeup ==
  Waiting => \A u \in LiveUdatas : heap[u].req # 0 =>
    \A a \in Awaited(u) :
      \E k \in knotes : k.ident = a[1] /\ k.filter = a[2] /\ k.udata = u

\* Whatever happens to the clients, the listening socket stays registered with
\* the server's own object.
ListenerKept ==
  Waiting => [ident |-> ListenFd, filter |-> "READ", udata |-> ServerUdata]
               \in knotes

(***************************************************************************)
(* What the clients see.                                                   *)
(***************************************************************************)
\* A client is given the responses to its own requests, in the order it sent
\* them, each from its first byte to its last.
InOrder ==
  \A c \in Conns : \A i \in 1 .. Len(conn[c].out) :
    conn[c].out[i] =
      <<c, (i - 1) \div ResponseLen + 1, ((i - 1) % ResponseLen) + 1>>

\* The server closes a connection only after its client left it.
ClosesOnlyDeparted ==
  [][\A c \in Conns : conn[c].st = "open" => conn'[c].st # "closed"]_vars

HasLeft(c) == conn[c].st \in {"fin", "reset"}
UsesCgi(c) == \E u \in LiveUdatas : heap[u].conn = c /\ heap[u].m_type = "PIPE"

\* A client whose request does not go to a CGI is answered whatever the CGI
\* children of other clients do, and however long they take: one thread serves
\* them all, so no handler may wait for a child (pipe.cpp:42).
NoClientWaitsForAChild ==
  \A c \in Conns : \A n \in 1 .. MaxRequests :
    (Requested(c) >= n /\ conn[c].st = "open" /\ ~UsesCgi(c))
      ~> (Answered(c) >= n \/ HasLeft(c) \/ UsesCgi(c))

(***************************************************************************)
(* The refinement mapping to HttpService.                                  *)
(***************************************************************************)
Presence(c) ==
  CASE conn[c].st = "idle" -> "away"
    [] conn[c].st \in {"backlog", "open"} -> "connected"
    [] conn[c].st \in {"fin", "reset"} -> "leaving"
    [] conn[c].st = "closed" -> "released"

Service == INSTANCE HttpService WITH
  here  <- [c \in Conns |-> Presence(c)],
  asked <- [c \in Conns |-> Requested(c)],
  got   <- [c \in Conns |-> conn[c].out]

\* The server implements HttpService, its liveness included: a connection is its
\* conn record, a request counts when its last segment was sent. Whoever asked
\* and stays is answered, in order, and whoever leaves is released.
ServiceSpec == Service!Spec
=============================================================================
