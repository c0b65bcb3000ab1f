-------------------------- MODULE ServerInvariant ---------------------------
(***************************************************************************)
(* The inductive invariant behind the memory and descriptor safety of the  *)
(* event loop: who owns which descriptor, filter and child, and what of    *)
(* that is true only once the changes not yet given to kevent() are        *)
(* applied.                                                                *)
(***************************************************************************)
EXTENDS ServerProperties

\* Where the loop keeps its accounts: no CGI timer expires, no child crashes and
\* no read() or write() of a file or pipe fails; a child whose input is a pipe
\* reads it to the end, and nobody leaves while files are uploaded. README.md,
\* section 3.1, has what fails without each of these.
Orderly ==
  /\ Kinds \subseteq {"inline", "file", "upload", "cgiGet", "cgiPost"}
  /\ Faults \subseteq {"fin", "reset", "abort", "early", "closeStdout"}
  /\ "upload" \in Kinds => Faults \cap {"fin", "reset"} = {}
  /\ "cgiPost" \in Kinds => Faults \cap {"early", "closeStdout"} = {}

(***************************************************************************)
(* Objects and what they own.                                              *)
(***************************************************************************)
\* What a live object may look like: a reader, a writer, a file or a pipe.
ClientShape(r) ==
  /\ r.m_type = "CLIENT"
  /\ r.static_read_file_fd = None /\ r.static_write_file_fd = None
  /\ r.m_read_pipe_fd = None /\ r.m_write_pipe_fd = None
  /\ r.m_child_pid = None
  /\ r.req = 0 => r.kind = "none"

FileShape(r) ==
  /\ r.m_type = "STATIC_FILE" /\ r.req # 0
  /\ r.m_read_pipe_fd = None /\ r.m_write_pipe_fd = None
  /\ r.m_child_pid = None
  /\ \/ r.static_read_file_fd \in Fds /\ r.static_write_file_fd = None
     \/ /\ r.static_read_file_fd = None /\ r.static_write_file_fd \in Fds
        /\ "upload" \in Kinds

PipeShape(r) ==
  /\ r.m_type = "PIPE" /\ r.req # 0
  /\ r.static_read_file_fd = None /\ r.static_write_file_fd = None
  /\ r.m_read_pipe_fd \in Fds /\ r.m_child_pid \in Pids
  /\ r.m_write_pipe_fd # None => r.m_write_pipe_fd \in Fds /\ "cgiPost" \in Kinds

Shaped ==
  \A u \in LiveUdatas :
    ClientShape(heap[u]) \/ FileShape(heap[u]) \/ PipeShape(heap[u])

\* The filters whose events are for an object like r.
Filters(r) ==
  CASE r.m_type = "CLIENT" ->
         {<<r.m_client_sock, IF r.req = 0 THEN "READ" ELSE "WRITE">>}
    [] r.m_type = "STATIC_FILE" ->
         {<<r.static_read_file_fd, "READ">>, <<r.static_write_file_fd, "WRITE">>}
    [] r.m_type = "PIPE" ->
         {<<r.m_read_pipe_fd, "READ">>, <<r.m_write_pipe_fd, "WRITE">>,
          <<r.m_child_pid, "TIMER">>}

\* Object u of heap h is alive and meant to hear of this filter.
Mine(h, u, id, filter) ==
  /\ u \in Udatas /\ h[u].st = "live" /\ id # None
  /\ <<id, filter>> \in Filters(h[u])

\* An event, knote or change says what it should: its object waits for exactly
\* that, or it is the listening socket's.
Proper(h, x) == x.udata = ServerUdata \/ Mine(h, x.udata, x.ident, x.filter)

\* No child has two objects.
ChildrenApart ==
  \A u, v \in LiveUdatas :
    heap[u].m_child_pid # None /\ heap[u].m_child_pid = heap[v].m_child_pid => u = v

\* Every open file or pipe is an object's.
FilesHeld ==
  \A f \in Fds :
    /\ Is(f, "rfile") => fdt[f].of \in LiveUdatas
                         /\ heap[fdt[f].of].static_read_file_fd = f
    /\ Is(f, "wfile") => fdt[f].of \in LiveUdatas
                         /\ heap[fdt[f].of].static_write_file_fd = f
    /\ Is(f, "piper") => \E u \in LiveUdatas : heap[u].m_read_pipe_fd = f
    /\ Is(f, "pipew") => \E u \in LiveUdatas : heap[u].m_write_pipe_fd = f

\* An open socket is the only one of a client that is there or has left.
SocketsApart ==
  \A f \in Fds : Is(f, "sock") =>
    /\ f \in DOMAIN m_udata_map
    /\ conn[fdt[f].of].st \in {"open", "fin", "reset"}
    /\ \A g \in Fds : fdt[g] = fdt[f] => g = f

(***************************************************************************)
(* Filters in the kernel and changes on their way to it.                   *)
(***************************************************************************)
SameKey(x, y) == x.ident = y.ident /\ x.filter = y.filter

\* A change from place i of list l on decides about the filter of x.
Overruled(l, x, i) == \E j \in 1 .. Len(l) : j >= i /\ SameKey(l[j], x)

\* x is about a descriptor of F.
About(x, F) == x.filter # "TIMER" /\ x.ident \in F

KnotesApart == \A j, k \in knotes : SameKey(j, k) => j = k

\* close() took the filters of a descriptor with it.
KnotesOpen == \A k \in knotes : ~About(k, FreeFds)

\* A filter of nobody's is about to be replaced, removed, or closed.
KnotesProper ==
  \A k \in knotes : Proper(heap, k) \/ Overruled(change_list, k, 1) \/ About(k, m_fd_set)

\* So is a change for nobody, or kevent() will refuse it.
ChangesProper ==
  \A i \in 1 .. Len(change_list) : change_list[i].op = "ADD" =>
    \/ Proper(heap, change_list[i])
    \/ Overruled(change_list, change_list[i], i + 1)
    \/ About(change_list[i], m_fd_set \cup FreeFds)

\* Handlers are still to run in this batch, so that descriptors may be opened.
MayOpen == event_list # {} \/ pc = "accept"

\* No change waits for a descriptor to be opened again.
ChangesOpen ==
  MayOpen => \A i \in 1 .. Len(change_list) : ~About(change_list[i], FreeFds)

(***************************************************************************)
(* The batch.                                                              *)
(***************************************************************************)
\* The events to be handled, and the one whose handler waits for a child.
Batch == event_list \cup {e \in {cur} : pc = "reapPipe"}

\* Nobody but the handler of an event touches what the event is about.
BatchProper ==
  /\ \A e \in Batch : Proper(heap, e) /\ e.filter # "TIMER"
  /\ \A d, e \in Batch : SameKey(d, e) => d = e

\* Changes for files and pipes come from handlers that have run.
BatchFirst ==
  \A e \in Batch : e.ident \in Fds /\ ~Is(e.ident, "sock") =>
    \A i \in 1 .. Len(change_list) : ~About(change_list[i], {e.ident})

\* What the kernel reported is still so.
StillReady(e) ==
  LET o == fdt[e.ident].of IN
  /\ Is(e.ident, "sock") /\ e.filter = "READ" =>
       IF e.eof THEN conn[o].st \in {"fin", "reset"} ELSE conn[o].rcvd < conn[o].sent
  /\ Is(e.ident, "sock") /\ e.filter = "WRITE" =>
       IF e.eof THEN conn[o].st = "reset" ELSE ~conn[o].full
  /\ Is(e.ident, "piper") => proc[o].out = "ready" \/ StdoutEnded(o)
  /\ Is(e.ident, "pipew") => IF e.eof THEN ~Alive(o) ELSE ~proc[o].full \/ ~Alive(o)

BatchReady == \A e \in Batch : StillReady(e)

(***************************************************************************)
(* Readers, clients that left, children.                                   *)
(***************************************************************************)
\* Once the changes of l are applied to the knotes of K, the filter leads to u.
Registers(K, l, id, filter, u) ==
  LET k == [ident |-> id, filter |-> filter, udata |-> u] IN
  \/ k \in K /\ ~Overruled(l, k, 1)
  \/ \E i \in 1 .. Len(l) : l[i] = Add(id, filter, u) /\ ~Overruled(l, k, i + 1)

Reads(u, f) ==
  u \in LiveUdatas /\ heap[u].m_client_sock = f /\ heap[u].req = 0

Heard ==
  \A f \in Fds : Is(f, "sock") /\ f \notin m_fd_set =>
    \E u \in Udatas : Reads(u, f) /\ Registers(knotes, change_list, f, "READ", u)

\* Only sockets whose clients left are torn down.
OnlyDeparted ==
  /\ \A f \in m_fd_set : Is(f, "sock") /\ HasLeft(fdt[f].of)
  /\ \A c \in Conns : HasLeft(c) => conn[c].st \in Faults

\* u is being deleted, and its child waited for.
Ending(u) == pc = "reapClear" /\ cur.udata = u

\* The child of an object has not been waited for; only clearUdata kills one,
\* and one that still has input to read runs.
ChildrenKept ==
  /\ \A p \in Pids : Alive(p) \/ Zombie(p) =>
       \E u \in LiveUdatas : heap[u].m_child_pid = p
  /\ \A u \in LiveUdatas : heap[u].m_child_pid # None =>
       LET p == heap[u].m_child_pid IN
       /\ Alive(p) \/ Zombie(p)
       /\ proc[p].st \in {"dying", "signaled"} => Ending(u)
       /\ heap[u].m_write_pipe_fd # None /\ ~Ending(u) =>
            proc[p].st = "running" /\ ~proc[p].closed
  /\ \A p \in Pids : proc[p].st = "none" => ~proc[p].closed

\* Where the loop may be.
Phases ==
  /\ pc \notin {"reapTimeout", "undefined"}
  /\ pc = "kevent" => event_list = {} /\ m_fd_set = {}
  /\ pc = "reapPipe" =>
       /\ cur \notin event_list
       /\ heap[cur.udata].m_type = "PIPE" /\ cur.filter = "READ"
       /\ heap[cur.udata].m_read_pipe_fd = cur.ident
       /\ StdoutEnded(heap[cur.udata].m_child_pid)
  /\ pc = "reapClear" =>
       /\ event_list = {} /\ cur.ident \in m_fd_set
       /\ Registered(cur.ident, cur.udata)
       /\ heap[cur.udata].m_child_pid # None

Objects ==
  /\ Shaped
  /\ DescriptorsOwned
  /\ ChildrenApart
  /\ FilesHeld
  /\ SocketsApart
  /\ MapExact

FiltersKept ==
  /\ KnotesApart
  /\ KnotesOpen
  /\ KnotesProper
  /\ ChangesProper
  /\ ChangesOpen
  /\ Heard

BatchKept ==
  /\ BatchProper
  /\ BatchFirst
  /\ BatchReady

Accounts ==
  /\ Objects
  /\ FiltersKept
  /\ BatchKept
  /\ OnlyDeparted
  /\ ChildrenKept
  /\ Phases
=============================================================================
