------------------------------- MODULE Server -------------------------------
(***************************************************************************)
(* Server::start (src/src/Server/Server.cpp:111) with its handlers, the    *)
(* kernel, the clients and the CGI children around it.                     *)
(***************************************************************************)
EXTENDS ServerHandlers

(***************************************************************************)
(* kevent(). The kernel applies change_list in order and then reports the  *)
(* filters that are ready. A change that fails (its descriptor is not      *)
(* open, or it deletes what is not there) comes back as an EV_ERROR event, *)
(* which the loop skips: it is dropped here.                               *)
(***************************************************************************)
SameKnote(k, ch) == k.ident = ch.ident /\ k.filter = ch.filter

Registrable(ch) ==
  \/ ch.filter = "TIMER"
  \/ ch.ident = ListenFd
  \/ ch.ident \in Fds \ FreeFds

KnoteOf(ch) ==
  [ident |-> ch.ident, filter |-> ch.filter, udata |-> ch.udata]

ApplyChange ==
  LET ch == Head(change_list)
      others == {k \in knotes : ~SameKnote(k, ch)}
  IN /\ pc = "kevent" /\ change_list # <<>>
     /\ change_list' = Tail(change_list)
     /\ knotes' = CASE ch.op = "DELETE" -> others
                    [] ch.op = "ADD" /\ Registrable(ch) -> others \cup {KnoteOf(ch)}
                    [] OTHER -> knotes
     /\ UNCHANGED <<heap, m_udata_map, m_fd_set, event_list, pc, cur, fdt,
                    conn, proc>>

\* The batches kevent() may return: everything ready and the timers of expired,
\* or any MaxEvents of them.
Batches(expired) ==
  LET all == ReadyEvents \cup {EventOf(k, FALSE) : k \in expired} IN
  IF Cardinality(all) <= MaxEvents
    THEN {all} ELSE {b \in SUBSET all : Cardinality(b) = MaxEvents}

\* A timer is EV_ONESHOT: its knote goes when it is reported.
Poll ==
  \E expired \in IF "timeout" \in Faults THEN SUBSET Timers ELSE {{}} :
    \E batch \in Batches(expired) :
      /\ pc = "kevent" /\ change_list = <<>>
      /\ batch # {}
      /\ event_list' = batch
      /\ knotes' = knotes \ {k \in expired : EventOf(k, FALSE) \in batch}
      /\ pc' = "dispatch"
      /\ UNCHANGED <<heap, m_udata_map, m_fd_set, change_list, cur, fdt, conn,
                     proc>>

EndBatch ==
  /\ pc = "dispatch" /\ event_list = {} /\ m_fd_set = {}
  /\ pc' = "kevent"
  /\ UNCHANGED <<heap, m_udata_map, m_fd_set, change_list, event_list, cur,
                 fdt, knotes, conn, proc>>

Handle(e) ==
  \/ ServerReadEvent(e)
  \/ ClientReadEvent(e)
  \/ ClientWriteEvent(e)
  \/ StaticFileReadEvent(e)
  \/ FileWriteEvent(e)
  \/ PipeReadEvent(e)
  \/ PipeWriteEvent(e)
  \/ CgiProcessTimeoutEvent(e)
  \/ BrokenPipe(e)

Clear(f, u) ==
  \/ ClearUdata(f, u)
  \/ ClearKill(f, u)

ServerStep ==
  \/ ApplyChange
  \/ Poll
  \/ \E e \in event_list : Handle(e)
  \/ EndBatch
  \/ \E f \in m_fd_set, u \in Udatas : Clear(f, u)
  \/ \E f \in m_fd_set : ClearSocket(f)
  \/ \E u \in Udatas : UseAfterFree(u)
  \/ AcceptReturns
  \/ PipeReadReaped
  \/ CgiTimeoutReaped
  \/ ClearReaped

(***************************************************************************)
(* The clients. Nothing here is code of the repository: a client opens its *)
(* connection, sends requests in segments, reads, and may leave.           *)
(***************************************************************************)
ServerUnchanged ==
  UNCHANGED <<heap, m_udata_map, m_fd_set, change_list, event_list, pc, cur,
              fdt, knotes>>

Connected(c) == conn[c].st \in {"backlog", "open"}

\* Requests c has sent completely, and responses it has received completely.
Requested(c) == conn[c].sent \div Segments
Answered(c) == Len(conn[c].out) \div ResponseLen

Connect(c) ==
  /\ conn[c].st = "idle"
  /\ conn' = [conn EXCEPT ![c].st = "backlog"]
  /\ ServerUnchanged /\ UNCHANGED proc

Send(c) ==
  /\ Connected(c)
  /\ conn[c].sent < MaxRequests * Segments
  /\ Pipelining \/ Requested(c) = Answered(c)
  /\ conn' = [conn EXCEPT ![c].sent = @ + 1]
  /\ ServerUnchanged /\ UNCHANGED proc

\* The client reads what the server wrote, which empties the send buffer.
Drain(c) ==
  /\ conn[c].full
  /\ conn' = [conn EXCEPT ![c].full = FALSE]
  /\ ServerUnchanged /\ UNCHANGED proc

Fin(c) ==
  /\ "fin" \in Faults
  /\ conn[c].st = "open"
  /\ conn' = [conn EXCEPT ![c].st = "fin"]
  /\ ServerUnchanged /\ UNCHANGED proc

Reset(c) ==
  /\ "reset" \in Faults
  /\ conn[c].st \in {"open", "fin"}
  /\ conn' = [conn EXCEPT ![c].st = "reset", ![c].full = FALSE]
  /\ ServerUnchanged /\ UNCHANGED proc

\* The connection is reset before it was accepted: it leaves the backlog.
Abort(c) ==
  /\ "abort" \in Faults
  /\ conn[c].st = "backlog"
  /\ conn' = [conn EXCEPT ![c].st = "closed"]
  /\ ServerUnchanged /\ UNCHANGED proc

Client(c) ==
  Connect(c) \/ Send(c) \/ Drain(c) \/ Fin(c) \/ Reset(c) \/ Abort(c)

(***************************************************************************)
(* The CGI children. One that reads its input reads it to the end before   *)
(* it exits, unless "early" is among the Faults.                           *)
(***************************************************************************)
ProcessUnchanged == ServerUnchanged /\ UNCHANGED conn

StdinOpen(p) == proc[p].full \/ \E f \in Fds : fdt[f] = PipeEntry("pipew", p)

ChildReads(p) ==
  /\ Alive(p) /\ proc[p].full
  /\ proc' = [proc EXCEPT ![p].full = FALSE]
  /\ ProcessUnchanged

ChildWrites(p) ==
  /\ proc[p].st = "running" /\ proc[p].out = "none" /\ ~proc[p].closed
  /\ proc' = [proc EXCEPT ![p].out = "ready"]
  /\ ProcessUnchanged

ChildClosesStdout(p) ==
  /\ "closeStdout" \in Faults
  /\ proc[p].st = "running" /\ ~proc[p].closed
  /\ proc' = [proc EXCEPT ![p].closed = TRUE]
  /\ ProcessUnchanged

ChildExits(p) ==
  /\ proc[p].st = "running"
  /\ "early" \in Faults \/ ~StdinOpen(p)
  /\ proc' = [proc EXCEPT ![p].st = "exited"]
  /\ ProcessUnchanged

ChildCrashes(p) ==
  /\ "crash" \in Faults
  /\ proc[p].st = "running"
  /\ proc' = [proc EXCEPT ![p].st = "signaled"]
  /\ ProcessUnchanged

\* SIGTERM takes effect.
ChildDies(p) ==
  /\ proc[p].st = "dying"
  /\ proc' = [proc EXCEPT ![p].st = "signaled"]
  /\ ProcessUnchanged

Child(p) ==
  \/ ChildReads(p)
  \/ ChildWrites(p)
  \/ ChildClosesStdout(p)
  \/ ChildExits(p)
  \/ ChildCrashes(p)
  \/ ChildDies(p)

(***************************************************************************)
(* The specification. Server::Server has put the listening socket's event  *)
(* into change_list.                                                       *)
(***************************************************************************)
Init ==
  /\ heap = [u \in Udatas |-> UnusedUdata]
  /\ m_udata_map = [f \in {ListenFd} |-> {ServerUdata}]
  /\ m_fd_set = {}
  /\ change_list = <<Add(ListenFd, "READ", ServerUdata)>>
  /\ event_list = {}
  /\ pc = "kevent"
  /\ cur = NoEvent
  /\ fdt = [f \in Fds |-> FreeEntry]
  /\ knotes = {}
  /\ conn = [c \in Conns |-> [st |-> "idle", sent |-> 0, rcvd |-> 0,
                              full |-> FALSE, out |-> <<>>]]
  /\ proc = [p \in Pids |-> NoProc]

Next ==
  \/ ServerStep
  \/ \E c \in Conns : Client(c)
  \/ \E p \in Pids : Child(p)

Spec == Init /\ [][Next]_vars

(* The server's one thread keeps running, a client reads what it was sent,  *)
(* and SIGTERM ends a child. Nothing makes a client speak or a child end by *)
(* itself.                                                                  *)
FairSpec ==
  /\ Spec
  /\ WF_vars(ServerStep)
  /\ \A c \in Conns : WF_vars(Drain(c))
  /\ \A p \in Pids : WF_vars(ChildDies(p))

\* In addition every child reads its input and ends.
ChildFairSpec ==
  /\ FairSpec
  /\ \A p \in Pids : WF_vars(ChildReads(p)) /\ WF_vars(ChildExits(p))
=============================================================================
