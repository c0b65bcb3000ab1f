---------------------------- MODULE ServerProofs ----------------------------
(***************************************************************************)
(* Proofs about Server, for every number of clients, descriptors, objects  *)
(* and processes, every kind of request and every fault.                   *)
(***************************************************************************)
EXTENDS ServerProperties, SequenceTheorems, TLAPS

(***************************************************************************)
(* TypeOK, one part for each group of variables.                           *)
(***************************************************************************)
HeapType(h) ==
  /\ h \in [Udatas -> UdataRecord]
  /\ \A u \in Udatas : h[u].st = "live" =>
       h[u].m_client_sock \in Fds /\ h[u].conn \in Conns

MapType(m) ==
  /\ DOMAIN m \subseteq Fds \cup {ListenFd}
  /\ \A f \in DOMAIN m :
       m[f] \subseteq IF f = ListenFd THEN {ServerUdata} ELSE Udatas

ChangesType(changes) == changes \in Seq(Change)

FdtType(t) == t \in [Fds -> FdEntry]
ConnType(c) == c \in [Conns -> ConnRecord]
ProcType(p) == p \in [Pids -> ProcRecord]

PcType(where, e, h) ==
  /\ where \in {"kevent", "dispatch", "accept", "reapPipe", "reapTimeout",
                "reapClear", "killed", "undefined"}
  /\ e \in Event \cup {NoEvent}
  /\ where \in {"reapPipe", "reapTimeout", "reapClear"} =>
       e.udata \in Udatas /\ h[e.udata].st = "live"
  /\ where \in {"reapPipe", "reapClear"} => e.ident \in Fds

LEMMA TypeParts ==
  TypeOK <=> /\ HeapType(heap)
             /\ MapType(m_udata_map)
             /\ m_fd_set \subseteq Fds
             /\ ChangesType(change_list)
             /\ event_list \subseteq Event
             /\ PcType(pc, cur, heap)
             /\ FdtType(fdt)
             /\ knotes \subseteq Knote
             /\ ConnType(conn)
             /\ ProcType(proc)
  BY DEF TypeOK, HeapType, MapType, ChangesType, PcType, FdtType, ConnType,
         ProcType

LEMMA TypePartsPrime ==
  TypeOK' <=> /\ HeapType(heap')
              /\ MapType(m_udata_map')
              /\ m_fd_set' \subseteq Fds
              /\ ChangesType(change_list')
              /\ event_list' \subseteq Event
              /\ PcType(pc', cur', heap')
              /\ FdtType(fdt')
              /\ knotes' \subseteq Knote
              /\ ConnType(conn')
              /\ ProcType(proc')
  BY DEF TypeOK, HeapType, MapType, ChangesType, PcType, FdtType, ConnType,
         ProcType

\* The descriptors, addresses and pids are positive: none is ListenFd,
\* ServerUdata or None.
LEMMA Positive ==
  /\ Fds \subseteq Nat \ {0} /\ Udatas \subseteq Nat \ {0}
  /\ Pids \subseteq Nat \ {0}
  /\ ListenFd \notin Fds /\ ListenFd \notin PidOrNone /\ None \notin Fds
  BY ServerAssumption DEF ListenFd, None, PidOrNone

(***************************************************************************)
(* The operators the handlers are made of.                                 *)
(***************************************************************************)
\* close() changes nothing but the table, the filters and the peers' view.
LEMMA CloseTypes ==
  ASSUME TypeOK, NEW F, Close(F)
  PROVE  /\ FdtType(fdt') /\ knotes' \subseteq knotes /\ ConnType(conn')
  <1>1. FdtType(fdt')
    BY DEF Close, TypeOK, FdtType, FreeEntry, FdEntry
  <1>2. ConnType(conn')
    <2>1. ASSUME NEW r \in ConnRecord
          PROVE  [r EXCEPT !.st = "closed", !.full = FALSE] \in ConnRecord
      BY DEF ConnRecord
    <2> QED
      BY <2>1 DEF Close, TypeOK, ConnType
  <1> QED
    BY <1>1, <1>2 DEF Close

LEMMA PushTypes ==
  ASSUME TypeOK, NEW changes \in Seq(Change), Push(changes)
  PROVE  ChangesType(change_list')
  BY ConcatProperties DEF Push, TypeOK, ChangesType

LEMMA ChangeTypes ==
  ASSUME NEW f \in FdOrNone, NEW p \in PidOrNone, NEW u \in Udatas,
         NEW filter \in {"READ", "WRITE"}
  PROVE  /\ Add(f, filter, u) \in Change /\ Delete(f, filter) \in Change
         /\ Add(p, "TIMER", u) \in Change /\ Delete(p, "TIMER") \in Change
  BY DEF Add, Delete, Change

LEMMA TerminatedTypes ==
  ASSUME TypeOK, NEW p
  PROVE  ProcType(Terminated(p))
  BY DEF Terminated, TypeOK, ProcType, ProcRecord

LEMMA WaitOutcomesTypes ==
  ASSUME TypeOK, NEW p, NEW o \in WaitOutcomes(p)
  PROVE  ProcType(o)
  <1>1. \A q : ProcType(Reaped(q))
    BY DEF Reaped, TypeOK, ProcType, ProcRecord, NoProc
  <1> QED
    BY <1>1 DEF WaitOutcomes, TypeOK, ProcType

LEMMA AddUdataMapTypes ==
  ASSUME TypeOK, NEW f \in Fds, NEW u \in Udatas
  PROVE  MapType(AddUdataMap(f, u))
  BY Positive DEF AddUdataMap, TypeOK, MapType

LEMMA RemoveUdataTypes ==
  ASSUME TypeOK, NEW f, NEW u
  PROVE  MapType(RemoveUdata(f, u))
  BY DEF RemoveUdata, TypeOK, MapType

\* A new object has a type of its own.
LEMMA NewUdataTypes ==
  ASSUME NEW h, HeapType(h), NEW n \in Udatas, NEW c \in Conns, NEW f \in Fds
  PROVE  HeapType([h EXCEPT ![n] = NewUdata(c, f)])
  <1>1. UnusedUdata \in UdataRecord
    BY ServerAssumption
    DEF UnusedUdata, UdataRecord, FdOrNone, PidOrNone, SegmentNo, RequestNo,
        None
  <1>2. /\ NewUdata(c, f) \in UdataRecord
        /\ NewUdata(c, f).m_client_sock = f /\ NewUdata(c, f).conn = c
    BY <1>1 DEF NewUdata, UdataRecord, FdOrNone
  <1> QED
    BY <1>2 DEF HeapType

LEMMA FreedUdataTypes ==
  ASSUME NEW h, HeapType(h), NEW n \in Udatas
  PROVE  HeapType([h EXCEPT ![n] = FreedUdata])
  BY ServerAssumption
  DEF HeapType, FreedUdata, UnusedUdata, UdataRecord, FdOrNone, PidOrNone,
      SegmentNo, RequestNo, None

LEMMA RespondTypes ==
  ASSUME NEW h, HeapType(h), NEW u \in Udatas
  PROVE  /\ HeapType(Respond(u, h))
         /\ \A v \in Udatas : Respond(u, h)[v].st = h[v].st
  <1> DEFINE r == [h[u] EXCEPT !.m_type = "CLIENT",
                               !.length = h[u].length + ResponseLen,
                               !.offset = 0]
  <1>1. Respond(u, h) = [h EXCEPT ![u] = r]
    BY DEF Respond, HeapType
  <1>2. h[u] \in UdataRecord
    BY DEF HeapType
  <1>3. /\ r \in UdataRecord /\ r.st = h[u].st
        /\ r.m_client_sock = h[u].m_client_sock /\ r.conn = h[u].conn
    <2>1. h[u].length + ResponseLen \in Nat
      BY <1>2, ServerAssumption DEF UdataRecord
    <2> QED
      BY <1>2, <2>1 DEF UdataRecord
  <1> QED
    BY <1>1, <1>3 DEF HeapType

\* What an event says of its udata and descriptor.
LEMMA EventTypes ==
  ASSUME NEW e \in Event
  PROVE  /\ e.udata \in Udatas /\ e.filter # "TIMER" => e.ident \in Fds
         /\ e.filter = "TIMER" => e.udata \in Udatas /\ e.ident \in PidOrNone
         /\ e.udata = ServerUdata => e.udata \notin Udatas
  BY Positive DEF Event, ServerUdata

\* A handler returns to the loop, which goes on with the batch.
LEMMA DispatchTypes ==
  ASSUME TypeOK, NEW e, Dispatch(e)
  PROVE  /\ e \in Event /\ event_list' \subseteq Event
         /\ Continue => PcType(pc', cur', heap')
  BY DEF TypeOK, Dispatch, Continue, PcType

LEMMA WakeTypes ==
  ASSUME TypeOK, NEW where, Wake(where, "dispatch")
  PROVE  event_list' \subseteq Event /\ PcType(pc', cur', heap')
  BY DEF TypeOK, Wake, PcType

(***************************************************************************)
(* kevent().                                                               *)
(***************************************************************************)
LEMMA KnoteOfTypes ==
  ASSUME NEW ch \in Change, ch.op = "ADD", Registrable(ch)
  PROVE  KnoteOf(ch) \in Knote
  <1>1. CASE ch.ident = ListenFd
    BY <1>1, Positive DEF Change, Knote, KnoteOf, FdOrNone, ListenFd, None
  <1>2. CASE ch.filter = "TIMER"
    BY <1>2 DEF Change, Knote, KnoteOf
  <1>3. CASE ch.filter # "TIMER" /\ ch.ident \in Fds
    BY <1>3, Positive DEF Change, Knote, KnoteOf, ListenFd
  <1> QED
    BY <1>1, <1>2, <1>3 DEF Registrable

LEMMA ApplyChangeTypes == TypeOK /\ ApplyChange => TypeOK'
  <1> SUFFICES ASSUME TypeOK, ApplyChange PROVE TypeOK'
    OBVIOUS
  <1> DEFINE ch == Head(change_list)
  <1>1. ch \in Change /\ ChangesType(change_list')
    BY HeadTailProperties DEF ApplyChange, TypeOK, ChangesType
  <1>2. ch.op = "ADD" /\ Registrable(ch) => KnoteOf(ch) \in Knote
    BY <1>1, KnoteOfTypes
  <1>3. knotes' \subseteq Knote
    BY <1>2 DEF ApplyChange, TypeOK
  <1> QED
    BY <1>1, <1>3, TypeParts, TypePartsPrime
    DEF ApplyChange, PcType, HeapType, MapType, FdtType, ConnType, ProcType

LEMMA ReadyEventsTypes ==
  ASSUME TypeOK
  PROVE  ReadyEvents \subseteq Event
  <1>1. ASSUME NEW k \in knotes, k.filter = "READ", k.ident \in Fds
        PROVE  EventOf(k, ReadEof(k.ident)) \in Event
    <2>1. ReadEof(k.ident) \in BOOLEAN
      BY DEF ReadEof
    <2> QED
      BY <1>1, <2>1, Positive DEF EventOf, TypeOK, Knote, Event
  <1>2. ASSUME NEW k \in knotes, k.filter = "WRITE", k.ident \in Fds
        PROVE  EventOf(k, WriteEof(k.ident)) \in Event
    <2>1. WriteEof(k.ident) \in BOOLEAN
      BY DEF WriteEof
    <2> QED
      BY <1>2, <2>1, Positive DEF EventOf, TypeOK, Knote, Event
  <1>3. ASSUME NEW k \in knotes, k.ident = ListenFd
        PROVE  EventOf(k, FALSE) \in Event
    BY <1>3, Positive DEF EventOf, TypeOK, Knote, Event
  <1> QED
    BY <1>1, <1>2, <1>3 DEF ReadyEvents

LEMMA PollTypes == TypeOK /\ Poll => TypeOK'
  <1> SUFFICES ASSUME TypeOK, Poll PROVE TypeOK'
    OBVIOUS
  <1>0. PICK expired \in SUBSET Timers : \E batch \in Batches(expired) :
          /\ event_list' = batch
          /\ knotes' \subseteq knotes
          /\ pc' = "dispatch"
          /\ UNCHANGED <<heap, m_udata_map, m_fd_set, change_list, cur, fdt,
                         conn, proc>>
    BY DEF Poll
  <1>1. PICK batch \in Batches(expired) :
          /\ event_list' = batch
          /\ knotes' \subseteq knotes
          /\ pc' = "dispatch"
          /\ UNCHANGED <<heap, m_udata_map, m_fd_set, change_list, cur, fdt,
                         conn, proc>>
    BY <1>0
  <1>2. \A k \in expired : EventOf(k, FALSE) \in Event
    BY Positive DEF EventOf, TypeOK, Timers, Knote, Event
  <1>3. batch \subseteq Event
    BY <1>2, ReadyEventsTypes DEF Batches
  <1> QED
    BY <1>1, <1>3, TypeParts, TypePartsPrime DEF PcType

LEMMA EndBatchTypes == TypeOK /\ EndBatch => TypeOK'
  BY DEF TypeOK, EndBatch

(***************************************************************************)
(* serverReadEvent.                                                        *)
(***************************************************************************)
LEMMA AcceptTypes ==
  ASSUME TypeOK, Accept
  PROVE  /\ HeapType(heap') /\ MapType(m_udata_map')
         /\ ChangesType(change_list') /\ FdtType(fdt') /\ ConnType(conn')
         /\ UNCHANGED <<m_fd_set, knotes, proc>>
  <1>1. PICK c \in Conns : RegisterClient(c) \/ RefuseClient(c)
    BY DEF Accept, Backlog
  <1>2. CASE RegisterClient(c)
    <2>1. PICK f \in Fds, n \in Udatas :
            /\ fdt' = [fdt EXCEPT ![f] = SockEntry(c)]
            /\ conn' = [conn EXCEPT ![c].st = "open"]
            /\ heap' = [heap EXCEPT ![n] = NewUdata(c, f)]
            /\ m_udata_map' = AddUdataMap(f, n)
            /\ Push(<<Add(f, "READ", n)>>)
      BY <1>2 DEF RegisterClient
    <2>2. FdtType(fdt')
      BY <2>1 DEF TypeOK, FdtType, SockEntry, FdEntry
    <2>3. ConnType(conn')
      BY <2>1 DEF TypeOK, ConnType, ConnRecord
    <2>4. HeapType(heap')
      BY <2>1, TypeParts, NewUdataTypes
    <2>5. MapType(m_udata_map')
      BY <2>1, AddUdataMapTypes
    <2>6. <<Add(f, "READ", n)>> \in Seq(Change)
      BY ChangeTypes, None \in PidOrNone DEF FdOrNone, PidOrNone
    <2>7. ChangesType(change_list')
      BY <2>1, <2>6, PushTypes
    <2> QED
      BY <2>2, <2>3, <2>4, <2>5, <2>7 DEF Accept
  <1>3. CASE RefuseClient(c)
    <2>1. ConnType([conn EXCEPT ![c].st = "closed"])
      BY DEF TypeOK, ConnType, ConnRecord
    <2>2. ConnType(conn')
      BY <1>3, <2>1, TypeParts DEF RefuseClient
    <2> QED
      BY <1>3, <2>2, TypeParts DEF RefuseClient, Accept
  <1> QED
    BY <1>1, <1>2, <1>3

LEMMA ServerReadEventTypes ==
  ASSUME TypeOK, NEW e, ServerReadEvent(e)
  PROVE  TypeOK'
  <1>1. e \in Event /\ event_list' \subseteq Event /\ pc = "dispatch"
    BY DispatchTypes DEF ServerReadEvent, Dispatch
  <1>2. CASE Accept /\ Continue
    <2>1. PcType(pc', cur', heap')
      BY <1>2, DispatchTypes DEF ServerReadEvent
    <2> QED
      BY <1>1, <1>2, <2>1, AcceptTypes, TypeParts, TypePartsPrime
  <1>3. CASE /\ Sleep("accept", e)
             /\ UNCHANGED <<heap, m_udata_map, m_fd_set, change_list, fdt,
                            knotes, conn, proc>>
    BY <1>1, <1>3, TypeParts, TypePartsPrime DEF Sleep, PcType
  <1> QED
    BY <1>2, <1>3 DEF ServerReadEvent

LEMMA AcceptReturnsTypes == TypeOK /\ AcceptReturns => TypeOK'
  <1> SUFFICES ASSUME TypeOK, AcceptReturns PROVE TypeOK'
    OBVIOUS
  <1>1. event_list' \subseteq Event /\ PcType(pc', cur', heap')
    BY WakeTypes DEF AcceptReturns
  <1> QED
    BY <1>1, AcceptTypes, TypeParts, TypePartsPrime DEF AcceptReturns

(***************************************************************************)
(* addStaticRequestEvent and addCgiRequestEvent.                           *)
(***************************************************************************)
\* The new reader's event ends every change list of clientReadEvent.
LEMMA PushWithReaderTypes ==
  ASSUME TypeOK, NEW changes \in Seq(Change), NEW f \in Fds, NEW n \in Udatas,
         PushWithReader(changes, f, n)
  PROVE  ChangesType(change_list')
  <1>1. <<Add(f, "READ", n)>> \in Seq(Change)
    BY ChangeTypes, None \in PidOrNone DEF FdOrNone, PidOrNone
  <1>2. changes \o <<Add(f, "READ", n)>> \in Seq(Change)
    BY <1>1, ConcatProperties
  <1> QED
    BY <1>2, PushTypes DEF PushWithReader

\* Changes for one filter of a descriptor, or for the timer of a process.
LEMMA OneChange ==
  ASSUME NEW u \in Udatas, NEW f \in FdOrNone, NEW p \in PidOrNone,
         NEW filter \in {"READ", "WRITE"}
  PROVE  /\ <<Add(f, filter, u)>> \in Seq(Change)
         /\ <<Delete(f, filter)>> \in Seq(Change)
         /\ <<Delete(p, "TIMER")>> \in Seq(Change)
         /\ <<Add(f, filter, u), Delete(p, "TIMER")>> \in Seq(Change)
         /\ <<Add(f, filter, u), Add(p, "TIMER", u)>> \in Seq(Change)
  BY ChangeTypes

LEMMA CgiEventsTypes ==
  ASSUME NEW u \in Udatas, NEW rfd \in FdOrNone, NEW wfd \in FdOrNone,
         NEW p \in PidOrNone
  PROVE  CgiEvents(u, rfd, wfd, p) \in Seq(Change)
  <1>1. (IF wfd = None THEN <<>> ELSE <<Add(wfd, "WRITE", u)>>) \in Seq(Change)
    BY OneChange
  <1> QED
    BY <1>1, OneChange, ConcatProperties DEF CgiEvents

\* A live object of a client, before it is stored.
LiveRecord(r) ==
  r \in UdataRecord /\ r.st = "live" /\ r.m_client_sock \in Fds /\ r.conn \in Conns

LEMMA LiveRecordTypes ==
  ASSUME NEW h, HeapType(h), NEW u \in Udatas, NEW r, LiveRecord(r)
  PROVE  /\ HeapType([h EXCEPT ![u] = r])
         /\ LiveRecord([h EXCEPT ![u] = r][u])
  BY DEF HeapType, LiveRecord

\* The fields the handlers change leave a live object one.
LEMMA FieldTypes ==
  ASSUME NEW r, LiveRecord(r), NEW f \in FdOrNone, NEW g \in FdOrNone,
         NEW p \in PidOrNone, NEW kind \in RequestKinds
  PROVE  /\ LiveRecord([r EXCEPT !.kind = kind])
         /\ LiveRecord([r EXCEPT !.static_read_file_fd = f])
         /\ LiveRecord([r EXCEPT !.m_type = "STATIC_FILE",
                                 !.static_read_file_fd = f])
         /\ LiveRecord([r EXCEPT !.m_type = "STATIC_FILE",
                                 !.static_write_file_fd = f])
         /\ LiveRecord([r EXCEPT !.m_type = "PIPE"])
         /\ LiveRecord([r EXCEPT !.m_type = "PIPE", !.m_read_pipe_fd = f,
                                 !.m_write_pipe_fd = g, !.m_child_pid = p])
  BY DEF LiveRecord, UdataRecord

LEMMA NextReaderTypes ==
  ASSUME NEW h, HeapType(h), NEW n \in Udatas, NEW c \in Conns, NEW f \in Fds
  PROVE  HeapType(NextReader(h, f, c, n))
  BY NewUdataTypes DEF NextReader

\* One way of serving a request: the object u of s is given its descriptors.
LEMMA AddStaticTypes ==
  ASSUME TypeOK, NEW s, HeapType(s), NEW u \in Udatas, LiveRecord(s[u]),
         NEW sock \in Fds, NEW c \in Conns, NEW n \in Udatas,
         \/ AddInline(s, u, sock, c, n) \/ AddEmptyFile(s, u, sock, c, n)
         \/ AddFile(s, u, sock, c, n) \/ AddUpload(s, u, sock, c, n)
  PROVE  /\ HeapType(heap') /\ ChangesType(change_list') /\ FdtType(fdt')
         /\ ProcType(proc')
  <1>0. HeapType(Respond(u, s))
    BY RespondTypes
  <1>1. /\ Fds \subseteq FdOrNone /\ None \in PidOrNone
        /\ \A f \in Fds : <<Add(f, "READ", u)>> \in Seq(Change)
                        /\ <<Add(f, "WRITE", u)>> \in Seq(Change)
    BY OneChange DEF FdOrNone, PidOrNone
  <1>2. CASE AddInline(s, u, sock, c, n)
    BY <1>0, <1>1, <1>2, NextReaderTypes, PushWithReaderTypes, TypeParts
    DEF AddInline
  <1>3. CASE AddEmptyFile(s, u, sock, c, n)
    <2>1. PICK f \in Fds :
            /\ heap' = NextReader([Respond(u, s) EXCEPT
                                     ![u].static_read_file_fd = f], sock, c, n)
            /\ PushWithReader(<<Add(sock, "WRITE", u)>>, sock, n)
      BY <1>3 DEF AddEmptyFile
    <2>2. HeapType([Respond(u, s) EXCEPT ![u].static_read_file_fd = f])
      <3> DEFINE h == Respond(u, s)
      <3>1. HeapType(h) /\ LiveRecord(h[u])
        BY RespondTypes DEF HeapType, LiveRecord
      <3> HIDE DEF h
      <3>2. [h EXCEPT ![u].static_read_file_fd = f]
              = [h EXCEPT ![u] = [h[u] EXCEPT !.static_read_file_fd = f]]
        BY <3>1 DEF HeapType
      <3>3. LiveRecord([h[u] EXCEPT !.static_read_file_fd = f])
        BY <1>1, <3>1, FieldTypes, "inline" \in RequestKinds DEF RequestKinds
      <3>4. HeapType([h EXCEPT ![u].static_read_file_fd = f])
        BY <3>1, <3>2, <3>3, LiveRecordTypes
      <3> QED
        BY <3>4 DEF h
    <2>3. HeapType(heap')
      BY <2>1, <2>2, NextReaderTypes
    <2> QED
      BY <1>1, <1>3, <2>1, <2>3, PushWithReaderTypes, TypeParts
      DEF AddEmptyFile
  <1>4. CASE AddFile(s, u, sock, c, n)
    <2>1. PICK f \in Fds :
            /\ fdt' = [fdt EXCEPT ![f] = FileEntry(u)]
            /\ heap' = NextReader([s EXCEPT ![u].m_type = "STATIC_FILE",
                                            ![u].static_read_file_fd = f],
                                  sock, c, n)
            /\ PushWithReader(<<Add(f, "READ", u)>>, sock, n)
      BY <1>4 DEF AddFile
    <2>2. HeapType([s EXCEPT ![u].m_type = "STATIC_FILE",
                             ![u].static_read_file_fd = f])
      <3>1. [s EXCEPT ![u].m_type = "STATIC_FILE",
                      ![u].static_read_file_fd = f]
              = [s EXCEPT ![u] = [s[u] EXCEPT !.m_type = "STATIC_FILE",
                                              !.static_read_file_fd = f]]
        BY DEF HeapType
      <3>2. LiveRecord([s[u] EXCEPT !.m_type = "STATIC_FILE",
                                    !.static_read_file_fd = f])
        BY <1>1, FieldTypes, "inline" \in RequestKinds DEF RequestKinds
      <3> QED
        BY <3>1, <3>2, LiveRecordTypes
    <2>3. HeapType(heap')
      BY <2>1, <2>2, NextReaderTypes
    <2>4. FdtType(fdt')
      BY <2>1, ServerAssumption DEF TypeOK, FdtType, FileEntry, FdEntry
    <2> QED
      BY <1>1, <1>4, <2>1, <2>3, <2>4, PushWithReaderTypes, TypeParts
      DEF AddFile
  <1>5. CASE AddUpload(s, u, sock, c, n)
    <2>1. PICK f \in Fds :
            /\ fdt' = [fdt EXCEPT ![f] = OutFileEntry(u)]
            /\ heap' = NextReader([s EXCEPT ![u].m_type = "STATIC_FILE",
                                            ![u].static_write_file_fd = f],
                                  sock, c, n)
            /\ PushWithReader(<<Add(f, "WRITE", u)>>, sock, n)
      BY <1>5 DEF AddUpload
    <2>2. HeapType([s EXCEPT ![u].m_type = "STATIC_FILE",
                             ![u].static_write_file_fd = f])
      <3>1. [s EXCEPT ![u].m_type = "STATIC_FILE",
                      ![u].static_write_file_fd = f]
              = [s EXCEPT ![u] = [s[u] EXCEPT !.m_type = "STATIC_FILE",
                                              !.static_write_file_fd = f]]
        BY DEF HeapType
      <3>2. LiveRecord([s[u] EXCEPT !.m_type = "STATIC_FILE",
                                    !.static_write_file_fd = f])
        BY <1>1, FieldTypes, "inline" \in RequestKinds DEF RequestKinds
      <3> QED
        BY <3>1, <3>2, LiveRecordTypes
    <2>3. HeapType(heap')
      BY <2>1, <2>2, NextReaderTypes
    <2>4. FdtType(fdt')
      BY <2>1 DEF TypeOK, FdtType, OutFileEntry, FdEntry
    <2> QED
      BY <1>1, <1>5, <2>1, <2>3, <2>4, PushWithReaderTypes, TypeParts
      DEF AddUpload
  <1> QED
    BY <1>2, <1>3, <1>4, <1>5

LEMMA AddCgiTypes ==
  ASSUME TypeOK, NEW s, HeapType(s), NEW u \in Udatas, LiveRecord(s[u]),
         NEW sock \in Fds, NEW c \in Conns, NEW n \in Udatas,
         NEW post \in BOOLEAN, AddCgi(s, u, sock, c, n, post)
  PROVE  /\ HeapType(heap') /\ ChangesType(change_list') /\ FdtType(fdt')
         /\ ProcType(proc')
  <1>1. PICK p \in Pids, rfd \in Fds, wfd \in FdOrNone :
          /\ fdt' = [f \in Fds |-> IF f = rfd THEN PipeEntry("piper", p)
                                   ELSE IF f = wfd THEN PipeEntry("pipew", p)
                                   ELSE fdt[f]]
          /\ proc' = [proc EXCEPT ![p].st = "running"]
          /\ heap' = NextReader([s EXCEPT ![u].m_type = "PIPE",
                                          ![u].m_read_pipe_fd = rfd,
                                          ![u].m_write_pipe_fd = wfd,
                                          ![u].m_child_pid = p], sock, c, n)
          /\ PushWithReader(CgiEvents(u, rfd, wfd, p), sock, n)
    <2>1. PICK p \in Pids, w \in Fds, rfd \in Fds :
            LET wfd == IF post THEN w ELSE None IN
            /\ fdt' = [f \in Fds |-> IF f = rfd THEN PipeEntry("piper", p)
                                     ELSE IF f = wfd THEN PipeEntry("pipew", p)
                                     ELSE fdt[f]]
            /\ proc' = [proc EXCEPT ![p].st = "running"]
            /\ heap' = NextReader([s EXCEPT ![u].m_type = "PIPE",
                                            ![u].m_read_pipe_fd = rfd,
                                            ![u].m_write_pipe_fd = wfd,
                                            ![u].m_child_pid = p], sock, c, n)
            /\ PushWithReader(CgiEvents(u, rfd, wfd, p), sock, n)
      BY DEF AddCgi
    <2> DEFINE wfd == IF post THEN w ELSE None
    <2>2. wfd \in FdOrNone
      BY DEF FdOrNone
    <2> HIDE DEF wfd
    <2> QED
      BY <2>1, <2>2 DEF wfd
  <1>2. FdtType(fdt')
    BY <1>1 DEF TypeOK, FdtType, PipeEntry, FdEntry
  <1>3. ProcType(proc')
    BY <1>1 DEF TypeOK, ProcType, ProcRecord
  <1>4. p \in PidOrNone /\ rfd \in FdOrNone
    BY DEF PidOrNone, FdOrNone
  <1>5. HeapType([s EXCEPT ![u].m_type = "PIPE", ![u].m_read_pipe_fd = rfd,
                           ![u].m_write_pipe_fd = wfd, ![u].m_child_pid = p])
    <2>1. [s EXCEPT ![u].m_type = "PIPE", ![u].m_read_pipe_fd = rfd,
                    ![u].m_write_pipe_fd = wfd, ![u].m_child_pid = p]
            = [s EXCEPT ![u] = [s[u] EXCEPT !.m_type = "PIPE",
                                            !.m_read_pipe_fd = rfd,
                                            !.m_write_pipe_fd = wfd,
                                            !.m_child_pid = p]]
      BY DEF HeapType
    <2>2. LiveRecord([s[u] EXCEPT !.m_type = "PIPE", !.m_read_pipe_fd = rfd,
                                  !.m_write_pipe_fd = wfd, !.m_child_pid = p])
      BY <1>4, FieldTypes, "inline" \in RequestKinds DEF RequestKinds
    <2> QED
      BY <2>1, <2>2, LiveRecordTypes
  <1>6. HeapType(heap')
    BY <1>1, <1>5, NextReaderTypes
  <1> QED
    BY <1>1, <1>2, <1>3, <1>4, <1>6, CgiEventsTypes, PushWithReaderTypes

LEMMA AddCgiNoProcessTypes ==
  ASSUME TypeOK, NEW s, HeapType(s), NEW u \in Udatas, LiveRecord(s[u]),
         NEW sock \in Fds, NEW c \in Conns, NEW n \in Udatas,
         AddCgiNoProcess(s, u, sock, c, n)
  PROVE  /\ HeapType(heap') /\ ChangesType(change_list') /\ FdtType(fdt')
         /\ ProcType(proc')
  <1>1. None \in FdOrNone /\ None \in PidOrNone
    BY DEF FdOrNone, PidOrNone
  <1>2. HeapType([s EXCEPT ![u].m_type = "PIPE"])
    BY DEF HeapType, UdataRecord
  <1> QED
    BY <1>1, <1>2, NextReaderTypes, CgiEventsTypes, PushWithReaderTypes,
       TypeParts
    DEF AddCgiNoProcess

LEMMA ProcessRequestTypes ==
  ASSUME TypeOK, NEW r, LiveRecord(r), NEW u \in Udatas, NEW sock \in Fds,
         NEW c \in Conns, ProcessRequest(r, u, sock, c)
  PROVE  /\ HeapType(heap') /\ MapType(m_udata_map')
         /\ ChangesType(change_list') /\ FdtType(fdt') /\ ProcType(proc')
  <1>1. PICK n \in Udatas, kind \in ServedAs(r) :
          LET s == [heap EXCEPT ![u] = [r EXCEPT !.kind = kind]] IN
          /\ m_udata_map' = AddUdataMap(sock, n)
          /\ \/ AddInline(s, u, sock, c, n)
             \/ AddEmptyFile(s, u, sock, c, n)
             \/ AddFile(s, u, sock, c, n)
             \/ AddUpload(s, u, sock, c, n)
             \/ AddCgi(s, u, sock, c, n, FALSE)
             \/ AddCgi(s, u, sock, c, n, TRUE)
             \/ AddCgiNoProcess(s, u, sock, c, n)
    BY DEF ProcessRequest
  <1> DEFINE s == [heap EXCEPT ![u] = [r EXCEPT !.kind = kind]]
  <1>2. kind \in RequestKinds
    BY ServerAssumption DEF ServedAs, RequestKinds, LiveRecord, UdataRecord
  <1>3. LiveRecord([r EXCEPT !.kind = kind])
    BY <1>2, FieldTypes, None \in FdOrNone, None \in PidOrNone
    DEF FdOrNone, PidOrNone
  <1>4. HeapType(s) /\ LiveRecord(s[u])
    BY <1>3, LiveRecordTypes, TypeParts
  <1>5. MapType(m_udata_map')
    BY <1>1, AddUdataMapTypes
  <1> HIDE DEF s
  <1>6. /\ HeapType(heap') /\ ChangesType(change_list') /\ FdtType(fdt')
        /\ ProcType(proc')
    BY <1>1, <1>4, AddStaticTypes, AddCgiTypes, AddCgiNoProcessTypes DEF s
  <1> QED
    BY <1>5, <1>6

(***************************************************************************)
(* clientReadEvent.                                                        *)
(***************************************************************************)
\* A handler's udata and descriptor.
LEMMA HandledAsTypes ==
  ASSUME TypeOK, NEW e \in Event, NEW filter, NEW type,
         HandledAs(e, filter, type)
  PROVE  /\ e.udata \in Udatas /\ LiveRecord(heap[e.udata])
         /\ filter # "TIMER" => e.ident \in Fds
  BY EventTypes DEF HandledAs, TypeOK, LiveRecord

\* A number of whole requests takes no more than all the segments.
LEMMA RequestBound ==
  ASSUME NEW n \in Nat, NEW m \in Nat, NEW k \in Nat \ {0}, n * k <= m * k
  PROVE  n <= m
  <1> SUFFICES ASSUME n >= m + 1 PROVE FALSE
    OBVIOUS
  <1>1. n * k >= (m + 1) * k
    OBVIOUS
  <1>2. (m + 1) * k = m * k + k
    OBVIOUS
  <1> QED
    BY <1>1, <1>2, m * k \in Nat, n * k \in Nat

LEMMA ReadBufferTypes ==
  ASSUME TypeOK, NEW r, LiveRecord(r), NEW c \in Conns,
         conn[c].rcvd < conn[c].sent
  PROVE  LiveRecord(ReadBuffer(r, c))
  <1> DEFINE first == IF r.first = 0 THEN conn[c].rcvd + 1 ELSE r.first
             n == RequestAt(first)
             done == IF n # 0 /\ conn[c].sent >= n * Segments THEN n ELSE 0
  <1>0. /\ conn[c].sent \in SegmentNo /\ conn[c].rcvd \in SegmentNo
        /\ r.first \in SegmentNo /\ r \in UdataRecord
        /\ MaxRequests * Segments \in Nat
    BY ServerAssumption DEF TypeOK, ConnRecord, LiveRecord, UdataRecord
  <1>1. first \in SegmentNo
    BY <1>0 DEF SegmentNo
  <1>2. n \in Nat
    <2>1. CASE first > 0 /\ (first - 1) % Segments = 0
      <3>1. (first - 1) \div Segments \in Nat
        BY <1>0, <1>1, <2>1, ServerAssumption DEF SegmentNo
      <3> QED
        BY <2>1, <3>1 DEF RequestAt
    <2>2. CASE ~(first > 0 /\ (first - 1) % Segments = 0)
      BY <2>2 DEF RequestAt
    <2> QED
      BY <2>1, <2>2
  <1> HIDE DEF n, first
  <1>3. n # 0 /\ conn[c].sent >= n * Segments => n <= MaxRequests
    <2>1. n * Segments \in Nat
      BY <1>2, ServerAssumption
    <2>2. conn[c].sent >= n * Segments => n * Segments <= MaxRequests * Segments
      BY <1>0, <2>1 DEF SegmentNo
    <2> QED
      BY <1>2, <2>2, RequestBound, ServerAssumption
  <1>4. done \in RequestNo
    BY <1>2, <1>3, ServerAssumption DEF RequestNo
  <1> HIDE DEF done
  <1>5. LiveRecord([r EXCEPT !.first = first, !.req = done])
    BY <1>1, <1>4 DEF LiveRecord, UdataRecord
  <1> QED
    BY <1>5 DEF ReadBuffer, done, n, first

LEMMA ClientReadEofTypes ==
  ASSUME TypeOK, NEW e, ClientReadEof(e), e.ident \in Fds
  PROVE  m_fd_set' \subseteq Fds /\ ChangesType(change_list')
  <1>1. <<Delete(e.ident, "READ")>> \in Seq(Change)
    <2>1. Delete(e.ident, "READ") \in Change
      BY DEF Delete, Change, FdOrNone
    <2> QED
      BY <2>1
  <1>2. ChangesType(change_list')
    BY <1>1, PushTypes DEF ClientReadEof
  <1> QED
    BY <1>2 DEF ClientReadEof, TypeOK

LEMMA ClientReadDataTypes ==
  ASSUME TypeOK, NEW e, ClientReadData(e), e.udata \in Udatas,
         LiveRecord(heap[e.udata]), e.ident \in Fds
  PROVE  /\ HeapType(heap') /\ MapType(m_udata_map')
         /\ m_fd_set' \subseteq Fds /\ ChangesType(change_list')
         /\ FdtType(fdt') /\ ConnType(conn') /\ ProcType(proc')
  <1> DEFINE u == e.udata
             c == IF Is(e.ident, "sock") THEN fdt[e.ident].of ELSE heap[u].conn
             r == IF CanReceive(e.ident) THEN ReadBuffer(heap[u], c)
                                         ELSE heap[u]
  <1>1. c \in Conns
    <2>1. Is(e.ident, "sock") => fdt[e.ident].of \in Conns
      BY DEF TypeOK, Is, FdEntry
    <2> QED
      BY <2>1 DEF LiveRecord
  <1>2. LiveRecord(r)
    BY <1>1, ReadBufferTypes DEF CanReceive
  <1>3. /\ m_fd_set' \subseteq Fds
        /\ conn' = [conn EXCEPT ![c].rcvd = conn[c].sent] \/ conn' = conn
        /\ IF r.req = 0
             THEN /\ heap' = [heap EXCEPT ![u] = r]
                  /\ UNCHANGED <<m_udata_map, change_list, fdt, proc>>
             ELSE ProcessRequest(r, u, e.ident, c)
    BY DEF ClientReadData, TypeOK
  <1> HIDE DEF c, r
  <1>4. ConnType(conn')
    <2>1. ConnType([conn EXCEPT ![c].rcvd = conn[c].sent])
      BY <1>1 DEF TypeOK, ConnType, ConnRecord
    <2> QED
      BY <1>3, <2>1, TypeParts
  <1>5. CASE r.req = 0
    BY <1>2, <1>3, <1>4, <1>5, LiveRecordTypes, TypeParts
  <1>6. CASE r.req # 0
    BY <1>1, <1>2, <1>3, <1>4, <1>6, ProcessRequestTypes
  <1> QED
    BY <1>5, <1>6

LEMMA ClientReadEventTypes ==
  ASSUME TypeOK, NEW e, ClientReadEvent(e)
  PROVE  TypeOK'
  <1>1. /\ e \in Event /\ event_list' \subseteq Event
        /\ PcType(pc', cur', heap')
    BY DispatchTypes DEF ClientReadEvent
  <1>2. /\ e.udata \in Udatas /\ LiveRecord(heap[e.udata])
        /\ e.ident \in Fds
    BY <1>1, HandledAsTypes DEF ClientReadEvent
  <1>3. knotes' = knotes
    BY DEF ClientReadEvent
  <1>4. CASE ClientReadEof(e)
    <2>1. UNCHANGED <<heap, m_udata_map, fdt, conn, proc>>
      BY <1>4 DEF ClientReadEof
    <2> QED
      BY <1>1, <1>2, <1>3, <1>4, <2>1, ClientReadEofTypes, TypeParts,
         TypePartsPrime
  <1>5. CASE ClientReadData(e)
    BY <1>1, <1>2, <1>3, <1>5, ClientReadDataTypes, TypeParts, TypePartsPrime
  <1> QED
    BY <1>4, <1>5 DEF ClientReadEvent

(***************************************************************************)
(* clientWriteEvent, staticFileReadEvent and fileWriteEvent.               *)
(***************************************************************************)
\* A file read to its end leaves a live object one.
LEMMA WholeFileTypes ==
  ASSUME NEW r, LiveRecord(r), NEW b \in 0 .. FileLen
  PROVE  LiveRecord([r EXCEPT !.body = b, !.static_read_file_fd = None])
  BY DEF LiveRecord, UdataRecord, FdOrNone

LEMMA SentTypes ==
  ASSUME TypeOK, NEW f \in Fds, NEW u \in Udatas, LiveRecord(heap[u]),
         NEW k \in Nat
  PROVE  ConnType(Sent(f, u, k))
  <1> DEFINE c == fdt[f].of
  <1>1. CASE Is(f, "sock")
    <2>1. c \in Conns
      BY <1>1 DEF TypeOK, Is, FdEntry
    <2>2. Units(u, k) \in Seq(Conns \X RequestNo \X Nat)
      <3>1. \A i \in 1 .. k : <<heap[u].conn, heap[u].req, heap[u].offset + i>>
                                \in Conns \X RequestNo \X Nat
        BY DEF LiveRecord, UdataRecord
      <3> QED
        BY <3>1 DEF Units
    <2>3. conn[c] \in ConnRecord
      BY <2>1 DEF TypeOK
    <2>4. conn[c].out \o Units(u, k) \in Seq(Conns \X RequestNo \X Nat)
      BY <2>2, <2>3, ConcatProperties DEF ConnRecord
    <2>5. (heap[u].offset + k < heap[u].length) \in BOOLEAN
      OBVIOUS
    <2> DEFINE full == heap[u].offset + k < heap[u].length
               out == conn[c].out \o Units(u, k)
    <2> HIDE DEF full, out
    <2>6. [conn[c] EXCEPT !.out = out, !.full = full] \in ConnRecord
      BY <2>3, <2>4, <2>5 DEF ConnRecord, full, out
    <2>7. Sent(f, u, k)
            = [conn EXCEPT ![c] = [conn[c] EXCEPT !.out = out, !.full = full]]
      BY <1>1, <2>1 DEF Sent, TypeOK, full, out
    <2> QED
      BY <2>1, <2>6, <2>7 DEF TypeOK, ConnType
  <1>2. CASE ~Is(f, "sock")
    BY <1>2, TypeParts DEF Sent
  <1> QED
    BY <1>1, <1>2

LEMMA ClientWriteEventTypes ==
  ASSUME TypeOK, NEW e, ClientWriteEvent(e)
  PROVE  TypeOK'
  <1> DEFINE u == e.udata
  <1>1. /\ e \in Event /\ event_list' \subseteq Event
        /\ PcType(pc', cur', heap')
        /\ UNCHANGED <<fdt, knotes, proc>>
    BY DispatchTypes DEF ClientWriteEvent
  <1>2. u \in Udatas /\ LiveRecord(heap[u]) /\ e.ident \in Fds
    BY <1>1, HandledAsTypes DEF ClientWriteEvent
  <1>3. CASE ClientWriteFails(e)
    <2>1. m_fd_set' \subseteq Fds
      BY <1>2, <1>3 DEF ClientWriteFails, TypeOK
    <2> QED
      BY <1>1, <1>3, <2>1, TypeParts, TypePartsPrime DEF ClientWriteFails
  <1>4. CASE ClientWriteSome(e)
    <2>1. PICK k \in 0 .. heap[u].length - heap[u].offset :
            /\ conn' = Sent(e.ident, u, k)
            /\ \/ /\ heap' = [heap EXCEPT ![u].offset = @ + k]
                  /\ UNCHANGED <<m_udata_map, change_list>>
               \/ /\ heap' = [heap EXCEPT ![u] = FreedUdata]
                  /\ m_udata_map' = RemoveUdata(e.ident, u)
                  /\ Push(<<Delete(e.ident, "WRITE")>>)
            /\ UNCHANGED m_fd_set
      BY <1>4 DEF ClientWriteSome
    <2>2. k \in Nat /\ heap[u].offset + k \in Nat
      BY <1>2 DEF LiveRecord, UdataRecord
    <2>3. ConnType(conn')
      BY <1>2, <2>1, <2>2, SentTypes
    <2>4. CASE /\ heap' = [heap EXCEPT ![u].offset = @ + k]
               /\ UNCHANGED <<m_udata_map, change_list>>
      <3>1. LiveRecord([heap[u] EXCEPT !.offset = heap[u].offset + k])
        BY <1>2, <2>2 DEF LiveRecord, UdataRecord
      <3>2. heap' = [heap EXCEPT
                       ![u] = [heap[u] EXCEPT !.offset = heap[u].offset + k]]
        BY <1>2, <2>4 DEF TypeOK
      <3>3. HeapType(heap')
        BY <1>2, <3>1, <3>2, LiveRecordTypes, TypeParts
      <3> QED
        BY <1>1, <2>1, <2>3, <2>4, <3>3, TypeParts, TypePartsPrime
    <2>5. CASE /\ heap' = [heap EXCEPT ![u] = FreedUdata]
               /\ m_udata_map' = RemoveUdata(e.ident, u)
               /\ Push(<<Delete(e.ident, "WRITE")>>)
      <3>1. <<Delete(e.ident, "WRITE")>> \in Seq(Change)
        BY <1>2, OneChange, None \in PidOrNone DEF FdOrNone, PidOrNone
      <3>2. ChangesType(change_list')
        BY <2>5, <3>1, PushTypes
      <3>3. HeapType(heap') /\ MapType(m_udata_map')
        BY <1>2, <2>5, FreedUdataTypes, RemoveUdataTypes, TypeParts
      <3> QED
        BY <1>1, <2>1, <2>3, <3>2, <3>3, TypeParts, TypePartsPrime
    <2> QED
      BY <2>1, <2>4, <2>5
  <1> QED
    BY <1>3, <1>4 DEF ClientWriteEvent

LEMMA TransferFailsTypes ==
  ASSUME TypeOK, NEW e, NEW kind, TransferFails(e, kind), e.udata \in Udatas,
         LiveRecord(heap[e.udata])
  PROVE  /\ m_fd_set' \subseteq Fds
         /\ UNCHANGED <<heap, change_list, fdt, knotes, conn, proc>>
  BY DEF TransferFails, LiveRecord, TypeOK

\* The end of a transfer: the response is ready and the descriptors are closed.
LEMMA RespondAndCloseTypes ==
  ASSUME TypeOK, NEW u \in Udatas, NEW s, HeapType(s), LiveRecord(s[u]),
         LiveRecord(heap[u]), NEW F, heap' = Respond(u, s),
         Push(<<Add(heap[u].m_client_sock, "WRITE", u)>>), Close(F)
  PROVE  /\ HeapType(heap') /\ ChangesType(change_list') /\ FdtType(fdt')
         /\ knotes' \subseteq Knote /\ ConnType(conn')
  <1>1. <<Add(heap[u].m_client_sock, "WRITE", u)>> \in Seq(Change)
    BY OneChange, None \in PidOrNone DEF LiveRecord, FdOrNone, PidOrNone
  <1> QED
    BY <1>1, PushTypes, RespondTypes, CloseTypes, TypeParts

LEMMA StaticFileReadEventTypes ==
  ASSUME TypeOK, NEW e, StaticFileReadEvent(e)
  PROVE  TypeOK'
  <1> DEFINE u == e.udata
  <1>1. /\ e \in Event /\ event_list' \subseteq Event
        /\ PcType(pc', cur', heap') /\ UNCHANGED m_udata_map
    BY DispatchTypes DEF StaticFileReadEvent
  <1>2. u \in Udatas /\ LiveRecord(heap[u]) /\ e.ident \in Fds
    BY <1>1, HandledAsTypes DEF StaticFileReadEvent
  <1>3. CASE TransferFails(e, "rfile")
    BY <1>1, <1>2, <1>3, TransferFailsTypes, TypeParts, TypePartsPrime
  <1>4. CASE StaticFileReadSome(e)
    <2>0. UNCHANGED <<m_fd_set, proc>>
      BY <1>4 DEF StaticFileReadSome
    <2>1. CASE heap[u].body + 1 < FileLen
      <3>1. /\ heap' = [heap EXCEPT ![u].body = @ + 1]
            /\ fdt' = [fdt EXCEPT ![e.ident].left = @ - 1]
            /\ fdt[e.ident].kind = "rfile" /\ fdt[e.ident].left > 0
            /\ UNCHANGED <<change_list, knotes, conn>>
        BY <1>4, <2>1 DEF StaticFileReadSome, Is
      <3>2. heap[u].body + 1 \in 0 .. FileLen
        BY <1>2, <2>1, ServerAssumption DEF LiveRecord, UdataRecord
      <3>3. LiveRecord([heap[u] EXCEPT !.body = heap[u].body + 1])
        BY <1>2, <3>2 DEF LiveRecord, UdataRecord
      <3>4. heap' = [heap EXCEPT
                       ![u] = [heap[u] EXCEPT !.body = heap[u].body + 1]]
        BY <1>2, <3>1 DEF TypeOK
      <3>5. HeapType(heap')
        BY <1>2, <3>3, <3>4, LiveRecordTypes, TypeParts
      <3>6. FdtType(fdt')
        <4> DEFINE r == [fdt[e.ident] EXCEPT !.left = fdt[e.ident].left - 1]
        <4>1. fdt[e.ident] \in FdEntry
          BY <1>2 DEF TypeOK
        <4>2. r \in FdEntry
          BY <3>1, <4>1, ServerAssumption DEF FdEntry
        <4>3. fdt' = [fdt EXCEPT ![e.ident] = r]
          BY <1>2, <3>1 DEF TypeOK
        <4> QED
          BY <4>2, <4>3 DEF TypeOK, FdtType
      <3> QED
        BY <1>1, <2>0, <3>1, <3>5, <3>6, TypeParts, TypePartsPrime
    <2>2. CASE ~(heap[u].body + 1 < FileLen)
      <3> DEFINE s == [heap EXCEPT ![u].body = FileLen,
                                   ![u].static_read_file_fd = None]
                 r == [heap[u] EXCEPT !.body = FileLen,
                                      !.static_read_file_fd = None]
      <3>1. /\ heap' = Respond(u, s)
            /\ Push(<<Add(heap[u].m_client_sock, "WRITE", u)>>)
            /\ Close({e.ident})
        BY <1>4, <2>2 DEF StaticFileReadSome
      <3>2. s = [heap EXCEPT ![u] = r]
        BY <1>2 DEF TypeOK
      <3>3. LiveRecord(r)
        <4>1. FileLen \in 0 .. FileLen
          BY ServerAssumption
        <4> QED
          BY <1>2, <4>1, WholeFileTypes
      <3>4. HeapType(s) /\ LiveRecord(s[u])
        BY <1>2, <3>2, <3>3, LiveRecordTypes, TypeParts
      <3> HIDE DEF s
      <3>5. /\ HeapType(heap') /\ ChangesType(change_list') /\ FdtType(fdt')
            /\ knotes' \subseteq Knote /\ ConnType(conn')
        BY <1>2, <3>1, <3>4, RespondAndCloseTypes
      <3> QED
        BY <1>1, <2>0, <3>5, TypeParts, TypePartsPrime
    <2> QED
      BY <2>1, <2>2
  <1> QED
    BY <1>3, <1>4 DEF StaticFileReadEvent

LEMMA FileWriteEventTypes ==
  ASSUME TypeOK, NEW e, FileWriteEvent(e)
  PROVE  TypeOK'
  <1> DEFINE u == e.udata
  <1>1. /\ e \in Event /\ event_list' \subseteq Event
        /\ PcType(pc', cur', heap') /\ UNCHANGED m_udata_map
    BY DispatchTypes DEF FileWriteEvent
  <1>2. u \in Udatas /\ LiveRecord(heap[u]) /\ e.ident \in Fds
    BY <1>1, HandledAsTypes DEF FileWriteEvent
  <1>3. CASE TransferFails(e, "wfile")
    BY <1>1, <1>2, <1>3, TransferFailsTypes, TypeParts, TypePartsPrime
  <1>4. CASE FileWriteSome(e)
    <2>1. PICK k \in 1 .. BodyLen - heap[u].m_file_write_offset :
            LET written == heap[u].m_file_write_offset + k
                s == [heap EXCEPT ![u].m_file_write_offset = written]
            IN /\ \/ /\ heap' = s
                     /\ UNCHANGED <<change_list, fdt, knotes, conn>>
                  \/ /\ heap' = Respond(u, [s EXCEPT
                                              ![u].static_write_file_fd = None])
                     /\ Push(<<Add(heap[u].m_client_sock, "WRITE", u)>>)
                     /\ Close({e.ident})
               /\ UNCHANGED <<m_fd_set, proc>>
      BY <1>4 DEF FileWriteSome
    <2> DEFINE w == heap[u].m_file_write_offset + k
               r == [heap[u] EXCEPT !.m_file_write_offset = w]
               q == [r EXCEPT !.static_write_file_fd = None]
               s == [heap EXCEPT ![u].m_file_write_offset = w]
               t == [s EXCEPT ![u].static_write_file_fd = None]
    <2>2. w \in 0 .. BodyLen
      BY <1>2, ServerAssumption DEF LiveRecord, UdataRecord
    <2>3. LiveRecord(r) /\ LiveRecord(q)
      BY <1>2, <2>2 DEF LiveRecord, UdataRecord, FdOrNone
    <2>4. s = [heap EXCEPT ![u] = r]
      BY <1>2 DEF TypeOK
    <2>5. t = [heap EXCEPT ![u] = q]
      BY <1>2, <2>4 DEF TypeOK
    <2>6. HeapType(s) /\ HeapType(t) /\ LiveRecord(t[u])
      BY <1>2, <2>3, <2>4, <2>5, LiveRecordTypes, TypeParts
    <2> HIDE DEF s, t
    <2>7. CASE /\ heap' = s
               /\ UNCHANGED <<change_list, fdt, knotes, conn>>
      BY <1>1, <2>1, <2>6, <2>7, TypeParts, TypePartsPrime
    <2>8. CASE /\ heap' = Respond(u, t)
               /\ Push(<<Add(heap[u].m_client_sock, "WRITE", u)>>)
               /\ Close({e.ident})
      <3>1. /\ HeapType(heap') /\ ChangesType(change_list') /\ FdtType(fdt')
            /\ knotes' \subseteq Knote /\ ConnType(conn')
        BY <1>2, <2>6, <2>8, RespondAndCloseTypes
      <3> QED
        BY <1>1, <2>1, <3>1, TypeParts, TypePartsPrime
    <2> QED
      BY <2>1, <2>7, <2>8 DEF s, t
  <1> QED
    BY <1>3, <1>4 DEF FileWriteEvent

(***************************************************************************)
(* pipeReadEvent, pipeWriteEvent and cgiProcessTimeoutEvent.               *)
(***************************************************************************)
LEMMA PipeReadEventTypes ==
  ASSUME TypeOK, NEW e, PipeReadEvent(e)
  PROVE  TypeOK'
  <1>1. /\ e \in Event /\ event_list' \subseteq Event
        /\ Continue => PcType(pc', cur', heap')
        /\ UNCHANGED m_udata_map
    BY DispatchTypes DEF PipeReadEvent
  <1>2. e.udata \in Udatas /\ LiveRecord(heap[e.udata]) /\ e.ident \in Fds
    BY <1>1, HandledAsTypes DEF PipeReadEvent
  <1>3. CASE PipeReadSome(e)
    <2>1. ProcType([proc EXCEPT ![fdt[e.ident].of].out = "read"])
      <3>1. ASSUME NEW r \in ProcRecord
            PROVE  [r EXCEPT !.out = "read"] \in ProcRecord
        BY DEF ProcRecord
      <3> QED
        BY <3>1 DEF TypeOK, ProcType
    <2>2. ProcType(proc')
      BY <1>3, <2>1 DEF PipeReadSome
    <2> QED
      BY <1>1, <1>3, <2>2, TypeParts, TypePartsPrime DEF PipeReadSome
  <1>4. CASE PipeReadEnd(e)
    <2>1. PcType(pc', cur', heap')
      BY <1>1, <1>2, <1>4 DEF PipeReadEnd, Sleep, PcType, LiveRecord
    <2> QED
      BY <1>1, <1>4, <2>1, TypeParts, TypePartsPrime DEF PipeReadEnd
  <1>5. CASE TransferFails(e, "piper") /\ Continue
    BY <1>1, <1>2, <1>5, TransferFailsTypes, TypeParts, TypePartsPrime
  <1> QED
    BY <1>3, <1>4, <1>5 DEF PipeReadEvent

\* The object a blocking handler works on is live.
LEMMA SleeperTypes ==
  ASSUME TypeOK, pc \in {"reapPipe", "reapTimeout", "reapClear"}
  PROVE  cur.udata \in Udatas /\ LiveRecord(heap[cur.udata])
  BY DEF TypeOK, LiveRecord

LEMMA PipeReadReapedTypes == TypeOK /\ PipeReadReaped => TypeOK'
  <1> SUFFICES ASSUME TypeOK, PipeReadReaped PROVE TypeOK'
    OBVIOUS
  <1> DEFINE u == cur.udata
             p == heap[u].m_child_pid
  <1>1. /\ event_list' \subseteq Event /\ PcType(pc', cur', heap')
        /\ UNCHANGED m_udata_map
    BY WakeTypes DEF PipeReadReaped
  <1>2. u \in Udatas /\ LiveRecord(heap[u])
    BY SleeperTypes DEF PipeReadReaped, Wake
  <1>3. ProcType(proc')
    BY WaitOutcomesTypes DEF PipeReadReaped
  <1>4. CASE PipeChildSignaled(u)
    <2>1. m_fd_set' \subseteq Fds
      BY <1>2, <1>4 DEF PipeChildSignaled, LiveRecord, TypeOK
    <2> QED
      BY <1>1, <1>3, <1>4, <2>1, TypeParts, TypePartsPrime
      DEF PipeChildSignaled
  <1>5. CASE PipeChildExited(u, cur.ident)
    <2> DEFINE s == [heap EXCEPT ![u].m_read_pipe_fd = None,
                                 ![u].m_write_pipe_fd = None,
                                 ![u].m_child_pid = None]
               r == [heap[u] EXCEPT !.m_read_pipe_fd = None,
                                    !.m_write_pipe_fd = None,
                                    !.m_child_pid = None]
    <2>1. /\ heap' = Respond(u, s)
          /\ Push(<<Add(heap[u].m_client_sock, "WRITE", u),
                    Delete(p, "TIMER")>>)
          /\ Close({heap[u].m_write_pipe_fd, cur.ident})
          /\ UNCHANGED m_fd_set
      BY <1>5 DEF PipeChildExited
    <2>2. s = [heap EXCEPT ![u] = r]
      BY <1>2 DEF TypeOK
    <2>3. LiveRecord(r)
      BY <1>2 DEF LiveRecord, UdataRecord, FdOrNone, PidOrNone
    <2>4. HeapType(s)
      BY <1>2, <2>2, <2>3, LiveRecordTypes, TypeParts
    <2> HIDE DEF s
    <2>5. HeapType(heap')
      BY <1>2, <2>1, <2>4, RespondTypes
    <2>6. ChangesType(change_list')
      BY <1>2, <2>1, OneChange, PushTypes DEF LiveRecord, UdataRecord
    <2>7. FdtType(fdt') /\ knotes' \subseteq Knote /\ ConnType(conn')
      BY <2>1, CloseTypes, TypeParts
    <2> QED
      BY <1>1, <1>3, <2>1, <2>5, <2>6, <2>7, TypeParts, TypePartsPrime
  <1> QED
    BY <1>4, <1>5 DEF PipeReadReaped

LEMMA PipeWriteEventTypes ==
  ASSUME TypeOK, NEW e, PipeWriteEvent(e)
  PROVE  TypeOK'
  <1> DEFINE u == e.udata
             rest == BodyLen - heap[u].m_file_write_offset
  <1>1. /\ e \in Event /\ event_list' \subseteq Event
        /\ PcType(pc', cur', heap') /\ UNCHANGED m_udata_map
    BY DispatchTypes DEF PipeWriteEvent
  <1>2. u \in Udatas /\ LiveRecord(heap[u]) /\ e.ident \in Fds
    BY <1>1, HandledAsTypes DEF PipeWriteEvent
  <1>3. CASE PipeWriteNothing(e)
    BY <1>1, <1>3, TypeParts, TypePartsPrime DEF PipeWriteNothing
  <1>4. CASE TransferFails(e, "pipew")
    BY <1>1, <1>2, <1>4, TransferFailsTypes, TypeParts, TypePartsPrime
  <1>5. CASE PipeWriteSome(e)
    <2>1. PICK k \in 1 .. rest :
            LET s == [heap EXCEPT ![u].m_file_write_offset = @ + k] IN
            /\ proc' = [proc EXCEPT ![fdt[e.ident].of].full = k < rest]
            /\ \/ heap' = s /\ UNCHANGED <<fdt, knotes, conn>>
               \/ /\ heap' = [s EXCEPT ![u].m_write_pipe_fd = None]
                  /\ Close({e.ident})
            /\ UNCHANGED <<m_fd_set, change_list>>
      BY <1>5 DEF PipeWriteSome
    <2> DEFINE w == heap[u].m_file_write_offset + k
               r == [heap[u] EXCEPT !.m_file_write_offset = w]
               q == [r EXCEPT !.m_write_pipe_fd = None]
               s == [heap EXCEPT ![u].m_file_write_offset = @ + k]
               t == [s EXCEPT ![u].m_write_pipe_fd = None]
    <2>2. w \in 0 .. BodyLen
      BY <1>2, ServerAssumption DEF LiveRecord, UdataRecord
    <2>3. LiveRecord(r) /\ LiveRecord(q)
      BY <1>2, <2>2 DEF LiveRecord, UdataRecord, FdOrNone
    <2>4. s = [heap EXCEPT ![u] = r]
      BY <1>2 DEF TypeOK
    <2>5. t = [heap EXCEPT ![u] = q]
      BY <1>2, <2>4 DEF TypeOK
    <2>6. HeapType(s) /\ HeapType(t)
      BY <1>2, <2>3, <2>4, <2>5, LiveRecordTypes, TypeParts
    <2>7. ProcType(proc')
      <3>1. ASSUME NEW x \in ProcRecord, NEW b \in BOOLEAN
            PROVE  [x EXCEPT !.full = b] \in ProcRecord
        BY DEF ProcRecord
      <3>2. \A b \in BOOLEAN :
              ProcType([proc EXCEPT ![fdt[e.ident].of].full = b])
        BY <3>1 DEF TypeOK, ProcType
      <3>3. (k < rest) \in BOOLEAN
        OBVIOUS
      <3> QED
        BY <2>1, <3>2, <3>3
    <2> HIDE DEF s, t
    <2>8. CASE heap' = s /\ UNCHANGED <<fdt, knotes, conn>>
      BY <1>1, <2>1, <2>6, <2>7, <2>8, TypeParts, TypePartsPrime
    <2>9. CASE heap' = t /\ Close({e.ident})
      BY <1>1, <2>1, <2>6, <2>7, <2>9, CloseTypes, TypeParts, TypePartsPrime
    <2> QED
      BY <2>1, <2>8, <2>9 DEF s, t
  <1> QED
    BY <1>3, <1>4, <1>5 DEF PipeWriteEvent

LEMMA CgiProcessTimeoutEventTypes ==
  ASSUME TypeOK, NEW e, CgiProcessTimeoutEvent(e)
  PROVE  TypeOK'
  <1>1. e \in Event /\ event_list' \subseteq Event
    BY DispatchTypes DEF CgiProcessTimeoutEvent
  <1>2. PcType(pc', cur', heap')
    BY <1>1, EventTypes DEF CgiProcessTimeoutEvent, Sleep, PcType
  <1>3. FdtType(fdt') /\ knotes' \subseteq Knote /\ ConnType(conn')
    BY CloseTypes, TypeParts DEF CgiProcessTimeoutEvent
  <1>4. ProcType(proc')
    BY TerminatedTypes DEF CgiProcessTimeoutEvent
  <1> QED
    BY <1>1, <1>2, <1>3, <1>4, TypeParts, TypePartsPrime
    DEF CgiProcessTimeoutEvent

LEMMA CgiTimeoutReapedTypes == TypeOK /\ CgiTimeoutReaped => TypeOK'
  <1> SUFFICES ASSUME TypeOK, CgiTimeoutReaped PROVE TypeOK'
    OBVIOUS
  <1> DEFINE u == cur.udata
             s == [heap EXCEPT ![u].m_child_pid = None]
             r == [heap[u] EXCEPT !.m_child_pid = None]
  <1>1. event_list' \subseteq Event /\ PcType(pc', cur', heap')
    BY WakeTypes DEF CgiTimeoutReaped
  <1>2. u \in Udatas /\ LiveRecord(heap[u])
    BY SleeperTypes DEF CgiTimeoutReaped, Wake
  <1>3. /\ heap' = Respond(u, s)
        /\ Push(<<Add(heap[u].m_client_sock, "WRITE", u)>>)
        /\ UNCHANGED <<m_udata_map, m_fd_set, fdt, knotes, conn>>
    BY DEF CgiTimeoutReaped
  <1>4. ProcType(proc')
    BY WaitOutcomesTypes DEF CgiTimeoutReaped
  <1>5. s = [heap EXCEPT ![u] = r]
    BY <1>2 DEF TypeOK
  <1>6. LiveRecord(r)
    BY <1>2 DEF LiveRecord, UdataRecord, PidOrNone
  <1>7. HeapType(s)
    BY <1>2, <1>5, <1>6, LiveRecordTypes, TypeParts
  <1> HIDE DEF s
  <1>8. HeapType(heap')
    BY <1>2, <1>3, <1>7, RespondTypes
  <1>9. ChangesType(change_list')
    BY <1>2, <1>3, OneChange, PushTypes, None \in PidOrNone
    DEF LiveRecord, FdOrNone, PidOrNone
  <1> QED
    BY <1>1, <1>3, <1>4, <1>8, <1>9, TypeParts, TypePartsPrime

LEMMA BrokenPipeTypes ==
  ASSUME TypeOK, NEW e, BrokenPipe(e)
  PROVE  TypeOK'
  <1>1. event_list' \subseteq Event
    BY DispatchTypes DEF BrokenPipe
  <1> QED
    BY <1>1, TypeParts, TypePartsPrime DEF BrokenPipe, PcType

(***************************************************************************)
(* clearUdata.                                                             *)
(***************************************************************************)
LEMMA DestroyTypes ==
  ASSUME TypeOK, NEW f, NEW u \in Udatas, Destroy(f, u)
  PROVE  /\ HeapType(heap') /\ MapType(m_udata_map') /\ FdtType(fdt')
         /\ knotes' \subseteq Knote /\ ConnType(conn') /\ UNCHANGED m_fd_set
  BY FreedUdataTypes, RemoveUdataTypes, CloseTypes, TypeParts DEF Destroy

LEMMA ClearUdataTypes ==
  ASSUME TypeOK, NEW f, NEW u \in Udatas, ClearUdata(f, u)
  PROVE  TypeOK'
  <1>1. PcType(pc', cur', heap') /\ UNCHANGED <<event_list, change_list, proc>>
    BY DEF ClearUdata, Clearing, Continue, PcType, TypeOK
  <1> QED
    BY <1>1, DestroyTypes, TypeParts, TypePartsPrime DEF ClearUdata

LEMMA ClearKillTypes ==
  ASSUME TypeOK, NEW f \in m_fd_set, NEW u \in Udatas, ClearKill(f, u)
  PROVE  TypeOK'
  <1> DEFINE e == [ident |-> f, filter |-> "READ", udata |-> u, eof |-> FALSE]
  <1>1. e \in Event /\ f \in Fds
    BY DEF TypeOK, Event
  <1>2. PcType(pc', cur', heap')
    BY <1>1 DEF ClearKill, Sleep, PcType
  <1>3. ProcType(proc')
    BY TerminatedTypes DEF ClearKill
  <1> QED
    BY <1>2, <1>3, TypeParts, TypePartsPrime DEF ClearKill, Clearing

LEMMA ClearReapedTypes == TypeOK /\ ClearReaped => TypeOK'
  <1> SUFFICES ASSUME TypeOK, ClearReaped PROVE TypeOK'
    OBVIOUS
  <1>1. event_list' \subseteq Event /\ PcType(pc', cur', heap')
    BY WakeTypes DEF ClearReaped
  <1>2. cur.udata \in Udatas /\ LiveRecord(heap[cur.udata])
    BY SleeperTypes DEF ClearReaped, Wake
  <1>3. ProcType(proc')
    BY WaitOutcomesTypes DEF ClearReaped
  <1>4. ChangesType(change_list')
    BY <1>2, OneChange, PushTypes, None \in FdOrNone
    DEF ClearReaped, LiveRecord, UdataRecord, FdOrNone
  <1> QED
    BY <1>1, <1>2, <1>3, <1>4, DestroyTypes, TypeParts, TypePartsPrime
    DEF ClearReaped

LEMMA ClearSocketTypes ==
  ASSUME TypeOK, NEW f, ClearSocket(f)
  PROVE  TypeOK'
  <1>1. /\ PcType(pc', cur', heap') /\ m_fd_set' \subseteq Fds
        /\ UNCHANGED <<heap, m_udata_map, event_list, change_list, proc>>
    BY DEF ClearSocket, Clearing, Continue, PcType, TypeOK
  <1>2. FdtType(fdt') /\ knotes' \subseteq Knote /\ ConnType(conn')
    BY CloseTypes, TypeParts DEF ClearSocket
  <1> QED
    BY <1>1, <1>2, TypeParts, TypePartsPrime

LEMMA UseAfterFreeTypes ==
  ASSUME TypeOK, NEW u, UseAfterFree(u)
  PROVE  TypeOK'
  BY TypeParts, TypePartsPrime DEF UseAfterFree, PcType

(***************************************************************************)
(* The clients and the CGI children.                                       *)
(***************************************************************************)
LEMMA ClientTypes ==
  ASSUME TypeOK, NEW c \in Conns, Client(c)
  PROVE  TypeOK'
  <1>1. /\ UNCHANGED <<heap, m_udata_map, m_fd_set, change_list, event_list, pc,
                      cur, fdt, knotes, proc>>
    BY DEF Client, Connect, Send, Drain, Fin, Reset, Abort, ServerUnchanged
  <1>2. ConnType(conn')
    <2>1. conn \in [Conns -> ConnRecord] /\ conn[c] \in ConnRecord
      BY DEF TypeOK
    <2>2. CASE Connect(c)
      BY <2>1, <2>2 DEF Connect, ConnType, ConnRecord
    <2>3. CASE Send(c)
      <3>1. conn[c].sent + 1 \in SegmentNo
        <4>1. conn[c].sent \in SegmentNo
          BY <2>1 DEF ConnRecord
        <4>2. MaxRequests * Segments \in Nat
          BY ServerAssumption
        <4>3. conn[c].sent < MaxRequests * Segments
          BY <2>3 DEF Send
        <4> QED
          BY <4>1, <4>2, <4>3 DEF SegmentNo
      <3> DEFINE k == conn[c].sent + 1
      <3>2. conn' = [conn EXCEPT ![c] = [conn[c] EXCEPT !.sent = k]]
        BY <2>1, <2>3 DEF Send
      <3> HIDE DEF k
      <3>3. [conn[c] EXCEPT !.sent = k] \in ConnRecord
        BY <2>1, <3>1 DEF ConnRecord, k
      <3> QED
        BY <2>1, <3>2, <3>3 DEF ConnType
    <2>4. CASE Drain(c)
      BY <2>1, <2>4 DEF Drain, ConnType, ConnRecord
    <2>5. CASE Fin(c)
      BY <2>1, <2>5 DEF Fin, ConnType, ConnRecord
    <2>6. CASE Reset(c)
      BY <2>1, <2>6 DEF Reset, ConnType, ConnRecord
    <2>7. CASE Abort(c)
      BY <2>1, <2>7 DEF Abort, ConnType, ConnRecord
    <2> QED
      BY <2>2, <2>3, <2>4, <2>5, <2>6, <2>7 DEF Client
  <1> QED
    BY <1>1, <1>2, TypeParts, TypePartsPrime

LEMMA ChildTypes ==
  ASSUME TypeOK, NEW p \in Pids, Child(p)
  PROVE  TypeOK'
  <1>1. UNCHANGED <<heap, m_udata_map, m_fd_set, change_list, event_list, pc,
                    cur, fdt, knotes, conn>>
    BY DEF Child, ChildReads, ChildWrites, ChildClosesStdout, ChildExits,
           ChildCrashes, ChildDies, ProcessUnchanged, ServerUnchanged
  <1>2. ProcType(proc')
    <2>1. proc \in [Pids -> ProcRecord] /\ proc[p] \in ProcRecord
      BY DEF TypeOK
    <2>2. CASE ChildReads(p)
      BY <2>1, <2>2 DEF ChildReads, ProcType, ProcRecord
    <2>4. CASE ChildWrites(p)
      BY <2>1, <2>4 DEF ChildWrites, ProcType, ProcRecord
    <2>5. CASE ChildClosesStdout(p)
      BY <2>1, <2>5 DEF ChildClosesStdout, ProcType, ProcRecord
    <2>3. CASE ChildExits(p) \/ ChildCrashes(p) \/ ChildDies(p)
      BY <2>1, <2>3
      DEF ChildExits, ChildCrashes, ChildDies, ProcType, ProcRecord
    <2> QED
      BY <2>2, <2>3, <2>4, <2>5 DEF Child
  <1> QED
    BY <1>1, <1>2, TypeParts, TypePartsPrime

(***************************************************************************)
(* Type correctness.                                                       *)
(***************************************************************************)
LEMMA InitTypes == Init => TypeOK
  <1> SUFFICES ASSUME Init PROVE TypeOK
    OBVIOUS
  <1>1. HeapType(heap)
    <2>1. UnusedUdata \in UdataRecord /\ UnusedUdata.st = "unused"
      BY ServerAssumption
      DEF UnusedUdata, UdataRecord, FdOrNone, PidOrNone, SegmentNo, RequestNo,
          None
    <2> QED
      BY <2>1 DEF Init, HeapType
  <1>2. MapType(m_udata_map)
    BY DEF Init, MapType
  <1>3. ChangesType(change_list)
    BY DEF Init, ChangesType, Add, Change
  <1>4. FdtType(fdt) /\ ProcType(proc)
    BY DEF Init, FdtType, FreeEntry, FdEntry, ProcType, NoProc, ProcRecord
  <1>5. ConnType(conn)
    <2>1. 0 \in SegmentNo
      BY ServerAssumption DEF SegmentNo
    <2> QED
      BY <2>1 DEF Init, ConnType, ConnRecord
  <1> QED
    BY <1>1, <1>2, <1>3, <1>4, <1>5, TypeParts DEF Init, PcType

LEMMA HandleTypes ==
  ASSUME TypeOK, NEW e, Handle(e)
  PROVE  TypeOK'
  BY ServerReadEventTypes, ClientReadEventTypes, ClientWriteEventTypes,
     StaticFileReadEventTypes, FileWriteEventTypes, PipeReadEventTypes,
     PipeWriteEventTypes, CgiProcessTimeoutEventTypes, BrokenPipeTypes
  DEF Handle

LEMMA ServerStepTypes == TypeOK /\ ServerStep => TypeOK'
  <1> SUFFICES ASSUME TypeOK, ServerStep PROVE TypeOK'
    OBVIOUS
  <1>1. CASE \E e \in event_list : Handle(e)
    BY <1>1, HandleTypes
  <1>2. CASE \E f \in m_fd_set, u \in Udatas : Clear(f, u)
    BY <1>2, ClearUdataTypes, ClearKillTypes DEF Clear
  <1>3. CASE \E f \in m_fd_set : ClearSocket(f)
    BY <1>3, ClearSocketTypes
  <1>4. CASE \E u \in Udatas : UseAfterFree(u)
    BY <1>4, UseAfterFreeTypes
  <1>5. CASE ApplyChange \/ Poll \/ EndBatch
    BY <1>5, ApplyChangeTypes, PollTypes, EndBatchTypes
  <1>6. CASE AcceptReturns \/ PipeReadReaped \/ CgiTimeoutReaped \/ ClearReaped
    BY <1>6, AcceptReturnsTypes, PipeReadReapedTypes, CgiTimeoutReapedTypes,
       ClearReapedTypes
  <1> QED
    BY <1>1, <1>2, <1>3, <1>4, <1>5, <1>6 DEF ServerStep

\* Every step of the system keeps the types: no handler, under any fault, gives
\* a live t_event_udata without client socket, an event without object, or a
\* descriptor number that is neither one nor -1.
LEMMA NextTypes == TypeOK /\ [Next]_vars => TypeOK'
  <1> SUFFICES ASSUME TypeOK, [Next]_vars PROVE TypeOK'
    OBVIOUS
  <1>1. CASE UNCHANGED vars
    BY <1>1 DEF vars, TypeOK
  <1>2. CASE Next
    BY <1>2, ServerStepTypes, ClientTypes, ChildTypes DEF Next
  <1> QED
    BY <1>1, <1>2

\* TypeOK holds in every state of the server, for all constants.
THEOREM ServerTypeCorrect == Spec => []TypeOK
  <1> QED
    BY InitTypes, NextTypes, PTL DEF Spec

(***************************************************************************)
(* The listening socket. It is registered by the first change of the first *)
(* change_list; from then on no change names it but to add it again, and   *)
(* no handler closes a descriptor that could be it.                        *)
(***************************************************************************)
ListenKnote == [ident |-> ListenFd, filter |-> "READ", udata |-> ServerUdata]

ListenerInv ==
  \/ ListenKnote \in knotes
  \/ /\ pc = "kevent" /\ change_list # <<>>
     /\ Head(change_list) = Add(ListenFd, "READ", ServerUdata)

LEMMA CloseKeepsListener ==
  ASSUME ListenKnote \in knotes, NEW F \in SUBSET FdOrNone, Close(F)
  PROVE  ListenKnote \in knotes'
  <1>1. ListenFd \notin F
    BY Positive DEF FdOrNone, ListenFd, None
  <1>2. ListenKnote.ident = ListenFd
    BY DEF ListenKnote
  <1> QED
    BY <1>1, <1>2 DEF Close

LEMMA ApplyChangeKeepsListener ==
  ASSUME TypeOK, ListenerInv, ApplyChange
  PROVE  ListenKnote \in knotes'
  <1> DEFINE ch == Head(change_list)
  <1>1. ch \in Change
    BY HeadTailProperties DEF ApplyChange, TypeOK
  <1>2. CASE ch.ident = ListenFd
    <2>1. ch = Add(ListenFd, "READ", ServerUdata)
      BY <1>1, <1>2, Positive DEF Change, Add, FdOrNone, ListenFd, None
    <2>2. Registrable(ch) /\ KnoteOf(ch) = ListenKnote /\ ch.op = "ADD"
      BY <2>1 DEF Registrable, KnoteOf, ListenKnote, Add
    <2> QED
      BY <2>2 DEF ApplyChange
  <1>3. CASE ch.ident # ListenFd
    <2>1. ListenKnote \in knotes
      BY <1>3 DEF ListenerInv, Add
    <2>2. ~SameKnote(ListenKnote, ch)
      BY <1>3 DEF SameKnote, ListenKnote
    <2> QED
      BY <2>1, <2>2 DEF ApplyChange
  <1> QED
    BY <1>2, <1>3

LEMMA HandleKeepsListener ==
  ASSUME TypeOK, ListenKnote \in knotes, NEW e, Handle(e)
  PROVE  ListenKnote \in knotes'
  <1> DEFINE u == e.udata
  <1>0. e \in Event
    BY DispatchTypes
    DEF Handle, ServerReadEvent, ClientReadEvent, ClientWriteEvent,
        StaticFileReadEvent, FileWriteEvent, PipeReadEvent, PipeWriteEvent,
        CgiProcessTimeoutEvent, BrokenPipe
  <1>1. CASE ServerReadEvent(e)
    BY <1>1 DEF ServerReadEvent, Accept
  <1>2. CASE ClientReadEvent(e)
    BY <1>2 DEF ClientReadEvent
  <1>3. CASE ClientWriteEvent(e)
    BY <1>3 DEF ClientWriteEvent
  <1>4. CASE StaticFileReadEvent(e)
    <2>1. {e.ident} \in SUBSET FdOrNone
      BY <1>0, <1>4, HandledAsTypes DEF StaticFileReadEvent, FdOrNone
    <2>2. UNCHANGED knotes \/ Close({e.ident})
      BY <1>4 DEF StaticFileReadEvent, StaticFileReadSome, TransferFails
    <2> QED
      BY <2>1, <2>2, CloseKeepsListener
  <1>5. CASE FileWriteEvent(e)
    <2>1. {e.ident} \in SUBSET FdOrNone
      BY <1>0, <1>5, HandledAsTypes DEF FileWriteEvent, FdOrNone
    <2>2. UNCHANGED knotes \/ Close({e.ident})
      BY <1>5 DEF FileWriteEvent, FileWriteSome, TransferFails
    <2> QED
      BY <2>1, <2>2, CloseKeepsListener
  <1>6. CASE PipeReadEvent(e)
    BY <1>6 DEF PipeReadEvent, PipeReadSome, PipeReadEnd, TransferFails
  <1>7. CASE PipeWriteEvent(e)
    <2>1. {e.ident} \in SUBSET FdOrNone
      BY <1>0, <1>7, HandledAsTypes DEF PipeWriteEvent, FdOrNone
    <2>2. UNCHANGED knotes \/ Close({e.ident})
      BY <1>7 DEF PipeWriteEvent, PipeWriteSome, PipeWriteNothing, TransferFails
    <2> QED
      BY <2>1, <2>2, CloseKeepsListener
  <1>8. CASE CgiProcessTimeoutEvent(e)
    <2>1. u \in Udatas
      BY <1>0, <1>8, EventTypes DEF CgiProcessTimeoutEvent
    <2>2. {heap[u].m_read_pipe_fd, heap[u].m_write_pipe_fd} \in SUBSET FdOrNone
      BY <2>1 DEF TypeOK, UdataRecord
    <2> QED
      BY <1>8, <2>2, CloseKeepsListener DEF CgiProcessTimeoutEvent
  <1>9. CASE BrokenPipe(e)
    BY <1>9 DEF BrokenPipe
  <1> QED
    BY <1>1, <1>2, <1>3, <1>4, <1>5, <1>6, <1>7, <1>8, <1>9 DEF Handle

LEMMA DestroyKeepsListener ==
  ASSUME TypeOK, ListenKnote \in knotes, NEW f, NEW u \in Udatas, Destroy(f, u)
  PROVE  ListenKnote \in knotes'
  <1>1. {heap[u].static_read_file_fd, heap[u].m_read_pipe_fd,
         heap[u].m_write_pipe_fd} \in SUBSET FdOrNone
    BY DEF TypeOK, UdataRecord
  <1> QED
    BY <1>1, CloseKeepsListener DEF Destroy

LEMMA ClearKeepsListener ==
  ASSUME TypeOK, ListenKnote \in knotes, NEW f, NEW u \in Udatas,
         Clear(f, u)
  PROVE  ListenKnote \in knotes'
  <1>1. CASE ClearUdata(f, u)
    BY <1>1, DestroyKeepsListener DEF ClearUdata
  <1>2. CASE ClearKill(f, u)
    BY <1>2 DEF ClearKill
  <1> QED
    BY <1>1, <1>2 DEF Clear

LEMMA ReapKeepsListener ==
  ASSUME TypeOK, ListenKnote \in knotes,
         AcceptReturns \/ PipeReadReaped \/ CgiTimeoutReaped \/ ClearReaped
  PROVE  ListenKnote \in knotes'
  <1>1. CASE AcceptReturns \/ CgiTimeoutReaped
    BY <1>1 DEF AcceptReturns, Accept, CgiTimeoutReaped
  <1>2. CASE PipeReadReaped
    <2>1. cur.udata \in Udatas /\ cur.ident \in Fds
      BY <1>2 DEF PipeReadReaped, Wake, TypeOK
    <2>2. {heap[cur.udata].m_write_pipe_fd, cur.ident} \in SUBSET FdOrNone
      BY <2>1 DEF TypeOK, UdataRecord, FdOrNone
    <2> QED
      BY <1>2, <2>2, CloseKeepsListener
      DEF PipeReadReaped, PipeChildSignaled, PipeChildExited
  <1>3. CASE ClearReaped
    <2>1. cur.udata \in Udatas
      BY <1>3 DEF ClearReaped, Wake, TypeOK
    <2> QED
      BY <1>3, <2>1, DestroyKeepsListener DEF ClearReaped
  <1> QED
    BY <1>1, <1>2, <1>3

\* Only kevent() goes on while the first change is not applied.
LEMMA OnlyKeventFirst ==
  ASSUME pc = "kevent", change_list # <<>>, ServerStep
  PROVE  ApplyChange
  BY DEF ServerStep, Poll, EndBatch, Handle, Clear, ServerReadEvent,
         ClientReadEvent, ClientWriteEvent, StaticFileReadEvent, FileWriteEvent,
         PipeReadEvent, PipeWriteEvent, CgiProcessTimeoutEvent, BrokenPipe,
         Dispatch, ClearUdata, ClearKill, ClearSocket, Clearing, UseAfterFree,
         AcceptReturns, PipeReadReaped, CgiTimeoutReaped, ClearReaped, Wake

LEMMA ServerStepKeepsListener ==
  ASSUME TypeOK, ListenerInv, ServerStep
  PROVE  ListenerInv'
  <1>1. CASE ApplyChange
    BY <1>1, ApplyChangeKeepsListener DEF ListenerInv, ListenKnote
  <1>2. CASE ~ApplyChange
    <2>1. ListenKnote \in knotes
      BY <1>2, OnlyKeventFirst DEF ListenerInv
    <2>2. CASE Poll
      <3>1. \A k \in Timers : k # ListenKnote
        BY DEF Timers, ListenKnote
      <3> QED
        BY <2>1, <2>2, <3>1 DEF Poll, ListenerInv, ListenKnote
    <2>3. CASE EndBatch \/ \E u \in Udatas : UseAfterFree(u)
      BY <2>1, <2>3 DEF EndBatch, UseAfterFree, ListenerInv, ListenKnote
    <2>4. CASE \E e \in event_list : Handle(e)
      BY <2>1, <2>4, HandleKeepsListener DEF ListenerInv, ListenKnote
    <2>5. CASE \E f \in m_fd_set, u \in Udatas : Clear(f, u)
      BY <2>1, <2>5, ClearKeepsListener DEF ListenerInv, ListenKnote
    <2>6. CASE \E f \in m_fd_set : ClearSocket(f)
      <3>1. PICK f \in m_fd_set : ClearSocket(f)
        BY <2>6
      <3>2. (IF f \in DOMAIN m_udata_map THEN {f} ELSE {}) \in SUBSET FdOrNone
        BY DEF TypeOK, FdOrNone
      <3> QED
        BY <2>1, <3>1, <3>2, CloseKeepsListener
        DEF ClearSocket, ListenerInv, ListenKnote
    <2>7. CASE AcceptReturns \/ PipeReadReaped \/ CgiTimeoutReaped \/ ClearReaped
      BY <2>1, <2>7, ReapKeepsListener DEF ListenerInv, ListenKnote
    <2> QED
      BY <1>2, <2>2, <2>3, <2>4, <2>5, <2>6, <2>7 DEF ServerStep
  <1> QED
    BY <1>1, <1>2

LEMMA OthersKeepListener ==
  ASSUME ListenerInv,
         \/ \E c \in Conns : Client(c)
         \/ \E p \in Pids : Child(p)
         \/ UNCHANGED vars
  PROVE  ListenerInv'
  <1>1. UNCHANGED <<knotes, pc, change_list>>
    BY DEF Client, Connect, Send, Drain, Fin, Reset, Abort, Child, ChildReads,
           ChildWrites, ChildClosesStdout, ChildExits, ChildCrashes, ChildDies,
           ProcessUnchanged, ServerUnchanged, vars
  <1> QED
    BY <1>1 DEF ListenerInv, ListenKnote, Add

\* ListenerKept, for all constants and under every fault: no sequence of
\* departures, failures and reused descriptor numbers makes the loop delete or
\* close the filter of the listening socket, so new clients can always connect.
THEOREM ListenerNeverLost == Spec => []ListenerKept
  <1>1. Init => ListenerInv
    BY DEF Init, ListenerInv
  <1>2. TypeOK /\ ListenerInv /\ [Next]_vars => ListenerInv'
    BY ServerStepKeepsListener, OthersKeepListener DEF Next
  <1>3. ListenerInv => ListenerKept
    BY DEF ListenerInv, ListenerKept, Waiting, ListenKnote
  <1> QED
    BY <1>1, <1>2, <1>3, ServerTypeCorrect, PTL DEF Spec
=============================================================================
