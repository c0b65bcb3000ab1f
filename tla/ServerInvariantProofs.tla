----------------------- MODULE ServerInvariantProofs ------------------------
(***************************************************************************)
(* The rest of the invariant of ServerInvariant, about filters and the     *)
(* batch of events, and what follows from it: the memory and descriptor    *)
(* safety of the event loop.                                               *)
(***************************************************************************)
EXTENDS ServerObjectsProofs

(***************************************************************************)
(* Lists of changes.                                                       *)
(***************************************************************************)
LEMMA Appended ==
  ASSUME NEW l \in Seq(Change), NEW s \in Seq(Change)
  PROVE  /\ l \o s \in Seq(Change)
         /\ Len(l \o s) = Len(l) + Len(s) /\ Len(l) \in Nat /\ Len(s) \in Nat
         /\ \A i \in 1 .. Len(l) : i \in 1 .. Len(l \o s) /\ (l \o s)[i] = l[i]
         /\ \A j \in 1 .. Len(s) : /\ Len(l) + j \in 1 .. Len(l \o s)
                                   /\ (l \o s)[Len(l) + j] = s[j]
         /\ \A i \in 1 .. Len(l \o s) :
              \/ i \in 1 .. Len(l)
              \/ \E j \in 1 .. Len(s) : i = Len(l) + j
  <1>1. Len(l) \in Nat /\ Len(s) \in Nat
    BY LenProperties
  <1>2. l \o s \in Seq(Change) /\ Len(l \o s) = Len(l) + Len(s)
    BY ConcatProperties
  <1>3. \A i \in 1 .. Len(l) : i \in 1 .. Len(l \o s) /\ (l \o s)[i] = l[i]
    BY <1>1, <1>2, ConcatProperties
  <1>4. \A j \in 1 .. Len(s) : /\ Len(l) + j \in 1 .. Len(l \o s)
                               /\ (l \o s)[Len(l) + j] = s[j]
    BY <1>1, <1>2, ConcatProperties
  <1>5. ASSUME NEW i \in 1 .. Len(l \o s)
        PROVE  \/ i \in 1 .. Len(l)
               \/ \E j \in 1 .. Len(s) : i = Len(l) + j
    <2>1. CASE i > Len(l)
      <3>1. i - Len(l) \in 1 .. Len(s) /\ i = Len(l) + (i - Len(l))
        BY <1>1, <1>2, <2>1
      <3> QED
        BY <3>1
    <2> QED
      BY <1>1, <1>2, <2>1
  <1> QED
    BY <1>1, <1>2, <1>3, <1>4, <1>5

\* Some change of s decides about the filter of x.
KeyIn(s, x) == \E j \in 1 .. Len(s) : SameKey(s[j], x)

LEMMA OverruledByAppended ==
  ASSUME NEW l \in Seq(Change), NEW s \in Seq(Change), NEW x,
         NEW i \in 1 .. Len(l) + 1
  PROVE  Overruled(l \o s, x, i) <=> Overruled(l, x, i) \/ KeyIn(s, x)
  <1>1. Overruled(l, x, i) => Overruled(l \o s, x, i)
    BY Appended DEF Overruled
  <1>2. KeyIn(s, x) => Overruled(l \o s, x, i)
    <2> SUFFICES ASSUME NEW j \in 1 .. Len(s), SameKey(s[j], x)
                 PROVE  Overruled(l \o s, x, i)
      BY DEF KeyIn
    <2>1. /\ Len(l) + j \in 1 .. Len(l \o s) /\ SameKey((l \o s)[Len(l) + j], x)
          /\ Len(l) + j >= i
      BY Appended
    <2> QED
      BY <2>1 DEF Overruled
  <1>3. Overruled(l \o s, x, i) => Overruled(l, x, i) \/ KeyIn(s, x)
    <2> SUFFICES ASSUME NEW j \in 1 .. Len(l \o s), j >= i, SameKey((l \o s)[j], x)
                 PROVE  Overruled(l, x, i) \/ KeyIn(s, x)
      BY DEF Overruled
    <2>1. CASE j \in 1 .. Len(l)
      BY <2>1, Appended DEF Overruled
    <2>2. CASE \E k \in 1 .. Len(s) : j = Len(l) + k
      BY <2>2, Appended DEF KeyIn
    <2> QED
      BY <2>1, <2>2, Appended
  <1> QED
    BY <1>1, <1>2, <1>3

(***************************************************************************)
(* Steps that push the changes s and close the files and pipes X.          *)
(***************************************************************************)
\* Whoever no longer waits for a filter has it decided about by s, closed, or
\* is torn down.
Dropped(s, X) ==
  \A v, id, filter : Mine(heap, v, id, filter) =>
    \/ Mine(heap', v, id, filter)
    \/ KeyIn(s, [ident |-> id, filter |-> filter])
    \/ filter # "TIMER" /\ id \in m_fd_set' \cup X

Pushes(s, X) ==
  /\ s \in Seq(Change) /\ change_list' = change_list \o s
  /\ knotes' = {k \in knotes : k.filter = "TIMER" \/ k.ident \notin X}
  /\ X \subseteq FreeFds' /\ FreeFds' \subseteq FreeFds \cup X
  /\ m_fd_set \subseteq m_fd_set' \cup X
  /\ MayOpen \/ FreeFds \subseteq FreeFds'
  /\ MayOpen' => MayOpen
  /\ Dropped(s, X)
  /\ \A j \in 1 .. Len(s) : s[j].op = "ADD" => Proper(heap', s[j])
  /\ MayOpen' => /\ \A j \in 1 .. Len(s) : ~About(s[j], FreeFds')
                 /\ \A i \in 1 .. Len(change_list) : ~About(change_list[i], X)

LEMMA SameKeyOf ==
  ASSUME NEW s, NEW x, KeyIn(s, [ident |-> x.ident, filter |-> x.filter])
  PROVE  KeyIn(s, x)
  BY DEF KeyIn, SameKey

\* A filter that was somebody's, or on its way out.
LEMMA DroppedProper ==
  ASSUME NEW s, NEW X, Dropped(s, X), NEW x, Proper(heap, x)
  PROVE  \/ Proper(heap', x) \/ KeyIn(s, x)
         \/ About(x, m_fd_set' \cup X)
  <1>1. CASE x.udata = ServerUdata
    BY <1>1 DEF Proper
  <1>2. CASE Mine(heap, x.udata, x.ident, x.filter)
    BY <1>2, SameKeyOf DEF Dropped, Proper, About
  <1> QED
    BY <1>1, <1>2 DEF Proper

LEMMA PushesKeep ==
  ASSUME TypeOK, KnotesApart, KnotesOpen, KnotesProper, ChangesProper,
         ChangesOpen, NEW s, NEW X, Pushes(s, X)
  PROVE  /\ KnotesApart' /\ KnotesOpen' /\ KnotesProper' /\ ChangesProper'
         /\ ChangesOpen'
  <1>1. /\ change_list \in Seq(Change) /\ s \in Seq(Change)
        /\ change_list' = change_list \o s
        /\ Len(change_list) \in Nat
    BY LenProperties DEF TypeOK, Pushes
  <1>2. KnotesApart' /\ KnotesOpen'
    BY DEF KnotesApart, KnotesOpen, About, Pushes
  <1>3. KnotesProper'
    <2> SUFFICES ASSUME NEW k \in knotes'
                 PROVE  \/ Proper(heap', k) \/ Overruled(change_list', k, 1)
                        \/ About(k, m_fd_set')
      BY DEF KnotesProper
    <2>1. k \in knotes /\ ~About(k, X)
      BY DEF Pushes, About
    <2>2. 1 \in 1 .. Len(change_list) + 1
      BY <1>1
    <2>3. CASE Proper(heap, k)
      <3>1. Proper(heap', k) \/ KeyIn(s, k) \/ About(k, m_fd_set' \cup X)
        BY <2>3, DroppedProper DEF Pushes
      <3> QED
        BY <1>1, <2>1, <2>2, <3>1, OverruledByAppended DEF About
    <2>4. CASE Overruled(change_list, k, 1)
      BY <1>1, <2>2, <2>4, OverruledByAppended
    <2>5. CASE About(k, m_fd_set)
      BY <2>1, <2>5 DEF About, Pushes
    <2> QED
      BY <2>1, <2>3, <2>4, <2>5 DEF KnotesProper
  <1>4. ASSUME NEW i \in 1 .. Len(change_list)
        PROVE  About(change_list[i], FreeFds) => About(change_list[i], FreeFds')
    BY DEF Pushes, ChangesOpen, About
  <1>5. ChangesProper'
    <2> SUFFICES ASSUME NEW i \in 1 .. Len(change_list'), change_list'[i].op = "ADD"
                 PROVE  \/ Proper(heap', change_list'[i])
                        \/ Overruled(change_list', change_list'[i], i + 1)
                        \/ About(change_list'[i], m_fd_set' \cup FreeFds')
      BY DEF ChangesProper
    <2>1. CASE i \in 1 .. Len(change_list)
      <3> DEFINE x == change_list[i]
      <3>1. change_list'[i] = x /\ i + 1 \in 1 .. Len(change_list) + 1
        BY <1>1, <2>1, Appended
      <3>2. Overruled(change_list, x, i + 1) \/ KeyIn(s, x)
              => Overruled(change_list', x, i + 1)
        BY <1>1, <3>1, OverruledByAppended
      <3>3. CASE Proper(heap, x)
        <4>1. Proper(heap', x) \/ KeyIn(s, x) \/ About(x, m_fd_set' \cup X)
          BY <3>3, DroppedProper DEF Pushes
        <4> QED
          BY <3>1, <3>2, <4>1 DEF About, Pushes
      <3>4. CASE About(x, m_fd_set \cup FreeFds)
        BY <1>4, <2>1, <3>1, <3>4 DEF About, Pushes
      <3> QED
        BY <2>1, <3>1, <3>2, <3>3, <3>4 DEF ChangesProper
    <2>2. ASSUME NEW j \in 1 .. Len(s), i = Len(change_list) + j
          PROVE  Proper(heap', change_list'[i])
      <3>1. change_list'[i] = s[j]
        BY <1>1, <2>2, Appended
      <3> QED
        BY <3>1 DEF Pushes
    <2> QED
      BY <1>1, <2>1, <2>2, Appended
  <1>6. ChangesOpen'
    <2> SUFFICES ASSUME MayOpen', NEW i \in 1 .. Len(change_list')
                 PROVE  ~About(change_list'[i], FreeFds')
      BY DEF ChangesOpen
    <2>1. CASE i \in 1 .. Len(change_list)
      <3>1. change_list'[i] = change_list[i]
        BY <1>1, <2>1, Appended
      <3>2. ~About(change_list[i], FreeFds) /\ ~About(change_list[i], X)
        BY <2>1 DEF Pushes, ChangesOpen
      <3> QED
        BY <3>1, <3>2 DEF About, Pushes
    <2>2. ASSUME NEW j \in 1 .. Len(s), i = Len(change_list) + j
          PROVE  ~About(change_list'[i], FreeFds')
      <3>1. change_list'[i] = s[j]
        BY <1>1, <2>2, Appended
      <3> QED
        BY <3>1 DEF Pushes
    <2> QED
      BY <1>1, <2>1, <2>2, Appended
  <1> QED
    BY <1>2, <1>3, <1>5, <1>6

(***************************************************************************)
(* Filters and the descriptors they are about.                             *)
(***************************************************************************)
\* Whoever waits for a filter has its descriptor open.
FiltersOpen ==
  \A v, id, filter : Mine(heap, v, id, filter) /\ filter # "TIMER" =>
    id \in Fds \ FreeFds

LEMMA MineOpen ==
  TypeOK /\ Objects =>
    \A v, id, filter : Mine(heap, v, id, filter) /\ filter # "TIMER" =>
      /\ v \in LiveUdatas /\ id \in Fds \ FreeFds
      /\ \/ /\ fdt[id].kind = "sock" /\ heap[v].m_client_sock = id
            /\ fdt[id].of = heap[v].conn /\ heap[v].m_type = "CLIENT"
            /\ filter = IF heap[v].req = 0 THEN "READ" ELSE "WRITE"
         \/ fdt[id].kind = "rfile" /\ filter = "READ"
         \/ fdt[id].kind = "wfile" /\ filter = "WRITE"
         \/ /\ fdt[id].kind = "piper" /\ filter = "READ"
            /\ heap[v].m_read_pipe_fd = id /\ fdt[id].of = heap[v].m_child_pid
         \/ /\ fdt[id].kind = "pipew" /\ filter = "WRITE"
            /\ heap[v].m_write_pipe_fd = id /\ fdt[id].of = heap[v].m_child_pid
  <1> SUFFICES ASSUME TypeOK, Objects, NEW v, NEW id, NEW filter,
                      Mine(heap, v, id, filter), filter # "TIMER"
               PROVE  /\ v \in LiveUdatas /\ id \in Fds \ FreeFds
                      /\ \/ /\ fdt[id].kind = "sock" /\ heap[v].m_client_sock = id
                            /\ fdt[id].of = heap[v].conn
                            /\ heap[v].m_type = "CLIENT"
                            /\ filter = IF heap[v].req = 0 THEN "READ" ELSE "WRITE"
                         \/ fdt[id].kind = "rfile" /\ filter = "READ"
                         \/ fdt[id].kind = "wfile" /\ filter = "WRITE"
                         \/ /\ fdt[id].kind = "piper" /\ filter = "READ"
                            /\ heap[v].m_read_pipe_fd = id
                            /\ fdt[id].of = heap[v].m_child_pid
                         \/ /\ fdt[id].kind = "pipew" /\ filter = "WRITE"
                            /\ heap[v].m_write_pipe_fd = id
                            /\ fdt[id].of = heap[v].m_child_pid
    OBVIOUS
  <1>1. v \in LiveUdatas /\ LiveRecord(heap[v]) /\ InShape(heap[v]) /\ Owns(v)
    BY LiveObject, ObjectsParts DEF Mine, Objects, LiveUdatas
  <1>2. id # None /\ <<id, filter>> \in Filters(heap[v])
    BY DEF Mine
  <1>3. CASE ClientShape(heap[v])
    <2>1. id = heap[v].m_client_sock /\ heap[v].m_type = "CLIENT"
          /\ filter = IF heap[v].req = 0 THEN "READ" ELSE "WRITE"
      BY <1>2, <1>3 DEF ClientShape, Filters
    <2>2. id \in Fds /\ fdt[id] = SockEntry(heap[v].conn)
      BY <1>1, <2>1, SocketsOwned
    <2> QED
      BY <1>1, <2>1, <2>2 DEF SockEntry, FreeFds
  <1>4. CASE FileShape(heap[v])
    <2>1. \/ id = heap[v].static_read_file_fd /\ filter = "READ"
          \/ id = heap[v].static_write_file_fd /\ filter = "WRITE"
      BY <1>2, <1>4 DEF FileShape, Filters
    <2>2. fdt[id].kind = IF filter = "READ" THEN "rfile" ELSE "wfile"
      BY <1>1, <1>2, <2>1 DEF Owns, Is, OutFileEntry
    <2>3. id \in Fds
      BY <1>2, <1>4, <2>1 DEF FileShape
    <2> QED
      BY <1>1, <2>1, <2>2, <2>3 DEF FreeFds
  <1>5. CASE PipeShape(heap[v])
    <2>1. \/ id = heap[v].m_read_pipe_fd /\ filter = "READ"
          \/ id = heap[v].m_write_pipe_fd /\ filter = "WRITE"
      BY <1>2, <1>5 DEF PipeShape, Filters
    <2>2. fdt[id] = PipeEntry(IF filter = "READ" THEN "piper" ELSE "pipew",
                              heap[v].m_child_pid)
      BY <1>1, <1>2, <2>1 DEF Owns
    <2>3. id \in Fds
      BY <1>2, <1>5, <2>1 DEF PipeShape
    <2> QED
      BY <1>1, <2>1, <2>2, <2>3 DEF FreeFds, PipeEntry
  <1> QED
    BY <1>1, <1>3, <1>4, <1>5 DEF InShape

LEMMA MineOpenPrime == TypeOK' /\ Objects' => FiltersOpen'
  <1>1. TypeOK /\ Objects => FiltersOpen
    BY MineOpen DEF FiltersOpen
  <1> QED
    BY <1>1, PTL

(***************************************************************************)
(* Readers.                                                                *)
(***************************************************************************)
\* Each socket that stays keeps its reader and the reader's filter, or is given
\* a new one with the last of the changes s.
Hears(s, X) ==
  \A f \in Fds : Is(f, "sock")' /\ f \notin m_fd_set' =>
    \/ /\ Is(f, "sock") /\ f \notin m_fd_set /\ f \notin X
       /\ ~KeyIn(s, [ident |-> f, filter |-> "READ"])
       /\ \A u \in Udatas : Reads(u, f) => Reads(u, f)'
    \/ \E n \in Udatas, r \in Seq(Change) :
         Reads(n, f)' /\ s = r \o <<Add(f, "READ", n)>>

\* A filter that s does not decide about, and that is not closed, leads where it did.
LEMMA RegistersStays ==
  ASSUME TypeOK, NEW s, NEW X, Pushes(s, X), NEW f, NEW filter, NEW u,
         filter # "TIMER" => f \notin X,
         ~KeyIn(s, [ident |-> f, filter |-> filter]),
         Registers(knotes, change_list, f, filter, u)
  PROVE  Registers(knotes', change_list', f, filter, u)
  <1> DEFINE k == [ident |-> f, filter |-> filter, udata |-> u]
  <1>1. /\ change_list \in Seq(Change) /\ s \in Seq(Change)
        /\ change_list' = change_list \o s
        /\ Len(change_list) \in Nat
    BY LenProperties DEF TypeOK, Pushes
  <1>2. ~KeyIn(s, k)
    BY DEF KeyIn, SameKey
  <1>3. CASE k \in knotes /\ ~Overruled(change_list, k, 1)
    <2>1. k \in knotes'
      BY <1>3 DEF Pushes
    <2>2. 1 \in 1 .. Len(change_list) + 1
      BY <1>1
    <2>3. ~Overruled(change_list', k, 1)
      BY <1>1, <1>2, <1>3, <2>2, OverruledByAppended
    <2> QED
      BY <2>1, <2>3 DEF Registers
  <1>4. ASSUME NEW i \in 1 .. Len(change_list), change_list[i] = Add(f, filter, u),
               ~Overruled(change_list, k, i + 1)
        PROVE  Registers(knotes', change_list', f, filter, u)
    <2>1. i + 1 \in 1 .. Len(change_list) + 1
      BY <1>1
    <2>2. ~Overruled(change_list', k, i + 1)
      BY <1>1, <1>2, <1>4, <2>1, OverruledByAppended
    <2>3. i \in 1 .. Len(change_list') /\ change_list'[i] = Add(f, filter, u)
      BY <1>1, <1>4, Appended
    <2> QED
      BY <2>2, <2>3 DEF Registers
  <1> QED
    BY <1>3, <1>4 DEF Registers

\* The last change of a list is not overruled.
LEMMA RegistersLast ==
  ASSUME NEW l \in Seq(Change), NEW r \in Seq(Change), NEW f \in Fds,
         NEW n \in Udatas, NEW K
  PROVE  Registers(K, l \o (r \o <<Add(f, "READ", n)>>), f, "READ", n)
  <1> DEFINE a == <<Add(f, "READ", n)>>
             k == [ident |-> f, filter |-> "READ", udata |-> n]
             w == l \o (r \o a)
  <1>1. a \in Seq(Change) /\ Len(a) = 1 /\ a[1] = Add(f, "READ", n)
    BY OneChange, None \in PidOrNone DEF FdOrNone, PidOrNone
  <1> HIDE DEF a
  <1>2. /\ r \o a \in Seq(Change) /\ Len(r \o a) = Len(r) + 1 /\ Len(r) \in Nat
        /\ (r \o a)[Len(r) + 1] = Add(f, "READ", n)
    <2>1. 1 \in 1 .. Len(a)
      BY <1>1
    <2>2. ASSUME NEW q \in Seq(Change), NEW j \in 1 .. Len(q)
          PROVE  /\ r \o q \in Seq(Change)
                 /\ Len(r \o q) = Len(r) + Len(q) /\ Len(r) \in Nat
                 /\ (r \o q)[Len(r) + j] = q[j]
      BY Appended
    <2> QED
      BY <1>1, <2>1, <2>2
  <1>3. /\ Len(w) = Len(l) + Len(r \o a) /\ Len(l) \in Nat
        /\ w[Len(l) + (Len(r) + 1)] = Add(f, "READ", n)
    <2>1. Len(r) + 1 \in 1 .. Len(r \o a)
      BY <1>2
    <2>2. ASSUME NEW q \in Seq(Change), NEW j \in 1 .. Len(q)
          PROVE  /\ Len(l \o q) = Len(l) + Len(q) /\ Len(l) \in Nat
                 /\ (l \o q)[Len(l) + j] = q[j]
      BY Appended
    <2> QED
      BY <1>2, <2>1, <2>2
  <1>4. /\ Len(w) \in 1 .. Len(w) /\ w[Len(w)] = Add(f, "READ", n)
        /\ ~Overruled(w, k, Len(w) + 1)
    BY <1>2, <1>3 DEF Overruled
  <1> QED
    BY <1>1, <1>4 DEF Registers, a

LEMMA HeardKept ==
  ASSUME TypeOK, Heard, NEW s, NEW X, Pushes(s, X), Hears(s, X)
  PROVE  Heard'
  <1> SUFFICES ASSUME NEW f \in Fds, Is(f, "sock")', f \notin m_fd_set'
               PROVE  \E u \in Udatas : /\ Reads(u, f)'
                                        /\ Registers(knotes', change_list', f, "READ", u)
    BY DEF Heard
  <1>1. CASE /\ Is(f, "sock") /\ f \notin m_fd_set /\ f \notin X
             /\ ~KeyIn(s, [ident |-> f, filter |-> "READ"])
             /\ \A u \in Udatas : Reads(u, f) => Reads(u, f)'
    BY <1>1, RegistersStays DEF Heard
  <1>2. ASSUME NEW n \in Udatas, NEW r \in Seq(Change), Reads(n, f)',
               s = r \o <<Add(f, "READ", n)>>
        PROVE  Registers(knotes', change_list', f, "READ", n)
    BY <1>2, RegistersLast DEF TypeOK, Pushes
  <1> QED
    BY <1>1, <1>2 DEF Hears

(***************************************************************************)
(* The batch while e is handled.                                           *)
(***************************************************************************)
\* Nobody stops waiting for a filter, but for the one e is about.
WaitsBut(e) ==
  \A v, id, filter : Mine(heap, v, id, filter) =>
    \/ Mine(heap', v, id, filter)
    \/ filter = "TIMER"
    \/ id = e.ident /\ filter = e.filter

\* A descriptor is closed, opened, or what it was.
EntriesKept ==
  \A f \in Fds : SameEntry(fdt[f], fdt'[f]) \/ f \in FreeFds \/ f \in FreeFds'

\* The changes s are for sockets and new descriptors.
ChangesApart(s) ==
  \A j \in 1 .. Len(s) : About(s[j], Fds) =>
    fdt'[s[j].ident].kind = "sock" \/ s[j].ident \in FreeFds

\* Only the handler of e takes what makes e ready.
ConnsReady(e) ==
  \A f \in Fds : LET o == fdt[f].of IN fdt[f].kind = "sock" =>
    /\ conn[o].st \in {"fin", "reset"} => conn'[o].st \in {"fin", "reset"}
    /\ conn[o].st = "reset" => conn'[o].st = "reset"
    /\ \/ conn[o].rcvd < conn[o].sent => conn'[o].rcvd < conn'[o].sent
       \/ f = e.ident /\ e.filter = "READ"
    /\ ~conn[o].full => ~conn'[o].full \/ (f = e.ident /\ e.filter = "WRITE")

ProcsReady(e) ==
  \A f \in Fds, p \in Pids : fdt[f].of = p =>
    /\ fdt[f].kind \in {"piper", "pipew"} /\ ~Alive(p) => ~Alive(p)'
    /\ fdt[f].kind = "piper" /\ (proc[p].out = "ready" \/ StdoutEnded(p)) =>
         \/ proc'[p].out = "ready" \/ StdoutEnded(p)'
         \/ f = e.ident /\ e.filter = "READ"
    /\ fdt[f].kind = "pipew" /\ ~proc[p].full =>
         ~proc'[p].full \/ (f = e.ident /\ e.filter = "WRITE")

LEMMA BatchMine ==
  ASSUME TypeOK, BatchProper, NEW d \in Batch
  PROVE  /\ d \in Event /\ d.filter # "TIMER"
         /\ d.ident \in Fds => Mine(heap, d.udata, d.ident, d.filter)
  <1>1. d \in Event \cup {NoEvent} /\ d.filter # "TIMER" /\ Proper(heap, d)
    BY DEF TypeOK, Batch, BatchProper
  <1>2. d \in Event
    BY <1>1 DEF NoEvent
  <1> QED
    BY <1>1, <1>2, Positive DEF Event, Proper, ServerUdata, ListenFd

LEMMA BatchKeeps ==
  ASSUME TypeOK, Objects, BatchKept, TypeOK', Objects',
         NEW e, Batch' \subseteq Batch, \A d \in Batch' : ~SameKey(d, e),
         NEW s \in Seq(Change), change_list' = change_list \o s,
         WaitsBut(e), EntriesKept, ChangesApart(s), ConnsReady(e), ProcsReady(e)
  PROVE  BatchKept'
  <1>1. ASSUME NEW d \in Batch'
        PROVE  /\ d \in Batch /\ d.filter # "TIMER" /\ ~SameKey(d, e)
               /\ Mine(heap, d.udata, d.ident, d.filter)
                     => Mine(heap', d.udata, d.ident, d.filter)
               /\ Proper(heap, d) /\ Proper(heap', d)
    <2>1. d \in Batch /\ Proper(heap, d) /\ d.filter # "TIMER" /\ ~SameKey(d, e)
      BY DEF BatchKept, BatchProper
    <2>2. Mine(heap, d.udata, d.ident, d.filter)
            => Mine(heap', d.udata, d.ident, d.filter)
      BY <2>1 DEF WaitsBut, SameKey
    <2> QED
      BY <2>1, <2>2 DEF Proper
  <1>2. BatchProper'
    BY <1>1 DEF BatchKept, BatchProper
  <1>3. ASSUME NEW d \in Batch', d.ident \in Fds
        PROVE  /\ d.ident \notin FreeFds /\ SameEntry(fdt[d.ident], fdt'[d.ident])
               /\ \/ fdt[d.ident].kind = "sock"
                  \/ fdt[d.ident].kind = "piper" /\ d.filter = "READ"
                  \/ fdt[d.ident].kind = "pipew" /\ d.filter = "WRITE"
                  \/ fdt[d.ident].kind \in {"rfile", "wfile"}
    <2>1. d.filter # "TIMER" /\ Mine(heap, d.udata, d.ident, d.filter)
      BY <1>1, <1>3, BatchMine DEF BatchKept
    <2>2. d.ident \notin FreeFds'
      BY <1>1, <2>1, MineOpenPrime DEF FiltersOpen
    <2>3. /\ d.ident \notin FreeFds
          /\ \/ fdt[d.ident].kind = "sock"
             \/ fdt[d.ident].kind = "piper" /\ d.filter = "READ"
             \/ fdt[d.ident].kind = "pipew" /\ d.filter = "WRITE"
             \/ fdt[d.ident].kind \in {"rfile", "wfile"}
      BY <2>1, MineOpen
    <2> QED
      BY <1>3, <2>2, <2>3 DEF EntriesKept
  <1>4. ASSUME NEW d \in Batch', d.ident \in Fds, ~Is(d.ident, "sock")',
               NEW i \in 1 .. Len(change_list')
        PROVE  ~About(change_list'[i], {d.ident})
    <2>1. ~Is(d.ident, "sock") /\ fdt'[d.ident].kind # "sock"
      BY <1>3, <1>4 DEF Is, SameEntry
    <2>2. CASE i \in 1 .. Len(change_list)
      <3>1. change_list'[i] = change_list[i]
        BY <2>2, Appended DEF TypeOK
      <3> QED
        BY <1>1, <1>4, <2>1, <2>2, <3>1 DEF BatchKept, BatchFirst
    <2>3. ASSUME NEW j \in 1 .. Len(s), i = Len(change_list) + j
          PROVE  ~About(change_list'[i], {d.ident})
      <3>1. change_list'[i] = s[j]
        BY <2>3, Appended DEF TypeOK
      <3> QED
        BY <1>3, <1>4, <2>1, <3>1 DEF ChangesApart, About
    <2>4. /\ change_list \in Seq(Change)
          /\ i \in 1 .. Len(change_list \o s)
      BY <1>4 DEF TypeOK
    <2>5. i \in 1 .. Len(change_list) \/ \E j \in 1 .. Len(s) : i = Len(change_list) + j
      BY <2>4, Appended
    <2> QED
      BY <2>2, <2>3, <2>5
  <1>5. BatchFirst'
    BY <1>4 DEF BatchFirst
  <1>6. ASSUME NEW d \in Batch'
        PROVE  StillReady(d)'
    <2> DEFINE f == d.ident
               o == fdt[f].of
    <2>0. StillReady(d) /\ ~SameKey(d, e)
      BY <1>1 DEF BatchKept, BatchReady
    <2>1. CASE f \notin Fds
      BY <2>1 DEF StillReady, Is
    <2>2. CASE f \in Fds /\ fdt[f].kind = "sock"
      <3>1. fdt'[f] = fdt[f]
        BY <1>3, <2>2 DEF SameEntry
      <3>2. /\ d.filter = "READ" =>
                 IF d.eof THEN conn[o].st \in {"fin", "reset"}
                          ELSE conn[o].rcvd < conn[o].sent
            /\ d.filter = "WRITE" =>
                 IF d.eof THEN conn[o].st = "reset" ELSE ~conn[o].full
        BY <2>0, <2>2 DEF StillReady, Is
      <3>3. /\ d.filter = "READ" =>
                 IF d.eof THEN conn'[o].st \in {"fin", "reset"}
                          ELSE conn'[o].rcvd < conn'[o].sent
            /\ d.filter = "WRITE" =>
                 IF d.eof THEN conn'[o].st = "reset" ELSE ~conn'[o].full
        BY <2>0, <2>2, <3>2 DEF ConnsReady, SameKey
      <3> QED
        BY <2>2, <3>1, <3>3 DEF StillReady, Is
    <2>3. CASE f \in Fds /\ fdt[f].kind = "piper"
      <3>1. fdt'[f] = fdt[f] /\ d.filter = "READ"
        BY <1>3, <2>3 DEF SameEntry
      <3>2. proc[o].out = "ready" \/ StdoutEnded(o)
        BY <2>0, <2>3 DEF StillReady, Is
      <3>3. proc'[o].out = "ready" \/ StdoutEnded(o)'
        <4>1. o \in Pids
          BY <2>3 DEF TypeOK, FdEntry
        <4> QED
          BY <2>0, <2>3, <3>1, <3>2, <4>1 DEF ProcsReady, SameKey, StdoutEnded, Alive
      <3> QED
        BY <2>3, <3>1, <3>3 DEF StillReady, Is, StdoutEnded, Alive
    <2>4. CASE f \in Fds /\ fdt[f].kind = "pipew"
      <3>1. fdt'[f] = fdt[f] /\ d.filter = "WRITE"
        BY <1>3, <2>4 DEF SameEntry
      <3>2. IF d.eof THEN ~Alive(o) ELSE ~proc[o].full \/ ~Alive(o)
        BY <2>0, <2>4 DEF StillReady, Is
      <3>3. IF d.eof THEN ~Alive(o)' ELSE ~proc'[o].full \/ ~Alive(o)'
        <4>1. o \in Pids
          BY <2>4 DEF TypeOK, FdEntry
        <4> QED
          BY <2>0, <2>4, <3>1, <3>2, <4>1 DEF ProcsReady, SameKey, Alive
      <3> QED
        BY <2>4, <3>1, <3>3 DEF StillReady, Is, Alive
    <2>5. CASE f \in Fds /\ fdt[f].kind \in {"rfile", "wfile"}
      <3>1. fdt'[f].kind \in {"rfile", "wfile"}
        BY <1>3, <2>5 DEF SameEntry
      <3> QED
        BY <3>1 DEF StillReady, Is
    <2> QED
      BY <1>3, <2>1, <2>2, <2>3, <2>4, <2>5
  <1> QED
    BY <1>2, <1>5, <1>6 DEF BatchKept, BatchReady

(***************************************************************************)
(* What the handlers push.                                                 *)
(***************************************************************************)
ChangesOf(s) == {s[j] : j \in 1 .. Len(s)}

LEMMA ChangesOfNone ==
  <<>> \in Seq(Change) /\ ChangesOf(<<>>) = {}
  BY DEF ChangesOf

LEMMA ChangesOfOne ==
  ASSUME NEW a \in Change
  PROVE  <<a>> \in Seq(Change) /\ ChangesOf(<<a>>) = {a}
  BY DEF ChangesOf

LEMMA ChangesOfTwo ==
  ASSUME NEW a \in Change, NEW b \in Change
  PROVE  <<a, b>> \in Seq(Change) /\ ChangesOf(<<a, b>>) = {a, b}
  BY DEF ChangesOf

LEMMA ChangesOfBoth ==
  ASSUME NEW l \in Seq(Change), NEW s \in Seq(Change)
  PROVE  ChangesOf(l \o s) = ChangesOf(l) \cup ChangesOf(s)
  <1>1. ASSUME NEW x \in ChangesOf(l \o s)
        PROVE  x \in ChangesOf(l) \cup ChangesOf(s)
    <2>1. PICK j \in 1 .. Len(l \o s) : x = (l \o s)[j]
      BY <1>1 DEF ChangesOf
    <2>2. CASE j <= Len(l)
      <3>1. j \in 1 .. Len(l) /\ x = l[j]
        BY <2>1, <2>2, Appended
      <3> QED
        BY <3>1 DEF ChangesOf
    <2>3. CASE ~(j <= Len(l))
      <3>1. j - Len(l) \in 1 .. Len(s) /\ x = s[j - Len(l)]
        BY <2>1, <2>3, Appended
      <3> QED
        BY <3>1 DEF ChangesOf
    <2> QED
      BY <2>2, <2>3
  <1>2. ASSUME NEW x \in ChangesOf(l)
        PROVE  x \in ChangesOf(l \o s)
    BY Appended DEF ChangesOf
  <1>3. ASSUME NEW x \in ChangesOf(s)
        PROVE  x \in ChangesOf(l \o s)
    <2>1. PICK j \in 1 .. Len(s) : x = s[j]
      BY DEF ChangesOf
    <2>2. Len(l) + j \in 1 .. Len(l \o s) /\ (l \o s)[Len(l) + j] = x
      BY <2>1, Appended
    <2> QED
      BY <2>2 DEF ChangesOf
  <1> QED
    BY <1>1, <1>2, <1>3

LEMMA KeyInChanges ==
  ASSUME NEW s, NEW x
  PROVE  KeyIn(s, x) <=> \E c \in ChangesOf(s) : SameKey(c, x)
  BY DEF KeyIn, ChangesOf

\* The changes a handler pushes are good when their set C is.
LEMMA PushesOf ==
  ASSUME NEW s \in Seq(Change), NEW X, change_list' = change_list \o s,
         knotes' = {k \in knotes : k.filter = "TIMER" \/ k.ident \notin X},
         X \subseteq FreeFds', FreeFds' \subseteq FreeFds \cup X,
         m_fd_set \subseteq m_fd_set' \cup X,
         MayOpen \/ FreeFds \subseteq FreeFds', MayOpen' => MayOpen,
         Dropped(s, X),
         \A c \in ChangesOf(s) : c.op = "ADD" => Proper(heap', c),
         MayOpen' => \A c \in ChangesOf(s) : ~About(c, FreeFds'),
         MayOpen' => \A i \in 1 .. Len(change_list) : ~About(change_list[i], X)
  PROVE  Pushes(s, X)
  BY DEF Pushes, ChangesOf

LEMMA ChangesApartOf ==
  ASSUME NEW s,
         \A c \in ChangesOf(s) : About(c, Fds) =>
           fdt'[c.ident].kind = "sock" \/ c.ident \in FreeFds
  PROVE  ChangesApart(s)
  BY DEF ChangesApart, ChangesOf

\* u stops waiting for filters about which s decides, or that are closed or torn
\* down; of those of files, pipes and sockets only the one e is about.
LEMMA OthersWait ==
  ASSUME NEW u \in Udatas, NEW s, NEW X, NEW e,
         \A v \in Udatas \ {u} : heap'[v] = heap[v] \/ Begins(v),
         \A id, filter : Mine(heap, u, id, filter) =>
           \/ Mine(heap', u, id, filter)
           \/ /\ \/ KeyIn(s, [ident |-> id, filter |-> filter])
                 \/ filter # "TIMER" /\ id \in m_fd_set' \cup X
              /\ filter = "TIMER" \/ (id = e.ident /\ filter = e.filter)
  PROVE  Dropped(s, X) /\ WaitsBut(e)
  <1>1. ASSUME NEW v, NEW id, NEW filter, Mine(heap, v, id, filter), v # u
        PROVE  Mine(heap', v, id, filter)
    <2>1. v \in Udatas \ {u} /\ heap[v].st = "live"
      BY <1>1 DEF Mine
    <2>2. heap'[v] = heap[v]
      BY <2>1 DEF Begins
    <2> QED
      BY <1>1, <2>2 DEF Mine
  <1>2. Dropped(s, X)
    BY <1>1 DEF Dropped
  <1>3. WaitsBut(e)
    BY <1>1 DEF WaitsBut
  <1> QED
    BY <1>2, <1>3

\* What a handler's step that pushes s, closes X and handles e keeps.
Carries(s, X, e) ==
  /\ Pushes(s, X) /\ Hears(s, X)
  /\ WaitsBut(e) /\ EntriesKept /\ ChangesApart(s)

\* Handlers still run, or the batch is done and nothing is opened any more.
GoesOn == event_list' \subseteq event_list /\ pc' # "accept"

LEMMA AnswersCarries ==
  ASSUME TypeOK, Accounts, GoesOn, NEW u, NEW X, NEW s, Answers(u, X, s),
         NEW e \in Batch, e.udata = u, X = {e.ident}, e.ident \in Fds,
         NEW D, D \in {{}, {Delete(heap[u].m_child_pid, "TIMER")}},
         heap[u].m_child_pid # None => D # {},
         ChangesOf(s) = {Add(heap[u].m_client_sock, "WRITE", u)} \cup D
  PROVE  Carries(s, X, e)
  <1> DEFINE sock == heap[u].m_client_sock
             a == Add(sock, "WRITE", u)
  <1>1. u \in LiveUdatas /\ u \in Udatas /\ LiveRecord(heap[u]) /\ Owns(u)
        /\ InShape(heap[u])
    BY LiveObject, ObjectsParts DEF Answers, Accounts, Objects
  <1>2. sock \in Fds /\ fdt[sock].kind = "sock"
    BY <1>1, SocketsOwned
  <1>3. Mine(heap, u, e.ident, e.filter) /\ e.filter # "TIMER"
    BY BatchMine DEF Accounts, BatchKept
  <1>4. /\ e.ident \in Private(heap[u]) /\ fdt[e.ident].kind # "sock"
        /\ e.ident \notin FreeFds
    <2>1. e.ident \in Private(heap[u])
      BY DEF Answers
    <2> QED
      BY <1>1, <2>1, PrivateKind DEF FreeFds
  <1>5. \A f \in Fds : fdt'[f] = IF f \in X THEN FreeEntry ELSE fdt[f]
    BY DEF Answers
  <1>6. /\ X \subseteq FreeFds' /\ FreeFds' \subseteq FreeFds \cup X
        /\ FreeFds \subseteq FreeFds' /\ EntriesKept
    BY <1>5, FreeEntryKind DEF FreeFds, EntriesKept, SameEntry
  <1>7. fdt'[sock].kind = "sock" /\ sock \notin FreeFds'
    BY <1>2, <1>4, <1>5 DEF FreeFds
  <1>0. \/ FileShape(heap[u]) /\ heap[u].m_type = "STATIC_FILE"
        \/ PipeShape(heap[u]) /\ heap[u].m_type = "PIPE"
    BY <1>1 DEF InShape, ClientShape, FileShape, PipeShape, Answers
  <1>8. ASSUME NEW id, NEW filter, Mine(heap, u, id, filter)
        PROVE  /\ \/ KeyIn(s, [ident |-> id, filter |-> filter])
                  \/ filter # "TIMER" /\ id \in m_fd_set' \cup X
               /\ filter = "TIMER" \/ (id = e.ident /\ filter = e.filter)
    <2>1. CASE filter = "TIMER"
      <3>1. id = heap[u].m_child_pid /\ id # None
        BY <1>0, <1>8, <2>1 DEF Mine, Filters
      <3>2. Delete(id, "TIMER") \in ChangesOf(s)
        BY <3>1
      <3>3. SameKey(Delete(id, "TIMER"), [ident |-> id, filter |-> filter])
        BY <2>1 DEF SameKey, Delete
      <3> QED
        BY <2>1, <3>2, <3>3, KeyInChanges
    <2>2. CASE filter # "TIMER"
      <3>1. id \in X /\ id = e.ident
        <4>1. id \in Private(heap[u])
          BY <1>0, <1>8, <2>2 DEF Mine, Filters, Private
        <4> QED
          BY <4>1 DEF Answers
      <3>2. filter = e.filter
        BY <1>3, <1>4, <1>8, <2>2, <3>1, MineOpen DEF Accounts
      <3> QED
        BY <2>2, <3>1, <3>2
    <2> QED
      BY <2>1, <2>2
  <1>9. \A v \in Udatas \ {u} : heap'[v] = heap[v] \/ Begins(v)
    BY DEF Answers
  <1>10. Dropped(s, X) /\ WaitsBut(e)
    BY <1>1, <1>8, <1>9, OthersWait
  <1>11. \A c \in ChangesOf(s) : \/ c.op = "DELETE" /\ c.filter = "TIMER"
                                 \/ c = a
    BY DEF Delete
  <1>12. a.ident = sock /\ a.filter = "WRITE" /\ a.udata = u
    BY DEF Add
  <1>13. Proper(heap', a)
    <2>1. heap'[u].st = "live" /\ heap'[u].m_type = "CLIENT"
          /\ heap'[u].m_client_sock = sock /\ heap'[u].req # 0
      BY DEF Answers, ClientShape, SameRequest
    <2>2. Filters(heap'[u]) = {<<sock, "WRITE">>}
      BY <2>1 DEF Filters
    <2>3. sock # None
      BY <1>2, Positive
    <2> QED
      BY <1>1, <1>12, <2>1, <2>2, <2>3 DEF Proper, Mine
  <1>14. MayOpen' => MayOpen
    BY DEF MayOpen, GoesOn
  <1>15. \A i \in 1 .. Len(change_list) : ~About(change_list[i], X)
    BY <1>4 DEF Accounts, BatchKept, BatchFirst, Is
  <1>16. Pushes(s, X)
    <2>1. \A c \in ChangesOf(s) : c.op = "ADD" => Proper(heap', c)
      BY <1>11, <1>13
    <2>2. \A c \in ChangesOf(s) : ~About(c, FreeFds')
      BY <1>7, <1>11, <1>12 DEF About
    <2>3. /\ s \in Seq(Change) /\ change_list' = change_list \o s
          /\ knotes' = {k \in knotes : k.filter = "TIMER" \/ k.ident \notin X}
          /\ m_fd_set' = m_fd_set
      BY DEF Answers
    <2> QED
      BY <1>6, <1>10, <1>14, <1>15, <2>1, <2>2, <2>3, PushesOf
  <1>17. ChangesApart(s)
    BY <1>7, <1>11, <1>12, ChangesApartOf DEF About
  <1>18. Hears(s, X)
    <2> SUFFICES ASSUME NEW f \in Fds, Is(f, "sock")', f \notin m_fd_set'
                 PROVE  /\ Is(f, "sock") /\ f \notin m_fd_set /\ f \notin X
                        /\ ~KeyIn(s, [ident |-> f, filter |-> "READ"])
                        /\ \A v \in Udatas : Reads(v, f) => Reads(v, f)'
      BY DEF Hears
    <2>1. Is(f, "sock") /\ f \notin X /\ f \notin m_fd_set
      BY <1>5, FreeEntryKind DEF Is, Answers
    <2>2. ~KeyIn(s, [ident |-> f, filter |-> "READ"])
      BY <1>11, <1>12, KeyInChanges DEF SameKey
    <2>3. ASSUME NEW v \in Udatas, Reads(v, f)
          PROVE  Reads(v, f)'
      BY <2>3 DEF Reads, Answers, LiveUdatas
    <2> QED
      BY <2>1, <2>2, <2>3
  <1> QED
    BY <1>6, <1>10, <1>16, <1>17, <1>18 DEF Carries

\* A step that leaves objects, descriptors, filters and changes alone.
LEMMA QuietCarries ==
  ASSUME TypeOK, Quiet, UNCHANGED <<change_list, knotes>>, MayOpen' => MayOpen,
         m_fd_set \subseteq m_fd_set', NEW e
  PROVE  Carries(<<>>, {}, e)
  <1>1. /\ <<>> \in Seq(Change) /\ ChangesOf(<<>>) = {}
        /\ change_list' = change_list \o <<>>
    BY ChangesOfNone, ConcatEmptySeq DEF TypeOK
  <1>2. FreeFds' = FreeFds /\ EntriesKept
    BY DEF Quiet, FreeFds, EntriesKept, SameEntry
  <1>3. ASSUME NEW v, NEW id, NEW filter, Mine(heap, v, id, filter)
        PROVE  Mine(heap', v, id, filter)
    <2>1. SameObject(heap[v], heap'[v]) /\ heap[v].st = "live"
      BY <1>3 DEF Mine, Quiet
    <2> QED
      BY <1>3, <2>1 DEF Mine, Filters, SameObject
  <1>4. Dropped(<<>>, {}) /\ WaitsBut(e)
    BY <1>3 DEF Dropped, WaitsBut
  <1>5. Pushes(<<>>, {})
    <2>1. knotes' = {k \in knotes : k.filter = "TIMER" \/ k.ident \notin {}}
      OBVIOUS
    <2>2. \A i \in 1 .. Len(change_list) : ~About(change_list[i], {})
      BY DEF About
    <2> QED
      BY <1>1, <1>2, <1>4, <2>1, <2>2, PushesOf
  <1>6. ChangesApart(<<>>)
    BY <1>1, ChangesApartOf
  <1>7. Hears(<<>>, {})
    <2> SUFFICES ASSUME NEW f \in Fds, Is(f, "sock")', f \notin m_fd_set'
                 PROVE  /\ Is(f, "sock") /\ f \notin m_fd_set /\ f \notin {}
                        /\ ~KeyIn(<<>>, [ident |-> f, filter |-> "READ"])
                        /\ \A v \in Udatas : Reads(v, f) => Reads(v, f)'
      BY DEF Hears
    <2>1. Is(f, "sock")
      BY DEF Quiet, SameEntry, Is
    <2>2. ~KeyIn(<<>>, [ident |-> f, filter |-> "READ"])
      BY <1>1, KeyInChanges
    <2>3. ASSUME NEW v \in Udatas, Reads(v, f)
          PROVE  Reads(v, f)'
      <3>1. SameObject(heap[v], heap'[v])
        BY DEF Quiet
      <3> QED
        BY <2>3, <3>1 DEF Reads, LiveUdatas, SameObject
    <2> QED
      BY <2>1, <2>2, <2>3
  <1> QED
    BY <1>2, <1>4, <1>5, <1>6, <1>7 DEF Carries

\* The client of socket e.ident is given up.
LEMMA EofCarries ==
  ASSUME TypeOK, MayOpen' => MayOpen, NEW e, e.ident \in Fds,
         fdt[e.ident].kind = "sock", ClientReadEof(e), UNCHANGED knotes
  PROVE  Carries(<<Delete(e.ident, "READ")>>, {}, e)
  <1> DEFINE a == Delete(e.ident, "READ")
             s == <<a>>
  <1>1. a \in Change /\ a.op = "DELETE" /\ a.ident = e.ident /\ a.filter = "READ"
    BY DEF Delete, Change, FdOrNone
  <1>2. /\ heap' = heap /\ fdt' = fdt /\ m_fd_set' = m_fd_set \cup {e.ident}
        /\ change_list' = change_list \o s
    BY DEF ClientReadEof, Push
  <1> HIDE DEF a
  <1>3. s \in Seq(Change) /\ ChangesOf(s) = {a}
    BY <1>1, ChangesOfOne
  <1> HIDE DEF s
  <1>4. FreeFds' = FreeFds /\ EntriesKept /\ e.ident \notin FreeFds
    BY <1>2 DEF FreeFds, EntriesKept, SameEntry
  <1>5. Dropped(s, {}) /\ WaitsBut(e)
    BY <1>2 DEF Dropped, WaitsBut
  <1>6. Pushes(s, {})
    <2>1. knotes' = {k \in knotes : k.filter = "TIMER" \/ k.ident \notin {}}
      OBVIOUS
    <2>2. \A i \in 1 .. Len(change_list) : ~About(change_list[i], {})
      BY DEF About
    <2>3. \A c \in ChangesOf(s) : c.op # "ADD" /\ ~About(c, FreeFds')
      BY <1>1, <1>3, <1>4 DEF About
    <2> QED
      BY <1>2, <1>3, <1>4, <1>5, <2>1, <2>2, <2>3, PushesOf
  <1>7. ChangesApart(s)
    BY <1>1, <1>2, <1>3, ChangesApartOf
  <1>8. Hears(s, {})
    <2> SUFFICES ASSUME NEW f \in Fds, Is(f, "sock")', f \notin m_fd_set'
                 PROVE  /\ Is(f, "sock") /\ f \notin m_fd_set /\ f \notin {}
                        /\ ~KeyIn(s, [ident |-> f, filter |-> "READ"])
                        /\ \A v \in Udatas : Reads(v, f) => Reads(v, f)'
      BY DEF Hears
    <2>1. ~KeyIn(s, [ident |-> f, filter |-> "READ"])
      BY <1>1, <1>2, <1>3, KeyInChanges DEF SameKey
    <2> QED
      BY <1>2, <2>1 DEF Is, Reads, LiveUdatas
  <1> QED
    BY <1>4, <1>5, <1>6, <1>7, <1>8 DEF Carries, s, a

\* An object is deleted; nobody waits for what it waited for.
LEMMA FreesPushes ==
  ASSUME TypeOK, Accounts, GoesOn, NEW u, NEW s, Frees(u, s),
         \A c \in ChangesOf(s) : c.op = "DELETE" /\ c.filter # "READ",
         MayOpen' => /\ Private(heap[u]) = {}
                     /\ \A c \in ChangesOf(s) : ~About(c, FreeFds'),
         heap[u].req # 0 \/ heap[u].m_client_sock \in m_fd_set,
         \A id, filter : Mine(heap, u, id, filter) =>
           \/ KeyIn(s, [ident |-> id, filter |-> filter])
           \/ filter # "TIMER" /\ id \in m_fd_set \cup Private(heap[u])
  PROVE  Pushes(s, Private(heap[u])) /\ Hears(s, Private(heap[u])) /\ EntriesKept
  <1> DEFINE X == Private(heap[u])
  <1>1. /\ u \in LiveUdatas /\ u \in Udatas
        /\ heap'[u].st = "freed" /\ \A v \in Udatas \ {u} : heap'[v] = heap[v]
        /\ s \in Seq(Change) /\ change_list' = change_list \o s
        /\ knotes' = {k \in knotes : k.filter = "TIMER" \/ k.ident \notin X}
        /\ m_fd_set' = m_fd_set
        /\ \A f \in Fds : fdt'[f] = IF f \in X THEN FreeEntry ELSE fdt[f]
    BY LiveObject DEF Frees
  <1>2. X \subseteq Fds
    BY <1>1, LiveObject, ObjectsParts, PrivateKind DEF Accounts, Objects
  <1> HIDE DEF X
  <1>3. /\ X \subseteq FreeFds' /\ FreeFds' \subseteq FreeFds \cup X
        /\ FreeFds \subseteq FreeFds' /\ EntriesKept
    BY <1>1, <1>2, FreeEntryKind DEF FreeFds, EntriesKept, SameEntry
  <1>4. Dropped(s, X)
    <2> SUFFICES ASSUME NEW v, NEW id, NEW filter, Mine(heap, v, id, filter)
                 PROVE  \/ Mine(heap', v, id, filter)
                        \/ KeyIn(s, [ident |-> id, filter |-> filter])
                        \/ filter # "TIMER" /\ id \in m_fd_set' \cup X
      BY DEF Dropped
    <2>1. CASE v = u
      BY <1>1, <2>1 DEF X
    <2>2. CASE v # u
      BY <1>1, <2>2 DEF Mine
    <2> QED
      BY <2>1, <2>2
  <1>5. Pushes(s, X)
    <2>1. MayOpen' => MayOpen
      BY DEF MayOpen, GoesOn
    <2>2. MayOpen' => \A i \in 1 .. Len(change_list) : ~About(change_list[i], X)
      BY DEF About, X
    <2>3. \A c \in ChangesOf(s) : c.op = "ADD" => Proper(heap', c)
      OBVIOUS
    <2> QED
      BY <1>1, <1>3, <1>4, <2>1, <2>2, <2>3, PushesOf
  <1>6. Hears(s, X)
    <2> SUFFICES ASSUME NEW f \in Fds, Is(f, "sock")', f \notin m_fd_set'
                 PROVE  /\ Is(f, "sock") /\ f \notin m_fd_set /\ f \notin X
                        /\ ~KeyIn(s, [ident |-> f, filter |-> "READ"])
                        /\ \A v \in Udatas : Reads(v, f) => Reads(v, f)'
      BY DEF Hears
    <2>1. Is(f, "sock") /\ f \notin X /\ f \notin m_fd_set
      BY <1>1, FreeEntryKind DEF Is
    <2>2. ~KeyIn(s, [ident |-> f, filter |-> "READ"])
      BY KeyInChanges DEF SameKey
    <2>3. ASSUME NEW v \in Udatas, Reads(v, f)
          PROVE  Reads(v, f)'
      <3>1. v # u
        BY <2>1, <2>3 DEF Reads
      <3> QED
        BY <1>1, <2>3, <3>1 DEF Reads, LiveUdatas
    <2> QED
      BY <2>1, <2>2, <2>3
  <1> QED
    BY <1>3, <1>5, <1>6 DEF X

\* A writer that is done.
LEMMA WrittenCarries ==
  ASSUME TypeOK, Accounts, GoesOn, NEW u, NEW e,
         e.ident = heap[u].m_client_sock, e.filter = "WRITE",
         Frees(u, <<Delete(e.ident, "WRITE")>>),
         ClientShape(heap[u]), heap[u].req # 0
  PROVE  Carries(<<Delete(e.ident, "WRITE")>>, {}, e)
  <1> DEFINE a == Delete(e.ident, "WRITE")
             s == <<a>>
  <1>1. /\ u \in LiveUdatas /\ u \in Udatas /\ LiveRecord(heap[u]) /\ Owns(u)
        /\ Private(heap[u]) = {}
    BY LiveObject, ObjectsParts, PrivateOfReader DEF Frees, Accounts, Objects
  <1>2. e.ident \in Fds /\ fdt[e.ident].kind = "sock"
    BY <1>1, SocketsOwned
  <1>3. a \in Change /\ a.op = "DELETE" /\ a.ident = e.ident /\ a.filter = "WRITE"
    BY <1>2 DEF Delete, Change, FdOrNone
  <1>4. Frees(u, s)
    OBVIOUS
  <1> HIDE DEF a
  <1>5. s \in Seq(Change) /\ ChangesOf(s) = {a}
    BY <1>3, ChangesOfOne
  <1> HIDE DEF s
  <1>6. fdt'[e.ident].kind = "sock"
    BY <1>1, <1>2, <1>4 DEF Frees
  <1>7. ASSUME NEW id, NEW filter, Mine(heap, u, id, filter)
        PROVE  /\ KeyIn(s, [ident |-> id, filter |-> filter])
               /\ id = e.ident /\ filter = e.filter
    <2>1. id = e.ident /\ filter = "WRITE"
      BY <1>7 DEF Mine, Filters, ClientShape
    <2> QED
      BY <1>3, <1>5, <2>1, KeyInChanges DEF SameKey
  <1>8. Pushes(s, {}) /\ Hears(s, {}) /\ EntriesKept
    <2>1. \A c \in ChangesOf(s) : c.op = "DELETE" /\ c.filter # "READ"
      BY <1>3, <1>5
    <2>2. \A c \in ChangesOf(s) : ~About(c, FreeFds')
      BY <1>3, <1>5, <1>6 DEF About, FreeFds
    <2> QED
      BY <1>1, <1>4, <1>7, <2>1, <2>2, FreesPushes
  <1>9. WaitsBut(e)
    <2>1. \A v \in Udatas \ {u} : heap'[v] = heap[v] \/ Begins(v)
      BY DEF Frees
    <2> QED
      BY <1>1, <1>7, <2>1, OthersWait
  <1>10. ChangesApart(s)
    BY <1>3, <1>5, <1>6, ChangesApartOf
  <1> QED
    BY <1>8, <1>9, <1>10 DEF Carries, s, a

\* What serving a request pushes is for the descriptors it opened, its child,
\* and the client's socket.
LEMMA ServedChanges ==
  ASSUME TypeOK, Accounts, NEW u, NEW n \in Udatas, NEW s, Serves(u, n, s)
  PROVE  \A c \in ChangesOf(s) :
           /\ Proper(heap', c)
           /\ \/ c.filter = "TIMER"
              \/ c.ident = heap[u].m_client_sock /\ c.filter = "WRITE"
              \/ /\ c.ident \in FreeFds /\ c.ident \notin FreeFds'
                 /\ fdt'[c.ident].kind # "sock"
  <1> DEFINE r == heap'[u]
             sock == heap[u].m_client_sock
  <1>1. /\ u \in Udatas /\ r.st = "live" /\ r.req # 0 /\ r.m_client_sock = sock
        /\ Served(u, sock, r, s)
        /\ sock \in Fds
    BY LiveObject DEF Serves, LiveRecord
  <1>2. CASE ServedInline(u, sock, r, s)
    <2>1. Add(sock, "WRITE", u) \in Change
      BY <1>1, ChangeTypes, None \in PidOrNone DEF FdOrNone, PidOrNone
    <2>2. ChangesOf(s) = {Add(sock, "WRITE", u)}
      BY <1>2, <2>1, ChangesOfOne DEF ServedInline
    <2>3. Filters(r) = {<<sock, "WRITE">>}
      BY <1>1, <1>2 DEF ServedInline, ClientShape, Filters
    <2> QED
      BY <1>1, <2>2, <2>3, Positive DEF Add, Proper, Mine
  <1>3. CASE ServedFile(u, r, s)
    <2>1. PICK f \in FreeFds, filter \in {"READ", "WRITE"} :
            /\ <<f, filter>> \in Filters(r) /\ s = <<Add(f, filter, u)>>
            /\ fdt'[f].kind \notin {"free", "sock"}
      <3>1. r.m_type = "STATIC_FILE"
        BY <1>3 DEF ServedFile, FileShape
      <3>2. FreeFds \subseteq Fds /\ fdt \in [Fds -> FdEntry]
        BY DEF FreeFds, TypeOK
      <3> QED
        BY <1>3, <3>1, <3>2 DEF ServedFile, Filters, FileEntry, OutFileEntry
    <2>2. f \in Fds /\ f # None /\ f \notin FreeFds'
      BY <2>1, Positive DEF FreeFds
    <2>3. Add(f, filter, u) \in Change
      BY <1>1, <2>2, ChangeTypes, None \in PidOrNone DEF FdOrNone, PidOrNone
    <2>4. ChangesOf(s) = {Add(f, filter, u)}
      BY <2>1, <2>3, ChangesOfOne
    <2> QED
      BY <1>1, <2>1, <2>2, <2>4 DEF Add, Proper, Mine
  <1>4. CASE ServedCgi(u, r, s)
    <2> DEFINE p == r.m_child_pid
               rfd == r.m_read_pipe_fd
               wfd == r.m_write_pipe_fd
    <2>1. /\ r.m_type = "PIPE" /\ rfd \in FreeFds /\ wfd \in FreeFds \cup {None}
          /\ p \in Pids /\ s = CgiEvents(u, rfd, wfd, p)
          /\ FreeFds \subseteq Fds
      BY <1>4 DEF ServedCgi, PipeShape, FreeFds
    <2>2. \A f \in {rfd, wfd} \ {None} : fdt'[f].kind \in {"piper", "pipew"}
      BY <1>4, <2>1 DEF ServedCgi, PipeEntry
    <2>3. rfd # None /\ p # None
      BY <2>1, Positive DEF None
    <2>4. ASSUME NEW c \in ChangesOf(s)
          PROVE  \/ c = Add(p, "TIMER", u) \/ c = Add(rfd, "READ", u)
                 \/ wfd # None /\ c = Add(wfd, "WRITE", u)
      <3>1. /\ Add(p, "TIMER", u) \in Change /\ Add(rfd, "READ", u) \in Change
            /\ Add(wfd, "WRITE", u) \in Change
        BY <1>1, <2>1, ChangeTypes DEF FdOrNone, PidOrNone
      <3>2. CASE wfd = None
        <4>1. s = <<>> \o <<Add(rfd, "READ", u), Add(p, "TIMER", u)>>
          BY <2>1, <3>2 DEF CgiEvents
        <4> QED
          BY <2>4, <3>1, <4>1, ChangesOfBoth, ChangesOfNone, ChangesOfTwo
      <3>3. CASE wfd # None
        <4>1. s = <<Add(wfd, "WRITE", u)>> \o <<Add(rfd, "READ", u), Add(p, "TIMER", u)>>
          BY <2>1, <3>3 DEF CgiEvents
        <4>2. ASSUME NEW x \in Change, NEW y \in Change, NEW z \in Change
              PROVE  ChangesOf(<<x>> \o <<y, z>>) = {x, y, z}
          <5>1. /\ <<x>> \in Seq(Change) /\ ChangesOf(<<x>>) = {x}
                /\ <<y, z>> \in Seq(Change) /\ ChangesOf(<<y, z>>) = {y, z}
            BY ChangesOfOne, ChangesOfTwo
          <5>2. ChangesOf(<<x>> \o <<y, z>>) = ChangesOf(<<x>>) \cup ChangesOf(<<y, z>>)
            BY <5>1, ChangesOfBoth, Zenon
          <5> QED
            BY <5>1, <5>2
        <4>3. ChangesOf(s) = {Add(wfd, "WRITE", u), Add(rfd, "READ", u),
                              Add(p, "TIMER", u)}
          BY <3>1, <4>1, <4>2
        <4> QED
          BY <2>4, <3>3, <4>3
      <3> QED
        BY <3>2, <3>3
    <2>5. Filters(r) = {<<rfd, "READ">>, <<wfd, "WRITE">>, <<p, "TIMER">>}
      BY <2>1 DEF Filters
    <2>6. \A f \in {rfd, wfd} \ {None} : f \in FreeFds /\ f \notin FreeFds'
                                          /\ fdt'[f].kind # "sock"
      BY <2>1, <2>2 DEF FreeFds
    <2> QED
      BY <1>1, <2>3, <2>4, <2>5, <2>6 DEF Add, Proper, Mine
  <1> QED
    BY <1>1, <1>2, <1>3, <1>4 DEF Served

\* A request is served; its reader's filter goes to the new reader.
LEMMA ServesCarries ==
  ASSUME TypeOK, Accounts, GoesOn, NEW u, NEW n \in Udatas, NEW s, Serves(u, n, s),
         NEW e \in event_list, e.ident = heap[u].m_client_sock, e.filter = "READ"
  PROVE  Carries(s \o <<Add(heap[u].m_client_sock, "READ", n)>>, {}, e)
  <1> DEFINE sock == heap[u].m_client_sock
             a == Add(sock, "READ", n)
             w == s \o <<a>>
  <1>1. /\ u \in LiveUdatas /\ u \in Udatas /\ LiveRecord(heap[u]) /\ Owns(u)
        /\ ClientShape(heap[u]) /\ heap[u].req = 0
        /\ n # u /\ heap[n].st = "unused"
        /\ heap'[n] = NewUdata(heap[u].conn, sock)
        /\ \A v \in Udatas \ {u, n} : heap'[v] = heap[v]
        /\ s \in Seq(Change) /\ change_list' = change_list \o w
        /\ m_fd_set' = m_fd_set /\ knotes' = knotes
    BY LiveObject, ObjectsParts DEF Serves, BecomesWithReader, Accounts, Objects
  <1>2. /\ sock \in Fds /\ fdt[sock].kind = "sock" /\ sock # None
        /\ heap[u].conn \in Conns
    BY <1>1, SocketsOwned, Positive DEF LiveRecord
  <1>3. /\ Owns(n)' /\ \A f \in Fds : fdt'[f] = fdt[f] \/ f \in FreeFds
        /\ \A f \in FreeFds : fdt'[f].kind # "sock"
    BY ServesOwner
  <1>4. fdt'[sock].kind = "sock" /\ sock \notin FreeFds'
    BY <1>2, <1>3 DEF FreeFds
  <1>5. /\ heap'[n].st = "live" /\ heap'[n].m_client_sock = sock
        /\ heap'[n].req = 0 /\ ClientShape(heap'[n])
    BY <1>1, <1>2, NewReader DEF LiveRecord
  <1>6. a \in Change /\ a.ident = sock /\ a.filter = "READ" /\ a.udata = n
    BY <1>2, ChangeTypes, None \in PidOrNone DEF FdOrNone, PidOrNone, Add
  <1>7. w \in Seq(Change) /\ ChangesOf(w) = ChangesOf(s) \cup {a}
    <2>1. <<a>> \in Seq(Change) /\ ChangesOf(<<a>>) = {a}
      BY <1>6, ChangesOfOne
    <2> QED
      BY <1>1, <2>1, ChangesOfBoth, ConcatProperties
  <1>8. w = s \o <<Add(sock, "READ", n)>>
    OBVIOUS
  <1> HIDE DEF a, w
  <1>9. Proper(heap', a)
    <2>1. Filters(heap'[n]) = {<<sock, "READ">>}
      BY <1>5 DEF Filters, ClientShape
    <2> QED
      BY <1>2, <1>5, <1>6, <2>1 DEF Proper, Mine
  <1>10. ASSUME NEW c \in ChangesOf(w)
         PROVE  /\ Proper(heap', c)
                /\ \/ c.filter = "TIMER"
                   \/ c.ident = sock
                   \/ /\ c.ident \in FreeFds /\ c.ident \notin FreeFds'
                      /\ fdt'[c.ident].kind # "sock"
    <2>1. CASE c = a
      BY <1>6, <1>9, <2>1
    <2>2. CASE c \in ChangesOf(s)
      BY <2>2, ServedChanges
    <2> QED
      BY <1>7, <2>1, <2>2
  <1>11. FreeFds' \subseteq FreeFds /\ EntriesKept
    BY <1>3 DEF FreeFds, EntriesKept, SameEntry
  <1>12. Dropped(w, {}) /\ WaitsBut(e)
    <2>1. ASSUME NEW v \in Udatas \ {u}
          PROVE  heap'[v] = heap[v] \/ Begins(v)
      BY <1>1, <1>3, <1>5 DEF Begins
    <2>2. ASSUME NEW id, NEW filter, Mine(heap, u, id, filter)
          PROVE  /\ KeyIn(w, [ident |-> id, filter |-> filter])
                 /\ id = e.ident /\ filter = e.filter
      <3>1. id = sock /\ filter = "READ"
        BY <1>1, <2>2 DEF Mine, Filters, ClientShape
      <3> QED
        BY <1>6, <1>7, <3>1, KeyInChanges DEF SameKey
    <2> QED
      BY <1>1, <2>1, <2>2, OthersWait
  <1>13. Pushes(w, {})
    <2>1. knotes' = {k \in knotes : k.filter = "TIMER" \/ k.ident \notin {}}
      BY <1>1
    <2>2. MayOpen /\ \A i \in 1 .. Len(change_list) : ~About(change_list[i], {})
      BY DEF About, MayOpen
    <2>3. \A c \in ChangesOf(w) : Proper(heap', c) /\ ~About(c, FreeFds')
      BY <1>4, <1>10 DEF About
    <2> QED
      BY <1>1, <1>7, <1>11, <1>12, <2>1, <2>2, <2>3, PushesOf
  <1>14. ChangesApart(w)
    BY <1>4, <1>10, ChangesApartOf DEF About
  <1>15. Hears(w, {})
    <2> SUFFICES ASSUME NEW f \in Fds, Is(f, "sock")', f \notin m_fd_set'
                 PROVE  \/ /\ Is(f, "sock") /\ f \notin m_fd_set /\ f \notin {}
                           /\ ~KeyIn(w, [ident |-> f, filter |-> "READ"])
                           /\ \A v \in Udatas : Reads(v, f) => Reads(v, f)'
                        \/ \E m \in Udatas, r \in Seq(Change) :
                             Reads(m, f)' /\ w = r \o <<Add(f, "READ", m)>>
      BY DEF Hears
    <2>1. CASE f = sock
      <3>1. Reads(n, f)'
        BY <1>5, <2>1 DEF Reads, LiveUdatas
      <3> QED
        BY <1>1, <1>8, <2>1, <3>1
    <2>2. CASE f # sock
      <3>1. f \notin FreeFds /\ Is(f, "sock")
        BY <1>3 DEF Is
      <3>2. ~KeyIn(w, [ident |-> f, filter |-> "READ"])
        <4>1. ASSUME NEW c \in ChangesOf(w), c.ident = f, c.filter = "READ"
              PROVE  FALSE
          BY <1>10, <2>2, <3>1, <4>1
        <4> QED
          BY <4>1, KeyInChanges DEF SameKey
      <3>3. ASSUME NEW v \in Udatas, Reads(v, f)
            PROVE  Reads(v, f)'
        <4>1. v # u /\ v # n
          BY <1>1, <2>2, <3>3 DEF Reads, LiveUdatas
        <4> QED
          BY <1>1, <3>3, <4>1 DEF Reads, LiveUdatas
      <3> QED
        BY <1>1, <3>1, <3>2, <3>3
    <2> QED
      BY <2>1, <2>2
  <1> QED
    BY <1>8, <1>11, <1>12, <1>13, <1>14, <1>15 DEF Carries

LEMMA AdmitsCarries ==
  ASSUME TypeOK, Accounts, NEW c, NEW f, NEW n, Admits(c, f, n), MayOpen,
         NEW e
  PROVE  Carries(<<Add(f, "READ", n)>>, {}, e)
  <1> DEFINE a == Add(f, "READ", n)
             w == <<a>>
  <1>1. /\ c \in Conns /\ f \in FreeFds /\ f \in Fds /\ f # None
        /\ n \in Udatas /\ heap[n].st = "unused" /\ heap'[n] = NewUdata(c, f)
        /\ \A v \in Udatas \ {n} : heap'[v] = heap[v]
        /\ \A g \in Fds : fdt'[g] = IF g = f THEN SockEntry(c) ELSE fdt[g]
        /\ change_list' = change_list \o w
        /\ m_fd_set' = m_fd_set /\ knotes' = knotes
    BY Positive DEF Admits, FreeFds
  <1>2. a \in Change /\ a.ident = f /\ a.filter = "READ" /\ a.udata = n
    BY <1>1, ChangeTypes, None \in PidOrNone DEF FdOrNone, PidOrNone, Add
  <1>3. /\ heap'[n].st = "live" /\ heap'[n].m_client_sock = f
        /\ heap'[n].req = 0 /\ ClientShape(heap'[n])
    BY <1>1, NewReader DEF LiveRecord
  <1>4. <<>> \o <<Add(f, "READ", n)>> = w /\ <<>> \in Seq(Change)
    BY ChangesOfNone
  <1> HIDE DEF a
  <1>5. w \in Seq(Change) /\ ChangesOf(w) = {a}
    BY <1>2, ChangesOfOne
  <1> HIDE DEF w
  <1>6. fdt'[f].kind = "sock" /\ f \notin FreeFds'
    BY <1>1 DEF SockEntry, FreeFds
  <1>7. FreeFds' \subseteq FreeFds /\ EntriesKept
    BY <1>1, <1>6 DEF FreeFds, EntriesKept, SameEntry
  <1>8. ASSUME NEW v, NEW id, NEW filter, Mine(heap, v, id, filter)
        PROVE  Mine(heap', v, id, filter)
    BY <1>1, <1>8 DEF Mine
  <1>9. Dropped(w, {}) /\ WaitsBut(e)
    BY <1>8 DEF Dropped, WaitsBut
  <1>10. Proper(heap', a)
    <2>1. Filters(heap'[n]) = {<<f, "READ">>}
      BY <1>3 DEF Filters, ClientShape
    <2> QED
      BY <1>1, <1>2, <1>3, <2>1 DEF Proper, Mine
  <1>11. Pushes(w, {})
    <2>1. knotes' = {k \in knotes : k.filter = "TIMER" \/ k.ident \notin {}}
      BY <1>1
    <2>2. \A i \in 1 .. Len(change_list) : ~About(change_list[i], {})
      BY DEF About
    <2>3. \A x \in ChangesOf(w) : Proper(heap', x) /\ ~About(x, FreeFds')
      BY <1>2, <1>5, <1>6, <1>10 DEF About
    <2> QED
      BY <1>1, <1>5, <1>7, <1>9, <2>1, <2>2, <2>3, PushesOf
  <1>12. ChangesApart(w)
    BY <1>2, <1>5, <1>6, ChangesApartOf
  <1>13. Hears(w, {})
    <2> SUFFICES ASSUME NEW g \in Fds, Is(g, "sock")', g \notin m_fd_set'
                 PROVE  \/ /\ Is(g, "sock") /\ g \notin m_fd_set /\ g \notin {}
                           /\ ~KeyIn(w, [ident |-> g, filter |-> "READ"])
                           /\ \A v \in Udatas : Reads(v, g) => Reads(v, g)'
                        \/ \E m \in Udatas, r \in Seq(Change) :
                             Reads(m, g)' /\ w = r \o <<Add(g, "READ", m)>>
      BY DEF Hears
    <2>1. CASE g = f
      <3>1. Reads(n, g)'
        BY <1>1, <1>3, <2>1 DEF Reads, LiveUdatas
      <3> QED
        BY <1>1, <1>4, <2>1, <3>1
    <2>2. CASE g # f
      <3>1. ~KeyIn(w, [ident |-> g, filter |-> "READ"])
        BY <1>2, <1>5, <2>2, KeyInChanges DEF SameKey
      <3>2. ASSUME NEW v \in Udatas, Reads(v, g)
            PROVE  Reads(v, g)'
        BY <1>1, <3>2 DEF Reads, LiveUdatas
      <3> QED
        BY <1>1, <2>2, <3>1, <3>2 DEF Is
    <2> QED
      BY <2>1, <2>2
  <1> QED
    BY <1>7, <1>9, <1>11, <1>12, <1>13 DEF Carries, w, a

\* The input of a child is written, and its pipe closed.
LEMMA ShutsCarries ==
  ASSUME TypeOK, Accounts, GoesOn, NEW u, NEW e \in Batch, Shuts(u, e.ident)
  PROVE  Carries(<<>>, {e.ident}, e)
  <1> DEFINE f == e.ident
             X == {f}
  <1>1. /\ u \in LiveUdatas /\ u \in Udatas /\ LiveRecord(heap[u]) /\ Owns(u)
        /\ PipeShape(heap[u]) /\ PipeShape(heap'[u]) /\ InShape(heap[u])
        /\ f \in Fds /\ f = heap[u].m_write_pipe_fd /\ f # None
        /\ heap'[u].st = "live" /\ heap'[u].m_write_pipe_fd = None
        /\ heap'[u].m_read_pipe_fd = heap[u].m_read_pipe_fd
        /\ heap'[u].m_child_pid = heap[u].m_child_pid
        /\ \A v \in Udatas \ {u} : heap'[v] = heap[v]
        /\ \A g \in Fds : fdt'[g] = IF g = f THEN FreeEntry ELSE fdt[g]
        /\ knotes' = {k \in knotes : k.filter = "TIMER" \/ k.ident # f}
        /\ change_list' = change_list /\ m_fd_set' = m_fd_set
    BY LiveObject, ObjectsParts, Positive
    DEF Shuts, SameRequest, Accounts, Objects, InShape
  <1>2. fdt[f].kind = "pipew"
    BY <1>1 DEF Owns, PipeEntry
  <1>3. Mine(heap, e.udata, f, e.filter) /\ e.filter # "TIMER"
    BY <1>1, BatchMine DEF Accounts, BatchKept
  <1>4. e.filter = "WRITE"
    BY <1>2, <1>3, MineOpen DEF Accounts
  <1>5. /\ <<>> \in Seq(Change) /\ ChangesOf(<<>>) = {}
        /\ change_list' = change_list \o <<>>
    BY <1>1, ChangesOfNone, ConcatEmptySeq DEF TypeOK
  <1>6. /\ X \subseteq FreeFds' /\ FreeFds' \subseteq FreeFds \cup X
        /\ FreeFds \subseteq FreeFds' /\ EntriesKept
    BY <1>1, FreeEntryKind DEF FreeFds, EntriesKept, SameEntry
  <1>7. ASSUME NEW id, NEW filter, Mine(heap, u, id, filter)
        PROVE  \/ Mine(heap', u, id, filter)
               \/ filter = "WRITE" /\ id = f
    <2>1. \A h, v : h[v].m_type = "PIPE" =>
            Filters(h[v]) = {<<h[v].m_read_pipe_fd, "READ">>,
                             <<h[v].m_write_pipe_fd, "WRITE">>,
                             <<h[v].m_child_pid, "TIMER">>}
      BY DEF Filters
    <2>2. heap[u].m_type = "PIPE" /\ heap'[u].m_type = "PIPE"
      BY <1>1 DEF PipeShape
    <2> QED
      BY <1>1, <1>7, <2>1, <2>2 DEF Mine
  <1>8. Dropped(<<>>, X) /\ WaitsBut(e)
    <2>1. \A v \in Udatas \ {u} : heap'[v] = heap[v] \/ Begins(v)
      BY <1>1
    <2>2. ASSUME NEW id, NEW filter, Mine(heap, u, id, filter)
          PROVE  \/ Mine(heap', u, id, filter)
                 \/ /\ filter # "TIMER" /\ id \in m_fd_set' \cup X
                    /\ id = e.ident /\ filter = e.filter
      BY <1>4, <1>7, <2>2
    <2> QED
      BY <1>1, <2>1, <2>2, OthersWait
  <1>9. Pushes(<<>>, X)
    <2>1. MayOpen' => MayOpen
      BY DEF MayOpen, GoesOn
    <2>2. \A i \in 1 .. Len(change_list) : ~About(change_list[i], X)
      BY <1>1, <1>2 DEF Accounts, BatchKept, BatchFirst, Is
    <2>3. knotes' = {k \in knotes : k.filter = "TIMER" \/ k.ident \notin X}
      BY <1>1
    <2> QED
      BY <1>1, <1>5, <1>6, <1>8, <2>1, <2>2, <2>3, PushesOf
  <1>10. ChangesApart(<<>>)
    BY <1>5, ChangesApartOf
  <1>11. Hears(<<>>, X)
    <2> SUFFICES ASSUME NEW g \in Fds, Is(g, "sock")', g \notin m_fd_set'
                 PROVE  /\ Is(g, "sock") /\ g \notin m_fd_set /\ g \notin X
                        /\ ~KeyIn(<<>>, [ident |-> g, filter |-> "READ"])
                        /\ \A v \in Udatas : Reads(v, g) => Reads(v, g)'
      BY DEF Hears
    <2>1. Is(g, "sock") /\ g \notin X /\ g \notin m_fd_set
      BY <1>1, FreeEntryKind DEF Is
    <2>2. ~KeyIn(<<>>, [ident |-> g, filter |-> "READ"])
      BY <1>5, KeyInChanges
    <2>3. ASSUME NEW v \in Udatas, Reads(v, g)
          PROVE  Reads(v, g)'
      <3>1. heap[u].req # 0
        BY <1>1 DEF PipeShape
      <3> QED
        BY <1>1, <2>3, <3>1 DEF Reads, LiveUdatas
    <2> QED
      BY <2>1, <2>2, <2>3
  <1> QED
    BY <1>6, <1>8, <1>9, <1>10, <1>11 DEF Carries

\* The socket of a client that was torn down.
LEMMA ClearSocketPushes ==
  ASSUME TypeOK, Accounts, NEW f \in m_fd_set, ClearSocket(f)
  PROVE  Pushes(<<>>, {f}) /\ Hears(<<>>, {f})
  <1>1. /\ f \in Fds
        /\ \A g \in Fds : fdt'[g] = IF g = f THEN FreeEntry ELSE fdt[g]
        /\ knotes' = {k \in knotes : k.filter = "TIMER" \/ k.ident # f}
        /\ m_fd_set' = m_fd_set \ {f}
        /\ heap' = heap /\ change_list' = change_list /\ pc' = pc
        /\ event_list' = event_list /\ pc = "dispatch" /\ event_list = {}
    BY ClearSocketEffect
  <1>2. /\ <<>> \in Seq(Change) /\ ChangesOf(<<>>) = {}
        /\ change_list' = change_list \o <<>>
    BY <1>1, ChangesOfNone, ConcatEmptySeq DEF TypeOK
  <1>3. /\ {f} \subseteq FreeFds' /\ FreeFds' \subseteq FreeFds \cup {f}
        /\ FreeFds \subseteq FreeFds'
    BY <1>1, FreeEntryKind DEF FreeFds
  <1>4. Pushes(<<>>, {f})
    <2>1. ~MayOpen'
      BY <1>1 DEF MayOpen
    <2>2. Dropped(<<>>, {f})
      BY <1>1 DEF Dropped
    <2>3. knotes' = {k \in knotes : k.filter = "TIMER" \/ k.ident \notin {f}}
      BY <1>1
    <2> QED
      BY <1>1, <1>2, <1>3, <2>1, <2>2, <2>3, PushesOf
  <1>5. Hears(<<>>, {f})
    <2> SUFFICES ASSUME NEW g \in Fds, Is(g, "sock")', g \notin m_fd_set'
                 PROVE  /\ Is(g, "sock") /\ g \notin m_fd_set /\ g \notin {f}
                        /\ ~KeyIn(<<>>, [ident |-> g, filter |-> "READ"])
                        /\ \A v \in Udatas : Reads(v, g) => Reads(v, g)'
      BY DEF Hears
    <2>1. Is(g, "sock") /\ g # f /\ g \notin m_fd_set
      BY <1>1, FreeEntryKind DEF Is
    <2>2. ~KeyIn(<<>>, [ident |-> g, filter |-> "READ"])
      BY <1>2, KeyInChanges
    <2> QED
      BY <1>1, <2>1, <2>2 DEF Reads, LiveUdatas
  <1> QED
    BY <1>4, <1>5

\* An object of a client that is torn down.
LEMMA DestroyedPushes ==
  ASSUME TypeOK, Orderly, Accounts, NEW u, NEW s, Frees(u, s),
         heap[u].m_client_sock \in m_fd_set,
         event_list = {}, event_list' = {}, pc' = "dispatch",
         \/ s = <<>> /\ heap[u].m_child_pid = None
         \/ s = <<Delete(heap[u].m_child_pid, "TIMER")>>
  PROVE  Pushes(s, Private(heap[u])) /\ Hears(s, Private(heap[u]))
  <1>1. /\ u \in LiveUdatas /\ LiveRecord(heap[u]) /\ InShape(heap[u])
    BY LiveObject, ObjectsParts DEF Frees, Accounts, Objects
  <1>2. \/ ChangesOf(s) = {} /\ heap[u].m_child_pid = None
        \/ ChangesOf(s) = {Delete(heap[u].m_child_pid, "TIMER")}
    <2>1. heap[u].m_child_pid \in PidOrNone
      BY <1>1 DEF LiveRecord, UdataRecord
    <2>2. Delete(heap[u].m_child_pid, "TIMER") \in Change
      BY <2>1 DEF Delete, Change
    <2> QED
      BY <2>2, ChangesOfNone, ChangesOfOne
  <1>3. \A c \in ChangesOf(s) : c.op = "DELETE" /\ c.filter # "READ"
    BY <1>2 DEF Delete
  <1>4. ASSUME NEW id, NEW filter, Mine(heap, u, id, filter)
        PROVE  \/ KeyIn(s, [ident |-> id, filter |-> filter])
               \/ filter # "TIMER" /\ id \in m_fd_set \cup Private(heap[u])
    <2>1. CASE filter = "TIMER"
      <3>1. id = heap[u].m_child_pid /\ id # None
        BY <1>1, <1>4, <2>1
        DEF Mine, Filters, InShape, ClientShape, FileShape, PipeShape
      <3>2. Delete(id, "TIMER") \in ChangesOf(s)
        BY <1>2, <3>1
      <3> QED
        BY <2>1, <3>2, KeyInChanges DEF SameKey, Delete
    <2>2. CASE filter # "TIMER"
      <3>1. id = heap[u].m_client_sock \/ id \in Private(heap[u])
        BY <1>1, <1>4, <2>2
        DEF Mine, Filters, InShape, ClientShape, FileShape, PipeShape, Private
      <3> QED
        BY <2>2, <3>1
    <2> QED
      BY <2>1, <2>2
  <1>5. ~MayOpen' /\ GoesOn
    BY DEF MayOpen, GoesOn
  <1> QED
    BY <1>3, <1>4, <1>5, FreesPushes

(***************************************************************************)
(* Putting the parts together.                                             *)
(***************************************************************************)
LEMMA FiltersCarried ==
  ASSUME TypeOK, Accounts, NEW s, NEW X, Pushes(s, X), Hears(s, X)
  PROVE  FiltersKept'
  BY PushesKeep, HeardKept DEF Accounts, FiltersKept

LEMMA BatchCarried ==
  ASSUME TypeOK, Accounts, TypeOK', Objects', NEW s, NEW X, NEW e,
         Carries(s, X, e), Batch' \subseteq Batch, \A d \in Batch' : ~SameKey(d, e),
         ConnsReady(e), ProcsReady(e)
  PROVE  BatchKept'
  BY BatchKeeps DEF Carries, Pushes, Accounts

LEMMA NoBatch ==
  ASSUME Batch' = {}
  PROVE  BatchKept'
  BY DEF BatchKept, BatchProper, BatchFirst, BatchReady

\* e is taken out of the batch and handled.
LEMMA DispatchBatch ==
  ASSUME Accounts, NEW e, Dispatch(e), Continue
  PROVE  /\ e \in event_list /\ e \in Batch /\ Batch' \subseteq Batch
         /\ \A d \in Batch' : ~SameKey(d, e)
         /\ GoesOn /\ MayOpen /\ (MayOpen' => MayOpen)
         /\ pc = "dispatch" /\ pc' = "dispatch"
  <1>1. /\ pc = "dispatch" /\ pc' = "dispatch" /\ e \in event_list
        /\ event_list' = event_list \ {e}
    BY DEF Dispatch, Continue
  <1>2. Batch = event_list /\ Batch' = event_list \ {e}
    BY <1>1 DEF Batch
  <1> QED
    BY <1>1, <1>2
    DEF Accounts, BatchKept, BatchProper, GoesOn, MayOpen

(***************************************************************************)
(* Connections and children that go on.                                    *)
(***************************************************************************)
ConnOnward(c) ==
  /\ conn[c].st \in {"fin", "reset"} => conn'[c].st \in {"fin", "reset"}
  /\ conn[c].st = "reset" => conn'[c].st = "reset"
  /\ conn[c].rcvd < conn[c].sent => conn'[c].rcvd < conn'[c].sent
  /\ ~conn[c].full => ~conn'[c].full

LEMMA SocketOf ==
  ASSUME TypeOK, Accounts, NEW f \in Fds, fdt[f].kind = "sock"
  PROVE  /\ fdt[f].of \in Conns /\ fdt[f] = SockEntry(fdt[f].of)
         /\ conn[fdt[f].of].st \in {"open", "fin", "reset"}
         /\ \A g \in Fds : fdt[g] = fdt[f] => g = f
  <1>1. fdt[f] \in FdEntry
    BY DEF TypeOK
  <1>2. fdt[f].of \in Conns /\ fdt[f] = SockEntry(fdt[f].of)
    BY <1>1 DEF FdEntry, SockEntry
  <1> QED
    BY <1>2 DEF Accounts, Objects, SocketsApart, Is

LEMMA ConnsGoOn ==
  ASSUME TypeOK, Accounts, NEW e,
         \A c \in Conns : conn[c].st \in {"open", "fin", "reset"} => ConnOnward(c)
  PROVE  ConnsReady(e)
  <1> SUFFICES ASSUME NEW f \in Fds, fdt[f].kind = "sock"
               PROVE  ConnOnward(fdt[f].of)
    BY DEF ConnsReady, ConnOnward
  <1> QED
    BY SocketOf

LEMMA ConnsReceived ==
  ASSUME TypeOK, Accounts, NEW e, e.ident \in Fds, e.filter = "READ",
         NEW c, fdt[e.ident] = SockEntry(c), Received(c)
  PROVE  ConnsReady(e)
  <1> SUFFICES ASSUME NEW f \in Fds, fdt[f].kind = "sock"
               PROVE  LET o == fdt[f].of IN
                      /\ conn'[o].st = conn[o].st /\ conn'[o].full = conn[o].full
                      /\ f = e.ident \/ conn'[o] = conn[o]
    BY DEF ConnsReady
  <1>1. /\ fdt[f].of \in Conns /\ fdt[f] = SockEntry(fdt[f].of)
        /\ \A g \in Fds : fdt[g] = fdt[f] => g = f
    BY SocketOf
  <1>2. fdt[f].of = c => f = e.ident
    BY <1>1
  <1> QED
    BY <1>1, <1>2 DEF Received, TypeOK, ConnRecord

LEMMA ConnsWritten ==
  ASSUME TypeOK, Accounts, NEW e, e.ident \in Fds, e.filter = "WRITE",
         NEW c, fdt[e.ident] = SockEntry(c), Written(c)
  PROVE  ConnsReady(e)
  <1> SUFFICES ASSUME NEW f \in Fds, fdt[f].kind = "sock"
               PROVE  LET o == fdt[f].of IN
                      /\ conn'[o].st = conn[o].st /\ conn'[o].rcvd = conn[o].rcvd
                      /\ conn'[o].sent = conn[o].sent
                      /\ f = e.ident \/ conn'[o].full = conn[o].full
    BY DEF ConnsReady
  <1>1. /\ fdt[f].of \in Conns /\ fdt[f] = SockEntry(fdt[f].of)
        /\ \A g \in Fds : fdt[g] = fdt[f] => g = f
    BY SocketOf
  <1>2. fdt[f].of = c => f = e.ident
    BY <1>1
  <1> QED
    BY <1>1, <1>2 DEF Written

ProcOnward(p) ==
  /\ ~Alive(p) => ~Alive(p)'
  /\ proc[p].out = "ready" \/ StdoutEnded(p)
       => proc'[p].out = "ready" \/ StdoutEnded(p)'
  /\ ~proc[p].full => ~proc'[p].full

\* The one that holds a pipe, and its child.
LEMMA PipeOf ==
  ASSUME TypeOK, Accounts, NEW f \in Fds, fdt[f].kind \in {"piper", "pipew"}
  PROVE  /\ fdt[f].of \in Pids
         /\ Alive(fdt[f].of) \/ Zombie(fdt[f].of)
         /\ \A v \in LiveUdatas : heap[v].m_child_pid = fdt[f].of =>
              f = IF fdt[f].kind = "piper" THEN heap[v].m_read_pipe_fd
                                           ELSE heap[v].m_write_pipe_fd
  <1>1. PICK u \in LiveUdatas :
          f = IF fdt[f].kind = "piper" THEN heap[u].m_read_pipe_fd
                                       ELSE heap[u].m_write_pipe_fd
    BY DEF Accounts, Objects, FilesHeld, Is
  <1>2. Owns(u) /\ f # None
    BY ObjectsParts, Positive DEF Accounts, Objects
  <1>3. fdt[f].of = heap[u].m_child_pid
    BY <1>1, <1>2 DEF Owns, PipeEntry
  <1>4. fdt[f].of \in Pids
    BY DEF TypeOK, FdEntry
  <1>5. fdt[f].of # None
    BY <1>4, Positive DEF None
  <1>6. Alive(fdt[f].of) \/ Zombie(fdt[f].of)
    BY <1>3, <1>5 DEF Accounts, ChildrenKept
  <1>7. \A v \in LiveUdatas : heap[v].m_child_pid = fdt[f].of => v = u
    BY <1>3, <1>5 DEF Accounts, Objects, ChildrenApart
  <1> QED
    BY <1>1, <1>4, <1>6, <1>7

LEMMA ProcsGoOn ==
  ASSUME TypeOK, Accounts, NEW e,
         \A p \in Pids : Alive(p) \/ Zombie(p) => ProcOnward(p)
  PROVE  ProcsReady(e)
  <1> SUFFICES ASSUME NEW f \in Fds, NEW p \in Pids, fdt[f].of = p,
                      fdt[f].kind \in {"piper", "pipew"}
               PROVE  ProcOnward(p)
    BY DEF ProcsReady, ProcOnward
  <1> QED
    BY PipeOf

\* The handler of a pipe's event changes what its child's pipe holds.
LEMMA ProcsServed ==
  ASSUME TypeOK, Accounts, NEW e, NEW u \in LiveUdatas,
         heap[u].m_child_pid \in Pids, NEW b \in BOOLEAN,
         \/ /\ e.filter = "READ" /\ e.ident = heap[u].m_read_pipe_fd
            /\ proc' = [proc EXCEPT ![heap[u].m_child_pid].out = "read"]
         \/ /\ e.filter = "WRITE" /\ e.ident = heap[u].m_write_pipe_fd
            /\ proc' = [proc EXCEPT ![heap[u].m_child_pid].full = b]
  PROVE  ProcsReady(e)
  <1> SUFFICES ASSUME NEW f \in Fds, NEW p \in Pids, fdt[f].of = p,
                      fdt[f].kind \in {"piper", "pipew"}
               PROVE  /\ ~Alive(p) => ~Alive(p)'
                      /\ fdt[f].kind = "piper"
                            /\ (proc[p].out = "ready" \/ StdoutEnded(p)) =>
                           \/ proc'[p].out = "ready" \/ StdoutEnded(p)'
                           \/ f = e.ident /\ e.filter = "READ"
                      /\ fdt[f].kind = "pipew" /\ ~proc[p].full =>
                           ~proc'[p].full \/ (f = e.ident /\ e.filter = "WRITE")
    BY DEF ProcsReady
  <1>1. p = heap[u].m_child_pid =>
          f = IF fdt[f].kind = "piper" THEN heap[u].m_read_pipe_fd
                                       ELSE heap[u].m_write_pipe_fd
    BY PipeOf
  <1>2. CASE p # heap[u].m_child_pid
    <2>1. proc'[p] = proc[p]
      BY <1>2 DEF TypeOK
    <2> QED
      BY <2>1 DEF Alive, StdoutEnded
  <1>3. CASE p = heap[u].m_child_pid
    <2>1. /\ proc'[p].st = proc[p].st /\ proc'[p].closed = proc[p].closed
          /\ e.filter = "READ" => proc'[p].full = proc[p].full
          /\ e.filter = "WRITE" => proc'[p].out = proc[p].out
      BY <1>3 DEF TypeOK, ProcRecord
    <2> QED
      BY <1>1, <1>3, <2>1 DEF Alive, StdoutEnded
  <1> QED
    BY <1>2, <1>3

(***************************************************************************)
(* Clients that left, and children.                                        *)
(***************************************************************************)
\* No socket is opened, closed or given away.
SocketsStay == \A f \in Fds : fdt[f].kind = "sock" => fdt'[f] = fdt[f]

LEMMA DepartedStay ==
  ASSUME TypeOK, Accounts, SocketsStay,
         \A c \in Conns : conn[c].st \in {"fin", "reset"} =>
                            conn'[c].st \in {"fin", "reset"},
         \A c \in Conns : conn'[c].st \in {"fin", "reset"} =>
                            conn'[c].st = conn[c].st \/ conn'[c].st \in Faults,
         \A f \in m_fd_set' : \/ f \in m_fd_set
                              \/ /\ f \in Fds /\ fdt[f].kind = "sock"
                                 /\ conn[fdt[f].of].st \in {"fin", "reset"}
  PROVE  OnlyDeparted'
  <1>1. ASSUME NEW f \in m_fd_set'
        PROVE  Is(f, "sock")' /\ HasLeft(fdt[f].of)'
    <2>1. /\ f \in Fds /\ fdt[f].kind = "sock"
          /\ conn[fdt[f].of].st \in {"fin", "reset"}
      BY DEF Accounts, OnlyDeparted, Is, HasLeft
    <2>2. fdt'[f] = fdt[f] /\ fdt[f].of \in Conns
      BY <2>1, SocketOf DEF SocketsStay
    <2> QED
      BY <2>1, <2>2 DEF Is, HasLeft
  <1>2. ASSUME NEW c \in Conns, HasLeft(c)'
        PROVE  conn'[c].st \in Faults
    <2>1. conn[c].st = conn'[c].st => conn[c].st \in Faults
      BY <1>2 DEF Accounts, OnlyDeparted, HasLeft
    <2> QED
      BY <1>2, <2>1 DEF HasLeft
  <1> QED
    BY <1>1, <1>2 DEF OnlyDeparted

\* The part of ChildrenKept about the child p of u, and the other two.
KeptBy(u, p) ==
  /\ Alive(p) \/ Zombie(p)
  /\ proc[p].st \in {"dying", "signaled"} => Ending(u)
  /\ heap[u].m_write_pipe_fd # None /\ ~Ending(u) =>
       proc[p].st = "running" /\ ~proc[p].closed

Childs(u, p) == heap[u].st = "live" /\ heap[u].m_child_pid = p

ChildrenParts ==
  /\ \A p \in Pids : Alive(p) \/ Zombie(p) => \E u \in Udatas : Childs(u, p)
  /\ \A u \in Udatas, p \in Pids : Childs(u, p) => KeptBy(u, p)
  /\ \A p \in Pids : proc[p].st = "none" => ~proc[p].closed

LEMMA ChildrenInParts == TypeOK => (ChildrenKept <=> ChildrenParts)
  <1> SUFFICES ASSUME TypeOK PROVE ChildrenKept <=> ChildrenParts
    OBVIOUS
  <1>1. \A u \in LiveUdatas : u \in Udatas /\ heap[u].m_child_pid \in Pids \cup {None}
    BY DEF LiveUdatas, TypeOK, UdataRecord, PidOrNone
  <1>2. None \notin Pids
    BY Positive DEF None
  <1>3. ChildrenKept => ChildrenParts
    BY <1>1, <1>2 DEF ChildrenKept, ChildrenParts, KeptBy, Childs, LiveUdatas
  <1>4. ChildrenParts => ChildrenKept
    BY <1>1, <1>2 DEF ChildrenKept, ChildrenParts, KeptBy, Childs, LiveUdatas
  <1> QED
    BY <1>3, <1>4

LEMMA ChildrenInPartsPrime == TypeOK' => (ChildrenKept' <=> ChildrenParts')
  BY ChildrenInParts, PTL

\* The objects outside U keep their children, and nobody else has one.
SameChildren(U) ==
  \A v \in Udatas \ U, p \in Pids :
    /\ Childs(v, p)' <=> Childs(v, p)
    /\ Childs(v, p)' => (heap'[v].m_write_pipe_fd # None
                           => heap[v].m_write_pipe_fd # None)

LEMMA ChildrenStay ==
  ASSUME TypeOK, Accounts, TypeOK', SameChildren({}),
         \A u \in Udatas : Ending(u) => Ending(u)',
         \A p \in Pids : proc'[p].st = proc[p].st /\ proc'[p].closed = proc[p].closed
  PROVE  ChildrenKept'
  <1>0. ChildrenParts
    BY ChildrenInParts DEF Accounts
  <1>1. \A p \in Pids : (Alive(p)' <=> Alive(p)) /\ (Zombie(p)' <=> Zombie(p))
    BY DEF Alive, Zombie
  <1>2. ASSUME NEW u \in Udatas, NEW p \in Pids, Childs(u, p)'
        PROVE  KeptBy(u, p)'
    <2>1. KeptBy(u, p)
      BY <1>0, <1>2 DEF ChildrenParts, SameChildren
    <2> QED
      BY <1>1, <1>2, <2>1 DEF KeptBy, SameChildren
  <1>3. \A p \in Pids : proc'[p].st = "none" => ~proc'[p].closed
    BY <1>0 DEF ChildrenParts
  <1>4. ASSUME NEW p \in Pids, Alive(p)' \/ Zombie(p)'
        PROVE  \E u \in Udatas : Childs(u, p)'
    BY <1>0, <1>1, <1>4 DEF ChildrenParts, SameChildren
  <1> QED
    BY <1>2, <1>3, <1>4, ChildrenInPartsPrime DEF ChildrenParts

\* The child p of u was waited for.
LEMMA ChildReaped ==
  ASSUME TypeOK, Accounts, TypeOK', NEW u \in Udatas, NEW p \in Pids, Childs(u, p),
         SameChildren({u}), \A q \in Pids : ~Childs(u, q)',
         \A v \in Udatas \ {u} : ~Ending(v), proc' = Reaped(p)
  PROVE  ChildrenKept'
  <1>0. ChildrenParts
    BY ChildrenInParts DEF Accounts
  <1>1. /\ proc'[p].st = "reaped"
        /\ \A q \in Pids \ {p} : proc'[q] = proc[q]
    BY DEF Reaped, NoProc, TypeOK
  <1>2. ASSUME NEW v \in Udatas, NEW q \in Pids, Childs(v, q)'
        PROVE  KeptBy(v, q)'
    <2>1. v # u /\ Childs(v, q)
      BY <1>2 DEF SameChildren
    <2>2. KeptBy(v, q) /\ ~Ending(v)
      BY <1>0, <2>1 DEF ChildrenParts
    <2>3. q # p
      <3>1. p # None
        BY Positive DEF None
      <3> QED
        BY <2>1, <3>1 DEF Childs, Accounts, Objects, ChildrenApart, LiveUdatas
    <2> QED
      BY <1>1, <1>2, <2>1, <2>2, <2>3 DEF KeptBy, SameChildren, Alive, Zombie
  <1>3. ASSUME NEW q \in Pids, Alive(q)' \/ Zombie(q)'
        PROVE  \E v \in Udatas : Childs(v, q)'
    <2>1. q # p /\ (Alive(q) \/ Zombie(q))
      BY <1>1, <1>3 DEF Alive, Zombie
    <2>2. PICK v \in Udatas : Childs(v, q)
      BY <1>0, <2>1 DEF ChildrenParts
    <2>3. v # u
      BY <2>1, <2>2 DEF Childs
    <2> QED
      BY <2>2, <2>3 DEF SameChildren
  <1>4. \A q \in Pids : proc'[q].st = "none" => ~proc'[q].closed
    BY <1>0, <1>1 DEF ChildrenParts
  <1> QED
    BY <1>2, <1>3, <1>4, ChildrenInPartsPrime DEF ChildrenParts

\* u has a child p that starts.
LEMMA ChildForked ==
  ASSUME TypeOK, Accounts, TypeOK', NEW u \in Udatas, NEW p \in Pids,
         \A q \in Pids : (Childs(u, q)' <=> q = p) /\ ~Childs(u, q),
         SameChildren({u}), pc # "reapClear",
         proc[p].st = "none", proc' = [proc EXCEPT ![p].st = "running"]
  PROVE  ChildrenKept'
  <1>0. ChildrenParts
    BY ChildrenInParts DEF Accounts
  <1>1. /\ proc'[p].st = "running" /\ ~proc'[p].closed
        /\ \A q \in Pids \ {p} : proc'[q] = proc[q]
    BY <1>0 DEF TypeOK, ProcRecord, ChildrenParts
  <1>2. ASSUME NEW v \in Udatas, NEW q \in Pids, Childs(v, q)'
        PROVE  KeptBy(v, q)'
    <2>1. CASE v = u
      <3>1. q = p
        BY <1>2, <2>1
      <3> QED
        BY <1>1, <3>1 DEF KeptBy, Alive
    <2>2. CASE v # u
      <3>1. Childs(v, q) /\ KeptBy(v, q) /\ ~Ending(v)
        BY <1>0, <1>2, <2>2 DEF SameChildren, ChildrenParts, Ending
      <3>2. q # p
        BY <3>1 DEF KeptBy, Alive, Zombie
      <3> QED
        BY <1>1, <1>2, <2>2, <3>1, <3>2 DEF KeptBy, SameChildren, Alive, Zombie
    <2> QED
      BY <2>1, <2>2
  <1>3. ASSUME NEW q \in Pids, Alive(q)' \/ Zombie(q)'
        PROVE  \E v \in Udatas : Childs(v, q)'
    <2>1. CASE q # p
      <3>1. Alive(q) \/ Zombie(q)
        BY <1>1, <1>3, <2>1 DEF Alive, Zombie
      <3> QED
        BY <1>0, <3>1 DEF ChildrenParts, SameChildren
    <2> QED
      BY <2>1
  <1>4. \A q \in Pids : proc'[q].st = "none" => ~proc'[q].closed
    BY <1>0, <1>1 DEF ChildrenParts
  <1> QED
    BY <1>2, <1>3, <1>4, ChildrenInPartsPrime DEF ChildrenParts

\* SIGTERM is sent to the child p of the object that is being deleted.
LEMMA ChildKilled ==
  ASSUME TypeOK, Accounts, TypeOK', NEW u \in Udatas, NEW p \in Pids, Childs(u, p),
         UNCHANGED heap, pc # "reapClear", Ending(u)', proc' = Terminated(p)
  PROVE  ChildrenKept'
  <1>0. ChildrenParts
    BY ChildrenInParts DEF Accounts
  <1>1. p # None
    BY Positive DEF None
  <1>2. /\ \A q \in Pids \ {p} : proc'[q] = proc[q]
        /\ proc'[p].st = IF proc[p].st = "running" THEN "dying" ELSE proc[p].st
    BY <1>1 DEF Terminated, TypeOK, ProcRecord
  <1>3. \A q \in Pids : (Alive(q)' <=> Alive(q)) /\ (Zombie(q)' <=> Zombie(q))
    BY <1>2 DEF Alive, Zombie
  <1>4. ASSUME NEW v \in Udatas, NEW q \in Pids, Childs(v, q)'
        PROVE  KeptBy(v, q)'
    <2>1. Childs(v, q) /\ KeptBy(v, q) /\ ~Ending(v)
      BY <1>0, <1>4 DEF ChildrenParts, Childs, Ending
    <2>2. CASE q = p
      <3>1. v = u
        BY <1>1, <2>1, <2>2 DEF Childs, Accounts, Objects, ChildrenApart, LiveUdatas
      <3> QED
        BY <1>3, <2>1, <3>1 DEF KeptBy
    <2>3. CASE q # p
      BY <1>2, <1>3, <2>1, <2>3 DEF KeptBy
    <2> QED
      BY <2>2, <2>3
  <1>5. \A q \in Pids : Alive(q)' \/ Zombie(q)' => \E v \in Udatas : Childs(v, q)'
    BY <1>0, <1>3 DEF ChildrenParts, Childs
  <1>6. \A q \in Pids : proc'[q].st = "none" => ~proc'[q].closed
    <2> SUFFICES ASSUME NEW q \in Pids, proc'[q].st = "none" PROVE ~proc'[q].closed
      OBVIOUS
    <2>1. q # p
      BY <1>0, <1>2 DEF ChildrenParts, KeptBy, Alive, Zombie
    <2> QED
      BY <1>0, <1>2, <2>1 DEF ChildrenParts
  <1> QED
    BY <1>4, <1>5, <1>6, ChildrenInPartsPrime DEF ChildrenParts

\* The loop is where no child is waited for.
LEMMA PhasesDispatch ==
  ASSUME pc' = "dispatch"
  PROVE  Phases'
  BY DEF Phases

LEMMA AllKept ==
  ASSUME TypeOK, Accounts, TypeOK', Objects', NEW s, NEW X, NEW e,
         Carries(s, X, e), Batch' \subseteq Batch, \A d \in Batch' : ~SameKey(d, e),
         ConnsReady(e), ProcsReady(e), OnlyDeparted', ChildrenKept', Phases'
  PROVE  Accounts'
  <1>1. FiltersKept'
    BY FiltersCarried DEF Carries
  <1>2. BatchKept'
    BY BatchCarried
  <1> QED
    BY <1>1, <1>2 DEF Accounts

LEMMA HandlerKept ==
  ASSUME TypeOK, Accounts, TypeOK', Objects', NEW s, NEW X, NEW e,
         Dispatch(e), Continue, Carries(s, X, e),
         ConnsReady(e), ProcsReady(e), OnlyDeparted', ChildrenKept'
  PROVE  Accounts'
  BY AllKept, DispatchBatch, PhasesDispatch

LEMMA QuietStays ==
  ASSUME Quiet
  PROVE  SocketsStay /\ SameChildren({})
  <1>1. SocketsStay
    BY DEF Quiet, SocketsStay, SameEntry
  <1>2. ASSUME NEW v \in Udatas
        PROVE  /\ heap'[v].st = heap[v].st /\ heap'[v].m_child_pid = heap[v].m_child_pid
               /\ heap'[v].m_write_pipe_fd = heap[v].m_write_pipe_fd
    BY DEF Quiet, SameObject
  <1>3. SameChildren({})
    BY <1>2 DEF SameChildren, Childs
  <1> QED
    BY <1>1, <1>3

\* No event of the batch is a timer's.
LEMMA NobodysEvent ==
  ASSUME TypeOK, Accounts, Batch' \subseteq Batch
  PROVE  \A d \in Batch' : ~SameKey(d, NoEvent)
  BY DEF Accounts, BatchKept, BatchProper, SameKey, NoEvent

(***************************************************************************)
(* The invariant is kept by accept().                                      *)
(***************************************************************************)
LEMMA AcceptKept ==
  ASSUME TypeOK, Accounts, TypeOK', Accept, MayOpen, MayOpen' => MayOpen,
         pc # "reapClear", Phases', NEW e, Batch' \subseteq Batch,
         \A d \in Batch' : ~SameKey(d, e)
  PROVE  Accounts'
  <1>1. CASE \E c \in Conns, f \in Fds, n \in Udatas : Admits(c, f, n)
    <2>1. PICK c \in Conns, f \in Fds, n \in Udatas : Admits(c, f, n)
      BY <1>1
    <2>2. Objects' /\ Carries(<<Add(f, "READ", n)>>, {}, e)
      BY <2>1, AdmitsObjects, AdmitsCarries
    <2>3. /\ conn[c].st = "backlog" /\ conn'[c].st = "open"
          /\ \A d \in Conns \ {c} : conn'[d] = conn[d]
      BY <2>1 DEF Admits, TypeOK, ConnRecord
    <2>4. ConnsReady(e)
      BY <2>3, ConnsGoOn DEF ConnOnward
    <2>5. ProcsReady(e)
      BY <2>1, ProcsGoOn DEF Admits, ProcOnward, Alive, StdoutEnded
    <2>6. SocketsStay
      BY <2>1 DEF Admits, SocketsStay, FreeFds
    <2>7. OnlyDeparted'
      BY <2>1, <2>3, <2>6, DepartedStay DEF Admits
    <2>8. SameChildren({})
      <3>1. ~\E p \in Pids : Childs(n, p) \/ Childs(n, p)'
        <4>1. ClientShape(heap'[n]) /\ heap[n].st = "unused"
          BY <2>1, NewReader DEF Admits
        <4> QED
          BY <4>1, Positive DEF Childs, ClientShape, None
      <3> QED
        BY <2>1, <3>1 DEF SameChildren, Childs, Admits
    <2>9. ChildrenKept'
      BY <2>1, <2>8, ChildrenStay DEF Admits, Ending
    <2> QED
      BY <2>2, <2>4, <2>5, <2>7, <2>9, AllKept
  <1>2. CASE /\ Quiet
             /\ \/ UNCHANGED conn
                \/ \E c \in Conns : /\ conn[c].st = "backlog"
                                    /\ conn' = [conn EXCEPT ![c].st = "closed"]
             /\ UNCHANGED <<heap, m_fd_set, change_list, fdt, knotes, proc>>
    <2>1. ASSUME NEW d \in Conns
          PROVE  conn'[d] = conn[d] \/ (conn[d].st = "backlog" /\ conn'[d].st = "closed")
      BY <1>2 DEF TypeOK, ConnRecord
    <2>2. Objects'
      BY <1>2, <2>1, QuietObjects DEF Accounts
    <2>3. Carries(<<>>, {}, e)
      BY <1>2, QuietCarries
    <2>4. ConnsReady(e)
      BY <2>1, ConnsGoOn DEF ConnOnward
    <2>5. ProcsReady(e)
      BY <1>2, ProcsGoOn DEF ProcOnward, Alive, StdoutEnded
    <2>6. OnlyDeparted'
      BY <1>2, <2>1, QuietStays, DepartedStay
    <2>7. ChildrenKept'
      BY <1>2, QuietStays, ChildrenStay DEF Ending
    <2> QED
      BY <2>2, <2>3, <2>4, <2>5, <2>6, <2>7, AllKept
  <1> QED
    BY <1>1, <1>2, AcceptEffect

LEMMA ServerReadEventKept ==
  ASSUME TypeOK, Accounts, TypeOK', NEW e, ServerReadEvent(e)
  PROVE  Accounts'
  <1>1. CASE Accept /\ Continue
    BY <1>1, AcceptKept, DispatchBatch, PhasesDispatch DEF ServerReadEvent
  <1>2. CASE /\ Sleep("accept", e)
             /\ UNCHANGED <<heap, m_udata_map, m_fd_set, change_list, fdt,
                            knotes, conn, proc>>
    <2>1. /\ pc = "dispatch" /\ pc' = "accept" /\ e \in event_list
          /\ event_list' \subseteq event_list
      BY <1>2 DEF ServerReadEvent, Dispatch, Sleep
    <2>2. /\ Batch' \subseteq Batch /\ MayOpen /\ Phases'
          /\ \A u \in Udatas : ~Ending(u)
      BY <2>1 DEF Batch, MayOpen, Phases, Ending
    <2>3. Quiet
      BY <1>2 DEF Quiet, SameObject, SameEntry
    <2>4. Objects'
      BY <1>2, <2>3, QuietObjects DEF Accounts
    <2>5. Carries(<<>>, {}, NoEvent)
      BY <1>2, <2>2, <2>3, QuietCarries
    <2>6. ConnsReady(NoEvent) /\ ProcsReady(NoEvent)
      BY <1>2, ConnsGoOn, ProcsGoOn DEF ConnOnward, ProcOnward, Alive, StdoutEnded
    <2>7. OnlyDeparted' /\ ChildrenKept'
      BY <1>2, <2>2, <2>3, QuietStays, DepartedStay, ChildrenStay
    <2> QED
      BY <2>2, <2>4, <2>5, <2>6, <2>7, NobodysEvent, AllKept
  <1> QED
    BY <1>1, <1>2 DEF ServerReadEvent

LEMMA AcceptReturnsKept ==
  ASSUME TypeOK, Accounts, TypeOK', AcceptReturns
  PROVE  Accounts'
  <1>1. pc = "accept" /\ pc' = "dispatch" /\ event_list' = event_list /\ Accept
    BY DEF AcceptReturns, Wake
  <1>2. Batch' \subseteq Batch /\ MayOpen
    BY <1>1 DEF Batch, MayOpen
  <1> QED
    BY <1>1, <1>2, AcceptKept, NobodysEvent, PhasesDispatch

(***************************************************************************)
(* The invariant is kept by the handlers of the clients' sockets.          *)
(***************************************************************************)
LEMMA OwnedSocket ==
  ASSUME TypeOK, Accounts, NEW u \in LiveUdatas
  PROVE  /\ heap[u].m_client_sock \in Fds
         /\ fdt[heap[u].m_client_sock] = SockEntry(heap[u].conn)
         /\ fdt[heap[u].m_client_sock].kind = "sock"
         /\ fdt[heap[u].m_client_sock].of = heap[u].conn
         /\ heap[u].conn \in Conns
  <1>1. LiveRecord(heap[u]) /\ Owns(u)
    BY LiveObject, ObjectsParts DEF Accounts, Objects
  <1> QED
    BY <1>1, SocketsOwned DEF LiveRecord, SockEntry

\* The child that a request is served by, if any.
LEMMA ServesChildren ==
  ASSUME TypeOK, Accounts, TypeOK', pc # "reapClear",
         NEW u, NEW n \in Udatas, NEW s, Serves(u, n, s)
  PROVE  ChildrenKept' /\ \A e : ProcsReady(e)
  <1>1. /\ u \in Udatas /\ ClientShape(heap[u]) /\ n # u /\ heap[n].st = "unused"
        /\ ClientShape(heap'[n]) /\ heap'[u].st = "live"
        /\ \A v \in Udatas \ {u, n} : heap'[v] = heap[v]
        /\ Served(u, heap[u].m_client_sock, heap'[u], s)
    <2>1. u \in LiveUdatas /\ u \in Udatas
      BY LiveObject DEF Serves
    <2>2. heap[u].conn \in Conns /\ heap[u].m_client_sock \in Fds
      BY <2>1, OwnedSocket
    <2> QED
      BY <2>1, <2>2, NewReader DEF Serves, BecomesWithReader
  <1>2. None \notin Pids
    BY Positive DEF None
  <1>3. SameChildren({u}) /\ \A p \in Pids : ~Childs(u, p)
    <2>1. \A p \in Pids : ~Childs(n, p) /\ ~Childs(n, p)' /\ ~Childs(u, p)
      BY <1>1, <1>2 DEF Childs, ClientShape
    <2> QED
      BY <1>1, <2>1 DEF SameChildren, Childs
  <1>4. CASE UNCHANGED proc /\ heap'[u].m_child_pid = None
    <2>1. \A p \in Pids : ~Childs(u, p)'
      BY <1>2, <1>4 DEF Childs
    <2>2. SameChildren({})
      BY <1>3, <2>1 DEF SameChildren
    <2>3. ChildrenKept'
      BY <1>4, <2>2, ChildrenStay DEF Ending
    <2> QED
      BY <1>4, <2>3, ProcsGoOn DEF ProcOnward, Alive, StdoutEnded
  <1>5. CASE ServedCgi(u, heap'[u], s)
    <2>1. PICK p \in Pids : /\ p = heap'[u].m_child_pid /\ proc[p].st = "none"
                            /\ proc' = [proc EXCEPT ![p].st = "running"]
      BY <1>5 DEF ServedCgi, PipeShape
    <2>2. \A q \in Pids : Childs(u, q)' <=> q = p
      BY <1>1, <2>1 DEF Childs
    <2>3. ChildrenKept'
      BY <1>1, <1>3, <2>1, <2>2, ChildForked
    <2>4. ASSUME NEW q \in Pids, Alive(q) \/ Zombie(q)
          PROVE  ProcOnward(q)
      <3>1. proc'[q] = proc[q]
        BY <2>1, <2>4 DEF Alive, Zombie, TypeOK
      <3> QED
        BY <3>1 DEF ProcOnward, Alive, StdoutEnded
    <2> QED
      BY <2>3, <2>4, ProcsGoOn
  <1> QED
    BY <1>1, <1>4, <1>5
    DEF Served, ServedInline, ServedFile, ClientShape, FileShape

LEMMA ClientReadEventKept ==
  ASSUME TypeOK, Orderly, Accounts, TypeOK', NEW e, ClientReadEvent(e)
  PROVE  Accounts'
  <1> DEFINE u == e.udata
             c == heap[u].conn
  <1>1. /\ Dispatch(e) /\ Continue /\ UNCHANGED knotes
    BY DEF ClientReadEvent
  <1>2. /\ e \in event_list /\ u \in LiveUdatas
        /\ e.ident = heap[u].m_client_sock /\ e.filter = "READ"
        /\ \/ ClientReadEof(e) /\ conn[c].st \in {"fin", "reset"}
           \/ /\ Quiet /\ Received(c)
              /\ UNCHANGED <<m_fd_set, change_list, fdt, knotes, proc>>
           \/ \E n \in Udatas, s \in Seq(Change) : Serves(u, n, s)
    BY ClientReadEffect
  <1>3. /\ e.ident \in Fds /\ fdt[e.ident] = SockEntry(c) /\ fdt[e.ident].kind = "sock"
        /\ fdt[e.ident].of = c /\ c \in Conns
    BY <1>2, OwnedSocket
  <1>4. /\ MayOpen' => MayOpen
        /\ pc = "dispatch" /\ GoesOn
    BY <1>1, DispatchBatch
  <1> HIDE DEF u, c
  <1>5. CASE ClientReadEof(e) /\ conn[c].st \in {"fin", "reset"}
    <2>1. /\ UNCHANGED <<heap, m_udata_map, fdt, conn, proc>>
          /\ m_fd_set' = m_fd_set \cup {e.ident}
      BY <1>5 DEF ClientReadEof
    <2>2. Quiet
      BY <2>1 DEF Quiet, SameObject, SameEntry
    <2>3. Objects'
      BY <2>1, <2>2, QuietObjects DEF Accounts
    <2>4. Carries(<<Delete(e.ident, "READ")>>, {}, e)
      BY <1>1, <1>3, <1>4, <1>5, EofCarries
    <2>5. ConnsReady(e) /\ ProcsReady(e)
      BY <2>1, ConnsGoOn, ProcsGoOn DEF ConnOnward, ProcOnward, Alive, StdoutEnded
    <2>6. OnlyDeparted'
      BY <1>3, <1>5, <2>1, <2>2, QuietStays, DepartedStay
    <2>7. ChildrenKept'
      BY <1>4, <2>1, <2>2, QuietStays, ChildrenStay DEF Ending
    <2> QED
      BY <1>1, <2>3, <2>4, <2>5, <2>6, <2>7, HandlerKept
  <1>6. CASE /\ Quiet /\ Received(c)
             /\ UNCHANGED <<m_fd_set, change_list, fdt, knotes, proc>>
    <2>1. \A d \in Conns : conn'[d].st = conn[d].st
      BY <1>6 DEF Received, TypeOK, ConnRecord
    <2>2. Objects'
      BY <1>6, <2>1, QuietObjects DEF Accounts
    <2>3. Carries(<<>>, {}, e)
      BY <1>4, <1>6, QuietCarries
    <2>4. ConnsReady(e)
      BY <1>2, <1>3, <1>6, ConnsReceived
    <2>5. ProcsReady(e)
      BY <1>6, ProcsGoOn DEF ProcOnward, Alive, StdoutEnded
    <2>6. OnlyDeparted'
      BY <1>6, <2>1, QuietStays, DepartedStay
    <2>7. ChildrenKept'
      BY <1>4, <1>6, QuietStays, ChildrenStay DEF Ending
    <2> QED
      BY <1>1, <2>2, <2>3, <2>4, <2>5, <2>6, <2>7, HandlerKept
  <1>7. CASE \E n \in Udatas, s \in Seq(Change) : Serves(u, n, s)
    <2>1. PICK n \in Udatas, s \in Seq(Change) : Serves(u, n, s)
      BY <1>7
    <2>2. /\ Received(c) /\ UNCHANGED m_fd_set
          /\ \A d \in Conns : conn'[d].st = conn[d].st
      <3>1. Received(c) /\ UNCHANGED m_fd_set
        BY <2>1 DEF Serves, Received, c
      <3> QED
        BY <3>1 DEF Received, TypeOK, ConnRecord
    <2>3. Objects'
      BY <2>1, ServesObjects
    <2>4. Carries(s \o <<Add(heap[u].m_client_sock, "READ", n)>>, {}, e)
      BY <1>2, <1>4, <2>1, ServesCarries DEF u
    <2>5. ConnsReady(e)
      BY <1>2, <1>3, <2>2, ConnsReceived
    <2>6. ChildrenKept' /\ ProcsReady(e)
      BY <1>4, <2>1, ServesChildren
    <2>7. SocketsStay
      <3>1. \A f \in Fds : fdt'[f] = fdt[f] \/ f \in FreeFds
        BY <2>1, ServesOwner
      <3> QED
        BY <3>1 DEF SocketsStay, FreeFds
    <2>8. OnlyDeparted'
      BY <2>2, <2>7, DepartedStay
    <2> QED
      BY <1>1, <2>3, <2>4, <2>5, <2>6, <2>8, HandlerKept
  <1> QED
    BY <1>2, <1>5, <1>6, <1>7 DEF u, c

LEMMA ClientWriteEventKept ==
  ASSUME TypeOK, Orderly, Accounts, TypeOK', NEW e, ClientWriteEvent(e)
  PROVE  Accounts'
  <1> DEFINE u == e.udata
             c == heap[u].conn
  <1>1. Dispatch(e) /\ Continue
    BY DEF ClientWriteEvent
  <1>2. /\ e \in event_list /\ u \in LiveUdatas
        /\ e.ident = heap[u].m_client_sock /\ e.filter = "WRITE"
        /\ ClientShape(heap[u]) /\ heap[u].req # 0
        /\ UNCHANGED proc
        /\ \/ /\ m_fd_set' = m_fd_set \cup {e.ident}
              /\ conn[c].st = "reset"
              /\ UNCHANGED <<heap, m_udata_map, change_list, fdt, knotes, conn>>
           \/ /\ Quiet /\ Written(c)
              /\ UNCHANGED <<m_fd_set, change_list, fdt, knotes>>
           \/ /\ Frees(u, <<Delete(e.ident, "WRITE")>>) /\ Written(c)
              /\ UNCHANGED <<fdt, knotes>>
    BY ClientWriteEffect
  <1>3. /\ e.ident \in Fds /\ fdt[e.ident] = SockEntry(c) /\ fdt[e.ident].kind = "sock"
        /\ fdt[e.ident].of = c /\ c \in Conns
    BY <1>2, OwnedSocket
  <1>4. /\ MayOpen' => MayOpen
        /\ pc = "dispatch" /\ GoesOn
    BY <1>1, DispatchBatch
  <1> HIDE DEF u, c
  <1>5. ProcsReady(e)
    BY <1>2, ProcsGoOn DEF ProcOnward, Alive, StdoutEnded
  <1>6. CASE /\ m_fd_set' = m_fd_set \cup {e.ident}
             /\ conn[c].st = "reset"
             /\ UNCHANGED <<heap, m_udata_map, change_list, fdt, knotes, conn>>
    <2>1. Quiet
      BY <1>6 DEF Quiet, SameObject, SameEntry
    <2>2. Objects'
      BY <1>6, <2>1, QuietObjects DEF Accounts
    <2>3. Carries(<<>>, {}, e)
      BY <1>4, <1>6, <2>1, QuietCarries
    <2>4. ConnsReady(e)
      BY <1>6, ConnsGoOn DEF ConnOnward
    <2>5. OnlyDeparted'
      BY <1>3, <1>6, <2>1, QuietStays, DepartedStay
    <2>6. ChildrenKept'
      BY <1>2, <1>4, <2>1, QuietStays, ChildrenStay DEF Ending
    <2> QED
      BY <1>1, <1>5, <2>2, <2>3, <2>4, <2>5, <2>6, HandlerKept
  <1>7. CASE /\ Quiet /\ Written(c)
             /\ UNCHANGED <<m_fd_set, change_list, fdt, knotes>>
    <2>1. \A d \in Conns : conn'[d].st = conn[d].st
      BY <1>7 DEF Written
    <2>2. Objects'
      BY <1>7, <2>1, QuietObjects DEF Accounts
    <2>3. Carries(<<>>, {}, e)
      BY <1>4, <1>7, QuietCarries
    <2>4. ConnsReady(e)
      BY <1>2, <1>3, <1>7, ConnsWritten
    <2>5. OnlyDeparted'
      BY <1>7, <2>1, QuietStays, DepartedStay
    <2>6. ChildrenKept'
      BY <1>2, <1>4, <1>7, QuietStays, ChildrenStay DEF Ending
    <2> QED
      BY <1>1, <1>5, <2>2, <2>3, <2>4, <2>5, <2>6, HandlerKept
  <1>8. CASE /\ Frees(u, <<Delete(e.ident, "WRITE")>>) /\ Written(c)
             /\ UNCHANGED <<fdt, knotes>>
    <2>1. /\ \A d \in Conns : conn'[d].st = conn[d].st
          /\ SocketsStay /\ UNCHANGED m_fd_set
      BY <1>8 DEF Written, SocketsStay, Frees
    <2>2. Objects'
      BY <1>8, FreesObjects
    <2>3. Carries(<<Delete(e.ident, "WRITE")>>, {}, e)
      BY <1>2, <1>4, <1>8, WrittenCarries
    <2>4. ConnsReady(e)
      BY <1>2, <1>3, <1>8, ConnsWritten
    <2>5. OnlyDeparted'
      BY <2>1, DepartedStay
    <2>6. SameChildren({})
      <3>1. /\ heap'[u].st # "live" /\ heap[u].m_child_pid = None
            /\ \A v \in Udatas \ {u} : heap'[v] = heap[v]
        BY <1>2, <1>8 DEF Frees, ClientShape
      <3> QED
        BY <3>1, Positive DEF SameChildren, Childs, None
    <2>7. ChildrenKept'
      BY <1>2, <1>4, <2>6, ChildrenStay DEF Ending
    <2> QED
      BY <1>1, <1>5, <2>2, <2>3, <2>4, <2>5, <2>7, HandlerKept
  <1> QED
    BY <1>2, <1>6, <1>7, <1>8 DEF u, c

(***************************************************************************)
(* The invariant is kept by the handlers of files and pipes.               *)
(***************************************************************************)
\* A handler that leaves everything to whom it was, and the clients alone.
LEMMA QuietKept ==
  ASSUME TypeOK, Accounts, TypeOK', NEW e, Dispatch(e), Continue, Quiet,
         ProcsReady(e), UNCHANGED <<m_fd_set, change_list, knotes, conn>>,
         \A p \in Pids : proc'[p].st = proc[p].st /\ proc'[p].closed = proc[p].closed
  PROVE  Accounts'
  <1>1. /\ MayOpen' => MayOpen
        /\ pc = "dispatch" /\ GoesOn
    BY DispatchBatch
  <1>2. Objects'
    BY QuietObjects DEF Accounts
  <1>3. Carries(<<>>, {}, e)
    BY <1>1, QuietCarries
  <1>4. ConnsReady(e)
    BY ConnsGoOn DEF ConnOnward
  <1>5. OnlyDeparted'
    BY QuietStays, DepartedStay
  <1>6. ChildrenKept'
    BY <1>1, QuietStays, ChildrenStay DEF Ending
  <1> QED
    BY <1>2, <1>3, <1>4, <1>5, <1>6, HandlerKept

\* What an object owns is not a socket.
LEMMA FreedSocketsStay ==
  ASSUME TypeOK, Accounts, NEW u \in LiveUdatas, NEW X, X \subseteq Private(heap[u]),
         \A f \in Fds : fdt'[f] = IF f \in X THEN FreeEntry ELSE fdt[f]
  PROVE  SocketsStay
  <1>1. InShape(heap[u]) /\ Owns(u)
    BY ObjectsParts DEF Accounts, Objects
  <1>2. \A f \in X : fdt[f].kind # "sock"
    BY <1>1, PrivateKind
  <1> QED
    BY <1>2 DEF SocketsStay

\* A file was read or written to its end.
LEMMA FileDoneKept ==
  ASSUME TypeOK, Accounts, TypeOK', NEW e, Dispatch(e), Continue, UNCHANGED proc,
         NEW u, e.udata = u, e \in event_list, heap[u].m_type = "STATIC_FILE",
         Answers(u, {e.ident}, <<Add(heap[u].m_client_sock, "WRITE", u)>>)
  PROVE  Accounts'
  <1> DEFINE s == <<Add(heap[u].m_client_sock, "WRITE", u)>>
  <1>1. /\ MayOpen' => MayOpen
        /\ pc = "dispatch" /\ GoesOn /\ e \in Batch
    BY DispatchBatch
  <1>2. /\ u \in Udatas /\ u \in LiveUdatas /\ Private(heap[u]) = {e.ident}
        /\ InShape(heap[u]) /\ Owns(u) /\ heap[u].m_child_pid = None
        /\ heap[u].m_client_sock \in Fds /\ heap'[u].m_child_pid = None
        /\ \A v \in Udatas \ {u} : heap'[v] = heap[v]
        /\ UNCHANGED <<m_fd_set, conn>>
        /\ \A f \in Fds : fdt'[f] = IF f \in {e.ident} THEN FreeEntry ELSE fdt[f]
    <2>1. u \in Udatas /\ u \in LiveUdatas
      BY DEF Answers, LiveUdatas
    <2>2. InShape(heap[u]) /\ Owns(u)
      BY <2>1, ObjectsParts DEF Accounts, Objects
    <2>3. heap[u].m_child_pid = None
      BY <2>2 DEF InShape, ClientShape, FileShape, PipeShape
    <2> QED
      BY <2>1, <2>2, <2>3, OwnedSocket DEF Answers, ClientShape
  <1>3. e.ident \in Fds
    BY <1>2, PrivateKind
  <1>4. ChangesOf(s) = {Add(heap[u].m_client_sock, "WRITE", u)} \cup {}
    <2>1. Add(heap[u].m_client_sock, "WRITE", u) \in Change
      BY <1>2 DEF Add, Change, FdOrNone
    <2> QED
      BY <2>1, ChangesOfOne
  <1>5. Answers(u, {e.ident}, s)
    OBVIOUS
  <1> HIDE DEF s
  <1>6. Carries(s, {e.ident}, e)
    BY <1>1, <1>2, <1>3, <1>4, <1>5, AnswersCarries
  <1>7. Objects'
    BY <1>5, AnswersObjects
  <1>8. ConnsReady(e) /\ ProcsReady(e)
    BY <1>2, ConnsGoOn, ProcsGoOn DEF ConnOnward, ProcOnward, Alive, StdoutEnded
  <1>9. OnlyDeparted'
    BY <1>2, FreedSocketsStay, DepartedStay
  <1>10. SameChildren({})
    BY <1>2, Positive DEF SameChildren, Childs, None
  <1>11. ChildrenKept'
    BY <1>1, <1>10, ChildrenStay DEF Ending
  <1> QED
    BY <1>6, <1>7, <1>8, <1>9, <1>11, HandlerKept

LEMMA FileEventsKept ==
  ASSUME TypeOK, Orderly, Accounts, TypeOK', NEW e,
         StaticFileReadEvent(e) \/ FileWriteEvent(e)
  PROVE  Accounts'
  <1>1. Dispatch(e) /\ Continue
    BY DEF StaticFileReadEvent, FileWriteEvent
  <1>2. LET u == e.udata IN
        /\ e \in event_list /\ u \in LiveUdatas
        /\ heap[u].m_type = "STATIC_FILE"
        /\ UNCHANGED proc
        /\ \/ Quiet /\ UNCHANGED <<m_fd_set, change_list, knotes, conn>>
           \/ Answers(u, {e.ident}, <<Add(heap[u].m_client_sock, "WRITE", u)>>)
    BY FileReadEffect, FileWriteEffect
  <1>3. ProcsReady(e)
    BY <1>2, ProcsGoOn DEF ProcOnward, Alive, StdoutEnded
  <1> QED
    BY <1>1, <1>2, <1>3, QuietKept, FileDoneKept

\* Only where the loop is has changed.
LEMMA PauseKept ==
  ASSUME TypeOK, Accounts, TypeOK', Batch' \subseteq Batch, MayOpen' => MayOpen,
         Phases', \A u \in Udatas : Ending(u) => Ending(u)',
         UNCHANGED <<heap, m_udata_map, m_fd_set, change_list, fdt, knotes, conn,
                     proc>>
  PROVE  Accounts'
  <1>1. Quiet
    BY DEF Quiet, SameObject, SameEntry
  <1>2. Objects'
    BY <1>1, QuietObjects DEF Accounts
  <1>3. Carries(<<>>, {}, NoEvent)
    BY <1>1, QuietCarries
  <1>4. ConnsReady(NoEvent) /\ ProcsReady(NoEvent)
    BY ConnsGoOn, ProcsGoOn DEF ConnOnward, ProcOnward, Alive, StdoutEnded
  <1>5. OnlyDeparted' /\ ChildrenKept'
    BY <1>1, QuietStays, DepartedStay, ChildrenStay
  <1> QED
    BY <1>2, <1>3, <1>4, <1>5, NobodysEvent, AllKept

LEMMA BrokenPipeKept ==
  ASSUME TypeOK, Accounts, TypeOK', NEW e, BrokenPipe(e)
  PROVE  Accounts'
  <1>1. /\ pc = "dispatch" /\ pc' = "killed" /\ event_list' \subseteq event_list
        /\ UNCHANGED <<heap, m_udata_map, m_fd_set, change_list, fdt, knotes, conn,
                       proc>>
    BY DEF BrokenPipe, Dispatch
  <1>2. Batch' \subseteq Batch /\ (MayOpen' => MayOpen) /\ Phases'
    BY <1>1 DEF Batch, MayOpen, Phases
  <1>3. \A u \in Udatas : ~Ending(u)
    BY <1>1 DEF Ending
  <1> QED
    BY <1>1, <1>2, <1>3, PauseKept

LEMMA PipeReadEventKept ==
  ASSUME TypeOK, Orderly, Accounts, TypeOK', NEW e, PipeReadEvent(e)
  PROVE  Accounts'
  <1>0. PICK u, p : u = e.udata /\ p = heap[u].m_child_pid
    OBVIOUS
  <1>1. /\ e \in event_list /\ u \in LiveUdatas /\ e.filter = "READ"
        /\ PipeShape(heap[u]) /\ e.ident = heap[u].m_read_pipe_fd
        /\ UNCHANGED <<heap, m_udata_map, m_fd_set, change_list, fdt, knotes,
                       conn>>
        /\ \/ Continue /\ proc' = [proc EXCEPT ![p].out = "read"]
           \/ Sleep("reapPipe", e) /\ StdoutEnded(p) /\ UNCHANGED proc
    BY <1>0, PipeReadEffect
  <1>2. Dispatch(e) /\ p \in Pids
    BY <1>0, <1>1 DEF PipeReadEvent, PipeShape
  <1>3. CASE Continue /\ proc' = [proc EXCEPT ![p].out = "read"]
    <2>1. Quiet
      BY <1>1 DEF Quiet, SameObject, SameEntry
    <2>2. ProcsReady(e)
      BY <1>0, <1>1, <1>2, <1>3, ProcsServed
    <2>3. \A q \in Pids : proc'[q].st = proc[q].st /\ proc'[q].closed = proc[q].closed
      BY <1>2, <1>3 DEF TypeOK, ProcRecord
    <2> QED
      BY <1>1, <1>2, <1>3, <2>1, <2>2, <2>3, QuietKept
  <1>4. CASE Sleep("reapPipe", e) /\ StdoutEnded(p) /\ UNCHANGED proc
    <2>1. /\ pc = "dispatch" /\ pc' = "reapPipe" /\ cur' = e
          /\ event_list' = event_list \ {e}
      BY <1>2, <1>4 DEF Dispatch, Sleep
    <2>2. /\ Batch' \subseteq Batch /\ (MayOpen' => MayOpen)
          /\ \A v \in Udatas : ~Ending(v)
      BY <1>1, <2>1 DEF Batch, MayOpen, Ending
    <2>3. Phases'
      BY <1>0, <1>1, <1>4, <2>1 DEF Phases, PipeShape, StdoutEnded, Alive
    <2> QED
      BY <1>1, <1>4, <2>2, <2>3, PauseKept
  <1> QED
    BY <1>1, <1>3, <1>4

LEMMA PipeReadReapedKept ==
  ASSUME TypeOK, Accounts, TypeOK', PipeReadReaped
  PROVE  Accounts'
  <1>0. PICK u, p, e : u = cur.udata /\ p = heap[u].m_child_pid /\ e = cur
    OBVIOUS
  <1> DEFINE s == <<Add(heap[u].m_client_sock, "WRITE", u), Delete(p, "TIMER")>>
  <1>1. /\ u \in LiveUdatas /\ p \in Pids /\ Zombie(p) /\ proc' = Reaped(p)
        /\ PipeShape(heap[u]) /\ e.ident = heap[u].m_read_pipe_fd
        /\ Answers(u, {e.ident}, s)
        /\ pc = "reapPipe" /\ pc' = "dispatch" /\ event_list' = event_list
    BY <1>0, PipeReapedEffect
  <1>2. /\ Batch' = event_list /\ Batch = event_list \cup {e} /\ e \notin event_list
    BY <1>0, <1>1 DEF Batch, Accounts, Phases
  <1>3. /\ Batch' \subseteq Batch /\ \A d \in Batch' : ~SameKey(d, e)
        /\ GoesOn /\ Phases' /\ e \in Batch /\ e.udata = u /\ e.ident \in Fds
    BY <1>0, <1>1, <1>2
    DEF Accounts, BatchKept, BatchProper, GoesOn, Phases, PipeShape
  <1>4. /\ u \in Udatas /\ heap[u].m_client_sock \in Fds
        /\ heap[u].st = "live" /\ heap'[u].m_child_pid = None
        /\ \A v \in Udatas \ {u} : heap'[v] = heap[v]
        /\ UNCHANGED <<m_fd_set, conn>>
        /\ {e.ident} \subseteq Private(heap[u])
        /\ \A f \in Fds : fdt'[f] = IF f \in {e.ident} THEN FreeEntry ELSE fdt[f]
    BY <1>1, OwnedSocket DEF Answers, ClientShape, LiveUdatas
  <1>5. ChangesOf(s) = {Add(heap[u].m_client_sock, "WRITE", u)}
                         \cup {Delete(p, "TIMER")}
    <2>1. /\ Add(heap[u].m_client_sock, "WRITE", u) \in Change
          /\ Delete(p, "TIMER") \in Change
      BY <1>1, <1>4 DEF Add, Delete, Change, FdOrNone, PidOrNone
    <2>2. ChangesOf(s) = {Add(heap[u].m_client_sock, "WRITE", u), Delete(p, "TIMER")}
      BY <2>1, ChangesOfTwo
    <2> QED
      BY <2>2
  <1> HIDE DEF s
  <1>6. Carries(s, {e.ident}, e)
    <2> DEFINE D == {Delete(p, "TIMER")}
    <2>1. D \in {{}, {Delete(heap[u].m_child_pid, "TIMER")}} /\ D # {}
      BY <1>0
    <2>2. ChangesOf(s) = {Add(heap[u].m_client_sock, "WRITE", u)} \cup D
      BY <1>5
    <2> HIDE DEF D
    <2> QED
      BY <1>1, <1>3, <2>1, <2>2, AnswersCarries
  <1>7. Objects'
    BY <1>1, AnswersObjects
  <1>8. /\ proc'[p].st = "reaped" /\ ~proc'[p].full
        /\ \A q \in Pids \ {p} : proc'[q] = proc[q]
    BY <1>1 DEF Reaped, NoProc, TypeOK
  <1>9. ConnsReady(e) /\ ProcsReady(e)
    <2>1. \A q \in Pids : ProcOnward(q)
      BY <1>8 DEF ProcOnward, Alive, StdoutEnded
    <2> QED
      BY <1>4, <2>1, ConnsGoOn, ProcsGoOn DEF ConnOnward
  <1>10. OnlyDeparted'
    BY <1>1, <1>4, FreedSocketsStay, DepartedStay
  <1>11. ChildrenKept'
    <2>1. \A q \in Pids : ~Childs(u, q)'
      BY <1>4, Positive DEF Childs, None
    <2>2. SameChildren({u}) /\ Childs(u, p) /\ \A v \in Udatas : ~Ending(v)
      BY <1>0, <1>1, <1>4 DEF SameChildren, Childs, Ending
    <2> QED
      BY <1>1, <1>4, <2>1, <2>2, ChildReaped
  <1> QED
    BY <1>3, <1>6, <1>7, <1>9, <1>10, <1>11, AllKept

LEMMA PipeWriteEventKept ==
  ASSUME TypeOK, Orderly, Accounts, TypeOK', NEW e, PipeWriteEvent(e)
  PROVE  Accounts'
  <1>0. PICK u, p : u = e.udata /\ p = heap[u].m_child_pid
    OBVIOUS
  <1>1. /\ e \in event_list /\ u \in LiveUdatas /\ e.filter = "WRITE"
        /\ PipeShape(heap[u]) /\ e.ident = heap[u].m_write_pipe_fd
        /\ \/ UNCHANGED proc
           \/ \E b \in BOOLEAN : proc' = [proc EXCEPT ![p].full = b]
        /\ \/ Quiet /\ UNCHANGED <<m_fd_set, change_list, knotes, conn>>
           \/ Shuts(u, e.ident)
    BY <1>0, PipeWriteEffect
  <1>2. Dispatch(e) /\ Continue /\ p \in Pids
    BY <1>0, <1>1 DEF PipeWriteEvent, PipeShape
  <1>3. /\ MayOpen' => MayOpen
        /\ pc = "dispatch" /\ GoesOn /\ e \in Batch
    BY <1>2, DispatchBatch
  <1>4. \A q \in Pids : proc'[q].st = proc[q].st /\ proc'[q].closed = proc[q].closed
    BY <1>1, <1>2 DEF TypeOK, ProcRecord
  <1>5. ProcsReady(e)
    <2>1. CASE UNCHANGED proc
      BY <2>1, ProcsGoOn DEF ProcOnward, Alive, StdoutEnded
    <2>2. ASSUME NEW b \in BOOLEAN, proc' = [proc EXCEPT ![p].full = b]
          PROVE  ProcsReady(e)
      BY <1>0, <1>1, <1>2, <2>2, ProcsServed
    <2> QED
      BY <1>1, <2>1, <2>2
  <1>6. CASE Quiet /\ UNCHANGED <<m_fd_set, change_list, knotes, conn>>
    BY <1>2, <1>4, <1>5, <1>6, QuietKept
  <1>7. CASE Shuts(u, e.ident)
    <2>1. Objects' /\ Carries(<<>>, {e.ident}, e)
      BY <1>3, <1>7, ShutsObjects, ShutsCarries
    <2>2. /\ u \in Udatas /\ heap'[u].st = "live" /\ heap'[u].m_write_pipe_fd = None
          /\ heap[u].st = "live" /\ heap'[u].m_child_pid = heap[u].m_child_pid
          /\ \A v \in Udatas \ {u} : heap'[v] = heap[v]
          /\ UNCHANGED <<m_fd_set, conn>>
          /\ {e.ident} \subseteq Private(heap[u])
          /\ \A f \in Fds : fdt'[f] = IF f \in {e.ident} THEN FreeEntry ELSE fdt[f]
      BY <1>1, <1>7, Positive DEF Shuts, SameRequest, LiveUdatas, Private, None
    <2>3. ConnsReady(e)
      BY <2>2, ConnsGoOn DEF ConnOnward
    <2>4. OnlyDeparted'
      BY <1>1, <2>2, FreedSocketsStay, DepartedStay
    <2>5. SameChildren({})
      BY <2>2 DEF SameChildren, Childs
    <2>6. ChildrenKept'
      BY <1>3, <1>4, <2>5, ChildrenStay DEF Ending
    <2> QED
      BY <1>2, <1>5, <2>1, <2>3, <2>4, <2>6, HandlerKept
  <1> QED
    BY <1>1, <1>6, <1>7

(***************************************************************************)
(* What does not happen.                                                   *)
(***************************************************************************)
LEMMA NoTimeout ==
  ASSUME Accounts
  PROVE  ~CgiTimeoutReaped /\ \A e : ~CgiProcessTimeoutEvent(e)
  <1>1. ~CgiTimeoutReaped
    BY DEF CgiTimeoutReaped, Wake, Accounts, Phases
  <1>2. ASSUME NEW e, CgiProcessTimeoutEvent(e)
        PROVE  FALSE
    BY <1>2
    DEF CgiProcessTimeoutEvent, Dispatch, Batch, Accounts, BatchKept, BatchProper
  <1> QED
    BY <1>1, <1>2

LEMMA NoFreedObject ==
  ASSUME TypeOK, Accounts, NEW u \in Udatas
  PROVE  ~UseAfterFree(u)
  <1> SUFFICES ASSUME UseAfterFree(u) PROVE FALSE
    OBVIOUS
  <1>1. u # ServerUdata /\ ListenFd \notin Fds
    BY Positive DEF ServerUdata, ListenFd
  <1>2. CASE \E e \in event_list : e.udata = u
    <2>1. PICK e \in event_list : e.udata = u
      BY <1>2
    <2>2. Proper(heap, e)
      BY <2>1 DEF Batch, Accounts, BatchKept, BatchProper
    <2> QED
      BY <1>1, <2>1, <2>2 DEF Proper, Mine, UseAfterFree
  <1>3. CASE \E f \in m_fd_set : Registered(f, u)
    <2>1. PICK f \in m_fd_set : Registered(f, u)
      BY <1>3
    <2>2. f \in DOMAIN m_udata_map \ {ListenFd} /\ u \in m_udata_map[f]
      BY <1>1, <2>1 DEF TypeOK, Registered
    <2>3. u \in LiveUdatas
      BY <2>2 DEF Accounts, Objects, MapExact
    <2> QED
      BY <2>3 DEF LiveUdatas, UseAfterFree
  <1> QED
    BY <1>2, <1>3 DEF UseAfterFree

(***************************************************************************)
(* The invariant is kept when clients are torn down.                       *)
(***************************************************************************)
\* Between two batches nothing is left to handle.
LEMMA BetweenKept ==
  ASSUME TypeOK, Accounts, TypeOK', Objects', NEW s, NEW X, Pushes(s, X), Hears(s, X),
         Batch' = {}, OnlyDeparted', ChildrenKept', Phases'
  PROVE  Accounts'
  BY FiltersCarried, NoBatch DEF Accounts

LEMMA ClearUdataKept ==
  ASSUME TypeOK, Orderly, Accounts, TypeOK', NEW f \in m_fd_set, NEW u \in Udatas,
         ClearUdata(f, u)
  PROVE  Accounts'
  <1>1. /\ u \in LiveUdatas /\ heap[u].m_client_sock = f
        /\ heap[u].m_child_pid = None
        /\ Frees(u, <<>>)
        /\ UNCHANGED <<conn, proc, change_list, pc, cur, event_list>>
        /\ pc = "dispatch" /\ event_list = {}
    BY ClearUdataEffect
  <1>2. Objects'
    BY <1>1, FreesObjects
  <1>3. pc' = "dispatch" /\ event_list' = {} /\ Batch' = {} /\ Phases'
    BY <1>1 DEF Batch, Phases
  <1>4. Pushes(<<>>, Private(heap[u])) /\ Hears(<<>>, Private(heap[u]))
    BY <1>1, <1>3, DestroyedPushes
  <1>5. OnlyDeparted'
    BY <1>1, FreedSocketsStay, DepartedStay DEF Frees
  <1>6. SameChildren({})
    BY <1>1, Positive DEF SameChildren, Childs, Frees, None
  <1>7. ChildrenKept'
    BY <1>1, <1>6, ChildrenStay DEF Ending
  <1> QED
    BY <1>2, <1>3, <1>4, <1>5, <1>7, BetweenKept

LEMMA ClearKillKept ==
  ASSUME TypeOK, Orderly, Accounts, TypeOK', NEW f \in m_fd_set, NEW u \in Udatas,
         ClearKill(f, u)
  PROVE  Accounts'
  <1>1. /\ u \in LiveUdatas /\ heap[u].m_client_sock = f /\ Registered(f, u)
        /\ heap[u].m_child_pid \in Pids
        /\ proc' = Terminated(heap[u].m_child_pid)
        /\ pc = "dispatch" /\ pc' = "reapClear" /\ event_list = {}
        /\ cur' = [ident |-> f, filter |-> "READ", udata |-> u, eof |-> FALSE]
        /\ UNCHANGED <<heap, m_udata_map, m_fd_set, change_list, event_list,
                       fdt, knotes, conn>>
    BY ClearKillEffect
  <1>2. Quiet
    BY <1>1 DEF Quiet, SameObject, SameEntry
  <1>3. Objects'
    BY <1>1, <1>2, QuietObjects DEF Accounts
  <1>4. Batch' = {} /\ (MayOpen' => MayOpen)
    BY <1>1 DEF Batch, MayOpen
  <1>5. Phases'
    BY <1>1, Positive DEF Phases, Registered, None
  <1>6. Pushes(<<>>, {}) /\ Hears(<<>>, {})
    BY <1>1, <1>2, <1>4, QuietCarries DEF Carries
  <1>7. OnlyDeparted'
    BY <1>1, <1>2, QuietStays, DepartedStay
  <1>8. ChildrenKept'
    <2>1. Childs(u, heap[u].m_child_pid) /\ Ending(u)'
      BY <1>1 DEF Childs, LiveUdatas, Ending
    <2> QED
      BY <1>1, <2>1, ChildKilled
  <1> QED
    BY <1>3, <1>4, <1>5, <1>6, <1>7, <1>8, BetweenKept

LEMMA ClearReapedKept ==
  ASSUME TypeOK, Orderly, Accounts, TypeOK', ClearReaped
  PROVE  Accounts'
  <1>0. PICK u, p : u = cur.udata /\ p = heap[u].m_child_pid
    OBVIOUS
  <1> DEFINE s == <<Delete(p, "TIMER")>>
  <1>1. /\ u \in LiveUdatas /\ heap[u].m_client_sock = cur.ident
        /\ cur.ident \in m_fd_set
        /\ p \in Pids /\ Zombie(p) /\ proc' = Reaped(p)
        /\ Frees(u, s)
        /\ UNCHANGED <<conn, event_list>>
        /\ pc = "reapClear" /\ pc' = "dispatch" /\ event_list = {}
    BY <1>0, ClearReapedEffect
  <1>2. s = <<Delete(heap[u].m_child_pid, "TIMER")>>
    BY <1>0
  <1> HIDE DEF s
  <1>3. Objects'
    BY <1>1, FreesObjects
  <1>4. event_list' = {} /\ Batch' = {} /\ Phases'
    BY <1>1 DEF Batch, Phases
  <1>5. Pushes(s, Private(heap[u])) /\ Hears(s, Private(heap[u]))
    BY <1>1, <1>2, <1>4, DestroyedPushes
  <1>6. OnlyDeparted'
    BY <1>1, FreedSocketsStay, DepartedStay DEF Frees
  <1>7. ChildrenKept'
    <2>1. /\ u \in Udatas /\ Childs(u, p)
          /\ \A q \in Pids : ~Childs(u, q)'
          /\ \A v \in Udatas \ {u} : ~Ending(v)
          /\ SameChildren({u})
      BY <1>0, <1>1 DEF Childs, Ending, SameChildren, Frees, LiveUdatas
    <2> QED
      BY <1>1, <2>1, ChildReaped
  <1> QED
    BY <1>3, <1>4, <1>5, <1>6, <1>7, BetweenKept

LEMMA ClearSocketKept ==
  ASSUME TypeOK, Accounts, TypeOK', NEW f \in m_fd_set, ClearSocket(f)
  PROVE  Accounts'
  <1>1. /\ f \in Fds /\ fdt[f].kind = "sock" /\ HasLeft(fdt[f].of)
        /\ fdt[f].of \in Conns /\ fdt[f] = SockEntry(fdt[f].of)
        /\ \A g \in Fds : fdt'[g] = IF g = f THEN FreeEntry ELSE fdt[g]
        /\ \A c \in Conns : conn'[c].st = IF c = fdt[f].of THEN "closed"
                                          ELSE conn[c].st
        /\ m_fd_set' = m_fd_set \ {f}
        /\ UNCHANGED <<heap, m_udata_map, change_list, proc, pc, cur, event_list>>
        /\ pc = "dispatch" /\ event_list = {}
    BY ClearSocketEffect
  <1>2. Objects'
    BY ClearSocketObjects
  <1>3. pc' = "dispatch" /\ Batch' = {} /\ Phases'
    BY <1>1 DEF Batch, Phases
  <1>4. Pushes(<<>>, {f}) /\ Hears(<<>>, {f})
    BY ClearSocketPushes
  <1>5. OnlyDeparted'
    <2>1. ASSUME NEW g \in m_fd_set'
          PROVE  Is(g, "sock")' /\ HasLeft(fdt[g].of)'
      <3>1. g # f /\ g \in Fds /\ fdt[g].kind = "sock" /\ HasLeft(fdt[g].of)
        BY <1>1, <2>1 DEF Accounts, OnlyDeparted, Is
      <3>2. /\ fdt[g].of \in Conns /\ fdt[g] = SockEntry(fdt[g].of)
            /\ \A h \in Fds : fdt[h] = fdt[g] => h = g
        BY <3>1, SocketOf
      <3>3. fdt[g].of # fdt[f].of /\ fdt'[g] = fdt[g]
        BY <1>1, <3>1, <3>2
      <3>4. conn'[fdt[g].of].st = conn[fdt[g].of].st
        BY <1>1, <3>2, <3>3
      <3> QED
        BY <3>1, <3>3, <3>4 DEF Is, HasLeft
    <2>2. ASSUME NEW c \in Conns, HasLeft(c)'
          PROVE  conn'[c].st \in Faults
      BY <1>1, <2>2 DEF HasLeft, Accounts, OnlyDeparted
    <2> QED
      BY <2>1, <2>2 DEF OnlyDeparted
  <1>6. ChildrenKept'
    <2>1. SameChildren({})
      BY <1>1 DEF SameChildren, Childs
    <2> QED
      BY <1>1, <2>1, ChildrenStay DEF Ending
  <1> QED
    BY <1>2, <1>3, <1>4, <1>5, <1>6, BetweenKept

LEMMA EndBatchKept ==
  ASSUME TypeOK, Accounts, TypeOK', EndBatch
  PROVE  Accounts'
  <1>1. /\ pc = "dispatch" /\ pc' = "kevent" /\ event_list = {} /\ m_fd_set = {}
        /\ UNCHANGED <<heap, m_udata_map, m_fd_set, change_list, event_list, fdt,
                       knotes, conn, proc>>
    BY DEF EndBatch
  <1>2. Batch' \subseteq Batch /\ (MayOpen' => MayOpen) /\ Phases'
    BY <1>1 DEF Batch, MayOpen, Phases
  <1>3. \A u \in Udatas : ~Ending(u)
    BY <1>1 DEF Ending
  <1> QED
    BY <1>1, <1>2, <1>3, PauseKept

(***************************************************************************)
(* The invariant is kept by kevent().                                      *)
(***************************************************************************)
LEMMA TailOf ==
  ASSUME NEW l \in Seq(Change), l # <<>>
  PROVE  /\ Len(l) \in Nat /\ Len(l) >= 1 /\ Head(l) = l[1] /\ l[1] \in Change
         /\ Tail(l) \in Seq(Change) /\ Len(Tail(l)) = Len(l) - 1
         /\ \A i \in 1 .. Len(l) - 1 : Tail(l)[i] = l[i + 1]
  BY LenProperties, HeadTailProperties, EmptySeq

\* The rest of a list decides about what all of it did, but for its head.
LEMMA OverruledByTail ==
  ASSUME NEW l \in Seq(Change), l # <<>>, NEW x
  PROVE  /\ \A i \in Nat \ {0} : Overruled(Tail(l), x, i) <=> Overruled(l, x, i + 1)
         /\ Overruled(l, x, 1) <=> SameKey(Head(l), x) \/ Overruled(Tail(l), x, 1)
  <1>1. ASSUME NEW i \in Nat \ {0}, Overruled(Tail(l), x, i)
        PROVE  Overruled(l, x, i + 1)
    <2>1. PICK j \in 1 .. Len(Tail(l)) : j >= i /\ SameKey(Tail(l)[j], x)
      BY <1>1 DEF Overruled
    <2>2. j + 1 \in 1 .. Len(l) /\ j + 1 >= i + 1 /\ SameKey(l[j + 1], x)
      BY <2>1, TailOf
    <2> QED
      BY <2>2 DEF Overruled
  <1>2. ASSUME NEW i \in Nat \ {0}, Overruled(l, x, i + 1)
        PROVE  Overruled(Tail(l), x, i)
    <2>1. PICK j \in 1 .. Len(l) : j >= i + 1 /\ SameKey(l[j], x)
      BY <1>2 DEF Overruled
    <2>2. j - 1 \in 1 .. Len(Tail(l)) /\ j - 1 >= i /\ Tail(l)[j - 1] = l[(j - 1) + 1]
      BY <2>1, TailOf
    <2>3. SameKey(Tail(l)[j - 1], x)
      BY <2>1, <2>2
    <2> QED
      BY <2>2, <2>3 DEF Overruled
  <1>3. Overruled(l, x, 1) <=> SameKey(l[1], x) \/ Overruled(l, x, 2)
    BY TailOf DEF Overruled
  <1>4. Overruled(Tail(l), x, 1) <=> Overruled(l, x, 2)
    BY <1>1, <1>2
  <1> QED
    BY <1>1, <1>2, <1>3, <1>4, TailOf

\* Applying the first change leaves every filter leading where the list said.
LEMMA RegistersApplied ==
  ASSUME TypeOK, ApplyChange, NEW id, NEW filter, NEW u,
         Registrable(Add(id, filter, u)),
         Registers(knotes, change_list, id, filter, u)
  PROVE  Registers(knotes', change_list', id, filter, u)
  <1> DEFINE k == [ident |-> id, filter |-> filter, udata |-> u]
             l == change_list
  <1>0. PICK ch, others : /\ ch = Head(l)
                          /\ others = {x \in knotes : ~SameKnote(x, ch)}
    OBVIOUS
  <1>1. l # <<>> /\ change_list' = Tail(l) /\ l \in Seq(Change)
    BY DEF ApplyChange, TypeOK
  <1>2. knotes' = CASE ch.op = "DELETE" -> others
                    [] ch.op = "ADD" /\ Registrable(ch) -> others \cup {KnoteOf(ch)}
                    [] OTHER -> knotes
    BY <1>0 DEF ApplyChange
  <1>3. ch \in Change /\ ch = l[1] /\ ch.op \in {"ADD", "DELETE"}
    BY <1>0, <1>1, TailOf DEF Change
  <1>4. CASE k \in knotes /\ ~Overruled(l, k, 1)
    <2>1. ~SameKey(ch, k) /\ ~Overruled(Tail(l), k, 1)
      BY <1>0, <1>1, <1>4, OverruledByTail
    <2>2. k \in others
      BY <1>0, <1>4, <2>1 DEF SameKnote, SameKey
    <2>3. k \in knotes'
      BY <1>2, <1>3, <1>4, <2>2
    <2> QED
      BY <1>1, <2>1, <2>3 DEF Registers
  <1>5. ASSUME NEW i \in 1 .. Len(l), l[i] = Add(id, filter, u),
               ~Overruled(l, k, i + 1)
        PROVE  Registers(knotes', Tail(l), id, filter, u)
    <2>1. CASE i = 1
      <3>1. /\ ch = Add(id, filter, u) /\ ch.op = "ADD" /\ Registrable(ch)
            /\ KnoteOf(ch) = k
        BY <1>3, <1>5, <2>1 DEF Add, KnoteOf
      <3>2. k \in knotes'
        BY <1>2, <3>1
      <3>3. ~Overruled(Tail(l), k, 1)
        BY <1>1, <1>5, <2>1, OverruledByTail
      <3> QED
        BY <3>2, <3>3 DEF Registers
    <2>2. CASE i # 1
      <3>1. PICK j \in 1 .. Len(Tail(l)) : j + 1 = i /\ j \in Nat \ {0}
        <4>1. /\ i - 1 \in 1 .. Len(Tail(l)) /\ (i - 1) + 1 = i
              /\ i - 1 \in Nat \ {0}
          BY <1>1, <1>5, <2>2, TailOf
        <4> QED
          BY <4>1
      <3>2. Tail(l)[j] = Add(id, filter, u)
        BY <1>1, <1>5, <3>1, TailOf
      <3>3. ~Overruled(Tail(l), k, j + 1)
        <4>1. j + 1 \in Nat \ {0} /\ ~Overruled(l, k, (j + 1) + 1)
          BY <1>5, <3>1
        <4> QED
          BY <1>1, <4>1, OverruledByTail
      <3> QED
        BY <3>2, <3>3 DEF Registers
    <2> QED
      BY <2>1, <2>2
  <1> QED
    BY <1>1, <1>4, <1>5 DEF Registers

LEMMA ApplyChangeKept ==
  ASSUME TypeOK, Accounts, TypeOK', ApplyChange
  PROVE  Accounts'
  <1>0. PICK ch, others : /\ ch = Head(change_list)
                          /\ others = {k \in knotes : ~SameKnote(k, ch)}
    OBVIOUS
  <1>1. /\ pc = "kevent" /\ change_list # <<>>
        /\ change_list' = Tail(change_list)
        /\ change_list \in Seq(Change)
        /\ UNCHANGED <<heap, m_udata_map, m_fd_set, event_list, pc, cur, fdt,
                       conn, proc>>
    BY DEF ApplyChange, TypeOK
  <1>2. knotes' = CASE ch.op = "DELETE" -> others
                    [] ch.op = "ADD" /\ Registrable(ch) -> others \cup {KnoteOf(ch)}
                    [] OTHER -> knotes
    BY <1>0 DEF ApplyChange
  <1>3. /\ event_list = {} /\ m_fd_set = {} /\ Batch' = {} /\ ~MayOpen'
        /\ m_fd_set' = {} /\ Phases'
    BY <1>1 DEF Accounts, Phases, Batch, MayOpen
  <1>4. ch \in Change /\ ch = change_list[1] /\ ch.op \in {"ADD", "DELETE"}
    BY <1>0, <1>1, TailOf DEF Change
  <1>5. ASSUME NEW k \in knotes, SameKey(ch, k), ~Registrable(ch)
        PROVE  About(k, FreeFds)
    BY <1>5 DEF SameKey, About, Registrable, TypeOK, Knote, FreeFds
  <1>6. Objects'
    <2>1. Quiet
      BY <1>1 DEF Quiet, SameObject, SameEntry
    <2> QED
      BY <1>1, <2>1, QuietObjects DEF Accounts
  <1>7. \A k \in others : k \in knotes /\ ~SameKey(ch, k)
    BY <1>0 DEF SameKnote, SameKey
  <1>8. KnotesApart' /\ KnotesOpen'
    <2>1. KnotesApart /\ KnotesOpen
      BY DEF Accounts, FiltersKept
    <2>2. \A k \in knotes' : k \in knotes \/ k = KnoteOf(ch)
      BY <1>2, <1>4, <1>7
    <2>3. \A k \in knotes' : SameKey(ch, k) => k = KnoteOf(ch) \/ knotes' = knotes
      BY <1>2, <1>4, <1>7
    <2>4. KnotesApart'
      <3>1. SameKey(ch, KnoteOf(ch)) /\ \A k : SameKey(KnoteOf(ch), k) <=> SameKey(ch, k)
        BY DEF SameKey, KnoteOf
      <3> QED
        BY <2>1, <2>2, <2>3, <3>1 DEF KnotesApart, SameKey
    <2>5. KnoteOf(ch) \in knotes' \ knotes => Registrable(ch)
      BY <1>2, <1>4, <1>7
    <2>6. Registrable(ch) => ~About(KnoteOf(ch), FreeFds)
      BY Positive DEF Registrable, About, KnoteOf, FreeFds
    <2>7. KnotesOpen'
      BY <1>1, <2>1, <2>2, <2>5, <2>6 DEF KnotesOpen, About, FreeFds
    <2> QED
      BY <2>4, <2>7
  <1>9. KnotesProper'
    <2> SUFFICES ASSUME NEW k \in knotes'
                 PROVE  Proper(heap, k) \/ Overruled(Tail(change_list), k, 1)
      BY <1>1 DEF KnotesProper
    <2>1. CASE k \in knotes
      <3>1. Proper(heap, k) \/ Overruled(change_list, k, 1)
        BY <1>3, <2>1 DEF Accounts, FiltersKept, KnotesProper, About
      <3>2. ASSUME SameKey(ch, k), k # KnoteOf(ch)
            PROVE  FALSE
        <4>1. ~Registrable(ch) /\ ch.op = "ADD"
          BY <1>2, <1>4, <1>7, <3>2
        <4>2. About(k, FreeFds)
          BY <1>5, <2>1, <3>2, <4>1
        <4> QED
          BY <2>1, <4>2 DEF Accounts, FiltersKept, KnotesOpen
      <3>3. ASSUME k = KnoteOf(ch), ch.op = "DELETE"
            PROVE  FALSE
        BY <1>2, <1>7, <3>3 DEF SameKey, KnoteOf
      <3>4. k = KnoteOf(ch) => SameKey(ch, k)
        BY DEF SameKey, KnoteOf
      <3>5. CASE k # KnoteOf(ch)
        BY <1>0, <1>1, <3>1, <3>2, <3>5, OverruledByTail
      <3>6. CASE k = KnoteOf(ch)
        <4>1. ch.op = "ADD" /\ ~About(ch, FreeFds)
          BY <1>4, <2>1, <3>3, <3>6
          DEF Accounts, FiltersKept, KnotesOpen, About, KnoteOf
        <4>2. \/ Proper(heap, ch) \/ Overruled(change_list, ch, 2)
          BY <1>1, <1>3, <1>4, <4>1, TailOf
          DEF Accounts, FiltersKept, ChangesProper, About
        <4>3. Overruled(change_list, ch, 2) => Overruled(Tail(change_list), ch, 1)
          BY <1>1, OverruledByTail
        <4> QED
          BY <3>6, <4>2, <4>3 DEF Proper, Overruled, SameKey, KnoteOf
      <3> QED
        BY <3>5, <3>6
    <2>2. CASE k \notin knotes
      <3>1. k = KnoteOf(ch) /\ ch.op = "ADD" /\ Registrable(ch)
        BY <1>2, <1>4, <1>7, <2>2
      <3>2. ~About(ch, FreeFds)
        BY <3>1, Positive DEF Registrable, About, FreeFds
      <3>3. \/ Proper(heap, ch) \/ Overruled(change_list, ch, 2)
        BY <1>1, <1>3, <1>4, <3>1, <3>2, TailOf
        DEF Accounts, FiltersKept, ChangesProper, About
      <3>4. Overruled(change_list, ch, 2) => Overruled(Tail(change_list), ch, 1)
        BY <1>1, OverruledByTail
      <3> QED
        BY <3>1, <3>3, <3>4 DEF Proper, Overruled, SameKey, KnoteOf
    <2> QED
      BY <2>1, <2>2
  <1>10. ChangesProper'
    <2> SUFFICES ASSUME NEW i \in 1 .. Len(Tail(change_list)),
                        Tail(change_list)[i].op = "ADD"
                 PROVE  LET x == Tail(change_list)[i] IN
                        \/ Proper(heap, x)
                        \/ Overruled(Tail(change_list), x, i + 1)
                        \/ About(x, FreeFds)
      BY <1>1, <1>3 DEF ChangesProper, FreeFds, About
    <2>1. PICK x : x = Tail(change_list)[i]
      OBVIOUS
    <2>2. /\ i + 1 \in 1 .. Len(change_list) /\ x = change_list[i + 1]
          /\ i + 1 \in Nat \ {0} /\ x.op = "ADD"
      BY <1>1, <2>1, TailOf
    <2>3. \/ Proper(heap, x) \/ Overruled(change_list, x, (i + 1) + 1)
          \/ About(x, FreeFds)
      BY <1>3, <2>2 DEF Accounts, FiltersKept, ChangesProper, About
    <2> QED
      BY <1>1, <2>1, <2>2, <2>3, OverruledByTail
  <1>11. Heard'
    <2> SUFFICES ASSUME NEW f \in Fds, Is(f, "sock")
                 PROVE  \E u \in Udatas :
                          /\ Reads(u, f)
                          /\ Registers(knotes', change_list', f, "READ", u)
      BY <1>1 DEF Heard, Is, Reads, LiveUdatas
    <2>1. PICK u \in Udatas : /\ Reads(u, f)
                              /\ Registers(knotes, change_list, f, "READ", u)
      BY <1>3 DEF Accounts, FiltersKept, Heard
    <2>2. Registrable(Add(f, "READ", u))
      BY DEF Registrable, Add, Is, FreeFds
    <2> QED
      BY <2>1, <2>2, RegistersApplied
  <1>12. OnlyDeparted' /\ ChildrenKept'
    <2>1. SocketsStay /\ SameChildren({})
      BY <1>1 DEF SocketsStay, SameChildren, Childs
    <2> QED
      BY <1>1, <2>1, DepartedStay, ChildrenStay DEF Ending
  <1> QED
    BY <1>3, <1>6, <1>8, <1>9, <1>10, <1>11, <1>12, NoBatch
    DEF Accounts, FiltersKept, ChangesOpen

\* What kevent() reports is so.
LEMMA ReportedReady ==
  ASSUME TypeOK, KnotesApart, NEW d \in ReadyEvents
  PROVE  /\ d.filter # "TIMER" /\ StillReady(d)
         /\ \E k \in knotes : /\ k.ident = d.ident /\ k.filter = d.filter
                              /\ k.udata = d.udata
         /\ \A e \in ReadyEvents : SameKey(d, e) => d = e
  <1> DEFINE Told(e, k) ==
               /\ e = EventOf(k, e.eof) /\ k.ident = e.ident
               /\ k.filter = e.filter /\ k.udata = e.udata
               /\ \/ /\ k.filter = "READ" /\ k.ident \in Fds /\ Readable(k.ident)
                     /\ e.eof = ReadEof(k.ident)
                  \/ /\ k.filter = "WRITE" /\ k.ident \in Fds /\ Writable(k.ident)
                     /\ e.eof = WriteEof(k.ident)
                  \/ /\ k.ident = ListenFd /\ k.ident \notin Fds
                     /\ k.filter = "READ" /\ e.eof = FALSE
  <1>1. ASSUME NEW e \in ReadyEvents
        PROVE  \E k \in knotes : Told(e, k)
    <2>1. ASSUME NEW k \in knotes, k.filter = "READ", k.ident \in Fds,
                 Readable(k.ident), e = EventOf(k, ReadEof(k.ident))
          PROVE  Told(e, k)
      BY <2>1 DEF EventOf
    <2>2. ASSUME NEW k \in knotes, k.filter = "WRITE", k.ident \in Fds,
                 Writable(k.ident), e = EventOf(k, WriteEof(k.ident))
          PROVE  Told(e, k)
      BY <2>2 DEF EventOf
    <2>3. ASSUME NEW k \in knotes, k.ident = ListenFd, e = EventOf(k, FALSE)
          PROVE  Told(e, k)
      <3>1. k.filter = "READ" /\ k.ident \notin Fds
        BY <2>3, Positive DEF TypeOK, Knote
      <3> QED
        BY <2>3, <3>1 DEF EventOf
    <2> QED
      BY <2>1, <2>2, <2>3 DEF ReadyEvents
  <1>2. ASSUME NEW e \in ReadyEvents, SameKey(d, e)
        PROVE  d = e
    <2>1. PICK j \in knotes : Told(d, j)
      BY <1>1
    <2>2. PICK k \in knotes : Told(e, k)
      BY <1>1
    <2>3. j = k
      BY <1>2, <2>1, <2>2 DEF SameKey, KnotesApart
    <2>4. d.eof = e.eof
      BY <2>1, <2>2, <2>3
    <2> QED
      BY <2>1, <2>2, <2>3, <2>4
  <1>3. PICK k \in knotes : Told(d, k)
    BY <1>1
  <1>4. StillReady(d)
    <2>1. CASE d.ident \notin Fds
      BY <2>1 DEF StillReady, Is
    <2>2. CASE /\ d.filter = "READ" /\ d.ident \in Fds /\ Readable(d.ident)
               /\ d.eof = ReadEof(d.ident)
      BY <2>2 DEF StillReady, Is, Readable, ReadEof
    <2>3. CASE /\ d.filter = "WRITE" /\ d.ident \in Fds /\ Writable(d.ident)
               /\ d.eof = WriteEof(d.ident)
      BY <2>3 DEF StillReady, Is, Writable, WriteEof
    <2> QED
      BY <1>3, <2>1, <2>2, <2>3
  <1>5. d.filter # "TIMER"
    BY <1>3
  <1> QED
    BY <1>2, <1>3, <1>4, <1>5

LEMMA PollKept ==
  ASSUME TypeOK, Orderly, Accounts, TypeOK', Poll
  PROVE  Accounts'
  <1>1. /\ pc = "kevent" /\ change_list = <<>> /\ pc' = "dispatch"
        /\ event_list' \subseteq ReadyEvents
        /\ UNCHANGED <<heap, m_udata_map, m_fd_set, change_list, cur, fdt, conn,
                       proc, knotes>>
    <2>1. PICK batch \in Batches({}) :
            /\ pc = "kevent" /\ change_list = <<>>
            /\ event_list' = batch
            /\ knotes' = knotes \ {k \in {} : EventOf(k, FALSE) \in batch}
            /\ pc' = "dispatch"
            /\ UNCHANGED <<heap, m_udata_map, m_fd_set, change_list, cur, fdt,
                           conn, proc>>
      BY DEF Poll, Orderly
    <2>2. batch \subseteq ReadyEvents
      BY <2>1 DEF Batches
    <2> QED
      BY <2>1, <2>2
  <1>2. m_fd_set = {} /\ Batch' = event_list' /\ Phases' /\ Len(change_list) = 0
    BY <1>1 DEF Accounts, Phases, Batch
  <1>3. Objects'
    <2>1. Quiet
      BY <1>1 DEF Quiet, SameObject, SameEntry
    <2> QED
      BY <1>1, <2>1, QuietObjects DEF Accounts
  <1>4. FiltersKept'
    <2>1. KnotesApart' /\ KnotesOpen' /\ KnotesProper'
      BY <1>1
      DEF Accounts, FiltersKept, KnotesApart, KnotesOpen, KnotesProper, About,
          FreeFds, Overruled
    <2>2. ChangesProper' /\ ChangesOpen'
      BY <1>1, <1>2 DEF ChangesProper, ChangesOpen
    <2>3. Heard'
      BY <1>1
      DEF Accounts, FiltersKept, Heard, Is, Reads, LiveUdatas
    <2> QED
      BY <2>1, <2>2, <2>3 DEF FiltersKept
  <1>5. BatchKept'
    <2>1. ASSUME NEW d \in Batch'
          PROVE  /\ Proper(heap', d) /\ d.filter # "TIMER" /\ StillReady(d)'
                 /\ \A e \in Batch' : SameKey(d, e) => d = e
      <3>1. KnotesApart /\ d \in ReadyEvents /\ Batch' \subseteq ReadyEvents
        BY <1>1, <1>2 DEF Accounts, FiltersKept
      <3>2. StillReady(d)' <=> StillReady(d)
        BY <1>1 DEF StillReady, Is, StdoutEnded, Alive
      <3>3. \A k \in knotes : Proper(heap, k)
        BY <1>2 DEF Accounts, FiltersKept, KnotesProper, Overruled, About
      <3>4. Proper(heap, d)
        BY <3>1, <3>3, ReportedReady DEF Proper
      <3> QED
        BY <1>1, <3>1, <3>2, <3>4, ReportedReady
    <2>2. BatchFirst'
      BY <1>1, <1>2 DEF BatchFirst
    <2> QED
      BY <2>1, <2>2 DEF BatchKept, BatchProper, BatchReady
  <1>6. OnlyDeparted' /\ ChildrenKept'
    <2>1. SocketsStay /\ SameChildren({})
      BY <1>1 DEF SocketsStay, SameChildren, Childs
    <2> QED
      BY <1>1, <2>1, DepartedStay, ChildrenStay DEF Ending
  <1> QED
    BY <1>2, <1>3, <1>4, <1>5, <1>6 DEF Accounts

(***************************************************************************)
(* The invariant is kept by clients and children.                          *)
(***************************************************************************)
\* A step of a client or child, which leaves the server alone.
LEMMA OutsideKept ==
  ASSUME TypeOK, Accounts, TypeOK', ServerUnchanged,
         \A c \in Conns : conn[c].st \in {"open", "fin", "reset"} =>
                            /\ ConnOnward(c)
                            /\ conn'[c].st \in {"open", "fin", "reset"},
         \A c \in Conns : conn'[c].st \in {"fin", "reset"} =>
                            conn'[c].st = conn[c].st \/ conn'[c].st \in Faults,
         \A p \in Pids : Alive(p) \/ Zombie(p) =>
                           ProcOnward(p) /\ (StdoutEnded(p) => StdoutEnded(p)'),
         ChildrenKept'
  PROVE  Accounts'
  <1>1. UNCHANGED <<heap, m_udata_map, m_fd_set, change_list, event_list, pc, cur,
                    fdt, knotes>>
    BY DEF ServerUnchanged
  <1>2. Quiet /\ Batch' \subseteq Batch /\ (MayOpen' => MayOpen)
    BY <1>1 DEF Quiet, SameObject, SameEntry, Batch, MayOpen
  <1>3. Objects'
    BY <1>2, QuietObjects DEF Accounts
  <1>4. Carries(<<>>, {}, NoEvent)
    BY <1>1, <1>2, QuietCarries
  <1>5. ConnsReady(NoEvent) /\ ProcsReady(NoEvent)
    BY ConnsGoOn, ProcsGoOn
  <1>6. OnlyDeparted'
    BY <1>1, <1>2, QuietStays, DepartedStay DEF ConnOnward
  <1>7. Phases'
    <2>1. ASSUME pc = "reapPipe"
          PROVE  StdoutEnded(heap[cur.udata].m_child_pid)'
      <3>1. PICK p : p = heap[cur.udata].m_child_pid
        OBVIOUS
      <3>2. /\ cur.udata \in LiveUdatas /\ heap[cur.udata].m_type = "PIPE"
            /\ StdoutEnded(p)
        BY <2>1, <3>1 DEF Accounts, Phases, TypeOK, LiveUdatas
      <3>3. PipeShape(heap[cur.udata])
        BY <3>2 DEF Accounts, Objects, Shaped, ClientShape, FileShape
      <3>4. p \in Pids /\ (Alive(p) \/ Zombie(p))
        BY <3>1, <3>2, <3>3, Positive
        DEF PipeShape, Accounts, ChildrenKept, None
      <3>5. StdoutEnded(p)'
        BY <3>2, <3>4
      <3> QED
        BY <1>1, <3>1, <3>5 DEF StdoutEnded, Alive
    <2> QED
      BY <1>1, <2>1 DEF Accounts, Phases, Registered
  <1> QED
    BY <1>2, <1>3, <1>4, <1>5, <1>6, <1>7, NobodysEvent, AllKept

LEMMA ClientKept ==
  ASSUME TypeOK, Accounts, TypeOK', NEW c \in Conns, Client(c)
  PROVE  Accounts'
  <1>1. ServerUnchanged /\ UNCHANGED proc
    BY DEF Client, Connect, Send, Drain, Fin, Reset, Abort
  <1>2. \A d \in Conns \ {c} : conn'[d] = conn[d]
    BY DEF Client, Connect, Send, Drain, Fin, Reset, Abort, TypeOK
  <1>3. /\ conn[c].sent \in Int /\ conn[c].rcvd \in Int
        /\ conn[c] \in ConnRecord /\ conn \in [Conns -> ConnRecord]
    BY ServerAssumption DEF TypeOK, ConnRecord, SegmentNo
  <1>4. /\ conn[c].st \in {"open", "fin", "reset"} =>
             ConnOnward(c) /\ conn'[c].st \in {"open", "fin", "reset"}
        /\ conn'[c].st \in {"fin", "reset"} =>
             conn'[c].st = conn[c].st \/ conn'[c].st \in Faults
    <2>1. CASE Connect(c)
      BY <1>3, <2>1 DEF Connect, ConnOnward, ConnRecord
    <2>2. CASE Send(c)
      BY <1>3, <2>2 DEF Send, ConnOnward, ConnRecord
    <2>3. CASE Drain(c)
      BY <1>3, <2>3 DEF Drain, ConnOnward, ConnRecord
    <2>4. CASE Fin(c)
      BY <1>3, <2>4 DEF Fin, ConnOnward, ConnRecord
    <2>5. CASE Reset(c)
      BY <1>3, <2>5 DEF Reset, ConnOnward, ConnRecord
    <2>6. CASE Abort(c)
      BY <1>3, <2>6 DEF Abort, ConnOnward, ConnRecord
    <2> QED
      BY <2>1, <2>2, <2>3, <2>4, <2>5, <2>6 DEF Client
  <1>5. \A d \in Conns :
          /\ conn[d].st \in {"open", "fin", "reset"} =>
               ConnOnward(d) /\ conn'[d].st \in {"open", "fin", "reset"}
          /\ conn'[d].st \in {"fin", "reset"} =>
               conn'[d].st = conn[d].st \/ conn'[d].st \in Faults
    BY <1>2, <1>4 DEF ConnOnward
  <1>6. \A p \in Pids : ProcOnward(p) /\ (StdoutEnded(p) => StdoutEnded(p)')
    BY <1>1 DEF ProcOnward, StdoutEnded, Alive
  <1>7. ChildrenKept'
    <2>1. SameChildren({})
      BY <1>1 DEF ServerUnchanged, SameChildren, Childs
    <2> QED
      BY <1>1, <2>1, ChildrenStay DEF ServerUnchanged, Ending
  <1> QED
    BY <1>1, <1>5, <1>6, <1>7, OutsideKept

\* The child p goes on by itself.
LEMMA ChildGoesOn ==
  ASSUME TypeOK, Accounts, TypeOK', ServerUnchanged, UNCHANGED conn, NEW p \in Pids,
         \A q \in Pids \ {p} : proc'[q] = proc[q],
         Alive(p) \/ Zombie(p), Alive(p)' \/ Zombie(p)',
         ProcOnward(p), StdoutEnded(p) => StdoutEnded(p)',
         \A u \in LiveUdatas : heap[u].m_child_pid = p /\ KeptBy(u, p)
                                 => KeptBy(u, p)'
  PROVE  Accounts'
  <1>0. ChildrenParts /\ UNCHANGED <<heap, pc, cur>>
    BY ChildrenInParts DEF Accounts, ServerUnchanged
  <1>1. ASSUME NEW u \in Udatas, NEW q \in Pids, Childs(u, q)'
        PROVE  KeptBy(u, q)'
    <2>1. Childs(u, q) /\ KeptBy(u, q)
      BY <1>0, <1>1 DEF ChildrenParts, Childs
    <2>2. CASE q = p
      BY <2>1, <2>2 DEF Childs, LiveUdatas
    <2>3. CASE q # p
      BY <1>0, <2>1, <2>3 DEF KeptBy, Alive, Zombie, Ending
    <2> QED
      BY <2>2, <2>3
  <1>2. ASSUME NEW q \in Pids, Alive(q)' \/ Zombie(q)'
        PROVE  \E u \in Udatas : Childs(u, q)'
    <2>1. Alive(q) \/ Zombie(q)
      BY <1>2 DEF Alive, Zombie
    <2> QED
      BY <1>0, <2>1 DEF ChildrenParts, Childs
  <1>3. \A q \in Pids : proc'[q].st = "none" => ~proc'[q].closed
    BY <1>0 DEF ChildrenParts, Alive, Zombie
  <1>4. ChildrenKept'
    BY <1>1, <1>2, <1>3, ChildrenInPartsPrime DEF ChildrenParts
  <1>5. \A q \in Pids : ProcOnward(q) /\ (StdoutEnded(q) => StdoutEnded(q)')
    BY DEF ProcOnward, StdoutEnded, Alive
  <1> QED
    BY <1>4, <1>5, OutsideKept DEF ConnOnward

\* Only a child that is sent a body has a pipe to read it from.
LEMMA NoInput ==
  ASSUME Accounts, NEW u \in LiveUdatas, "cgiPost" \notin Kinds
  PROVE  heap[u].m_write_pipe_fd = None
  BY DEF Accounts, Objects, Shaped, ClientShape, FileShape, PipeShape

LEMMA ChildKept ==
  ASSUME TypeOK, Orderly, Accounts, TypeOK', NEW p \in Pids, Child(p)
  PROVE  Accounts'
  <1>1. proc[p] \in ProcRecord /\ proc \in [Pids -> ProcRecord]
    BY DEF TypeOK
  <1>2. CASE ChildReads(p)
    <2>1. ServerUnchanged /\ UNCHANGED conn
      BY <1>2 DEF ChildReads, ProcessUnchanged
    <2>2. /\ Alive(p) /\ proc'[p].st = proc[p].st /\ proc'[p].closed = proc[p].closed
          /\ proc'[p].out = proc[p].out /\ ~proc'[p].full
          /\ \A q \in Pids \ {p} : proc'[q] = proc[q]
      BY <1>1, <1>2 DEF ChildReads, ProcRecord
    <2>3. /\ Alive(p)' /\ ProcOnward(p) /\ (StdoutEnded(p) => StdoutEnded(p)')
          /\ \A u \in LiveUdatas : KeptBy(u, p) => KeptBy(u, p)'
      BY <2>1, <2>2
      DEF ServerUnchanged, Alive, Zombie, ProcOnward, StdoutEnded, KeptBy, Ending
    <2> QED
      BY <2>1, <2>2, <2>3, ChildGoesOn
  <1>3. CASE ChildWrites(p)
    <2>1. ServerUnchanged /\ UNCHANGED conn
      BY <1>3 DEF ChildWrites, ProcessUnchanged
    <2>2. /\ proc[p].st = "running"
          /\ proc'[p].st = proc[p].st /\ proc'[p].closed = proc[p].closed
          /\ proc'[p].out = "ready" /\ proc'[p].full = proc[p].full
          /\ \A q \in Pids \ {p} : proc'[q] = proc[q]
      BY <1>1, <1>3 DEF ChildWrites, ProcRecord
    <2>3. /\ Alive(p) /\ Alive(p)' /\ ProcOnward(p)
          /\ (StdoutEnded(p) => StdoutEnded(p)')
          /\ \A u \in LiveUdatas : KeptBy(u, p) => KeptBy(u, p)'
      BY <2>1, <2>2
      DEF ServerUnchanged, Alive, Zombie, ProcOnward, StdoutEnded, KeptBy, Ending
    <2> QED
      BY <2>1, <2>2, <2>3, ChildGoesOn
  <1>4. CASE ChildClosesStdout(p)
    <2>1. ServerUnchanged /\ UNCHANGED conn /\ "cgiPost" \notin Kinds
      BY <1>4 DEF ChildClosesStdout, ProcessUnchanged, Orderly
    <2>2. /\ proc[p].st = "running"
          /\ proc'[p].st = proc[p].st /\ proc'[p].closed
          /\ proc'[p].out = proc[p].out /\ proc'[p].full = proc[p].full
          /\ \A q \in Pids \ {p} : proc'[q] = proc[q]
      BY <1>1, <1>4 DEF ChildClosesStdout, ProcRecord
    <2>3. /\ Alive(p) /\ Alive(p)' /\ ProcOnward(p) /\ StdoutEnded(p)'
      BY <2>2 DEF Alive, ProcOnward, StdoutEnded
    <2>4. \A u \in LiveUdatas : KeptBy(u, p) => KeptBy(u, p)'
      BY <2>1, <2>2, <2>3, NoInput DEF ServerUnchanged, KeptBy, Ending
    <2> QED
      BY <2>1, <2>2, <2>3, <2>4, ChildGoesOn
  <1>5. CASE ChildExits(p)
    <2>1. ServerUnchanged /\ UNCHANGED conn
      BY <1>5 DEF ChildExits, ProcessUnchanged
    <2>2. /\ proc[p].st = "running" /\ proc'[p].st = "exited"
          /\ proc'[p].out = proc[p].out /\ proc'[p].full = proc[p].full
          /\ \A q \in Pids \ {p} : proc'[q] = proc[q]
      BY <1>1, <1>5 DEF ChildExits, ProcRecord
    <2>3. /\ Alive(p) /\ Zombie(p)' /\ ProcOnward(p) /\ StdoutEnded(p)'
      BY <2>2 DEF Alive, Zombie, ProcOnward, StdoutEnded
    <2>4. ASSUME NEW u \in LiveUdatas, heap[u].m_child_pid = p
          PROVE  heap[u].m_write_pipe_fd = None
      <3>1. CASE "early" \in Faults
        BY <3>1, NoInput DEF Orderly
      <3>2. CASE ~StdinOpen(p)
        <4>1. Owns(u) /\ LiveRecord(heap[u])
          BY LiveObject, ObjectsParts DEF Accounts, Objects
        <4>2. \A f \in Fds : fdt[f] # PipeEntry("pipew", p)
          BY <3>2 DEF StdinOpen
        <4> QED
          BY <2>4, <4>1, <4>2 DEF Owns, LiveRecord, UdataRecord, FdOrNone
      <3> QED
        BY <1>5, <3>1, <3>2 DEF ChildExits
    <2>5. \A u \in LiveUdatas : heap[u].m_child_pid = p => KeptBy(u, p)'
      BY <2>1, <2>2, <2>3, <2>4 DEF ServerUnchanged, KeptBy
    <2> QED
      BY <2>1, <2>2, <2>3, <2>5, ChildGoesOn
  <1>6. CASE ChildDies(p)
    <2>1. ServerUnchanged /\ UNCHANGED conn
      BY <1>6 DEF ChildDies, ProcessUnchanged
    <2>2. /\ proc[p].st = "dying" /\ proc'[p].st = "signaled"
          /\ proc'[p].out = proc[p].out /\ proc'[p].full = proc[p].full
          /\ \A q \in Pids \ {p} : proc'[q] = proc[q]
      BY <1>1, <1>6 DEF ChildDies, ProcRecord
    <2>3. /\ Alive(p) /\ Zombie(p)' /\ ProcOnward(p) /\ StdoutEnded(p)'
      BY <2>2 DEF Alive, Zombie, ProcOnward, StdoutEnded
    <2>4. \A u \in LiveUdatas : KeptBy(u, p) => KeptBy(u, p)'
      BY <2>1, <2>2, <2>3 DEF ServerUnchanged, KeptBy, Ending
    <2> QED
      BY <2>1, <2>2, <2>3, <2>4, ChildGoesOn
  <1>7. ~ChildCrashes(p)
    BY DEF ChildCrashes, Orderly
  <1> QED
    BY <1>2, <1>3, <1>4, <1>5, <1>6, <1>7 DEF Child

(***************************************************************************)
(* The invariant.                                                          *)
(***************************************************************************)
LEMMA InitAccounts == Init => Accounts
  <1> SUFFICES ASSUME Init PROVE Accounts
    OBVIOUS
  <1>1. /\ LiveUdatas = {} /\ m_fd_set = {} /\ knotes = {} /\ event_list = {}
        /\ pc = "kevent" /\ DOMAIN m_udata_map = {ListenFd}
        /\ \A f \in Fds : fdt[f] = FreeEntry
        /\ \A c \in Conns : conn[c].st = "idle"
        /\ \A p \in Pids : proc[p].st = "none" /\ ~proc[p].closed
    BY DEF Init, LiveUdatas, UnusedUdata, NoProc
  <1>2. /\ Len(change_list) = 1 /\ change_list[1].udata = ServerUdata
    BY DEF Init, Add
  <1>3. \A f \in Fds : \A kind : Is(f, kind) => kind = "free"
    BY <1>1 DEF Is, FreeEntry
  <1>4. Objects
    BY <1>1, <1>3
    DEF Objects, Shaped, DescriptorsOwned, ChildrenApart, FilesHeld, SocketsApart,
        MapExact
  <1>5. FiltersKept
    <2>1. KnotesApart /\ KnotesOpen /\ KnotesProper
      BY <1>1 DEF KnotesApart, KnotesOpen, KnotesProper
    <2>2. ChangesProper
      BY <1>2 DEF ChangesProper, Proper
    <2>3. ChangesOpen /\ Heard
      BY <1>1, <1>3 DEF ChangesOpen, MayOpen, Heard
    <2> QED
      BY <2>1, <2>2, <2>3 DEF FiltersKept
  <1>6. BatchKept
    BY <1>1 DEF BatchKept, BatchProper, BatchFirst, BatchReady, Batch
  <1>7. OnlyDeparted /\ ChildrenKept /\ Phases
    BY <1>1 DEF OnlyDeparted, HasLeft, ChildrenKept, Alive, Zombie, Phases
  <1> QED
    BY <1>4, <1>5, <1>6, <1>7 DEF Accounts

LEMMA HandleKept ==
  ASSUME TypeOK, Orderly, Accounts, TypeOK', NEW e, Handle(e)
  PROVE  Accounts'
  BY ServerReadEventKept, ClientReadEventKept, ClientWriteEventKept, FileEventsKept,
     PipeReadEventKept, PipeWriteEventKept, NoTimeout, BrokenPipeKept
  DEF Handle

LEMMA ServerStepKept ==
  ASSUME TypeOK, Orderly, Accounts, TypeOK', ServerStep
  PROVE  Accounts'
  <1>1. CASE ApplyChange
    BY <1>1, ApplyChangeKept
  <1>2. CASE Poll
    BY <1>2, PollKept
  <1>3. CASE \E e \in event_list : Handle(e)
    BY <1>3, HandleKept
  <1>4. CASE EndBatch
    BY <1>4, EndBatchKept
  <1>5. CASE \E f \in m_fd_set, u \in Udatas : Clear(f, u)
    BY <1>5, ClearUdataKept, ClearKillKept DEF Clear
  <1>6. CASE \E f \in m_fd_set : ClearSocket(f)
    BY <1>6, ClearSocketKept
  <1>7. CASE \E u \in Udatas : UseAfterFree(u)
    BY <1>7, NoFreedObject
  <1>8. CASE AcceptReturns
    BY <1>8, AcceptReturnsKept
  <1>9. CASE PipeReadReaped
    BY <1>9, PipeReadReapedKept
  <1>10. CASE CgiTimeoutReaped
    BY <1>10, NoTimeout
  <1>11. CASE ClearReaped
    BY <1>11, ClearReapedKept
  <1> QED
    BY <1>1, <1>2, <1>3, <1>4, <1>5, <1>6, <1>7, <1>8, <1>9, <1>10, <1>11
    DEF ServerStep

LEMMA AccountsKept ==
  ASSUME TypeOK, Orderly, Accounts, [Next]_vars
  PROVE  Accounts'
  <1>0. TypeOK'
    BY NextTypes
  <1>1. CASE ServerStep
    BY <1>0, <1>1, ServerStepKept
  <1>2. CASE \E c \in Conns : Client(c)
    BY <1>0, <1>2, ClientKept
  <1>3. CASE \E p \in Pids : Child(p)
    BY <1>0, <1>3, ChildKept
  <1>4. CASE UNCHANGED vars
    <2>1. UNCHANGED <<heap, m_udata_map, m_fd_set, change_list, event_list, pc, cur,
                      fdt, knotes, conn, proc>>
      BY <1>4 DEF vars
    <2>2. Batch' \subseteq Batch /\ (MayOpen' => MayOpen)
      BY <2>1 DEF Batch, MayOpen
    <2>3. Phases' /\ \A u \in Udatas : Ending(u) => Ending(u)'
      BY <2>1 DEF Accounts, Phases, Registered, StdoutEnded, Alive, Ending
    <2> QED
      BY <1>0, <2>1, <2>2, <2>3, PauseKept
  <1> QED
    BY <1>1, <1>2, <1>3, <1>4 DEF Next

\* The inductive invariant: while nothing goes wrong that Orderly rules out, the
\* handlers of src/src/Server/event/, clearUdata and the loop of Server::start
\* keep track of every object, descriptor, filter and child.
THEOREM AccountsAlwaysKept ==
  ASSUME Orderly
  PROVE  Spec => []Accounts
  <1>1. Init => Accounts
    BY InitAccounts
  <1>2. TypeOK /\ Accounts /\ [Next]_vars => Accounts'
    BY AccountsKept
  <1> QED
    BY <1>1, <1>2, ServerTypeCorrect, PTL DEF Spec

(***************************************************************************)
(* What follows from it.                                                   *)
(***************************************************************************)
LEMMA KeptInWaiting ==
  ASSUME Accounts, Waiting
  PROVE  /\ m_fd_set = {} /\ change_list = <<>> /\ Len(change_list) = 0
         /\ \A k \in knotes : Proper(heap, k)
  BY DEF Waiting, Accounts, Phases, FiltersKept, KnotesProper, Overruled, About

\* The kernel never watches for a t_event_udata that was deleted: closing a
\* descriptor, or a change already in change_list, removes its knotes before the
\* next kevent() (udata.cpp:59, client.cpp:120).
THEOREM NoKnoteDangles ==
  ASSUME Orderly
  PROVE  Spec => []NoDanglingKnote
  <1>1. Accounts => NoDanglingKnote
    BY KeptInWaiting DEF NoDanglingKnote, Proper, Mine, Live
  <1> QED
    BY <1>1, AccountsAlwaysKept, PTL

\* No handler and no clearUdata is given a deleted t_event_udata, whatever events
\* come in one batch (Server.cpp:135).
THEOREM NeverUsedAfterFree ==
  ASSUME Orderly
  PROVE  Spec => []NoUseAfterFree
  <1>1. Accounts => NoUseAfterFree
    BY DEF Accounts, Phases, NoUseAfterFree
  <1> QED
    BY <1>1, AccountsAlwaysKept, PTL

\* m_udata_map lists, for each client socket, that client's objects and no others
\* (udata.cpp:42).
THEOREM MapAlwaysExact ==
  ASSUME Orderly
  PROVE  Spec => []MapExact
  <1>1. Accounts => MapExact
    BY DEF Accounts, Objects
  <1> QED
    BY <1>1, AccountsAlwaysKept, PTL

\* Every descriptor number in a t_event_udata is still the descriptor it was
\* opened as, though the kernel gives closed numbers out again.
THEOREM DescriptorsAlwaysOwned ==
  ASSUME Orderly
  PROVE  Spec => []DescriptorsOwned
  <1>1. Accounts => DescriptorsOwned
    BY DEF Accounts, Objects
  <1> QED
    BY <1>1, AccountsAlwaysKept, PTL

\* Every open descriptor is some object's, or about to be closed by clearUdata.
THEOREM DescriptorsNeverLeak ==
  ASSUME Orderly
  PROVE  Spec => []NoDescriptorLeak
  <1>1. ASSUME TypeOK, Accounts, NEW f \in Fds, fdt[f] # FreeEntry, f \notin m_fd_set
        PROVE  \E u \in LiveUdatas :
                 f \in {heap[u].m_client_sock, heap[u].static_read_file_fd,
                        heap[u].static_write_file_fd, heap[u].m_read_pipe_fd,
                        heap[u].m_write_pipe_fd}
    <2>1. fdt[f].kind \in {"sock", "rfile", "wfile", "piper", "pipew"}
      BY <1>1 DEF TypeOK, FdEntry, FreeEntry
    <2>2. CASE fdt[f].kind = "sock"
      BY <1>1, <2>2 DEF Accounts, FiltersKept, Heard, Is, Reads
    <2>3. CASE fdt[f].kind # "sock"
      BY <1>1, <2>1, <2>3 DEF Accounts, Objects, FilesHeld, Is
    <2> QED
      BY <2>2, <2>3
  <1>2. TypeOK /\ Accounts => NoDescriptorLeak
    BY <1>1 DEF NoDescriptorLeak
  <1> QED
    BY <1>2, ServerTypeCorrect, AccountsAlwaysKept, PTL

\* A child is waited for exactly once: until then some object has its pid, and
\* no object has the pid of a child that was waited for (pipe.cpp:42,
\* udata.cpp:63).
THEOREM ChildrenAlwaysTracked ==
  ASSUME Orderly
  PROVE  Spec => []ChildrenTracked
  <1>1. Accounts => ChildrenTracked
    BY DEF Accounts, ChildrenKept, ChildrenTracked, Alive, Zombie
  <1> QED
    BY <1>1, AccountsAlwaysKept, PTL

\* What a client had in progress goes when its socket is closed (udata.cpp:42).
THEOREM NothingStaysBehind ==
  ASSUME Orderly
  PROVE  Spec => []NothingLeftBehind
  <1>1. ASSUME TypeOK, Accounts, NEW u \in LiveUdatas
        PROVE  conn[heap[u].conn].st # "closed"
    BY <1>1, OwnedSocket, SocketOf
  <1>2. TypeOK /\ Accounts => NothingLeftBehind
    BY <1>1 DEF NothingLeftBehind
  <1> QED
    BY <1>2, ServerTypeCorrect, AccountsAlwaysKept, PTL

\* Whenever the loop sleeps each connection has one READ filter, and a fresh
\* reader hears of it: no order of handlers, changes and closes loses a client.
THEOREM ClientsAlwaysHeard ==
  ASSUME Orderly
  PROVE  Spec => []EveryClientHeard
  <1>1. ASSUME TypeOK, Accounts, Waiting, NEW f \in Fds, Is(f, "sock")
        PROVE  \E k \in knotes :
                 /\ k.ident = f /\ k.filter = "READ"
                 /\ \A j \in knotes : j.ident = f /\ j.filter = "READ" => j = k
                 /\ k.udata \in LiveUdatas
                 /\ heap[k.udata].conn = fdt[f].of /\ heap[k.udata].req = 0
    <2>1. PICK u \in Udatas : /\ Reads(u, f)
                              /\ Registers(knotes, change_list, f, "READ", u)
      BY <1>1, KeptInWaiting DEF Accounts, FiltersKept, Heard
    <2> DEFINE k == [ident |-> f, filter |-> "READ", udata |-> u]
    <2>2. k \in knotes
      BY <1>1, <2>1, KeptInWaiting DEF Registers
    <2>3. \A j \in knotes : j.ident = f /\ j.filter = "READ" => j = k
      BY <1>1, <2>2 DEF Accounts, FiltersKept, KnotesApart, SameKey
    <2>4. u \in LiveUdatas /\ heap[u].conn = fdt[f].of /\ heap[u].req = 0
      BY <1>1, <2>1, OwnedSocket DEF Reads
    <2> QED
      BY <2>2, <2>3, <2>4
  <1>2. TypeOK /\ Accounts => EveryClientHeard
    BY <1>1 DEF EveryClientHeard
  <1> QED
    BY <1>2, ServerTypeCorrect, AccountsAlwaysKept, PTL

(***************************************************************************)
(* Only clearUdata closes a client's connection, and only when the client  *)
(* has left.                                                               *)
(***************************************************************************)
NobodyDropped == \A c \in Conns : conn[c].st = "open" => conn'[c].st # "closed"

LEMMA HandleDropsNobody ==
  ASSUME TypeOK, Orderly, Accounts, NEW e, Handle(e)
  PROVE  NobodyDropped
  <1>1. ASSUME Accept
        PROVE  NobodyDropped
    BY <1>1, AcceptEffect DEF Admits, NobodyDropped, TypeOK, ConnRecord
  <1>2. CASE ServerReadEvent(e)
    BY <1>1, <1>2 DEF ServerReadEvent, NobodyDropped
  <1>3. CASE ClientReadEvent(e)
    <2>1. PICK c \in Conns : c = heap[e.udata].conn
      BY <1>3, ClientReadEffect, OwnedSocket
    <2>2. UNCHANGED conn \/ Received(c)
      BY <1>3, <2>1, ClientReadEffect DEF ClientReadEof, Serves, Received
    <2>3. conn \in [Conns -> ConnRecord] /\ conn[c] \in ConnRecord
      BY DEF TypeOK
    <2>4. \A d \in Conns \ {c} : conn'[d] = conn[d]
      BY <2>2, <2>3 DEF Received
    <2>5. conn'[c].st = conn[c].st
      BY <2>2, <2>3 DEF Received, ConnRecord
    <2> QED
      BY <2>4, <2>5 DEF NobodyDropped
  <1>4. CASE ClientWriteEvent(e)
    BY <1>4, ClientWriteEffect DEF Written, NobodyDropped
  <1>5. CASE StaticFileReadEvent(e)
    BY <1>5, FileReadEffect DEF Answers, NobodyDropped
  <1>6. CASE FileWriteEvent(e)
    BY <1>6, FileWriteEffect DEF Answers, NobodyDropped
  <1>7. CASE PipeReadEvent(e)
    BY <1>7, PipeReadEffect DEF NobodyDropped
  <1>8. CASE PipeWriteEvent(e)
    BY <1>8, PipeWriteEffect DEF Shuts, NobodyDropped
  <1>9. CASE BrokenPipe(e)
    BY <1>9 DEF BrokenPipe, NobodyDropped
  <1> QED
    BY <1>2, <1>3, <1>4, <1>5, <1>6, <1>7, <1>8, <1>9, NoTimeout DEF Handle

LEMMA StepDropsNobody ==
  ASSUME TypeOK, Orderly, Accounts, [Next]_vars
  PROVE  NobodyDropped
  <1>1. CASE UNCHANGED conn
    BY <1>1 DEF NobodyDropped
  <1>2. CASE \E e \in event_list : Handle(e)
    BY <1>2, HandleDropsNobody
  <1>3. ASSUME NEW f \in m_fd_set, NEW u \in Udatas, Clear(f, u)
        PROVE  NobodyDropped
    BY <1>3, ClearUdataEffect, ClearKillEffect DEF Clear, NobodyDropped
  <1>4. ASSUME NEW f \in m_fd_set, ClearSocket(f)
        PROVE  NobodyDropped
    BY <1>4, ClearSocketEffect DEF HasLeft, NobodyDropped
  <1>5. CASE AcceptReturns
    BY <1>5, AcceptEffect DEF AcceptReturns, Admits, NobodyDropped, TypeOK, ConnRecord
  <1>6. CASE PipeReadReaped
    BY <1>6, PipeReapedEffect DEF Answers, NobodyDropped
  <1>7. CASE ClearReaped
    BY <1>7, ClearReapedEffect DEF NobodyDropped
  <1>8. ASSUME NEW c \in Conns, Client(c)
        PROVE  NobodyDropped
    <2>1. conn \in [Conns -> ConnRecord] /\ conn[c] \in ConnRecord
      BY DEF TypeOK
    <2>2. \A d \in Conns \ {c} : conn'[d] = conn[d]
      BY <1>8, <2>1 DEF Client, Connect, Send, Drain, Fin, Reset, Abort
    <2>3. conn'[c].st = conn[c].st
            \/ conn[c].st = "backlog" \/ conn'[c].st # "closed"
      <3>1. CASE Send(c) \/ Drain(c)
        BY <2>1, <3>1 DEF Send, Drain, ConnRecord
      <3>2. CASE Connect(c) \/ Fin(c) \/ Abort(c)
        BY <2>1, <3>2 DEF Connect, Fin, Abort, ConnRecord
      <3>3. CASE Reset(c)
        BY <2>1, <3>3 DEF Reset, ConnRecord
      <3> QED
        BY <1>8, <3>1, <3>2, <3>3 DEF Client
    <2> QED
      BY <2>2, <2>3 DEF NobodyDropped
  <1>9. ASSUME NEW p \in Pids, Child(p)
        PROVE  UNCHANGED conn
    BY <1>9
    DEF Child, ChildReads, ChildWrites, ChildClosesStdout, ChildExits, ChildCrashes,
        ChildDies, ProcessUnchanged
  <1>10. ApplyChange \/ Poll \/ EndBatch \/ (\E u \in Udatas : UseAfterFree(u))
           \/ UNCHANGED vars => UNCHANGED conn
    BY DEF ApplyChange, Poll, EndBatch, UseAfterFree, vars
  <1> QED
    BY <1>1, <1>2, <1>3, <1>4, <1>5, <1>6, <1>7, <1>8, <1>9, <1>10, NoTimeout
    DEF Next, ServerStep

\* The server closes the connection of nobody who is still there (clearUdata's
\* close(), udata.cpp:84).
THEOREM OnlyDepartedClosed ==
  ASSUME Orderly
  PROVE  Spec => ClosesOnlyDeparted
  <1>1. TypeOK /\ Accounts /\ [Next]_vars =>
          [\A c \in Conns : conn[c].st = "open" => conn'[c].st # "closed"]_vars
    BY StepDropsNobody DEF NobodyDropped
  <1> QED
    BY <1>1, ServerTypeCorrect, AccountsAlwaysKept, PTL DEF Spec, ClosesOnlyDeparted
=============================================================================
