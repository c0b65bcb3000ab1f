----------------------------- MODULE ServerTurns ----------------------------
(***************************************************************************)
(* The inductive invariant behind what the clients see: when each of them  *)
(* waits for the response to a request before it sends the next one, its   *)
(* connection has at most one request in progress, the segments it sent    *)
(* and the units it was given are those of whole requests and responses up *)
(* to that one, and the filters that request waits for are registered or   *)
(* about to be.                                                            *)
(***************************************************************************)
EXTENDS ServerInvariant

\* The instances it holds for: an Orderly server whose clients do not pipeline.
InTurn == Orderly /\ ~Pipelining

\* The objects of client c: those that wait for its next request, and those of its
\* requests in progress.
Reader(u, c) == u \in LiveUdatas /\ heap[u].conn = c /\ heap[u].req = 0
Serving(u, c) == u \in LiveUdatas /\ heap[u].conn = c /\ heap[u].req # 0

\* A client has one object of each kind at most.
OneEach(c) ==
  \A u, v \in Udatas :
    /\ Reader(u, c) /\ Reader(v, c) => u = v
    /\ Serving(u, c) /\ Serving(v, c) => u = v

\* The socket of c is closed or being closed: a request in progress may be gone
\* without its response.
TornDown(c) ==
  \/ conn[c].st = "closed"
  \/ event_list = {} /\ \E f \in m_fd_set : fdt[f] = SockEntry(c)

\* k requests of c were received, and the next one is on its way.
Arriving(c, k) ==
  /\ k * Segments <= conn[c].rcvd /\ conn[c].rcvd < (k + 1) * Segments
  /\ conn[c].rcvd <= conn[c].sent /\ conn[c].sent <= (k + 1) * Segments
  /\ conn[c].st \in {"idle", "backlog"} => conn[c].rcvd = 0 /\ conn[c].out = <<>>

\* The reader's parser has what was received of the request after the k-th.
Buffered(u, c, k) ==
  /\ heap[u].length = 0 /\ heap[u].offset = 0
  /\ \/ heap[u].first = 0 /\ conn[c].rcvd = k * Segments
     \/ heap[u].first = k * Segments + 1 /\ heap[u].first <= conn[c].rcvd

\* The k-th request is in progress: nothing was sent after it, and what was written
\* after the responses to the others is the beginning of its message.
Answering(u, c, k) ==
  /\ heap[u].req = k
  /\ conn[c].sent = k * Segments /\ conn[c].rcvd = k * Segments
  /\ Len(conn[c].out) = (k - 1) * ResponseLen + heap[u].offset
  /\ \/ heap[u].m_type = "CLIENT" /\ heap[u].length = ResponseLen
                                  /\ heap[u].offset < ResponseLen
     \/ heap[u].m_type # "CLIENT" /\ heap[u].length = 0 /\ heap[u].offset = 0

\* Nothing of c is in progress, and nothing of it was lost: it was given whole
\* responses.
AllAnswered(c, k) ==
  (\A u \in Udatas : ~Serving(u, c)) /\ ~TornDown(c) =>
    Len(conn[c].out) = k * ResponseLen

\* InOrder for one client.
Ordered(c) ==
  \A i \in 1 .. Len(conn[c].out) :
    conn[c].out[i] =
      <<c, (i - 1) \div ResponseLen + 1, ((i - 1) % ResponseLen) + 1>>

\* It is the k-th request's turn, or the next one's when none is in progress.
Turn(c, k) ==
  /\ OneEach(c)
  /\ Arriving(c, k)
  /\ \A u \in Udatas : Reader(u, c) => Buffered(u, c, k)
  /\ \A u \in Udatas : Serving(u, c) => Answering(u, c, k)
  /\ AllAnswered(c, k)
  /\ Ordered(c)

Turns == \A c \in Conns : \E k \in RequestNo : Turn(c, k)

\* What a request in progress waits for is registered, once the changes are applied.
Woken ==
  \A u \in LiveUdatas : heap[u].req # 0 =>
    \A a \in Filters(heap[u]) : a[1] # None =>
      Registers(knotes, change_list, a[1], a[2], u)

\* A connection that waits to be accepted can be: otherwise the kernel may drop it,
\* and the client is let down without having left.
DescriptorsLeft == Backlog # {} => FreeFds # {}
=============================================================================
