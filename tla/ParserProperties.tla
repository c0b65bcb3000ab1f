-------------------------- MODULE ParserProperties --------------------------
(***************************************************************************)
(* What the parser owes the server: requests come out as they were sent,   *)
(* however recv() cuts the stream.                                         *)
(***************************************************************************)
EXTENDS Parser

\* The type invariant of Request and RequestPool.
TypeOK ==
  /\ input \in Seq(Symbols)
  /\ base \in Nat /\ line_len \in Nat /\ offset \in Nat
  /\ validation_phase \in Phases
  /\ status \in Statuses
  /\ method \in StartLines \cup {"none"}
  /\ headers \subseteq HeaderLines
  /\ body \in Seq(Symbols)
  /\ parsed \in Seq([start : StartLines \cup {"none"}, status : Statuses,
                     body : Seq(Symbols)])
  /\ pc \in {"recv", "loop"}

\* The pool is never read beyond what was received: findNewline's result plus
\* two, which parseFirstLine, parseHeaders and parseChunkedBody make the next
\* offset, stays inside it, although 0 means both "not found" and "the first
\* symbol" (Parser.cpp:54, parseHeaders.cpp:11).
OffsetInPool ==
  /\ base + line_len <= Len(input)
  /\ offset <= line_len

\* The n-th request the server processes is the n-th the client sent: same
\* method, an error status exactly when it deserves one (at whatever line recv()
\* stopped: parsing goes on after the exceptions of parseFirstLine and
\* parseHeaders), and, without an error, the same body.
Faithful ==
  \A n \in DOMAIN parsed :
    /\ parsed[n].start = requests[n].start
    /\ parsed[n].status = ExpectedStatus(requests[n])
    /\ parsed[n].status = "NO_PROBLEM" => parsed[n].body = ExpectedBody(requests[n])

\* A new parser starts where a request starts: no request completes before its
\* last symbol came, and none takes a symbol of the next one.
Aligned == base = EndOf(Len(parsed))

\* The server is told where r ends. A POST or PUT with neither Content-Length nor
\* Transfer-Encoding is refused by checkBodyType (Parser.cpp:87) in phase ON_BODY,
\* which only more data ends, and the client has no more to send.
EndTold(r) ==
  \/ r.start \in {"GET", "PATCH"} \/ Chunked(r)
  \/ \E i \in DOMAIN r.headers : r.headers[i] \in ContentLengths

\* On a connection with none but good requests that tell where they end, every
\* one is handed to HttpProcessor, which answers it: readBuffer neither loops for
\* ever nor waits for data that will not come.
EveryRequestParsed ==
  (\A n \in DOMAIN requests :
     ExpectedStatus(requests[n]) = "NO_PROBLEM" /\ EndTold(requests[n]))
    => <>(Len(parsed) = Len(requests))
=============================================================================
