------------------------------- MODULE Parser -------------------------------
(***************************************************************************)
(* class Parser (src/src/Parser/): one connection's requests, cut from the *)
(* byte stream as recv() happens to return it. An action is one turn of    *)
(* the loop of readBuffer; nothing else happens between two turns.         *)
(***************************************************************************)
EXTENDS HttpRequest

CONSTANTS
  Sessions,    \* the sequences of requests a client may send on a connection
  Pipelining,  \* does the client send a request before the previous is parsed?
  MaxRecv      \* BUF_SIZE: what one recv() returns at most

ASSUME ParserAssumption ==
  /\ MaxRecv \in Nat \ {0}
  /\ Pipelining \in BOOLEAN
  /\ \A s \in Sessions : Stream(s) \in Seq(Symbols)

\* The clients frame their requests as they announce them.
ASSUME SessionsAssumption ==
  \A s \in Sessions : s \in Seq(ToSet(s)) /\ \A n \in DOMAIN s : Sendable(s[n])

VARIABLES
  requests,   \* the requests of this connection
  input,      \* their encoding
  base,       \* symbols of input taken by the parsers of earlier requests
  line_len,   \* m_pool.line_len; total_line is that much of input from base on
  offset,     \* m_pool.offset
  validation_phase,
  status,
  method,
  headers,    \* the header lines stored
  body,
  parsed,     \* the requests handed to HttpProcessor
  pc          \* "recv": outside readBuffer, "loop": in its loop

pool == <<base, line_len, offset>>
request == <<validation_phase, status, method, headers, body>>
vars == <<requests, input, pool, request, parsed, pc>>

Phases == {"READY", "ON_HEADER", "ON_BODY", "ON_CHUNKED_BODY", "COMPLETE"}
Statuses == {"NO_PROBLEM", "BAD_REQUEST_400", "METHOD_NOT_ALLOWED_405"}

\* m_pool.total_line[i]
TotalLine(i) == input[base + i + 1]

\* Where request n ends in input.
EndOf(n) == Len(Stream(SubSeq(requests, 1, n)))

(***************************************************************************)
(* findNewline(buf, from) = i. It searches from .. line_len - 2 and returns *)
(* 0 for "not found".                                                      *)
(***************************************************************************)
NewlineAt(i) == TotalLine(i) = "CR" /\ TotalLine(i + 1) = "LF"

\* Mutant of FindNewline: the last two symbols are not looked at.
FindNewlineTooShort(from, i) ==
  \/ /\ i \in from .. line_len - 3 /\ NewlineAt(i)
     /\ \A j \in from .. i - 1 : ~NewlineAt(j)
  \/ i = 0 /\ \A j \in from .. line_len - 3 : ~NewlineAt(j)

\* Mutant of FindNewline: a CR alone ends a line.
FindNewlineByCR(from, i) ==
  \/ /\ i \in from .. line_len - 1 /\ TotalLine(i) = "CR"
     /\ \A j \in from .. i - 1 : TotalLine(j) # "CR"
  \/ i = 0 /\ \A j \in from .. line_len - 1 : TotalLine(j) # "CR"

FindNewline(from, i) ==
  \/ /\ i \in from .. line_len - 2 /\ NewlineAt(i)
     /\ \A j \in from .. i - 1 : ~NewlineAt(j)
  \/ i = 0 /\ \A j \in from .. line_len - 2 : ~NewlineAt(j)

\* An exception leaves readBuffer; what is left in the pool waits for recv().
Throw == pc' = "recv"

\* After a turn of the loop that threw nothing.
NextTurn ==
  pc' = IF validation_phase' = "COMPLETE" \/ line_len = offset'
          THEN "recv" ELSE "loop"

Turn(phase) ==
  /\ pc = "loop" /\ validation_phase = phase
  /\ UNCHANGED <<requests, input, base, line_len, parsed>>

(***************************************************************************)
(* readBuffer is called with the next symbols of the stream.               *)
(***************************************************************************)
ReadBuffer ==
  /\ pc = "recv" /\ validation_phase # "COMPLETE"
  /\ \E k \in 1 .. MaxRecv :
       /\ base + line_len + k <= Len(input)
       /\ Pipelining \/ base + line_len + k <= EndOf(Len(parsed) + 1)
       /\ line_len' = line_len + k
  /\ pc' = "loop"
  /\ UNCHANGED <<requests, input, base, offset, request, parsed>>

(* The start line is sought from offset but read from the beginning of the  *)
(* pool: one that was refused is refused again with the next line.          *)
GoodStartLine(crlf) == crlf = 1 /\ TotalLine(0) \in StartLines \ {"BADLINE"}

ParseFirstLine ==
  /\ Turn("READY")
  /\ \E crlf \in 0 .. line_len :
       /\ FindNewline(offset, crlf)
       /\ \/ /\ crlf = 0
             /\ Throw
             /\ UNCHANGED <<offset, request>>
          \/ /\ crlf # 0 /\ ~GoodStartLine(crlf)
             /\ offset' = crlf + 2
             /\ status' = "BAD_REQUEST_400"
             /\ Throw
             /\ UNCHANGED <<validation_phase, method, headers, body>>
          \/ /\ crlf # 0 /\ GoodStartLine(crlf)
             /\ offset' = crlf + 2
             /\ method' = TotalLine(0)
             /\ status' = IF method' \in {"PATCH", "OPTIONS"}
                            THEN "METHOD_NOT_ALLOWED_405" ELSE status
             /\ validation_phase' = "ON_HEADER"
             /\ UNCHANGED <<headers, body>>
             /\ NextTurn

\* checkBodyType, after the phase was set to ON_BODY.
CheckBodyType ==
  \/ /\ method \in {"GET", "PATCH"} \/ "CL0" \in headers
     /\ validation_phase' = "COMPLETE" /\ UNCHANGED status
  \/ /\ method \notin {"GET", "PATCH"} /\ headers \cap {"CL1", "CL2"} # {}
     /\ validation_phase' = "ON_BODY" /\ UNCHANGED status
  \/ /\ method \notin {"GET", "PATCH"} /\ headers \cap ContentLengths = {}
     /\ IF "TE" \in headers
          THEN validation_phase' = "ON_CHUNKED_BODY" /\ UNCHANGED status
          ELSE validation_phase' = "ON_BODY" /\ status' = "BAD_REQUEST_400"

\* The line between offset and crlf, a key and a value. The keys are compared:
\* every Content-Length is a duplicate of every other.
IsHeader(crlf) ==
  crlf = offset + 1 /\ TotalLine(offset) \in HeaderLines \ {"NOCOLON"}
Duplicate(h) ==
  h \in headers \/ (h \in ContentLengths /\ headers \cap ContentLengths # {})

\* Mutant of BadHeader: a duplicate field is taken for a good one.
BadHeaderOnlyWithoutKey(crlf) == ~IsHeader(crlf)
BadHeader(crlf) == ~IsHeader(crlf) \/ Duplicate(TotalLine(offset))

ParseHeaders ==
  /\ Turn("ON_HEADER")
  /\ UNCHANGED <<method, body>>
  /\ \E crlf \in 0 .. line_len :
       /\ FindNewline(offset, crlf)
       /\ \/ /\ crlf = offset
             /\ CheckBodyType
             /\ offset' = offset + 2
             /\ UNCHANGED headers
             /\ NextTurn
          \/ /\ crlf # offset /\ crlf = 0
             /\ Throw
             /\ UNCHANGED <<offset, validation_phase, status, headers>>
          \/ /\ crlf # offset /\ crlf # 0 /\ BadHeader(crlf)
             /\ offset' = crlf + 2
             /\ status' = "BAD_REQUEST_400"
             /\ Throw
             /\ UNCHANGED <<validation_phase, headers>>
          \/ /\ crlf # offset /\ crlf # 0 /\ ~BadHeader(crlf)
             /\ offset' = crlf + 2
             /\ headers' = headers \cup {TotalLine(offset)}
             /\ UNCHANGED <<validation_phase, status>>
             /\ NextTurn

\* atol(headers["content-length"]): 0 when there is none.
ContentLength ==
  CASE "CL1" \in headers -> 1
    [] "CL2" \in headers -> 2
    [] OTHER -> 0

\* Mutant of ParseBody: the body is complete as soon as there is some of it.
ParseBodyInOneRead ==
  /\ Turn("ON_BODY")
  /\ body' = body \o SubSeq(input, base + offset + 1, base + line_len)
  /\ offset' = line_len
  /\ validation_phase' = "COMPLETE"
  /\ UNCHANGED <<status, method, headers>>
  /\ NextTurn

\* Everything received is body.
ParseBody ==
  /\ Turn("ON_BODY")
  /\ body' = body \o SubSeq(input, base + offset + 1, base + line_len)
  /\ offset' = line_len
  /\ validation_phase' =
       IF Len(body') < ContentLength THEN "ON_BODY" ELSE "COMPLETE"
  /\ status' = IF Len(body') > ContentLength THEN "BAD_REQUEST_400" ELSE status
  /\ UNCHANGED <<method, headers>>
  /\ NextTurn

\* A size line and a data line; the size is not looked at. An empty data line
\* ends the body and leaves offset before the last chunk.
ParseChunkedBody ==
  /\ Turn("ON_CHUNKED_BODY")
  /\ UNCHANGED <<status, method, headers>>
  /\ \E size, data \in 0 .. line_len :
       /\ FindNewline(offset, size)
       /\ IF size = 0 THEN data = 0 ELSE FindNewline(size + 2, data)
       /\ \/ /\ size = 0 \/ data = 0
             /\ Throw
             /\ UNCHANGED <<offset, validation_phase, body>>
          \/ /\ size # 0 /\ data # 0 /\ data = size + 2
             /\ validation_phase' = "COMPLETE"
             /\ UNCHANGED <<offset, body>>
             /\ NextTurn
          \/ /\ size # 0 /\ data # 0 /\ data # size + 2
             /\ body' = body \o SubSeq(input, base + size + 3, base + data)
             /\ offset' = data + 2
             /\ UNCHANGED validation_phase
             /\ NextTurn

(***************************************************************************)
(* clientReadEvent processes a COMPLETE request and puts a new Parser in   *)
(* place (client.cpp:81); what the old one had buffered beyond the request *)
(* goes with it.                                                           *)
(***************************************************************************)
NewRequest ==
  /\ validation_phase' = "READY" /\ status' = "NO_PROBLEM"
  /\ method' = "none" /\ headers' = {} /\ body' = <<>>

NewParser ==
  /\ pc = "recv" /\ validation_phase = "COMPLETE"
  /\ parsed' = Append(parsed, [start |-> method, status |-> status,
                               body |-> body])
  /\ base' = base + line_len /\ line_len' = 0 /\ offset' = 0
  /\ NewRequest
  /\ UNCHANGED <<requests, input, pc>>

Init ==
  /\ requests \in Sessions
  /\ input = Stream(requests)
  /\ base = 0 /\ line_len = 0 /\ offset = 0
  /\ validation_phase = "READY" /\ status = "NO_PROBLEM"
  /\ method = "none" /\ headers = {} /\ body = <<>>
  /\ parsed = <<>>
  /\ pc = "recv"

Next ==
  \/ ReadBuffer
  \/ ParseFirstLine
  \/ ParseHeaders
  \/ ParseBody
  \/ ParseChunkedBody
  \/ NewParser

Spec == Init /\ [][Next]_vars

\* The client sends its requests to the end, and the parser runs.
FairSpec == Spec /\ WF_vars(Next)
=============================================================================
