---------------------------- MODULE HttpRequest ----------------------------
(***************************************************************************)
(* HTTP/1.1 requests as a client means them, and their encoding. A symbol  *)
(* is a byte that matters by itself (CR, LF, or x, any other byte) or a    *)
(* whole piece of text without CR and LF, whose inside the parser sees     *)
(* only once the line is there. Nothing here is code of the repository.    *)
(***************************************************************************)
EXTENDS Integers, SequencesExt

\* GET stands for GET, DELETE and HEAD, POST for POST and PUT, OPTIONS for every
\* other method but PATCH. BADLINE is a start line whose URI or version is wrong.
StartLines == {"GET", "POST", "PATCH", "OPTIONS", "BADLINE"}

\* CLn is "Content-Length: n", TE is "Transfer-Encoding: chunked".
HeaderLines == {"Host", "CL0", "CL1", "CL2", "TE", "NOCOLON"}
ContentLengths == {"CL0", "CL1", "CL2"}

Bytes == {"x", "CR", "LF"}

Symbols == StartLines \cup HeaderLines \cup Bytes

CRLF == <<"CR", "LF">>

Chunked(r) == \E i \in DOMAIN r.headers : r.headers[i] = "TE"

(* A request is a record: its start line, its headers, and its body in one  *)
(* piece or, for Transfer-Encoding: chunked, as a sequence of chunks.       *)
Lines(lines) == FlattenSeq([i \in DOMAIN lines |-> <<lines[i]>> \o CRLF])

\* A chunk is its size, here one symbol, and its data.
Chunks(r) ==
  FlattenSeq([i \in DOMAIN r.chunks |-> <<"x">> \o CRLF \o r.chunks[i] \o CRLF])
    \o <<"x">> \o CRLF \o CRLF

Encode(r) ==
  <<r.start>> \o CRLF \o Lines(r.headers) \o CRLF
    \o IF Chunked(r) THEN Chunks(r) ELSE r.body

\* The number in a Content-Length.
Length == [h \in ContentLengths |-> IF h = "CL0" THEN 0 ELSE IF h = "CL1" THEN 1 ELSE 2]

\* What follows the headers is what they announce, the first Content-Length if
\* there are several, and nothing after a GET or PATCH. No chunk is empty or has
\* a line end in it.
Sendable(r) ==
  LET lengths == {i \in DOMAIN r.headers : r.headers[i] \in ContentLengths}
      takesBody == r.start \notin {"GET", "PATCH"}
  IN /\ r.start \in StartLines /\ r.headers \in Seq(HeaderLines)
     /\ r.body \in Seq(Bytes) /\ r.chunks \in Seq(Seq(Bytes))
     /\ IF Chunked(r)
          THEN takesBody /\ lengths = {}
          ELSE Len(r.body) = IF takesBody /\ lengths # {}
                               THEN Length[r.headers[Min(lengths)]] ELSE 0
     /\ \A c \in DOMAIN r.chunks :
          /\ r.chunks[c] # <<>>
          /\ \A i \in 1 .. Len(r.chunks[c]) - 1 : SubSeq(r.chunks[c], i, i + 1) # CRLF

\* What a client sends on its connection.
Stream(s) == FlattenSeq([i \in DOMAIN s |-> Encode(s[i])])

\* What the server must make of r.
WellFormed(r) ==
  /\ r.start # "BADLINE"
  /\ \A i, j \in DOMAIN r.headers :
       /\ r.headers[i] # "NOCOLON"
       /\ r.headers[i] = r.headers[j] => i = j
       /\ {r.headers[i], r.headers[j]} \subseteq ContentLengths => i = j

ExpectedStatus(r) ==
  IF ~WellFormed(r) THEN "BAD_REQUEST_400"
  ELSE IF r.start \in {"PATCH", "OPTIONS"} THEN "METHOD_NOT_ALLOWED_405"
  ELSE "NO_PROBLEM"

ExpectedBody(r) == IF Chunked(r) THEN FlattenSeq(r.chunks) ELSE r.body
=============================================================================
