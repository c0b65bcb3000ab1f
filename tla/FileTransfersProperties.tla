----------------------- MODULE FileTransfersProperties ----------------------
(***************************************************************************)
(* What requests for one file may do to each other, and what they may not. *)
(***************************************************************************)
EXTENDS FileTransfers

Answered(t, method) == transfer[t].phase = "answered" /\ transfer[t].method = method

\* A GET that is answered gives the file as it was at one moment, when it was
\* opened, though it was read piece by piece: DELETEs, a new file of the same name
\* and PUTs in the meantime do not show. Only a POST to the file may (O_TRUNC).
Snapshot ==
  \A t \in Transfers :
    Answered(t, "GET") /\ "POST" \notin disturbed[t] => transfer[t].body = opened[t]

\* The places of the units of t.
UnitsOf(t, units) == {i \in DOMAIN units : units[i][1] = t}

\* The first n units of the body of t, and no others of t, are somewhere in its
\* file, each once and in their order.
Appended(t, n) ==
  LET units == content[transfer[t].file] IN
  /\ {units[i] : i \in UnitsOf(t, units)} = {Unit(t, k) : k \in 1 .. n}
  /\ \A i, j \in UnitsOf(t, units) : i < j => units[i][2] < units[j][2]

\* Whoever was told that an upload succeeded finds it in the file: a POST from the
\* beginning, whatever PUTs append meanwhile, a PUT in its order, whatever others
\* append between its parts, unless another POST took the file over.
UploadsKept ==
  \A t \in Transfers :
    "POST" \notin disturbed[t] =>
      /\ Answered(t, "POST") =>
           SubSeq(content[transfer[t].file], 1, transfer[t].length) =
             Body(t, transfer[t].length)
      /\ Answered(t, "PUT") => Appended(t, transfer[t].length)

\* Every upload is answered, and so is every GET whose file nobody changed: one
\* whose file grew or was truncated may read on, or wait, for ever, because its
\* size was taken when it was opened (static_file.cpp:87).
EveryTransferEnds ==
  \A t \in Transfers :
    transfer[t].phase \in {"reading", "writing"} ~>
      \/ transfer[t].phase \in {"answered", "abandoned"}
      \/ transfer[t].method = "GET" /\ disturbed[t] # {}
=============================================================================
