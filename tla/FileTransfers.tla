--------------------------- MODULE FileTransfers ----------------------------
(***************************************************************************)
(* Requests for one file name at the same time: the method handlers open,  *)
(* create, truncate or remove it (MethodHandler.cpp), staticFileReadEvent  *)
(* and fileWriteEvent transfer it piece by piece (static_file.cpp), each   *)
(* through a descriptor of its own, while the others go on. A removed file *)
(* lives as long as a descriptor leads to it. What becomes of sockets and  *)
(* filters is module Server's.                                             *)
(***************************************************************************)
EXTENDS Integers, Sequences, FiniteSetsExt

CONSTANTS Transfers,   \* the requests
          FileLen,     \* units of the file there is at the start
          BodyLen,     \* the most units a request body has
          BufSize      \* BUF_SIZE in units

ASSUME FileTransfersAssumption ==
  /\ FileLen \in Nat /\ BodyLen \in Nat /\ BufSize \in Nat \ {0}
  /\ "original" \notin Transfers /\ "none" \notin Transfers

VARIABLES name,        \* the file that has the name, or "none"
          content,     \* the units of each file
          transfer,    \* the Request, Response and descriptor of each request
          opened,      \* history: the units of its file when a GET opened it
          disturbed    \* history: the methods of the other requests that changed
                       \* its file since it was opened

vars == <<name, content, transfer, opened, disturbed>>

\* A file is named after the request that created it.
Files == {"original"} \cup Transfers

Unit(t, i) == <<t, i>>
Hole == Unit("none", 0)    \* what is read where nothing was written
Body(t, n) == [i \in 1 .. n |-> Unit(t, i)]

NoTransfer ==
  [phase |-> "ready", method |-> "", file |-> "none", length |-> 0, offset |-> 0,
   size |-> 0, body |-> <<>>]

Init ==
  /\ name = "original"
  /\ content = [f \in Files |-> IF f = "original" THEN Body("original", FileLen) ELSE <<>>]
  /\ transfer = [t \in Transfers |-> NoTransfer]
  /\ opened = [t \in Transfers |-> <<>>]
  /\ disturbed = [t \in Transfers |-> {}]

Ready(t) == transfer[t].phase = "ready"
Changes(t, method, f) ==
  disturbed' = [u \in Transfers |->
                  IF u # t /\ transfer[u].file = f THEN disturbed[u] \cup {method}
                  ELSE disturbed[u]]

\* Mutant of Get: an empty file is waited for like any other.
GetWithoutSize(t) ==
  /\ Ready(t) /\ name # "none"
  /\ transfer' = [transfer EXCEPT ![t].method = "GET", ![t].file = name,
                                  ![t].size = Len(content[name]), ![t].phase = "reading"]
  /\ opened' = [opened EXCEPT ![t] = content[name]]
  /\ UNCHANGED <<name, content, disturbed>>

(* GetMethodHandler, and addStaticRequestEvent, which takes the size and       *)
(* answers at once when it is 0.                                               *)
Get(t) ==
  /\ Ready(t) /\ name # "none"
  /\ transfer' = [transfer EXCEPT ![t].method = "GET", ![t].file = name,
                                  ![t].size = Len(content[name]),
                                  ![t].phase = IF content[name] = <<>> THEN "answered"
                                               ELSE "reading"]
  /\ opened' = [opened EXCEPT ![t] = content[name]]
  /\ UNCHANGED <<name, content, disturbed>>

Opened(t) == IF name = "none" THEN t ELSE name

Upload(t, method) ==
  \E n \in 0 .. BodyLen :
    transfer' = [transfer EXCEPT ![t].method = method, ![t].file = Opened(t),
                                 ![t].length = n, ![t].phase = "writing"]

(* O_CREAT and O_TRUNC.                                                        *)
Post(t) ==
  /\ Ready(t) /\ Upload(t, "POST")
  /\ name' = Opened(t)
  /\ content' = [content EXCEPT ![Opened(t)] = <<>>]
  /\ Changes(t, "POST", Opened(t))
  /\ UNCHANGED opened

(* O_CREAT and O_APPEND.                                                       *)
Put(t) ==
  /\ Ready(t) /\ Upload(t, "PUT")
  /\ name' = Opened(t)
  /\ UNCHANGED <<content, opened, disturbed>>

(* std::remove, of a file that is there, within the request.                   *)
Delete(t) ==
  /\ Ready(t)
  /\ transfer' = [transfer EXCEPT ![t].method = "DELETE", ![t].phase = "answered"]
  /\ name' = "none"
  /\ UNCHANGED <<content, opened, disturbed>>

Length(t) == Len(content[transfer[t].file])

\* Mutant of Complete: more is enough.
CompleteOrMore(size, body) == Len(body) >= size

\* The test that ends a GET.
Complete(size, body) == Len(body) = size

(* A filter for reading fires when the position is not the end of the file; a  *)
(* read beyond the end, where a file that was truncated leaves it, returns 0.   *)
staticFileReadEvent(t) ==
  LET n == Max({0, Min({BufSize, Length(t) - transfer[t].offset})})
      from == transfer[t].offset
      body == transfer[t].body \o SubSeq(content[transfer[t].file], from + 1, from + n)
  IN /\ transfer[t].phase = "reading" /\ from # Length(t)
     /\ transfer' = [transfer EXCEPT ![t].offset = from + n, ![t].body = body,
                       ![t].phase = IF Complete(transfer[t].size, body)
                                      THEN "answered" ELSE "reading"]
     /\ UNCHANGED <<name, content, opened, disturbed>>

\* The file after units of t were written from a place on.
Written(t, from, n) ==
  LET old == content[transfer[t].file]
  IN [i \in 1 .. Max({Len(old), from + n}) |->
        IF i \in from + 1 .. from + n THEN Unit(t, transfer[t].offset + i - from)
        ELSE IF i <= Len(old) THEN old[i] ELSE Hole]

\* Mutant of Place: a PUT opened without O_APPEND.
PlaceWithoutAppend(t) == transfer[t].offset

\* O_APPEND goes to the end with each write; the position of a POST is its own.
Place(t) == IF transfer[t].method = "PUT" THEN Length(t) ELSE transfer[t].offset

(* A write takes any part of what is left; nothing is left of an empty body.   *)
fileWriteEvent(t) ==
  LET left == transfer[t].length - transfer[t].offset
  IN /\ transfer[t].phase = "writing"
     /\ \E n \in IF left = 0 THEN {0} ELSE 1 .. left :
          /\ content' = [content EXCEPT ![transfer[t].file] = Written(t, Place(t), n)]
          /\ transfer' = [transfer EXCEPT ![t].offset = @ + n,
                            ![t].phase = IF n = left THEN "answered" ELSE "writing"]
          /\ IF n = 0 THEN UNCHANGED disturbed
             ELSE Changes(t, transfer[t].method, transfer[t].file)
     /\ UNCHANGED <<name, opened>>

(* The client leaves, or a read or a write fails: what was written stays.       *)
Abandon(t) ==
  /\ transfer[t].phase \in {"reading", "writing"}
  /\ transfer' = [transfer EXCEPT ![t].phase = "abandoned"]
  /\ UNCHANGED <<name, content, opened, disturbed>>

Next ==
  \E t \in Transfers :
    \/ Get(t) \/ Post(t) \/ Put(t) \/ Delete(t)
    \/ staticFileReadEvent(t) \/ fileWriteEvent(t) \/ Abandon(t)

\* Every event is in a batch in the end, and every event of a batch is handled.
Fairness ==
  \A t \in Transfers : WF_vars(staticFileReadEvent(t)) /\ WF_vars(fileWriteEvent(t))

Spec == Init /\ [][Next]_vars /\ Fairness
=============================================================================
