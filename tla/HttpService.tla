---------------------------- MODULE HttpService ----------------------------
(***************************************************************************)
(* What the clients of the server may rely on, without descriptors, events *)
(* or processes: a connection carries requests one way and, the other way, *)
(* the responses to them, complete and in the order of the requests. Only  *)
(* a client that leaves ends its connection, and the service then releases *)
(* it.                                                                     *)
(***************************************************************************)
EXTENDS Integers, Sequences

CONSTANTS Conns, MaxRequests, ResponseLen

VARIABLES
  here,   \* "away", "connected", "leaving" or "released", for each client
  asked,  \* the number of requests each client has sent completely
  got     \* the units of response each client was given

vars == <<here, asked, got>>

\* Unit i of what client c must be given over its whole connection.
Unit(c, i) ==
  <<c, (i - 1) \div ResponseLen + 1, ((i - 1) % ResponseLen) + 1>>

Init ==
  /\ here = [c \in Conns |-> "away"]
  /\ asked = [c \in Conns |-> 0]
  /\ got = [c \in Conns |-> <<>>]

Arrive(c) ==
  /\ here[c] = "away"
  /\ here' = [here EXCEPT ![c] = "connected"]
  /\ UNCHANGED <<asked, got>>

Ask(c) ==
  /\ here[c] = "connected"
  /\ asked[c] < MaxRequests
  /\ asked' = [asked EXCEPT ![c] = @ + 1]
  /\ UNCHANGED <<here, got>>

\* The next k units, all of them of requests already sent.
Reply(c) ==
  /\ here[c] \in {"connected", "leaving"}
  /\ \E k \in 1 .. asked[c] * ResponseLen - Len(got[c]) :
       got' = [got EXCEPT ![c] = @ \o [i \in 1 .. k |-> Unit(c, Len(@) + i)]]
  /\ UNCHANGED <<here, asked>>

Leave(c) ==
  /\ here[c] = "connected"
  /\ here' = [here EXCEPT ![c] = "leaving"]
  /\ UNCHANGED <<asked, got>>

Release(c) ==
  /\ here[c] = "leaving"
  /\ here' = [here EXCEPT ![c] = "released"]
  /\ UNCHANGED <<asked, got>>

Next ==
  \E c \in Conns : Arrive(c) \/ Ask(c) \/ Reply(c) \/ Leave(c) \/ Release(c)

Safe == Init /\ [][Next]_vars

\* Whoever asked and stays is answered, and whoever leaves is released.
Live ==
  \A c \in Conns : WF_vars(Reply(c) /\ here[c] = "connected")
                     /\ WF_vars(Release(c))

Spec == Safe /\ Live
=============================================================================
