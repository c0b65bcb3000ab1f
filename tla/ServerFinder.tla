---------------------------- MODULE ServerFinder ----------------------------
(***************************************************************************)
(* src/src/ServerFinder/ServerFinder.cpp: which virtual server a request   *)
(* is for. Only the first server_name of a server is looked at.            *)
(***************************************************************************)
EXTENDS Integers, SequencesExt

NoName == "none"         \* a t_server without server_name

Found(server) == [status |-> "OK_200", server |-> server]

\* The members of a t_server nobody assigned.
NoServer ==
  [server_name |-> NoName, listen |-> <<>>, max_body_size |-> <<>>,
   error_page_vector |-> <<>>, locations |-> <<>>]
Refused(status) == [status |-> status, server |-> NoServer]

Named(servers, name) ==
  {i \in DOMAIN servers : servers[i].server_name = name}

(* The vector candidates, as the places of its elements in servers: candidate *)
(* c is element Number(servers, c) of it.                                     *)
Candidates(servers) ==
  {c \in DOMAIN servers : servers[c].server_name = NoName}

Number(servers, c) == Cardinality({i \in Candidates(servers) : i <= c})

\* Mutant of Positions: k < size() - 1.
PositionsOneShort(servers) ==
  UNION {{<<c, k>> : k \in 1 .. Len(servers[Number(servers, c)].listen) - 1}
           : c \in Candidates(servers)}

(* The pairs the second loop looks at. For candidates[i] it counts the ports  *)
(* of servers[i].                                                             *)
Positions(servers) ==
  UNION {{<<c, k>> : k \in DOMAIN servers[Number(servers, c)].listen}
           : c \in Candidates(servers)}

Beyond(servers, p) == p[2] > Len(servers[p[1]].listen)

\* The loop ends at the first of these: a port that matches, or an element of a
\* vector that does not exist.
Decisive(servers, port) ==
  {p \in Positions(servers) :
     Beyond(servers, p) \/ servers[p[1]].listen[p[2]] = port}

Before(p, q) == p[1] < q[1] \/ (p[1] = q[1] /\ p[2] <= q[2])

FirstCandidate(servers, port) ==
  LET p == CHOOSE p \in Decisive(servers, port) :
             \A q \in Decisive(servers, port) : Before(p, q)
  IN IF Beyond(servers, p)
       THEN Refused("undefined")
       ELSE Found(servers[p[1]])

find_server_name(servers, name, port) ==
  LET named == Named(servers, name)
      first == CHOOSE i \in named : \A j \in named : i <= j
  IN CASE named # {} /\ Contains(servers[first].listen, port) ->
            Found(servers[first])
       [] named # {} /\ ~Contains(servers[first].listen, port) ->
            Refused("NOT_FOUND_404")
       [] named = {} /\ Decisive(servers, port) # {} ->
            FirstCandidate(servers, port)
       [] OTHER -> Refused("NOT_FOUND_404")

(* The value of the Host header: its form is "absent", "portless" when there *)
(* is no colon in it, or else "full".                                       *)
FindServer(servers, host) ==
  IF host.form = "full"
    THEN find_server_name(servers, host.name, host.port)
    ELSE Refused("BAD_REQUEST_400")
=============================================================================
