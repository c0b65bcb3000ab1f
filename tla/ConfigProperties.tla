-------------------------- MODULE ConfigProperties --------------------------
(***************************************************************************)
(* What a server that listens may be taken to know of its configuration    *)
(* file. The meaning of a file is defined on the places of its lines, not  *)
(* on the order in which they are read.                                    *)
(***************************************************************************)
EXTENDS Config

Places == DOMAIN file
FirstWord(i) == IF file[i] = <<>> THEN "" ELSE file[i][1]
Count(S) == Cardinality(S)
Upto(i, words) == {j \in 1 .. i : FirstWord(j) \in words}

\* How many blocks line i is in, the one it opens included; the server block it
\* is in, and the places of the lines that open locations in server n.
Depth(i) == Count(Upto(i, {"server", "location"})) - Count(Upto(i, {CloseBrace}))
ServerOf(i) == Count(Upto(i, {"server"}))
LocationsOf(n) == {i \in Places : FirstWord(i) = "location" /\ ServerOf(i) = n}

\* Every block of the file has an end, and blocks nest as they should.
Balanced ==
  /\ \A i \in Places : Depth(i) = CASE FirstWord(i) = "server" -> 1
                                    [] FirstWord(i) = "location" -> 2
                                    [] OTHER -> Depth(i)
  /\ \A i \in Places : Depth(i) \in 0 .. 2
  /\ file # <<>> => Depth(Len(file)) = 0

\* The words after the first one of S whose line starts with key.
Declared(S, key, absent) ==
  LET at == {i \in S : FirstWord(i) = key}
  IN IF at = {} THEN absent ELSE Tail(file[Min(at)])

ServerLines(n) == {i \in Places : ServerOf(i) = n /\ Depth(i) = 1}

\* The lines of the location that line l opens.
LocationLines(l) ==
  {i \in Places : i > l /\ Depth(i) = 2 /\ \A j \in l + 1 .. i : FirstWord(j) # "location"
                        /\ Count(Upto(i, {CloseBrace})) = Count(Upto(l, {CloseBrace}))}

Inherited(n, l) ==
  Declared({i \in ServerLines(n) : i < l}, "max_body_size", <<0>>)

\* The configuration means what its file says, line by line: as many servers as
\* blocks; of each directive the first in its block; each location with the first
\* block of its key, and the size of its server when that was declared above it
\* (content.cpp:196). With a "}" too few the next server becomes part of the one
\* before, so only balanced files are meant.
Meant ==
  /\ Len(m_server_conf) = ServerOf(Len(file))
  /\ \A n \in DOMAIN m_server_conf :
       LET server == m_server_conf[n] IN
       /\ server.listen = Declared(ServerLines(n), "listen", <<>>)
       /\ server.max_body_size = Declared(ServerLines(n), "max_body_size", <<>>)
       /\ LET names == Declared(ServerLines(n), "server_name", <<>>)
          IN server.server_name = IF names = <<>> THEN Unnamed ELSE names[1]
       /\ DOMAIN server.locations = {file[l][2] : l \in LocationsOf(n)}
       /\ \A l \in LocationsOf(n) :
            (\A k \in LocationsOf(n) : file[k][2] = file[l][2] => l <= k) =>
              LET Of(key, absent) == Declared(LocationLines(l), key, <<absent>>)[1]
              IN server.locations[file[l][2]] =
                   [accepted_method |-> Of("accepted_method", {}),
                    root |-> Of("root", <<>>),
                    index |-> Of("index", ""), auto_index |-> Of("auto_index", ""),
                    ourcgi_pass |-> Of("ourcgi_pass", <<>>),
                    ourcgi_index |-> Of("ourcgi_index", ""),
                    redirection |-> Of("redirection", ""),
                    max_body_size |-> Of("max_body_size", Inherited(n, l)[1])]

AsWritten ==
  [][block # "listening" /\ block' = "listening" /\ Balanced => Meant]_configVars

Complete(server) ==
  /\ server.listen # <<>> /\ server.max_body_size # <<>>
  /\ \A key \in DOMAIN server.locations :
       server.locations[key].root # <<>> /\ server.locations[key].accepted_method # {}

\* What every other part takes for granted: a server that listens has, for each
\* of its ports, one virtual server only, and that one has a size limit and, for
\* each location, a root and methods. Server::Server (setServers.cpp:15) relies on
\* nothing but what the reader of the blocks let through.
Usable ==
  block = "listening" =>
    /\ \A n \in DOMAIN m_server_conf : Complete(m_server_conf[n])
    /\ \A m, n \in DOMAIN m_server_conf :
         m # n => ToSet(m_server_conf[m].listen) \cap ToSet(m_server_conf[n].listen) = {}
=============================================================================
