---------------------- MODULE HttpProcessorProperties ----------------------
(***************************************************************************)
(* What the configuration promises of each request, and what one request   *)
(* promises of the next.                                                   *)
(***************************************************************************)
EXTENDS HttpProcessor

Processed == pc = "process" /\ pc' = "read"

\* The files a step creates, truncates, appends to, removes or opens.
Touched ==
  SymDiff(disk.files, disk'.files)
    \cup ({response'.static_read_file_fd, response'.static_write_file_fd} \ {NoPath})

\* A request only touches files below the root of a location of its server, and
\* only if that location accepts its method and the size of its body
\* (PathFinder decides the location, HttpProcessor the method: neither looks at
\* what the other did).
OnlyAsAllowed ==
  [][Processed /\ Touched # {} =>
       \E key \in DOMAIN found.server.locations :
         LET location == found.server.locations[key]
         IN /\ request.method \in location.accepted_method
            /\ request.body <= location.max_body_size
            /\ \A path \in Touched : IsStrictPrefix(location.root, path)]_vars

\* A request that is refused, by whatever part, changes no file, opens none,
\* starts no child and does not leave cgi_flag set: clientReadEvent would wait
\* for a child that does not exist (client.cpp:68).
RefusedHasNoEffect ==
  [][Processed /\ response'.status_code # "OK_200" =>
       Touched = {} /\ ~response'.cgi_flag /\ ~response'.cgi_child_pid]_vars

\* cgi_flag, on which clientReadEvent decides what to wait for, is set exactly
\* when a child runs, and a request never has both a child and a file.
ChildForCgi ==
  [][Processed =>
       /\ response'.cgi_flag = response'.cgi_child_pid
       /\ response'.cgi_flag => Touched = {}]_vars

\* The request as a GET without a body, after the present one.
Again == PathFinder(disk', found.server, [request EXCEPT !.method = "GET", !.body = 0])

\* An upload is where a GET of the same URI looks: both go through PathFinder,
\* but on disks that differ by the upload, and each names files its own way
\* (default.temp, of which no URI of a directory is a name, is left out).
StoredIsServed ==
  [][Processed /\ response'.static_write_file_fd # NoPath
       /\ ~(Located.file_name = "" /\ Located.index_name = "") =>
       Target(Again) = response'.static_write_file_fd]_vars

\* After a DELETE of a file that was not refused, nothing is served under its
\* URI any more, and only that file is gone.
DeletedIsGone ==
  [][Processed /\ request.method = "DELETE" /\ response'.status_code = "OK_200" =>
       /\ Located.file_name # "" => Target(Again) = NoPath
       /\ disk.files \ disk'.files \subseteq
            {Append(Located.file_path, Located.file_name)}]_vars

\* Why server n, which listens on the port of the request, is not the one: the
\* name is another's; an earlier server of the same name decides
\* (ServerFinder.cpp:31); or n has no name, and some server has the one asked for,
\* or a server with a name comes before n (ServerFinder.cpp:38 then takes the
\* number of ports of one server for another's).
PassedOver(n) ==
  LET named == Named(servers, request.host.name)
  IN IF servers[n].server_name = NoName
       THEN named # {} \/ \E m \in 1 .. n : servers[m].server_name # NoName
       ELSE n \in named => \E m \in named : m < n

\* The virtual server found listens on the port of the request, and has its name
\* unless no server has (ServerFinder.cpp:35). None is found, or a vector was read
\* beyond its end, only if each server on that port had to be passed over.
RightServer ==
  /\ found.status = "OK_200" =>
       /\ Contains(found.server.listen, request.host.port)
       /\ \/ found.server.server_name = request.host.name
          \/ /\ found.server.server_name = NoName
             /\ Named(servers, request.host.name) = {}
  /\ found.status \in {"NOT_FOUND_404", "undefined"} =>
       \A n \in DOMAIN servers :
         Contains(servers[n].listen, request.host.port) => PassedOver(n)
=============================================================================
