--------------------------- MODULE HttpProcessor ----------------------------
(***************************************************************************)
(* ServerFinder and HttpProcessor as clientReadEvent calls them, for one   *)
(* complete request after the other, with the method handlers of           *)
(* MethodHandler.cpp and the start of the CGI handlers. The disk changes   *)
(* with each upload and removal. Reading and writing the opened file, and  *)
(* the response, come later (modules Server and Webserv).                  *)
(***************************************************************************)
EXTENDS ServerFinder, PathFinder

CONSTANTS Disks,     \* the directories and files there may be at start
          Requests   \* what the clients ask

ASSUME DisksAssumption == \A d \in Disks : DOMAIN d = {"dirs", "files"}

VARIABLES servers,   \* the virtual servers, read once, at start
          disk,      \* [dirs, files]: sets of paths
          request,   \* the request in progress, or the last one
          found,     \* what ServerFinder said of it: [status, server]
          response,  \* Response
          pc         \* the step to come: "read", "find" or "process"; "start"
                     \* before the first request, "undefined" after a read
                     \* beyond the end of a vector

vars == <<servers, disk, request, found, response, pc>>

Request0 ==
  [method |-> "", uri |-> NoPath, body |-> 0, status |-> "OK_200",
   host |-> [form |-> "absent", name |-> "", port |-> 0]]

ASSUME RequestsAssumption ==
  \A r \in Requests :
    /\ DOMAIN r = DOMAIN Request0 /\ r.body \in Nat
    /\ r.status \in {"OK_200", "BAD_REQUEST_400", "METHOD_NOT_ALLOWED_405"}
    /\ Len(r.uri) \in Nat \ {0} /\ r.uri = [i \in 1 .. Len(r.uri) |-> r.uri[i]]

Init ==
  /\ servers = <<>> /\ disk = [dirs |-> {}, files |-> {}]
  /\ request = Request0 /\ found = Refused("none") /\ response = Response0
  /\ pc = "start"

(* The first request to a server with these virtual servers.                 *)
Serve(config) ==
  /\ pc = "start"
  /\ servers' = config
  /\ disk' \in Disks
  /\ request' \in Requests
  /\ pc' = "find"
  /\ UNCHANGED <<found, response>>

(* A Request and a Response of their own for each request. *)
NextRequest ==
  /\ pc = "read"
  /\ request' \in Requests
  /\ found' = Refused("none")
  /\ response' = Response0
  /\ pc' = "find"
  /\ UNCHANGED <<servers, disk>>

(* request.status is the parser's verdict; a failing ServerFinder overwrites it.*)
FindServerOfRequest ==
  /\ pc = "find"
  /\ found' = FindServer(servers, request.host)
  /\ request' =
       IF found'.status = "OK_200"
         THEN request
         ELSE [request EXCEPT !.status = found'.status]
  /\ pc' = IF found'.status = "undefined" THEN "undefined" ELSE "process"
  /\ UNCHANGED <<servers, disk, response>>

\* Mutant of Located: every method is redirected.
LocatedForAnyMethod == PathFinder(disk, found.server, request)

(* What PathFinder leaves in the Response before the method is looked at: only *)
(* a GET is redirected.                                                        *)
Located ==
  [PathFinder(disk, found.server, request) EXCEPT
     !.redirection_exist = @ /\ request.method = "GET"]

Answer(r, d) ==
  /\ response' = r
  /\ disk' = d
  /\ pc' = "read"
  /\ UNCHANGED <<servers, request, found>>

Code(r, code) == [r EXCEPT !.status_code = code]

(* A request the parser or ServerFinder refused. *)
BadRequest ==
  /\ pc = "process"
  /\ request.status # "OK_200"
  /\ Answer(Code(response, request.status), disk)

(* An exception of PathFinder ends HttpProcessor. *)
PathFinderThrows ==
  /\ pc = "process" /\ request.status = "OK_200"
  /\ Located.status_code # "OK_200"
  /\ Answer(Located, disk)

Accepted(methods) ==
  /\ pc = "process" /\ request.status = "OK_200"
  /\ Located.status_code = "OK_200"
  /\ request.method \in methods
  /\ request.method \in Located.accepted_method

\* Mutant of CgiHandler: a failure leaves cgi_flag set.
CgiHandlerKeepingFlag ==
  /\ Accepted({"GET", "POST"}) /\ Located.cgi_flag
  /\ IF Located.file_exist
       THEN Answer([Located EXCEPT !.cgi_child_pid = TRUE], disk)
       ELSE Answer(Code(Located, "NOT_IMPLEMENTED_501"), disk)

(* outsourceCgiRequest of GetCgiHandler and PostCgiHandler. *)
CgiHandler ==
  /\ Accepted({"GET", "POST"}) /\ Located.cgi_flag
  /\ IF Located.file_exist
       THEN Answer([Located EXCEPT !.cgi_child_pid = TRUE], disk)
       ELSE Answer([Code(Located, "NOT_IMPLEMENTED_501") EXCEPT !.cgi_flag = FALSE],
                   disk)

\* The file that GetMethodHandler::methodRun opens, if it opens one.
Target(r) ==
  IF r.file_exist THEN Append(r.file_path, r.file_name)
  ELSE IF r.file_name = "" /\ r.index_exist THEN Append(r.file_path, r.index_name)
  ELSE NoPath

(* GET and HEAD. With auto_index the answer is the listing, and opens no file. *)
GetMethodHandler ==
  /\ Accepted({"GET", "HEAD"})
  /\ request.method = "GET" => ~Located.cgi_flag
  /\ IF Located.path_exist /\ Target(Located) # NoPath
       THEN Answer([Located EXCEPT !.static_read_file_fd = Target(Located)], disk)
       ELSE IF Located.path_exist /\ Located.file_name = "" /\ Located.auto_index
       THEN Answer(Located, disk)
       ELSE Answer(Code(Located, "NOT_FOUND_404"), disk)

\* Mutant of UploadName: the name in the URI is not looked at.
UploadNameIgnoringUri(r) ==
  IF r.index_name # "" THEN r.index_name ELSE "default.temp"

\* An upload to a directory is named after the index.
UploadName(r) ==
  IF r.file_name # "" THEN r.file_name
  ELSE IF r.index_name # "" THEN r.index_name
  ELSE "default.temp"

(* POST truncates the file, PUT appends to it: both create it. A directory of *)
(* that name cannot be opened for writing.                                    *)
UploadHandler ==
  LET target == Append(Located.file_path, UploadName(Located))
      named == [Located EXCEPT !.file_name = UploadName(Located)]
  IN /\ Accepted({"POST", "PUT"})
     /\ request.method = "POST" => ~Located.cgi_flag
     /\ IF ~Located.path_exist
          THEN Answer(Code(Located, "BAD_REQUEST_400"), disk)
          ELSE IF target \in disk.dirs
          THEN Answer(Code(named, "INTERNAL_SERVER_ERROR_500"), disk)
          ELSE Answer([named EXCEPT !.static_write_file_fd = target],
                      [disk EXCEPT !.files = @ \cup {target}])

\* Mutant of DeleteMethodHandler: the directory's index is removed.
DeleteIndex ==
  LET target == Append(Located.file_path, Located.index_name)
  IN /\ Accepted({"DELETE"})
     /\ IF ~Located.path_exist
          THEN Answer(Code(Located, "BAD_REQUEST_400"), disk)
          ELSE Answer(Located, [disk EXCEPT !.files = @ \ {target}])

(* Nothing to remove is no error. *)
DeleteMethodHandler ==
  LET target == Append(Located.file_path, Located.file_name)
  IN /\ Accepted({"DELETE"})
     /\ IF ~Located.path_exist
          THEN Answer(Code(Located, "BAD_REQUEST_400"), disk)
          ELSE IF Located.file_exist
          THEN Answer(Located, [disk EXCEPT !.files = @ \ {target}])
          ELSE Answer(Located, disk)

\* Mutant of MethodNotAllowed: cgi_flag is not taken back.
MethodNotAllowedKeepingFlag ==
  /\ pc = "process" /\ request.status = "OK_200"
  /\ Located.status_code = "OK_200"
  /\ request.method \notin Located.accepted_method
  /\ Answer(Code(Located, "METHOD_NOT_ALLOWED_405"), disk)

(* The last branch of the dispatch. *)
MethodNotAllowed ==
  /\ pc = "process" /\ request.status = "OK_200"
  /\ Located.status_code = "OK_200"
  /\ request.method \notin Located.accepted_method
  /\ Answer([Code(Located, "METHOD_NOT_ALLOWED_405") EXCEPT !.cgi_flag = FALSE], disk)

Next ==
  \/ NextRequest
  \/ FindServerOfRequest
  \/ BadRequest
  \/ PathFinderThrows
  \/ CgiHandler
  \/ GetMethodHandler
  \/ UploadHandler
  \/ DeleteMethodHandler
  \/ MethodNotAllowed
=============================================================================
