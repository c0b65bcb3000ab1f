------------------------------ MODULE Webserv -------------------------------
(***************************************************************************)
(* The server from its configuration file to its answers: Config reads the *)
(* file, HttpProcessor serves the virtual servers it found, and every      *)
(* request gets the message of ResponseGenerator. One request after the    *)
(* other: what requests do to each other on the way is module Server's.    *)
(***************************************************************************)
EXTENDS Config, HttpProcessor, ResponseGenerator

CONSTANTS CgiOutputs,    \* what a CGI program may write
          Names          \* the names of files in the order of std::string

ASSUME CgiOutputsAssumption ==
  \A output \in CgiOutputs : output \in Seq(ToSet(output))

\* Names that sort before "." are left out.
ASSUME NamesAssumption ==
  /\ Names \in Seq(ToSet(Names)) /\ Len(Names) >= 2
  /\ Names[1] = "." /\ Names[2] = ".."
  /\ \A i, j \in DOMAIN Names : Names[i] = Names[j] => i = j

VARIABLES content,       \* m_response.body before the message was made of it
          message        \* what the client was sent for the request

answerVars == <<content, message>>
webservVars == <<configVars, vars, answerVars>>

\* The connection was closed without an answer.
Closed == [NoMessage EXCEPT !.status = "closed"]

WebservInit == ConfigInit /\ Init /\ content = <<>> /\ message = NoMessage

ReadConfig == ConfigNext /\ UNCHANGED <<vars, answerVars>>

Start ==
  /\ block = "listening" /\ Serve(m_server_conf)
  /\ UNCHANGED <<configVars, answerVars>>

(* The next request is read once this one is answered, or the client gone.  *)
Process ==
  /\ pc = "read" => message \notin {NoMessage, Undefined}
  /\ Next
  /\ content' = <<>> /\ message' = NoMessage
  /\ UNCHANGED configVars

\* What opendir() finds, without "." and "..".
Entries(dir) ==
  {Last(p) : p \in {q \in disk.files \cup disk.dirs : q # <<>> /\ Front(q) = dir}}

\* std::sort of the names in a directory.
Place(name) == CHOOSE i \in DOMAIN Names : Names[i] = name
Sorted(names) ==
  [i \in 1 .. Cardinality(names) |->
     CHOOSE n \in names : Cardinality({m \in names : Place(m) <= Place(n)}) = i]

\* Mutant of autoIndexToBody: ".." is always left out.
autoIndexToBodyWithoutParent(dir) ==
  LET fileList == Sorted({".", ".."} \cup Entries(dir))
  IN [i \in 1 .. Len(fileList) - 2 |-> <<"entry", fileList[i + 2]>>]

(* The sorted list without its first element, and at the root of the location *)
(* without the next one.                                                      *)
autoIndexToBody(dir) ==
  LET fileList == Sorted({".", ".."} \cup Entries(dir))
      erased == IF dir = response.root_path THEN 2 ELSE 1
  IN [i \in 1 .. Len(fileList) - erased |-> <<"entry", fileList[i + erased]>>]

Respond(body, is_cgi_timeout) ==
  /\ pc = "read" /\ message = NoMessage
  /\ content' = body
  /\ message' = generateResponseMessage(request, response, found.server.error_page_vector,
                                        body, is_cgi_timeout)
  /\ UNCHANGED <<configVars, vars>>

(* A file without a byte is answered at once, another when it was read.      *)
RespondFile ==
  /\ response.static_read_file_fd \in disk.files \ {NoPath}
  /\ \E body \in {<<>>, <<<<"file", response.static_read_file_fd>>>>} : Respond(body, FALSE)

RespondUpload ==
  /\ response.static_write_file_fd # NoPath
  /\ Respond(<<>>, FALSE)

\* GetMethodHandler ended with autoIndexToBody.
Listing ==
  /\ request.method \in {"GET", "HEAD"}
  /\ response.status_code = "OK_200" /\ ~response.cgi_flag
  /\ response.static_read_file_fd = NoPath

(* Refused, removed, or a listing.                                           *)
RespondInline ==
  /\ response.static_read_file_fd = NoPath /\ response.static_write_file_fd = NoPath
  /\ ~response.cgi_flag
  /\ Respond(IF Listing THEN autoIndexToBody(response.file_path) ELSE <<>>, FALSE)

RespondCgi ==
  /\ response.cgi_flag
  /\ \E output \in CgiOutputs : Respond(output, FALSE)

(* What the program wrote until then is dropped.                             *)
RespondTimeout == response.cgi_flag /\ Respond(<<>>, TRUE)

(* The program was killed by a signal, or the index is a directory, which     *)
(* cannot be read.                                                            *)
CloseConnection ==
  /\ pc = "read" /\ message = NoMessage
  /\ response.cgi_flag \/ response.static_read_file_fd \in disk.dirs
  /\ message' = Closed
  /\ UNCHANGED <<configVars, vars, content>>

WebservNext ==
  \/ ReadConfig \/ Start \/ Process
  \/ RespondFile \/ RespondUpload \/ RespondInline
  \/ RespondCgi \/ RespondTimeout \/ CloseConnection

WebservSpec == WebservInit /\ [][WebservNext]_webservVars
=============================================================================
