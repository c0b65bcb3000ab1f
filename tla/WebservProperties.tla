-------------------------- MODULE WebservProperties -------------------------
(***************************************************************************)
(* What a client is told, against what the configuration file says, what   *)
(* is on the disk, and what a CGI program wrote.                           *)
(***************************************************************************)
EXTENDS Webserv, ConfigProperties, HttpProcessorProperties

\* There is a message, and it is the one the code makes.
Sent == message.status \notin {"none", "closed", "undefined"}

\* A client finds the end of a message by its Content-length: it is the number of
\* bytes that follow, which setHeaders counts before setBody chooses them, from
\* the beginning of m_response.body or from an iterator into it. A HEAD gets the
\* headers only.
Framed ==
  Sent =>
    IF request.method = "HEAD"
      THEN message.body = <<>>
      ELSE message.length = Len(message.body)

\* "If the status code is abnormal, generateErrorResponseMessage is called
\* internally and makes m_response.response_message" (ResponseGenerator.cpp:344):
\* it never comes to an iterator that nobody set.
ErrorAlwaysTold == message.status # "undefined"

\* The page that the lines of server block n name, if there is such a file.
Page(n) ==
  LET root == Declared(ServerLines(n), "root", <<>>)
      name == Declared(ServerLines(n), "error_page", <<>>)
      path == <<IF root = <<>> THEN <<"data">> ELSE root[1], name[1]>>
  IN IF name = <<>> THEN <<>> ELSE At(Pages, path, <<>>)

\* The server blocks of the file that listen on the port of the request.
ServersOfPort ==
  {n \in 1 .. ServerOf(Len(file)) :
     Contains(Declared(ServerLines(n), "listen", <<>>), request.host.port)}

\* An answer says what the lines of the configuration file say of the server that
\* listens on the port: an error has its error page, or else the default text,
\* and nothing that was read before the error; a redirection is one of a location
\* of that server, is for GET only, and has no body. That goes through the reader
\* of the file, start-up, ServerFinder, PathFinder and ResponseGenerator, none of
\* which sees the file but the first.
ToldAsConfigured ==
  Sent /\ found.status = "OK_200" /\ Balanced /\ ~response.cgi_flag =>
    \E n \in ServersOfPort :
      IF message.status = "FOUND_302"
        THEN /\ request.method = "GET" /\ message.body = <<>>
             /\ \E l \in LocationsOf(n) :
                  Declared(LocationLines(l), "redirection", <<"">>)[1] = message.location
      ELSE /\ message.location = ""
           /\ message.status = response.status_code
           /\ message.status # "OK_200" /\ request.method # "HEAD" =>
                message.body = IF Page(n) = <<>> THEN <<<<"error", message.status>>>>
                               ELSE Page(n)

Header(unit) == unit[1] \in {"Status:", "Content-Type:"}

\* What a CGI program writes: header lines, a Content-Type among them, an empty
\* line, and a body. "Status:" in a body of a program that sent no status is left
\* out: the code takes it for the status (ResponseGenerator.cpp:45).
WellFormed(headers, text) ==
  /\ \A i \in DOMAIN headers : Header(headers[i])
  /\ search(headers, "Content-Type:", 1) # 0
  /\ search(headers, "Status:", 1) # 0 \/ search(text, "Status:", 1) = 0

\* The answer a CGI program makes reaches the client: its status, its type and
\* every unit of its body, whatever the body holds, in whatever order the headers
\* came; a program that writes no Content-Type is not told to be a success, and
\* one that runs out of time is a bad gateway.
CgiDelivered ==
  Sent /\ response.cgi_flag =>
    IF content = <<>>
      THEN message.status = "BAD_GATEWAY_502"
    ELSE
      /\ search(content, "Content-Type:", 1) = 0 => message.status # "OK_200"
      /\ \A i \in DOMAIN content :
           LET headers == SubSeq(content, 1, i - 1)
               text == SubSeq(content, i + 1, Len(content))
               status == search(headers, "Status:", 1)
           IN content[i][1] = "blank" /\ WellFormed(headers, text) =>
                /\ message.body = text
                /\ message.type = headers[search(headers, "Content-Type:", 1)][2]
                /\ message.status = IF status = 0 THEN "OK_200" ELSE headers[status][2]

\* A listing names all there is in the directory at that moment, uploads and
\* removals before it included, once each and in order, and the way up only below
\* the root of the location: the first two names of the sorted list are erased
\* without a look at them (MethodHandler.cpp:80). Names that sort before "." are
\* left out of Names: the code would erase them instead.
ListingComplete ==
  Sent /\ Listing /\ ~response.redirection_exist /\ request.method = "GET" =>
    LET up == IF response.file_path = response.root_path THEN {} ELSE {".."}
    IN /\ ToSet(message.body) = {"entry"} \X (Entries(response.file_path) \cup up)
       /\ \A i, j \in DOMAIN message.body :
            i < j => Place(message.body[i][2]) < Place(message.body[j][2])
=============================================================================
