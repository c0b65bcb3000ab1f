------------------------- MODULE ResponseGenerator --------------------------
(***************************************************************************)
(* src/src/ResponseGenerator/: the message made of a Request, a Response,  *)
(* and the body that was read for it. A body is a sequence of units, each  *)
(* a tuple that starts with a string: <<"file", path>>, <<"entry", name>>, *)
(* <<"error", code>>; and, of what a CGI program writes, <<"Status:",      *)
(* code>> and <<"Content-Type:", type>>, each up to the end of its line,   *)
(* <<"blank">> for CR LF CR LF, any other tuple for other bytes.           *)
(***************************************************************************)
EXTENDS PathFinder

CONSTANT Mime       \* the type of each extension, "none" included

NoMessage ==
  [status |-> "none", length |-> 0, type |-> "", location |-> "", body |-> <<>>]

\* What iterators that nobody set lead to.
Undefined == [NoMessage EXCEPT !.status = "undefined"]

\* The place of the first unit that starts with key from a place on, or 0.
search(output, key, from) ==
  LET at == {i \in from .. Len(output) : output[i][1] = key}
  IN IF at = {} THEN 0 ELSE Min(at)

\* Mutant of cgiDataProcess: the iterator is left before the blank line.
cgiDataProcessWithoutAdvance(output) ==
  LET status == search(output, "Status:", 1)
      type == search(output, "Content-Type:", 1)
      blank == search(output, "blank", type)
  IN [status_code |-> IF type = 0 THEN "INTERNAL_SERVER_ERROR_500"
                      ELSE IF status = 0 THEN "OK_200" ELSE output[status][2],
      type |-> IF type = 0 THEN "text/html" ELSE output[type][2],
      body_it |-> IF type = 0 \/ blank = 0 THEN 1 ELSE blank]

(* "Status:" and "Content-Type:" are looked for in all of the output, the end *)
(* of the headers from the Content-Type on: without one all of it is body.    *)
cgiDataProcess(output) ==
  LET status == search(output, "Status:", 1)
      type == search(output, "Content-Type:", 1)
  IN [status_code |-> IF type = 0 THEN "INTERNAL_SERVER_ERROR_500"
                      ELSE IF status = 0 THEN "OK_200" ELSE output[status][2],
      type |-> IF type = 0 THEN "text/html" ELSE output[type][2],
      body_it |-> 1 + IF type = 0 THEN 0 ELSE search(output, "blank", type)]

\* The type of m_target_file.
getMime(r) ==
  CASE r.redirection_exist -> Mime["none"]
    [] ~r.redirection_exist /\ r.auto_index /\ ~r.file_exist -> Mime[".html"]
    [] OTHER -> Mime[Extension[r.file_name]]

\* Mutant of generateContentLength: the headers of a CGI program count as body.
generateContentLengthOfAll(r, body, body_it, is_cgi_timeout) == Len(body)

generateContentLength(r, body, body_it, is_cgi_timeout) ==
  IF r.cgi_flag /\ ~is_cgi_timeout THEN Len(body) - (body_it - 1) ELSE Len(body)

setBody(request, r, body, body_it, is_cgi_timeout) ==
  CASE request.method = "HEAD" -> <<>>
    [] request.method # "HEAD" /\ r.cgi_flag /\ ~is_cgi_timeout ->
         SubSeq(body, body_it, Len(body))
    [] OTHER -> body

\* setStartLine, setHeaders and setBody.
Message(request, r, code, type, body, body_it, is_cgi_timeout) ==
  [status |-> code,
   length |-> generateContentLength(r, body, body_it, is_cgi_timeout),
   type |-> type,
   location |-> IF r.redirection_exist THEN r.rediretion_location ELSE "",
   body |-> setBody(request, r, body, body_it, is_cgi_timeout)]

generateErrorBody(code, page, body) ==
  IF page # <<>> THEN page ELSE Append(body, <<"error", code>>)

\* For a CGI that is not out of time the length and the body are taken from
\* m_cgi_body_it, which only cgiDataProcess sets.
generateErrorResponseMessage(request, r, code, page, body, is_cgi_timeout) ==
  IF r.cgi_flag /\ ~is_cgi_timeout
    THEN Undefined
    ELSE Message(request, r, code, IF r.cgi_flag THEN "text/html" ELSE getMime(r),
                 generateErrorBody(code, page, body), 1, is_cgi_timeout)

(* The status of a redirection takes the place of any other.                  *)
generateResponseMessage(request, r, page, body, is_cgi_timeout) ==
  LET cgi == cgiDataProcess(body)
      code == CASE r.redirection_exist -> "FOUND_302"
                [] ~r.redirection_exist /\ r.cgi_flag /\ r.status_code = "OK_200"
                     /\ body = <<>> -> "BAD_GATEWAY_502"
                [] OTHER -> r.status_code
  IN IF code \notin {"OK_200", "FOUND_302"}
       THEN generateErrorResponseMessage(request, r, code, page, body, is_cgi_timeout)
     ELSE IF r.cgi_flag
       THEN Message(request, r, cgi.status_code, cgi.type, body, cgi.body_it, is_cgi_timeout)
     ELSE Message(request, r, code, getMime(r), IF r.redirection_exist THEN <<>> ELSE body,
                  1, is_cgi_timeout)
=============================================================================
