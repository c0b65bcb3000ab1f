--------------------------- MODULE WebservProofs ----------------------------
(***************************************************************************)
(* Proofs about the whole way from the configuration file to the answer:   *)
(* what the server may take for granted of its configuration, that it says *)
(* what the file says, and that the client is told so; that the answer of  *)
(* a CGI program and the listing of a directory reach the client. For all  *)
(* configuration files, disks, requests and outputs.                       *)
(***************************************************************************)
EXTENDS HttpProcessorProofs, FiniteSetTheorems, WellFoundedInduction

(***************************************************************************)
(* search.                                                                 *)
(***************************************************************************)
LEMMA LeastNatural ==
  ASSUME NEW T, T \subseteq Nat, T # {}
  PROVE  \E x \in T : \A y \in T : x <= y
<1> DEFINE R == {ss \in Nat \X Nat : ss[1] < ss[2]}
<1>1. R = OpToRel(<, Nat)
  BY DEF OpToRel
<1>2. IsWellFoundedOn(R, Nat)
  BY <1>1, NatLessThanWellFounded
<1>3. PICK x \in T : \A y \in T : <<y, x>> \notin R
  BY <1>2, WFMin
<1>4. ASSUME NEW y \in T, y < x PROVE FALSE
  <2>1. <<y, x>> \in Nat \X Nat /\ <<y, x>>[1] < <<y, x>>[2]
    BY <1>4
  <2>2. <<y, x>> \in R
    BY <2>1
  <2> QED
    BY <1>3, <2>2
<1> HIDE DEF R
<1> QED
  BY <1>4

\* No unit from the place on starts with key, or the one found is the first.
FirstOrNone(output, key, from, p) ==
  \/ p = 0 /\ \A i \in from .. Len(output) : output[i][1] # key
  \/ /\ p \in from .. Len(output)
     /\ output[p][1] = key
     /\ \A i \in from .. p - 1 : output[i][1] # key

LEMMA SearchFindsFirst ==
  ASSUME NEW output, Len(output) \in Nat, NEW key, NEW from \in Nat \ {0}
  PROVE  FirstOrNone(output, key, from, search(output, key, from))
<1> DEFINE at == {i \in from .. Len(output) : output[i][1] = key}
<1>1. CASE at = {}
  BY <1>1 DEF FirstOrNone, search
<1>2. CASE at # {}
  <2>0. at \subseteq Nat
    OBVIOUS
  <2>1. PICK x \in at : \A y \in at : x <= y
    <3> HIDE DEF at
    <3> QED
      BY <1>2, <2>0, LeastNatural
  <2>2. Min(at) \in at /\ \A y \in at : Min(at) <= y
    BY <2>1 DEF Min
  <2>3. search(output, key, from) = Min(at)
    BY <1>2 DEF search
  <2>4. Min(at) \in from .. Len(output) /\ output[Min(at)][1] = key
    BY <2>2
  <2>5. ASSUME NEW i \in from .. Min(at) - 1, output[i][1] = key PROVE FALSE
    <3>1. i \in at
      BY <2>4, <2>5
    <3> QED
      BY <2>2, <2>4, <2>5, <3>1
  <2> HIDE DEF at
  <2> QED
    BY <2>3, <2>4, <2>5 DEF FirstOrNone
<1> QED
  BY <1>1, <1>2

\* There is one first place only.
LEMMA FirstIsUnique ==
  ASSUME NEW output, Len(output) \in Nat, NEW key, NEW from \in Nat \ {0}, NEW p, NEW q,
         FirstOrNone(output, key, from, p), FirstOrNone(output, key, from, q)
  PROVE  p = q
  BY DEF FirstOrNone

LEMMA SearchIs ==
  ASSUME NEW output, Len(output) \in Nat, NEW key, NEW from \in Nat \ {0}, NEW p,
         FirstOrNone(output, key, from, p)
  PROVE  search(output, key, from) = p
  BY SearchFindsFirst, FirstIsUnique
(***************************************************************************)
(* A well-formed output.                                                   *)
(***************************************************************************)
\* What cgiDataProcess makes of an output with an empty line at place i.
Decided(output, headers, i) ==
  LET status == search(headers, "Status:", 1)
      cgi == cgiDataProcess(output)
  IN /\ cgi.body_it = i + 1
     /\ cgi.type = headers[search(headers, "Content-Type:", 1)][2]
     /\ cgi.status_code = IF status = 0 THEN "OK_200" ELSE headers[status][2]

LEMMA HeadersDecide ==
  ASSUME NEW output, Len(output) \in Nat, NEW i \in 1 .. Len(output),
         output[i][1] = "blank",
         NEW headers, Len(headers) = i - 1, \A k \in 1 .. i - 1 : headers[k] = output[k],
         NEW text, Len(text) = Len(output) - i,
         \A k \in 1 .. Len(output) - i : text[k] = output[i + k],
         DOMAIN headers = 1 .. Len(headers),
         WellFormed(headers, text)
  PROVE  Decided(output, headers, i)
<1> DEFINE t == search(headers, "Content-Type:", 1)
           s == search(headers, "Status:", 1)
<1>1. Len(headers) \in Nat /\ Len(text) \in Nat
  OBVIOUS
<1>3. \A k \in 1 .. i - 1 : output[k][1] \in {"Status:", "Content-Type:"}
  BY DEF WellFormed, Header
<1>4. /\ FirstOrNone(headers, "Content-Type:", 1, t)
      /\ FirstOrNone(headers, "Status:", 1, s)
      /\ FirstOrNone(text, "Status:", 1, search(text, "Status:", 1))
  <2> HIDE DEF t, s
  <2> QED
    BY <1>1, SearchFindsFirst DEF t, s
<1>5. t # 0 /\ (s = 0 => search(text, "Status:", 1) = 0)
  BY DEF WellFormed
<1> HIDE DEF t, s
<1>6. t \in 1 .. i - 1 /\ search(output, "Content-Type:", 1) = t
  <2>1. /\ t \in 1 .. i - 1 /\ output[t][1] = "Content-Type:"
        /\ \A k \in 1 .. t - 1 : output[k][1] # "Content-Type:"
    BY <1>4, <1>5 DEF FirstOrNone
  <2>2. FirstOrNone(output, "Content-Type:", 1, t)
    BY <2>1 DEF FirstOrNone
  <2> QED
    BY <2>1, <2>2, SearchIs
<1>7. search(output, "blank", t) = i
  <2>1. ASSUME NEW k \in t .. i - 1 PROVE output[k][1] # "blank"
    <3>1. k \in 1 .. i - 1
      BY <1>6
    <3> QED
      BY <1>3, <3>1
  <2>2. FirstOrNone(output, "blank", t, i)
    BY <1>6, <2>1 DEF FirstOrNone
  <2>3. t \in Nat \ {0} /\ i \in Nat
    BY <1>6
  <2> QED
    BY <2>2, <2>3, SearchIs
<1>8. search(output, "Status:", 1) = s
  <2>1. CASE s # 0
    <3>1. /\ s \in 1 .. i - 1 /\ output[s][1] = "Status:"
          /\ \A k \in 1 .. s - 1 : output[k][1] # "Status:"
      BY <1>1, <1>4, <2>1 DEF FirstOrNone
    <3>2. FirstOrNone(output, "Status:", 1, s)
      BY <3>1 DEF FirstOrNone
    <3> QED
      BY <3>2, SearchIs
  <2>2. CASE s = 0
    <3>1. \A k \in 1 .. i - 1 : output[k][1] # "Status:"
      BY <1>1, <1>4, <2>2 DEF FirstOrNone
    <3>2. \A k \in 1 .. Len(text) : text[k][1] # "Status:"
      BY <1>1, <1>4, <1>5, <2>2 DEF FirstOrNone
    <3>3. ASSUME NEW k \in i + 1 .. Len(output) PROVE output[k][1] # "Status:"
      <4>1. k - i \in 1 .. Len(output) - i /\ output[i + (k - i)] = output[k]
        OBVIOUS
      <4>2. k - i \in 1 .. Len(text) /\ text[k - i] = output[k]
        BY <4>1
      <4> QED
        BY <3>2, <4>2
    <3>4. ASSUME NEW k \in 1 .. Len(output) PROVE output[k][1] # "Status:"
      <4>1. output[i][1] # "Status:"
        OBVIOUS
      <4>2. k \in 1 .. i - 1 \/ k = i \/ k \in i + 1 .. Len(output)
        OBVIOUS
      <4> QED
        BY <3>1, <3>3, <4>1, <4>2
    <3>5. FirstOrNone(output, "Status:", 1, 0)
      BY <3>4 DEF FirstOrNone
    <3> QED
      BY <3>5, <2>2, SearchIs
  <2> QED
    BY <2>1, <2>2
<1>9. /\ headers[t] = output[t]
      /\ s # 0 => headers[s] = output[s]
  BY <1>1, <1>4, <1>6 DEF FirstOrNone
<1> QED
  BY <1>6, <1>7, <1>8, <1>9 DEF cgiDataProcess, t, s, Decided

LEMMA WellFormedDelivered ==
  ASSUME NEW S, NEW output \in Seq(S), NEW i \in 1 .. Len(output),
         output[i][1] = "blank",
         WellFormed(SubSeq(output, 1, i - 1), SubSeq(output, i + 1, Len(output)))
  PROVE  Decided(output, SubSeq(output, 1, i - 1), i)
<1>1. \A k \in 1 .. Len(output) : output[k] \in S
  BY ElementOfSeq
<1> DEFINE headers == SubSeq(output, 1, i - 1)
           text == SubSeq(output, i + 1, Len(output))
<1>2. /\ headers \in Seq(S)
      /\ Len(headers) = i - 1
      /\ \A k \in 1 .. i - 1 : headers[k] = output[k]
  <2>1. /\ headers \in Seq(S)
        /\ Len(headers) = IF 1 <= i - 1 THEN i - 1 - 1 + 1 ELSE 0
        /\ \A k \in 1 .. i - 1 - 1 + 1 : headers[k] = output[1 + k - 1]
    BY <1>1, SubSeqProperties
  <2> HIDE DEF headers
  <2> QED
    BY <2>1
<1>3. /\ Len(text) = Len(output) - i
      /\ \A k \in 1 .. Len(output) - i : text[k] = output[i + k]
  <2>1. /\ Len(text) = IF i + 1 <= Len(output) THEN Len(output) - (i + 1) + 1 ELSE 0
        /\ \A k \in 1 .. Len(output) - (i + 1) + 1 : text[k] = output[i + 1 + k - 1]
    BY <1>1, SubSeqProperties
  <2> HIDE DEF text
  <2> QED
    BY <2>1
<1>4. WellFormed(headers, text)
  OBVIOUS
<1> HIDE DEF headers, text
<1>5. DOMAIN headers = 1 .. Len(headers)
  BY <1>2
<1>6. Len(output) \in Nat
  OBVIOUS
<1>7. Decided(output, headers, i)
  BY <1>2, <1>3, <1>4, <1>5, <1>6, HeadersDecide
<1> QED
  BY <1>7 DEF headers

(***************************************************************************)
(* The steps of HttpProcessor that leave cgi_flag set.                     *)
(***************************************************************************)
\* What the message of a request with cgi_flag may count on.
CgiReady ==
  pc = "read" /\ response.cgi_flag =>
    /\ response.status_code = "OK_200" /\ ~response.redirection_exist
    /\ request.method \in {"GET", "POST"}
    /\ response.static_read_file_fd = NoPath /\ response.static_write_file_fd = NoPath

\* A CGI location redirects nobody.
LEMMA CgiNotRedirected ==
  Located.cgi_flag => ~Located.redirection_exist
<1> SUFFICES ASSUME Located.cgi_flag PROVE ~Located.redirection_exist
  OBVIOUS
<1> DEFINE r == setCgi(disk, found.server, request)
<1>1. r.redirection_exist = FALSE /\ DOMAIN r = DOMAIN Response0
  BY DEF setCgi, setIndex, Throw, Response0
<1>2. Untouched(Unredirected) /\ (WithoutCgi(Unredirected) \/ Unredirected = r)
  <2>1. WithoutCgi(Unredirected) \/ Unredirected = r
    BY ThrowWithoutCgi, LocationsWithoutCgi DEF Unredirected, PathFinder
  <2>2. Untouched(r)
    BY SetCgiFlag DEF WithoutCgi
  <2> QED
    BY <2>1, <2>2 DEF WithoutCgi
<1>3. Located = [Unredirected EXCEPT
                   !.redirection_exist = @ /\ request.method = "GET"]
  BY DEF Located, Unredirected
<1>4. Located.cgi_flag = Unredirected.cgi_flag
  BY <1>2, <1>3 DEF Untouched, Response0
<1>5. Unredirected = r
  BY <1>2, <1>4 DEF WithoutCgi
<1> HIDE DEF r
<1> QED
  BY <1>1, <1>3, <1>5 DEF Response0

LEMMA CgiHandlerReady ==
  ASSUME CgiByGetOrPost, CgiHandler PROVE CgiReady'
<1>1. Untouched(Located) /\ Located.status_code = "OK_200"
  BY LocatedFlag DEF CgiHandler, Accepted, WithoutCgi
<1>2. CASE Located.file_exist
  BY <1>1, <1>2, CgiNotRedirected
  DEF CgiHandler, Accepted, Answer, CgiReady, Untouched, Response0
<1>3. CASE ~Located.file_exist
  BY <1>1, <1>3 DEF CgiHandler, Answer, CgiReady, Code, Untouched, Response0
<1> QED
  BY <1>2, <1>3

\* Every other step that ends a request leaves it without a child, and a request
\* without a child has no cgi_flag.
LEMMA OthersReady ==
  ASSUME CgiByGetOrPost, IInv, Next, ~CgiHandler PROVE CgiReady'
<1>1. SUFFICES ASSUME pc' = "read" PROVE response'.cgi_child_pid = FALSE
  <2>1. pc' = "read" => Processed
    BY DEF Next, NextRequest, FindServerOfRequest, Processed, BadRequest, PathFinderThrows,
           GetMethodHandler, UploadHandler, DeleteMethodHandler, MethodNotAllowed,
           CgiHandler, Accepted
  <2> QED
    BY <1>1, <2>1, NextSound DEF SoundStep, ChildStep, CgiReady
<1>2. Untouched(Located)
  BY LocatedFlag DEF WithoutCgi
<1>3. CASE GetMethodHandler
  BY <1>2, <1>3 DEF GetMethodHandler, Answer, Code, Untouched, Response0
<1>4. CASE UploadHandler
  BY <1>2, <1>4 DEF UploadHandler, Answer, Code, Untouched, Response0
<1>5. CASE DeleteMethodHandler
  BY <1>2, <1>5 DEF DeleteMethodHandler, Answer, Code, Untouched, Response0
<1>6. CASE MethodNotAllowed \/ PathFinderThrows
  BY <1>2, <1>6 DEF MethodNotAllowed, PathFinderThrows, Answer, Code, Untouched, Response0
<1>7. CASE BadRequest
  <2>1. response' = Code(response, request.status) /\ response = Response0
    BY <1>7 DEF BadRequest, IInv, Answer
  <2>2. WithoutCgi(response')
    BY <2>1, Response0WithoutCgi, CodeWithoutCgi
  <2> QED
    BY <2>2 DEF WithoutCgi, Untouched
<1>8. CASE NextRequest \/ FindServerOfRequest
  BY <1>1, <1>8 DEF NextRequest, FindServerOfRequest
<1> QED
  BY <1>3, <1>4, <1>5, <1>6, <1>7, <1>8 DEF Next

(***************************************************************************)
(* The message.                                                            *)
(***************************************************************************)
\* The message that is there is the one made of the content for the request.
CgiMessage(body) ==
  LET cgi == cgiDataProcess(body)
  IN Message(request, response, cgi.status_code, cgi.type, body, cgi.body_it, FALSE)

AnswerInv ==
  /\ IInv /\ CgiReady
  /\ pc # "read" => ~Sent
  /\ Sent /\ response.cgi_flag =>
       \/ content = <<>> /\ message.status = "BAD_GATEWAY_502"
       \/ content \in CgiOutputs \ {<<>>} /\ message = CgiMessage(content)

\* Mapping one output to what is said of it.
LEMMA MessageDelivered ==
  ASSUME NEW output \in CgiOutputs, output # <<>>, request.method # "HEAD",
         response.cgi_flag, content = output, message = CgiMessage(output)
  PROVE  CgiDelivered
<1> DEFINE cgi == cgiDataProcess(output)
<1>1. /\ message.status = cgi.status_code
      /\ message.type = cgi.type
      /\ message.body = SubSeq(output, cgi.body_it, Len(output))
  BY DEF CgiMessage, Message, setBody
<1>2. search(output, "Content-Type:", 1) = 0 => message.status # "OK_200"
  BY <1>1 DEF cgiDataProcess
<1>3. output \in Seq(ToSet(output))
  BY CgiOutputsAssumption
<1>4. ASSUME NEW i \in DOMAIN output, output[i][1] = "blank",
             WellFormed(SubSeq(output, 1, i - 1), SubSeq(output, i + 1, Len(output)))
      PROVE  LET headers == SubSeq(output, 1, i - 1)
                 text == SubSeq(output, i + 1, Len(output))
                 status == search(headers, "Status:", 1)
             IN /\ message.body = text
                /\ message.type = headers[search(headers, "Content-Type:", 1)][2]
                /\ message.status = IF status = 0 THEN "OK_200" ELSE headers[status][2]
  <2>1. i \in 1 .. Len(output)
    BY <1>3
  <2>2. Decided(output, SubSeq(output, 1, i - 1), i)
    BY <1>3, <1>4, <2>1, WellFormedDelivered
  <2> QED
    BY <1>1, <2>2 DEF Decided
<1> QED
  BY <1>2, <1>4 DEF CgiDelivered

LEMMA AnswerDelivered == AnswerInv => CgiDelivered
<1> SUFFICES ASSUME AnswerInv, Sent, response.cgi_flag PROVE CgiDelivered
  BY DEF CgiDelivered
<1>1. CASE content = <<>> /\ message.status = "BAD_GATEWAY_502"
  BY <1>1 DEF CgiDelivered
<1>2. CASE content \in CgiOutputs \ {<<>>} /\ message = CgiMessage(content)
  <2>1. request.method # "HEAD"
    BY DEF AnswerInv, CgiReady
  <2> QED
    BY <1>2, <2>1, MessageDelivered
<1> QED
  BY <1>1, <1>2 DEF AnswerInv

LEMMA InitAnswer == WebservInit => AnswerInv
<1> SUFFICES ASSUME WebservInit PROVE AnswerInv
  OBVIOUS
<1>1. ~Sent /\ pc = "start" /\ IInv
  BY DEF WebservInit, Init, Sent, NoMessage, IInv
<1> QED
  BY <1>1 DEF AnswerInv, CgiReady

LEMMA RespondAnswer ==
  ASSUME AnswerInv, NEW body, NEW timeout \in BOOLEAN, Respond(body, timeout),
         response.cgi_flag => IF timeout THEN body = <<>> ELSE body \in CgiOutputs
  PROVE  AnswerInv'
<1> DEFINE m == generateResponseMessage(request, response, found.server.error_page_vector,
                                        body, timeout)
<1>1. /\ pc = "read" /\ UNCHANGED vars
      /\ content' = body /\ message' = m
  BY DEF Respond
<1>2. ASSUME response.cgi_flag PROVE m.status # "undefined" =>
        \/ body = <<>> /\ m.status = "BAD_GATEWAY_502"
        \/ body \in CgiOutputs \ {<<>>} /\ m = CgiMessage(body)
  <2>1. response.status_code = "OK_200" /\ ~response.redirection_exist
    BY <1>1, <1>2 DEF AnswerInv, CgiReady
  <2>2. CASE body = <<>>
    BY <1>2, <2>1, <2>2 DEF generateResponseMessage, generateErrorResponseMessage,
                            Undefined, NoMessage, Message
  <2>3. CASE body # <<>>
    BY <1>2, <2>1, <2>3 DEF generateResponseMessage, CgiMessage
  <2> QED
    BY <2>2, <2>3
<1>3. (IInv /\ CgiReady)'
  BY <1>1 DEF AnswerInv, IInv, CgiReady, vars
<1> HIDE DEF m
<1>4. (Sent /\ response.cgi_flag =>
         \/ content = <<>> /\ message.status = "BAD_GATEWAY_502"
         \/ content \in CgiOutputs \ {<<>>} /\ message = CgiMessage(content))'
  <2>1. Sent' => m.status # "undefined"
    BY <1>1 DEF Sent
  <2>2. request' = request /\ response' = response
    BY <1>1 DEF vars
  <2>3. CgiMessage(body)' = CgiMessage(body)
    BY <2>2 DEF CgiMessage
  <2> QED
    BY <1>1, <1>2, <2>1, <2>2, <2>3 DEF CgiMessage
<1> QED
  BY <1>1, <1>3, <1>4 DEF AnswerInv, vars

LEMMA NextAnswer == CgiByGetOrPost /\ AnswerInv /\ [WebservNext]_webservVars => AnswerInv'
<1> SUFFICES ASSUME CgiByGetOrPost, AnswerInv, [WebservNext]_webservVars PROVE AnswerInv'
  OBVIOUS
<1>1. CASE Process
  <2>1. Next /\ message' = NoMessage
    BY <1>1 DEF Process
  <2>2. IInv' /\ CgiReady'
    BY <2>1, NextIInv, CgiHandlerReady, OthersReady DEF AnswerInv
  <2> QED
    BY <2>1, <2>2 DEF AnswerInv, Sent, NoMessage
<1>2. CASE UNCHANGED <<vars, answerVars>>
  BY <1>2 DEF AnswerInv, IInv, CgiReady, Sent, CgiMessage, vars, answerVars
<1>3. CASE Start
  BY <1>3 DEF Start, Serve, AnswerInv, IInv, CgiReady, Sent, vars, answerVars
<1>4. CASE CloseConnection
  BY <1>4 DEF CloseConnection, Closed, NoMessage, AnswerInv, IInv, CgiReady, Sent, vars
<1>5. CASE RespondCgi
  BY <1>5, RespondAnswer DEF RespondCgi
<1>6. CASE RespondTimeout
  BY <1>6, RespondAnswer DEF RespondTimeout
<1>7. CASE RespondInline
  BY <1>7, RespondAnswer DEF RespondInline
<1>8. CASE RespondFile \/ RespondUpload
  <2>1. ~response.cgi_flag
    BY <1>8 DEF RespondFile, RespondUpload, Respond, AnswerInv, CgiReady
  <2> QED
    BY <1>8, <2>1, RespondAnswer DEF RespondFile, RespondUpload
<1> QED
  BY <1>1, <1>2, <1>3, <1>4, <1>5, <1>6, <1>7, <1>8
  DEF WebservNext, webservVars, ReadConfig

\* What a CGI program answers reaches the client, or the client is told that
\* something went wrong, for every configuration whose CGI locations accept GET
\* and POST only, and for every output, whatever follows its first empty line.
THEOREM CgiAlwaysDelivered ==
  WebservSpec /\ []CgiByGetOrPost => []CgiDelivered
<1>1. WebservSpec /\ []CgiByGetOrPost => []AnswerInv
  BY InitAnswer, NextAnswer, PTL DEF WebservSpec
<1> QED
  BY <1>1, AnswerDelivered, PTL

(***************************************************************************)
(* The length of a message.                                                *)
(***************************************************************************)
LEMMA BodyInRange ==
  ASSUME NEW S, NEW output \in Seq(S)
  PROVE  cgiDataProcess(output).body_it \in 1 .. Len(output) + 1
<1> DEFINE type == search(output, "Content-Type:", 1)
           blank == search(output, "blank", type)
<1>1. FirstOrNone(output, "Content-Type:", 1, type)
  BY SearchFindsFirst
<1> HIDE DEF type
<1>2. CASE type = 0
  BY <1>2 DEF cgiDataProcess, type
<1>3. CASE type # 0
  <2>1. type \in Nat \ {0}
    BY <1>1, <1>3 DEF FirstOrNone
  <2>2. FirstOrNone(output, "blank", type, blank)
    BY <2>1, SearchFindsFirst
  <2> HIDE DEF blank
  <2>3. blank \in 0 .. Len(output)
    BY <2>1, <2>2 DEF FirstOrNone
  <2>4. cgiDataProcess(output).body_it = 1 + blank
    BY <1>3 DEF cgiDataProcess, type, blank
  <2> QED
    BY <2>3, <2>4
<1> QED
  BY <1>2, <1>3

FramedAs(req, m) == IF req.method = "HEAD" THEN m.body = <<>> ELSE m.length = Len(m.body)

\* A message of all of its body, or of a CGI's from body_it on.
LEMMA MessageFramed ==
  ASSUME NEW req, NEW r, NEW code, NEW type, NEW S, NEW body, NEW body_it,
         NEW timeout \in BOOLEAN,
         r.cgi_flag /\ ~timeout =>
           body \in Seq(S) /\ body_it \in 1 .. Len(body) + 1
  PROVE  FramedAs(req, Message(req, r, code, type, body, body_it, timeout))
<1>1. CASE req.method # "HEAD" /\ r.cgi_flag /\ ~timeout
  <2>1. Len(SubSeq(body, body_it, Len(body))) = Len(body) - (body_it - 1)
    <3>1. body \in Seq(S) /\ body_it \in 1 .. Len(body) + 1
      BY <1>1
    <3>2. \A i \in body_it .. Len(body) : body[i] \in S
      BY <3>1, ElementOfSeq
    <3> QED
      BY <3>1, <3>2, SubSeqProperties
  <2> QED
    BY <1>1, <2>1 DEF FramedAs, Message, generateContentLength, setBody
<1>2. CASE req.method # "HEAD" /\ ~(r.cgi_flag /\ ~timeout)
  BY <1>2 DEF FramedAs, Message, generateContentLength, setBody
<1>3. CASE req.method = "HEAD"
  BY <1>3 DEF FramedAs, Message, setBody
<1> QED
  BY <1>1, <1>2, <1>3

LEMMA ResponseFramed ==
  ASSUME NEW req, NEW r, NEW page, NEW S, NEW body, NEW timeout \in BOOLEAN,
         r.cgi_flag => body \in Seq(S)
  PROVE  LET m == generateResponseMessage(req, r, page, body, timeout)
         IN m.status # "undefined" => FramedAs(req, m)
<1> DEFINE m == generateResponseMessage(req, r, page, body, timeout)
           cgi == cgiDataProcess(body)
<1>1. ASSUME NEW code
      PROVE  LET e == generateErrorResponseMessage(req, r, code, page, body, timeout)
             IN e.status # "undefined" => FramedAs(req, e)
  <2>1. CASE r.cgi_flag /\ ~timeout
    BY <2>1 DEF generateErrorResponseMessage, Undefined, NoMessage
  <2>2. CASE ~(r.cgi_flag /\ ~timeout)
    BY <2>2, MessageFramed DEF generateErrorResponseMessage
  <2> QED
    BY <2>1, <2>2
<1>2. ASSUME r.cgi_flag
      PROVE  FramedAs(req, Message(req, r, cgi.status_code, cgi.type, body, cgi.body_it,
                                   timeout))
  BY <1>2, MessageFramed, BodyInRange
<1>3. ASSUME ~r.cgi_flag, NEW code, NEW all
      PROVE  FramedAs(req, Message(req, r, code, getMime(r), all, 1, timeout))
  BY <1>3, MessageFramed
<1> HIDE DEF cgi
<1> QED
  BY <1>1, <1>2, <1>3 DEF generateResponseMessage, cgi

FramedInv == Framed /\ (pc # "read" => ~Sent)

LEMMA FramedAsFramed == Framed <=> (Sent => FramedAs(request, message))
  BY DEF Framed, FramedAs

LEMMA RespondFramed ==
  ASSUME FramedInv, NEW S, NEW body, NEW timeout \in BOOLEAN, Respond(body, timeout),
         response.cgi_flag => body \in Seq(S)
  PROVE  FramedInv'
<1>1. /\ pc' = "read" /\ request' = request
      /\ message' = generateResponseMessage(request, response,
                       found.server.error_page_vector, body, timeout)
  BY DEF Respond, vars
<1>2. message'.status # "undefined" => FramedAs(request, message')
  BY <1>1, ResponseFramed
<1> QED
  BY <1>1, <1>2 DEF FramedInv, Framed, FramedAs, Sent

LEMMA NextFramed == FramedInv /\ [WebservNext]_webservVars => FramedInv'
<1> SUFFICES ASSUME FramedInv, [WebservNext]_webservVars PROVE FramedInv'
  OBVIOUS
<1>1. CASE Process
  BY <1>1 DEF Process, FramedInv, Framed, Sent, NoMessage
<1>2. CASE UNCHANGED <<vars, answerVars>>
  BY <1>2 DEF FramedInv, Framed, Sent, vars, answerVars
<1>3. CASE Start
  BY <1>3 DEF Start, Serve, FramedInv, Framed, Sent, answerVars
<1>4. CASE CloseConnection
  BY <1>4 DEF CloseConnection, Closed, NoMessage, FramedInv, Framed, Sent, vars
<1>5. CASE RespondCgi
  BY <1>5, RespondFramed, CgiOutputsAssumption DEF RespondCgi
<1>6. CASE RespondTimeout \/ RespondUpload
  <2>1. <<>> \in Seq({})
    OBVIOUS
  <2> QED
    BY <1>6, <2>1, RespondFramed DEF RespondTimeout, RespondUpload
<1>7. CASE RespondInline
  BY <1>7, RespondFramed DEF RespondInline
<1>8. CASE RespondFile
  <2>1. PICK body \in {<<>>, <<<<"file", response.static_read_file_fd>>>>} : Respond(body, FALSE)
    BY <1>8 DEF RespondFile
  <2> DEFINE unit == <<"file", response.static_read_file_fd>>
  <2>2. body \in Seq({unit})
    <3>1. body \in {<<>>, <<unit>>}
      OBVIOUS
    <3>2. <<>> \in Seq({unit}) /\ <<unit>> \in Seq({unit})
      <4> HIDE DEF unit
      <4> QED
        OBVIOUS
    <3> HIDE DEF unit
    <3>3. CASE body = <<>>
      BY <3>2, <3>3
    <3>4. CASE body = <<unit>>
      BY <3>2, <3>4
    <3> QED
      BY <3>1, <3>3, <3>4, Zenon
  <2> QED
    BY <2>1, <2>2, RespondFramed
<1> QED
  BY <1>1, <1>2, <1>3, <1>4, <1>5, <1>6, <1>7, <1>8
  DEF WebservNext, webservVars, ReadConfig

\* A client always finds the end of its message: generateContentLength and setBody
\* each decide on their own where the body begins (ResponseGenerator.cpp:206 and
\* :311), and never differ, whatever a CGI program wrote.
THEOREM AlwaysFramed == WebservSpec => []Framed
<1>1. WebservInit => FramedInv
  <2> SUFFICES ASSUME WebservInit PROVE FramedInv
    OBVIOUS
  <2>1. message = NoMessage
    BY DEF WebservInit
  <2>2. ~Sent
    BY <2>1 DEF Sent, NoMessage
  <2> QED
    BY <2>2 DEF FramedInv, Framed
<1>2. FramedInv => Framed
  BY DEF FramedInv
<1> QED
  BY <1>1, <1>2, NextFramed, PTL DEF WebservSpec

(***************************************************************************)
(* The configuration.                                                      *)
(***************************************************************************)
CompleteLocations(locations) ==
  \A key \in DOMAIN locations :
    locations[key].root # <<>> /\ locations[key].accepted_method # {}

ConfigInv ==
  /\ \E S : m_server_conf \in Seq(S)
  /\ CompleteLocations(temp_locations)
  /\ \A n \in DOMAIN m_server_conf : Complete(m_server_conf[n])
  /\ block = "listening" => setServers

LEMMA InsertComplete ==
  ASSUME NEW locations, CompleteLocations(locations), NEW key, NEW map,
         isVaildLocationBlock(map)
  PROVE  CompleteLocations(Insert(locations, key, Location(map)))
  BY DEF CompleteLocations, Insert, Location, isVaildLocationBlock

LEMMA BlockComplete ==
  ASSUME NEW conf, isVaildServerBlock(conf), NEW locations, CompleteLocations(locations)
  PROVE  Complete(ServerBlock(conf, locations))
  BY DEF Complete, ServerBlock, CompleteLocations, isVaildServerBlock

LEMMA NoLocations == CompleteLocations(NoWords)
  BY DEF CompleteLocations, NoWords

LEMMA CloseServerInv ==
  ASSUME ConfigInv, CloseServer PROVE ConfigInv'
<1> DEFINE server == ServerBlock(temp_conf, temp_locations)
<1>1. Complete(server)
  BY BlockComplete DEF ConfigInv, CloseServer
<1> HIDE DEF server
<1>2. PICK S : m_server_conf \in Seq(S)
  BY DEF ConfigInv
<1>3. m_server_conf' = Append(m_server_conf, server) /\ block' = "top"
      /\ temp_locations' = temp_locations
  BY DEF CloseServer, serverVars, server
<1>4. m_server_conf \in Seq(S \cup {server}) /\ server \in S \cup {server}
  BY <1>2
<1>5. /\ m_server_conf' \in Seq(S \cup {server})
      /\ DOMAIN m_server_conf' = 1 .. Len(m_server_conf) + 1
      /\ \A n \in DOMAIN m_server_conf : m_server_conf'[n] = m_server_conf[n]
      /\ m_server_conf'[Len(m_server_conf) + 1] = server
  BY <1>3, <1>4, AppendProperties
<1>6. ASSUME NEW n \in DOMAIN m_server_conf' PROVE Complete(m_server_conf'[n])
  <2>1. n \in DOMAIN m_server_conf \/ n = Len(m_server_conf) + 1
    BY <1>2, <1>5
  <2> QED
    BY <1>1, <1>5, <2>1 DEF ConfigInv
<1> QED
  BY <1>3, <1>5, <1>6 DEF ConfigInv

LEMMA NextConfigInv == ConfigInv /\ [WebservNext]_webservVars => ConfigInv'
<1> SUFFICES ASSUME ConfigInv, [WebservNext]_webservVars PROVE ConfigInv'
  OBVIOUS
<1>1. ASSUME UNCHANGED <<m_server_conf, temp_locations>>,
             block' = "listening" => setServers
      PROVE  ConfigInv'
  <2>1. setServers' = setServers
    BY <1>1 DEF setServers, Ports, Port
  <2> QED
    BY <1>1, <2>1 DEF ConfigInv
<1>2. CASE UNCHANGED configVars
  BY <1>1, <1>2 DEF ConfigInv, configVars, serverVars
<1>3. CASE \/ SkipBlank \/ ReadDirective \/ ReadLocation \/ ReadLocationDirective
           \/ RefuseLine \/ RefuseBlock \/ ReadBeyondLine \/ RefuseStart \/ Listen
  BY <1>1, <1>3
  DEF ConfigInv, SkipBlank, ReadDirective, ReadLocation, ReadLocationDirective, RefuseLine,
      RefuseBlock, ReadBeyondLine, RefuseStart, Listen, Halt, serverVars, Directive, InBlock
<1>4. CASE ReadServer
  BY <1>4, NoLocations DEF ReadServer, ConfigInv
<1>5. CASE CloseLocation
  <2>1. CompleteLocations(temp_locations')
    BY <1>5, InsertComplete DEF CloseLocation, ConfigInv
  <2> QED
    BY <1>5, <2>1 DEF CloseLocation, ConfigInv
<1>6. CASE CloseServer
  BY <1>6, CloseServerInv
<1> QED
  BY <1>2, <1>3, <1>4, <1>5, <1>6
  DEF WebservNext, webservVars, ReadConfig, ConfigNext, Start, Process, RespondFile,
      RespondUpload, RespondInline, RespondCgi, RespondTimeout, Respond, CloseConnection

\* Whatever the configuration file, a server that listens has what the other parts
\* take for granted of their virtual servers (setServers.cpp:15, content.cpp:27
\* and :49).
THEOREM ConfigAlwaysUsable == WebservSpec => []Usable
<1>1. WebservInit => ConfigInv
  <2>1. <<>> \in Seq({}) /\ DOMAIN <<>> = {}
    OBVIOUS
  <2> SUFFICES ASSUME WebservInit PROVE ConfigInv
    OBVIOUS
  <2>2. m_server_conf = <<>> /\ temp_locations = NoWords /\ block = "top"
    BY DEF WebservInit, ConfigInit
  <2> QED
    BY <2>1, <2>2, NoLocations DEF ConfigInv
<1>2. ConfigInv => Usable
  <2> SUFFICES ASSUME ConfigInv, block = "listening",
                      NEW m \in DOMAIN m_server_conf, NEW n \in DOMAIN m_server_conf, m # n,
                      NEW p \in ToSet(m_server_conf[m].listen) \cap ToSet(m_server_conf[n].listen)
               PROVE  FALSE
    BY DEF ConfigInv, Usable
  <2>1. PICK i \in DOMAIN m_server_conf[m].listen : p = m_server_conf[m].listen[i]
    BY DEF ToSet
  <2>2. PICK j \in DOMAIN m_server_conf[n].listen : p = m_server_conf[n].listen[j]
    BY DEF ToSet
  <2>3. <<m, i>> \in Ports /\ <<n, j>> \in Ports
    BY DEF Ports
  <2>4. Port(<<m, i>>) = p /\ Port(<<n, j>>) = p
    BY <2>1, <2>2 DEF Port
  <2>5. <<m, i>> = <<n, j>>
    BY <2>3, <2>4 DEF ConfigInv, setServers
  <2> QED
    BY <2>5
<1> QED
  BY <1>1, <1>2, NextConfigInv, PTL DEF WebservSpec

(***************************************************************************)
(* ServerFinder.                                                           *)
(***************************************************************************)
\* The servers are a vector, and so are the ports of each.
Servers(list) ==
  /\ IsSequence(list)
  /\ \A n \in DOMAIN list : IsSequence(list[n].listen) /\ Locations(list[n].locations)

\* candidates[i] is never an earlier server than servers[i].
LEMMA NumberInServers ==
  ASSUME NEW list, Servers(list), NEW c \in Candidates(list)
  PROVE  Number(list, c) \in 1 .. c
<1> DEFINE upto == {i \in Candidates(list) : i <= c}
<1>1. Candidates(list) \subseteq 1 .. Len(list) /\ Len(list) \in Nat
  BY SequenceDomain DEF Candidates, Servers
<1>2. c \in Nat /\ c \in upto /\ upto \subseteq 1 .. c
  BY <1>1
<1>3. IsFiniteSet(1 .. c) /\ Cardinality(1 .. c) = c
  BY <1>2, FS_Interval
<1> HIDE DEF upto
<1>4. IsFiniteSet(upto) /\ Cardinality(upto) <= c /\ Cardinality(upto) \in Nat
  BY <1>2, <1>3, FS_Subset, FS_CardinalityType
<1>5. Cardinality(upto) # 0
  BY <1>2, <1>4, FS_EmptySet
<1>6. Number(list, c) = Cardinality(upto)
  BY DEF Number, upto
<1> QED
  BY <1>2, <1>4, <1>5, <1>6

LEMMA PositionsType ==
  ASSUME NEW list, Servers(list), NEW p \in Positions(list)
  PROVE  /\ p = <<p[1], p[2]>>
         /\ p[1] \in Candidates(list) /\ p[1] \in DOMAIN list /\ p[1] \in Nat
         /\ p[2] \in DOMAIN list[Number(list, p[1])].listen /\ p[2] \in Nat \ {0}
<1>1. PICK c \in Candidates(list) :
        \E k \in DOMAIN list[Number(list, c)].listen : p = <<c, k>>
  BY DEF Positions
<1>2. c \in DOMAIN list /\ DOMAIN list = 1 .. Len(list) /\ Len(list) \in Nat
  BY SequenceDomain DEF Candidates, Servers
<1>3. Number(list, c) \in DOMAIN list
  BY <1>2, NumberInServers
<1>4. PICK k \in DOMAIN list[Number(list, c)].listen : p = <<c, k>>
  BY <1>1
<1>5. k \in Nat \ {0}
  BY <1>3, SequenceDomain DEF Servers
<1> QED
  BY <1>2, <1>4, <1>5

\* The loops meet one of the places that end them first.
LEMMA FirstPosition ==
  ASSUME NEW list, Servers(list), NEW D, D \subseteq Positions(list), D # {}
  PROVE  \E p \in D : \A q \in D : Before(p, q)
<1> DEFINE rows == {p[1] : p \in D}
<1>1. rows \subseteq Nat /\ rows # {}
  BY PositionsType
<1>2. PICK row \in rows : \A other \in rows : row <= other
  <2> HIDE DEF rows
  <2> QED
    BY <1>1, LeastNatural
<1> DEFINE inRow == {p \in D : p[1] = row}
           columns == {p[2] : p \in inRow}
<1>3. columns \subseteq Nat /\ columns # {}
  BY PositionsType
<1>4. PICK column \in columns : \A other \in columns : column <= other
  <2> HIDE DEF columns
  <2> QED
    BY <1>3, LeastNatural
<1>5. PICK p \in D : p[1] = row /\ p[2] = column
  OBVIOUS
<1>6. ASSUME NEW q \in D PROVE Before(p, q)
  <2>1. row \in Nat /\ q[1] \in Nat /\ row <= q[1]
    BY <1>1, <1>2
  <2>2. CASE q[1] = row
    BY <1>4, <1>5, <2>2 DEF Before
  <2>3. CASE q[1] # row
    <3>1. row < q[1]
      BY <2>1, <2>3
    <3> QED
      BY <1>5, <3>1 DEF Before
  <2> QED
    BY <2>2, <2>3
<1> QED
  BY <1>6

\* What a server must have to be the one for a request.
ServerFor(list, server, name, port) ==
  /\ Contains(server.listen, port)
  /\ \/ server.server_name = name
     \/ server.server_name = NoName /\ Named(list, name) = {}

LEMMA FirstCandidateIs ==
  ASSUME NEW list, Servers(list), NEW port, Decisive(list, port) # {}
  PROVE  \/ FirstCandidate(list, port) = Refused("undefined")
         \/ \E c \in Candidates(list) : /\ FirstCandidate(list, port) = Found(list[c])
                                        /\ Contains(list[c].listen, port)
<1> DEFINE D == Decisive(list, port)
           p == CHOOSE p \in D : \A q \in D : Before(p, q)
<1>1. D \subseteq Positions(list)
  BY DEF Decisive
<1>2. p \in D
  <2>1. \E q \in D : \A r \in D : Before(q, r)
    <3> HIDE DEF D
    <3> QED
      BY <1>1, FirstPosition DEF D
  <2> QED
    BY <2>1
<1>3. FirstCandidate(list, port)
        = IF Beyond(list, p) THEN Refused("undefined") ELSE Found(list[p[1]])
  BY DEF FirstCandidate
<1> HIDE DEF p
<1>4. CASE Beyond(list, p)
  BY <1>3, <1>4
<1>5. CASE ~Beyond(list, p)
  <2>1. list[p[1]].listen[p[2]] = port
    BY <1>2, <1>5 DEF Decisive
  <2> HIDE DEF D
  <2>2. p[1] \in Candidates(list) /\ p[1] \in DOMAIN list /\ p[2] \in Nat \ {0}
    BY <1>1, <1>2, PositionsType
  <2>3. p[2] \in 1 .. Len(list[p[1]].listen)
    BY <1>5, <2>2, SequenceDomain DEF Beyond, Servers
  <2>4. Contains(list[p[1]].listen, port)
    BY <2>1, <2>3 DEF Contains
  <2> QED
    BY <1>3, <1>5, <2>2, <2>4
<1> QED
  BY <1>4, <1>5

\* A request is refused, or gets a server of the configuration that is for it.
LEMMA FindServerIs ==
  ASSUME NEW list, Servers(list), NEW host
  PROVE  \/ \E code : code # "OK_200" /\ FindServer(list, host) = Refused(code)
         \/ \E n \in DOMAIN list : /\ FindServer(list, host) = Found(list[n])
                                   /\ ServerFor(list, list[n], host.name, host.port)
<1> DEFINE named == Named(list, host.name)
           first == CHOOSE i \in named : \A j \in named : i <= j
           answer == find_server_name(list, host.name, host.port)
<1>1. FindServer(list, host) = answer \/ FindServer(list, host) = Refused("BAD_REQUEST_400")
  BY DEF FindServer
<1>2. CASE named # {}
  <2>1. named \subseteq Nat
    BY SequenceDomain DEF Named, Servers
  <2>2. \E i \in named : \A j \in named : i <= j
    <3> HIDE DEF named
    <3> QED
      BY <1>2, <2>1, LeastNatural
  <2>3. first \in named
    BY <2>2
  <2>4. first \in DOMAIN list /\ list[first].server_name = host.name
    BY <2>3 DEF Named
  <2>5. answer = IF Contains(list[first].listen, host.port)
                   THEN Found(list[first]) ELSE Refused("NOT_FOUND_404")
    BY <1>2 DEF find_server_name
  <2> HIDE DEF named, first, answer
  <2> QED
    BY <1>1, <2>4, <2>5 DEF ServerFor
<1>3. CASE named = {}
  <2>1. answer = IF Decisive(list, host.port) # {}
                   THEN FirstCandidate(list, host.port) ELSE Refused("NOT_FOUND_404")
    BY <1>3 DEF find_server_name
  <2>2. \A c \in Candidates(list) : c \in DOMAIN list /\ list[c].server_name = NoName
    BY DEF Candidates
  <2> HIDE DEF answer
  <2> QED
    BY <1>1, <1>3, <2>1, <2>2, FirstCandidateIs DEF ServerFor
<1> QED
  BY <1>2, <1>3

\* A line of a file (ConfigFilesAssumption).
IsLine(line) ==
  /\ IsSequence(line)
  /\ Len(line) > 1 /\ line[1] = "root" => IsSequence(line[2])
  /\ Len(line) > 1 /\ line[1] = "max_body_size" => line[2] \in Int

IsSize(key, words) == key = "max_body_size" /\ words # <<>> => words[1] \in Int

\* The lines not read yet, what was read of the others, and the servers the
\* requests are for.
VectorsInv ==
  /\ IsSequence(rest) /\ \A i \in DOMAIN rest : IsLine(rest[i])
  /\ \A key \in DOMAIN temp_conf : IsSequence(temp_conf[key]) /\ IsSize(key, temp_conf[key])
  /\ "root" \in DOMAIN temp_location_map => IsSequence(temp_location_map["root"])
  /\ "max_body_size" \in DOMAIN temp_location_map => temp_location_map["max_body_size"] \in Int
  /\ server_max_size \in Int
  /\ Locations(temp_locations)
  /\ Servers(m_server_conf)
  /\ Servers(servers)

LEMMA TailSequence ==
  ASSUME NEW s, IsSequence(s), s # <<>>
  PROVE  /\ IsSequence(Tail(s))
         /\ \A i \in DOMAIN Tail(s) : i + 1 \in DOMAIN s /\ Tail(s)[i] = s[i + 1]
<1>1. PICK S : s \in Seq(S)
  BY DEF IsSequence
<1>2. Tail(s) \in Seq(S)
  BY <1>1
<1> QED
  BY <1>1, <1>2 DEF IsSequence

LEMMA VectorIsSequence ==
  ASSUME NEW s, Len(s) \in Nat, s = [i \in 1 .. Len(s) |-> s[i]]
  PROVE  IsSequence(s) /\ DOMAIN s = 1 .. Len(s)
<1> DEFINE S == {s[i] : i \in 1 .. Len(s)}
<1>1. s \in [1 .. Len(s) -> S]
  OBVIOUS
<1> HIDE DEF S
<1>2. s \in Seq(S)
  BY <1>1, SeqDef
<1> QED
  BY <1>2 DEF IsSequence

LEMMA EmptySequence == IsSequence(<<>>) /\ DOMAIN <<>> = {}
<1>1. <<>> \in Seq({})
  OBVIOUS
<1> QED
  BY <1>1 DEF IsSequence

LEMMA AppendServer ==
  ASSUME NEW list, Servers(list), NEW server, IsSequence(server.listen),
         Locations(server.locations)
  PROVE  Servers(Append(list, server))
<1>1. PICK S : list \in Seq(S)
  BY DEF Servers, IsSequence
<1>2. list \in Seq(S \cup {server}) /\ server \in S \cup {server}
  BY <1>1
<1>3. /\ Append(list, server) \in Seq(S \cup {server})
      /\ \A i \in 1 .. Len(list) : Append(list, server)[i] = list[i]
      /\ Append(list, server)[Len(list) + 1] = server
      /\ DOMAIN Append(list, server) = 1 .. Len(list) + 1
      /\ DOMAIN list = 1 .. Len(list) /\ Len(list) \in Nat
  BY <1>2, AppendProperties
<1>4. \A n \in DOMAIN Append(list, server) : n \in 1 .. Len(list) \/ n = Len(list) + 1
  BY <1>3
<1> QED
  BY <1>3, <1>4 DEF Servers, IsSequence

LEMMA NextLineVectors ==
  ASSUME VectorsInv, NextLine
  PROVE  IsSequence(rest') /\ \A i \in DOMAIN rest' : IsLine(rest'[i])
BY TailSequence, EmptySequence DEF VectorsInv, NextLine

LEMMA InitVectors == WebservInit => VectorsInv
<1> SUFFICES ASSUME WebservInit PROVE VectorsInv
  OBVIOUS
<1>1. /\ rest \in ConfigFiles
      /\ temp_conf = <<>> /\ m_server_conf = <<>> /\ servers = <<>>
      /\ temp_location_map = <<>> /\ temp_locations = <<>> /\ server_max_size = 0
  BY DEF WebservInit, ConfigInit, Init, NoWords
<1>2. ASSUME NEW s, Len(s) \in Nat, s = [i \in 1 .. Len(s) |-> s[i]]
      PROVE  IsSequence(s) /\ DOMAIN s = 1 .. Len(s)
  BY <1>2, VectorIsSequence
<1>3. IsSequence(rest) /\ \A i \in DOMAIN rest : IsLine(rest[i])
  <2>1. IsSequence(rest) /\ DOMAIN rest = 1 .. Len(rest)
    BY <1>1, <1>2, ConfigFilesAssumption
  <2>2. ASSUME NEW i \in 1 .. Len(rest) PROVE IsLine(rest[i])
    BY <1>1, <1>2, <2>2, ConfigFilesAssumption DEF IsLine
  <2> QED
    BY <2>1, <2>2
<1> QED
  BY <1>1, <1>3, EmptySequence DEF VectorsInv, Servers, Locations

LEMMA ReadLine ==
  ASSUME VectorsInv, rest # <<>> PROVE IsLine(Line)
<1>1. 1 \in DOMAIN rest /\ Line = rest[1]
  BY DEF VectorsInv, IsSequence, Line
<1> QED
  BY <1>1 DEF VectorsInv

LEMMA ConfigVectors ==
  ASSUME VectorsInv, ConfigNext, UNCHANGED servers PROVE VectorsInv'
<1>1. CASE SkipBlank
  BY <1>1, NextLineVectors DEF VectorsInv, SkipBlank, serverVars, locationVars
<1>2. CASE RefuseLine \/ RefuseBlock \/ ReadBeyondLine \/ RefuseStart \/ Listen
  BY <1>2
  DEF VectorsInv, RefuseLine, RefuseBlock, ReadBeyondLine, RefuseStart, Listen, Halt,
      serverVars, locationVars
<1>3. CASE ReadServer
  BY <1>3, NextLineVectors, EmptySequence
  DEF VectorsInv, ReadServer, NoWords, Locations, locationVars
<1>4. CASE ReadDirective
  <2>1. rest # <<>> /\ Line # <<>>
    BY <1>4 DEF ReadDirective, Directive, InBlock
  <2>2. IsLine(Line)
    BY <2>1, ReadLine
  <2>3. /\ IsSequence(Tail(Line))
        /\ Tail(Line) # <<>> => 2 \in DOMAIN Line /\ Tail(Line)[1] = Line[2]
    BY <2>1, <2>2, TailSequence, SequenceDomain, EmptySequence DEF IsLine, IsSequence
  <2>4. IsSize(Line[1], Tail(Line))
    <3>1. 2 \in DOMAIN Line => Len(Line) > 1
      BY <2>2, SequenceDomain DEF IsLine
    <3> QED
      BY <2>2, <2>3, <3>1 DEF IsSize, IsLine
  <2>5. temp_conf' = Insert(temp_conf, Line[1], Tail(Line))
    BY <1>4 DEF ReadDirective
  <2>6. \A key \in DOMAIN temp_conf' : IsSequence(temp_conf'[key]) /\ IsSize(key, temp_conf'[key])
    BY <2>3, <2>4, <2>5 DEF VectorsInv, Insert
  <2> QED
    BY <1>4, <2>6, NextLineVectors DEF ReadDirective, VectorsInv, locationVars
<1>5. CASE CloseServer
  <2>1. IsSequence(At(temp_conf, "listen", <<>>))
    BY EmptySequence DEF At, VectorsInv
  <2>2. /\ IsSequence(ServerBlock(temp_conf, temp_locations).listen)
        /\ Locations(ServerBlock(temp_conf, temp_locations).locations)
    BY <2>1 DEF ServerBlock, VectorsInv
  <2>3. Servers(m_server_conf')
    BY <1>5, <2>2, AppendServer DEF CloseServer, VectorsInv
  <2> QED
    BY <1>5, <2>3, NextLineVectors DEF CloseServer, VectorsInv, serverVars, locationVars
<1>6. CASE ReadLocation
  <2>1. server_max_size' \in Int
    <3>1. server_max_size' = At(temp_conf, "max_body_size", <<0>>)[1]
          /\ At(temp_conf, "max_body_size", <<0>>) # <<>>
      BY <1>6 DEF ReadLocation
    <3> QED
      BY <3>1 DEF At, VectorsInv, IsSize
  <2> QED
    BY <1>6, <2>1, NextLineVectors DEF ReadLocation, VectorsInv, serverVars, NoWords
<1>7. CASE ReadLocationDirective
  <2>1. rest # <<>> /\ Len(Line) = 2
    BY <1>7 DEF ReadLocationDirective, Directive, InBlock
  <2>2. IsLine(Line)
    BY <2>1, ReadLine
  <2>3. temp_location_map' = Insert(temp_location_map, Line[1], Line[2])
    BY <1>7 DEF ReadLocationDirective
  <2>4. /\ "root" \in DOMAIN temp_location_map' => IsSequence(temp_location_map'["root"])
        /\ "max_body_size" \in DOMAIN temp_location_map' =>
             temp_location_map'["max_body_size"] \in Int
    BY <2>1, <2>2, <2>3 DEF Insert, IsLine, VectorsInv
  <2> QED
    BY <1>7, <2>4, NextLineVectors DEF ReadLocationDirective, VectorsInv, serverVars
<1>8. CASE CloseLocation
  <2> DEFINE location == Location(temp_location_map)
  <2>1. IsSequence(location.root) /\ location.max_body_size \in Int
    BY EmptySequence DEF Location, At, VectorsInv
  <2> HIDE DEF location
  <2>2. temp_locations' = Insert(temp_locations, location_key, location)
    BY <1>8 DEF CloseLocation, location
  <2>3. Locations(temp_locations')
    BY <2>1, <2>2 DEF Insert, Locations, VectorsInv
  <2> QED
    BY <1>8, <2>3, NextLineVectors DEF CloseLocation, VectorsInv, locationVars
<1> QED
  BY <1>1, <1>2, <1>3, <1>4, <1>5, <1>6, <1>7, <1>8 DEF ConfigNext

LEMMA NextVectors == VectorsInv /\ [WebservNext]_webservVars => VectorsInv'
<1> SUFFICES ASSUME VectorsInv, [WebservNext]_webservVars PROVE VectorsInv'
  OBVIOUS
<1>1. CASE UNCHANGED <<configVars, vars>>
  BY <1>1 DEF configVars, serverVars, locationVars, vars, VectorsInv
<1>2. CASE ConfigNext /\ UNCHANGED vars
  BY <1>2, ConfigVectors DEF vars
<1>3. CASE Start
  BY <1>3 DEF Start, Serve, configVars, serverVars, locationVars, VectorsInv
<1>4. CASE Next /\ UNCHANGED configVars
  <2>1. servers' = servers
    BY <1>4
    DEF Next, NextRequest, FindServerOfRequest, BadRequest, PathFinderThrows, CgiHandler,
        GetMethodHandler, UploadHandler, DeleteMethodHandler, MethodNotAllowed, Answer
  <2> QED
    BY <1>4, <2>1 DEF configVars, serverVars, locationVars, VectorsInv
<1> QED
  BY <1>1, <1>2, <1>3, <1>4
  DEF WebservNext, webservVars, ReadConfig, Process, RespondFile,
      RespondUpload, RespondInline, RespondCgi, RespondTimeout, Respond, CloseConnection

\* What was found is what ServerFinder says of the request in progress.
FoundInv ==
  found.status # "none" =>
    /\ pc \in {"process", "read", "undefined"}
    /\ found.status = "OK_200" => pc # "undefined"
    /\ found = FindServer(servers, request.host)

LEMMA NextFound == FoundInv /\ [WebservNext]_webservVars => FoundInv'
<1> SUFFICES ASSUME FoundInv, UNCHANGED vars \/ Next \/ Start PROVE FoundInv'
  BY WebservSteps DEF webservVars
<1>1. CASE UNCHANGED vars
  BY <1>1 DEF vars, FoundInv
<1>2. CASE Start
  BY <1>2 DEF Start, Serve, FoundInv
<1>3. CASE NextRequest
  BY <1>3 DEF NextRequest, FoundInv, Refused
<1>4. CASE FindServerOfRequest
  BY <1>4 DEF FindServerOfRequest, FoundInv
<1>5. CASE \/ BadRequest \/ PathFinderThrows \/ CgiHandler \/ GetMethodHandler
           \/ UploadHandler \/ DeleteMethodHandler \/ MethodNotAllowed
  BY <1>5
  DEF BadRequest, PathFinderThrows, CgiHandler, GetMethodHandler, UploadHandler,
      DeleteMethodHandler, MethodNotAllowed, Answer, FoundInv
<1> QED
  BY <1>1, <1>2, <1>3, <1>4, <1>5 DEF Next

\* candidates[c] is servers[c] when no server with a name comes before c.
LEMMA NumberIsPlace ==
  ASSUME NEW list, Servers(list), NEW c \in Candidates(list),
         \A m \in 1 .. c : list[m].server_name = NoName
  PROVE  Number(list, c) = c
<1>1. DOMAIN list = 1 .. Len(list) /\ Len(list) \in Nat
  BY SequenceDomain DEF Servers
<1>2. c \in Nat /\ c \in DOMAIN list
  BY <1>1 DEF Candidates
<1>3. {i \in Candidates(list) : i <= c} = 1 .. c
  BY <1>1, <1>2 DEF Candidates
<1>4. Cardinality(1 .. c) = c
  BY <1>2, FS_Interval
<1> QED
  BY <1>3, <1>4 DEF Number

\* Of the servers that come before any with a name, those on the port are found.
LEMMA LeadingFound ==
  ASSUME NEW list, Servers(list), NEW port, NEW n \in DOMAIN list,
         \A m \in 1 .. n : list[m].server_name = NoName, Contains(list[n].listen, port)
  PROVE  /\ Decisive(list, port) # {}
         /\ \E server : FirstCandidate(list, port) = Found(server)
<1> DEFINE D == Decisive(list, port)
           p == CHOOSE p \in D : \A q \in D : Before(p, q)
<1>1. DOMAIN list = 1 .. Len(list) /\ Len(list) \in Nat
  BY SequenceDomain DEF Servers
<1>2. n \in Nat \ {0} /\ n \in Candidates(list)
  BY <1>1 DEF Candidates
<1>3. ASSUME NEW c \in Candidates(list), c <= n PROVE Number(list, c) = c
  <2>1. c \in Nat /\ \A m \in 1 .. c : m \in 1 .. n
    BY <1>1, <1>2, <1>3 DEF Candidates
  <2> QED
    BY <1>3, <2>1, NumberIsPlace
<1>4. DOMAIN list[n].listen = 1 .. Len(list[n].listen) /\ Len(list[n].listen) \in Nat
  BY SequenceDomain DEF Servers
<1>5. PICK k \in DOMAIN list[n].listen : list[n].listen[k] = port
  BY <1>4 DEF Contains
<1>6. <<n, k>> \in Positions(list)
  BY <1>2, <1>3 DEF Positions
<1>7. <<n, k>> \in D
  BY <1>5, <1>6 DEF Decisive
<1>8. D \subseteq Positions(list)
  BY DEF Decisive
<1>9. p \in D /\ Before(p, <<n, k>>)
  <2>1. \E q \in D : \A r \in D : Before(q, r)
    <3> HIDE DEF D
    <3> QED
      BY <1>7, <1>8, FirstPosition
  <2> QED
    BY <1>7, <2>1
<1>10. FirstCandidate(list, port)
         = IF Beyond(list, p) THEN Refused("undefined") ELSE Found(list[p[1]])
  BY DEF FirstCandidate
<1> HIDE DEF p, D
<1>11. p[1] \in Candidates(list) /\ p[1] \in DOMAIN list /\ p[1] <= n
  BY <1>1, <1>2, <1>8, <1>9, PositionsType DEF Before
<1>12. p[2] \in DOMAIN list[p[1]].listen
  BY <1>3, <1>8, <1>9, <1>11, PositionsType
<1>13. ~Beyond(list, p)
  <2>1. p[2] \in 1 .. Len(list[p[1]].listen) /\ Len(list[p[1]].listen) \in Nat
    BY <1>11, <1>12, SequenceDomain DEF Servers
  <2> QED
    BY <2>1 DEF Beyond
<1> QED
  BY <1>7, <1>10, <1>13 DEF D

\* Whoever listens on the port of a request for which no server is found had to
\* be passed over.
LEMMA MissedArePassedOver ==
  ASSUME Servers(servers),
         FindServer(servers, request.host).status \in {"NOT_FOUND_404", "undefined"},
         NEW n \in DOMAIN servers, Contains(servers[n].listen, request.host.port)
  PROVE  PassedOver(n)
<1> DEFINE named == Named(servers, request.host.name)
           first == CHOOSE i \in named : \A j \in named : i <= j
           answer == find_server_name(servers, request.host.name, request.host.port)
<1>1. answer.status \in {"NOT_FOUND_404", "undefined"}
  BY DEF FindServer, Refused
<1>2. \A server : answer # Found(server)
  BY <1>1 DEF Found
<1>3. CASE named # {}
  <2>1. named \subseteq Nat
    BY SequenceDomain DEF Named, Servers
  <2>2. first \in named /\ \A j \in named : first <= j
    <3>1. \E i \in named : \A j \in named : i <= j
      <4> HIDE DEF named
      <4> QED
        BY <1>3, <2>1, LeastNatural
    <3> QED
      BY <3>1
  <2>3. ~Contains(servers[first].listen, request.host.port)
    <3>1. answer = IF Contains(servers[first].listen, request.host.port)
                     THEN Found(servers[first]) ELSE Refused("NOT_FOUND_404")
      BY <1>3 DEF find_server_name
    <3> HIDE DEF answer, first, named
    <3> QED
      BY <1>2, <3>1
  <2>4. n \in named => first < n
    <3> HIDE DEF first, named, answer
    <3>1. first # n
      BY <2>3
    <3>2. n \in named => n \in Nat /\ first \in Nat /\ first <= n
      BY <2>1, <2>2
    <3> QED
      BY <3>1, <3>2
  <2> HIDE DEF first
  <2> QED
    BY <1>3, <2>2, <2>4 DEF PassedOver
<1>4. CASE named = {}
  <2>1. answer = IF Decisive(servers, request.host.port) # {}
                   THEN FirstCandidate(servers, request.host.port)
                   ELSE Refused("NOT_FOUND_404")
    BY <1>4 DEF find_server_name
  <2>2. ~\A m \in 1 .. n : servers[m].server_name = NoName
    <3> HIDE DEF answer
    <3> QED
      BY <1>2, <2>1, LeadingFound
  <2> QED
    BY <1>4, <2>2 DEF PassedOver
<1> QED
  BY <1>3, <1>4

\* Whatever the configuration, ServerFinder gives a request a server that listens
\* on its port, and that has its name unless no server has (ServerFinder.cpp:35);
\* and it gives none only when each server on the port had to be passed over.
THEOREM AlwaysRightServer == WebservSpec => []RightServer
<1>1. WebservInit => FoundInv
  BY DEF WebservInit, Init, FoundInv, Refused
<1>2. VectorsInv /\ FoundInv => RightServer
  <2> SUFFICES ASSUME VectorsInv, FoundInv PROVE RightServer
    OBVIOUS
  <2>1. /\ Servers(servers)
        /\ found.status # "none" => found = FindServer(servers, request.host)
    BY DEF VectorsInv, FoundInv
  <2>2. ASSUME found.status = "OK_200"
        PROVE  ServerFor(servers, found.server, request.host.name, request.host.port)
    <3>1. PICK n \in DOMAIN servers :
            /\ found = Found(servers[n])
            /\ ServerFor(servers, servers[n], request.host.name, request.host.port)
      BY <2>1, <2>2, FindServerIs DEF Refused
    <3> QED
      BY <3>1 DEF Found
  <2>3. ASSUME found.status \in {"NOT_FOUND_404", "undefined"}, NEW n \in DOMAIN servers,
               Contains(servers[n].listen, request.host.port)
        PROVE  PassedOver(n)
    BY <2>1, <2>3, MissedArePassedOver
  <2> QED
    BY <2>2, <2>3 DEF RightServer, ServerFor
<1> QED
  BY <1>1, <1>2, InitVectors, NextVectors, NextFound, PTL DEF WebservSpec

(***************************************************************************)
(* The request and its locations, and what it touches.                     *)
(***************************************************************************)
LEMMA RequestsAre ==
  ASSUME NEW r \in Requests
  PROVE  /\ DOMAIN r = DOMAIN Request0 /\ r.body \in Nat
         /\ IsSequence(r.uri) /\ r.uri # <<>>
<1>1. Len(r.uri) \in Nat \ {0} /\ r.uri = [i \in 1 .. Len(r.uri) |-> r.uri[i]]
  BY RequestsAssumption
<1>2. IsSequence(r.uri) /\ DOMAIN r.uri = 1 .. Len(r.uri)
  BY <1>1, VectorIsSequence
<1>3. r.uri # <<>>
  BY <1>1, <1>2
<1> QED
  BY <1>2, <1>3, RequestsAssumption

LEMMA RefusedLocations == \A code : Locations(Refused(code).server.locations)
  BY EmptySequence DEF Refused, NoServer, Locations

LEMMA FoundLocations ==
  ASSUME NEW list, Servers(list), NEW host
  PROVE  Locations(FindServer(list, host).server.locations)
<1>1. \A n \in DOMAIN list : Locations(Found(list[n]).server.locations)
  BY DEF Servers, Found
<1> QED
  BY <1>1, FindServerIs, RefusedLocations

LEMMA NextRequestInv ==
  VectorsInv /\ RequestInv /\ [WebservNext]_webservVars => RequestInv'
<1> SUFFICES ASSUME VectorsInv, RequestInv, UNCHANGED vars \/ Next \/ Start
             PROVE  RequestInv'
  BY WebservSteps DEF webservVars
<1>1. CASE UNCHANGED vars
  BY <1>1 DEF vars, RequestInv
<1>2. CASE Start
  BY <1>2, RequestsAre, DisksAssumption DEF Start, Serve, RequestInv
<1>3. CASE NextRequest
  BY <1>3, RequestsAre, RefusedLocations DEF NextRequest, RequestInv
<1>4. CASE FindServerOfRequest
  <2>1. Locations(found'.server.locations)
    BY <1>4, FoundLocations DEF FindServerOfRequest, VectorsInv
  <2>2. /\ DOMAIN request' = DOMAIN request
        /\ request'.body = request.body /\ request'.uri = request.uri
    BY <1>4 DEF FindServerOfRequest, RequestInv, Request0
  <2>3. /\ DOMAIN request = DOMAIN Request0 /\ request.body \in Nat
        /\ IsSequence(request.uri) /\ request.uri # <<>>
    BY <1>4 DEF FindServerOfRequest, RequestInv
  <2> QED
    BY <1>4, <2>1, <2>2, <2>3 DEF RequestInv, FindServerOfRequest
<1>5. CASE \/ BadRequest \/ PathFinderThrows \/ CgiHandler \/ GetMethodHandler
           \/ UploadHandler \/ DeleteMethodHandler \/ MethodNotAllowed
  BY <1>5
  DEF BadRequest, PathFinderThrows, CgiHandler, GetMethodHandler, UploadHandler,
      DeleteMethodHandler, MethodNotAllowed, Accepted, Answer, RequestInv
<1> QED
  BY <1>1, <1>2, <1>3, <1>4, <1>5 DEF Next

LEMMA WebservFiles ==
  RequestInv /\ IInv /\ [WebservNext]_webservVars => [FileStep]_vars
<1> SUFFICES ASSUME RequestInv, IInv, UNCHANGED vars \/ Next \/ Start
             PROVE  [FileStep]_vars
  BY WebservSteps DEF webservVars
<1>1. CASE Start
  BY <1>1 DEF Start, Serve, FileStep, AllowedStep, StoredStep, GoneStep, Processed
<1> QED
  BY <1>1, OtherFile, GetFile, UploadFile, DeleteFile DEF Next

LEMMA InitRequest == WebservInit => RequestInv
  BY RefusedLocations DEF WebservInit, Init, RequestInv

LEMMA FilesAlways == WebservSpec => [][FileStep]_vars
  BY InitIInv, NextIInv, InitVectors, NextVectors, InitRequest, NextRequestInv, WebservFiles,
     PTL DEF WebservSpec

\* Whatever the configuration, the disk and the request: the files a request
\* creates, changes, removes or opens are below the root of a location of its
\* server that accepts its method and the size of its body (HttpProcessor.cpp:66,
\* PathFinder.cpp), as long as no segment is "..", which PathFinder leaves out.
THEOREM AlwaysOnlyAsAllowed == WebservSpec => OnlyAsAllowed
<1>1. [FileStep]_vars => [AllowedStep]_vars
  BY DEF FileStep
<1> QED
  BY <1>1, FilesAlways, PTL DEF OnlyAsAllowed, AllowedStep

\* Whatever the configuration, the disk and the request: where an upload was
\* stored, a GET of the same URI looks for it.
THEOREM StoredAlwaysServed == WebservSpec => StoredIsServed
<1>1. [FileStep]_vars => [StoredStep]_vars
  BY DEF FileStep
<1> QED
  BY <1>1, FilesAlways, PTL DEF StoredIsServed, StoredStep

\* Whatever the configuration, the disk and the request: a DELETE that is not
\* refused removes the file of its URI and no other, and a GET of the URI finds
\* nothing afterwards.
THEOREM DeletedAlwaysGone == WebservSpec => DeletedIsGone
<1>1. [FileStep]_vars => [GoneStep]_vars
  BY DEF FileStep
<1> QED
  BY <1>1, FilesAlways, PTL DEF DeletedIsGone, GoneStep

(***************************************************************************)
(* The lines read so far. Whatever is true of a balanced file is said of    *)
(* its first r lines; the reader adds one at a time.                       *)
(***************************************************************************)
Closings(i) == Count(Upto(i, {CloseBrace}))

ServerLinesTo(n, r) == {i \in ServerLines(n) : i <= r}
LocationsTo(n, r) == {l \in LocationsOf(n) : l <= r}
LocationLinesTo(l, r) == {i \in LocationLines(l) : i <= r}

Directives ==
  {"listen", "max_body_size", "server_name", "root", "error_page", "accepted_method",
   "index", "auto_index", "ourcgi_pass", "ourcgi_index", "redirection"}

\* The words of a directive, and the only one of a location's directive.
Arguments == [i \in Places |-> Tail(file[i])]
Argument == [i \in Places |-> Tail(file[i])[1]]

\* Line i is the first one of S for this directive.
FirstFor(S, key, i) ==
  /\ i \in S /\ FirstWord(i) = key
  /\ \A j \in S : FirstWord(j) = key => i <= j

\* map has the first of each directive among the lines S.
DeclaredIn(map, S, values) ==
  \A key \in Directives :
    IF key \in DOMAIN map
      THEN \E i \in S : FirstFor(S, key, i) /\ map[key] = values[i]
      ELSE \A i \in S : FirstWord(i) # key

\* What the lines up to r say of the location that line l of server n opens.
LocationSaid(n, l, r) ==
  LET Of(key, absent) == Declared(LocationLinesTo(l, r), key, <<absent>>)[1]
  IN [accepted_method |-> Of("accepted_method", {}),
      root |-> Of("root", <<>>),
      index |-> Of("index", ""), auto_index |-> Of("auto_index", ""),
      ourcgi_pass |-> Of("ourcgi_pass", <<>>),
      ourcgi_index |-> Of("ourcgi_index", ""),
      redirection |-> Of("redirection", ""),
      max_body_size |-> Of("max_body_size", Inherited(n, l)[1])]

FirstOfKey(n, l) == \A k \in LocationsOf(n) : file[k][2] = file[l][2] => l <= k

\* locations has what the lines say of the locations that the lines L open, all of
\* which are closed.
LocationsSaid(locations, n, L, r) ==
  /\ DOMAIN locations = {file[l][2] : l \in L}
  /\ \A l \in L :
       /\ Closings(l) < Closings(r)
       /\ FirstOfKey(n, l) => locations[file[l][2]] = LocationSaid(n, l, r)

PageSaid(n, r) ==
  LET root == Declared(ServerLinesTo(n, r), "root", <<>>)
      name == Declared(ServerLinesTo(n, r), "error_page", <<>>)
      path == <<IF root = <<>> THEN <<"data">> ELSE root[1], name[1]>>
  IN IF name = <<>> THEN <<>> ELSE At(Pages, path, <<>>)

ServerSaid(server, n, r) ==
  /\ server.listen = Declared(ServerLinesTo(n, r), "listen", <<>>)
  /\ server.max_body_size = Declared(ServerLinesTo(n, r), "max_body_size", <<>>)
  /\ LET names == Declared(ServerLinesTo(n, r), "server_name", <<>>)
     IN server.server_name = IF names = <<>> THEN Unnamed ELSE names[1]
  /\ server.error_page_vector = PageSaid(n, r)
  /\ LocationsSaid(server.locations, n, LocationsTo(n, r), r)

\* The block of line l is being read.
InLocation(l, n, r, locations, key, map, size) ==
  /\ l \in LocationsTo(n, r) /\ key = file[l][2]
  /\ Closings(l) = Closings(r) /\ \A j \in l + 1 .. r : FirstWord(j) # "location"
  /\ size = Inherited(n, l)[1]
  /\ DeclaredIn(map, LocationLinesTo(l, r), Argument)
  /\ LocationsSaid(locations, n, LocationsTo(n, r) \ {l}, r)

Reader(r, b, list, conf, locations, key, map, size) ==
  LET n == ServerOf(r) IN
  /\ Len(list) = IF b \in {"server", "location"} THEN n - 1 ELSE n
  /\ \A k \in 1 .. Len(list) : ServerSaid(list[k], k, r)
  /\ Depth(r) = CASE b = "server" -> 1 [] b = "location" -> 2 [] OTHER -> 0
  /\ b \in {"server", "location"} => DeclaredIn(conf, ServerLinesTo(n, r), Arguments)
  /\ b = "server" => LocationsSaid(locations, n, LocationsTo(n, r), r)
  /\ b = "location" =>
       \E l \in LocationsTo(n, r) : InLocation(l, n, r, locations, key, map, size)

\* r lines were read, and rest has the others.
Unread(r) ==
  /\ Len(rest) = Len(file) - r
  /\ \A i \in 1 .. Len(rest) : rest[i] = file[r + i]

Reading == block \notin {"exit", "undefined"}

ReaderInv ==
  /\ file \in ConfigFiles
  /\ \E r \in 0 .. Len(file) :
    /\ Unread(r)
    /\ block = "listening" => r = Len(file)
    /\ Balanced /\ Reading =>
         Reader(r, block, m_server_conf, temp_conf, temp_locations, location_key,
                temp_location_map, server_max_size)

LEMMA Braces == CloseBrace \notin {"", "server", "location"}
  BY Zenon DEF CloseBrace

LEMMA CountStep ==
  ASSUME NEW r \in Nat, NEW words
  PROVE  /\ Count(Upto(r, words)) \in Nat
         /\ Count(Upto(r + 1, words)) = IF FirstWord(r + 1) \in words
                                          THEN Count(Upto(r, words)) + 1
                                          ELSE Count(Upto(r, words))
<1>1. IsFiniteSet(1 .. r) /\ Upto(r, words) \subseteq 1 .. r
  BY FS_Interval DEF Upto
<1>2. IsFiniteSet(Upto(r, words))
  BY <1>1, FS_Subset
<1>3. Cardinality(Upto(r, words)) \in Nat
  BY <1>2, FS_CardinalityType
<1>4. CASE FirstWord(r + 1) \in words
  <2>1. Upto(r + 1, words) = Upto(r, words) \cup {r + 1} /\ r + 1 \notin Upto(r, words)
    BY <1>4 DEF Upto
  <2> QED
    BY <1>2, <1>3, <1>4, <2>1, FS_AddElement DEF Count
<1>5. CASE FirstWord(r + 1) \notin words
  <2>1. Upto(r + 1, words) = Upto(r, words)
    BY <1>5 DEF Upto
  <2> QED
    BY <1>3, <1>5, <2>1 DEF Count
<1> QED
  BY <1>4, <1>5

LEMMA NoLines ==
  /\ \A words : Count(Upto(0, words)) = 0
  /\ Depth(0) = 0 /\ ServerOf(0) = 0
<1>1. ASSUME NEW words PROVE Count(Upto(0, words)) = 0
  <2>1. Upto(0, words) = {}
    BY DEF Upto
  <2> QED
    BY <2>1, FS_EmptySet DEF Count
<1>2. /\ Count(Upto(0, {"server", "location"})) = 0
      /\ Count(Upto(0, {CloseBrace})) = 0 /\ Count(Upto(0, {"server"})) = 0
  BY <1>1
<1> QED
  BY <1>1, <1>2 DEF Depth, ServerOf

\* One line more.
LEMMA LineStep ==
  ASSUME NEW r \in Nat
  PROVE  /\ Depth(r) \in Int /\ ServerOf(r) \in Nat /\ Closings(r) \in Nat
         /\ FirstWord(r + 1) \in {"server", "location"} => Depth(r + 1) = Depth(r) + 1
         /\ FirstWord(r + 1) = CloseBrace => Depth(r + 1) = Depth(r) - 1
         /\ FirstWord(r + 1) \notin {"server", "location", CloseBrace} => Depth(r + 1) = Depth(r)
         /\ FirstWord(r + 1) = "server" => ServerOf(r + 1) = ServerOf(r) + 1
         /\ FirstWord(r + 1) # "server" => ServerOf(r + 1) = ServerOf(r)
         /\ FirstWord(r + 1) = CloseBrace => Closings(r + 1) = Closings(r) + 1
         /\ FirstWord(r + 1) # CloseBrace => Closings(r + 1) = Closings(r)
<1> DEFINE opened == Count(Upto(r, {"server", "location"}))
           openedNext == Count(Upto(r + 1, {"server", "location"}))
           word == FirstWord(r + 1)
<1>1. /\ opened \in Nat /\ ServerOf(r) \in Nat /\ Closings(r) \in Nat
      /\ word \in {"server", "location"} => openedNext = opened + 1
      /\ word \notin {"server", "location"} => openedNext = opened
      /\ word = "server" => ServerOf(r + 1) = ServerOf(r) + 1
      /\ word # "server" => ServerOf(r + 1) = ServerOf(r)
      /\ word = CloseBrace => Closings(r + 1) = Closings(r) + 1
      /\ word # CloseBrace => Closings(r + 1) = Closings(r)
  BY CountStep DEF ServerOf, Closings
<1>2. Depth(r) = opened - Closings(r) /\ Depth(r + 1) = openedNext - Closings(r + 1)
  BY DEF Depth, Closings
<1> HIDE DEF opened, openedNext, word
<1>3. CASE word \in {"server", "location"}
  <2>1. word # CloseBrace /\ openedNext = opened + 1 /\ Closings(r + 1) = Closings(r)
    BY <1>1, <1>3, Braces
  <2>2. Depth(r + 1) = Depth(r) + 1 /\ Depth(r) \in Int
    BY <1>1, <1>2, <2>1
  <2> QED
    BY <1>1, <1>3, <2>1, <2>2 DEF word
<1>4. CASE word = CloseBrace
  <2>1. openedNext = opened /\ Closings(r + 1) = Closings(r) + 1
    BY <1>1, <1>4, Braces
  <2>2. Depth(r + 1) = Depth(r) - 1 /\ Depth(r) \in Int
    BY <1>1, <1>2, <2>1
  <2> QED
    BY <1>1, <1>4, <2>1, <2>2 DEF word
<1>5. CASE word \notin {"server", "location", CloseBrace}
  <2>1. openedNext = opened /\ Closings(r + 1) = Closings(r)
    BY <1>1, <1>5
  <2>2. Depth(r + 1) = Depth(r) /\ Depth(r) \in Int
    BY <1>1, <1>2, <2>1
  <2> QED
    BY <1>1, <1>5, <2>1, <2>2 DEF word
<1> QED
  BY <1>3, <1>4, <1>5

LEMMA ClosingsGrow ==
  ASSUME NEW l \in Nat, NEW r \in Nat, l <= r
  PROVE  Closings(l) <= Closings(r)
<1>1. /\ IsFiniteSet(1 .. r) /\ Upto(r, {CloseBrace}) \subseteq 1 .. r
      /\ Upto(l, {CloseBrace}) \subseteq Upto(r, {CloseBrace})
  <2>1. IsFiniteSet(1 .. r)
    BY FS_Interval
  <2>2. /\ Upto(r, {CloseBrace}) \subseteq 1 .. r
        /\ Upto(l, {CloseBrace}) \subseteq Upto(r, {CloseBrace})
    BY DEF Upto
  <2> QED
    BY <2>1, <2>2
<1>2. IsFiniteSet(Upto(r, {CloseBrace}))
  BY <1>1, FS_Subset
<1> QED
  BY <1>1, <1>2, FS_Subset DEF Closings, Count

\* The lines of the blocks, with one line more.
FileIsVector == IsSequence(file) /\ Places = 1 .. Len(file) /\ Len(file) \in Nat

LEMMA NextServerLines ==
  ASSUME FileIsVector, NEW r \in Nat, r + 1 \in Places, NEW n
  PROVE  ServerLinesTo(n, r + 1) = IF ServerOf(r + 1) = n /\ Depth(r + 1) = 1
                                     THEN ServerLinesTo(n, r) \cup {r + 1}
                                     ELSE ServerLinesTo(n, r)
<1>1. \A i \in Places : i \in Nat
  BY DEF FileIsVector
<1> QED
  BY <1>1 DEF ServerLinesTo, ServerLines

LEMMA NextLocations ==
  ASSUME FileIsVector, NEW r \in Nat, r + 1 \in Places, NEW n
  PROVE  LocationsTo(n, r + 1) = IF FirstWord(r + 1) = "location" /\ ServerOf(r + 1) = n
                                   THEN LocationsTo(n, r) \cup {r + 1}
                                   ELSE LocationsTo(n, r)
<1>1. \A i \in Places : i \in Nat
  BY DEF FileIsVector
<1> QED
  BY <1>1 DEF LocationsTo, LocationsOf

LEMMA NextLocationLines ==
  ASSUME FileIsVector, NEW r \in Nat, r + 1 \in Places, NEW l
  PROVE  LocationLinesTo(l, r + 1) = IF r + 1 \in LocationLines(l)
                                       THEN LocationLinesTo(l, r) \cup {r + 1}
                                       ELSE LocationLinesTo(l, r)
<1>1. \A i \in Places : i \in Nat
  BY DEF FileIsVector
<1>2. \A i \in LocationLines(l) : i \in Nat
  BY <1>1 DEF LocationLines
<1> QED
  BY <1>2 DEF LocationLinesTo

LEMMA ClosedLocation ==
  ASSUME FileIsVector, NEW r \in Nat, r + 1 \in Places, NEW l \in Nat,
         Closings(l) < Closings(r)
  PROVE  LocationLinesTo(l, r + 1) = LocationLinesTo(l, r)
<1>1. Closings(l) \in Nat /\ Closings(r) \in Nat /\ Closings(r + 1) \in Nat
  BY LineStep
<1>2. Closings(r) <= Closings(r + 1)
  BY ClosingsGrow
<1>3. Closings(r + 1) # Closings(l)
  BY <1>1, <1>2
<1>4. r + 1 \notin LocationLines(l)
  BY <1>3 DEF LocationLines, Closings
<1> QED
  BY <1>4, NextLocationLines

\* The first line for a directive.
LEMMA DeclaredIs ==
  ASSUME NEW S, S \subseteq Nat, NEW key, NEW absent
  PROVE  /\ (\A i \in S : FirstWord(i) # key) => Declared(S, key, absent) = absent
         /\ \A i \in S : FirstFor(S, key, i) => Declared(S, key, absent) = Tail(file[i])
<1> DEFINE at == {i \in S : FirstWord(i) = key}
<1>1. Declared(S, key, absent) = IF at = {} THEN absent ELSE Tail(file[Min(at)])
  BY DEF Declared
<1>2. ASSUME NEW i \in S, FirstFor(S, key, i) PROVE at # {} /\ Min(at) = i
  <2>1. i \in at /\ \A j \in at : i <= j
    BY <1>2 DEF FirstFor
  <2>2. at \subseteq Nat
    OBVIOUS
  <2>3. \A x \in at : (\A y \in at : x <= y) => x = i
    BY <2>1, <2>2
  <2> HIDE DEF at
  <2> QED
    BY <2>1, <2>3 DEF Min
<1> QED
  BY <1>1, <1>2

LEMMA ServerDeclared ==
  ASSUME FileIsVector, NEW map, NEW S, S \subseteq Places, DeclaredIn(map, S, Arguments),
         NEW key \in Directives, NEW absent
  PROVE  Declared(S, key, absent) = At(map, key, absent)
<1>1. S \subseteq Nat
  BY DEF FileIsVector
<1>2. CASE key \in DOMAIN map
  <2>1. PICK i \in S : FirstFor(S, key, i) /\ map[key] = Arguments[i]
    BY <1>2 DEF DeclaredIn, FirstFor
  <2>2. Arguments[i] = Tail(file[i])
    BY DEF Arguments
  <2> QED
    BY <1>1, <1>2, <2>1, <2>2, DeclaredIs DEF At
<1>3. CASE key \notin DOMAIN map
  <2>1. \A i \in S : FirstWord(i) # key
    BY <1>3 DEF DeclaredIn
  <2> QED
    BY <1>1, <1>3, <2>1, DeclaredIs DEF At
<1> QED
  BY <1>2, <1>3

LEMMA LocationDeclared ==
  ASSUME FileIsVector, NEW map, NEW S, S \subseteq Places, DeclaredIn(map, S, Argument),
         NEW key \in Directives, NEW absent
  PROVE  Declared(S, key, <<absent>>)[1] = At(map, key, absent)
<1>1. S \subseteq Nat
  BY DEF FileIsVector
<1>2. CASE key \in DOMAIN map
  <2>1. PICK i \in S : FirstFor(S, key, i) /\ map[key] = Argument[i]
    BY <1>2 DEF DeclaredIn, FirstFor
  <2>2. Argument[i] = Tail(file[i])[1]
    BY DEF Argument
  <2>3. Declared(S, key, <<absent>>) = Tail(file[i])
    BY <1>1, <2>1, DeclaredIs
  <2> QED
    BY <1>2, <2>1, <2>2, <2>3 DEF At
<1>3. CASE key \notin DOMAIN map
  <2>1. \A i \in S : FirstWord(i) # key
    BY <1>3 DEF DeclaredIn
  <2>2. Declared(S, key, <<absent>>) = <<absent>>
    BY <1>1, <2>1, DeclaredIs
  <2> QED
    BY <1>3, <2>2 DEF At
<1> QED
  BY <1>2, <1>3

\* A line that is no directive adds nothing.
LEMMA NoDirective ==
  ASSUME NEW map, NEW S, NEW values, DeclaredIn(map, S, values), NEW x,
         FirstWord(x) \notin Directives
  PROVE  DeclaredIn(map, S \cup {x}, values)
<1> SUFFICES ASSUME NEW key \in Directives
             PROVE  IF key \in DOMAIN map
                      THEN \E i \in S \cup {x} :
                             FirstFor(S \cup {x}, key, i) /\ map[key] = values[i]
                      ELSE \A i \in S \cup {x} : FirstWord(i) # key
  BY DEF DeclaredIn
<1> QED
  BY DEF DeclaredIn, FirstFor

\* A directive is inserted, unless it was there.
LEMMA NextDirective ==
  ASSUME NEW map, NEW S, S \subseteq Nat, NEW values, DeclaredIn(map, S, values),
         NEW x \in Nat, \A i \in S : i < x
  PROVE  DeclaredIn(Insert(map, FirstWord(x), values[x]), S \cup {x}, values)
<1> DEFINE T == S \cup {x}
           inserted == Insert(map, FirstWord(x), values[x])
<1> SUFFICES ASSUME NEW key \in Directives
             PROVE  IF key \in DOMAIN inserted
                      THEN \E i \in T : FirstFor(T, key, i) /\ inserted[key] = values[i]
                      ELSE \A i \in T : FirstWord(i) # key
  BY DEF DeclaredIn
<1>1. /\ DOMAIN inserted = DOMAIN map \cup {FirstWord(x)}
      /\ \A k \in DOMAIN map : inserted[k] = map[k]
      /\ FirstWord(x) \notin DOMAIN map => inserted[FirstWord(x)] = values[x]
  BY DEF Insert
<1>2. CASE key \in DOMAIN map
  <2>1. PICK i \in S : FirstFor(S, key, i) /\ map[key] = values[i]
    BY <1>2 DEF DeclaredIn
  <2>2. FirstFor(T, key, i)
    BY <2>1 DEF FirstFor
  <2> QED
    BY <1>1, <1>2, <2>1, <2>2
<1>3. CASE key \notin DOMAIN map /\ FirstWord(x) = key
  <2>1. \A i \in S : FirstWord(i) # key
    BY <1>3 DEF DeclaredIn
  <2>2. FirstFor(T, key, x)
    BY <1>3, <2>1 DEF FirstFor
  <2> QED
    BY <1>1, <1>3, <2>2
<1>4. CASE key \notin DOMAIN map /\ FirstWord(x) # key
  <2>1. \A i \in S : FirstWord(i) # key
    BY <1>4 DEF DeclaredIn
  <2> QED
    BY <1>1, <1>4, <2>1
<1> QED
  BY <1>2, <1>3, <1>4

\* Nobody writes to the file: what it says is what it said.
LEMMA SameWords ==
  ASSUME file' = file
  PROVE  /\ Places' = Places
         /\ \A i : FirstWord(i)' = FirstWord(i)
         /\ \A i, words : Upto(i, words)' = Upto(i, words)
         /\ \A i : Depth(i)' = Depth(i) /\ ServerOf(i)' = ServerOf(i)
         /\ \A i : Closings(i)' = Closings(i)
<1>1. Places' = Places /\ \A i : FirstWord(i)' = FirstWord(i)
  BY DEF Places, FirstWord
<1>2. \A i, words : Upto(i, words)' = Upto(i, words)
  BY <1>1 DEF Upto
<1>3. \A i : Depth(i)' = Depth(i) /\ ServerOf(i)' = ServerOf(i) /\ Closings(i)' = Closings(i)
  BY <1>2 DEF Depth, ServerOf, Closings
<1> QED
  BY <1>1, <1>2, <1>3

LEMMA SameLines ==
  ASSUME file' = file
  PROVE  /\ \A n : ServerLines(n)' = ServerLines(n) /\ LocationsOf(n)' = LocationsOf(n)
         /\ \A l : LocationLines(l)' = LocationLines(l)
         /\ \A n, r : ServerLinesTo(n, r)' = ServerLinesTo(n, r)
         /\ \A n, r : LocationsTo(n, r)' = LocationsTo(n, r)
         /\ \A l, r : LocationLinesTo(l, r)' = LocationLinesTo(l, r)
         /\ \A S, key, absent : Declared(S, key, absent)' = Declared(S, key, absent)
         /\ Arguments' = Arguments /\ Argument' = Argument
         /\ Balanced' <=> Balanced
<1>1. \A n : ServerLines(n)' = ServerLines(n) /\ LocationsOf(n)' = LocationsOf(n)
  BY SameWords DEF ServerLines, LocationsOf
<1>2. \A l : LocationLines(l)' = LocationLines(l)
  BY SameWords DEF LocationLines
<1>3. /\ \A n, r : ServerLinesTo(n, r)' = ServerLinesTo(n, r)
      /\ \A n, r : LocationsTo(n, r)' = LocationsTo(n, r)
      /\ \A l, r : LocationLinesTo(l, r)' = LocationLinesTo(l, r)
  BY <1>1, <1>2 DEF ServerLinesTo, LocationsTo, LocationLinesTo
<1>4. \A S, key, absent : Declared(S, key, absent)' = Declared(S, key, absent)
  BY SameWords DEF Declared
<1>5. Arguments' = Arguments /\ Argument' = Argument
  BY SameWords DEF Arguments, Argument
<1>6. Balanced' <=> Balanced
  BY SameWords DEF Balanced
<1> QED
  BY <1>1, <1>2, <1>3, <1>4, <1>5, <1>6

LEMMA SameReader ==
  ASSUME file' = file
  PROVE  \A r, b, list, conf, locations, key, map, size :
           Reader(r, b, list, conf, locations, key, map, size)'
             <=> Reader(r, b, list, conf, locations, key, map, size)
<1>1. \A S, key, i : FirstFor(S, key, i)' <=> FirstFor(S, key, i)
  BY SameWords DEF FirstFor
<1>2. /\ \A map, S : DeclaredIn(map, S, Arguments)' <=> DeclaredIn(map, S, Arguments)
      /\ \A map, S : DeclaredIn(map, S, Argument)' <=> DeclaredIn(map, S, Argument)
  BY <1>1, SameWords, SameLines DEF DeclaredIn
<1>3. \A n, l : Inherited(n, l)' = Inherited(n, l)
  BY SameLines DEF Inherited
<1>4. \A n, l, r : LocationSaid(n, l, r)' = LocationSaid(n, l, r)
  BY <1>3, SameLines DEF LocationSaid
<1>5. \A n, l : FirstOfKey(n, l)' <=> FirstOfKey(n, l)
  BY SameLines DEF FirstOfKey
<1>6. \A locations, n, L, r :
        LocationsSaid(locations, n, L, r)' <=> LocationsSaid(locations, n, L, r)
  BY <1>4, <1>5, SameWords DEF LocationsSaid
<1>7. \A n, r : PageSaid(n, r)' = PageSaid(n, r)
  BY SameLines DEF PageSaid
<1>8. \A server, n, r : ServerSaid(server, n, r)' <=> ServerSaid(server, n, r)
  BY <1>6, <1>7, SameLines DEF ServerSaid
<1>9. \A l, n, r, locations, key, map, size :
        InLocation(l, n, r, locations, key, map, size)'
          <=> InLocation(l, n, r, locations, key, map, size)
  BY <1>2, <1>3, <1>6, SameWords, SameLines DEF InLocation
<1> QED
  BY <1>2, <1>6, <1>8, <1>9, SameWords, SameLines DEF Reader

LEMMA FilesAreVectors == file \in ConfigFiles => FileIsVector
<1> SUFFICES ASSUME file \in ConfigFiles PROVE FileIsVector
  OBVIOUS
<1>1. Len(file) \in Nat /\ file = [i \in 1 .. Len(file) |-> file[i]]
  BY ConfigFilesAssumption
<1> QED
  BY <1>1, VectorIsSequence DEF FileIsVector, Places

LEMMA ServersGrow ==
  ASSUME NEW l \in Nat, NEW r \in Nat, l <= r
  PROVE  ServerOf(l) <= ServerOf(r) /\ ServerOf(l) \in Nat /\ ServerOf(r) \in Nat
<1>1. /\ IsFiniteSet(1 .. r) /\ Upto(r, {"server"}) \subseteq 1 .. r
      /\ Upto(l, {"server"}) \subseteq Upto(r, {"server"})
  BY FS_Interval DEF Upto
<1>2. IsFiniteSet(Upto(r, {"server"}))
  BY <1>1, FS_Subset
<1> QED
  BY <1>1, <1>2, FS_Subset, LineStep DEF ServerOf, Count

\* The next server has no line yet.
LEMMA NewServer ==
  ASSUME FileIsVector, NEW r \in Nat, NEW n, n = ServerOf(r) + 1
  PROVE  ServerLinesTo(n, r) = {} /\ LocationsTo(n, r) = {}
<1>1. ASSUME NEW i \in Places, i <= r PROVE ServerOf(i) # n
  <2>1. i \in Nat
    BY DEF FileIsVector
  <2> QED
    BY <1>1, <2>1, ServersGrow
<1> QED
  BY <1>1 DEF ServerLinesTo, ServerLines, LocationsTo, LocationsOf

LEMMA BalancedLines ==
  ASSUME Balanced, NEW i \in Places
  PROVE  /\ FirstWord(i) = "server" => Depth(i) = 1
         /\ FirstWord(i) = "location" => Depth(i) = 2
         /\ Depth(i) \in 0 .. 2
<1>1. Depth(i) \in 0 .. 2
  BY DEF Balanced
<1>2. Depth(i) = CASE FirstWord(i) = "server" -> 1
                   [] FirstWord(i) = "location" -> 2
                   [] OTHER -> Depth(i)
  BY DEF Balanced
<1>3. ASSUME FirstWord(i) = "server" PROVE Depth(i) = 1
  <2>1. FirstWord(i) # "location"
    BY <1>3
  <2> QED
    BY <1>2, <1>3, <2>1
<1>4. ASSUME FirstWord(i) = "location" PROVE Depth(i) = 2
  <2>1. FirstWord(i) # "server"
    BY <1>4
  <2> QED
    BY <1>2, <1>4, <2>1
<1> QED
  BY <1>1, <1>3, <1>4

LEMMA LocationsStay ==
  ASSUME FileIsVector, NEW r \in Nat, r + 1 \in Places, NEW locations, NEW n,
         NEW L, L \subseteq Nat, LocationsSaid(locations, n, L, r)
  PROVE  LocationsSaid(locations, n, L, r + 1)
<1>1. Closings(r) <= Closings(r + 1) /\ Closings(r) \in Nat /\ Closings(r + 1) \in Nat
  BY ClosingsGrow, LineStep
<1>2. ASSUME NEW l \in L
      PROVE  Closings(l) < Closings(r + 1) /\ LocationSaid(n, l, r + 1) = LocationSaid(n, l, r)
  <2>1. l \in Nat /\ Closings(l) < Closings(r)
    BY DEF LocationsSaid
  <2>2. Closings(l) \in Nat
    BY <2>1, LineStep
  <2>3. LocationLinesTo(l, r + 1) = LocationLinesTo(l, r)
    BY <2>1, ClosedLocation
  <2>4. LocationSaid(n, l, r + 1) = LocationSaid(n, l, r)
    BY <2>3 DEF LocationSaid
  <2> QED
    BY <1>1, <2>1, <2>2, <2>4
<1> QED
  BY <1>2 DEF LocationsSaid

\* A line that is in no list of this server's says nothing of it.
LEMMA ServerStays ==
  ASSUME FileIsVector, NEW r \in Nat, r + 1 \in Places, NEW server, NEW n,
         ServerSaid(server, n, r),
         ServerOf(r + 1) # n \/ (Depth(r + 1) # 1 /\ FirstWord(r + 1) # "location")
  PROVE  ServerSaid(server, n, r + 1)
<1>1. ServerLinesTo(n, r + 1) = ServerLinesTo(n, r)
  BY NextServerLines
<1>2. LocationsTo(n, r + 1) = LocationsTo(n, r)
  BY NextLocations
<1>3. LocationsTo(n, r) \subseteq Nat
  BY DEF LocationsTo, LocationsOf, FileIsVector
<1>4. LocationsSaid(server.locations, n, LocationsTo(n, r), r + 1)
  BY <1>3, LocationsStay DEF ServerSaid
<1> QED
  BY <1>1, <1>2, <1>4 DEF ServerSaid, PageSaid

\* The server that get_parse_server_block pushes.
LEMMA BlockSaid ==
  ASSUME FileIsVector, NEW r, NEW n, NEW conf, NEW locations,
         DeclaredIn(conf, ServerLinesTo(n, r), Arguments),
         LocationsSaid(locations, n, LocationsTo(n, r), r)
  PROVE  ServerSaid(ServerBlock(conf, locations), n, r)
<1> DEFINE Of(key) == Declared(ServerLinesTo(n, r), key, <<>>)
           server == ServerBlock(conf, locations)
<1>1. ServerLinesTo(n, r) \subseteq Places
  BY DEF ServerLinesTo, ServerLines
<1>2. \A key \in Directives : Of(key) = At(conf, key, <<>>)
  BY <1>1, ServerDeclared
<1>3. /\ Of("listen") = At(conf, "listen", <<>>)
      /\ Of("max_body_size") = At(conf, "max_body_size", <<>>)
      /\ Of("server_name") = At(conf, "server_name", <<>>)
      /\ Of("root") = At(conf, "root", <<>>)
      /\ Of("error_page") = At(conf, "error_page", <<>>)
  BY <1>2 DEF Directives
<1>4. \A key : At(conf, key, <<>>) # <<>> => At(conf, key, <<>>) = conf[key]
  BY DEF At
<1>5. /\ server.listen = At(conf, "listen", <<>>)
      /\ server.max_body_size = At(conf, "max_body_size", <<>>)
      /\ server.server_name = IF At(conf, "server_name", <<>>) = <<>>
                                THEN Unnamed ELSE conf["server_name"][1]
      /\ server.error_page_vector = openErrorPage(conf)
      /\ server.locations = locations
  BY DEF ServerBlock
<1>6. server.error_page_vector = PageSaid(n, r)
  BY <1>3, <1>4, <1>5 DEF openErrorPage, PageSaid
<1> HIDE DEF server
<1> QED
  BY <1>3, <1>4, <1>5, <1>6 DEF ServerSaid, server

\* The t_location that get_location_expand inserts.
LEMMA LocationIsSaid ==
  ASSUME FileIsVector, NEW l, NEW n, NEW r,
         DeclaredIn(temp_location_map, LocationLinesTo(l, r), Argument),
         server_max_size = Inherited(n, l)[1]
  PROVE  Location(temp_location_map) = LocationSaid(n, l, r)
<1> DEFINE Of(key, absent) == Declared(LocationLinesTo(l, r), key, <<absent>>)[1]
<1>1. LocationLinesTo(l, r) \subseteq Places
  BY DEF LocationLinesTo, LocationLines
<1>2. \A key \in Directives : \A absent : Of(key, absent) = At(temp_location_map, key, absent)
  BY <1>1, LocationDeclared
<1> HIDE DEF Of
<1>3. /\ Of("accepted_method", {}) = At(temp_location_map, "accepted_method", {})
      /\ Of("root", <<>>) = At(temp_location_map, "root", <<>>)
      /\ Of("index", "") = At(temp_location_map, "index", "")
      /\ Of("auto_index", "") = At(temp_location_map, "auto_index", "")
      /\ Of("ourcgi_pass", <<>>) = At(temp_location_map, "ourcgi_pass", <<>>)
      /\ Of("ourcgi_index", "") = At(temp_location_map, "ourcgi_index", "")
      /\ Of("redirection", "") = At(temp_location_map, "redirection", "")
      /\ Of("max_body_size", server_max_size)
           = At(temp_location_map, "max_body_size", server_max_size)
  BY <1>2 DEF Directives
<1>4. LocationSaid(n, l, r) =
        [accepted_method |-> Of("accepted_method", {}),
         root |-> Of("root", <<>>),
         index |-> Of("index", ""), auto_index |-> Of("auto_index", ""),
         ourcgi_pass |-> Of("ourcgi_pass", <<>>),
         ourcgi_index |-> Of("ourcgi_index", ""),
         redirection |-> Of("redirection", ""),
         max_body_size |-> Of("max_body_size", server_max_size)]
  BY DEF LocationSaid, Of
<1> QED
  BY <1>3, <1>4 DEF Location, NoWords

\* A location is inserted when its block ends.
LEMMA LocationEnds ==
  ASSUME FileIsVector, NEW r \in Nat, r + 1 \in Places, FirstWord(r + 1) = CloseBrace,
         NEW n, NEW l, NEW locations, NEW key,
         InLocation(l, n, r, locations, key, temp_location_map, server_max_size)
  PROVE  LocationsSaid(Insert(locations, key, Location(temp_location_map)), n,
                       LocationsTo(n, r), r + 1)
<1> DEFINE L == LocationsTo(n, r)
           others == L \ {l}
           inserted == Insert(locations, key, Location(temp_location_map))
<1>1. /\ l \in L /\ L \subseteq Nat /\ L \subseteq LocationsOf(n) /\ \A k \in L : k <= r
      /\ Closings(l) = Closings(r) /\ \A j \in l + 1 .. r : FirstWord(j) # "location"
      /\ key = file[l][2] /\ LocationsSaid(locations, n, others, r)
  BY DEF InLocation, LocationsTo, LocationsOf, FileIsVector
<1>2. Closings(r) \in Nat /\ Closings(r + 1) = Closings(r) + 1
  BY LineStep
<1>3. others \subseteq Nat
  BY <1>1
<1>4. LocationsSaid(locations, n, others, r + 1)
  BY <1>1, <1>3, LocationsStay
<1>5. r + 1 \notin LocationLines(l)
  BY <1>1, <1>2 DEF LocationLines, Closings
<1>6. LocationSaid(n, l, r + 1) = Location(temp_location_map)
  <2>1. LocationLinesTo(l, r + 1) = LocationLinesTo(l, r)
    BY <1>5, NextLocationLines
  <2>2. LocationSaid(n, l, r + 1) = LocationSaid(n, l, r)
    BY <2>1 DEF LocationSaid
  <2> QED
    BY <2>2, LocationIsSaid DEF InLocation
<1>7. ASSUME FirstOfKey(n, l) PROVE key \notin DOMAIN locations
  <2>1. SUFFICES ASSUME NEW k \in others, file[k][2] = key PROVE FALSE
    BY <1>1 DEF LocationsSaid
  <2>2. l <= k /\ k # l /\ k <= r /\ k \in Nat /\ l \in Nat /\ FirstWord(k) = "location"
    BY <1>1, <1>7, <2>1 DEF FirstOfKey, LocationsOf
  <2> QED
    BY <1>1, <2>2
<1>8. /\ DOMAIN inserted = DOMAIN locations \cup {key}
      /\ \A k \in DOMAIN locations : inserted[k] = locations[k]
      /\ key \notin DOMAIN locations => inserted[key] = Location(temp_location_map)
  BY DEF Insert
<1> HIDE DEF inserted
<1>9. DOMAIN inserted = {file[k][2] : k \in L}
  BY <1>1, <1>8 DEF LocationsSaid
<1>10. ASSUME NEW k \in L
       PROVE  /\ Closings(k) < Closings(r + 1)
              /\ FirstOfKey(n, k) => inserted[file[k][2]] = LocationSaid(n, k, r + 1)
  <2>1. CASE k = l
    BY <1>1, <1>2, <1>6, <1>7, <1>8, <2>1
  <2>2. CASE k # l
    <3>1. /\ k \in others /\ file[k][2] \in DOMAIN locations /\ Closings(k) < Closings(r + 1)
          /\ FirstOfKey(n, k) => locations[file[k][2]] = LocationSaid(n, k, r + 1)
      BY <1>4, <2>2 DEF LocationsSaid
    <3> QED
      BY <1>8, <3>1
  <2> QED
    BY <2>1, <2>2
<1> QED
  BY <1>9, <1>10 DEF LocationsSaid, inserted

(***************************************************************************)
(* One lemma for each way to read a line.                                  *)
(***************************************************************************)
LEMMA LineRead ==
  ASSUME FileIsVector, VectorsInv, NEW r \in Nat, r <= Len(file), Unread(r)
  PROVE  /\ rest = <<>> => r = Len(file)
         /\ rest # <<>> => /\ r + 1 \in Places /\ Line = file[r + 1]
                           /\ FirstWord(r + 1) = IF Line = <<>> THEN "" ELSE Line[1]
                           /\ NextLine /\ file' = file => Unread(r + 1)'
<1>1. IsSequence(rest) /\ DOMAIN rest = 1 .. Len(rest) /\ Len(rest) \in Nat
  BY SequenceDomain DEF VectorsInv
<1>2. Len(file) \in Nat /\ Places = 1 .. Len(file)
  BY DEF FileIsVector
<1>3. ASSUME rest = <<>> PROVE r = Len(file)
  <2>1. Len(rest) = 0
    BY <1>3, <1>1, EmptySequence
  <2> QED
    BY <2>1, <1>2 DEF Unread
<1>4. ASSUME rest # <<>> PROVE r + 1 \in Places /\ Line = file[r + 1]
  <2>1. Len(rest) >= 1 /\ Line = rest[1]
    BY <1>1, <1>4 DEF Line, IsSequence
  <2> QED
    BY <1>1, <1>2, <2>1 DEF Unread
<1>5. ASSUME rest # <<>> PROVE FirstWord(r + 1) = IF Line = <<>> THEN "" ELSE Line[1]
  BY <1>4, <1>5 DEF FirstWord
<1>6. ASSUME rest # <<>>, NextLine, file' = file PROVE Unread(r + 1)'
  <2>1. rest' = Tail(rest)
    BY <1>6 DEF NextLine
  <2>2. PICK S : rest \in Seq(S)
    BY <1>1 DEF IsSequence
  <2>3. Len(rest') = Len(rest) - 1 /\ \A i \in 1 .. Len(rest') : rest'[i] = rest[i + 1]
    BY <1>6, <2>1, <2>2
  <2>4. \A i \in 1 .. Len(rest') : rest'[i] = file[r + 1 + i]
    <3>1. \A i \in 1 .. Len(rest) : rest[i] = file[r + i]
      BY DEF Unread
    <3> SUFFICES ASSUME NEW i \in 1 .. Len(rest') PROVE rest'[i] = file[r + 1 + i]
      OBVIOUS
    <3>2. i + 1 \in 1 .. Len(rest) /\ r + (i + 1) = r + 1 + i
      BY <1>1, <2>3
    <3> QED
      BY <2>3, <3>1, <3>2
  <2> QED
    BY <1>1, <1>2, <1>6, <2>3, <2>4 DEF Unread
<1> QED
  BY <1>3, <1>4, <1>5, <1>6

\* Line r + 1 is next, and all before it is known.
AtLine(r) ==
  /\ FileIsVector /\ Balanced /\ r \in Nat /\ r + 1 \in Places
  /\ Line = file[r + 1] /\ FirstWord(r + 1) = IF Line = <<>> THEN "" ELSE Line[1]
  /\ Reader(r, block, m_server_conf, temp_conf, temp_locations, location_key,
            temp_location_map, server_max_size)

Known(r) ==
  Reader(r, block', m_server_conf', temp_conf', temp_locations', location_key',
         temp_location_map', server_max_size')

\* The servers that are finished.
LEMMA ListStays ==
  ASSUME NEW r, AtLine(r),
         \A k \in 1 .. Len(m_server_conf) :
           ServerOf(r + 1) # k \/ (Depth(r + 1) # 1 /\ FirstWord(r + 1) # "location")
  PROVE  \A k \in 1 .. Len(m_server_conf) : ServerSaid(m_server_conf[k], k, r + 1)
<1> SUFFICES ASSUME NEW k \in 1 .. Len(m_server_conf)
             PROVE  ServerSaid(m_server_conf[k], k, r + 1)
  OBVIOUS
<1>1. FileIsVector /\ r \in Nat /\ r + 1 \in Places /\ ServerSaid(m_server_conf[k], k, r)
  BY DEF AtLine, Reader
<1> QED
  BY <1>1, ServerStays

LEMMA ReadServerKnown ==
  ASSUME NEW r, AtLine(r), ReadServer, Servers(m_server_conf)
  PROVE  Known(r + 1)
<1> DEFINE n == ServerOf(r) + 1
<1>1. /\ FileIsVector /\ r \in Nat /\ r + 1 \in Places /\ Len(m_server_conf) = ServerOf(r)
      /\ Depth(r) = 0 /\ block = "top"
  BY DEF AtLine, Reader, ReadServer, InBlock
<1>2. FirstWord(r + 1) = "server"
  <2>1. Line = <<"server", OpenBrace>>
    BY DEF ReadServer
  <2> QED
    BY <2>1 DEF AtLine
<1>3. ServerOf(r + 1) = n /\ Depth(r + 1) = 1 /\ ServerOf(r) \in Nat
  BY <1>1, <1>2, LineStep
<1>4. ServerLinesTo(n, r + 1) = {r + 1} /\ LocationsTo(n, r + 1) = {}
  <2>1. ServerLinesTo(n, r) = {} /\ LocationsTo(n, r) = {}
    BY <1>1, NewServer
  <2> QED
    BY <1>1, <1>2, <1>3, <2>1, NextServerLines, NextLocations
<1>5. \A k \in 1 .. Len(m_server_conf) : ServerSaid(m_server_conf[k], k, r + 1)
  <2>1. \A k \in 1 .. Len(m_server_conf) : ServerOf(r + 1) # k
    BY <1>1, <1>3
  <2> QED
    BY <2>1, ListStays
<1>6. DeclaredIn(NoWords, ServerLinesTo(n, r + 1), Arguments)
  <2>1. DeclaredIn(NoWords, {}, Arguments)
    BY EmptySequence DEF DeclaredIn, NoWords
  <2>2. "server" \notin Directives
    BY DEF Directives
  <2> QED
    BY <1>2, <1>4, <2>1, <2>2, NoDirective
<1>7. LocationsSaid(NoWords, n, LocationsTo(n, r + 1), r + 1)
  BY <1>4, EmptySequence DEF LocationsSaid, NoWords
<1>8. /\ block' = "server" /\ m_server_conf' = m_server_conf /\ temp_conf' = NoWords
      /\ temp_locations' = NoWords
  BY DEF ReadServer
<1> HIDE DEF n
<1> QED
  BY <1>1, <1>3, <1>5, <1>6, <1>7, <1>8 DEF Known, Reader, n

\* A line of the server block itself.
LEMMA ServerLineKnown ==
  ASSUME NEW r, AtLine(r), block = "server", Servers(m_server_conf),
         FirstWord(r + 1) \notin {"server", "location", CloseBrace},
         UNCHANGED <<block, temp_locations, m_server_conf>>,
         DeclaredIn(temp_conf', ServerLinesTo(ServerOf(r), r) \cup {r + 1}, Arguments)
  PROVE  Known(r + 1)
<1> DEFINE n == ServerOf(r)
<1>1. /\ FileIsVector /\ r \in Nat /\ r + 1 \in Places /\ Len(m_server_conf) = n - 1
      /\ Depth(r) = 1 /\ LocationsSaid(temp_locations, n, LocationsTo(n, r), r)
  BY DEF AtLine, Reader
<1>2. ServerOf(r + 1) = n /\ Depth(r + 1) = 1 /\ n \in Nat
  BY <1>1, LineStep
<1>3. /\ ServerLinesTo(n, r + 1) = ServerLinesTo(n, r) \cup {r + 1}
      /\ LocationsTo(n, r + 1) = LocationsTo(n, r)
  BY <1>1, <1>2, NextServerLines, NextLocations
<1>4. \A k \in 1 .. Len(m_server_conf) : ServerSaid(m_server_conf[k], k, r + 1)
  <2>1. \A k \in 1 .. Len(m_server_conf) : ServerOf(r + 1) # k
    BY <1>1, <1>2
  <2> QED
    BY <2>1, ListStays
<1>5. LocationsSaid(temp_locations, n, LocationsTo(n, r + 1), r + 1)
  <2>1. LocationsTo(n, r) \subseteq Nat
    BY <1>1 DEF LocationsTo, LocationsOf, FileIsVector
  <2> QED
    BY <1>1, <1>3, <2>1, LocationsStay
<1>6. DeclaredIn(temp_conf', ServerLinesTo(n, r + 1), Arguments)
  BY <1>3
<1>7. block' = "server" /\ m_server_conf' = m_server_conf /\ temp_locations' = temp_locations
  OBVIOUS
<1> HIDE DEF n
<1> QED
  BY <1>1, <1>2, <1>4, <1>5, <1>6, <1>7 DEF Known, Reader

LEMMA SkipBlankKnown ==
  ASSUME NEW r, AtLine(r), SkipBlank, Servers(m_server_conf)
  PROVE  Known(r + 1)
<1>1. FirstWord(r + 1) = ""
  BY DEF AtLine, SkipBlank
<1>2. "" \notin Directives /\ FirstWord(r + 1) \notin {"server", "location", CloseBrace}
  BY <1>1, Braces DEF Directives
<1>3. /\ block = "server" /\ UNCHANGED <<block, temp_locations, m_server_conf, temp_conf>>
  BY DEF SkipBlank, InBlock, serverVars
<1>4. DeclaredIn(temp_conf, ServerLinesTo(ServerOf(r), r), Arguments)
  BY <1>3 DEF AtLine, Reader
<1>5. DeclaredIn(temp_conf, ServerLinesTo(ServerOf(r), r) \cup {r + 1}, Arguments)
  BY <1>1, <1>2, <1>4, NoDirective
<1> QED
  BY <1>2, <1>3, <1>5, ServerLineKnown

LEMMA ReadDirectiveKnown ==
  ASSUME NEW r, AtLine(r), ReadDirective, Servers(m_server_conf)
  PROVE  Known(r + 1)
<1> DEFINE S == ServerLinesTo(ServerOf(r), r)
<1>1. /\ FileIsVector /\ Balanced /\ r \in Nat /\ r + 1 \in Places /\ Depth(r) = 1
      /\ block = "server" /\ UNCHANGED <<block, temp_locations, m_server_conf>>
      /\ DeclaredIn(temp_conf, S, Arguments)
  BY DEF AtLine, Reader, ReadDirective, Directive, InBlock
<1>2. /\ FirstWord(r + 1) = Line[1] /\ Line[1] # CloseBrace /\ Line[1] # "location"
      /\ temp_conf' = Insert(temp_conf, Line[1], Tail(Line))
      /\ Arguments[r + 1] = Tail(Line)
  BY <1>1 DEF AtLine, ReadDirective, Directive, Starts, Arguments
<1>3. FirstWord(r + 1) # "server"
  <2>1. ASSUME FirstWord(r + 1) = "server" PROVE FALSE
    <3>1. Depth(r + 1) = 1
      BY <1>1, <2>1, BalancedLines
    <3>2. Depth(r + 1) = Depth(r) + 1
      BY <1>1, <2>1, LineStep
    <3> QED
      BY <1>1, <3>1, <3>2
  <2> QED
    BY <2>1
<1>4. S \subseteq Nat /\ \A i \in S : i < r + 1
  BY <1>1 DEF ServerLinesTo, ServerLines, FileIsVector
<1> HIDE DEF S
<1>5. DeclaredIn(temp_conf', S \cup {r + 1}, Arguments)
  <2>1. r + 1 \in Nat /\ temp_conf' = Insert(temp_conf, FirstWord(r + 1), Arguments[r + 1])
    BY <1>1, <1>2
  <2>2. DeclaredIn(Insert(temp_conf, FirstWord(r + 1), Arguments[r + 1]), S \cup {r + 1}, Arguments)
    BY <1>1, <1>4, <2>1, NextDirective
  <2> QED
    BY <2>1, <2>2
<1> QED
  BY <1>1, <1>2, <1>3, <1>5, ServerLineKnown DEF S

LEMMA CloseServerKnown ==
  ASSUME NEW r, AtLine(r), CloseServer, rest # <<>>, Servers(m_server_conf)
  PROVE  Known(r + 1)
<1> DEFINE n == ServerOf(r)
           server == ServerBlock(temp_conf, temp_locations)
<1>1. /\ FileIsVector /\ r \in Nat /\ r + 1 \in Places /\ Len(m_server_conf) = n - 1
      /\ Depth(r) = 1 /\ LocationsSaid(temp_locations, n, LocationsTo(n, r), r)
      /\ DeclaredIn(temp_conf, ServerLinesTo(n, r), Arguments)
  BY DEF AtLine, Reader, CloseServer, Closing
<1>2. /\ FirstWord(r + 1) = CloseBrace /\ block' = "top"
      /\ m_server_conf' = Append(m_server_conf, server)
  BY DEF AtLine, CloseServer, Closing, Starts
<1>3. /\ ServerOf(r + 1) = n /\ Depth(r + 1) = 0 /\ n \in Nat
      /\ FirstWord(r + 1) # "location"
  <2>1. FirstWord(r + 1) # "server" /\ FirstWord(r + 1) # "location"
    BY <1>2, Braces
  <2> QED
    BY <1>1, <1>2, <2>1, LineStep
<1>4. ServerSaid(server, n, r)
  BY <1>1, BlockSaid
<1>5. ServerSaid(server, n, r + 1)
  <2>1. Depth(r + 1) # 1
    BY <1>3
  <2> QED
    BY <1>1, <1>3, <1>4, <2>1, ServerStays
<1>6. \A k \in 1 .. Len(m_server_conf) : ServerSaid(m_server_conf[k], k, r + 1)
  <2>1. \A k \in 1 .. Len(m_server_conf) : ServerOf(r + 1) # k
    BY <1>1, <1>3
  <2> QED
    BY <2>1, ListStays
<1> HIDE DEF server, n
<1>7. /\ Len(m_server_conf') = n
      /\ \A k \in 1 .. Len(m_server_conf) : m_server_conf'[k] = m_server_conf[k]
      /\ m_server_conf'[n] = server
  <2>1. PICK S : m_server_conf \in Seq(S)
    BY DEF Servers, IsSequence
  <2>2. m_server_conf \in Seq(S \cup {server}) /\ server \in S \cup {server}
    BY <2>1
  <2> QED
    BY <1>1, <1>2, <1>3, <2>2, AppendProperties
<1>8. \A k \in 1 .. Len(m_server_conf') : ServerSaid(m_server_conf'[k], k, r + 1)
  <2> SUFFICES ASSUME NEW k \in 1 .. n PROVE ServerSaid(m_server_conf'[k], k, r + 1)
    BY <1>7
  <2>1. k \in 1 .. Len(m_server_conf) \/ k = n
    BY <1>1, <1>3
  <2> QED
    BY <1>5, <1>6, <1>7, <2>1
<1> QED
  BY <1>2, <1>3, <1>7, <1>8 DEF Known, Reader

LEMMA ReadLocationKnown ==
  ASSUME NEW r, AtLine(r), ReadLocation, Servers(m_server_conf)
  PROVE  Known(r + 1)
<1> DEFINE n == ServerOf(r)
           l == r + 1
<1>1. /\ FileIsVector /\ Balanced /\ r \in Nat /\ l \in Places /\ l \in Nat
      /\ Len(m_server_conf) = n - 1 /\ Depth(r) = 1
      /\ LocationsSaid(temp_locations, n, LocationsTo(n, r), r)
      /\ DeclaredIn(temp_conf, ServerLinesTo(n, r), Arguments)
  BY DEF AtLine, Reader, ReadLocation, Directive, InBlock
<1>2. FirstWord(l) = "location" /\ Line = file[l]
  BY DEF AtLine, ReadLocation, Starts
<1>3. ServerOf(l) = n /\ Depth(l) = 2 /\ n \in Nat
  BY <1>1, <1>2, LineStep
<1>4. /\ ServerLinesTo(n, l) = ServerLinesTo(n, r)
      /\ LocationsTo(n, l) = LocationsTo(n, r) \cup {l}
      /\ LocationsTo(n, r) \subseteq Nat /\ l \notin LocationsTo(n, r)
  <2>1. LocationsTo(n, r) \subseteq Nat /\ l \notin LocationsTo(n, r)
    BY <1>1 DEF LocationsTo, LocationsOf, FileIsVector
  <2>2. ServerLinesTo(n, r + 1) = ServerLinesTo(n, r)
    <3>1. Depth(r + 1) # 1
      BY <1>3
    <3> QED
      BY <1>1, <3>1, NextServerLines
  <2>3. LocationsTo(n, r + 1) = LocationsTo(n, r) \cup {r + 1}
    BY <1>1, <1>2, <1>3, NextLocations
  <2> QED
    BY <2>1, <2>2, <2>3
<1>5. \A k \in 1 .. Len(m_server_conf) : ServerSaid(m_server_conf[k], k, l)
  <2>1. \A k \in 1 .. Len(m_server_conf) : ServerOf(r + 1) # k
    BY <1>1, <1>3
  <2> QED
    BY <2>1, ListStays
<1>6. LocationsSaid(temp_locations, n, LocationsTo(n, l) \ {l}, l)
  <2>1. LocationsTo(n, l) \ {l} = LocationsTo(n, r)
    BY <1>4
  <2>2. LocationsSaid(temp_locations, n, LocationsTo(n, r), l)
    BY <1>1, <1>4, LocationsStay
  <2> QED
    BY <2>1, <2>2
<1>7. At(temp_conf, "max_body_size", <<0>>)[1] = Inherited(n, l)[1]
  <2>1. {i \in ServerLines(n) : i < l} = ServerLinesTo(n, r)
    BY <1>1 DEF ServerLinesTo, ServerLines, FileIsVector
  <2>2. ServerLinesTo(n, r) \subseteq Places
    BY DEF ServerLinesTo, ServerLines
  <2>3. Declared(ServerLinesTo(n, r), "max_body_size", <<0>>)
          = At(temp_conf, "max_body_size", <<0>>)
    BY <1>1, <2>2, ServerDeclared DEF Directives
  <2> QED
    BY <2>1, <2>3 DEF Inherited
<1>8. DeclaredIn(NoWords, LocationLinesTo(l, l), Argument)
  <2>1. LocationLinesTo(l, l) = {}
    BY <1>1 DEF LocationLinesTo, LocationLines, FileIsVector
  <2> QED
    BY <2>1, EmptySequence DEF DeclaredIn, NoWords
<1>9. /\ block' = "location" /\ m_server_conf' = m_server_conf /\ temp_conf' = temp_conf
      /\ temp_locations' = temp_locations /\ location_key' = file[l][2]
      /\ temp_location_map' = NoWords
      /\ server_max_size' = At(temp_conf, "max_body_size", <<0>>)[1]
  BY <1>2 DEF ReadLocation, serverVars
<1>10. l \in LocationsTo(n, l) /\ \A j \in l + 1 .. l : FirstWord(j) # "location"
  BY <1>1, <1>4
<1> HIDE DEF n, l
<1>11. InLocation(l, n, l, temp_locations', location_key', temp_location_map', server_max_size')
  BY <1>6, <1>7, <1>8, <1>9, <1>10 DEF InLocation
<1>12. Known(l)
  BY <1>1, <1>3, <1>4, <1>5, <1>9, <1>10, <1>11 DEF Known, Reader
<1> QED
  BY <1>12 DEF l

LEMMA ReadLocationDirectiveKnown ==
  ASSUME NEW r, AtLine(r), ReadLocationDirective, Servers(m_server_conf), IsLine(Line)
  PROVE  Known(r + 1)
<1> DEFINE n == ServerOf(r)
<1>1. /\ FileIsVector /\ Balanced /\ r \in Nat /\ r + 1 \in Places /\ r + 1 \in Nat
      /\ Len(m_server_conf) = n - 1 /\ Depth(r) = 2
      /\ DeclaredIn(temp_conf, ServerLinesTo(n, r), Arguments)
  BY DEF AtLine, Reader, ReadLocationDirective, Directive, InBlock
<1>2. PICK l \in LocationsTo(n, r) :
        InLocation(l, n, r, temp_locations, location_key, temp_location_map, server_max_size)
  BY DEF AtLine, Reader, ReadLocationDirective, Directive, InBlock
<1>3. /\ FirstWord(r + 1) = Line[1] /\ Line[1] # CloseBrace /\ Line = file[r + 1]
      /\ temp_location_map' = Insert(temp_location_map, Line[1], Line[2])
  BY DEF AtLine, ReadLocationDirective, Directive
<1>4. Argument[r + 1] = Line[2]
  <2>1. IsSequence(Line) /\ Len(Line) = 2 /\ Line # <<>>
    BY DEF ReadLocationDirective, IsLine, Directive
  <2>2. Tail(Line)[1] = Line[2]
    BY <2>1 DEF IsSequence
  <2> QED
    BY <1>1, <1>3, <2>2 DEF Argument
<1>5. FirstWord(r + 1) # "server" /\ FirstWord(r + 1) # "location"
  <2>1. Depth(r + 1) \in 0 .. 2
    BY <1>1, BalancedLines
  <2>2. FirstWord(r + 1) \in {"server", "location"} => Depth(r + 1) = Depth(r) + 1
    BY <1>1, LineStep
  <2> QED
    BY <1>1, <2>1, <2>2
<1>6. /\ ServerOf(r + 1) = n /\ Depth(r + 1) = 2 /\ n \in Nat
      /\ Closings(r + 1) = Closings(r)
  BY <1>1, <1>3, <1>5, LineStep
<1>7. /\ ServerLinesTo(n, r + 1) = ServerLinesTo(n, r)
      /\ LocationsTo(n, r + 1) = LocationsTo(n, r)
      /\ LocationsTo(n, r) \subseteq Nat /\ \A k \in LocationsTo(n, r) : k <= r
  <2>1. LocationsTo(n, r) \subseteq Nat /\ \A k \in LocationsTo(n, r) : k <= r
    BY <1>1 DEF LocationsTo, LocationsOf, FileIsVector
  <2>2. ServerLinesTo(n, r + 1) = ServerLinesTo(n, r)
    <3>1. Depth(r + 1) # 1
      BY <1>6
    <3> QED
      BY <1>1, <3>1, NextServerLines
  <2>3. LocationsTo(n, r + 1) = LocationsTo(n, r)
    BY <1>1, <1>5, NextLocations
  <2> QED
    BY <2>1, <2>2, <2>3
<1>8. \A k \in 1 .. Len(m_server_conf) : ServerSaid(m_server_conf[k], k, r + 1)
  <2>1. \A k \in 1 .. Len(m_server_conf) : ServerOf(r + 1) # k
    BY <1>1, <1>6
  <2> QED
    BY <2>1, ListStays
<1>9. l \in Nat /\ l <= r /\ Closings(l) = Closings(r) /\ Closings(l) = Closings(r + 1)
  BY <1>2, <1>6, <1>7 DEF InLocation
<1>10. \A j \in l + 1 .. r + 1 : FirstWord(j) # "location"
  <2>1. \A j \in l + 1 .. r : FirstWord(j) # "location"
    BY <1>2 DEF InLocation
  <2>2. \A j \in l + 1 .. r + 1 : j \in l + 1 .. r \/ j = r + 1
    BY <1>1, <1>9
  <2> QED
    BY <1>5, <2>1, <2>2
<1>11. LocationLinesTo(l, r + 1) = LocationLinesTo(l, r) \cup {r + 1}
  <2>1. r + 1 > l
    BY <1>1, <1>9
  <2>2. r + 1 \in LocationLines(l)
    BY <1>1, <1>6, <1>9, <1>10, <2>1 DEF LocationLines, Closings
  <2> QED
    BY <1>1, <2>2, NextLocationLines
<1>12. DeclaredIn(temp_location_map', LocationLinesTo(l, r + 1), Argument)
  <2>1. /\ LocationLinesTo(l, r) \subseteq Nat /\ \A i \in LocationLinesTo(l, r) : i < r + 1
    BY <1>1 DEF LocationLinesTo, LocationLines, FileIsVector
  <2>2. DeclaredIn(temp_location_map, LocationLinesTo(l, r), Argument)
    BY <1>2 DEF InLocation
  <2>3. DeclaredIn(Insert(temp_location_map, FirstWord(r + 1), Argument[r + 1]),
                   LocationLinesTo(l, r) \cup {r + 1}, Argument)
    BY <1>1, <2>1, <2>2, NextDirective
  <2> QED
    BY <1>3, <1>4, <1>11, <2>3
<1>13. LocationsSaid(temp_locations, n, LocationsTo(n, r + 1) \ {l}, r + 1)
  <2>1. LocationsTo(n, r) \ {l} \subseteq Nat
    BY <1>7
  <2>2. LocationsSaid(temp_locations, n, LocationsTo(n, r) \ {l}, r)
    BY <1>2 DEF InLocation
  <2> QED
    BY <1>1, <1>7, <2>1, <2>2, LocationsStay
<1>14. /\ block = "location" /\ block' = block /\ m_server_conf' = m_server_conf
       /\ temp_conf' = temp_conf /\ temp_locations' = temp_locations
       /\ location_key' = location_key /\ server_max_size' = server_max_size
  BY DEF ReadLocationDirective, serverVars, Directive, InBlock
<1>15. /\ l \in LocationsTo(n, r + 1) /\ location_key = file[l][2]
       /\ server_max_size = Inherited(n, l)[1]
  BY <1>2, <1>7 DEF InLocation
<1> HIDE DEF n
<1>16. InLocation(l, n, r + 1, temp_locations', location_key', temp_location_map', server_max_size')
  BY <1>9, <1>10, <1>12, <1>13, <1>14, <1>15 DEF InLocation
<1> QED
  BY <1>1, <1>6, <1>7, <1>8, <1>14, <1>15, <1>16 DEF Known, Reader

LEMMA CloseLocationKnown ==
  ASSUME NEW r, AtLine(r), CloseLocation, rest # <<>>, Servers(m_server_conf)
  PROVE  Known(r + 1)
<1> DEFINE n == ServerOf(r)
<1>1. /\ FileIsVector /\ Balanced /\ r \in Nat /\ r + 1 \in Places
      /\ Len(m_server_conf) = n - 1 /\ Depth(r) = 2
      /\ DeclaredIn(temp_conf, ServerLinesTo(n, r), Arguments)
  BY DEF AtLine, Reader, CloseLocation, Closing
<1>2. PICK l \in LocationsTo(n, r) :
        InLocation(l, n, r, temp_locations, location_key, temp_location_map, server_max_size)
  BY DEF AtLine, Reader, CloseLocation, Closing
<1>3. FirstWord(r + 1) = CloseBrace
  BY DEF AtLine, CloseLocation, Closing, Starts
<1>4. /\ ServerOf(r + 1) = n /\ Depth(r + 1) = 1 /\ n \in Nat
      /\ FirstWord(r + 1) # "location" /\ FirstWord(r + 1) \notin Directives
  <2>1. FirstWord(r + 1) # "server" /\ FirstWord(r + 1) # "location"
    BY <1>3, Braces
  <2>2. FirstWord(r + 1) \notin Directives
    BY <1>3, Zenon DEF Directives, CloseBrace
  <2> QED
    BY <1>1, <1>3, <2>1, <2>2, LineStep
<1>5. /\ ServerLinesTo(n, r + 1) = ServerLinesTo(n, r) \cup {r + 1}
      /\ LocationsTo(n, r + 1) = LocationsTo(n, r)
  BY <1>1, <1>4, NextServerLines, NextLocations
<1>6. \A k \in 1 .. Len(m_server_conf) : ServerSaid(m_server_conf[k], k, r + 1)
  <2>1. \A k \in 1 .. Len(m_server_conf) : ServerOf(r + 1) # k
    BY <1>1, <1>4
  <2> QED
    BY <2>1, ListStays
<1>7. DeclaredIn(temp_conf, ServerLinesTo(n, r + 1), Arguments)
  BY <1>1, <1>4, <1>5, NoDirective
<1>8. /\ block' = "server" /\ m_server_conf' = m_server_conf /\ temp_conf' = temp_conf
      /\ temp_locations' = Insert(temp_locations, location_key, Location(temp_location_map))
  BY DEF CloseLocation
<1>9. LocationsSaid(temp_locations', n, LocationsTo(n, r + 1), r + 1)
  BY <1>1, <1>2, <1>3, <1>5, <1>8, LocationEnds
<1> HIDE DEF n
<1> QED
  BY <1>1, <1>4, <1>6, <1>7, <1>8, <1>9 DEF Known, Reader

\* A balanced file ends where all its blocks have ended.
LEMMA EndsOnTop ==
  ASSUME FileIsVector, Balanced PROVE Depth(Len(file)) = 0
<1>1. CASE file = <<>>
  BY <1>1, NoLines, EmptySequence, SequenceDomain DEF FileIsVector
<1>2. CASE file # <<>>
  BY <1>2 DEF Balanced
<1> QED
  BY <1>1, <1>2

LEMMA ReaderPrimed ==
  ASSUME file' = file, file \in ConfigFiles, NEW r \in 0 .. Len(file), Unread(r)',
         block' = "listening" => r = Len(file),
         Balanced /\ Reading' => Known(r)
  PROVE  ReaderInv'
<1>1. ASSUME Balanced', Reading'
      PROVE  Reader(r, block, m_server_conf, temp_conf, temp_locations, location_key,
                    temp_location_map, server_max_size)'
  <2>1. Known(r)
    BY <1>1, SameLines
  <2> QED
    BY <2>1, SameReader DEF Known
<1> QED
  BY <1>1 DEF ReaderInv

LEMMA LineActionReader ==
  ASSUME VectorsInv, file \in ConfigFiles, NEW r \in 0 .. Len(file), Unread(r),
         Balanced => Reader(r, block, m_server_conf, temp_conf, temp_locations, location_key,
                            temp_location_map, server_max_size),
         rest # <<>>,
         \/ ReadServer \/ SkipBlank \/ ReadDirective \/ ReadLocation \/ CloseServer
         \/ ReadLocationDirective \/ CloseLocation
  PROVE  ReaderInv'
<1>1. file' = file /\ NextLine /\ block' # "listening"
  BY DEF ReadServer, SkipBlank, ReadDirective, ReadLocation, CloseServer,
         ReadLocationDirective, CloseLocation, Directive, InBlock
<1>2. FileIsVector /\ Len(file) \in Nat /\ Places = 1 .. Len(file) /\ r \in Nat /\ r <= Len(file)
  BY FilesAreVectors DEF FileIsVector
<1>3. /\ r + 1 \in Places /\ Line = file[r + 1] /\ Unread(r + 1)'
      /\ FirstWord(r + 1) = IF Line = <<>> THEN "" ELSE Line[1]
  BY <1>1, <1>2, LineRead
<1>4. ASSUME Balanced PROVE Known(r + 1)
  <2>1. AtLine(r)
    BY <1>2, <1>3, <1>4 DEF AtLine
  <2>2. Servers(m_server_conf) /\ IsLine(Line)
    BY ReadLine DEF VectorsInv
  <2> QED
    BY <2>1, <2>2, ReadServerKnown, SkipBlankKnown, ReadDirectiveKnown, ReadLocationKnown,
       CloseServerKnown, ReadLocationDirectiveKnown, CloseLocationKnown
<1>5. r + 1 \in 0 .. Len(file)
  <2>1. r + 1 \in 1 .. Len(file)
    BY <1>2, <1>3
  <2> QED
    BY <1>2, <2>1
<1> QED
  BY <1>1, <1>3, <1>4, <1>5, ReaderPrimed

LEMMA ConfigReader ==
  ASSUME ReaderInv, VectorsInv, ConfigNext PROVE ReaderInv'
<1>1. PICK r \in 0 .. Len(file) :
        /\ Unread(r)
        /\ block = "listening" => r = Len(file)
        /\ Balanced /\ Reading =>
             Reader(r, block, m_server_conf, temp_conf, temp_locations, location_key,
                    temp_location_map, server_max_size)
  BY DEF ReaderInv
<1>2. /\ FileIsVector /\ Len(file) \in Nat /\ r \in Nat /\ r <= Len(file)
      /\ file \in ConfigFiles
  BY FilesAreVectors DEF FileIsVector, ReaderInv
<1>3. rest = <<>> => r = Len(file)
  BY <1>1, <1>2, LineRead
<1>4. CASE \/ ReadServer \/ SkipBlank \/ ReadDirective \/ ReadLocation
           \/ ReadLocationDirective \/ (rest # <<>> /\ (CloseServer \/ CloseLocation))
  <2>1. rest # <<>> /\ Reading
    BY <1>4 DEF ReadServer, SkipBlank, ReadDirective, ReadLocation, CloseServer,
         ReadLocationDirective, CloseLocation, Directive, InBlock, Closing, Reading
  <2> QED
    BY <1>1, <1>2, <1>4, <2>1, LineActionReader
<1>5. CASE rest = <<>> /\ (CloseServer \/ CloseLocation)
  <2>1. /\ Reading /\ file' = file /\ block' # "listening" /\ rest' = <<>>
        /\ block = "server" \/ block = "location"
    BY <1>5 DEF CloseServer, CloseLocation, Closing, Reading, NextLine
  <2>2. ~Balanced
    <3> SUFFICES ASSUME Balanced PROVE FALSE
      OBVIOUS
    <3>1. Depth(r) = 0
      BY <1>2, <1>3, <1>5, EndsOnTop
    <3>2. Reader(r, block, m_server_conf, temp_conf, temp_locations, location_key,
                 temp_location_map, server_max_size)
      BY <1>1, <2>1
    <3> QED
      BY <2>1, <3>1, <3>2 DEF Reader
  <2>3. Unread(r)'
    BY <1>1, <1>5, <2>1 DEF Unread
  <2> QED
    BY <1>2, <2>1, <2>2, <2>3, ReaderPrimed
<1>6. CASE RefuseLine \/ RefuseBlock \/ ReadBeyondLine \/ RefuseStart
  <2>1. file' = file /\ rest' = rest /\ (block' = "exit" \/ block' = "undefined")
    BY <1>6 DEF RefuseLine, RefuseBlock, ReadBeyondLine, RefuseStart, Halt
  <2>2. ~Reading' /\ block' # "listening"
    BY <2>1 DEF Reading
  <2>3. Unread(r)'
    BY <1>1, <2>1 DEF Unread
  <2> QED
    BY <1>2, <2>1, <2>2, <2>3, ReaderPrimed
<1>7. CASE Listen
  <2>1. /\ file' = file /\ rest' = rest /\ block = "top" /\ block' = "listening" /\ rest = <<>>
        /\ UNCHANGED <<m_server_conf, temp_conf, temp_locations, location_key,
                       temp_location_map, server_max_size>>
    BY <1>7 DEF Listen, Halt, serverVars, locationVars
  <2>2. ASSUME Balanced PROVE Known(r)
    <3>1. Reader(r, block, m_server_conf, temp_conf, temp_locations, location_key,
                 temp_location_map, server_max_size)
      BY <1>1, <2>1, <2>2 DEF Reading
    <3> QED
      BY <2>1, <3>1 DEF Known, Reader
  <2>3. Unread(r)'
    BY <1>1, <2>1 DEF Unread
  <2>4. block' = "listening" => r = Len(file)
    BY <1>3, <2>1
  <2> QED
    BY <1>2, <2>1, <2>2, <2>3, <2>4, ReaderPrimed
<1> QED
  BY <1>4, <1>5, <1>6, <1>7 DEF ConfigNext

LEMMA NextReader == ReaderInv /\ VectorsInv /\ [WebservNext]_webservVars => ReaderInv'
<1> SUFFICES ASSUME ReaderInv, VectorsInv, [WebservNext]_webservVars PROVE ReaderInv'
  OBVIOUS
<1>1. CASE ReadConfig
  BY <1>1, ConfigReader DEF ReadConfig
<1>2. CASE UNCHANGED configVars
  <2>1. PICK r \in 0 .. Len(file) :
          /\ Unread(r)
          /\ block = "listening" => r = Len(file)
          /\ Balanced /\ Reading =>
               Reader(r, block, m_server_conf, temp_conf, temp_locations, location_key,
                      temp_location_map, server_max_size)
    BY DEF ReaderInv
  <2>2. /\ UNCHANGED <<file, rest, block, m_server_conf, temp_conf, temp_locations>>
        /\ UNCHANGED <<location_key, temp_location_map, server_max_size>>
    BY <1>2 DEF configVars, serverVars, locationVars
  <2>3. Balanced /\ Reading' => Known(r)
    BY <2>1, <2>2 DEF Reading, Known
  <2>4. Unread(r)' /\ file \in ConfigFiles
    BY <2>1, <2>2 DEF Unread, ReaderInv
  <2> QED
    BY <2>1, <2>2, <2>3, <2>4, ReaderPrimed
<1> QED
  BY <1>1, <1>2
  DEF WebservNext, webservVars, Start, Process, RespondFile, RespondUpload, RespondInline,
      RespondCgi, RespondTimeout, Respond, CloseConnection

LEMMA InitReader == WebservInit => ReaderInv
<1> SUFFICES ASSUME WebservInit PROVE ReaderInv
  OBVIOUS
<1>1. /\ file \in ConfigFiles /\ rest = file /\ block = "top" /\ m_server_conf = <<>>
  BY DEF WebservInit, ConfigInit
<1>2. FileIsVector /\ Len(file) \in Nat
  BY <1>1, FilesAreVectors DEF FileIsVector
<1>3. Unread(0)
  <2>1. \A i \in 1 .. Len(file) : 0 + i = i
    BY <1>2
  <2> QED
    BY <1>1, <1>2, <2>1 DEF Unread
<1>4. Reader(0, block, m_server_conf, temp_conf, temp_locations, location_key,
             temp_location_map, server_max_size)
  BY <1>1, NoLines, EmptySequence, SequenceDomain DEF Reader
<1> QED
  BY <1>1, <1>2, <1>3, <1>4 DEF ReaderInv

\* The error pages, which Meant leaves to what the client is told.
PagesMeant ==
  \A n \in DOMAIN m_server_conf : m_server_conf[n].error_page_vector = PageSaid(n, Len(file))

\* With all lines read, what the lines up to there say is what the file means.
LEMMA ReadAsMeant ==
  ASSUME ReaderInv, VectorsInv, Balanced,
         block = "listening" \/ (block = "top" /\ rest = <<>>)
  PROVE  Meant /\ PagesMeant
<1> DEFINE r == Len(file)
<1>1. FileIsVector /\ Len(file) \in Nat /\ DOMAIN m_server_conf = 1 .. Len(m_server_conf)
  BY FilesAreVectors, SequenceDomain DEF ReaderInv, VectorsInv, Servers, FileIsVector
<1>2. Reader(r, block, m_server_conf, temp_conf, temp_locations, location_key,
             temp_location_map, server_max_size)
  <2>1. PICK s \in 0 .. Len(file) :
          /\ Unread(s)
          /\ block = "listening" => s = Len(file)
          /\ Balanced /\ Reading =>
               Reader(s, block, m_server_conf, temp_conf, temp_locations, location_key,
                      temp_location_map, server_max_size)
    BY DEF ReaderInv
  <2>2. rest = <<>> => s = Len(file)
    BY <1>1, <2>1, LineRead
  <2> QED
    BY <2>1, <2>2 DEF Reading
<1>3. /\ Len(m_server_conf) = ServerOf(r)
      /\ \A n \in DOMAIN m_server_conf : ServerSaid(m_server_conf[n], n, r)
  BY <1>1, <1>2 DEF Reader
<1>4. \A i \in Places : i <= r
  BY <1>1 DEF FileIsVector
<1> HIDE DEF r
<1>5. /\ \A n : ServerLinesTo(n, r) = ServerLines(n) /\ LocationsTo(n, r) = LocationsOf(n)
      /\ \A l : LocationLinesTo(l, r) = LocationLines(l)
  BY <1>4 DEF ServerLinesTo, ServerLines, LocationsTo, LocationsOf, LocationLinesTo, LocationLines
<1>6. ASSUME NEW n \in DOMAIN m_server_conf, NEW l \in LocationsOf(n),
             \A k \in LocationsOf(n) : file[k][2] = file[l][2] => l <= k
      PROVE  LET Of(key, absent) == Declared(LocationLines(l), key, <<absent>>)[1]
             IN m_server_conf[n].locations[file[l][2]] =
                  [accepted_method |-> Of("accepted_method", {}),
                   root |-> Of("root", <<>>),
                   index |-> Of("index", ""), auto_index |-> Of("auto_index", ""),
                   ourcgi_pass |-> Of("ourcgi_pass", <<>>),
                   ourcgi_index |-> Of("ourcgi_index", ""),
                   redirection |-> Of("redirection", ""),
                   max_body_size |-> Of("max_body_size", Inherited(n, l)[1])]
  <2>1. m_server_conf[n].locations[file[l][2]] = LocationSaid(n, l, r)
    BY <1>3, <1>5, <1>6 DEF ServerSaid, LocationsSaid, FirstOfKey
  <2> QED
    BY <1>5, <2>1 DEF LocationSaid
<1>7. ASSUME NEW n \in DOMAIN m_server_conf
      PROVE  LET server == m_server_conf[n]
                 names == Declared(ServerLines(n), "server_name", <<>>) IN
             /\ server.listen = Declared(ServerLines(n), "listen", <<>>)
             /\ server.max_body_size = Declared(ServerLines(n), "max_body_size", <<>>)
             /\ server.server_name = IF names = <<>> THEN Unnamed ELSE names[1]
             /\ DOMAIN server.locations = {file[l][2] : l \in LocationsOf(n)}
  BY <1>3, <1>5 DEF ServerSaid, LocationsSaid
<1>8. Meant
  BY <1>3, <1>6, <1>7 DEF Meant, r
<1>9. PagesMeant
  BY <1>3 DEF PagesMeant, ServerSaid, r
<1> QED
  BY <1>8, <1>9

\* The server that listens has the configuration its file means (content.cpp:27
\* and :175, Config.cpp:21): whatever the files are, if their blocks are balanced.
THEOREM AlwaysAsWritten == WebservSpec => AsWritten
<1>1. WebservInit => ReaderInv /\ VectorsInv
  BY InitReader, InitVectors
<1>2. ReaderInv /\ VectorsInv /\ [WebservNext]_webservVars => ReaderInv' /\ VectorsInv'
  BY NextReader, NextVectors
<1>3. ReaderInv /\ VectorsInv /\ [WebservNext]_webservVars
        => [block # "listening" /\ block' = "listening" /\ Balanced => Meant]_configVars
  <2> SUFFICES ASSUME ReaderInv, VectorsInv, [WebservNext]_webservVars,
                      block # "listening", block' = "listening", Balanced
               PROVE  Meant
    OBVIOUS
  <2>1. Listen
    BY DEF WebservNext, webservVars, configVars, ReadConfig, ConfigNext, Start, Process,
           RespondFile, RespondUpload, RespondInline, RespondCgi, RespondTimeout, Respond,
           CloseConnection, ReadServer, SkipBlank, ReadDirective, ReadLocation, CloseServer,
           ReadLocationDirective, CloseLocation, RefuseLine, RefuseBlock, ReadBeyondLine,
           RefuseStart, Halt, Directive, InBlock
  <2> QED
    BY <2>1, ReadAsMeant DEF Listen
<1> QED
  BY <1>1, <1>2, <1>3, PTL DEF WebservSpec, AsWritten

(***************************************************************************)
(* What the client is told, from the lines of the file to the message: the *)
(* response says what the server found says, and the message says what the *)
(* response says.                                                          *)
(***************************************************************************)
\* The requests are served with the servers that were read, and nothing is read
\* any more.
ServingInv == pc # "start" => block = "listening" /\ servers = m_server_conf

LEMMA NextServing == ServingInv /\ [WebservNext]_webservVars => ServingInv'
<1> SUFFICES ASSUME ServingInv, [WebservNext]_webservVars PROVE ServingInv'
  OBVIOUS
<1>1. CASE Start
  BY <1>1 DEF Start, Serve, configVars, ServingInv
<1>2. CASE ReadConfig
  <2>1. block # "listening" /\ pc' = pc
    BY <1>2 DEF ReadConfig, ConfigNext, ReadServer, SkipBlank, ReadDirective, ReadLocation,
         CloseServer, ReadLocationDirective, CloseLocation, RefuseLine, RefuseBlock,
         ReadBeyondLine, Listen, RefuseStart, Directive, InBlock, Closing, Unknown, vars
  <2> QED
    BY <2>1 DEF ServingInv
<1>3. CASE Next /\ UNCHANGED configVars
  <2>1. pc # "start" /\ servers' = servers
    BY <1>3
    DEF Next, NextRequest, FindServerOfRequest, BadRequest, PathFinderThrows, CgiHandler,
        GetMethodHandler, UploadHandler, DeleteMethodHandler, MethodNotAllowed, Accepted, Answer
  <2> QED
    BY <1>3, <2>1 DEF configVars, ServingInv
<1>4. CASE UNCHANGED <<configVars, vars>>
  BY <1>4 DEF configVars, vars, ServingInv
<1> QED
  BY <1>1, <1>2, <1>3, <1>4
  DEF WebservNext, webservVars, Process, RespondFile,
      RespondUpload, RespondInline, RespondCgi, RespondTimeout, Respond, CloseConnection

\* The codes of ServerFinder and of PathFinder, and whereto PathFinder redirects.
LEMMA FindServerCodes ==
  ASSUME NEW list, NEW host
  PROVE  FindServer(list, host).status
           \in {"OK_200", "BAD_REQUEST_400", "NOT_FOUND_404", "undefined"}
<1>1. \A code : Refused(code).status = code
  BY DEF Refused
<1>2. \A server : Found(server).status = "OK_200"
  BY DEF Found
<1>3. \A port : FirstCandidate(list, port).status \in {"OK_200", "undefined"}
  BY <1>1, <1>2 DEF FirstCandidate
<1> QED
  BY <1>1, <1>2, <1>3, Zenon DEF FindServer, find_server_name

Redirects(r, locations) ==
  /\ r.status_code \in {"OK_200", "NOT_FOUND_404", "PAYLOAD_TOO_LARGE_413", "BAD_GATEWAY_502"}
  /\ r.redirection_exist =>
       \E key \in DOMAIN locations : r.rediretion_location = locations[key].redirection

LEMMA ThrowRedirects ==
  ASSUME NEW locations,
         NEW code \in {"NOT_FOUND_404", "PAYLOAD_TOO_LARGE_413", "BAD_GATEWAY_502"}
  PROVE  Redirects(Throw(code), locations)
  BY DEF Redirects, Throw, Response0

LEMMA SetBasicRedirects ==
  ASSUME NEW d, NEW req, NEW locations, NEW key \in DOMAIN locations, NEW dir, NEW name
  PROVE  Redirects(SetBasic(d, req, locations[key], dir, name), locations)
<1> DEFINE l == locations[key]
           r == setBasic(d, l, dir, name)
<1>1. r.status_code = "OK_200" /\ r.rediretion_location = l.redirection
  BY DEF setBasic, setIndex, Response0
<1> HIDE DEF r
<1> QED
  BY <1>1, ThrowRedirects DEF SetBasic, Redirects, r

LEMMA SetCgiRedirects ==
  ASSUME NEW d, NEW server, NEW req
  PROVE  Redirects(setCgi(d, server, req), server.locations)
<1> DEFINE l == server.locations[Extension[Last(req.uri)]]
           r == [Response0 EXCEPT !.cgi_flag = TRUE, !.accepted_method = l.accepted_method]
           s == setIndex(d, l.root, l.ourcgi_index, l.index, r)
<1>1. s.status_code = "OK_200" /\ s.redirection_exist = FALSE
  BY DEF setIndex, Response0
<1>2. Redirects(s, server.locations)
  BY <1>1 DEF Redirects
<1> HIDE DEF s
<1> QED
  BY <1>2, ThrowRedirects DEF setCgi, s

LEMMA PathFinderRedirects ==
  ASSUME NEW d, NEW server, NEW req
  PROVE  Redirects(PathFinder(d, server, req), server.locations)
<1>1. ASSUME NEW key \in DOMAIN server.locations, NEW path
      PROVE  Redirects(isEndWith(d, req, server.locations[key], path), server.locations)
  BY SetBasicRedirects DEF isEndWith
<1>2. Head(req.uri) \in DOMAIN server.locations
        => Redirects(NamedLocation(d, server, req), server.locations)
  BY <1>1, SetBasicRedirects DEF NamedLocation
<1>3. Redirects(DefaultLocation(d, server, req), server.locations)
  <2>1. CASE "/" \in DOMAIN server.locations
    BY <1>1, <2>1, SetBasicRedirects, ThrowRedirects DEF DefaultLocation
  <2>2. CASE "/" \notin DOMAIN server.locations
    BY <2>2, ThrowRedirects DEF DefaultLocation
  <2> QED
    BY <2>1, <2>2
<1> QED
  BY <1>2, <1>3, SetCgiRedirects, ThrowRedirects DEF PathFinder

LEMMA LocatedRedirects ==
  /\ Redirects(Located, found.server.locations)
  /\ Located.redirection_exist => request.method = "GET"
  /\ DOMAIN Located = DOMAIN Response0
<1>1. Located = [Unredirected EXCEPT !.redirection_exist = @ /\ request.method = "GET"]
  BY DEF Located, Unredirected
<1>2. Redirects(Unredirected, found.server.locations) /\ DOMAIN Unredirected = DOMAIN Response0
  BY PathFinderRedirects, PathFinderUntouched DEF Unredirected, Untouched
<1> QED
  BY <1>1, <1>2 DEF Redirects, Response0

\* What a finished Response says, and what was opened for it.
TellsAsFound(r) ==
  /\ r.status_code # "FOUND_302"
  /\ r.redirection_exist =>
       /\ request.method = "GET"
       /\ \E key \in DOMAIN found.server.locations :
            r.rediretion_location = found.server.locations[key].redirection
  /\ r.static_read_file_fd # NoPath => r.status_code = "OK_200"
  /\ r.static_write_file_fd # NoPath => request.method \in {"POST", "PUT"}

TellInv ==
  /\ IInv
  /\ pc \in {"find", "process"} => request.status # "FOUND_302"
  /\ pc = "read" => TellsAsFound(response)

LEMMA LocatedTells ==
  /\ TellsAsFound(Located) /\ \A code : code # "FOUND_302" => TellsAsFound(Code(Located, code))
  /\ Located.static_read_file_fd = NoPath
  BY LocatedRedirects, LocatedFields DEF TellsAsFound, Redirects, Code, Response0

LEMMA NextTells ==
  ASSUME TellInv, Next, IInv' PROVE TellInv'
<1>1. CASE NextRequest
  <2>1. request' \in Requests /\ pc' = "find"
    BY <1>1 DEF NextRequest
  <2> QED
    BY <2>1, RequestsAssumption DEF TellInv
<1>2. CASE FindServerOfRequest
  <2>1. request'.status # "FOUND_302" /\ pc' # "read"
    <3>1. found'.status \in {"OK_200", "BAD_REQUEST_400", "NOT_FOUND_404", "undefined"}
      BY <1>2, FindServerCodes DEF FindServerOfRequest
    <3>2. request.status # "FOUND_302"
      BY <1>2 DEF FindServerOfRequest, TellInv
    <3>3. request' = request \/ request' = [request EXCEPT !.status = found'.status]
      BY <1>2 DEF FindServerOfRequest
    <3>4. pc' # "read"
      BY <1>2 DEF FindServerOfRequest
    <3>5. [request EXCEPT !.status = found'.status].status \in {found'.status, request.status}
      OBVIOUS
    <3> QED
      BY <3>1, <3>2, <3>3, <3>4, <3>5
  <2> QED
    BY <2>1 DEF TellInv
<1>3. ASSUME NEW r, NEW d, Answer(r, d), TellsAsFound(r) PROVE TellInv'
  <2>1. response' = r /\ pc' = "read" /\ UNCHANGED <<request, found>>
    BY <1>3 DEF Answer
  <2> QED
    BY <1>3, <2>1 DEF TellInv, TellsAsFound
<1>4. CASE BadRequest
  <2>1. request.status # "FOUND_302" /\ response = Response0
    BY <1>4 DEF BadRequest, TellInv, IInv
  <2>2. \A code : code # "FOUND_302" => TellsAsFound(Code(Response0, code))
    BY DEF TellsAsFound, Code, Response0
  <2> QED
    BY <1>3, <1>4, <2>1, <2>2 DEF BadRequest
<1>5. CASE PathFinderThrows
  BY <1>3, <1>5, LocatedTells DEF PathFinderThrows
<1>6. CASE CgiHandler
  <2>1. TellsAsFound([Located EXCEPT !.cgi_child_pid = TRUE])
    BY LocatedTells, LocatedRedirects DEF TellsAsFound, Response0
  <2>2. TellsAsFound([Code(Located, "NOT_IMPLEMENTED_501") EXCEPT !.cgi_flag = FALSE])
    BY LocatedTells, LocatedRedirects DEF TellsAsFound, Code, Response0
  <2> QED
    BY <1>3, <1>6, <2>1, <2>2 DEF CgiHandler
<1>7. CASE GetMethodHandler
  <2>1. Located.status_code = "OK_200"
    BY <1>7 DEF GetMethodHandler, Accepted
  <2>2. TellsAsFound([Located EXCEPT !.static_read_file_fd = Target(Located)])
    BY <2>1, LocatedTells, LocatedRedirects DEF TellsAsFound, Response0
  <2> QED
    BY <1>3, <1>7, <2>2, LocatedTells DEF GetMethodHandler
<1>8. CASE UploadHandler
  <2> DEFINE target == Append(Located.file_path, UploadName(Located))
             named == [Located EXCEPT !.file_name = UploadName(Located)]
             stored == [named EXCEPT !.static_write_file_fd = target]
  <2>1. request.method \in {"POST", "PUT"}
    BY <1>8 DEF UploadHandler, Accepted
  <2>2. TellsAsFound(stored)
    BY <2>1, LocatedTells, LocatedRedirects DEF TellsAsFound, Response0
  <2>3. TellsAsFound(Code(named, "INTERNAL_SERVER_ERROR_500"))
    BY LocatedTells, LocatedRedirects DEF TellsAsFound, Code, Response0
  <2>4. \/ Answer(Code(Located, "BAD_REQUEST_400"), disk)
        \/ Answer(Code(named, "INTERNAL_SERVER_ERROR_500"), disk)
        \/ Answer(stored, [disk EXCEPT !.files = @ \cup {target}])
    BY <1>8 DEF UploadHandler
  <2> HIDE DEF target, named, stored
  <2> QED
    BY <1>3, <2>2, <2>3, <2>4, LocatedTells
<1>9. CASE DeleteMethodHandler
  BY <1>3, <1>9, LocatedTells DEF DeleteMethodHandler
<1>10. CASE MethodNotAllowed
  <2>1. TellsAsFound([Code(Located, "METHOD_NOT_ALLOWED_405") EXCEPT !.cgi_flag = FALSE])
    BY LocatedTells, LocatedRedirects DEF TellsAsFound, Code, Response0
  <2> QED
    BY <1>3, <1>10, <2>1 DEF MethodNotAllowed
<1> QED
  BY <1>1, <1>2, <1>4, <1>5, <1>6, <1>7, <1>8, <1>9, <1>10 DEF Next

LEMMA WebservTells == TellInv /\ [WebservNext]_webservVars => TellInv'
<1> SUFFICES ASSUME TellInv, [WebservNext]_webservVars PROVE TellInv'
  OBVIOUS
<1>1. UNCHANGED vars \/ Next \/ Start
  BY WebservSteps DEF webservVars
<1>2. CASE UNCHANGED vars
  BY <1>2 DEF TellInv, IInv, TellsAsFound, vars
<1>3. CASE Start
  BY <1>3, RequestsAssumption DEF TellInv, IInv, Start, Serve
<1> QED
  BY <1>1, <1>2, <1>3, NextTells, NextIInv DEF TellInv

\* The message that is there was made of what the request came to.
Told ==
  message = generateResponseMessage(request, response, found.server.error_page_vector,
                                    content, FALSE)

ToldInv ==
  /\ pc # "read" => ~Sent
  /\ Sent /\ ~response.cgi_flag =>
       /\ Told
       /\ response.status_code # "OK_200" => content = <<>>
       /\ Listing => content = autoIndexToBody(response.file_path)

LEMMA NextTold == TellInv /\ ToldInv /\ [WebservNext]_webservVars => ToldInv'
<1> SUFFICES ASSUME TellInv, ToldInv, [WebservNext]_webservVars PROVE ToldInv'
  OBVIOUS
<1>1. ASSUME message' = NoMessage \/ message' = Closed PROVE ToldInv'
  <2>1. NoMessage.status = "none" /\ Closed.status = "closed"
    BY DEF NoMessage, Closed
  <2>2. ~Sent'
    BY <1>1, <2>1 DEF Sent
  <2> QED
    BY <2>2 DEF ToldInv
<1>2. ASSUME UNCHANGED <<disk, response>>
       PROVE  autoIndexToBody(response.file_path)' = autoIndexToBody(response.file_path)
  <2>1. \A dir : Entries(dir)' = Entries(dir)
    BY <1>2 DEF Entries
  <2>2. \A dir : autoIndexToBody(dir)' = autoIndexToBody(dir)
    BY <1>2, <2>1 DEF autoIndexToBody
  <2> QED
    BY <1>2, <2>2
<1>3. CASE Process \/ CloseConnection
  BY <1>1, <1>3 DEF Process, CloseConnection
<1>4. CASE Start
  BY <1>4 DEF Start, Serve, ToldInv, Sent, answerVars
<1>5. CASE UNCHANGED <<vars, answerVars>>
  <2>1. /\ UNCHANGED <<message, content, request, response, found, disk, pc>>
    BY <1>5 DEF vars, answerVars
  <2> QED
    BY <1>2, <2>1 DEF ToldInv, Told, Sent, Listing
<1>6. ASSUME NEW body, NEW timeout, Respond(body, timeout),
             ~response.cgi_flag =>
               /\ timeout = FALSE
               /\ response.status_code # "OK_200" => body = <<>>
               /\ Listing => body = autoIndexToBody(response.file_path)
      PROVE  ToldInv'
  <2>1. /\ pc' = "read" /\ UNCHANGED <<request, response, found, disk>> /\ content' = body
        /\ message' = generateResponseMessage(request, response,
                         found.server.error_page_vector, body, timeout)
    BY <1>6 DEF Respond, vars
  <2> QED
    BY <1>6, <1>2, <2>1 DEF ToldInv, Told, Listing
<1>7. CASE RespondCgi \/ RespondTimeout
  BY <1>6, <1>7 DEF RespondCgi, RespondTimeout
<1>8. CASE RespondFile
  <2>1. PICK body : Respond(body, FALSE)
    BY <1>8 DEF RespondFile
  <2>2. pc = "read" /\ response.static_read_file_fd # NoPath
    BY <1>8, <2>1 DEF RespondFile, Respond
  <2> QED
    BY <1>6, <2>1, <2>2 DEF TellInv, TellsAsFound, Listing
<1>9. CASE RespondUpload
  <2>1. pc = "read" /\ response.static_write_file_fd # NoPath
    BY <1>9 DEF RespondUpload, Respond
  <2>2. ~Listing
    BY <2>1 DEF TellInv, TellsAsFound, Listing
  <2> QED
    BY <1>6, <1>9, <2>2 DEF RespondUpload
<1>10. CASE RespondInline
  <2>1. Listing => response.status_code = "OK_200"
    BY DEF Listing
  <2> QED
    BY <1>6, <1>10, <2>1 DEF RespondInline
<1> QED
  BY <1>3, <1>4, <1>5, <1>7, <1>8, <1>9, <1>10 DEF WebservNext, webservVars, ReadConfig

\* What generateResponseMessage says without a CGI program.
MessageIs(m, req, r, page, body) ==
  /\ r.redirection_exist =>
       m.status = "FOUND_302" /\ m.body = <<>> /\ m.location = r.rediretion_location
  /\ ~r.redirection_exist =>
       /\ m.status = r.status_code /\ m.location = ""
       /\ r.status_code # "OK_200" /\ req.method # "HEAD" =>
            m.body = IF page # <<>> THEN page ELSE Append(body, <<"error", r.status_code>>)
       /\ r.status_code = "OK_200" /\ req.method # "HEAD" => m.body = body

LEMMA MessageSays ==
  ASSUME NEW req, NEW r, NEW page, NEW body, ~r.cgi_flag, r.status_code # "FOUND_302"
  PROVE  MessageIs(generateResponseMessage(req, r, page, body, FALSE), req, r, page, body)
<1> DEFINE m == generateResponseMessage(req, r, page, body, FALSE)
<1>1. CASE r.redirection_exist
  <2>1. m = Message(req, r, "FOUND_302", getMime(r), <<>>, 1, FALSE)
    BY <1>1 DEF generateResponseMessage
  <2>2. MessageIs(Message(req, r, "FOUND_302", getMime(r), <<>>, 1, FALSE), req, r, page, body)
    BY <1>1 DEF MessageIs, Message, setBody
  <2> QED
    BY <2>1, <2>2
<1>2. CASE ~r.redirection_exist /\ r.status_code = "OK_200"
  <2>1. m = Message(req, r, r.status_code, getMime(r), body, 1, FALSE)
    BY <1>2 DEF generateResponseMessage
  <2>2. MessageIs(Message(req, r, r.status_code, getMime(r), body, 1, FALSE), req, r, page, body)
    BY <1>2 DEF MessageIs, Message, setBody
  <2> QED
    BY <2>1, <2>2
<1>3. CASE ~r.redirection_exist /\ r.status_code # "OK_200"
  <2> DEFINE all == generateErrorBody(r.status_code, page, body)
  <2>1. m = Message(req, r, r.status_code, getMime(r), all, 1, FALSE)
    BY <1>3 DEF generateResponseMessage, generateErrorResponseMessage
  <2>2. MessageIs(Message(req, r, r.status_code, getMime(r), all, 1, FALSE), req, r, page, body)
    BY <1>3 DEF MessageIs, Message, setBody, generateErrorBody
  <2> QED
    BY <2>1, <2>2
<1> QED
  BY <1>1, <1>2, <1>3

\* What the first line of a location of this key says of its redirection.
LEMMA RedirectionDeclared ==
  ASSUME FileIsVector, Meant, NEW n \in DOMAIN m_server_conf,
         NEW key \in DOMAIN m_server_conf[n].locations
  PROVE  \E l \in LocationsOf(n) :
           Declared(LocationLines(l), "redirection", <<"">>)[1]
             = m_server_conf[n].locations[key].redirection
<1> DEFINE L == {l \in LocationsOf(n) : file[l][2] = key}
<1>1. L \subseteq Nat
  BY DEF LocationsOf, FileIsVector
<1>2. DOMAIN m_server_conf[n].locations = {file[l][2] : l \in LocationsOf(n)}
  BY DEF Meant
<1>3. L # {}
  BY <1>2
<1>4. PICK l \in L : \A k \in L : l <= k
  <2> HIDE DEF L
  <2> QED
    BY <1>1, <1>3, LeastNatural
<1>5. /\ l \in LocationsOf(n) /\ file[l][2] = key
      /\ \A k \in LocationsOf(n) : file[k][2] = file[l][2] => l <= k
  BY <1>4
<1> DEFINE Of(name, absent) == Declared(LocationLines(l), name, <<absent>>)[1]
           location == m_server_conf[n].locations[file[l][2]]
<1>6. location =
        [accepted_method |-> Of("accepted_method", {}),
         root |-> Of("root", <<>>),
         index |-> Of("index", ""), auto_index |-> Of("auto_index", ""),
         ourcgi_pass |-> Of("ourcgi_pass", <<>>),
         ourcgi_index |-> Of("ourcgi_index", ""),
         redirection |-> Of("redirection", ""),
         max_body_size |-> Of("max_body_size", Inherited(n, l)[1])]
  BY <1>5 DEF Meant
<1> HIDE DEF Of, location
<1>7. location.redirection = Of("redirection", "")
  BY <1>6
<1> QED
  BY <1>5, <1>7 DEF Of, location

LEMMA ToldIsConfigured ==
  ASSUME ReaderInv, VectorsInv, FoundInv, ServingInv, TellInv, ToldInv
  PROVE  ToldAsConfigured
<1> SUFFICES ASSUME Sent, found.status = "OK_200", Balanced, ~response.cgi_flag
             PROVE  \E n \in ServersOfPort :
                      IF message.status = "FOUND_302"
                        THEN /\ request.method = "GET" /\ message.body = <<>>
                             /\ \E l \in LocationsOf(n) :
                                  Declared(LocationLines(l), "redirection", <<"">>)[1]
                                    = message.location
                      ELSE /\ message.location = ""
                           /\ message.status = response.status_code
                           /\ message.status # "OK_200" /\ request.method # "HEAD" =>
                                message.body = IF Page(n) = <<>>
                                                 THEN <<<<"error", message.status>>>>
                                               ELSE Page(n)
  BY DEF ToldAsConfigured
<1>1. /\ pc = "read" /\ block = "listening" /\ servers = m_server_conf
      /\ Told /\ TellsAsFound(response)
      /\ response.status_code # "OK_200" => content = <<>>
  BY DEF ToldInv, ServingInv, TellInv
<1>2. Meant /\ PagesMeant /\ FileIsVector
  BY <1>1, ReadAsMeant, FilesAreVectors DEF ReaderInv
<1>3. PICK n \in DOMAIN m_server_conf :
        /\ found = Found(m_server_conf[n])
        /\ ServerFor(m_server_conf, m_server_conf[n], request.host.name, request.host.port)
  <2>1. Servers(servers) /\ found = FindServer(servers, request.host)
    BY DEF VectorsInv, FoundInv
  <2> QED
    BY <1>1, <2>1, FindServerIs DEF Refused
<1>4. n \in ServersOfPort
  <2>1. m_server_conf[n].listen = Declared(ServerLines(n), "listen", <<>>)
    BY <1>2 DEF Meant
  <2>2. n \in 1 .. ServerOf(Len(file))
    BY <1>2, SequenceDomain DEF Meant, VectorsInv, Servers
  <2> QED
    BY <1>3, <2>1, <2>2 DEF ServersOfPort, ServerFor
<1>5. found.server = m_server_conf[n]
  BY <1>3 DEF Found
<1>6. found.server.error_page_vector = Page(n)
  <2>1. ServerLinesTo(n, Len(file)) = ServerLines(n)
    BY <1>2 DEF ServerLinesTo, ServerLines, FileIsVector
  <2> QED
    BY <1>2, <1>5, <2>1 DEF PagesMeant, PageSaid, Page
<1>7. MessageIs(message, request, response, Page(n), content)
  BY <1>1, <1>6, MessageSays DEF Told, TellsAsFound
<1>8. CASE response.redirection_exist
  <2>1. message.status = "FOUND_302" /\ message.body = <<>>
        /\ message.location = response.rediretion_location
    BY <1>7, <1>8 DEF MessageIs
  <2>2. PICK key \in DOMAIN m_server_conf[n].locations :
          response.rediretion_location = m_server_conf[n].locations[key].redirection
    BY <1>1, <1>5, <1>8 DEF TellsAsFound
  <2>3. request.method = "GET"
    BY <1>1, <1>8 DEF TellsAsFound
  <2> QED
    BY <1>2, <1>4, <2>1, <2>2, <2>3, RedirectionDeclared
<1>9. CASE ~response.redirection_exist
  <2>1. /\ message.status = response.status_code /\ message.location = ""
        /\ message.status # "FOUND_302"
    BY <1>1, <1>7, <1>9 DEF MessageIs, TellsAsFound
  <2>2. ASSUME message.status # "OK_200", request.method # "HEAD"
        PROVE  message.body = IF Page(n) = <<>> THEN <<<<"error", message.status>>>>
                              ELSE Page(n)
    <3>1. content = <<>>
      BY <1>1, <2>1, <2>2
    <3>2. message.body = IF Page(n) # <<>> THEN Page(n)
                         ELSE Append(content, <<"error", message.status>>)
      BY <1>7, <1>9, <2>1, <2>2 DEF MessageIs
    <3> DEFINE unit == <<"error", message.status>>
    <3>3. Append(<<>>, unit) = <<unit>>
      <4> HIDE DEF unit
      <4> QED
        OBVIOUS
    <3> QED
      BY <3>1, <3>2, <3>3
  <2> QED
    BY <1>4, <2>1, <2>2
<1> QED
  BY <1>8, <1>9

\* The answers say what the configuration file says: whatever the files, the disk
\* and the requests are, an error has the page of a server block that listens on
\* the port, and a redirection is one of its locations (ResponseGenerator.cpp:344,
\* PathFinder.cpp:70, ServerFinder.cpp:35, content.cpp:175).
THEOREM AlwaysToldAsConfigured == WebservSpec => []ToldAsConfigured
<1>1. WebservInit => FoundInv /\ ServingInv /\ TellInv /\ ToldInv
  <2> SUFFICES ASSUME WebservInit PROVE FoundInv /\ ServingInv /\ TellInv /\ ToldInv
    OBVIOUS
  <2>1. pc = "start" /\ found = Refused("none") /\ response = Response0 /\ message = NoMessage
    BY DEF WebservInit, Init
  <2>2. found.status = "none" /\ ~Sent
    BY <2>1 DEF Refused, Sent, NoMessage
  <2> QED
    BY <2>1, <2>2 DEF FoundInv, ServingInv, TellInv, ToldInv, IInv
<1> QED
  BY <1>1, InitReader, InitVectors, NextReader, NextVectors, NextFound, NextServing,
     WebservTells, NextTold, ToldIsConfigured, PTL DEF WebservSpec

(***************************************************************************)
(* Listings. The names of a directory have each a place in the order of    *)
(* std::string; the rank of a name is the number of those up to it. Ranks  *)
(* grow with the places, so that they are one to one, and as many as the   *)
(* names: Sorted takes every name, by its rank.                            *)
(***************************************************************************)
LEMMA PlaceIs ==
  /\ DOMAIN Names = 1 .. Len(Names) /\ Len(Names) \in Nat
  /\ \A n \in ToSet(Names) : Place(n) \in 1 .. Len(Names) /\ Names[Place(n)] = n
  /\ \A i \in 1 .. Len(Names) : Place(Names[i]) = i /\ Names[i] \in ToSet(Names)
<1>1. DOMAIN Names = 1 .. Len(Names) /\ Len(Names) \in Nat
  BY NamesAssumption
<1>2. ASSUME NEW n \in ToSet(Names) PROVE Place(n) \in 1 .. Len(Names) /\ Names[Place(n)] = n
  <2>1. \E i \in DOMAIN Names : Names[i] = n
    BY <1>2 DEF ToSet
  <2> QED
    BY <1>1, <2>1 DEF Place
<1>3. ASSUME NEW i \in 1 .. Len(Names) PROVE Place(Names[i]) = i /\ Names[i] \in ToSet(Names)
  <2>1. Names[i] \in ToSet(Names)
    BY <1>1, <1>3 DEF ToSet
  <2>2. Place(Names[i]) \in 1 .. Len(Names) /\ Names[Place(Names[i])] = Names[i]
    BY <1>2, <2>1
  <2> QED
    BY <1>1, <2>1, <2>2, NamesAssumption
<1> QED
  BY <1>1, <1>2, <1>3

UpTo(S, n) == {m \in S : Place(m) <= Place(n)}
Rank(S, n) == Cardinality(UpTo(S, n))

LEMMA NamesFinite == ASSUME NEW S \in SUBSET ToSet(Names) PROVE IsFiniteSet(S)
<1> DEFINE f == [n \in S |-> Place(n)]
<1>1. \A n, m \in S : Place(n) = Place(m) => n = m
  BY PlaceIs
<1>2. f \in Injection(S, 1 .. Len(Names))
  BY <1>1, PlaceIs DEF Injection, IsInjective
<1>3. IsFiniteSet(1 .. Len(Names))
  BY PlaceIs, FS_Interval
<1> QED
  BY <1>2, <1>3, FS_Injection

LEMMA RankGrows ==
  ASSUME NEW S \in SUBSET ToSet(Names)
  PROVE  /\ \A n \in S : Rank(S, n) \in 1 .. Cardinality(S)
         /\ \A n, k \in S : Place(n) < Place(k) => Rank(S, n) < Rank(S, k)
<1>1. IsFiniteSet(S) /\ Cardinality(S) \in Nat
  BY NamesFinite, FS_CardinalityType
<1>2. \A n \in S : Place(n) \in Nat
  BY PlaceIs
<1>3. ASSUME NEW n \in S
       PROVE  /\ IsFiniteSet(UpTo(S, n)) /\ Rank(S, n) \in 1 .. Cardinality(S)
  <2>1. UpTo(S, n) \in SUBSET S /\ n \in UpTo(S, n)
    BY <1>2 DEF UpTo
  <2>2. IsFiniteSet(UpTo(S, n)) /\ Rank(S, n) <= Cardinality(S)
    BY <1>1, <2>1, FS_Subset DEF Rank
  <2>3. Rank(S, n) \in Nat /\ Rank(S, n) # 0
    BY <2>1, <2>2, FS_CardinalityType, FS_EmptySet DEF Rank
  <2> QED
    BY <1>1, <2>2, <2>3
<1>4. ASSUME NEW n \in S, NEW k \in S, Place(n) < Place(k) PROVE Rank(S, n) < Rank(S, k)
  <2>1. UpTo(S, n) \in SUBSET UpTo(S, k)
    BY <1>2, <1>4 DEF UpTo
  <2>2. k \in UpTo(S, k) /\ k \notin UpTo(S, n)
    BY <1>2, <1>4 DEF UpTo
  <2>3. Rank(S, n) <= Rank(S, k) /\ Rank(S, n) # Rank(S, k)
    BY <1>3, <2>1, <2>2, FS_Subset DEF Rank
  <2>4. Rank(S, n) \in Nat /\ Rank(S, k) \in Nat
    BY <1>1, <1>3
  <2> QED
    BY <2>3, <2>4
<1> QED
  BY <1>3, <1>4

\* Every name is in the list once, at its rank, after those before it.
LEMMA SortedIs ==
  ASSUME NEW S \in SUBSET ToSet(Names)
  PROVE  /\ Cardinality(S) \in Nat /\ DOMAIN Sorted(S) = 1 .. Cardinality(S)
         /\ Len(Sorted(S)) = Cardinality(S)
         /\ \A i \in 1 .. Cardinality(S) : Sorted(S)[i] \in S /\ Rank(S, Sorted(S)[i]) = i
         /\ \A n \in S : Sorted(S)[Rank(S, n)] = n
<1> DEFINE N == Cardinality(S)
           rank == [n \in S |-> Rank(S, n)]
<1>1. IsFiniteSet(S) /\ N \in Nat
  BY NamesFinite, FS_CardinalityType
<1>2. \A n, k \in S : Rank(S, n) = Rank(S, k) => n = k
  <2> SUFFICES ASSUME NEW n \in S, NEW k \in S, Rank(S, n) = Rank(S, k) PROVE n = k
    OBVIOUS
  <2>1. Place(n) \in Nat /\ Place(k) \in Nat
    BY PlaceIs
  <2>2. Rank(S, n) \in Nat /\ ~(Place(n) < Place(k)) /\ ~(Place(k) < Place(n))
    BY <1>1, RankGrows
  <2> QED
    BY <2>1, <2>2, PlaceIs
<1>3. rank \in Injection(S, 1 .. N)
  BY <1>2, RankGrows DEF Injection, IsInjective
<1>4. IsFiniteSet(1 .. N) /\ Cardinality(1 .. N) = N
  BY <1>1, FS_Interval
<1>5. rank \in Surjection(S, 1 .. N)
  BY <1>3, <1>4, FS_Injection
<1>6. ASSUME NEW i \in 1 .. N PROVE \E n \in S : Rank(S, n) = i
  BY <1>5, <1>6 DEF Surjection
<1>7. /\ DOMAIN Sorted(S) = 1 .. N /\ Len(Sorted(S)) = N
      /\ \A i \in 1 .. N : Sorted(S)[i] = CHOOSE n \in S : Rank(S, n) = i
  <2>1. Sorted(S) = [i \in 1 .. N |-> CHOOSE n \in S : Rank(S, n) = i]
    BY DEF Sorted, Rank, UpTo
  <2>2. ASSUME NEW i \in 1 .. N PROVE (CHOOSE n \in S : Rank(S, n) = i) \in S
    BY <1>6, <2>2
  <2> DEFINE at(i) == CHOOSE n \in S : Rank(S, n) = i
  <2>3. Sorted(S) = [i \in 1 .. N |-> at(i)] /\ \A i \in 1 .. N : at(i) \in S
    BY <2>1, <2>2
  <2>4. \A i \in 1 .. N : Sorted(S)[i] = at(i)
    <3> HIDE DEF at, N
    <3> QED
      BY <2>3
  <2>5. DOMAIN Sorted(S) = 1 .. N /\ Sorted(S) \in Seq(S)
    <3> HIDE DEF at, N
    <3> QED
      BY <1>1, <2>3
  <2> QED
    BY <1>1, <2>4, <2>5
<1>8. ASSUME NEW i \in 1 .. N PROVE Sorted(S)[i] \in S /\ Rank(S, Sorted(S)[i]) = i
  BY <1>6, <1>7, <1>8
<1>9. ASSUME NEW n \in S PROVE Sorted(S)[Rank(S, n)] = n
  <2>1. Rank(S, n) \in 1 .. N
    BY RankGrows
  <2> QED
    BY <1>2, <1>8, <2>1
<1> QED
  BY <1>1, <1>7, <1>8, <1>9

\* The first two names of a directory whose others come after them.
LEMMA DotsFirst ==
  ASSUME NEW S \in SUBSET {Names[i] : i \in 3 .. Len(Names)},
         NEW all, all = {".", ".."} \cup S
  PROVE  /\ all \in SUBSET ToSet(Names)
         /\ "." \notin S /\ ".." \notin S
         /\ Rank(all, ".") = 1 /\ Rank(all, "..") = 2
<1>1. /\ "." \in ToSet(Names) /\ Place(".") = 1
      /\ ".." \in ToSet(Names) /\ Place("..") = 2
  BY PlaceIs, NamesAssumption
<1>2. \A n \in S : n \in ToSet(Names) /\ Place(n) \in Nat /\ Place(n) >= 3
  BY PlaceIs
<1>3. all \in SUBSET ToSet(Names) /\ "." \notin S /\ ".." \notin S
  BY <1>1, <1>2
<1>4. UpTo(all, ".") = {"."} /\ UpTo(all, "..") = {".", ".."}
  BY <1>1, <1>2 DEF UpTo
<1>5. Cardinality({"."}) = 1 /\ IsFiniteSet({"."})
  BY FS_Singleton
<1>6. Cardinality({"."} \cup {".."}) = 2
  <2>1. ".." \notin {"."}
    OBVIOUS
  <2>2. Cardinality({"."} \cup {".."}) = Cardinality({"."}) + 1
    BY <1>5, <2>1, FS_AddElement
  <2> QED
    BY <1>5, <2>2
<1>7. {"."} \cup {".."} = {".", ".."}
  OBVIOUS
<1> QED
  BY <1>3, <1>4, <1>5, <1>6, <1>7 DEF Rank

LEMMA SortedGrows ==
  ASSUME NEW S \in SUBSET ToSet(Names), NEW i \in 1 .. Cardinality(S),
         NEW j \in 1 .. Cardinality(S), i < j
  PROVE  Place(Sorted(S)[i]) < Place(Sorted(S)[j])
<1> DEFINE n == Sorted(S)[i]
           k == Sorted(S)[j]
<1>1. n \in S /\ k \in S /\ Rank(S, n) = i /\ Rank(S, k) = j
  BY SortedIs
<1>2. Cardinality(S) \in Nat
  BY SortedIs
<1> HIDE DEF n, k
<1>3. Place(n) \in Nat /\ Place(k) \in Nat
  BY <1>1, PlaceIs
<1>4. n # k /\ ~(Place(k) < Place(n))
  BY <1>1, <1>2, RankGrows
<1>5. Place(n) # Place(k)
  BY <1>1, <1>4, PlaceIs
<1>6. Place(n) < Place(k)
  BY <1>3, <1>4, <1>5
<1> QED
  BY <1>6 DEF n, k

\* A listing as the client should see it.
Lists(body, names) ==
  /\ ToSet(body) = {"entry"} \X names
  /\ \A i, j \in DOMAIN body : i < j => Place(body[i][2]) < Place(body[j][2])

\* The list without its first names, which are those of rank up to erased.
LEMMA SkippedLists ==
  ASSUME NEW all \in SUBSET ToSet(Names), NEW erased \in Nat, NEW names, NEW body,
         names = {n \in all : Rank(all, n) > erased},
         body = [i \in 1 .. Len(Sorted(all)) - erased |-> <<"entry", Sorted(all)[i + erased]>>]
  PROVE  Lists(body, names)
<1> DEFINE list == Sorted(all)
           N == Cardinality(all)
<1>1. /\ N \in Nat /\ Len(list) = N
      /\ \A i \in 1 .. N : list[i] \in all /\ Rank(all, list[i]) = i
      /\ \A n \in all : list[Rank(all, n)] = n
  BY SortedIs
<1>2. \A n \in all : Rank(all, n) \in 1 .. N
  BY RankGrows
<1>3. \A i, j \in 1 .. N : i < j => Place(list[i]) < Place(list[j])
  BY SortedGrows
<1>4. body = [i \in 1 .. N - erased |-> <<"entry", list[i + erased]>>]
  BY <1>1
<1> HIDE DEF list, N
<1>5. DOMAIN body = 1 .. N - erased
  BY <1>4
<1>6. \A i \in 1 .. N - erased : i + erased \in 1 .. N /\ i + erased > erased
  BY <1>1
<1>7. \A i \in 1 .. N - erased : body[i] = <<"entry", list[i + erased]>>
  BY <1>4
<1>8. ASSUME NEW x \in ToSet(body) PROVE x \in {"entry"} \X names
  <2>1. PICK i \in 1 .. N - erased : x = body[i]
    BY <1>5, <1>8 DEF ToSet
  <2>2. x = <<"entry", list[i + erased]>>
    BY <1>7, <2>1
  <2>3. i + erased \in 1 .. N /\ i + erased > erased
    BY <1>6
  <2>4. list[i + erased] \in names
    BY <1>1, <2>3
  <2> QED
    BY <2>2, <2>4
<1>9. ASSUME NEW x \in {"entry"} \X names PROVE x \in ToSet(body)
  <2>1. PICK n \in names : x = <<"entry", n>>
    BY <1>9
  <2>2. n \in all /\ Rank(all, n) \in 1 .. N /\ Rank(all, n) > erased
    BY <1>2
  <2> DEFINE i == Rank(all, n) - erased
  <2>3. i \in 1 .. N - erased /\ i + erased = Rank(all, n)
    BY <1>1, <2>2
  <2>4. list[Rank(all, n)] = n
    BY <1>1, <2>2
  <2> HIDE DEF i
  <2>5. body[i] = x
    BY <1>7, <2>1, <2>3, <2>4
  <2> QED
    BY <1>5, <2>3, <2>5 DEF ToSet
<1>10. ASSUME NEW i \in DOMAIN body, NEW j \in DOMAIN body, i < j
       PROVE  Place(body[i][2]) < Place(body[j][2])
  <2>1. i + erased \in 1 .. N /\ j + erased \in 1 .. N /\ i + erased < j + erased
    BY <1>1, <1>5, <1>6, <1>10
  <2>2. body[i][2] = list[i + erased] /\ body[j][2] = list[j + erased]
    BY <1>5, <1>7, <1>10
  <2> QED
    BY <1>3, <2>1, <2>2
<1> QED
  BY <1>8, <1>9, <1>10 DEF Lists

\* No name in the directory sorts before "." or "..", which "the first two are
\* erased" relies on.
NamesKnown ==
  pc = "read" /\ Listing =>
    Entries(response.file_path) \subseteq {Names[i] : i \in 3 .. Len(Names)}

LEMMA AutoIndexLists ==
  ASSUME NEW dir, Entries(dir) \subseteq {Names[i] : i \in 3 .. Len(Names)}
  PROVE  Lists(autoIndexToBody(dir),
               Entries(dir) \cup IF dir = response.root_path THEN {} ELSE {".."})
<1> DEFINE S == Entries(dir)
           all == {".", ".."} \cup S
           erased == IF dir = response.root_path THEN 2 ELSE 1
           names == S \cup IF dir = response.root_path THEN {} ELSE {".."}
<1>1. S \in SUBSET {Names[i] : i \in 3 .. Len(Names)}
  OBVIOUS
<1> HIDE DEF S
<1>2. /\ all \in SUBSET ToSet(Names) /\ "." \notin S /\ ".." \notin S
      /\ Rank(all, ".") = 1 /\ Rank(all, "..") = 2
  BY <1>1, DotsFirst
<1>3. \A n \in S : Rank(all, n) \in Nat /\ Rank(all, n) > 2
  <2> SUFFICES ASSUME NEW n \in S PROVE Rank(all, n) \in Nat /\ Rank(all, n) > 2
    OBVIOUS
  <2>1. n \in all /\ ".." \in all /\ n \in ToSet(Names)
    BY <1>2
  <2>2. Place("..") = 2 /\ Place(n) > 2
    BY <1>1, PlaceIs, NamesAssumption
  <2>3. Rank(all, "..") < Rank(all, n) /\ Rank(all, n) \in Nat
    BY <1>2, <2>1, <2>2, RankGrows, SortedIs
  <2> QED
    BY <1>2, <2>3
<1>4. names = {n \in all : Rank(all, n) > erased}
  <2>1. all = {".", ".."} \cup S /\ names \subseteq all
    OBVIOUS
  <2>2. erased \in {1, 2} /\ (".." \in names <=> erased = 1)
        /\ \A n \in S : n \in names
    BY <1>2
  <2>3. "." \notin names
    BY <1>2
  <2> HIDE DEF erased, names, all
  <2>4. ASSUME NEW n \in all PROVE n \in names <=> Rank(all, n) > erased
    <3> DEFINE rank == Rank(all, n)
    <3>1. CASE n = "."
      <4>1. rank = 1 /\ n \notin names
        BY <1>2, <2>3, <3>1
      <4> HIDE DEF rank
      <4>2. ~(rank > erased)
        BY <2>2, <4>1
      <4> QED
        BY <4>1, <4>2 DEF rank
    <3>2. CASE n = ".."
      <4>1. rank = 2 /\ (n \in names <=> erased = 1)
        BY <1>2, <2>2, <3>2
      <4> HIDE DEF rank
      <4>2. rank > erased <=> erased = 1
        BY <2>2, <4>1
      <4> QED
        BY <4>1, <4>2 DEF rank
    <3>3. CASE n \in S
      <4>1. rank \in Nat /\ rank > 2 /\ n \in names
        BY <1>3, <2>2, <3>3
      <4> HIDE DEF rank
      <4>2. rank > erased
        BY <2>2, <4>1
      <4> QED
        BY <4>1, <4>2 DEF rank
    <3> QED
      BY <2>1, <3>1, <3>2, <3>3
  <2> QED
    BY <2>1, <2>4
<1>5. autoIndexToBody(dir)
        = [i \in 1 .. Len(Sorted(all)) - erased |-> <<"entry", Sorted(all)[i + erased]>>]
  BY DEF autoIndexToBody, S
<1>6. erased \in Nat
  OBVIOUS
<1>7. Lists(autoIndexToBody(dir), names)
  <2> HIDE DEF all, erased, names
  <2> QED
    BY <1>2, <1>4, <1>5, <1>6, SkippedLists
<1> QED
  BY <1>7 DEF S

LEMMA ToldIsListed ==
  ASSUME TellInv, ToldInv, NamesKnown PROVE ListingComplete
<1> SUFFICES ASSUME Sent, Listing, ~response.redirection_exist, request.method = "GET"
             PROVE  Lists(message.body, Entries(response.file_path) \cup
                            IF response.file_path = response.root_path THEN {} ELSE {".."})
  BY DEF ListingComplete, Lists
<1>1. /\ pc = "read" /\ Told /\ TellsAsFound(response)
      /\ content = autoIndexToBody(response.file_path)
      /\ ~response.cgi_flag /\ response.status_code = "OK_200"
  BY DEF ToldInv, TellInv, Listing
<1>2. MessageIs(message, request, response, found.server.error_page_vector, content)
  BY <1>1, MessageSays DEF Told
<1>3. message.body = content
  BY <1>1, <1>2 DEF MessageIs
<1>4. Entries(response.file_path) \subseteq {Names[i] : i \in 3 .. Len(Names)}
  BY <1>1 DEF NamesKnown
<1> QED
  BY <1>1, <1>3, <1>4, AutoIndexLists

\* A listing names what is in the directory, once each and in order, whatever was
\* uploaded or removed before and wherever the directory is, as long as no name
\* there sorts before "..", the second of those that autoIndexToBody erases
\* without a look at them (MethodHandler.cpp:80).
THEOREM ListingAlwaysComplete == WebservSpec /\ []NamesKnown => []ListingComplete
<1>1. WebservInit => TellInv /\ ToldInv
  <2> SUFFICES ASSUME WebservInit PROVE TellInv /\ ToldInv
    OBVIOUS
  <2>1. pc = "start" /\ found = Refused("none") /\ response = Response0 /\ message = NoMessage
    BY DEF WebservInit, Init
  <2>2. ~Sent
    BY <2>1 DEF Sent, NoMessage
  <2> QED
    BY <2>1, <2>2 DEF TellInv, ToldInv, IInv
<1> QED
  BY <1>1, WebservTells, NextTold, ToldIsListed, PTL DEF WebservSpec
=============================================================================
