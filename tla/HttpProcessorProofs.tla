------------------------ MODULE HttpProcessorProofs ------------------------
(***************************************************************************)
(* Proofs about HttpProcessor, for every configuration, disk and request.  *)
(***************************************************************************)
EXTENDS WebservProperties, SequenceTheorems, TLAPS

\* The CGI locations of the virtual server found accept GET and POST only, as
\* those of default.conf do: the other methods are dispatched without a look at
\* cgi_flag (HttpProcessor.cpp:72).
CgiByGetOrPost ==
  \A key \in DOMAIN found.server.locations :
    found.server.locations[key].ourcgi_pass # NoPath =>
      found.server.locations[key].accepted_method \subseteq {"GET", "POST"}

\* Until its method is looked at, a request has the Response it was created with.
IInv == pc \in {"start", "find", "process"} => response = Response0

(***************************************************************************)
(* What PathFinder leaves in a Response: nothing is opened, no child runs, *)
(* and cgi_flag is set only where a CGI location accepts the request.      *)
(***************************************************************************)
Untouched(r) ==
  /\ DOMAIN r = DOMAIN Response0
  /\ r.static_read_file_fd = NoPath
  /\ r.static_write_file_fd = NoPath
  /\ r.cgi_child_pid = FALSE
  /\ r.cgi_flag \in BOOLEAN

WithoutCgi(r) == Untouched(r) /\ r.cgi_flag = FALSE

LEMMA Response0WithoutCgi == WithoutCgi(Response0)
  BY DEF WithoutCgi, Untouched, Response0

LEMMA ThrowWithoutCgi ==
  ASSUME NEW code PROVE WithoutCgi(Throw(code))
  BY DEF WithoutCgi, Untouched, Throw, Response0

LEMMA SetIndexKeeps ==
  ASSUME NEW d, NEW dir, NEW name, NEW index, NEW r, Untouched(r)
  PROVE  LET s == setIndex(d, dir, name, index, r) IN
         /\ Untouched(s)
         /\ s.cgi_flag = r.cgi_flag
         /\ s.accepted_method = r.accepted_method
         /\ s.status_code = r.status_code
  BY DEF setIndex, Untouched, Response0

LEMMA SetBasicWithoutCgi ==
  ASSUME NEW d, NEW req, NEW l, NEW dir, NEW name
  PROVE  WithoutCgi(SetBasic(d, req, l, dir, name))
<1> DEFINE r == [Response0 EXCEPT
                   !.accepted_method = l.accepted_method,
                   !.path_exist = dir \in d.dirs,
                   !.file_path = IF dir \in d.dirs THEN dir ELSE NoPath,
                   !.root_path = l.root,
                   !.auto_index = l.auto_index = "on",
                   !.redirection_exist = l.redirection # "",
                   !.rediretion_location = l.redirection]
<1>1. WithoutCgi(r)
  BY DEF WithoutCgi, Untouched, Response0
<1> HIDE DEF r
<1>2. WithoutCgi(setIndex(d, dir, name, l.index, r))
  BY <1>1, SetIndexKeeps DEF WithoutCgi
<1>3. WithoutCgi(setBasic(d, l, dir, name))
  BY <1>2 DEF setBasic, r
<1> QED
  BY <1>3, ThrowWithoutCgi DEF SetBasic

LEMMA IsEndWithWithoutCgi ==
  ASSUME NEW d, NEW req, NEW l, NEW path
  PROVE  WithoutCgi(isEndWith(d, req, l, path))
  BY SetBasicWithoutCgi DEF isEndWith

\* The locations that are no CGI leave cgi_flag alone.
LEMMA LocationsWithoutCgi ==
  ASSUME NEW d, NEW s, NEW req
  PROVE  /\ WithoutCgi(DefaultLocation(d, s, req))
         /\ WithoutCgi(NamedLocation(d, s, req))
  BY SetBasicWithoutCgi, IsEndWithWithoutCgi, ThrowWithoutCgi
  DEF DefaultLocation, NamedLocation

\* The one place that sets cgi_flag does so without an error, and for the
\* methods of its location.
LEMMA SetCgiFlag ==
  ASSUME NEW d, NEW s, NEW req
  PROVE  LET r == setCgi(d, s, req)
             l == s.locations[Extension[Last(req.uri)]]
         IN \/ WithoutCgi(r)
            \/ /\ Untouched(r)
               /\ r.status_code = "OK_200"
               /\ r.accepted_method = l.accepted_method
<1> DEFINE l == s.locations[Extension[Last(req.uri)]]
           r == [Response0 EXCEPT !.cgi_flag = TRUE,
                                  !.accepted_method = l.accepted_method]
<1>1. /\ Untouched(r)
      /\ r.status_code = "OK_200"
      /\ r.accepted_method = l.accepted_method
  BY DEF Untouched, Response0
<1> HIDE DEF r
<1>2. LET t == setIndex(d, l.root, l.ourcgi_index, l.index, r) IN
      /\ Untouched(t)
      /\ t.status_code = "OK_200"
      /\ t.accepted_method = l.accepted_method
  BY <1>1, SetIndexKeeps
<1> QED
  BY <1>2, ThrowWithoutCgi DEF setCgi, r

\* What PathFinder made of the request, before a method but GET lost its
\* redirection.
Unredirected == PathFinder(disk, found.server, request)

LEMMA PathFinderFlag ==
  ASSUME CgiByGetOrPost
  PROVE  \/ WithoutCgi(Unredirected)
         \/ /\ Untouched(Unredirected)
            /\ Unredirected.status_code = "OK_200"
            /\ Unredirected.accepted_method \subseteq {"GET", "POST"}
<1> DEFINE key == Extension[Last(request.uri)]
<1>1. CASE DoubleSlash(request.uri)
  BY <1>1, ThrowWithoutCgi DEF Unredirected, PathFinder
<1>2. CASE ~DoubleSlash(request.uri) /\ isCgiBlock(found.server, request)
  <2>1. /\ key \in DOMAIN found.server.locations
        /\ found.server.locations[key].ourcgi_pass # NoPath
    BY <1>2 DEF isCgiBlock
  <2>2. found.server.locations[key].accepted_method \subseteq {"GET", "POST"}
    BY <2>1 DEF CgiByGetOrPost
  <2>3. Unredirected = setCgi(disk, found.server, request)
    BY <1>2 DEF Unredirected, PathFinder
  <2> QED
    BY <2>2, <2>3, SetCgiFlag
<1>3. CASE ~DoubleSlash(request.uri) /\ ~isCgiBlock(found.server, request)
  BY <1>3, LocationsWithoutCgi DEF Unredirected, PathFinder
<1> QED
  BY <1>1, <1>2, <1>3

LEMMA LocatedFlag ==
  ASSUME CgiByGetOrPost
  PROVE  \/ WithoutCgi(Located)
         \/ /\ Untouched(Located)
            /\ Located.status_code = "OK_200"
            /\ Located.accepted_method \subseteq {"GET", "POST"}
<1>1. Located = [Unredirected EXCEPT
                   !.redirection_exist = @ /\ request.method = "GET"]
  BY DEF Located, Unredirected
<1>2. Untouched(Unredirected)
  BY PathFinderFlag DEF WithoutCgi
<1>3. /\ Untouched(Located)
      /\ Located.cgi_flag = Unredirected.cgi_flag
      /\ Located.status_code = Unredirected.status_code
      /\ Located.accepted_method = Unredirected.accepted_method
  BY <1>1, <1>2 DEF Untouched, Response0
<1> QED
  BY <1>3, PathFinderFlag DEF WithoutCgi

(***************************************************************************)
(* The steps.                                                              *)
(***************************************************************************)
\* What RefusedHasNoEffect and ChildForCgi say of one step.
RefusedStep ==
  Processed /\ response'.status_code # "OK_200" =>
    Touched = {} /\ ~response'.cgi_flag /\ ~response'.cgi_child_pid

ChildStep ==
  Processed =>
    /\ response'.cgi_flag = response'.cgi_child_pid
    /\ response'.cgi_flag => Touched = {}

SoundStep == RefusedStep /\ ChildStep

\* An error answer made from r, the disk left alone.
LEMMA AnswerWithoutEffect ==
  ASSUME NEW r, WithoutCgi(r), Answer(r, disk)
  PROVE  SoundStep
  BY DEF Answer, SoundStep, RefusedStep, ChildStep, Touched, SymDiff, WithoutCgi, Untouched

LEMMA CodeWithoutCgi ==
  ASSUME NEW r, NEW code, WithoutCgi(r)
  PROVE  WithoutCgi(Code(r, code))
  BY DEF WithoutCgi, Untouched, Code, Response0

LEMMA CodeFlagTakenBack ==
  ASSUME NEW r, NEW code, Untouched(r)
  PROVE  WithoutCgi([Code(r, code) EXCEPT !.cgi_flag = FALSE])
  BY DEF WithoutCgi, Untouched, Code, Response0

\* A method the CGI locations do not accept, or a request without cgi_flag,
\* finds it not set.
LEMMA AcceptedWithoutCgi ==
  ASSUME CgiByGetOrPost, NEW methods, Accepted(methods),
         request.method \in {"GET", "POST"} => ~Located.cgi_flag
  PROVE  WithoutCgi(Located)
<1>1. CASE WithoutCgi(Located)
  BY <1>1
<1>2. CASE Untouched(Located) /\ Located.accepted_method \subseteq {"GET", "POST"}
  <2>1. request.method \in {"GET", "POST"}
    BY <1>2 DEF Accepted
  <2> QED
    BY <1>2, <2>1 DEF WithoutCgi, Untouched
<1> QED
  BY <1>1, <1>2, LocatedFlag

LEMMA CgiHandlerSound ==
  ASSUME CgiByGetOrPost, CgiHandler PROVE SoundStep
<1>1. Untouched(Located) /\ Located.status_code = "OK_200"
  BY LocatedFlag DEF CgiHandler, Accepted, WithoutCgi
<1>2. CASE Located.file_exist
  BY <1>1, <1>2 DEF CgiHandler, Answer, SoundStep, RefusedStep, ChildStep,
                      Untouched, Response0, Touched, SymDiff
<1>3. CASE ~Located.file_exist
  BY <1>1, <1>3, CodeFlagTakenBack, AnswerWithoutEffect DEF CgiHandler
<1> QED
  BY <1>2, <1>3

LEMMA GetMethodHandlerSound ==
  ASSUME CgiByGetOrPost, GetMethodHandler PROVE SoundStep
<1>1. Accepted({"GET", "HEAD"}) /\ (request.method = "GET" => ~Located.cgi_flag)
  BY DEF GetMethodHandler
<1>2. WithoutCgi(Located)
  BY <1>1, AcceptedWithoutCgi DEF Accepted
<1>3. Located.status_code = "OK_200"
  BY <1>1 DEF Accepted
<1>4. \/ Answer([Located EXCEPT !.static_read_file_fd = Target(Located)], disk)
      \/ Answer(Located, disk)
      \/ Answer(Code(Located, "NOT_FOUND_404"), disk)
  BY DEF GetMethodHandler
<1>5. CASE Answer([Located EXCEPT !.static_read_file_fd = Target(Located)], disk)
  BY <1>2, <1>3, <1>5
  DEF Answer, SoundStep, RefusedStep, ChildStep, WithoutCgi, Untouched, Response0
<1> QED
  BY <1>2, <1>4, <1>5, CodeWithoutCgi, AnswerWithoutEffect

LEMMA UploadHandlerSound ==
  ASSUME CgiByGetOrPost, UploadHandler PROVE SoundStep
<1> DEFINE named == [Located EXCEPT !.file_name = UploadName(Located)]
           target == Append(Located.file_path, UploadName(Located))
<1>1. Accepted({"POST", "PUT"}) /\ (request.method = "POST" => ~Located.cgi_flag)
  BY DEF UploadHandler
<1>2. WithoutCgi(Located)
  BY <1>1, AcceptedWithoutCgi DEF Accepted
<1>3. Located.status_code = "OK_200"
  BY <1>1 DEF Accepted
<1>4. \/ Answer(Code(Located, "BAD_REQUEST_400"), disk)
      \/ Answer(Code(named, "INTERNAL_SERVER_ERROR_500"), disk)
      \/ Answer([named EXCEPT !.static_write_file_fd = target],
                [disk EXCEPT !.files = @ \cup {target}])
  BY DEF UploadHandler
<1>5. WithoutCgi(named) /\ named.status_code = "OK_200"
  BY <1>2, <1>3 DEF WithoutCgi, Untouched, Response0
<1> HIDE DEF named, target
<1>6. CASE Answer([named EXCEPT !.static_write_file_fd = target],
                  [disk EXCEPT !.files = @ \cup {target}])
  BY <1>5, <1>6 DEF Answer, SoundStep, RefusedStep, ChildStep, WithoutCgi, Untouched, Response0
<1> QED
  BY <1>2, <1>4, <1>5, <1>6, CodeWithoutCgi, AnswerWithoutEffect

LEMMA DeleteMethodHandlerSound ==
  ASSUME CgiByGetOrPost, DeleteMethodHandler PROVE SoundStep
<1>1. Accepted({"DELETE"})
  BY DEF DeleteMethodHandler
<1>2. WithoutCgi(Located)
  BY <1>1, AcceptedWithoutCgi DEF Accepted
<1>3. Located.status_code = "OK_200"
  BY <1>1 DEF Accepted
<1>4. \/ Answer(Code(Located, "BAD_REQUEST_400"), disk)
      \/ response' = Located
  BY DEF DeleteMethodHandler, Answer
<1> QED
  BY <1>2, <1>3, <1>4, CodeWithoutCgi, AnswerWithoutEffect
  DEF SoundStep, RefusedStep, ChildStep, WithoutCgi, Untouched

LEMMA MethodNotAllowedSound ==
  ASSUME CgiByGetOrPost, MethodNotAllowed PROVE SoundStep
  BY LocatedFlag, CodeFlagTakenBack, AnswerWithoutEffect
  DEF MethodNotAllowed, WithoutCgi

LEMMA OtherStepsSound ==
  ASSUME CgiByGetOrPost, IInv,
         NextRequest \/ FindServerOfRequest \/ BadRequest \/ PathFinderThrows
  PROVE  SoundStep
<1>1. CASE NextRequest \/ FindServerOfRequest
  BY <1>1 DEF NextRequest, FindServerOfRequest, SoundStep, RefusedStep,
              ChildStep, Processed
<1>2. CASE BadRequest
  <2>1. WithoutCgi(response)
    BY <1>2, Response0WithoutCgi DEF IInv, BadRequest
  <2> QED
    BY <1>2, <2>1, CodeWithoutCgi, AnswerWithoutEffect DEF BadRequest
<1>3. CASE PathFinderThrows
  BY <1>3, LocatedFlag, AnswerWithoutEffect DEF PathFinderThrows
<1> QED
  BY <1>1, <1>2, <1>3

LEMMA NextSound ==
  ASSUME CgiByGetOrPost, IInv, Next PROVE SoundStep
  BY CgiHandlerSound, GetMethodHandlerSound, UploadHandlerSound,
     DeleteMethodHandlerSound, MethodNotAllowedSound, OtherStepsSound
  DEF Next

\* Only the steps of HttpProcessor change its variables, and the first request.
LEMMA WebservSteps ==
  ASSUME WebservNext
  PROVE  UNCHANGED vars \/ Next \/ Start
  BY DEF WebservNext, ReadConfig, Process, RespondFile, RespondUpload, RespondInline,
         RespondCgi, RespondTimeout, Respond, CloseConnection

LEMMA InitIInv == WebservInit => IInv
  BY DEF WebservInit, Init, IInv

LEMMA NextIInv == IInv /\ [WebservNext]_webservVars => IInv'
<1> SUFFICES ASSUME IInv, UNCHANGED vars \/ Next \/ Start PROVE IInv'
  BY WebservSteps DEF webservVars
<1>1. CASE UNCHANGED vars
  BY <1>1 DEF IInv, vars
<1>2. CASE Start \/ NextRequest \/ FindServerOfRequest
  BY <1>2 DEF IInv, Start, Serve, NextRequest, FindServerOfRequest
<1>3. CASE \/ BadRequest \/ PathFinderThrows \/ CgiHandler \/ GetMethodHandler
           \/ UploadHandler \/ DeleteMethodHandler \/ MethodNotAllowed
  BY <1>3 DEF IInv, Answer, BadRequest, PathFinderThrows, CgiHandler,
              GetMethodHandler, UploadHandler, DeleteMethodHandler,
              MethodNotAllowed
<1> QED
  BY <1>1, <1>2, <1>3 DEF Next

LEMMA WebservSound ==
  CgiByGetOrPost /\ IInv /\ [WebservNext]_webservVars => [SoundStep]_vars
<1> SUFFICES ASSUME CgiByGetOrPost, IInv, UNCHANGED vars \/ Next \/ Start
             PROVE  [SoundStep]_vars
  BY WebservSteps DEF webservVars
<1>1. CASE Start
  BY <1>1 DEF Start, Serve, SoundStep, RefusedStep, ChildStep, Processed
<1> QED
  BY <1>1, NextSound

\* With CGI locations that accept only GET and POST, a request that is refused,
\* by the parser, ServerFinder, PathFinder or a method handler, touches no file,
\* starts no child and leaves cgi_flag unset (HttpProcessor.cpp:93), whatever
\* configuration file the server read.
THEOREM RefusedNeverHasEffect ==
  WebservSpec /\ []CgiByGetOrPost => RefusedHasNoEffect
<1>1. CgiByGetOrPost /\ IInv /\ [WebservNext]_webservVars => [RefusedStep]_vars
  BY WebservSound DEF SoundStep
<1> QED
  BY InitIInv, NextIInv, <1>1, PTL DEF WebservSpec, RefusedHasNoEffect, RefusedStep

\* Under the same condition cgi_flag, on which clientReadEvent decides what to
\* wait for (client.cpp:68), is set exactly when a child runs, and a request with
\* a child has neither opened nor changed a file.
THEOREM ChildAlwaysForCgi ==
  WebservSpec /\ []CgiByGetOrPost => ChildForCgi
<1>1. CgiByGetOrPost /\ IInv /\ [WebservNext]_webservVars => [ChildStep]_vars
  BY WebservSound DEF SoundStep
<1> QED
  BY InitIInv, NextIInv, <1>1, PTL DEF WebservSpec, ChildForCgi, ChildStep

(***************************************************************************)
(* What a request touches.                                                 *)
(***************************************************************************)
IsSequence(s) == \E S : s \in Seq(S)

\* The root of a location is a path, its size a number.
Locations(map) ==
  \A key \in DOMAIN map : IsSequence(map[key].root) /\ map[key].max_body_size \in Int

LEMMA SequenceDomain ==
  ASSUME NEW s, IsSequence(s) PROVE Len(s) \in Nat /\ DOMAIN s = 1 .. Len(s)
  BY DEF IsSequence

\* The request in progress is one of Requests, but for its status; the locations
\* of its server are those of a configuration; the disk is a record.
RequestInv ==
  /\ pc # "start" =>
       /\ DOMAIN request = DOMAIN Request0 /\ request.body \in Nat
       /\ IsSequence(request.uri) /\ request.uri # <<>>
  /\ Locations(found.server.locations)
  /\ DOMAIN disk = {"dirs", "files"}

\* A directory that is the root or below it.
Below(root, dir) ==
  /\ IsSequence(root) /\ IsSequence(dir)
  /\ Len(root) <= Len(dir)
  /\ \A i \in 1 .. Len(root) : dir[i] = root[i]

LEMMA AppendIsBelow ==
  ASSUME NEW root, NEW dir, Below(root, dir), NEW name
  PROVE  IsStrictPrefix(root, Append(dir, name))
<1>1. PICK S : dir \in Seq(S)
  BY DEF Below, IsSequence
<1>2. PICK R : root \in Seq(R)
  BY DEF Below, IsSequence
<1> DEFINE T == S \cup R \cup {name}
           path == Append(dir, name)
<1>3. dir \in Seq(T) /\ root \in Seq(T) /\ name \in T
  BY <1>1, <1>2
<1> HIDE DEF T
<1>4. /\ path \in Seq(T) /\ Len(path) = Len(dir) + 1
      /\ \A i \in 1 .. Len(dir) : path[i] = dir[i]
  BY <1>3, AppendProperties
<1> HIDE DEF path
<1>5. Len(root) \in Nat /\ Len(dir) \in Nat
  BY <1>3
<1>6. Len(root) < Len(path) /\ \A i \in 1 .. Len(root) : path[i] = root[i]
  BY <1>4, <1>5 DEF Below
<1>7. SubSeq(root, 1, Len(root)) = SubSeq(path, 1, Len(root))
  <2>1. SubSeq(root, 1, Len(root)) = [i \in 1 .. Len(root) |-> root[i]]
    BY <1>3, <1>5
  <2>2. SubSeq(path, 1, Len(root)) = [i \in 1 .. Len(root) |-> path[i]]
    BY <1>4, <1>5, <1>6
  <2> QED
    BY <1>6, <2>1, <2>2
<1> QED
  BY <1>4, <1>5, <1>6, <1>7 DEF IsStrictPrefix, IsPrefix, path

\* The root followed by some segments of the URI, without its last segment.
LEMMA JoinedIsBelow ==
  ASSUME NEW root, IsSequence(root), NEW more, IsSequence(more), more # <<>>
  PROVE  LET path == root \o more IN
         /\ IsSequence(path) /\ path # <<>>
         /\ Below(root, path) /\ Below(root, Front(path))
         /\ path = Append(Front(path), Last(path))
<1>1. PICK R : root \in Seq(R)
  BY DEF IsSequence
<1>2. PICK M : more \in Seq(M)
  BY DEF IsSequence
<1> DEFINE T == R \cup M
           path == root \o more
<1>3. root \in Seq(T) /\ more \in Seq(T)
  BY <1>1, <1>2
<1> HIDE DEF T
<1>4. Len(root) \in Nat /\ Len(more) \in Nat \ {0}
  BY <1>3
<1>5. /\ path \in Seq(T) /\ Len(path) = Len(root) + Len(more)
      /\ \A i \in 1 .. Len(root) : path[i] = root[i]
  BY <1>3, ConcatProperties
<1> HIDE DEF path
<1>6. path # <<>>
  BY <1>4, <1>5
<1>7. Front(path) = [i \in 1 .. Len(path) - 1 |-> path[i]]
  BY <1>5, <1>6, <1>4 DEF Front
<1>8. /\ Front(path) \in Seq(T) /\ Len(Front(path)) = Len(path) - 1
      /\ \A i \in 1 .. Len(path) - 1 : Front(path)[i] = path[i]
  <2>1. Len(path) - 1 \in Nat /\ \A i \in 1 .. Len(path) - 1 : path[i] \in T
    BY <1>4, <1>5
  <2>2. [i \in 1 .. Len(path) - 1 |-> path[i]] \in [1 .. Len(path) - 1 -> T]
    BY <2>1
  <2>3. Front(path) \in Seq(T)
    BY <1>7, <2>1, <2>2, SeqDef
  <2> QED
    BY <1>7, <2>1, <2>3
<1>9. path = Append(Front(path), Last(path))
  <2>1. Last(path) = path[Len(path)] /\ Last(path) \in T
    BY <1>4, <1>5 DEF Last
  <2>2. /\ Append(Front(path), Last(path)) \in Seq(T)
        /\ Len(Append(Front(path), Last(path))) = Len(path)
        /\ \A i \in 1 .. Len(path) : Append(Front(path), Last(path))[i] = path[i]
    BY <1>4, <1>5, <1>8, <2>1
  <2> QED
    BY <1>5, <2>2, SeqEqual
<1>10. IsSequence(path) /\ IsSequence(Front(path))
  BY <1>5, <1>8 DEF IsSequence
<1>11. Below(root, path)
  BY <1>4, <1>5, <1>10 DEF Below
<1>12. Below(root, Front(path))
  <2>1. Len(root) <= Len(Front(path)) /\ \A i \in 1 .. Len(root) : Front(path)[i] = root[i]
    BY <1>4, <1>5, <1>8
  <2> QED
    BY <1>10, <2>1 DEF Below
<1> QED
  BY <1>6, <1>9, <1>10, <1>11, <1>12 DEF path

\* The directory and the name that a URI stands for, below the root of a
\* location; a name is not that of a directory.
Leads(d, l, dir, name) ==
  Below(l.root, dir) /\ (name # "" => Append(dir, name) \notin d.dirs)

\* The directory and the name that isEndWith finds in a path.
DirOf(d, path) == IF is_directory(d, path) THEN WithoutSlash(path) ELSE Front(path)
NameOf(d, path) == IF is_directory(d, path) THEN "" ELSE Last(path)

LEMMA IsEndWithIs ==
  ASSUME NEW d, NEW r, NEW l, NEW path
  PROVE  isEndWith(d, r, l, path) = SetBasic(d, r, l, DirOf(d, path), NameOf(d, path))
  BY DEF isEndWith, DirOf, NameOf

LEMMA SameDir ==
  ASSUME NEW d1, NEW d2, d1.dirs = d2.dirs, NEW path
  PROVE  DirOf(d1, path) = DirOf(d2, path) /\ NameOf(d1, path) = NameOf(d2, path)
  BY DEF DirOf, NameOf, is_directory

LEMMA IsEndWithLeads ==
  ASSUME NEW d, NEW l, IsSequence(l.root), NEW more, IsSequence(more), more # <<>>
  PROVE  Leads(d, l, DirOf(d, l.root \o more), NameOf(d, l.root \o more))
<1> DEFINE path == l.root \o more
<1>1. /\ Below(l.root, path) /\ Below(l.root, Front(path))
      /\ path = Append(Front(path), Last(path))
  BY JoinedIsBelow
<1>2. CASE is_directory(d, path)
  BY <1>1, <1>2 DEF Leads, WithoutSlash, DirOf, NameOf
<1>3. CASE ~is_directory(d, path)
  BY <1>1, <1>3 DEF Leads, WithoutSlash, is_directory, DirOf, NameOf
<1> QED
  BY <1>2, <1>3

\* Two requests on two disks get to the same file of the same location, unless a
\* file is gone.
ToSameFile(s, d1, d2, r1, r2) ==
  \E key \in DOMAIN s.locations : \E dir, name :
    /\ Leads(d1, s.locations[key], dir, name)
    /\ PathFinder(d1, s, r1) = SetBasic(d1, r1, s.locations[key], dir, name)
    /\ \/ PathFinder(d2, s, r2) = SetBasic(d2, r2, s.locations[key], dir, name)
       \/ /\ PathFinder(d2, s, r2) = Throw("NOT_FOUND_404")
          /\ ~(d1.files \subseteq d2.files)

\* That is so when they have the same URI, and the disks differ in files only.
LEMMA SameWay ==
  ASSUME NEW s, Locations(s.locations), NEW d1, NEW d2, d1.dirs = d2.dirs,
         NEW r1, NEW r2, r1.uri = r2.uri, IsSequence(r1.uri), r1.uri # <<>>,
         PathFinder(d1, s, r1).path_exist
  PROVE  ToSameFile(s, d1, d2, r1, r2)
<1> DEFINE uri == r1.uri
<1>1. \A code : ~Throw(code).path_exist
  BY DEF Throw, Response0
<1>2. ~DoubleSlash(uri)
  BY <1>1 DEF PathFinder
<1>3. ~isCgiBlock(s, r1) /\ ~isCgiBlock(s, r2)
  <2>1. ~setCgi(d1, s, r1).path_exist
    BY <1>1 DEF setCgi, setIndex, Response0
  <2>2. ~isCgiBlock(s, r1)
    BY <1>2, <2>1 DEF PathFinder
  <2> QED
    BY <2>2 DEF isCgiBlock
<1>4. CASE Head(uri) \in DOMAIN s.locations
  <2> DEFINE l == s.locations[Head(uri)]
  <2>1. /\ PathFinder(d1, s, r1) = NamedLocation(d1, s, r1)
        /\ PathFinder(d2, s, r2) = NamedLocation(d2, s, r2)
    BY <1>2, <1>3, <1>4 DEF PathFinder
  <2>2. IsSequence(l.root)
    BY <1>4 DEF Locations
  <2>3. CASE Len(uri) = 1
    <3>1. Leads(d1, l, l.root, "")
      BY <2>2, SequenceDomain DEF Leads, Below
    <3> QED
      BY <1>4, <2>1, <2>3, <3>1 DEF NamedLocation, ToSameFile
  <2>4. CASE Len(uri) # 1
    <3>1. IsSequence(Tail(uri)) /\ Tail(uri) # <<>>
      <4>1. PICK S : uri \in Seq(S)
        BY DEF IsSequence
      <4>2. Len(uri) \in Nat /\ Len(uri) # 0
        BY <4>1, EmptySeq
      <4>3. Tail(uri) \in Seq(S) /\ Len(Tail(uri)) = Len(uri) - 1
        BY <4>1, HeadTailProperties
      <4>4. Len(Tail(uri)) # 0
        BY <2>4, <4>2, <4>3
      <4> QED
        BY <4>3, <4>4, EmptySeq DEF IsSequence
    <3> DEFINE path == l.root \o Tail(uri)
    <3>2. Leads(d1, l, DirOf(d1, path), NameOf(d1, path))
      BY <2>2, <3>1, IsEndWithLeads
    <3>3. /\ PathFinder(d1, s, r1) = SetBasic(d1, r1, l, DirOf(d1, path), NameOf(d1, path))
          /\ PathFinder(d2, s, r2) = SetBasic(d2, r2, l, DirOf(d1, path), NameOf(d1, path))
      BY <2>1, <2>4, IsEndWithIs, SameDir DEF NamedLocation
    <3> HIDE DEF path
    <3> QED
      BY <1>4, <3>2, <3>3 DEF ToSameFile
  <2> QED
    BY <2>3, <2>4
<1>5. CASE Head(uri) \notin DOMAIN s.locations
  <2> DEFINE l == s.locations["/"]
  <2>1. /\ PathFinder(d1, s, r1) = DefaultLocation(d1, s, r1)
        /\ PathFinder(d2, s, r2) = DefaultLocation(d2, s, r2)
    BY <1>2, <1>3, <1>5 DEF PathFinder
  <2>2. "/" \in DOMAIN s.locations
    BY <1>1, <2>1 DEF DefaultLocation
  <2>3. IsSequence(l.root)
    BY <2>2 DEF Locations
  <2>4. CASE uri = <<"">>
    <3>1. Leads(d1, l, l.root, "")
      BY <2>3, SequenceDomain DEF Leads, Below
    <3>2. /\ PathFinder(d1, s, r1) = SetBasic(d1, r1, l, l.root, "")
          /\ PathFinder(d2, s, r2) = SetBasic(d2, r2, l, l.root, "")
      BY <2>1, <2>2, <2>4 DEF DefaultLocation
    <3> QED
      BY <2>2, <3>1, <3>2 DEF ToSameFile
  <2>5. CASE uri # <<"">>
    <3> DEFINE path == l.root \o uri
               first == Append(l.root, Head(uri))
               dir == DirOf(d1, path)
               name == NameOf(d1, path)
    <3>1. Leads(d1, l, dir, name)
      BY <2>3, IsEndWithLeads
    <3>2. /\ checkExist(d1, first)
          /\ PathFinder(d1, s, r1) = SetBasic(d1, r1, l, dir, name)
      BY <1>1, <2>1, <2>2, <2>5, IsEndWithIs DEF DefaultLocation
    <3>3. PathFinder(d2, s, r2) = IF checkExist(d2, first)
                                     THEN SetBasic(d2, r2, l, dir, name)
                                     ELSE Throw("NOT_FOUND_404")
      BY <2>1, <2>2, <2>5, IsEndWithIs, SameDir DEF DefaultLocation
    <3>4. ~checkExist(d2, first) => ~(d1.files \subseteq d2.files)
      BY <3>2 DEF checkExist, is_directory
    <3> HIDE DEF first, dir, name
    <3> QED
      BY <2>2, <3>1, <3>2, <3>3, <3>4 DEF ToSameFile
  <2> QED
    BY <2>4, <2>5
<1> QED
  BY <1>4, <1>5

\* What a Response of setBasic says.
Says(r, d, l, dir, name) ==
  /\ r.accepted_method = l.accepted_method
  /\ r.path_exist <=> (dir \in d.dirs)
  /\ dir \in d.dirs => r.file_path = dir
  /\ r.file_name = name /\ r.index_name = l.index
  /\ r.file_exist <=> (name # "" /\ checkExist(d, Append(dir, name)))
  /\ r.index_exist <=> (l.index # "" /\ checkExist(d, Append(dir, l.index)))

LEMMA SetBasicSays ==
  ASSUME NEW d, NEW l, NEW dir, NEW name
  PROVE  Says(setBasic(d, l, dir, name), d, l, dir, name)
  BY DEF Says, setBasic, setIndex, Response0

LEMMA SetBasicThrows ==
  ASSUME NEW d, NEW r, r.body \in Int, NEW l, l.max_body_size \in Int, NEW dir, NEW name
  PROVE  SetBasic(d, r, l, dir, name) = IF r.body <= l.max_body_size
                                          THEN setBasic(d, l, dir, name)
                                          ELSE Throw("PAYLOAD_TOO_LARGE_413")
  BY DEF SetBasic

LEMMA PathFinderUntouched == Untouched(Unredirected)
  BY ThrowWithoutCgi, SetCgiFlag, LocationsWithoutCgi
  DEF Unredirected, PathFinder, WithoutCgi

LEMMA LocatedFields ==
  /\ DOMAIN Located = DOMAIN Response0
  /\ Located.path_exist = Unredirected.path_exist
  /\ Located.file_path = Unredirected.file_path
  /\ Located.file_name = Unredirected.file_name
  /\ Located.file_exist = Unredirected.file_exist
  /\ Located.index_name = Unredirected.index_name
  /\ Located.index_exist = Unredirected.index_exist
  /\ Located.accepted_method = Unredirected.accepted_method
  /\ Located.static_read_file_fd = NoPath
  /\ Located.static_write_file_fd = NoPath
<1>1. Located = [Unredirected EXCEPT !.redirection_exist = @ /\ request.method = "GET"]
  BY DEF Located, Unredirected
<1> QED
  BY <1>1, PathFinderUntouched DEF Untouched, Response0

\* The request is for this name in this directory, which exists, and its location
\* takes its body.
LocatedAs(l, dir, name) ==
  /\ Leads(disk, l, dir, name)
  /\ request.body <= l.max_body_size /\ l.max_body_size \in Int
  /\ dir \in disk.dirs /\ Located.file_path = dir
  /\ Located.accepted_method = l.accepted_method
  /\ Located.file_name = name /\ Located.index_name = l.index
  /\ Located.file_exist <=> (name # "" /\ checkExist(disk, Append(dir, name)))

\* On the disk it leaves, a GET of its URI is for the same name, or for none
\* because a file is gone.
AgainAs(l, dir, name) ==
  \/ Again = setBasic(disk', l, dir, name)
  \/ Again = Throw("NOT_FOUND_404") /\ ~(disk.files \subseteq disk'.files)

LEMMA LocatedWay ==
  ASSUME RequestInv, pc = "process", Located.path_exist
  PROVE  \E key \in DOMAIN found.server.locations : \E dir, name :
           /\ LocatedAs(found.server.locations[key], dir, name)
           /\ disk'.dirs = disk.dirs => AgainAs(found.server.locations[key], dir, name)
<1> DEFINE again == [request EXCEPT !.method = "GET", !.body = 0]
           d == IF disk'.dirs = disk.dirs THEN disk' ELSE disk
<1>1. /\ DOMAIN request = DOMAIN Request0 /\ request.body \in Nat
      /\ IsSequence(request.uri) /\ request.uri # <<>>
      /\ Locations(found.server.locations)
  BY DEF RequestInv
<1>2. again.uri = request.uri /\ again.body = 0
  BY <1>1 DEF Request0
<1>3. disk.dirs = d.dirs
  OBVIOUS
<1>4. Unredirected.path_exist /\ Unredirected = PathFinder(disk, found.server, request)
  BY LocatedFields DEF Unredirected
<1> HIDE DEF again, d
<1>5. PICK key \in DOMAIN found.server.locations : \E dir, name :
        /\ Leads(disk, found.server.locations[key], dir, name)
        /\ PathFinder(disk, found.server, request)
             = SetBasic(disk, request, found.server.locations[key], dir, name)
        /\ \/ PathFinder(d, found.server, again)
                = SetBasic(d, again, found.server.locations[key], dir, name)
           \/ /\ PathFinder(d, found.server, again) = Throw("NOT_FOUND_404")
              /\ ~(disk.files \subseteq d.files)
  <2>1. PathFinder(disk, found.server, request).path_exist /\ request.uri = again.uri
    BY <1>2, <1>4
  <2>2. ToSameFile(found.server, disk, d, request, again)
    BY <1>1, <1>3, <2>1, SameWay
  <2> QED
    BY <2>2 DEF ToSameFile
<1> DEFINE l == found.server.locations[key]
<1>6. PICK dir, name :
        /\ Leads(disk, l, dir, name)
        /\ Unredirected = SetBasic(disk, request, l, dir, name)
        /\ \/ PathFinder(d, found.server, again) = SetBasic(d, again, l, dir, name)
           \/ /\ PathFinder(d, found.server, again) = Throw("NOT_FOUND_404")
              /\ ~(disk.files \subseteq d.files)
  BY <1>4, <1>5
<1>7. l.max_body_size \in Int
  BY <1>1 DEF Locations
<1> HIDE DEF l
<1>8. ~Throw("PAYLOAD_TOO_LARGE_413").path_exist
  BY DEF Throw, Response0
<1>9. /\ request.body <= l.max_body_size
      /\ Unredirected = setBasic(disk, l, dir, name)
  BY <1>1, <1>4, <1>6, <1>7, <1>8, SetBasicThrows
<1>10. LocatedAs(l, dir, name)
  <2> DEFINE r == setBasic(disk, l, dir, name)
  <2>1. /\ Located.path_exist = r.path_exist /\ Located.file_path = r.file_path
        /\ Located.file_name = r.file_name /\ Located.file_exist = r.file_exist
        /\ Located.index_name = r.index_name
        /\ Located.accepted_method = r.accepted_method
    BY <1>9, LocatedFields
  <2>2. Says(r, disk, l, dir, name)
    BY SetBasicSays
  <2> HIDE DEF r
  <2>3. dir \in disk.dirs
    BY <2>1, <2>2 DEF Says
  <2> QED
    BY <1>6, <1>7, <1>9, <2>1, <2>2, <2>3 DEF LocatedAs, Says
<1>11. SetBasic(d, again, l, dir, name) = setBasic(d, l, dir, name)
  <2>1. 0 <= l.max_body_size
    BY <1>1, <1>7, <1>9
  <2> QED
    BY <1>2, <1>7, <2>1, SetBasicThrows
<1>12. disk'.dirs = disk.dirs => AgainAs(l, dir, name)
  BY <1>6, <1>11 DEF AgainAs, Again, again, d
<1> QED
  BY <1>10, <1>12 DEF l

(***************************************************************************)
(* What OnlyAsAllowed, StoredIsServed and DeletedIsGone say of one step.   *)
(***************************************************************************)
AllowedStep ==
  Processed /\ Touched # {} =>
    \E key \in DOMAIN found.server.locations :
      LET location == found.server.locations[key]
      IN /\ request.method \in location.accepted_method
         /\ request.body <= location.max_body_size
         /\ \A path \in Touched : IsStrictPrefix(location.root, path)

StoredStep ==
  Processed /\ response'.static_write_file_fd # NoPath
    /\ ~(Located.file_name = "" /\ Located.index_name = "") =>
    Target(Again) = response'.static_write_file_fd

GoneStep ==
  Processed /\ request.method = "DELETE" /\ response'.status_code = "OK_200" =>
    /\ Located.file_name # "" => Target(Again) = NoPath
    /\ disk.files \ disk'.files \subseteq {Append(Located.file_path, Located.file_name)}

FileStep == AllowedStep /\ StoredStep /\ GoneStep

\* A step that touches nothing and removes nothing that was asked for.
LEMMA NothingTouched ==
  ASSUME NEW r, Answer(r, disk), r.static_read_file_fd = NoPath,
         r.static_write_file_fd = NoPath,
         request.method = "DELETE" => r.status_code # "OK_200"
  PROVE  FileStep
<1>1. Touched = {} /\ response' = r
  BY DEF Touched, SymDiff, Answer
<1> QED
  BY <1>1 DEF FileStep, AllowedStep, StoredStep, GoneStep

\* A step that touches the file of a name in the directory of the request.
LEMMA TouchedAllowed ==
  ASSUME RequestInv, pc = "process", Located.path_exist,
         request.method \in Located.accepted_method,
         NEW name, Touched \subseteq {Append(Located.file_path, name)}
  PROVE  AllowedStep
<1>1. PICK key \in DOMAIN found.server.locations :
        \E dir, n : LocatedAs(found.server.locations[key], dir, n)
  BY LocatedWay
<1> DEFINE l == found.server.locations[key]
<1>2. PICK dir, n : LocatedAs(l, dir, n)
  BY <1>1
<1>3. /\ Below(l.root, dir) /\ Located.file_path = dir
      /\ request.body <= l.max_body_size
      /\ request.method \in l.accepted_method
  BY <1>2 DEF LocatedAs, Leads
<1> HIDE DEF l
<1>4. IsStrictPrefix(l.root, Append(dir, name))
  BY <1>3, AppendIsBelow
<1> QED
  BY <1>3, <1>4 DEF AllowedStep, l

LEMMA DiskUpdate ==
  ASSUME RequestInv, NEW S
  PROVE  /\ [disk EXCEPT !.files = S].dirs = disk.dirs
         /\ [disk EXCEPT !.files = S].files = S
  BY DEF RequestInv

LEMMA LastOfAppend ==
  ASSUME NEW s, IsSequence(s), NEW e PROVE Last(Append(s, e)) = e
<1>1. PICK S : s \in Seq(S)
  BY DEF IsSequence
<1>2. s \in Seq(S \cup {e}) /\ e \in S \cup {e}
  BY <1>1
<1>3. Len(Append(s, e)) = Len(s) + 1 /\ Append(s, e)[Len(s) + 1] = e
  BY <1>2, AppendProperties
<1> QED
  BY <1>3 DEF Last

LEMMA GetFile ==
  ASSUME RequestInv, GetMethodHandler PROVE FileStep
<1>1. /\ pc = "process" /\ request.method \in {"GET", "HEAD"}
      /\ request.method \in Located.accepted_method
  BY DEF GetMethodHandler, Accepted
<1>2. CASE /\ Located.path_exist /\ Target(Located) # NoPath
           /\ Answer([Located EXCEPT !.static_read_file_fd = Target(Located)], disk)
  <2>1. Touched \subseteq {Target(Located)}
    BY <1>2, LocatedFields DEF Touched, SymDiff, Answer, Response0
  <2>2. PICK name : Target(Located) = Append(Located.file_path, name)
    BY <1>2 DEF Target
  <2>3. AllowedStep
    BY <1>1, <1>2, <2>1, <2>2, TouchedAllowed
  <2>4. response'.static_write_file_fd = NoPath
    BY <1>2, LocatedFields DEF Answer, Response0
  <2> QED
    BY <1>1, <2>3, <2>4 DEF FileStep, StoredStep, GoneStep
<1>3. CASE Answer(Located, disk) \/ Answer(Code(Located, "NOT_FOUND_404"), disk)
  BY <1>1, <1>3, LocatedFields, NothingTouched DEF Code, Response0
<1> QED
  BY <1>2, <1>3 DEF GetMethodHandler

LEMMA UploadFile ==
  ASSUME RequestInv, UploadHandler PROVE FileStep
<1> DEFINE upload == UploadName(Located)
           target == Append(Located.file_path, upload)
           named == [Located EXCEPT !.file_name = upload]
           stored == [named EXCEPT !.static_write_file_fd = target]
<1>1. /\ pc = "process" /\ request.method \in {"POST", "PUT"}
      /\ request.method \in Located.accepted_method
  BY DEF UploadHandler, Accepted
<1>2. CASE /\ Located.path_exist
           /\ Answer(stored, [disk EXCEPT !.files = @ \cup {target}])
  <2>1. /\ response' = stored /\ disk' = [disk EXCEPT !.files = @ \cup {target}]
    BY <1>2 DEF Answer
  <2>2. /\ response'.static_write_file_fd = target
        /\ response'.static_read_file_fd = NoPath
    BY <2>1, LocatedFields DEF Response0
  <2>3. disk'.dirs = disk.dirs /\ disk'.files = disk.files \cup {target}
    BY <2>1, DiskUpdate
  <2>4. Touched \subseteq {target}
    BY <2>2, <2>3 DEF Touched, SymDiff
  <2>5. AllowedStep
    BY <1>1, <1>2, <2>4, TouchedAllowed
  <2>6. PICK key \in DOMAIN found.server.locations : \E dir, name :
          /\ LocatedAs(found.server.locations[key], dir, name)
          /\ AgainAs(found.server.locations[key], dir, name)
    BY <1>1, <1>2, <2>3, LocatedWay
  <2> DEFINE l == found.server.locations[key]
  <2>7. PICK dir, name : LocatedAs(l, dir, name) /\ AgainAs(l, dir, name)
    BY <2>6
  <2> HIDE DEF l
  <2>8. Says(Again, disk', l, dir, name)
    BY <2>3, <2>7, SetBasicSays DEF AgainAs
  <2>9. ASSUME ~(Located.file_name = "" /\ Located.index_name = "")
        PROVE  Target(Again) = target
    <3>1. /\ Located.file_path = dir /\ dir \in disk'.dirs
          /\ Located.file_name = name /\ Located.index_name = l.index
      BY <2>3, <2>7 DEF LocatedAs
    <3>2. target \in disk'.files
      BY <2>3
    <3>3. CASE name # ""
      <4>1. target = Append(dir, name)
        BY <3>1, <3>3 DEF UploadName
      <4> QED
        BY <2>8, <3>1, <3>2, <3>3, <4>1 DEF Says, Target, checkExist
    <3>4. CASE name = ""
      <4>1. target = Append(dir, l.index) /\ l.index # ""
        BY <2>9, <3>1, <3>4 DEF UploadName
      <4> QED
        BY <2>8, <3>1, <3>2, <3>4, <4>1 DEF Says, Target, checkExist
    <3> QED
      BY <3>3, <3>4
  <2> QED
    BY <1>1, <2>2, <2>5, <2>9 DEF FileStep, StoredStep, GoneStep
<1>3. CASE \/ Answer(Code(Located, "BAD_REQUEST_400"), disk)
           \/ Answer(Code(named, "INTERNAL_SERVER_ERROR_500"), disk)
  BY <1>1, <1>3, LocatedFields, NothingTouched DEF Code, Response0
<1> QED
  BY <1>2, <1>3 DEF UploadHandler

LEMMA DeleteFile ==
  ASSUME RequestInv, DeleteMethodHandler PROVE FileStep
<1> DEFINE target == Append(Located.file_path, Located.file_name)
<1>1. /\ pc = "process" /\ request.method = "DELETE"
      /\ request.method \in Located.accepted_method
  BY DEF DeleteMethodHandler, Accepted
<1>2. CASE Answer(Code(Located, "BAD_REQUEST_400"), disk)
  BY <1>2, LocatedFields, NothingTouched DEF Code, Response0
<1>3. CASE /\ Located.path_exist /\ response' = Located
           /\ \/ Located.file_exist /\ disk' = [disk EXCEPT !.files = @ \ {target}]
              \/ ~Located.file_exist /\ disk' = disk
  <2>1. disk'.dirs = disk.dirs /\ disk.files \ disk'.files \subseteq {target}
        /\ disk'.files \subseteq disk.files
        /\ (Located.file_exist => target \notin disk'.files)
    BY <1>3, DiskUpdate
  <2>2. /\ response'.static_write_file_fd = NoPath
        /\ response'.static_read_file_fd = NoPath
    BY <1>3, LocatedFields
  <2>3. Touched \subseteq {target}
    BY <2>1, <2>2 DEF Touched, SymDiff
  <2>4. AllowedStep
    BY <1>1, <1>3, <2>3, TouchedAllowed
  <2>5. PICK key \in DOMAIN found.server.locations : \E dir, name :
          /\ LocatedAs(found.server.locations[key], dir, name)
          /\ AgainAs(found.server.locations[key], dir, name)
    BY <1>1, <1>3, <2>1, LocatedWay
  <2> DEFINE l == found.server.locations[key]
  <2>6. PICK dir, name : LocatedAs(l, dir, name) /\ AgainAs(l, dir, name)
    BY <2>5
  <2> HIDE DEF l
  <2>7. ASSUME Located.file_name # "" PROVE Target(Again) = NoPath
    <3>1. CASE Again = Throw("NOT_FOUND_404")
      BY <3>1 DEF Throw, Response0, Target
    <3>2. CASE Again = setBasic(disk', l, dir, name)
      <4>1. Says(Again, disk', l, dir, name)
        BY <3>2, SetBasicSays
      <4>2. /\ name # "" /\ target = Append(dir, name) /\ target \notin disk.dirs
            /\ Located.file_exist <=> checkExist(disk, target)
        BY <2>6, <2>7 DEF LocatedAs, Leads
      <4>3. target \notin disk'.files
        BY <2>1, <4>2 DEF checkExist
      <4>4. ~is_directory(disk', target)
        BY <2>1, <2>6, <2>7, <4>2, LastOfAppend
        DEF is_directory, WithoutSlash, LocatedAs, Leads, Below
      <4> QED
        BY <4>1, <4>2, <4>3, <4>4 DEF Says, Target, checkExist
    <3> QED
      BY <2>6, <3>1, <3>2 DEF AgainAs
  <2> QED
    BY <2>1, <2>2, <2>4, <2>7 DEF FileStep, StoredStep, GoneStep
<1> QED
  BY <1>2, <1>3 DEF DeleteMethodHandler, Answer

LEMMA OtherFile ==
  ASSUME IInv, \/ NextRequest \/ FindServerOfRequest \/ BadRequest \/ PathFinderThrows
               \/ CgiHandler \/ MethodNotAllowed
  PROVE  FileStep
<1>1. CASE NextRequest \/ FindServerOfRequest
  BY <1>1
  DEF NextRequest, FindServerOfRequest, FileStep, AllowedStep, StoredStep, GoneStep, Processed
<1>2. CASE BadRequest
  <2>1. response = Response0 /\ request.status # "OK_200"
    BY <1>2 DEF BadRequest, IInv
  <2>2. Answer(Code(Response0, request.status), disk)
    BY <1>2, <2>1 DEF BadRequest
  <2> QED
    BY <2>1, <2>2, NothingTouched DEF Code, Response0
<1>3. CASE PathFinderThrows
  BY <1>3, LocatedFields, NothingTouched DEF PathFinderThrows
<1>4. CASE CgiHandler
  <2>1. \/ Answer([Located EXCEPT !.cgi_child_pid = TRUE], disk)
        \/ Answer([Code(Located, "NOT_IMPLEMENTED_501") EXCEPT !.cgi_flag = FALSE], disk)
    BY <1>4 DEF CgiHandler
  <2>2. request.method # "DELETE"
    BY <1>4 DEF CgiHandler, Accepted
  <2> QED
    BY <2>1, <2>2, LocatedFields, NothingTouched DEF Code, Response0
<1>5. CASE MethodNotAllowed
  <2> DEFINE r == [Code(Located, "METHOD_NOT_ALLOWED_405") EXCEPT !.cgi_flag = FALSE]
  <2>1. /\ r.static_read_file_fd = NoPath /\ r.static_write_file_fd = NoPath
        /\ r.status_code # "OK_200"
    BY LocatedFields DEF Code, Response0
  <2> HIDE DEF r
  <2> QED
    BY <1>5, <2>1, NothingTouched DEF MethodNotAllowed, r
<1> QED
  BY <1>1, <1>2, <1>3, <1>4, <1>5
=============================================================================
