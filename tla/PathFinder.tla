----------------------------- MODULE PathFinder -----------------------------
(***************************************************************************)
(* src/src/HttpProcessor/PathFinder.cpp: the location that governs a URI,  *)
(* and the directory and the file it stands for. A path is the sequence of *)
(* its segments, a trailing slash an empty last one; ".." is left out. A   *)
(* location is keyed "/", by the segment of "/segment", or by an extension.*)
(***************************************************************************)
EXTENDS Integers, SequencesExt

CONSTANT Extension      \* of each segment, from its last dot, or "none"

NoPath == <<>>

Response0 ==
  [status_code |-> "OK_200", accepted_method |-> {}, cgi_flag |-> FALSE,
   path_exist |-> FALSE, file_path |-> NoPath, root_path |-> NoPath,
   file_name |-> "", file_exist |-> FALSE,
   index_name |-> "", index_exist |-> FALSE, auto_index |-> FALSE,
   redirection_exist |-> FALSE, rediretion_location |-> "",
   static_read_file_fd |-> NoPath, static_write_file_fd |-> NoPath,
   cgi_child_pid |-> FALSE]

Throw(code) == [Response0 EXCEPT !.status_code = code]

WithoutSlash(path) == IF Last(path) = "" THEN Front(path) ELSE path

is_directory(disk, path) == WithoutSlash(path) \in disk.dirs

checkExist(disk, path) == path \in disk.files \/ is_directory(disk, path)

setIndex(disk, dir, name, index, response) ==
  [response EXCEPT
     !.file_name = name,
     !.file_exist = name # "" /\ checkExist(disk, Append(dir, name)),
     !.index_name = index,
     !.index_exist = index # "" /\ checkExist(disk, Append(dir, index))]

setBasic(disk, location, dir, name) ==
  setIndex(disk, dir, name, location.index,
    [Response0 EXCEPT
       !.accepted_method = location.accepted_method,
       !.path_exist = dir \in disk.dirs,
       !.file_path = IF dir \in disk.dirs THEN dir ELSE NoPath,
       !.root_path = location.root,
       !.auto_index = location.auto_index = "on",
       !.redirection_exist = location.redirection # "",
       !.rediretion_location = location.redirection])

\* Mutant of SetBasic: the size of the body is not looked at.
SetBasicAnySize(disk, request, location, dir, name) ==
  setBasic(disk, location, dir, name)

\* setMaxSize and setBasic, as they are always called.
SetBasic(disk, request, location, dir, name) ==
  IF request.body > location.max_body_size
    THEN Throw("PAYLOAD_TOO_LARGE_413")
    ELSE setBasic(disk, location, dir, name)

\* isEndWithDirectory or else isEndWithFileName.
isEndWith(disk, request, location, path) ==
  IF is_directory(disk, path)
    THEN SetBasic(disk, request, location, WithoutSlash(path), "")
    ELSE SetBasic(disk, request, location, Front(path), Last(path))

isCgiBlock(server, request) ==
  LET key == Extension[Last(request.uri)]
  IN key \in DOMAIN server.locations /\ server.locations[key].ourcgi_pass # NoPath

setCgi(disk, server, request) ==
  LET location == server.locations[Extension[Last(request.uri)]]
  IN IF location.ourcgi_pass \notin disk.files \/ location.ourcgi_index = ""
       THEN Throw("BAD_GATEWAY_502")
       ELSE IF request.body > location.max_body_size
       THEN Throw("PAYLOAD_TOO_LARGE_413")
       ELSE setIndex(disk, location.root, location.ourcgi_index, location.index,
              [Response0 EXCEPT !.cgi_flag = TRUE,
                                !.accepted_method = location.accepted_method])

\* isRootBlock, and the parts of oneSlashInUri and firstBlockIsNotLocation for
\* a first segment that is no location: the location "/" governs, provided
\* the first segment exists below its root.
DefaultLocation(disk, server, request) ==
  LET location == server.locations["/"]
  IN IF "/" \notin DOMAIN server.locations
       THEN Throw("NOT_FOUND_404")
       ELSE IF request.uri = <<"">>
       THEN SetBasic(disk, request, location, location.root, "")
       ELSE IF checkExist(disk, Append(location.root, Head(request.uri)))
       THEN isEndWith(disk, request, location, location.root \o request.uri)
       ELSE Throw("NOT_FOUND_404")

\* oneSlashInUri and firstBlockIsLocation: the first segment is a location, and
\* the rest of the URI is looked up below its root.
NamedLocation(disk, server, request) ==
  LET location == server.locations[Head(request.uri)]
  IN IF Len(request.uri) = 1
       THEN SetBasic(disk, request, location, location.root, "")
       ELSE isEndWith(disk, request, location, location.root \o Tail(request.uri))

DoubleSlash(uri) == \E i \in 1 .. Len(uri) - 1 : uri[i] = ""

PathFinder(disk, server, request) ==
  IF DoubleSlash(request.uri)
    THEN Throw("NOT_FOUND_404")
    ELSE IF isCgiBlock(server, request)
    THEN setCgi(disk, server, request)
    ELSE IF Head(request.uri) \in DOMAIN server.locations
    THEN NamedLocation(disk, server, request)
    ELSE DefaultLocation(disk, server, request)
=============================================================================
