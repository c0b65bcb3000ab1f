------------------------------- MODULE Config -------------------------------
(***************************************************************************)
(* src/src/Config/, and the start of the server from what it read: the     *)
(* configuration file line by line, then one listening socket per port.    *)
(* A line is the sequence of its words (ft_config_split); a word is an     *)
(* abstract value, an absent one the value the code takes "" for.          *)
(***************************************************************************)
EXTENDS Integers, SequencesExt

CONSTANTS ConfigFiles,         \* sequences of lines
          vaild_content_list,  \* the directives of server_content.conf
          Pages                \* the bytes of each <<directory, file>> there is

\* Lines are vectors of words; the word after "root" is a path, the one after
\* "max_body_size" what atol makes of it.
ASSUME ConfigFilesAssumption ==
  \A f \in ConfigFiles :
    /\ Len(f) \in Nat /\ f = [i \in 1 .. Len(f) |-> f[i]]
    /\ \A i \in 1 .. Len(f) :
         LET line == f[i] IN
         /\ Len(line) \in Nat /\ line = [k \in 1 .. Len(line) |-> line[k]]
         /\ Len(line) > 1 /\ line[1] = "root" =>
              Len(line[2]) \in Nat /\ line[2] = [k \in 1 .. Len(line[2]) |-> line[2][k]]
         /\ Len(line) > 1 /\ line[1] = "max_body_size" => line[2] \in Int

VARIABLES file,                \* the file; nothing but properties looks at it
          rest,                \* the lines getline() has not returned yet
          block,               \* where the reader is: "top", "server" or
                               \* "location"; then "listening", "exit", or
                               \* "undefined" after a read beyond a vector
          temp_conf, temp_locations, location_key, temp_location_map,
          server_max_size,     \* the locals of the two inner functions
          m_server_conf

locationVars == <<location_key, temp_location_map, server_max_size>>
serverVars == <<temp_conf, temp_locations>>
configVars == <<file, rest, block, serverVars, locationVars, m_server_conf>>

Unnamed == "none"    \* server_name of a t_server without one
NoWords == <<>>      \* an empty vector, and an empty map
OpenBrace == "{"     \* ends a line that starts a block
CloseBrace == "}"    \* starts a line that ends one

ConfigInit ==
  /\ file \in ConfigFiles /\ rest = file
  /\ block = "top"
  /\ temp_conf = NoWords /\ temp_locations = NoWords
  /\ location_key = "" /\ temp_location_map = NoWords /\ server_max_size = 0
  /\ m_server_conf = <<>>

\* Mutant of Insert: the last duplicate wins.
InsertLast(map, key, value) ==
  [k \in DOMAIN map \cup {key} |-> IF k = key THEN value ELSE map[k]]

\* std::map::insert leaves an element that is there alone.
Insert(map, key, value) ==
  [k \in DOMAIN map \cup {key} |-> IF k \in DOMAIN map THEN map[k] ELSE value]

\* operator[] makes an absent element with the default of its type.
At(map, key, absent) == IF key \in DOMAIN map THEN map[key] ELSE absent

Line == IF rest = <<>> THEN <<>> ELSE Head(rest)
InBlock(b) == block = b /\ rest # <<>>
Starts(word) == Line # <<>> /\ Line[1] = word
Closing(b) == block = b /\ (rest = <<>> \/ Starts(CloseBrace))
NextLine == rest' = IF rest = <<>> THEN <<>> ELSE Tail(rest)
Directive(b) == InBlock(b) /\ Line # <<>> /\ Line[1] \in vaild_content_list \ {CloseBrace}

(***************************************************************************)
(* get_location_expand.                                                    *)
(***************************************************************************)
ReadLocationDirective ==
  /\ Directive("location") /\ Len(Line) = 2
  /\ temp_location_map' = Insert(temp_location_map, Line[1], Line[2])
  /\ NextLine
  /\ UNCHANGED <<file, block, serverVars, location_key, server_max_size, m_server_conf>>

(* The t_location. server_max_size is "", which atol takes for 0, when the   *)
(* server had no max_body_size before the location.                          *)
Location(map) ==
  [accepted_method |-> At(map, "accepted_method", {}), root |-> At(map, "root", <<>>),
   index |-> At(map, "index", ""), auto_index |-> At(map, "auto_index", ""),
   ourcgi_pass |-> At(map, "ourcgi_pass", NoWords),
   ourcgi_index |-> At(map, "ourcgi_index", ""),
   redirection |-> At(map, "redirection", ""),
   max_body_size |-> At(map, "max_body_size", server_max_size)]

isVaildLocationBlock(map) ==
  /\ At(map, "max_body_size", 1) > 0
  /\ At(map, "root", <<>>) # <<>>
  /\ At(map, "accepted_method", {}) # {}

CloseLocation ==
  /\ Closing("location") /\ isVaildLocationBlock(temp_location_map)
  /\ temp_locations' = Insert(temp_locations, location_key, Location(temp_location_map))
  /\ block' = "server" /\ NextLine
  /\ UNCHANGED <<file, temp_conf, locationVars, m_server_conf>>

(***************************************************************************)
(* get_parse_server_block.                                                 *)
(***************************************************************************)
SkipBlank ==
  /\ InBlock("server") /\ Line = <<>>
  /\ NextLine
  /\ UNCHANGED <<file, block, serverVars, locationVars, m_server_conf>>

ReadDirective ==
  /\ Directive("server") /\ ~Starts("location")
  /\ temp_conf' = Insert(temp_conf, Line[1], Tail(Line))
  /\ NextLine
  /\ UNCHANGED <<file, block, temp_locations, locationVars, m_server_conf>>

(* The size a location inherits is the one declared above it.               *)
ReadLocation ==
  /\ Directive("server") /\ Starts("location") /\ Len(Line) = 3
  /\ At(temp_conf, "max_body_size", <<0>>) # <<>>
  /\ block' = "location" /\ NextLine
  /\ location_key' = Line[2] /\ temp_location_map' = NoWords
  /\ server_max_size' = At(temp_conf, "max_body_size", <<0>>)[1]
  /\ UNCHANGED <<file, serverVars, m_server_conf>>

(* The page is sought below root, and is empty when there is none.          *)
openErrorPage(conf) ==
  LET root == IF At(conf, "root", <<>>) = <<>> THEN <<"data">> ELSE conf["root"][1]
  IN IF At(conf, "error_page", <<>>) = <<>>
       THEN <<>> ELSE At(Pages, <<root, conf["error_page"][1]>>, <<>>)

ServerBlock(conf, locations) ==
  [server_name |-> IF At(conf, "server_name", <<>>) = <<>>
                     THEN Unnamed ELSE conf["server_name"][1],
   listen |-> At(conf, "listen", <<>>),
   max_body_size |-> At(conf, "max_body_size", <<>>),
   error_page_vector |-> openErrorPage(conf),
   locations |-> locations]

\* Mutant of isVaildServerBlock: a server without a port is let through.
isVaildWithoutListen(conf) ==
  /\ At(conf, "max_body_size", <<>>) # <<>>
  /\ conf["max_body_size"][1] > 0

isVaildServerBlock(conf) ==
  /\ At(conf, "listen", <<>>) # <<>>
  /\ At(conf, "max_body_size", <<>>) # <<>>
  /\ conf["max_body_size"][1] > 0

CloseServer ==
  /\ Closing("server") /\ isVaildServerBlock(temp_conf)
  /\ m_server_conf' = Append(m_server_conf, ServerBlock(temp_conf, temp_locations))
  /\ block' = "top" /\ NextLine
  /\ UNCHANGED <<file, serverVars, locationVars>>

(***************************************************************************)
(* set_m_server_conf, and the errors of all three functions.               *)
(***************************************************************************)
ReadServer ==
  /\ InBlock("top") /\ Line = <<"server", OpenBrace>>
  /\ block' = "server" /\ NextLine
  /\ temp_conf' = NoWords /\ temp_locations' = NoWords
  /\ UNCHANGED <<file, locationVars, m_server_conf>>

Halt(how) == block' = how /\ UNCHANGED <<file, rest, serverVars, locationVars, m_server_conf>>

Unknown(b) == InBlock(b) /\ Line # <<>> /\ Line[1] \notin vaild_content_list \cup {CloseBrace}

RefuseLine ==
  /\ \/ InBlock("top") /\ Line # <<"server", OpenBrace>>
     \/ Unknown("server") \/ Unknown("location")
     \/ Directive("server") /\ Starts("location") /\ Len(Line) # 3
     \/ Directive("location") /\ Len(Line) # 2
  /\ Halt("exit")

RefuseBlock ==
  /\ \/ Closing("location") /\ ~isVaildLocationBlock(temp_location_map)
     \/ Closing("server") /\ ~isVaildServerBlock(temp_conf)
  /\ Halt("exit")

(* split_content_line[0] of a blank line in a location, [1] of a lone        *)
(* "location", and [0] of a max_body_size without a value.                   *)
ReadBeyondLine ==
  /\ \/ InBlock("location") /\ Line = <<>>
     \/ Directive("server") /\ Line = <<"location">>
     \/ Directive("server") /\ Starts("location")
          /\ At(temp_conf, "max_body_size", <<0>>) = <<>>
  /\ Halt("undefined")

(***************************************************************************)
(* Server::Server.                                                         *)
(***************************************************************************)
\* Each port with its place in the configuration.
Ports ==
  UNION {{<<s, i>> : i \in DOMAIN m_server_conf[s].listen} : s \in DOMAIN m_server_conf}

Port(place) == m_server_conf[place[1]].listen[place[2]]

setServers == \A p, q \in Ports : Port(p) = Port(q) => p = q
setSocket == \A p \in Ports : Port(p) > 0

Listen ==
  /\ block = "top" /\ rest = <<>>
  /\ setServers /\ setSocket
  /\ Halt("listening")

(* A port twice or without a number; or the system refuses a socket, its      *)
(* address or kqueue(), which may happen to any configuration.                *)
RefuseStart == block = "top" /\ rest = <<>> /\ Halt("exit")

ConfigNext ==
  \/ ReadServer \/ SkipBlank \/ ReadDirective \/ ReadLocation \/ CloseServer
  \/ ReadLocationDirective \/ CloseLocation
  \/ RefuseLine \/ RefuseBlock \/ ReadBeyondLine
  \/ Listen \/ RefuseStart

ConfigSpec == ConfigInit /\ [][ConfigNext]_configVars
=============================================================================
