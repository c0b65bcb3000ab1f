----------------------------- MODULE MCWebserv ------------------------------
(***************************************************************************)
(* Model checking of Webserv: configuration files, disks and requests. The *)
(* files follow default.conf: their CGI locations accept GET and POST only.*)
(* cgi_tester.conf:58 adds DELETE, which module Server has as kind         *)
(* cgiNoProc. Words that content.cpp reads and nobody uses are left out.   *)
(***************************************************************************)
EXTENDS WebservProperties

Segments ==
  {"", "up", "sub", "f", "g", "i", "s.py", "gone.py", "t.pl", "old", "default.temp"}

ExtensionOf ==
  [s \in Segments |->
     CASE s \in {"s.py", "gone.py"} -> ".py" [] s = "t.pl" -> ".pl"
       [] s = "default.temp" -> ".temp" [] OTHER -> "none"]

Types == [e \in {".py", ".pl", ".temp", ".html", "none"} |-> "text/html"]

SortedNames == <<".", "..", "default.temp", "f", "g", "i", "s.py", "sub", "up">>

ContentList ==
  {"server", "server_name", "listen", "root", "error_page", "max_body_size", "location",
   "index", "auto_index", "ourcgi_pass", "ourcgi_index", "accepted_method", "redirection"}

ErrorPages == [p \in {<<<<"data">>, "e">>} |-> <<<<"page", 1>>, <<"page", 2>>>>]

End == <<<<"}">>>>

LocationBlock(key, methods, root, more) ==
  <<<<"location", key, "{">>, <<"accepted_method", methods>>, <<"root", root>>>>
    \o more \o End

CgiBlock(key, methods, program, script) ==
  LocationBlock(key, methods, <<"cgi">>,
    <<<<"ourcgi_pass", <<"bin", program>>>>, <<"ourcgi_index", script>>,
      <<"max_body_size", 1>>>>)

Block(ports, lines) ==
  <<<<"server", "{">>, <<"listen">> \o ports, <<"max_body_size", 2>>>> \o lines \o End

Auto == <<<<"auto_index", "on">>>>
Size1 == <<<<"max_body_size", 1>>>>

DefaultConf ==
  Block(<<1>>, <<<<"error_page", "e">>, <<>>>>
    \o LocationBlock("/", {"GET", "HEAD"}, <<"data">>, <<<<"index", "i">>>> \o Auto)
    \o LocationBlock("up", {"GET", "POST", "PUT", "DELETE"}, <<"data", "up">>, Auto \o Size1)
    \o LocationBlock("old", {"GET", "DELETE"}, <<"data">>, <<<<"redirection", "there">>>>)
    \o CgiBlock(".py", {"GET", "POST"}, "py", "s.py")
    \o CgiBlock(".pl", {"GET"}, "gone", "s.py"))

\* Everything is allowed below "/", uploads to a directory go to its index, the
\* CGI script is missing, the other CGI only accepts POST. A second declaration
\* of a name is not looked at.
OpenConf ==
  Block(<<1>>, <<<<"listen", 2>>, <<"error_page", "gone">>>>
    \o LocationBlock("/", {"GET", "HEAD", "POST", "PUT", "DELETE"}, <<"data">>,
                     <<<<"index", "i">>, <<"index", "f">>>> \o Size1)
    \o LocationBlock("/", {"GET"}, <<"cgi">>, <<>>)
    \o CgiBlock(".py", {"GET", "POST"}, "py", "gone.py")
    \o CgiBlock(".pl", {"POST"}, "py", "s.py"))

\* Without a location "/"; the index of one location is a directory; "old", which
\* redirects, accepts a method but GET.
NoDefaultConf ==
  Block(<<1>>, LocationBlock("sub", {"GET", "PUT", "DELETE"}, <<"data", "sub">>,
                             <<<<"index", "f">>>> \o Auto)
    \o LocationBlock("up", {"GET", "POST", "DELETE"}, <<"data", "up">>,
                     <<<<"index", "sub">>>> \o Size1)
    \o LocationBlock("old", {"DELETE"}, <<"data">>, <<<<"redirection", "there">>>>))

NameLine(name) == IF name = Unnamed THEN <<>> ELSE <<<<"server_name", name>>>>

Host(name, ports) ==
  Block(ports, NameLine(name) \o LocationBlock("/", {"GET"}, <<"data">>, Auto))

\* Up to two servers on ports of their own. One without a name after one with
\* two ports is where ServerFinder reads beyond a vector.
Hosts ==
  {Host(n, p) : n \in {Unnamed, "a"}, p \in {<<1>>, <<1, 2>>}}
  \cup {Host(n[1], p[1]) \o Host(n[2], p[2]) :
          n \in {<<Unnamed, Unnamed>>, <<Unnamed, "a">>, <<"a", Unnamed>>, <<"a", "a">>,
                 <<"a", "b">>},
          p \in {<<<<1>>, <<2>>>>, <<<<1, 2>>, <<3>>>>, <<<<1>>, <<3, 2>>>>}}

Plain == LocationBlock("/", {"GET"}, <<"data">>, <<>>)
Drop(s, i) == SubSeq(s, 1, i - 1) \o SubSeq(s, i + 1, Len(s))

\* Files with one line less, with a "}" too few or too many, with lines of words
\* nobody knows, of too few words or of none, with a port twice or without a
\* number, and with a max_body_size in the wrong place or of nothing.
Defective ==
  LET good == Host("a", <<1>>) \o Host("b", <<2>>)
      In(lines) == Block(<<1>>, lines)
  IN {Drop(good, i) : i \in DOMAIN good}
     \cup {good \o End, Tail(good), Host("a", <<1>>) \o Host("b", <<2, 1>>),
           Block(<<0>>, Plain), <<>>,
           In(<<<<"servername", "a">>>>), In(<<<<"location">>>> \o Plain),
           In(<<<<"location", "/">>>> \o Plain), In(<<<<"max_body_size">>>>),
           In(LocationBlock("up", {"GET"}, <<"data">>, <<<<>>>>)),
           In(LocationBlock("up", {"GET"}, <<"data">>, <<<<"index">>>>)),
           In(LocationBlock("up", {"GET"}, <<"data">>, <<<<"max_body_size", 0>>>>)),
           In(LocationBlock("up", {"GET"}, <<"data">>, <<<<"root", <<"cgi">>>>>>) \o Plain),
           <<<<"server", "{">>, <<"listen", 1>>>> \o Plain \o Size1 \o End,
           <<<<"server", "{">>, <<"listen", 1>>, <<"max_body_size">>>> \o Plain \o End,
           <<<<"server", "{">>, <<"max_body_size", 0>>, <<"listen", 1>>>> \o End}

\* Directives of no word, and a server_name of two.
Sparse ==
  {Block(<<1>>, <<<<"root">>, <<"error_page", "e">>, <<"server_name", "a", "b">>>> \o Plain),
   Block(<<1>>, <<<<"error_page">>, <<"server_name">>>> \o Plain)}

Files == {DefaultConf, OpenConf, NoDefaultConf} \cup Hosts \cup Defective \cup Sparse

Tree(files) ==
  [dirs |-> {<<"data">>, <<"data", "up">>, <<"data", "up", "sub">>, <<"data", "sub">>,
             <<"cgi">>},
   files |-> {<<"cgi", "s.py">>, <<"bin", "py">>} \cup files]

Trees == {Tree({}), Tree({<<"data", "i">>, <<"data", "f">>, <<"data", "up", "f">>})}

Uris ==
  {<<"">>, <<"f">>, <<"g">>, <<"up">>, <<"up", "">>, <<"up", "", "f">>, <<"up", "f">>,
   <<"up", "sub", "g">>, <<"up", "f", "">>, <<"sub">>, <<"sub", "f">>,
   <<"g", "f">>, <<"s.py">>, <<"up", "s.py">>, <<"t.pl">>, <<"old">>, <<"old", "f">>}

Request(method, uri, size, status, host) ==
  [method |-> method, uri |-> uri, body |-> size, status |-> status, host |-> host]

HostHere == [form |-> "full", name |-> "x", port |-> 1]

UriRequests ==
  {Request(m, u, 0, "OK_200", HostHere) :
     m \in {"GET", "HEAD", "POST", "PUT", "DELETE"}, u \in Uris}
  \cup {Request(m, u, 2, "OK_200", HostHere) :
          m \in {"GET", "POST", "PUT"},
          u \in {<<"">>, <<"f">>, <<"up", "f">>, <<"sub", "f">>, <<"s.py">>}}
  \cup {Request("PUT", <<"up", "f">>, 1, st, HostHere) :
          st \in {"OK_200", "BAD_REQUEST_400"}}

HostRequests ==
  {Request("GET", <<"up">>, 0, "OK_200", h) :
     h \in [form : {"full"}, name : {"a", "x"}, port : 1 .. 4]
               \cup [form : {"absent", "portless"}, name : {"a"}, port : {1}]}

AllRequests == UriRequests \cup HostRequests

Type == <<"Content-Type:", "text/plain">>
NotFound == <<"Status:", "NOT_FOUND_404">>
Blank == <<"blank">>
Text == <<"text">>

\* With and without each header, in both orders; a body that is empty, has an
\* empty line, or looks like a header; no header at all; the text of
\* CgiHandler::makeErrorPage, whose "Content-type" is not the one looked for.
Outputs ==
  {<<Type, Blank, Text>>, <<NotFound, Type, Blank, Text>>, <<Type, NotFound, Blank, Text, Text>>,
   <<Type, Blank>>, <<Type, Blank, Text, Blank, Text>>, <<Type, Blank, Type, Blank, Text>>,
   <<NotFound, Type, Blank, <<"Status:", "OK_200">>>>, <<Blank, Type, Blank, Text>>,
   <<Text>>, <<Text, Blank, Text>>, <<<<"Status:", "NOT_IMPLEMENTED_501">>, Text, Blank, Text>>}

NoOutput == {<<>>}
JustDefault == {DefaultConf}
CgiRequests == {r \in UriRequests : r.uri = <<"s.py">>}
=============================================================================
