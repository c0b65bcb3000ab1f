------------------------------ MODULE MCParser ------------------------------
(***************************************************************************)
(* Model checking of Parser: the connections a client may have.             *)
(***************************************************************************)
EXTENDS ParserProperties

Bodiless(start, hs) == [start |-> start, headers |-> hs, body |-> <<>>, chunks |-> <<>>]
WithBody(start, hs, b) == [start |-> start, headers |-> hs, body |-> b, chunks |-> <<>>]
InChunks(start, cs) ==
  [start |-> start, headers |-> <<"TE", "Host">>, body |-> <<>>, chunks |-> cs]

GoodRequests ==
  {Bodiless("GET", <<>>), Bodiless("GET", <<"Host">>),
   Bodiless("PATCH", <<"Host">>),
   Bodiless("POST", <<"Host", "CL0">>),
   WithBody("POST", <<"CL1">>, <<"LF">>),
   WithBody("POST", <<"CL2", "Host">>, CRLF),
   WithBody("OPTIONS", <<"CL2">>, <<"x", "CR">>),
   InChunks("POST", <<>>),
   InChunks("POST", <<<<"x">>, <<"x", "x">>>>)}

Good == GoodRequests \X GoodRequests

Refused ==
  {<<r>> : r \in
     {Bodiless("BADLINE", <<"Host">>),
      Bodiless("GET", <<"NOCOLON", "Host">>),
      Bodiless("GET", <<"Host", "Host">>),
      WithBody("POST", <<"CL1", "CL2">>, <<"x">>),
      WithBody("POST", <<"NOCOLON", "CL2">>, <<"x", "x">>),
      Bodiless("OPTIONS", <<"Host">>)}}

\* A request that is never handed over.
Untold == {<<Bodiless("GET", <<"Host">>), Bodiless("POST", <<"Host">>)>>}

AllSessions == Good \cup Refused \cup Untold
=============================================================================
