# cuteWebserv in TLA+

TLA+ models, TLC configurations and TLAPS proofs about cuteWebserv, the
single-threaded HTTP/1.1 server of this repository. Paths are relative to the
repository; `client.cpp:88` and the like, without a directory, are files of
`src/Server/event/`, `src/Server/socket/`, `src/Parser/`, or the directory of their
component.

## 1. The system

| Component | State it keeps | Operations |
|---|---|---|
| Event loop and connections (`src/Server/Server.cpp`, `server.cpp`, `client.cpp`, `udata.cpp`, `accept.cpp`) | `m_kqueue.change_list`, `event_list`, `m_udata_map`, `m_fd_set`, the `t_event_udata` objects | `Server::start`, `serverReadEvent`, `clientReadEvent`, `clientWriteEvent`, `addUdataMap`, `removeUdata`, `clearUdata` |
| Static files and uploads (`static_file.cpp`) | `static_read_file_fd`, `static_write_file_fd`, `m_file_write_offset`, `body` | `addStaticRequestEvent`, `staticFileReadEvent`, `fileWriteEvent` |
| CGI events (`pipe.cpp`, `process.cpp`) | `m_read_pipe_fd`, `m_write_pipe_fd`, `m_child_pid`, `m_read_buffer` | `addCgiRequestEvent`, `pipeReadEvent`, `pipeWriteEvent`, `cgiProcessTimeoutEvent` |
| CGI processes (`src/CgiHandler/`) | two pipes and a child | `pipeAndFork`, `outsourceCgiRequest`, `executeCgi` |
| Parser (`src/Parser/`) | `RequestPool`, `Request` | `readBuffer` and one function per phase |
| ServerFinder, PathFinder, HttpProcessor, method handlers | fields of `Response`, `Request::status`, the files on the disk | choose the virtual server, the location, the file, the method; open, create, truncate, remove |
| ResponseGenerator | `Response::status_code`, `body`, `response_message` | `generateResponseMessage` |
| Configuration (`src/Config/`) | `m_server_conf`: `t_server`, `t_location` | `set_m_server_conf`, `get_parse_server_block`, `get_location_expand` |
| Start-up (`main.cpp`, `setServers.cpp` to `kqueue.cpp`) | `servers`, the listening sockets | `Server::Server` |
| Log, helpers | | output and strings |

How they interact. `main` reads the configuration once, opens a listening socket per
port, and starts the loop; every `t_event_udata` has a copy of the virtual servers. One thread runs `Server::start`: `kevent()` applies the change
list and returns a batch of events; each event carries a pointer to a
`t_event_udata`, and the handler is chosen by the filter and by the type the
object has *now* (`getEventStatus`). A connection has one object that reads the
next request, and one more object per request being served. When its Parser has a
complete request, `clientReadEvent` calls ServerFinder and HttpProcessor, turns the
reading object into a STATIC_FILE or PIPE object (or leaves it a CLIENT with a
message to write), and creates a new reader for the same socket. The object returns
to type CLIENT when its message is ready, `clientWriteEvent` writes it and deletes
the object. A failure puts the socket into `m_fd_set`; after the batch,
`clearUdata` closes everything that `m_udata_map` lists for that socket.

What is hard about it:

- **stale events**: objects are retyped, deleted, and descriptors closed and
  reused, while the rest of the batch still refers to them;
- **shared filters**: a (descriptor, filter) pair holds one pointer, so
  registering it for another object, or deleting it, affects both;
- **blocking calls** in the only thread: `accept()` on a blocking socket and
  `waitpid()` in three places;
- **accounting**: each descriptor, child, timer and object must be released
  exactly once, whatever path the request takes (done, failed, timed out, its
  client gone);
- **shared files**: requests for one file open, truncate, extend and remove it while
  others are half-way through it;
- **decisions taken apart**: the reader of the configuration, ServerFinder, PathFinder,
  HttpProcessor and ResponseGenerator each decide from what the one before left in a
  `Response`, and nothing but that record holds them together;
- **segmentation**: requests arrive in arbitrary pieces, and the parser must be
  able to stop and go on at each of them.

Correctness of each component, in one line each: the event loop uses no deleted
object, loses no filter a request waits for and closes no connection but those whose
client left; CGI handling waits for each child once and never makes other clients
wait; transfers of one file do not mix; the parser hands over the requests that were
sent, whatever the cuts; the configuration means what its file says and the answer to a
request is what the configuration, the disk and the CGI program make of it; all of it
together gives each client the responses to its requests in order.

## 2. Modules

| Module | Models | Extends |
|---|---|---|
| `ServerState` | the objects, the maps, the kernel's descriptor table, knotes, connections, children; system calls as operators | |
| `ServerHandlers` | one action per event handler, `clearUdata` | `ServerState` |
| `Server` | `kevent()`, the loop, the clients, the children; `Spec`, `FairSpec`, `ChildFairSpec` | `ServerHandlers` |
| `HttpService` | abstract specification: what clients may rely on | |
| `ServerProperties` | type invariant, invariants, action and liveness properties, refinement mapping to `HttpService` | `Server` |
| `ServerProofs` | types, and the listening socket | `ServerProperties`, TLAPS |
| `ServerInvariant` | `Accounts`, the inductive invariant behind memory and descriptors; `Orderly`, the instances it holds for | `ServerProperties` |
| `ServerObjectsProofs` | what each handler does to the objects and descriptors; that they stay right | `ServerInvariant`, `ServerProofs` |
| `ServerInvariantProofs` | the filters, the batch, the clients and the children; the theorems | `ServerObjectsProofs` |
| `ServerTurns` | `Turns` and `Woken`, the inductive invariant behind what the clients see; `InTurn`, the instances it holds for | `ServerInvariant` |
| `ServerTurnsProofs` | the clients' turns, the filters requests wait for, the refinement to `HttpService` | `ServerTurns`, `ServerInvariantProofs` |
| `MCServer` | model-checking instance: symmetry of the clients | `ServerProperties` |
| `HttpRequest` | external: requests, their encoding, and what they deserve | |
| `Parser` | `Parser::readBuffer` turn by turn | `HttpRequest` |
| `ParserProperties`, `ParserProofs`, `MCParser` | as above, for the parser; `MCParser` has the connections | `Parser` |
| `FileTransfers` | requests that share one file: open, truncate, read, write, remove, piece by piece | |
| `FileTransfersProperties`, `FileTransfersProofs`, `MCFileTransfers` | as above, for the transfers | `FileTransfers` |
| `Config` | the reader of the configuration file line by line, and start-up | |
| `ConfigProperties` | what a file means, defined on the places of its lines | `Config` |
| `ServerFinder` | the choice of the virtual server, as operators | |
| `PathFinder` | URI to location, directory and file, as operators | |
| `HttpProcessor` | ServerFinder, then HttpProcessor and its method handlers, request after request on a disk that changes | `ServerFinder`, `PathFinder` |
| `HttpProcessorProperties` | what one request may do, and what it promises the next | `HttpProcessor` |
| `ResponseGenerator` | the message made of a Request, a Response and a body, as operators | `PathFinder` |
| `Webserv` | the composition: `Config`, then `HttpProcessor` on what it read, then the message of `ResponseGenerator` | the three |
| `WebservProperties`, `MCWebserv` | what a client is told; `MCWebserv` has the configuration files, disks, requests and CGI outputs | `Webserv` |
| `HttpProcessorProofs`, `WebservProofs` | theorems about `WebservSpec` | `WebservProperties`, TLAPS |

How the parts fit. `Server` has the concurrency and takes from the rest only *how* a
request will be served (`kind`). `Webserv` has everything that decides about one request,
from the configuration file to the bytes of the answer, and takes requests one after the
other. `Parser` and `FileTransfers` go into what `Server` treats as a unit: the arrival of
a request, and a file that others use at the same time.

### 2.1 The event loop

| State | Code |
|---|---|
| `heap[u]` | the `t_event_udata` at address `u` with its `Response` and `t_response_write`; a freed address is not used again, so that a later use shows |
| `m_udata_map`, `m_fd_set`, `change_list` | the members of `Server` of these names |
| `event_list` | the events of the batch not dispatched yet. The loop takes them in array order and the kernel fills the array in any order, so `Dispatch` takes any |
| `pc` | `kevent`: before or in `kevent()`; `dispatch`: in the batch, and after it in `clearUdata`; `accept`, `reapPipe`, `reapTimeout`, `reapClear`: asleep in `accept()` or in one of the three `waitpid()`; `killed`: ended by SIGPIPE; `undefined`: after a use of a deleted object |
| `cur` | the event whose handler sleeps |
| `fdt`, `knotes`, `conn`, `proc` | the kernel: descriptors (lowest free number first), filters, connections, children |

A handler runs to its end in one step: nothing else runs in the process. What
changes around it is what the system calls see, and that changes between steps; the
one exception is a blocking call, where the handler is cut in two. `kevent()` is cut
into one step per change and one that returns a batch.

`kind` is how a request will be served, chosen when it is processed: `inline` (an
answer without a file), `file`, `empty`, `upload`, `cgiGet`, `cgiPost`, `cgiNoProc`
(a PUT, DELETE or HEAD that a CGI location accepts). Each `Kinds` allows is tried;
when no descriptor is left to serve it, the request is answered inline, as the code
does. `Faults` enables what may go wrong around the server:

| Fault | What happens |
|---|---|
| `fin` / `reset` | the client shuts down its side / the connection is reset |
| `abort` | the connection goes between `kevent()` and `accept()` |
| `timeout` | a CGI timer expires (at any moment) |
| `early` / `closeStdout` / `crash` | a child exits before it read its input / closes its stdout and runs on / is killed by a signal |
| `ioError` | `read()` or `write()` of a file or pipe fails |

Abstractions that matter: a segment is what one `recv()` returns, and the parser's
state in `Server` is which segment its request starts with (module `Parser` has the
rest); a message is `ResponseLen` units tagged with client, request and position; a
change that fails comes back as an EV_ERROR event, which the loop skips, so it is
dropped; uploads and CGI bodies have at least one unit; a child holds no descriptor but
the two ends of its pipes. A handler that reads or writes through a number that became
somebody else's descriptor in the same batch is taken for a failed transfer, except in
`clientWriteEvent`, where the units really go to the other descriptor. The end of a pipe carries
EV_EOF like the end of a connection (pipe.cpp:38): when the timer of the same batch has made the
object a CLIENT, `ClientReadEof` takes the number of the pipe for that of a socket.

### 2.2 The parser

`pool` is `RequestPool`: `total_line` is `input` from `base` on, `line_len` symbols of
it. One action is one turn of the loop in `readBuffer`; `ReadBuffer` is the call with new
data, `NewParser` the hand-over in `clientReadEvent`. A symbol is CR, LF, any other byte
of a body (`x`), or the whole text of a line, which the parser never looks into before
it found the line's end. What clients send is `Sendable` (`SessionsAssumption`): the body is as
long as the headers announce, the first Content-Length if there are several; there is none
after a GET or PATCH; no chunk is empty or has a line end in it. What the server must make of a
request, `ExpectedStatus` and `ExpectedBody`, is in `HttpRequest` too.

### 2.3 Files

| State | Code |
|---|---|
| `name` | the directory entry: the file of that name, or none |
| `content[f]` | the bytes of a file; a removed one lives on while a descriptor leads to it |
| `transfer[t]` | the request: its method, the file its descriptor leads to, `offset` (`m_file_write_offset`, or the position of the descriptor), `size` (`static_read_file_size`), `body` (of the Response), `length` (of the request's body) |
| `opened[t]`, `disturbed[t]` | history for the properties: the file when a GET opened it; the methods of other requests that changed it since |

`Get`, `Post`, `Put`, `Delete` are the method handlers with what `addStaticRequestEvent`
does next; `staticFileReadEvent` and `fileWriteEvent` are one event each; `Abandon` is a
failed transfer or the departure of the client, at any moment. A unit of a file is tagged
with the request that wrote it. A filter for reading fires when the position is not the
end of the file; a `write()` may take any part.

### 2.4 Configuration and start-up

`rest` is what `getline()` has not returned yet, `block` the function that reads:
`top` (`set_m_server_conf`), `server` (`get_parse_server_block`), `location`
(`get_location_expand`); then `listening`, `exit` for the many calls of `exit()`, and
`undefined` after a read beyond the words of a line. `temp_conf`, `temp_locations`,
`location_key`, `temp_location_map` and `server_max_size` are the locals and arguments of
these functions. One action is one line; `CloseLocation` and `CloseServer` have the checks
at the end of a block, and with `CloseServer` the error page is read. `Listen` is
`Server::Server`: no port twice, none without a number. `RefuseStart` is every other end
of start-up. A word is an abstract value; what `atol` makes of `""` is 0.

### 2.5 From request to answer

`HttpProcessor` has one action per branch of the constructor of that name, each with its
whole method handler and, for CGI, the start of the child. PathFinder and ServerFinder are
functions of the disk, the servers and the request. `find_server_name` keeps the loop bounds
of the source: its second loop runs over the ports of `servers[i]` and reads those of
`candidates[i]`, and a read beyond them is the state `undefined`. The vector `candidates` is the
set of its servers' places in `servers`; `Number` is the index of a candidate in it.

`Webserv` starts with the file. When the server listens, `Start` takes the first request to
it; each request goes through `HttpProcessor` and then one of `RespondFile`,
`RespondUpload`, `RespondInline` (errors, removals, listings), `RespondCgi` with any output
of `CgiOutputs`, `RespondTimeout`, or `CloseConnection` (a child killed by a signal, an
index that is a directory). `message` is what `generateResponseMessage` makes: status, length,
type, location and body, the body a sequence of units. The text of an error page,
an entry of a listing, a header line of a CGI program are one unit each; the blank line that
ends the headers is one, so that it can occur in the body too. `cgiDataProcess` searches them
the way the code searches bytes. A listing is the names in the directory, `Entries` with "." and
"..", `Sorted`: at place `i` is the name that `i` of them do not sort after; `Names` has the names
of files in the order of `std::string`. An iterator nobody set is the message `Undefined`.

## 3. What the runs check

`CHECK_DEADLOCK FALSE` in every run: clients send a bounded number of requests, transfers
end, and a configuration may be refused; then the system really stops.

| Run | Instance | Shows |
|---|---|---|
| `keep_alive` | 2 clients, 2 requests each over a kept-alive connection, answered at once in responses of 2 writes, `fin`; `FairSpec` | the types, nothing of a departed client stays (`NothingLeftBehind`), and the server implements `HttpService` with its liveness |
| `cgi` | 2 clients, 2 children, POST to a CGI, files of 2 reads, `fin`; `ChildFairSpec` | descriptors belong to whoever keeps their number (`DescriptorsOwned`), none leaks, no filter a request waits for is lost (`NoLostWakeup`), and `HttpService` is implemented when children end |
| `clients` | 2 clients, 2 pipelined requests each, 3 descriptors, batches of 2 events; `fin`, `reset`, `abort` | readers, the listening socket, leaks; only clients that left are disconnected |
| `children` | 2 clients, 1 process id, GET and POST to a CGI, files, empty ones too, responses of 2 writes; `fin`, `timeout`, `early`, `closeStdout` | each child waited for once; no deleted object used, no filter dangling; the map exact, all of it while numbers closed twice are reused |
| `odd_requests` | uploads and CGI bodies of 2 writes, files, CGI without a process, crashing children, requests of 2 segments, responses of 2 writes; `fin`, `crash`, `ioError` | descriptor numbers kept are right, every client has its reader (`EveryClientHeard`), responses arrive in order and whole (`InOrder`) |
| `segmentation` | 81 pairs of good requests of 9 shapes, 6 refused requests, one without a length; every cut | the parser's properties |
| `requests` | 57 configuration files: 3 in the style of default.conf, 19 with one or two virtual servers, 33 defective ones, 2 with directives of no word or one too many; 2 disks; 17 URIs, 5 methods, 2 body sizes, 10 Host headers; 11 CGI outputs | what `ConfigProperties`, `HttpProcessorProperties` and `WebservProperties` say: from the lines of the file to the answer |
| `transfers` | 3 requests for one file of 3 units, bodies of up to 2, reads of 2 | a GET is a snapshot, uploads are kept, transfers end |
| `blocked_by_child`, `cross_talk`, `no_process`, `silent_cgi` | see section 5 | one violation each |

The properties of `requests`, in the order a request meets them:

- `AsWritten`: `m_server_conf` is what the lines of a balanced file say, found by their
  places and not by reading on: the first declaration of a block wins, a location inherits
  the size declared *above* it.
- `Usable`: a server that listens has ports, a size, complete locations, and each port once.
- `RightServer`: ServerFinder takes a server of the right port and name, and takes none only when
  each server on the port is passed over for a reason: another's name, an earlier server of
  the same name, or no name while some server has the one asked for, or comes before.
- `OnlyAsAllowed`, `RefusedHasNoEffect`, `ChildForCgi`: what a request does to files and
  children is what its location allows, and nothing when it is refused.
- `StoredIsServed`, `DeletedIsGone`: what an upload or a removal promises the next request.
- `Framed`: the Content-length is the length of what follows.
- `ToldAsConfigured`: errors have the error page of the server's lines in the file,
  redirections are for GET, go where the file says, and have no body.
- `CgiDelivered`: status, type and body of a CGI program reach the client; one without a
  Content-Type is no success, and one that wrote nothing in time is a 502.
- `ListingComplete`: a listing names what there is at that moment, once each, in order.

Why these bounds. Two clients are enough for one to harm the other: every rule of the
loop is about one object, one descriptor, or a pair of them. Two requests make a
connection go from reader to reader. `Fds` has a number for everything that can be open
at once, except in `clients`, where it is too small on purpose; the lowest-number rule of
the kernel makes reuse happen in all of them. `Udatas` is clients × (requests + 1), the
number of objects that can be created, and one more in `children`, where a request may be
processed again after its timer expired; that each event of a batch has a handler that can take
it was checked in the instances of the passing runs, so that no bound cuts a behaviour short.
Responses of two writes keep an object alive from batch to batch; `clients`, which is too large
with them, and `cgi`, which takes three minutes with them and holds, have responses of one. `MaxEvents` is larger than any batch, except in
`clients`. Two reads, writes or segments are what it takes to stop in the middle. In `transfers` a
file of 3 units and reads of 2 make a last read that is shorter than the buffer and one
that is not; three requests let two change a file that a third one reads, or one remove
it and another make it anew in the meantime. In `requests` a file has two servers and two
declarations of what may be declared twice; each line of a good file is dropped in turn;
a CGI output has up to two blank lines and every header in both orders; requests follow each other on
one disk without a bound.
`MaxRecv` is longer than any stream, so that `recv()` may return everything at once. The
clients are symmetric; symmetry is used in the runs without liveness.

### 3.1 Which property under which fault

A property is checked in the run whose faults it can survive. What was seen of the
others:

| With | Fails | Because |
|---|---|---|
| `empty` | `DescriptorsOwned`; with responses of 2 writes also `NoLostWakeup`, `NothingLeftBehind`, `ServiceSpec` | static_file.cpp:20 closes the file but keeps its number, and `clearUdata` closes the number again when the client leaves with half of its answer: another client's socket perhaps |
| `timeout` | `DescriptorsOwned`, `InOrder`; with files and responses of 2 writes also `NoLostWakeup` | process.cpp:82 closes both pipes but keeps their numbers, which `clearUdata` closes again; the end of the output and the timer in one batch append two messages |
| `timeout`, two children | `MapExact` | a write event left from a request that timed out is taken for the pipe of the next child |
| `crash` | `ChildrenTracked`, `ClosesOnlyDeparted` | pipe.cpp:54 keeps the pid of a child already waited for; the client is dropped on purpose |
| `early` or `closeStdout`, three clients or two children | `InOrder`, `MapExact`, `NoUseAfterFree`, `ClosesOnlyDeparted` | run `cross_talk` |
| `cgiNoProc` | `NoLostWakeup`; with `fin` or `timeout` also `NoDanglingKnote`, `NoUseAfterFree` | run `no_process`; the timer on pid -1 is never deleted |
| `upload` of 2 writes with `fin`, or with `ioError` | `NoDescriptorLeak`, `NoDanglingKnote`, `NoUseAfterFree` | `clearUdata` forgets `static_write_file_fd` (udata.cpp:71) |
| `ioError` | `ClosesOnlyDeparted` | the client is dropped on purpose |
| pipelining | `InOrder`, `NoLostWakeup` | section 6 |
| `reset`, `abort` | nothing | |

## 4. Fairness

- `WF(ServerStep)`: one thread in a loop; when it can go on it does. It is disabled
  while the process sleeps, so a blocking `waitpid()` really blocks.
- `WF(Drain(c))`: a client that stays reads what it is sent.
- `WF(ChildDies(p))`: SIGTERM ends a child. A child that ignores it would stop the
  server for ever; the code has no SIGKILL.
- `ChildFairSpec` adds `WF(ChildReads)` and `WF(ChildExits)`: children read their input
  and end. Only `cgi` assumes that; `blocked_by_child` shows what happens without.
- Nobody is obliged to connect, to send or to leave, and no timer to expire.
- `Parser`: weak fairness of `Next`; the client sends its requests to the end.
- `FileTransfers`: weak fairness of each transfer's read and write events: a filter that is
  ready is in a batch in the end, and every event of a batch is handled. No request is
  obliged to begin, and none to be abandoned.
- `Webserv` has no fairness: its properties are about what is answered, and that answers
  come is checked in `Server`.

## 5. Findings

| Run | Property | What |
|---|---|---|
| `blocked_by_child` | `NoClientWaitsForAChild` | A child that closes its stdout and runs on stops the server: pipe.cpp:42 waits for it in the only thread. |
| `cross_talk` | `InOrder` | pipe.cpp:60 closes the write pipe and turns the object into a CLIENT while a write event of that pipe is still in the batch. A client accepted in between gets the number, and the response. |
| `no_process` | `NoLostWakeup` | A PUT, DELETE or HEAD that a CGI location accepts (cgi_tester.conf:58 has one) keeps `cgi_flag` without a child: the loop waits for descriptor -1. |
| `silent_cgi` | `ErrorAlwaysTold` | A CGI program that writes nothing and exits: `cgiDataProcess` throws (ResponseGenerator.cpp:38) before it sets `m_cgi_body_it`, and the error message is then counted and copied from that iterator (ResponseGenerator.cpp:206, :322). The comment at ResponseGenerator.cpp:344 promises an error message. |

## 6. Seen while modelling, kept by no run

- Pipelined requests: client.cpp:88 reads the next request while the previous one is
  served; both objects register the same (socket, write) filter, so that of two responses
  ready at once the first is never sent. With `Pipelining = TRUE`, `Segments = 1` and files,
  `InOrder` and `NoLostWakeup` fail.
- Of two GETs in one segment the second is lost with the parser of the first
  (client.cpp:81), and what follows a body in its segment is taken for body and makes the request a
  400 (parseBody.cpp:9): `EveryRequestParsed`, `Faithful` and `Aligned` fail with
  `Pipelining = TRUE` in `Parser`.
- A malformed start line followed by an empty line is never answered
  (parseFirstLine.cpp:39): the phase stays READY.
- A request whose headers do not say where it ends is never answered (Parser.cpp:87): a POST or PUT
  with neither Content-Length nor Transfer-Encoding, or a method that is not implemented, without a
  body. Its status is set to 400, but the phase stays ON_BODY until more data comes.
  `EveryRequestParsed` without `EndTold` fails.
- The size of a chunk is not used (parseChunkedBody.cpp:31 is commented out): its data ends
  at the first CR LF, and data that starts with CR LF ends the body. With the session
  `<<InChunks("POST", <<CRLF>>)>>` in `MCParser`, `Faithful` fails; RFC 7230 (README.md:6)
  has the size delimit the data.
- ServerFinder.cpp:38 counts the ports of `servers[i]` and reads those of `candidates[i]`: with a
  named server before a nameless one, the nameless one is not found at its second port, or its ports
  are read beyond their end (`pc = "undefined"`, which the run `requests` reaches), although the
  comment at ServerFinder.cpp:35 has the ports of all nameless candidates matched. `RightServer`
  fails if `PassedOver` does not allow for a server with a name that comes before.
- The size of a file is taken when it is opened (static_file.cpp:17), and a GET ends only
  when exactly that much was read (static_file.cpp:87). A file that was truncated meanwhile
  makes it wait for ever, and one that grew past the end of the last buffer makes it read on
  beyond the size: `EveryTransferEnds` without its last disjunct fails.
- A POST truncates a file that other uploads are writing (MethodHandler.cpp:224): they go on
  at their offset, and leave a hole. `UploadsKept` without `"POST" \notin disturbed[t]` fails,
  and so does `Snapshot`.
- Configuration: a `max_body_size` below a location gives the location the size 0, so that
  every request with a body is a 413 (content.cpp:196); with a `}` too few the next server's
  lines go into the one before; a blank line in a location, a lone `location`, or a
  `max_body_size` without a value is read beyond its words (content.cpp:85, :200, :202).
- A CGI program that could not be run says so with "Content-type" (CgiHandler.cpp:101), which
  ResponseGenerator.cpp:73 does not find: the client is told 500, not the 501 meant.
  "Status:" in the body of a program that sent none is taken for its status
  (ResponseGenerator.cpp:45). A timeout is answered 502, though `GATEWAY_TIMEOUT_504` exists.
- The listing erases the first names of the sorted directory unseen (MethodHandler.cpp:80): a
  name that sorts before "." goes instead.
- The rows of section 3.1.

## 7. What is proved

| Theorem | Says |
|---|---|
| `ServerTypeCorrect` | `Spec => []TypeOK`, for any clients, descriptors, kinds and faults |
| `ListenerNeverLost` | `Spec => []ListenerKept` |
| `AccountsAlwaysKept` | `Spec => []Accounts`, for any `Orderly` instance (below) |
| `NoKnoteDangles`, `NeverUsedAfterFree`, `MapAlwaysExact` | for the same, `Spec => []NoDanglingKnote`, `[]NoUseAfterFree`, `[]MapExact` |
| `DescriptorsAlwaysOwned`, `DescriptorsNeverLeak` | `[]DescriptorsOwned`, `[]NoDescriptorLeak` |
| `ChildrenAlwaysTracked`, `NothingStaysBehind` | `[]ChildrenTracked`, `[]NothingLeftBehind` |
| `ClientsAlwaysHeard`, `OnlyDepartedClosed` | `[]EveryClientHeard`, `ClosesOnlyDeparted` |
| `TurnsAlwaysTaken` | `Spec => []Turns`, for any `InTurn` instance: `Orderly`, and no client pipelines |
| `AlwaysInOrder`, `WakeupsNeverLost` | for the same, `Spec => []InOrder`, `[]NoLostWakeup` |
| `ServiceImplemented` | `Spec /\ []DescriptorsLeft => Service!Safe` for an `InTurn` instance without `abort`: the safety part of the refinement to `HttpService` |
| `ParserTypeCorrect`, `ParserOffsetInPool` | `Spec => []TypeOK`, `Spec => []OffsetInPool` for any set of sessions and any `MaxRecv` |
| `AlwaysFaithful`, `AlwaysAligned` | `~Pipelining => (Spec => []Faithful)` and `[]Aligned` of `Parser`, for the same |
| `RefusedNeverHasEffect`, `ChildAlwaysForCgi` | `WebservSpec /\ []CgiByGetOrPost => RefusedHasNoEffect`, and `=> ChildForCgi`, for any configuration file, disk and request |
| `ConfigAlwaysUsable` | `WebservSpec => []Usable` for any configuration file |
| `AlwaysAsWritten` | `WebservSpec => AsWritten` for any configuration file |
| `AlwaysToldAsConfigured` | `WebservSpec => []ToldAsConfigured` for any configuration file, disk and request |
| `ListingAlwaysComplete` | `WebservSpec /\ []NamesKnown => []ListingComplete` for the same |
| `AlwaysFramed` | `WebservSpec => []Framed` for any error page, listing and CGI output |
| `AlwaysRightServer` | `WebservSpec => []RightServer` for any configuration file |
| `AlwaysOnlyAsAllowed` | `WebservSpec => OnlyAsAllowed` for any configuration, disk and request |
| `StoredAlwaysServed` | `WebservSpec => StoredIsServed` for the same |
| `DeletedAlwaysGone` | `WebservSpec => DeletedIsGone` for the same |
| `CgiAlwaysDelivered` | `WebservSpec /\ []CgiByGetOrPost => []CgiDelivered` for any CGI output |
| `AlwaysSnapshot` | `Spec => []Snapshot` of `FileTransfers`, for any number of requests and any sizes |
| `UploadsAlwaysKept` | `Spec => []UploadsKept` of `FileTransfers`, for the same |

The assumptions are `ServerAssumption`, `ParserAssumption`, `SessionsAssumption` (section 2.2),
`FileTransfersAssumption` (sizes are numbers, a buffer is not empty), `CgiOutputsAssumption` (an
output is a sequence), `ConfigFilesAssumption` (lines are vectors of words, the word after `root`
is a path, the one after `max_body_size` a number), `RequestsAssumption` (a URI has a segment,
since it starts with a slash; a size is a number; the parser hands over one of its three
statuses), `NamesAssumption` ("." and ".." are the first of the names, and no name is there
twice) and `DisksAssumption` (a disk has directories and files), which TLC evaluates in the runs.

Some theorems have a premise of their own, since the property is false without it:

- `CgiByGetOrPost`: no CGI location accepts a method but GET and POST; the run `no_process`.
- `NamesKnown`: no name in a listed directory sorts before "." or ".."; section 6. It is an
  invariant of the instance of the run `requests`.
- `~Pipelining`: the client waits until a request is parsed before it sends the next; section 6.
- `DescriptorsLeft`, `Orderly` and `InTurn`, below.

*Type of the loop.* That the variables have their types is not inductive alone: a handler
indexes `fdt` with the descriptor of an object. `TypeOK` therefore also says that a live
object has a client socket and a client, and that the object of a handler that sleeps in
`waitpid()` is alive. `TypeParts` cuts it into one conjunct per variable; the `...Types`
lemmas say what each helper and each handler does to them, one per action.

*The listening socket.* `ListenerInv`: its knote is in the kernel, or the first change of
the very first `kevent()` adds it. No `EV_DELETE` names descriptor 0, and no `close()`
does, since every number a handler closes is in `Fds`.

*Memory and descriptors.* The theorems hold for any number of clients, descriptors,
objects, children and requests, pipelined or not, any size of batch, file and answer, and
any `Orderly` instance: no CGI timeout, crash, failed transfer or empty file; CGI bodies
only for children that read them to the end; uploads only while nobody leaves. Section 3.1
has, for each of these conditions, which property fails without it, and why; the code
has no such properties to prove there.

None of the properties is inductive. A handler closes and deletes what its object names, so
that `DescriptorsOwned` must also say that each open file, pipe and socket is somebody's, and
that no two objects keep one child (`Objects`). A filter is right only after the changes
queued for it: `removeUdata` and `close()` leave filters of objects that are gone until
`kevent()` applies the changes or `clearUdata` closes the socket. `FiltersKept` therefore
says that a filter or change that leads to the wrong object is about to be overruled by a
later change for the same key, refused, or closed; and that each client's READ filter, *when
the changes are applied*, leads to a reader. `BatchKept` says that the events still to be
handled lead to objects that wait for just that, one event to a key, and that what the
kernel reported is still so: that is why no handler sees an empty socket or a broken pipe
and drops a client that is there, and why no handler takes an event for a descriptor
that was closed and opened again in the same batch. `OnlyDeparted`, `ChildrenKept` and `Phases` say who may be torn
down, who waits for which child, and what `pc` and `cur` mean for the rest. TLC checks
`Accounts` too: it is in scope of `MCServer`, to be added to the invariants of a cfg (the runs
`clients`, `cgi` and `keep_alive` are `Orderly` instances; `children` is one without `timeout` and
`empty`, and with `early` and `closeStdout` only for `cgiGet`).

`ServerObjectsProofs` describes each handler by what it does to objects and descriptors
(`Quiet`, `Answers`, `Frees`, `Serves`, `Admits`, `Shuts`, one lemma per handler), and shows
for each of these that `Objects` stays. `ServerInvariantProofs` does the same with changes
and events (`Pushes`, `Hears`, `Carries`), and has one `...Kept` lemma per action.

*What the clients see.* `InOrder` speaks of what was written only. Why the next unit is the right
one takes the whole way of a request: `Turns` says that each client has a number `k` of requests
received (`Turn(c, k)`) on which everything agrees: what it sent and what was received
(`Arriving`), what its reader's parser holds (`Buffered`), its one object in progress and how much
of its message was written (`Answering`), and, when nothing is in progress and nobody closes
its socket, that it was given `k` whole responses (`AllAnswered`). That there is one reader and one
object in progress (`OneEach`) is what waiting for the response gives. With pipelining two
objects of one client may be in progress at once, for one filter of one socket, and the properties
are false (section 6). The runs `cgi` and `keep_alive` are `InTurn` instances.

*Lost wake-ups.* `NoLostWakeup` is about the moments when the loop sleeps; `Woken` says it of every
moment, of the filters there will be once the queued changes are applied. One step may close a
descriptor whose filter the kernel drops, delete another filter and add a third for an object whose
number was just reused, so the proof of a step has two halves: the changes it pushes (`Pushes`,
from the proof of `Accounts`) lead to the right objects, and whoever waits for a filter afterwards did so before
or has it added, and nobody deletes it (`Wakes`). The second half needs that no two objects wait
for one filter (`AwaitsApart`), which for a socket is `OneEach` again.

*The refinement.* Every step is mapped: a `Send`, an accept, a write or a departure is the service's
step for one client, and everything else, whatever it does to objects, files, pipes and children,
changes nothing the service tells apart (`StepServes`). The service keeps every client it let in
until that client leaves; it counts those that wait to be accepted as let in. Two steps of the
kernel it therefore does not allow are excluded: a connection aborted by its client while it
waits (`abort`), and one dropped since no descriptor is left for it (`DescriptorsLeft`, which the
instances of the runs `keep_alive` and `cgi` satisfy by having enough of them).

*The parser.* `OffsetInPool` needs `BeyondStartLine`: past the start line the offset is at
least 2, so a result 0 of `findNewline`, which is both "not found" and "the first symbol",
can only mean "not found" where the code takes it for that.

`Faithful` speaks of finished requests only. `ParsingInv` says for each phase how far into the
encoding of the current request the parser is, and what it stored on the way (`InRequest`): at
the beginning of a header line with the status that the headers before it leave (`StatusAfter`;
of several Content-Lengths the first one is stored), in the body with as much of it as lies
before `offset`, or at the beginning of a chunk with the chunks before it. When a request is
complete, the pool has its last symbol and none of the next, so that `Aligned` and
`Faithful` hold of one request more. Every phase needs that `findNewline`, sent to the
beginning of a line, stops at its end or finds nothing (`FindLine`), and so where the lines are:
`LinesLayout`, `ChunksLayout`, `EncodeLayout` and `StreamLayout` say which symbol of the
encoding is which symbol of which line, chunk or request. The encoding is made with `FlattenSeq`,
a recursive function: its layout takes a least counterexample (`LeastNatural`, `AllUpTo`)
in place of an induction theorem. TLC checked `ParsingInv` before it was proved. The proof found that
`ExpectedStatus`, then a CASE, had two arms for a bad request of a method that is not allowed.

*Refused requests and children.* Lemmas follow a Response through PathFinder: only `setCgi` sets
`cgi_flag`, it does so without an error and for the methods of its location
(`SetCgiFlag`), and every error after it either takes the flag back or comes from a
handler whose method no CGI location accepts. `IInv` adds that a request has the Response
it was created with until then.

*The configuration.* `ConfigInv` follows the reader: the locations of the block being read are
complete, since `CloseLocation` inserts no other and `Insert` replaces none; so are the servers
read before; and `listening` is reached through `setServers` only. Distinct ports at distinct
places then give disjoint servers.

*The meaning of the file.* `AsWritten` finds what a line says by its place: how many blocks were opened and
closed above it. `ReaderInv` compares the reader with that for the lines it has read: in a
balanced file the reader is in the block the count says (`Depth`), `m_server_conf` has one entry for each
server block closed, and the maps of the blocks still open have the first declaration above. The step
is one lemma per kind of line; one line more changes each count by at most one
(`CountStep`).

*What clients are told.* `ToldInv` says that the message is the one made of the Response and of
a body that is empty after an error; `TellInv` that a Response that redirects was made
for a GET and goes where a location says, and that no error found on the way is a 302. With `FoundInv` the server is one of `m_server_conf` with the port, and with
`ReaderInv` what it has is what the lines say.

*Listings.* `Sorted` is a choice by rank: that each rank has exactly one name, and that a smaller
rank is an earlier name, is shown by counting the names that do not sort after one.
With `NamesKnown` the first ranks are the dots, so that what is erased is what was meant.

*The virtual server.* `VectorsInv` says that what was read of the file is made of vectors, paths
and numbers; `FoundInv` that the server found is ServerFinder's for the request in progress.
`FindServerIs` follows `find_server_name`; that its loops come to one place first
(`FirstPosition`) takes the least of a set of numbers twice. That a server is missed only for a
reason (`MissedArePassedOver`) needs that `candidates[i]` is `servers[i]` up to the first server
with a name (`NumberIsPlace`), so that up to there all ports are read, and no others.

*Files.* `SameWay` is the lemma behind the three properties: two requests of one URI, on disks that
differ in files only, get to the same name in the same directory of the same location
(`isEndWith` looks at directories only), unless a file is gone. The directory is the
root or below it (`Leads`), and a name is not one of a directory. With the two disks the
same it says what a request may touch; with the disk before and after an upload or a removal,
what a later GET finds. `RequestInv` adds that the request and its locations are those of
the constants. No condition on CGI locations is needed: `setCgi` leaves `path_exist` unset, so that
the handlers of files refuse its requests.

*CGI answers.* `AnswerInv` says that an answer to a CGI request is the message made of one of
`CgiOutputs`, or 502 for none; it needs the invariants above (no error leaves `cgi_flag` set, so
that `generateErrorResponseMessage` only has the flag with a timeout, or without output). What is
left is one lemma on `cgiDataProcess` for a single output: with well-formed headers before its
first blank line, the first Content-Type is among them and the first blank line after it is that one.

*Framing.* By cases of `generateResponseMessage`; `FramedInv` adds that no message is left
from an earlier request while one is processed. An iterator that `cgiDataProcess` set lies in
the body; `Undefined` is no message.

*Snapshots.* `Snapshot` is not inductive: `Reader` adds that what was opened, and what was read,
are still the beginning of the file. Only `Written` changes a file's units without truncating it, and
at an offset of its own only for a POST, which `disturbed` records; a PUT appends. Reading
from `offset`, which is the length of what was read, keeps the prefix; two beginnings of one
file of the same length are equal.

*Uploads.* `UInv` says of an upload under way what `UploadsKept` says of a finished one: what was
written so far is kept, and a request not begun has no unit in any file. Every write adds
units of its own request, or holes, and what it overwrites is a POST's, which `disturbed`
records; a PUT's parts stay in order because it appends at the end of the file. The
lemmas on the places of the units of one request (`AppendedStays`, `ContinuedUnits`)
replace an induction over the file.

Only model-checked: every liveness property (`EveryRequestParsed`, `EveryTransferEnds`, and
the liveness part of `ServiceSpec`), and what the runs `children` and `odd_requests`
check of `Server` beyond `Orderly` (empty files, timeouts, crashes, failed transfers, a CGI
without a process). Each safety property of a passing run is stated by a theorem, some
of them under a premise listed above.

## 8. Not modelled

- Log and string helpers: they keep no state another part reads. What `ft_config_split` does
  is what a line is in `Config`.
- What the child does between `fork()` and `execve()` and the CGI environment: only the CGI
  program sees them. `uploaded_path`, `language`, `max_header_size` and the `index` of a
  server: nothing in the server reads them after the configuration. `print.cpp`, which nobody
  calls.
- Version, Server, Date and reason phrase of a message; dates and sizes in a listing; `..` in
  paths.
- One listening socket stands for all in `Server`. `kevent()` does not fail.
- Whether `access()` finds the bare name of an uploaded file (MethodHandler.cpp:216): it
  only decides which type is told of an upload to a directory with auto_index
  (ResponseGenerator.cpp:118).
- Ports above 65535, which htons cuts (socket.cpp:24).
- `serverErrorEvent` and `createUdata`, which nobody calls.

## 9. What could come next

1. `Server` with the kinds that `Webserv` can leave behind for a configuration, so that the
   two are one specification; today `kind` is any the instance allows.
2. `Server` and `FileTransfers` composed, so that a client that leaves takes its upload with it.
3. Proofs: the properties of `Server` that
   hold beyond `Orderly`, under the weakest conditions of section 3.1.
