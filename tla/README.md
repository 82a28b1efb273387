# osgi-manager in TLA+

TLA+ specifications of `osgi-manager`, the small C++ program that looks after
the bundles of an Apache Karaf / JBoss Fuse container. Paths without a
directory are files of `src/src/` in the repository. The commit that is modelled
is in the middle of an edit and does not compile as it stands (`Bundle.h` lacks
the `incrementReStartCount` and `addRestartAttemptTime` that `ESBManager.cpp`
calls, a map is compared with `NULL`, a cast says `(const*)`); the models take
those places for what they evidently mean: a counter on the bundle, a table that
is still empty, a cast that changes nothing.

## 1. Inventory

| part | state | operations | talks to |
|---|---|---|---|
| **Monitor loop** (`ESBManager.cpp` 278-521) | `lastCommandStr`, the cached table `bundlesWithNameAndId`, `deadBundles`, `failedBundles`, `bundlesToStart`, `bundlesToStop`, `currentSystemInfo` | `StartMonitorService`, `FireCommandExecVP`, `MapBundleNamesToBundlesId`, `GetDeadBundles`, `GetFailedBundles`, `BuildBundlesToStart`, `GetSystemInfo` | the container, through one client process per command |
| **OSGi container** (external) | bundles, their ids and conditions, whether it answers | `list`, `start`, `stop`, `info`; hot deployment | the monitor |
| **HTTP server** (`server.cpp`, `connection.cpp`, `connection_manager.cpp`) | the acceptor, the set of connections, outstanding operations | accept, read, write and signal handlers; `stop`, `stop_all` | clients, parser, request handler |
| **Request parser** (`request_parser.cpp`) | `state_`, the request so far | `parse`, `consume` | called by `connection::do_read` |
| **Request handler** (`request_handler.cpp`, `reply.cpp`, `mime_types.cpp`) | none | `url_decode`, `handle_request`, `stock_reply`, `to_buffers` | called by `connection::do_read` |
| **Configuration** (`ESBManager.cpp` 152-237, `com.carnegies.esb.manager.cfg`) | the text read, the command line | chunked read, JSON, `%KEY%` substitution | gives the monitor its lists of bundles |
| **System information** (`SystemInfo.cpp`) | 21 fields | `setValue`, copy constructor, `operator=` | written by the monitor, read by `AppStatusHandler` |
| **Process lifecycle** (`main.cpp`, `ESBManager.cpp` 92-260, 487-491) | `continueRunning`, `gogoReady`, `fireCommandOperationInProgress`, `startWholly`, threads | `InitializeAndStart`, `Start`, `StartRESTServer` | all of the above |
| **Status and metrics handlers** (`AppStatusHandler.cpp`, `BundleMetricsHandler.cpp`) | none | format what the monitor knows | read the monitor's table without a lock; no request is routed to them |
| empty stubs (`handler.cpp`, `header.cpp`, `request.cpp`, `requestHandle.cpp`, `ConnectionManager.cpp`) | none | none | none |
| vendored code (`include/openssl`, `include/rapidjson`, `include/simple_web_server`, `rapidjson/`), build output | | | not modelled |

How they interact: `main` calls `InitializeAndStart`, which reads the
configuration and creates two threads, the monitor loop and the REST server. The
monitor forks a client for every command and reads its output to the end. The
REST server is one thread that runs completion handlers: a read hands its bytes
to the parser, a request that is accepted goes to the request handler, whose
reply is written back. The two threads would share the monitor's static variables
through the status handlers, which nothing calls at this commit. Signals act on
the whole process until the server's constructor has registered them, and on the
server then.

What is hard, and what makes each part correct:

- *Monitor.* A decision taken from a listing is carried out some steps later,
  and from a cached table perhaps much later; the container changes meanwhile,
  and may go down within a command. Correct means: a start command never touches
  a bundle nobody configured; all that one poll hands out is taken from one
  table; a table that is wrong is mended; the cycle of commands never stops; a
  defective bundle is started.
- *HTTP server.* Handlers of operations that completed before a stop run after
  it. Correct means: at most one operation per connection, none forgotten, the
  reply is not written while it is sent, nothing is started after the stop, and
  the stop comes to an end.
- *Parser, request handler, replies.* Input arrives in any pieces; `headers.back()`
  needs a header; escapes may be malformed; a file is read in chunks and may
  change or fail meanwhile; a reply may be cut off anywhere. Correct means: the
  answer is the one the bytes call for, what is opened is below `doc_root_`, and
  a client can tell a part of a reply from the whole.
- *System information.* A regular expression whose first group is greedy, and an
  object that accumulates. Correct means: every field gets what the answer says
  of it.
- *Configuration.* A read loop without an end-of-file test and a substitution
  loop that need not end.
- *Lifecycle.* Threads nobody joins, an exception that leaves a thread function,
  signals before, while and after there is a server. Correct means: no signal is
  lost or swallowed for good, and none cuts off a client.

## 2. Plan

Done, in this order:

1. **Monitor**: `BundleTable` (pure operators), `Karaf` (environment),
   `MonitorService` (the loop, composed with the container by `EXTENDS Karaf`),
   `CommandCycle` (the abstract specification), `MonitorServiceProofs`.
2. **HTTP server**: `HttpServer`, `Sessions` (the abstract specification: what the
   server promises a client), `HttpServerProofs`.
3. **Request parser**: `RequestGrammar` (a declarative grammar), `RequestParser`
   (`consume` as a relation between states, compared with the grammar),
   `RequestParserProofs`.
4. **Request handler**: `RequestHandler`, compared with a decoder that is not a
   loop; `RequestHandlerProofs`.
5. **Replies**: `Reply` (the file read in chunks, the buffers, the sending),
   `ReplyProofs`.
6. **Parser and handler together**: `Exchange` (both put together by `do_read`),
   `ExchangeProofs`.
7. **System information**: `SystemInfo` (the lines of an answer, the regular
   expression, `setValue`), proved about in `MonitorServiceProofs`.
8. **Process**: `Startup` (reading the configuration, expanding the commands,
   creating the threads), `StartupProofs`, and `Process` (the threads and the
   signals, composed with the whole of `HttpServer`), `ProcessProofs`.

Left: nothing the prover treats. The liveness properties and the fairness part of
the refinement of `CommandCycle` stay with TLC.

## 3. Modules

### BundleTable, Karaf, MonitorService

`BundleTable` holds what the monitor computes from a listing. A listing is a
function from bundle ids to the columns of their rows; the rows come in id
order, after `PreambleLines` lines of the client's own, and the loop starts at
line `FirstLine` = 2 as the code does. Text, regular expressions, `trim` and
column widths are abstracted. `BuildBundlesToStart` is a function from positions
in the two configured lists to ids, which keeps the order of the id string and
that a name listed twice is named twice.

`Karaf` is the container as the monitor can tell it: `installed` gives every id
ever handed out its name, `deployed` the condition of the bundles now present,
`up` whether the client gets through. Bundles come, go and change by themselves;
a restart of the container keeps ids. Two assumptions are made here and nowhere
else: ids are not used again (no clean start of the container), and at most one
bundle of a name is present (one file of that name in the deploy directory).

`MonitorService` is the loop. One iteration is three steps: `Fork` or
`PopenFails`; a `Client...` step, where the container carries the command out and
the output is read; a `...Done` step, which does the whole of what the branch of
the loop does with the output. The container can take any number of steps
between them. `pc` says where the thread is: `poll` before popen, `reading` in
the `fgets` loop, `drained` after it, `crashed` when `pclose(NULL)` took the
process down. Left out: the text of commands and the 1024 byte buffer they are
formatted into, times of restart attempts, `Sleep`, and the flags `gogoReady`,
`fireCommandOperationInProgress` and `continueRunning`, which nothing changes
once the thread runs.

`CommandCycle` is the abstract specification: commands come in the order list,
start, stop, info for ever unless the process ends, the start request is settled
when a list command is done and stays until the next one, and every id in it
belongs to the bundle configured at its position. `MonitorService` implements it
with `turn` mapped to `lastCommandStr` (or `"halted"` after a crash) and
`request` to `bundlesToStart`.

### HttpServer

One thread runs the handlers of completed operations. An operation is in
`ops[c]` (or `accepting`, `awaitStop`) from the call that starts it until its
handler runs; its `ec` is `"pending"` first and then what the handler is given:
for a read what `request_parser::parse` makes of the bytes. `close` completes
what is pending as aborted (a composed `async_write` may also fail on its next
part), leaves completed operations as they are, and an operation started on a
closed socket fails with another error than aborted. These are the interleavings
the code's checks for `operation_aborted` and `is_open` are about. A connection
object exists as long as it is registered or has an operation, since every
handler holds a `shared_ptr`. One action per handler, and one per kind of
completion; handlers of completed operations run in any order. `socket_` is the
server's own socket, into which an accept puts what it brought: the handler moves
it into a connection, or leaves it where it is when the acceptor has been closed
meanwhile. It is then closed by `Destroyed` only, the end of the server object.
The failure of the constructor is in `Process`.

`Sessions` is what the server promises a client, without sockets, operations or
handlers: at most one answer; nobody who stays is hung up on before it unless
the server stops; the stop ends all sessions in one step, none begins after it,
and only then `run()` returns. `HttpServer` implements it with `serving` mapped to
the open acceptor and a session to what socket, registration and `reply_` of its
connection say (`Progress`).

### RequestParser, RequestGrammar, RequestHandler

`RequestParser` has one state variable per member of the parser and the request,
takes a byte of the current piece per step, and describes `consume` as a set of
moves between states. Characters are their codes. The version numbers wrap at the
width of an int; the overflow is undefined in C++, and wrapping is the outcome
taken of those a build can have. `RequestGrammar` says which byte sequences are requests, which
could still become one (`Hopeful`) and what a request means, by the places where
its parts begin and end and without a state (a version is the `Value` of its digits
as an int holds it, the headers are the `Fields` of the lines that have ended). `RequestHandler` decodes a uri one character per
step, as `url_decode` does with the `std::hex` quirks of `istringstream`
(`Values`), and does the rest of `handle_request` in one step; whether a file
exists is open. The name that is opened is modelled without `doc_root_` before it,
and it is inside when it is absolute and has no two dots in a row: a statement
about the text, not about links in the file system. It is compared with `Decoded`, which says what stands at every
place of the decoded text by counting the escapes before it (`Rank`). `TypeFitsName` ties the content type to the file that is opened,
except for the one case in which the code does not: a name that is cut off at a
null character.

### Reply

The other half of `handle_request` and what follows it. The file is read in
chunks of `BufSize`; it may be written to meanwhile (`changed`), and a read may
fail (a directory fails at once). `to_buffers` lays status line, headers and
content out as a sequence of symbols, an octet of the content or a text of the
reply's own each, and `async_write` sends any part of it before the next. What
the client makes of what it got (`Received`) is defined from the symbols alone,
so that content that looks like the end of a head is told apart only if the
layout allows it.

### Exchange

`RequestParser` and `RequestHandler`, instantiated side by side, with the handler
of `do_read` between them: `Read` while the parser is undecided, `Accept` when it
accepts, `Refuse` when it does not, `Handle` for the request handler's steps. The
assumption `RequestHandler` makes about uris (no blank, no control character) is
not made here: it is what the parser's invariant delivers.

### SystemInfo

`GetSystemInfo` one line per step, with the regular expression
`systemInfoParser` of the shipped configuration. A line is a sequence of blanks
and words, since no group of the expression can end anywhere but at a blank that
another blank follows; `GroupEnds` are the places where the first group may end,
and `Split` the last of them, since it is greedy. The groups take different
characters: the third digits too, the first what lies between `Z` and `a` (its
`A-z`), which are the `Marks`. `trim`, the table of `setValue`
and the copying that copies nothing are as in the code. `MonitorService` keeps of
all this only whether a parsed object arrives in the shared one. `TextAt` says what
a printed line is and `Says` what it says of a label, without the expression.

### Startup, Process

`Startup` is the main thread from `fopen` to the creation of the two threads. The
JSON parser is reduced to what it can deliver: some configuration, or an
assertion that ends the process. A turn of each loop is a step. `ReadFails` is a
turn in which `fread` fails: what it delivered before is taken for the last chunk,
and nothing at all for no turn, since nobody asks `ferror`. `Scan` reads a text
from the left, each percent sign beginning a reference or ending one, and
`Substituted` is the text with all references replaced as they are read: what the
loop of `find` and `replace` is compared with. They agree where configurations are
`Usual`: no percent sign in a key or a value, and no key that can be read between
the end of one reference and the beginning of another, where `find` would take the
two percent signs around it for a reference (`%A%B%C%` holds `%B%`). `Tame` are
those whose values have at most one percent sign each. It is not enough that no
value contains its own reference: with `A%%A` for `A`, `%%A%%` becomes `%A%%A%`,
then `A%%A%A%`, and grows for ever.

`Process` begins where `Startup` ends. `CreateMonitor` and `CreateRest` create the
threads (or fail to, which nobody notices); `AddSignal`, `AwaitStop`, `Bind` and
`BindThrows` are the server's constructor; `Serve` runs the steps of `HttpServer`,
all of it instantiated on the same variables; `Destroy` and `FallOff` are the end
of `StartRESTServer`, which has no `return`: the thread ends or the process does.
`Kill` is a signal's default action, `Deliver` a signal that has been registered.
The monitor can only take the process down (`MonitorCrashes`).

## 4. Runs

| run | question | what it shows |
|---|---|---|
| `monitor` | what can a stale table do, and does the loop go on? | start commands change configured bundles only (that a running one is not changed by its start is an assumption about the container); requests, dead and failed lists and counters agree; a table of the wrong size is mended when the container is left alone; the loop implements `CommandCycle` with its fairness; from an empty table a bundle that stays defective gets its start command |
| `defective_bundle` (violation) | is every defective bundle restarted, as the repository's README says? | no: a bundle that fails while the number of bundles stays the same is never looked at again |
| `system_info` (violation) | does the reported system information arrive? | no: `SystemInfo::operator=` copies nothing |
| `http_server` | what can a late handler do, and does the server stop? | one operation per connection; no connection forgotten; no connection left or started after the stop; a reply is written once; the server implements `Sessions`; a signal makes `run()` return; a connection whose client has left is released |
| `request_parser` | what does the parser make of requests that are nearly right, in pieces? | accepted is what the grammar derives, with the meaning it gives; refused is what nothing can mend, at once; `headers.back()` always has a header; no control character gets in |
| `request_handler` | what is opened for a uri? | only absolute names without `..`; a valid encoding is answered by what it stands for; the content type is that of the file's name |
| `exchange` | do parser, handler and `do_read` fit together? | the answer is the one the bytes sent call for, however they were cut; nothing is opened for a request that was refused; an answer comes unless what was sent begins with no request |
| `reply` | what does a client get? | the whole file, unless it changed or a read failed; a reply that is cut off is noticed; what is received is what was replied |
| `system_info_parsing` | what is read from an answer to `info`? | every field gets what the answer says of it, the last line winning and collectors listed; nothing is filed under another label, however blanks are strewn |
| `invalid_encoding` (violation) | is an invalid encoding refused, as `request_handler.h` says? | no: `/%+a` is decoded |
| `startup` | what is parsed, what are the commands expanded to, and do the loops end? | the whole file or nothing, unless a read fails; a file of whole chunks is never parsed and the read loop ends for the others; references come out as if replaced at once; a first value that contains its own reference keeps the threads from being started, and the substitution ends when no value has two percent signs |
| `process` | what do signals do, and when? | none is lost once the server catches them; further ones are swallowed only until `run()` has returned; none cuts off a client; a server that was created and is gone was stopped by one and has closed every socket; the server within the process is the one `HttpServer` describes |

Bounds. `monitor`: three names, two of them configured and one of those
twice, two conditions, two installations, counters up to 2. Two installations are
enough for a bundle to be taken away and another one, or the same under a new id,
to come in its place, so that cached ids differ from those present and from row
numbers, while the number of bundles stays the same; the safety properties are
proved for any number (section 5). The violation runs have the same bounds. A
client prints two lines before the first row (`PreambleLines = 2`), which is what the
loop's start at line 2 presupposes. `http_server` takes two
connections, so that one is accepted, served or given up while another is; its
safety properties are proved for any number. Connection objects
are used once each; reads that leave the parser undecided may repeat without
bound.

`request_parser` takes six requests (no header, empty uri, folded lines with
blanks only and with text, two headers, versions of several digits, bytes beyond
ASCII) and replaces, inserts and removes one character at every place, with one
character of each kind the parser tells apart, so that every case of `consume`
meets every kind. `Words` is 256, so that three digits leave the int; the buffer
has two bytes, so that pieces of one and two bytes cut every request everywhere.
`request_handler` takes all sequences of up to three pieces (four behind a slash)
of letters, dots, slashes, plus and percent signs, `0x`, an extension, and
escapes of a dot, a slash, a null character and a byte beyond ASCII, as well as
malformed ones. `exchange` takes a request for every uri of up to two such pieces,
with and without a slash before, every beginning of a request, requests with a
character replaced at every place and two requests in a row; the buffer has three
bytes, so that a request comes in many pieces. `reply` takes all files of up to three octets, line
ends among them, and longer ones with an empty line inside, with chunks of two,
so that files end within a chunk and between chunks. `system_info_parsing` takes
answers of up to two lines, with a word only the first group takes among the others, enough for one to overwrite or follow another:
printed lines with every combination of indent, gap, label and text, and lines
whose blanks are not where they should be. `process` takes two connections, so
that one may be served while another has ended. `startup` takes files of no to three characters with
chunks of two, reads that fail at any of them, and two keys, one of which ends
with the other. Values are plain, empty, long, a key, a reference to either key,
half of one, a key and two percent signs, or one that brings its reference
together again with the text around it; commands have up to three pieces. Of the
4620 configurations 988 are `Usual`, two in three of them with something to
replace, and 1848 are `Tame`. `MaxText` stops texts that grow for ever. No text of
a `Tame` configuration reaches it: it would be stuck there and break
`TameIsStarted`.

Fairness. The monitor's own steps are weakly fair as one action: the thread is
scheduled and every client ends, which the code relies on (it waits in `fgets`
without a timeout). popen fails only finitely often. The container is not fair at
all. In the server every handler whose operation has completed is run, since
io_service takes them in turn; the end of a link whose client has left is
eventually seen (strong fairness: what the client had sent is finite). Clients
and the kernel owe nothing else, so a reply may stay unsent for ever as long as
its client stays.

`Startup` assumes that the main thread is scheduled, and of no read that it fails. `Process` assumes it of both
threads it follows, and of the server's handlers what `HttpServer` does; it assumes
nothing of the monitor, of clients or of signals, so that a server nobody signals
runs for ever. `Exchange` assumes that a client sends all it has and that the
thread is scheduled: what has arrived is read, and io_service runs the handler.
The parser, the handler, the reply and the system information have safety
properties only.

Deadlock is checked in the monitor's runs. The server really stops after `run()`
has returned, the parser after its verdict or when a client sends no more, the
handler and the reply when all is sent, an exchange with its answer, and the
process when it has ended, so their runs switch the check off.

Every module has a few *faulty variants* beside the definitions they vary: small
mistakes of the kind the properties guard against, each of which breaks the
property that PROJECT.json names for it.

## 5. Proofs

`MonitorServiceProofs` proves, for every configuration, any number of bundles and
any set of conditions, `TypeOK`, `StartIdsNameConfigured`, `OnePicture` and
`OnlyConfiguredStarted`, and that the loop implements the safety part of
`CommandCycle`. The assumptions are those of the constants only. None of the
properties is inductive by itself: a start request is right because the table it
was taken from is, the table because the listing was, and the listing because a
container step never renames an id. `IInv` says so: no two present bundles share
a name (`UniqueNames`), the rows read (`RowsFollowIds`) and the cached table
(`NamesFollowIds`) name every id after what it was installed as, the request is
the one the table asks for and the counters count just that
(`RequestFollowsTable`), and the lists of dead and failed bundles follow the
table (`ViewsFollowTable`). The lemmas about `BundleTable` carry the work:
`TableOfListing` (the table built from a listing without double names) and
`CountingKeepsTable` (counting restarts changes counters only).

It also proves, for any number of lines of any words, `FieldsFollowAnswer` and
`NothingMisfiled` of `SystemInfo`. That two groups of a regular expression with
blanks in both of them end where they should rests on three lemmas: a printed line
is split before its text and nowhere else (`PrintedIsSplit`), a line without two
blanks in a row is passed over (`PlainIsPassed`), and a name that is a label was the
first word of its line however it is split (`BehindItsLabel`, by `OneWord`).
`PrintedIsRead` puts them together, and `InfoInv` adds the lines up: after every
turn the fields hold what the lines looked at say (`Following`), where the
collectors are as many as the lines that tell of one (`CountOneMore`).

`HttpServerProofs` proves, for any number of connections, `TypeOK` (with it: at
most one operation per connection), `NothingForgotten`, `StopIsFinal` and
`ReplyWrittenOnce`, and that nothing is outstanding when `run()` has returned
(`FinishedHolds`). The inductive invariant relates the three places where a
connection is known: registered iff its socket is open, registered only with an
operation outstanding, pending operations on open sockets only, aborted ones on
closed sockets only, and no reply while a read is outstanding. Of the server's own
socket `NothingForgotten` says that, while the acceptor is open, it is open just
when the handler of an accept is to come; after the stop it may stay open, so
`StopIsFinal` speaks of connections only. With it every step
of the server is shown to be a step of `Sessions` or to change nothing there
(`ImplementsSessionsHolds`).

`ProcessProofs` carries all of this over to the process. Its `IInv` says that
before the constructor is through nothing of the server has happened (`Unbuilt`),
which signals are registered when, and that `run()` has returned once the thread is
on its way out. With it every step of the process is one of `HttpServer` on the
variables of the server or leaves them alone (`ImplementsHttpServerHolds`); the
theorems about `HttpServer` then hold in the process (`ServerStaysSound`,
`SessionsInProcess`), and `FinishedHolds` gives `GoneBySignalOnly`: a server that
is gone has closed everything, the socket of an accept nobody took up with its
destruction. `ClientsAreSafe` follows from what is registered when.

`RequestParserProofs` proves, for every input, buffer size and width of int,
`TypeOK`, `BackIsDefined`, `VerdictIsPrompt` and `GoodIsMeaning`:
the parser accepts exactly the requests of the grammar, at every byte it has refused
iff no continuation is a request, and what it has put into an accepted request is
what the grammar says of it. Three invariants carry this. `LineSoFar` says for each
state how the bytes seen so far are laid out in method and uri
(`RequestLineMoves` and `HeaderMoves` sort the moves of `consume` by what they do to
the request, so that `MoveStep` need not visit every character). `Recognised` says
the same of state and grammar: while the parser is undecided, the bytes seen are the
beginning of a request that ends in the part its state stands for (`Reads`).
`Understood` says of state and request what `Says` states: the version numbers are
the values of the digits read so far (`VersionRead`), the headers are those of the
lines that have ended, and the last one is what has been read of the line that has
not (`LineRead`). A move keeps it within a line (`LineReadNext`) and where one ends
(`FirstLineEnds`, `HeaderLineEnds`, `LastLineEnds`); that a number wraps at every
digit makes it the wrapped value of all of them (`NumberNext`). The
lemmas about the grammar say that a text that is read and is the beginning of a
request can be read on with that request's next byte (`MoveAhead`), that every text
that is read can be finished to a request (`CanBeFinished`), and that nothing mends
a byte no move takes (`NothingMends`). From
them also `RefusedIsHopeless`, where any sequence of bytes may follow, and
`AcceptedIsUnderstood`: method and uri of what is accepted are the grammar's.

`RequestHandlerProofs` proves `TypeOK`, `OpenedIsInside`, `ValidIsDecoded` and
`TypeFitsName` for every uri. For the second, `IndexKeepsInside` and
`CutKeepsInside` are the substance: neither putting `index.html` behind a path that
has passed the test for `..` nor cutting it off at a null character makes two dots
meet. For the third, `DecodedSoFar` says that what has been decoded is the beginning
of `Decoded`, and `AnsweredByPath` what the rest of `handle_request` makes of it.

`ReplyProofs` proves `TypeOK`, `WholeFile`, `CutIsNoticed` and `ReceivedIsReply` for
every file, chunk size and content type: what the stream has delivered is the
beginning of the file, and the head of a reply is laid out so that its end is
found where it is, whatever the content. `ExchangeProofs` proves `TypeOK`,
`OpenedIsInside`, `HandledIsSent` and `AnswerFits` for every input, buffer size and
width of int from the invariants of the two components: the invariant of `Exchange`
is their conjunction with what the stage says of them (`Handover`: the handler has
the uri the parser accepted, or there was none to give and the answer is
`bad_request`). `AnswerFits` is then `VerdictIsPrompt` of the parser, its account of
the uri, and `ValidIsDecoded` and `AnsweredByPath` of the handler put together.

`StartupProofs` proves `TypeOK`, `LoadedWhole` and `AlignedNeverParsed` for every
file, chunk size and configuration. The invariant `Reading` says that what has
been read is the beginning of the file (`Appended`) and that the loop is at a multiple
of the chunk size as long as it goes on; a short chunk leaves a remainder
(`RestOfDivision`), so the file is not made of whole chunks when the loop is left.
When a read fails within a chunk only the first half still holds (`FailStep`).
`SelfReferenceNeverStarts` rests on `ReplacedStays`: a reference that is replaced by
a text it occurs in still occurs. `ExpandedAtOnce` needs an invariant about every
turn of the loop (`Expanded`): what the commands read as now (`Expands`) is what they
read as at first, no key can be read in a gap of them, and the references of the
members that have been passed have gone. Two lemmas carry it. `FoundAtReference`: in such
a text `find` hits the beginning of a reference and never the end of one, for
otherwise the key would stand in a gap. `ReplacedKeeps`: when a reference is replaced
by a value without percent signs, what is read before it and behind it stays the
same, so nothing else becomes a reference or stops being one. When all members
have been passed (`AllPassed`), every reference that is still there is one to no key
and stays, which is what `Substituted` makes of it too.

Proved and not among the properties of a run: `TypeOK` of `RequestHandler`, `Reply`,
`Exchange` and `Startup`, `OpenedIsInside` of `Exchange` and
`StartIdsNameConfigured`, each a part of an inductive invariant that a run's
property rests on.

Only model-checked: the liveness properties and the fairness part of the
refinement of `CommandCycle`, which the prover does not treat.

## 6. Not modelled

- *Vendored code and build output*: `include/openssl`, `include/rapidjson`,
  `include/simple_web_server`, `rapidjson/`. They are nearly all of the
  repository's lines and none of its logic: declarations of a library that is not
  called, a JSON library of which `Parse` and a few accessors are used (what they
  can deliver is in `Startup`), and a web server whose include is commented out
  (`ESBManager.cpp:31`). The program's own code is about 2,700 lines, headers
  included; nearly all of its statements are mapped.
- *Status and metrics handlers*: nothing calls `AppStatusHandler::handle` or
  `BundleMetricsHandler::handle`, and the server has no route that could. The
  second one copies the monitor's table without a lock; that is a race the day it
  is called.
- *Empty stubs*; `Start`, which cannot be reached since `startWholly` compares two
  pointers; `ShutDown`, which is empty; `ProcessDeadBundlesData` and its like, which
  return nothing and are not called; `request_parser::reset`, which nothing calls.
- In the modelled parts: a client that never ends, or one that stays connected and
  silent (the code has no timeout, so that nothing could be said but that); the
  overflow of the 1024 byte command buffer, for which the request's length is
  bounded by the configuration only; the memory of tables that were thrown away;
  logging and the wording of stock pages; outcomes of an overflowing version number
  other than wrapping; null characters in the configuration
  file, which would cut a chunk short; the wrapping of `Sleep` and of times.
