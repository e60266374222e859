# TLA+ specifications of nwprog

nwprog is a set of network programs in C: an HTTP server, an HTTP client and a
DNS stub resolver (`bin/server`, `bin/client`, `bin/dns`), all of them built on a
small reactor with coroutine tasks. This directory holds TLA+ models of them, from the
reactor up to the exchange of requests and responses, the TLC configurations that check
the models, and proofs for TLAPS.

Paths below are relative to the directory `src/` that holds the repository, so
`src/src/common/event.c` is the repository's `src/common/event.c`. Plain file names
(`event.c`) are used where there is no doubt.

Contents:

1. The system
2. The plan
3. The modules, and how they correspond to the code
4. The runs, their bounds and what they show
5. Fairness
6. The proofs
7. Where the code does not do what it says
8. What is left out

## 1. The system

Every program has one thread. `main()` creates the reactor (`event_main`), starts
tasks, and enters `event_main_run()`, which returns when no event has anything
pending. All blocking is cooperative: a task that would block registers itself with
an `struct event`, which wraps an fd, and switches back; the reactor switches into it
when `select()` reports the fd, or when its timeout is over.

| Component | Source | State it keeps | Operations | What makes it correct |
|---|---|---|---|---|
| reactor | `common/event.c` | the list of events; the task that executes; per event its fd, flags, timeout, pending task, delayed destruction; per task the number of registrations, the event waited on, the event it was woken for; the coroutine stack | create and destroy events, start tasks, yield, sleep, wait, notify, run | `event_main->task` follows the coroutine stack; no switch loops; what is watched can be woken; no dangling event in the dispatch loop; nobody is woken for nothing |
| resolver | `dns/resolve.c`, `dns/dns.c` | the list of unanswered lookups, the next id; per lookup id, deadline, retries, response, waiting task | send a query, resend it, receive for all, hand over, give up | answers reach the lookup they belong to; the list stays sorted by deadline; no task is forgotten; each lookup returns |
| dns program | `dns.c` | one task per name, three lookups each | | it ends, with every task finished |
| packets | `dns/pack.c`, `dns/unpack.c` | a position in a buffer | pack and unpack headers, names, records | inverse of each other; terminate on compression loops |
| udp | `common/udp.c` | socket and event | connect, read, write, destroy | reads yield at most until the timeout |
| tcp, stream | `common/tcp.c`, `common/stream.c` | connection's socket and event, two buffers with four positions each | read, read a line, a string or a file; write, flush, send a file | bytes arrive once and in order; end, error and timeout are told apart |
| listening, connecting | `common/tcp_server.c`, `common/tcp_client.c` | sockets, spare event | accept, connect with fallback to the next address | survives running out of fds; the right connection is reported ready |
| HTTP | `common/http.c` | stream positions | request and response lines, headers, bodies, chunks | framing: both ends agree where a message ends |
| HTTP server | `server/server.c`, `server.c` | handlers, listeners; per connection what was read and sent of this request | handler calls, responses, persistent connections | one response per request; the connection is left at the start of the next request, or closed |
| static files | `server/static.c` | directories open on the way to a file | GET, PUT, listings | finds what the path names; closes what it opened |
| server's DNS | `server/dns.c` | a resolver per request | form to lookup to response | releases resolver, event and socket |
| HTTP client | `client/client.c`, `client.c` | connection and response so far | GET, PUT, POST, persistent connections | reads its response to the end before the next request |
| parsers | `common/url.c`, `common/parse.c` | | | tokens as documented |
| timestamps | `common/util.c` | | now, deadline from timeout, timeout from deadline | order of deadlines |
| ssl, log, daemon | `common/ssl.c`, `log.c`, `daemon.c` | | | |

How they interact: the programs call downwards (server → http → stream → tcp → event),
callbacks go upwards only through coroutine switches. What is shared between tasks is
the reactor's event list, the process's table of descriptors, the files the server serves,
its handlers (read only), and the resolver: several tasks use one UDP socket, and only one
of them can yield on its event. That is where the code gets hard. `dns_resolve_sync()` lets
one task receive for all; the others suspend in `event_wait()` and the receiver wakes them
with `event_notify()`, which is a direct switch from one task into another, nested like a
call. The comment in `resolve.c:307-338` calls this "very scary event_wait/notify() magic";
the repository has no test for it. The other hard place is `server_client_request()`: a
handler, the loop behind it and the error path all read from and write to one connection,
and the client has to be left where the next response begins.

Hard behaviours, by component:

- reactor: nesting of switches; events destroyed while the dispatch loop stands on
  them; fds that are closed and opened again during a pass; timeouts against readiness;
- resolver: the receiver leaving while others wait; answers for tasks that have not
  started to wait; lost, late, repeated, truncated and damaged datagrams; ids that wrap;
  retransmission; errors of the shared socket in one task;
- streams: partial reads and writes, limits of buffers, ends and errors between two parts;
- HTTP: handlers that leave headers or a body unread, or fail in the middle of a response;
  connections that are kept, closed, reset or timed out between two requests; a server or a
  client that dies in the middle of an upload;
- server: running out of fds in the listener and in the middle of a lookup.

`PROJECT.json` lists each of these hazards at its line, with the properties that cover it.

## 2. The plan

Done, in this order:

1. `EventLoop` (on `TailQueue`): the reactor under an arbitrary program.
2. `Resolver`, `DnsClient`: the resolver on the reactor, in the program that runs
   many lookups at once; `LookupService`: what a caller of `dns_resolve()` sees.
3. `ReactorProofs`, first for the reactor, then for the resolver on it.
4. `Timeval` with `TimevalProofs`: the arithmetic of deadlines, which the other modules
   have as ticks.
5. `ReadStream`, `WriteStream`: the two buffers of a connection, against `ByteStream`, with
   `ReadStreamProofs` and `WriteStreamProofs` (on `SequenceFacts`).
6. `Http`, `HttpServer`, `HttpClient`, composed in `HttpExchange`, against `Exchange`.
7. `FileServer` with `FileServerProofs`: the descriptors of the server.
8. In `ReactorProofs`, the deadlines: `DeadlineOrder`, `DeadlineWatched`, `RetryWhenExpired`;
   the ids of queries: `OwnAnswer`; the refinement `ServiceSpec`.
9. `HttpProofs`: what both programs of `HttpExchange` keep to, and `UploadIsWhole`.
10. `HttpFramingProofs`: `InStep`, and the refinement of `Exchange`.

Left, in the order in which it would pay:

11. `TcpConnect`: the addresses of `tcp_connect()` one after the other, on `EventLoop` (what goes
    wrong between two of them is in `EventLoopReuse`); the event that `udp_destroy()` leaves in
    the reactor.
12. The packing of DNS names with its compression pointers, as operators against a reference
    definition; the parser tables. Both are sequential and have unit tests.

## 3. The modules, and how they correspond to the code

| Module | Models |
|---|---|
| `TailQueue` | the `TAILQ` macros of `<sys/queue.h>`, as sequences |
| `EventLoop` | `event.c`: all of its state, every call, `event_main_run()` |
| `MCEventLoop` | instances for TLC |
| `Resolver` | `resolve.c`, `dns/dns.c` and `udp.c`: `dns_resolve()` and below, the network, the clock |
| `DnsClient` | `dns.c`: `main()` and its tasks; composes `Resolver` and `EventLoop` into a program |
| `LookupService` | abstract: each task has a resolver of its own |
| `MCDnsClient` | instances for TLC |
| `ByteStream` | abstract: what comes out is what went in, in order, without what was lost |
| `ReadStream` | the reading half of `stream.c`, with `tcp_stream_read()` and `sock_read()` |
| `WriteStream` | the writing half, with `tcp_stream_write()` and `tcp_stream_sendfile()` |
| `MCReadStream` | what the peer may send, for TLC |
| `Timeval` | `timestamp_from_timeout()`, `timeout_from_timestamp()`, and the deadlines of `event_main_run()` |
| `MCTimeval` | timeouts for TLC |
| `Http` | a connection in lines and data, as `http.c` sees it, and how it breaks |
| `HttpServer` | `server_client_task()` and all it calls in `server.c`, `static.c`, `server/dns.c` and `http.c` |
| `HttpClient` | `client.c`: requests one after the other, with what they call in `http.c` |
| `HttpExchange` | composes the two over `Http` |
| `Exchange` | abstract: each request is answered once at most, and each call returns its answer |
| `MCHttp` | requests for TLC |
| `FileServer` | the descriptors of the server: `tcp_server_accept()`, the connections, `server_static_lookup()` |
| `MCFileServer` | a tree of files and requests for TLC |
| `SequenceFacts` | lemmas about sequences |
| `ReactorProofs` | the reactor, for any program and any size; the dns program, for any number of tasks, lookups and retries |
| `TimevalProofs` | the conversions of timestamps, for any deadlines |
| `ReadStreamProofs`, `WriteStreamProofs` | the streams, for any buffer, contents and calls |
| `HttpProofs` | the client and the server, for any requests, bodies and number of calls |
| `HttpFramingProofs` | what is under way between the two, for any requests that the server understands |
| `FileServerProofs` | the descriptors, for any limits, tree and number of clients |

### EventLoop

The variables are the fields of the three structs (`events`, `fd`, `flags`, `timeout`,
`task`, `destroy`; `registered`, `wait`, `event`; `current` for `event_main->task`), the
wait pointers that callers pass (`waitp`), the locals of `event_main_run()` (`cursor`,
`rset`, `wset`), and libpcl's state: which coroutine executes (`running`), whom each would
resume (`restarget`), and the frame of `event_switch()` in each (`callee`, `saved`).
`None` is both the NULL pointer and `main()` as a coroutine; it is no timeout either, as the
NULL of `event_yield()` is not. `polled` is a history variable.

A coroutine executes alone until it switches, so one action is the code from one switch
to the next: `EventYield` is `event_register()` and `_event_yield()` up to `co_resume()`;
`YieldReturn` is what follows it there and in `event_yield()` or `event_sleep()`;
`EventWait` and `WaitReturn` likewise. `EventNotify` and `EventStart` end with the
`co_call()` into the other task; what those functions do after it returns is
`event_switch()`'s epilogue, which is part of the `SwitchBack` that resumes them
(restoring `event_main->task` from that frame, which need not be the value from before).
A task's struct is freed there too, and its name may be started again.

`event_main_run()` is `Collect` (the delayed destruction in the first loop),
`SelectReady` or `SelectTimeout`, one `Dispatch` or `DispatchSkip` per event of the second
loop with `cursor` as `event_next`, `DispatchEnd`, and `LoopExit`. The watched events are
collected in any order because nothing executes in between. The set of fds that
`select()` returns is any nonempty set of watched ones. Timeouts are ticks that count
down; several events with the earliest deadline are equal here.

The module leaves the program open: whoever executes may make any call within the
contract of `event.h` (no second task yields on an event, a wait pointer holds one task,
no calls on a destroyed event, a task started or destroyed by whoever executes). Calls
outside of it hit a `log_fatal()` in the code. A program in this sense includes all that
could be built on the reactor, and in particular the server, whose tasks start tasks.
`ReuseFds` says whether an fd can get a new event before the old event is collected,
which is what happens when a task closes a socket and opens the next: the kernel gives out the
lowest free number at once. All runs of `EventLoop` itself have it TRUE, and the proofs are for
both. The resolver opens one socket and keeps it.

### Resolver and DnsClient

A task has one lookup at a time, so a `struct dns_resolve` is named by its task, and so
is its wait pointer (`SlotsAreTasks`). `at` says where a task is between two switches:
`sync` is the loop condition of `dns_resolve_sync()`, `recv` is in `udp_read()` below
`dns_resolve_response()`, `expired` is that function with `err` set, `return` is after the
loop and the poke. `first` and `budget` are the local variables `resolve` and `timeout`
that `dns_resolve_response()` keeps across the yield.

Actions that switch are conjoined with the reactor's action: `ReceiveYield` contains
`EventYield`, `SyncWait` contains `EventWait`, `ReceiveAnswer`, `GiveUp` and `Poke` contain
`EventNotify` when the code calls it. `MainLoop` restricts the reactor's steps to what the
socket says. So the model has both layers in full, and `ReactorProofs` shows that the
program never leaves the contract.

What is sent is a record of id, owner and whether the question is in it. `ptr` is the
position of the packet buffer that `dns_query()` leaves behind, and decides what a second
`dns_query()` sends. The owner (`of`, `nth`) is only read by properties. The network
answers any query it has seen, never, late, or again, in any order (`Arrive`), within
`MaxDeliveries`. `ShortPackets` allows datagrams without a whole header. `BadChecksums`
allows datagrams that `select()` reports and `read()` then drops: `ReceiveYield` takes the
datagram away and yields again for the whole of `budget`, as `udp.c:115` does, although part of
that time is over. `SocketErrors` allows `read()` and `write()` to fail, `LateTicks` lets the
clock run while tasks execute. The name lookups and record contents are left out; `dns()`
stops at the first lookup that does not return 0, which is `GoesOn`. A name that is too long
makes a task that does no lookup.

The initial id is `random() % UINT16_MAX`, so any but the last. Ids count modulo `IdMod`.

`LookupService` is the refinement target: per client the number of transmissions, the
number of lookups and the last result. The mapping is in `DnsClient` (`Service`):
`retry + 1` transmissions while a task is inside `dns_resolve()`, else 0. It says what a
caller relies on: a timeout comes only after all transmissions of *its own* query, and
nobody else's trouble ends or extends a lookup.

### ReadStream and WriteStream

A connection (`struct tcp`) has two independent `struct stream`. In both modules `buf` is
the valid part of the buffer, so `length` is `Len(buf)`, and `offset` is the code's. A byte is
its position in what was sent, so that losing, repeating and reordering bytes can be seen
from the numbers; `content` says which of them are ends of line. `stream_read_line()`
overwrites those with NUL: `zeroed` has their positions, and a line is recognised by what
is not overwritten yet.

A call is `Begin` (with its `_stream_clear()`), one action per turn of its loop around
`_stream_read()`, and the action that ends it, one for each way to return. `Fill` is
`_stream_read()`, `tcp_stream_read()` and `sock_read()` together, with as many bytes as are
there or have room; `FillEof` is a `read()` that returns 0, `FillFails` one that fails or
whose `event_yield()` times out. Between them the task may be suspended any number of times
and bytes arrive (`Arrive`), or the connection ends (`Hangup`); nobody else touches the
stream then. `delivered` is what callers were given, and `spilled` what `stream_read_string()`
drops; in `WriteStream`, `dropped` has what a failed call gives up.

In `WriteStream`, `Printf`, `Write` and `SendFile` start the three kinds of calls. All flush the
buffer first (`Flush` is one `_stream_write()`, with what the socket takes of it);
`WriteDirect` and `FileSent` go past it. `FlushTimeout` and `FlushFails` are the two cases in
which `err = write() < 0` (`stream.c:266`) turns a return value into another. A file is endless
or ends anywhere. Once the connection has failed every later `write()` does. SIGPIPE is
ignored as in `daemon.c:10`.

`ByteStream` is the refinement target of both, from the network to callers and from callers to
the network. `sent`, `lost` and `received` only grow, and `received` is `Faithful` to the other
two: nothing in it that was not sent or that is lost, nothing twice or out of order (`InOrder`),
and what went in before something that has come out has come out too, or is lost (`NoGaps`). It
leaves open which bytes are lost; `NothingLost` and `WrittenInOrder` say that.

### Timeval

`stamp` is `event->timeout`. `Second` is the number of microseconds in a second: the arithmetic
never uses more of it than that `tv_usec` of the clock is less. `Arm` is the part of
`event_register()` that sets a deadline, with a timeout that callers pass; `ArmUntil` is
the same with the timeout that `dns_resolve_response()` computes from a lookup's deadline, the
only one in the programs with a fraction of a second. `Wake` is a pass of `event_main_run()`
in which nothing but the timeout happens; `Work` stands for everything else that takes time.
`due` is a history variable.

### Http, HttpServer, HttpClient and HttpExchange

A connection is one sequence of items in each direction, `up` and `down`. An item is a line,
reduced to what the other end makes of it (`request`, `status`, `length`, `chunked`, `blank`,
any other `header`, `bad`), or a byte of data. What the streams promise is built in: lines come
whole and in order. `http_read_line()` on data takes everything up to the next end of line as one
line that nobody understands (`LineOf`), which is how a body that was not read shows up. `re` tags
an item with the request it belongs to; only properties read it.

In `HttpServer`, `at` is the place of the task between two yields: it yields where it reads and
where it writes, so an action is what `server_client_task()` does from one read or write to the
next. `request` and `response` are the fields of the structs that decide the control. `script` is the
rest of the calls to `server_response_...()` that the handler, or `server_response_error()`, will
make; `Write` does one of them, with the headers that `server_response_print()` and
`server_response_file()` choose. The loops of the code are the actions that stay at their place:
`ReadHeader` is the handler's loop at `headers` and the server's at `rest`. `err` is what the
handler returned; `Conclude` and `EndResponse` are the two halves of what `server_client_request()`
does with it. `answers` (the status of each request), `meant` (the bytes of body handed over)
are history; `stored` is the file under `upload/`. A timeout may come whenever nothing is there
to read (`ReadFails`). `Crash` kills the process: `stored` is all that is left.

In `HttpClient`, `cat` is the place of `client_request()` and `client_response()`, `got` what is known
of the response, `left` what is to come of a body or chunk, `results` what calls returned. A call
may find a connection from the call before; `keep` says whether it leaves it open. The
client has no timeouts. `Dies` kills it.

`HttpExchange` puts the two on one connection at a time: a new one is accepted when the task of the
one before has ended. `Break` is a failure of the network with the loss of any end of what was
under way; `Reset` is what the kernel sends for a socket that is closed while data comes. `Exchange`
is the abstract specification: requests, one answer to each at most, results of calls. Its
mapping is the identity on `asked` and `results`, and `answers` without that for no request.

### FileServer

`table` says whose each descriptor is, as a function from numbers, because the lowest free one
is what `open()` and `accept()` return, and because `FD_SETSIZE` is a limit on the number. The
listener is a task (`accept`, waiting for its event, sleeping after `EMFILE`, or dead); a client is
one connection (`conn`) with requests one after the other.

`Walk` is `server_static_lookup()`: one `Step` per name of the path, with the directory that it
has open, what it closes, and what it leaves open on some error paths (`Leaks`; such a descriptor
becomes `lost`). It runs without a yield, so `Static` has all of it, and the transfer that follows
is the time until `Finish` or `Abort`. `Dns` is a request that creates a resolver with a socket of
its own. `Limit` is `init_nfiles()`; `Path` has the query behind a path without a slash, which
`tokenize()` runs into. When the listener wakes from its sleep, no other fd may be
ready (`event.c:605`): `Wake` waits until no client has a request unread.

## 4. The runs, their bounds and what they show

| Run | Instance | Result |
|---|---|---|
| `EventLoop` | 3 tasks, 3 events, 2 fds, 2 wait pointers, timeouts up to 1 tick, fds reused at once | 6 invariants and 1 action property hold; 1,240,773 states |
| `DnsClient` | 3 tasks, 2 lookups each, 2 ticks, 1 retry, 2 datagrams | 8 invariants and 1 action property hold; 1,071,980 states |
| `DnsClientLive` | 2 tasks, 2 lookups each, 1 tick, 1 retry, 2 datagrams; short ones, bad checksums, socket errors, late clock | refinement of `LookupService` and 2 liveness properties hold; 254,110 states |
| `ReadStream` | buffer of 3, contents of 4 bytes; reads and files of 0, 2, 4; strings of 1 and to the end | 4 invariants, liveness and refinement of `ByteStream` hold; 1,098,260 states |
| `WriteStream` | buffer of 4, 9 bytes in all, calls with 0, 1, 3 and 5 | 1 invariant, 1 action property and refinement of `ByteStream` hold; 86,916 states |
| `Timeval` | 3 microseconds to the second, 3 timers, timeouts of 1 and 2 s, and of 1, 4 and 5 microseconds left | 1 invariant and 1 action property hold; 149,454 states |
| `Http` | 2 requests: every way through the handlers, then a GET; a file of 2 bytes | 3 invariants, refinement of `Exchange` and liveness hold; 163,690 states |
| `FileServer` | 3 clients with 1 of 8 requests each; `FD_SETSIZE` 5, limit 6, `--nfiles` not given or 3 | 3 invariants and liveness hold; 147,908 states |
| `EventLoopReuse` | 2 tasks, 3 events, 2 fds, 1 wait pointer | one property, violated: section 7 |
| `DnsClientResend`, `DnsClientOrphans` | 1 and 2 tasks, 1 lookup | one property each, violated: section 7 |
| `HttpTruncated` | as `Http` | one property, violated: section 7 |

Why the bounds are enough to see the interesting cases:

- Three tasks: the switch stack gets as deep as `main()` → a → b → c, a receiver, a waiter
  and a third that hands over; two tasks cannot show a hand-over that passes someone by.
- Three events on two fds with delayed destruction: the dispatch loop meets an event that
  is destroyed, its predecessor and its successor, and one appended during the pass, on an
  fd that was closed in it.
- Two lookups per task: a task comes back to the resolver while its first answer is
  repeated on the network. One retry: a query is retransmitted, requeued and given up.
- Two ticks: deadlines of different tasks differ, so that the order of the list matters.
- `MaxDeliveries` bounds how many datagrams arrive in all, 2 or 3: an answer and a repeated
  one, or the answers of two tasks, in any order and at any time. `MaxLookups`, `IdMod` and
  `MaxRetry` bound the rest; no other bound is in the guards.
- `IdMod` is at least the number of all lookups in `DnsClient` (6 of 6), so ids are unique
  there. `OwnAnswer` needs that: with fewer ids the code takes a late answer to the wrong
  query, as every resolver does that matches by id alone.
- Streams: sizes below, at and above the buffer's, and contents longer than the buffer, so
  that data moves to its front, fills it, and is left over from one kind of call to the
  next. With four bytes there are up to four lines; a `\r` is the second byte, to keep the
  number of contents small, and everything else at any distance from it. The number of calls
  is not bounded. `MaxBytes` bounds what is written; 9 is twice the buffer and more.
- Three microseconds to a second give each comparison of `timeout_from_timestamp()` both
  outcomes, with and without a borrow. Timers are armed and work is done until `MaxTime`,
  some two seconds after the start: the longest timeout passes, with others armed before,
  during and after it.
- Two requests: what a request leaves behind can only be seen by the next one on the same
  connection, and a third would find what the second did. The first is one of 21 requests,
  which take every path through the handlers; `MaxRequests` bounds the calls. A body of two
  bytes can be cut in the middle.
- Limits of 6, with 4 left by `FD_SETSIZE`: the listener and three connections leave nothing for a
  lookup, which fails at its first or second directory; two lookups can lose descriptors before a
  third client comes. With `--nfiles` 3 the number of a connection gets past `FD_SETSIZE`. The
  three clients are one more than can be served while a file is open.

Tasks and clients are symmetric; symmetry is used only in runs without liveness properties.

The properties are described where they are stated. The ones to look at first:

- `SwitchStack`, `MainRunsAlone`: what the comment above `event_switch()` asks for, in every
  nesting.
- `ArmedHasTask`, `CursorLinked`: `event_main_run()` never switches into nothing, and never
  follows a freed event.
- `FreshReadiness`: it never wakes a task for an event that `select()` did not look at. This is
  what `event.h` says, and `EventLoopReuse` refutes it. `StaleOnlyByReuse` says how far it goes:
  such a readiness is that of an event on the same fd, polled and destroyed in this very
  pass, and never of an event in use, of another fd, or of an earlier pass.
- `NoOrphans`, `NoForgottenAnswer`: the rules in the comment of `dns_resolve_sync()`. Back in
  `main()`, someone yields on the socket as long as anyone waits, and nobody waits who has
  an answer.
- `DeadlineOrder`, `HeadStays`, `DeadlineWatched`, `RetryWhenExpired`: the assumption "which
  should be the most timeouty resolve" of `resolve.c:222`, before and after the yield.
- `ServiceSpec`: the refinement of `LookupService`.
- `NothingLost`, `ByteStreamSpec`: what the buffers may never do to the order of bytes, whatever
  calls are mixed and whatever failed before.
- `LineIsOneLine`, `EofIsEnd`, `SentOrTimedOut`: what callers conclude from what a call returns.
- `WakesWhenDue`: what the conversions, the search for the earliest deadline and the sleep make
  together of a timeout.
- `InStep`: on a connection that both ends keep, they agree where the next message begins, after
  every combination of handler, error, unread header and unread body.
- `ExchangeSpec`: no call gets an answer to another request, also after a connection was lost and
  the next one opened.
- `NobodyWaits`: a client without timeouts and a response without a length do not wait for each
  other for ever, because of the server's timeout.
- `Accounted`, `PendingServed`: descriptors after every mixture of failures, and the listener's
  return from having none.

## 5. Fairness

`ClientSpec` assumes weak fairness of `System` (the process: `main()`, the tasks, the
reactor) and of `Pass` (time). There is one thread and it never waits for anything but
`select()`, so the first is the operating system running the process; within it, no
scheduling is assumed, because the coroutines are deterministic but for `select()`. Time
passes. Nothing is assumed of the network: `Arrive` and `Refuse` may never happen, and the
liveness properties have to hold with every datagram lost. With an endless flood of datagrams
without a good checksum `udp_read()` would never reach its timeout; `MaxDeliveries` excludes that
flood. `EventLoop` itself states no liveness property: whether a task is ever woken depends on
the program.

`ReadStream` assumes weak fairness of `Progress`, the next step of the call that is going on. As
`FillFails` is one, this says that a task does not wait for ever for a silent peer: it is the
read timeout that `server/server.c:126` sets on every connection. (The client sets none, and may
wait for ever.) `Arrive` and `Hangup` need not happen. `WriteStream` and `Timeval` state no
liveness property.

`HttpExchange` assumes weak fairness of `ServerStep` and `ClientStep`, the two processes, and of
`NetworkResets`. A server's step when nothing is there to read is its timeout, 10 s in
`server/server.c:126`. A client has no such step: it goes on only with data, an end or a
reset. A reset is the kernel's answer to data for a closed socket, and to closing one with data unread.
Nobody has to ask, nothing has to break or die.

`FileServer` assumes weak fairness of the listener and of each client's task. The listener's sleep
has a timeout of zero, and a timeout is only looked at when `select()` reports nothing else
(`event.c:605`): that is in the guard of `Wake`. `PendingServed` holds because each client sends a
bounded number of requests and a connection that is silent is closed after 10 s. Clients that
never stop asking would keep the listener asleep, as the comment there says of timeouts in general.

None of the violated properties of section 7 is a liveness property.

## 6. The proofs

All theorems are checked by TLAPS for every value of the constants, under the named
assumptions only (`None` is no task, no event and no timeout, the bounds are numbers, at least two
ids, `Slots = Tasks` for the resolver, the limits of `FileServer` leave a descriptor beside the
listener's, its trees have a root and no `..`, and a GET has no body). TLC evaluates these assumptions in the runs.
Some theorems have a hypothesis of their own, which their statement names: `~SocketErrors`,
`EnoughIds` and so on. Each is the negation of something that the code does not cope with, and section 7
says what happens then.

`SequenceFacts`: what joining, cutting and prefixes do to sequences, and their order. The facts about
lists start `ReactorProofs`: removing an element of a list without repetitions removes that one
and keeps the order, appending a new one keeps the list free of repetitions.

`ReactorProofs`, on the reactor: the invariants `TypeOK`, `SwitchStack`, `WaitersSuspended`,
`PendingSuspended`, `ArmedHasTask` and `CursorLinked` hold in `Spec`. They are inductive only
together (`IInv`), with two strengthenings: `ListOK`, that the list of events has no
repetitions and the cursor is in it, which the unlinking steps need; and `ResumeOK`, that
the coroutine being resumed is the one that runs, and that `task->event` is the event
whose pending task it is, which ties `YieldReturn` to the event it clears. There is one
lemma per action that changes what an invariant reads.

`MainRunsAlone` is not a consequence of `IInv`: `SwitchStack` would allow a ring of tasks
that called each other. Its proof has the whole stack as a witness (`StackIs`): a sequence
from `main()` to the running coroutine, without repetitions, whose members are exactly the
active tasks. Switches push and pop it.

`NoSwitchLoop` and `OnlyLoopEndsYield` follow from `IInv` step by step. `StalenessCorrect` is
`StaleOnlyByReuse` for every program and either value of `ReuseFds`, with the invariant `FdSets`:
linked events have distinct fds, but for those that have been destroyed, and the fd_sets only
hold fds of polled events, which stay linked as long as the pass goes on.

On the resolver, in the same module: the invariant `RInv` relates the places of the tasks in the resolver to
the reactor (`PlacesOK`), the list to the lookups (`ResolvesOK`), and the receiver to the head
of the list (`ReceiverOK`). `WatchOK` is the heart of the hand-over: unless the socket fails,
as long as some task waits, another one yields on the socket, or is active and has not left
`dns_resolve_sync()` yet. Under `IInv /\ RInv` every step of the program is a step of
`EventLoop`, or leaves it alone (`ClientStepIsLoopStep`). So `IInv` is preserved too, and
`ClientUsesLoop` (`ClientSpec => Spec`) carries everything that is proved of the reactor over
to the program. With `MainRunsAlone`, no task is active back in `main()`, and `WatchOK` becomes
`NoOrphans` (`NoTaskIsOrphaned`); `HeadStays`, `NoForgottenAnswer` and, without socket errors,
`ListMatchesLookups` follow from `RInv`.

Deadlines are on top of that. `OrderCorrect`: a query and a retry put at the tail the longest
time there is, and everything else removes elements or lets the same time pass for all. For
`DeadlineIsWatched` the chain from a lookup's deadline to `select()` is one invariant, `TimeInv`: a
receiver about to read finds something or has the head's deadline as its budget (`BudgetOK`), one
that yields has it as its timeout (`AlarmOK`), one that was woken is told the truth (`WakeOK`), and
the dispatch loop only ever stands on the socket's event (`LoopOK`). `RetriesAreDue` adds that a
task is in `expired` only when the time of its `first` is over (`ExpiredOK`). The assumptions of the
two theorems are the exceptions of the code: a clock that runs on while tasks do, datagrams with
bad checksums, and errors of the socket for the one, datagrams without a header for the other.

`AnswersAreOwn` is about the 16-bit ids. All lookups that were begun can be numbered so that the
ids are consecutive modulo `IdMod` (`Numbered`); with no more lookups than ids (`EnoughIds`, the one
hypothesis) they differ. Every query and answer under way carries the id that
its lookup has (`IdsOK`), so what `dns_resolve_response()` matches is its own, and a late answer
finds nothing. With one id less, TLC finds a violation in a few steps.

`ResolverIsService` is the refinement of `LookupService`, without hypotheses. Whoever receives does
the retransmissions and the giving up for all; each is a step of the service of the task that *owns* the
lookup (`StepIsService`). What it needs is that a lookup has been sent as often as its retries are
counted, and is given up only after its last (`Tries`, `LastTry`).

`TimevalProofs`: for carried timestamps `timeout_from_timestamp()` is exact (`TimeoutIsExact`)
and the comparison in `event_main_run()` is the order of the times (`BeforeIsEarlier`), for any
number of microseconds. Both fail without the carry. `StampsCorrect` needs no carry: a
timestamp always has the right value. `WakesCorrect` says that the wake-ups are exact from every
state that is `Carried`, and `WholeSecondsCarried` that all states are if all timeouts are in whole
seconds: then `tv_usec` is the clock's. That is the case for the server's timeouts, and for the
resolver's deadlines themselves, but not for what the resolver passes to `event_yield()`.

`ReadStreamProofs`: `NothingLost`, `EofIsEnd` and `LineIsOneLine` are inductive with three more:
while a call is going on its data is at the front of the buffer (`AtFront`), so that a full buffer
is full of what was not read; `eof` is set only at the end or for want of room (`EofIsSound`); and
of what is not delivered only a `\r` has been overwritten (`OnlyCrErased`), so that a line that is
scanned again still ends where it did. `WriteStreamProofs`: `WrittenInOrder` is inductive with
`CallSound`, that only `stream_write()` has data outside of the buffer. In both, what is sent
ascends, so order and uniqueness are one fact (`Ascending`, in `SequenceFacts`), and the
refinements of `ByteStream` (`ReadsAreByteStream`, `WritesAreByteStream`) follow with it.

`HttpProofs`: `Control` is what both programs keep to by themselves: which fields of the structs mean
something at which point, what scripts a handler can leave, that the client's and the server's numbers of
the request never pass the calls. `UploadIsWhole` needs to know what is on the connection: the
items of one request after the other, in the order of the calls, with the length of the request
that they belong to (`UpOrder`); and, where the client is about to add a body, that what is under way ends
with its own headers (`UpEnds`). Then `Content-Length` is that of the request that the server is
reading (`Upload`), whatever bytes are missing, and a file with that many units is whole. This
holds on connections that break, and for requests that the server refuses half-way.

`HttpFramingProofs`: `InStepAlways` and `ExchangeImplemented`, for requests that are `Understood`: none
that lacks a handler has a header which the server refuses. (With such a request the two ends do lose
step, see section 7; `MCHttp` asks for none, which TLC evaluates.) What is under way in either direction is
described from where both ends are, and `Framed` is that it always is so, with `Asks` and `Handed`, the
little that the counters of both ends have to do with it.

- To the server (`UpFramed`): the rest of the request that the task has read the first part of, and knows
  of what that part says (`Within`, `ReadUpTo`); or, while it waits for a request, nothing or one from its
  beginning (`Waits`, `Queued`); or the next request already, behind what the task will still read of this
  one (`Ahead`), which is where a client is faster than the server's loop at `rest`. Otherwise
  `server_client_request()` is going to close the connection (`Doomed`), or nobody will send on it (`Dead`).
- To the client (`DownFramed`): the items take the client, as an automaton that reads lines and data
  (`Accepts`, `After`, `CanRead`), from where it is to where the task is in its response (`Matches`,
  `Wrote`), and on the way it only ever knows the status and the units of the answer to its own call
  (`Known`). Each call to `server_response_...()` appends a part that carries the automaton on; each
  read of the client takes the first item off; and a connection that breaks leaves the beginning of what
  was there, which carries it part of the way.

The server's half of `InStep` is then `UpFramed` where the task waits; the client's half is
`DownFramed` where the call is over: a client that is done with a response and keeps the connection has
nothing more to read from it. For the refinement, `answers` changes only from 0, and a status that a call
returns is `Known`, so every step is one of `Exchange`, or a stutter.

`FileServerProofs`: `Accounted` and `ListenerSurvives` are inductive with `AskedSound` (who has sent
something has sent a request), `BacklogSound` (who is in the backlog waits, once) and
`ListenerIsFirst`. What a walk does to the table is an invariant of its steps (`WalkSound`), and
`LookupsCorrect` compares it name by name with `Named` (`WalkAgrees`). `Walk` is a recursive function:
that one exists, and is what each step makes of the one before, is shown with a least
counterexample (`WalkExists`, `WalkIs`).

Of the properties that the runs check, all invariants, action properties and refinements are proved, some
under the hypotheses above. Only checked by TLC are the liveness properties `EveryLookupReturns`,
`ProgramEnds`, `CallsReturn`, `NobodyWaits` and `PendingServed`, which, like all liveness under fairness,
are out of the prover's reach.

## 7. Where the code does not do what it says

Each of these has a run whose counterexample shows it:

- `EventLoopReuse`: `event_yield()` returns 0, "event happaned" (`event.h:84`), for an event that
  `select()` has never looked at. The second loop of `event_main_run()` looks up `event->fd` in
  the fd_sets (`event.c:652`) also for an event that was created in this pass, on an fd that was
  closed in it. `tcp_connect_async()` does that when the first address fails
  (`tcp_client.c:45-63`): `SO_ERROR` of the second socket is 0 while it still connects, and it is
  taken for connected. It takes one more event between the two in the list (`event_next` is
  read before the task runs), so another task, as in the client with `--parallel`.
- `DnsClientResend`: `dns_resolve_retry()` relies on the "old packet" being "still intact.."
  (`resolve.c:158`). `dns_query()` (`dns/dns.c:132`) takes the end of the packet from `ptr`, which the
  first call left behind the header. Every retransmission is a bare header.
- `DnsClientOrphans`: when the receiver's `read()` or retransmission fails, it leaves without
  notifying the waiting tasks (`resolve.c:351`); "those tasks will all die" (`resolve.c:325`).
- `HttpTruncated`: `client_request()` returns "0 on success" or "1 on success" (`client.c:473`), but
  1 is also what `http_read_file()` returns for a connection that ends within a body. The call returns
  200 with a part of the file.

The models have these too. The properties that the runs check name them as exceptions, are
checked without them, or are stated in a module and left out of the runs:

- In the case of `DnsClientOrphans`, `dns_resolve()` also frees the resolve while it is linked in
  `dns->resolves` (`resolve.c:466`), although it is to be "dns_resolve_response()'d upon return"
  (`resolve.c:299`). Other tasks read the freed memory. `ListMatchesLookups` fails with `SocketErrors`, and
  `FreedInUse` is the exception in `EveryLookupReturns` and `ProgramEnds`.
- A truncated datagram makes `dns_response()` return 1 (`dns/dns.c:185`), which is documented as the
  timeout (`dns/dns.h:64`) and handled as that of the first lookup. `RetryWhenExpired` fails with
  `ShortPackets`.
- A datagram with a bad checksum starts the receiver's timeout again from its beginning
  (`udp.c:115`): `DeadlineWatched` fails with `BadChecksums`.
- The "total 10s timeout" (`dns.h:171`) is 12 s: `DNS_RESOLVE_RETRY` is 5, so a lookup makes six
  transmissions with 2 s each. `LookupService` counts `MaxRetry + 1`.
- "There must be room available" for `_stream_read()` (`stream.c:135`), but `stream_read_line()` and
  `stream_read()` call it with a full buffer too. `read()` is asked for 0 bytes, and its 0 is
  returned as the end of the file: an exception in `EofIsEnd`.
- A size of 0 is "to read as much data as available" (`stream.h:51`); `stream_read()` then reads
  nothing, and returns the end of the file if the buffer is empty: the other exception there.
- "The maximum size to read should be given in len" (`stream.h:69`), but `stream_read_string()` marks
  all that is buffered as consumed (`stream.c:415`): `StringTakesNoMore`. A request that was sent right
  behind a form is lost (`ReadForm` in `HttpServer`).
- `(err = write() < 0)` (`stream.c:266`) assigns the comparison. A timeout counts as a complete
  write, so that `stream_flush()` does not do what it says "on success" (`stream.c:471`):
  `SuccessMeansSent`. The -1 of an error becomes a 1, which is not "<0 on error" (`stream.c:253`).
- `timestamp_from_timeout()` does not carry (`util.c:119`). With more than a second in `tv_usec`,
  `timeout_from_timestamp()` returns 1 for a timestamp that is not "in the past" (`util.h:47`), up
  to a second early: hence `Carried` in `WakesWhenDue`.
- "--nfiles  Limit number of open files" (`server.c:65`): below `FD_SETSIZE` it is only logged
  (`server.c:94-97`), so the inherited limit holds, also one above `FD_SETSIZE`, and then the first
  connection with such a number ends the listener. `NfilesLimit` says the first, the exception
  `Limited` in `ListenerSurvives` the second.
- A query behind a path without a slash at its end is walked as more of the path (`static.c:258`):
  the exception in `LookupFinds`.
- `server_static_lookup()` and its caller leave descriptors open: `return 404` from the loop
  (`static.c:326`), a directory that cannot be opened (`static.c:301-305`), PUT to a directory
  (`static.c:435`). They are `lost` in `Accounted`.

Met while reading, and in the models where they have an effect on the control: the client
reports 0 for a connection that ends before its status line and 400 for a line that is none
(`Exchange` allows 0; `client.h:60` knows statuses and negative numbers). A 301, a 201
and an empty file are sent on a kept connection without a length, and the client waits until the
server's timeout. A request with two bad headers, or with one and no handler for its method, leaves
lines that are answered as a request of their own, with 400 (`Understood` excludes the latter;
a request of the model has at most one). The end of the upload's connection
becomes the status 1. Errors of writing a response are dropped (`server.c:850` is not reached). A
truncated answer of the nameserver makes a shorter listing with status 200.

Met while reading, in parts that are not modelled: `dns_unpack_header()`'s caller
`dns_resolve_header()` cannot fail; a question that cannot be unpacked is taken for "no more
questions" (`dns.h:190`); labels of 63 characters are refused (`pack.c:116`); a folded header is
appended to a line that has been overwritten (`http.c:161`); `tcp_connect_async()` leaves its
socket open when the socket cannot be made non-blocking (`tcp_client.c:26-35`); the client without
`--parallel` ignores the results of its calls (`client.c:301-310`).

After the step in which a listed resolve is freed the C program reads freed memory. The
model keeps the last values there, and nothing should be concluded from what it does afterwards.
Of the passing runs only `DnsClientLive` has `SocketErrors`; its liveness properties ask for
nothing once `FreedInUse` holds. The refinement goes on there with the values kept, and says
something of the program only up to that step.

## 8. What is left out

- Failing `malloc()`, `co_create()`, `gettimeofday()` and `select()`: the programs exit or the
  call returns -1 with no effect on other state.
- `event_main_yield()`, `dns_resolve_async()`, `dns_resolve_multi()`, `http_read_chunked()`: no
  program calls them.
- `_stream_write_file()`, the fallback for streams without `sendfile()`, which only `ssl.c` has; a
  `write()` to a file that returns 0. The blocking sockets of the client without `--parallel` are not
  modelled apart: `read()` and `write()` then block where the model's calls yield, and never time out.
- `time_t` is wide enough; `gettimeofday()` is never set back.
- In `HttpExchange`: limits of what the network buffers (a write never has to wait for the reader,
  so its timeouts are in `WriteStream` only); a second connection at the same time; pages are two
  prints long; `Connection: keep-alive`, which the client never sends. `http_vprint_chunk()` with data
  that does not fit the buffer: no handler prints so much.
- In `HttpServer` and `HttpClient` a head, a file or a chunk goes out in one step (`Write`,
  `SendHead`), so nothing times out or dies within one; a file that is cut short is `WriteShrunkFile`.
  A print of the dns error page that fails after its first returns 1 (`server.c:712-730`) where the
  model has 0 or -1; nothing depends on it once the status is out.
- In the resolver a deadline is over when no ticks are left; `util.c:131` wants it strictly past.
- In `FileServer`: errors of `accept()` other than running out of descriptors (`tcp_server.c:140`), which
  end the listener; symbolic links and permissions; several listeners. A request that is pipelined.
- The addresses of `tcp_connect()` one after the other; the event that `udp_destroy()` leaves behind
  (`udp.c:161`), which nobody yields on and `select()` does not watch.
- Contents of packets and records (`dns/pack.c`, `dns/unpack.c`), the tables of `parse.c` and
  `url.c`: sequential functions with unit tests; options, logging, formatting.
- `ssl.c`, `log.c` and `daemon.c` are plain I/O.
