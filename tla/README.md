# Oreshnek in TLA+

Specifications, model-checking runs and machine-checked proofs for the Oreshnek
HTTP server. Paths such as `Server.cpp:733` are files under `src/src` and
`src/include/oreshnek` of the repository. `PROJECT.json` lists components, runs,
mutants, the map from definitions to source lines, findings, hazards and
theorems.

## The system

One process. A single **event loop** thread (`Server::run`) owns every
`Connection` and the epoll descriptor. It reads requests and hands each one to a
**thread pool**. A worker runs middlewares and handler, queues the response in
`completed_`, and wakes the loop through a **self-pipe**. The loop writes the
response. A signal handler may ask for a **drain**; the main thread then calls
`stop()`.

| Component | State | Operations | Talks to |
|---|---|---|---|
| Event loop, `server/Server.cpp` | `connections_`, epoll interest, `draining_`, `listen_fd_` | `run`, `handle_new_connection`, `handle_client_data`, `dispatch_next`, `process_completions`, `handle_write_ready`, `enforce_timeouts`, `stop_accepting` | kernel sockets; the pool by `enqueue`; workers by `completed_` and the pipe |
| Connection, `net/Connection.cpp` | read buffer, response state, `processing_`, `worker_in_flight_`, `continue_sent_`, activity times | `read_data`, `parse_next`/`consume`, `write_data`, `set_response_content`, `close_connection` | called by the loop only |
| Thread pool, `server/ThreadPool.{h,cpp}` | `tasks_`, `stop_`, mutex, condition variable | `enqueue`, the worker loop, `shutdown` | any caller; workers run its tasks |
| Request task, the lambda in `dispatch_next` | captured connection, request and descriptor | middlewares, handler, response semantics, completion, gauge | pool, `completed_`, pipe, metrics |
| Shutdown, `request_stop`, `stop` | `stop_requested_` | flag, wake, drain, teardown, join, close | loop, pool, pipe |
| Metrics, `server/Metrics.*` | atomic counters, `workers_in_flight` | increments from loop and workers | load shedding reads the gauge |
| Rate limiter, `server/RateLimiter.*` | token buckets by address | `allow` with eviction | loop, before dispatch |
| Router, `server/Router.*` | tree of segments | `add_route`, `find_route` | workers |
| HTTP parser, request, response, `http/*` | parser state, views into the read buffer | incremental parse, `make_owned` | Connection, workers |
| Database pools, `platform/PgPool`, `SqlitePool` | idle handles, mutex, condition variable | `acquire`, release | handlers |
| TLS, `net/TlsContext`, part of `Connection` | handshake, wanted direction | handshake, read, write | loop |
| Middlewares, compression, response semantics | none: functions of request and response | the chain, `maybe_compress`, `apply_http_semantics` | run by the request task |
| Program, `main.cpp`, `platform/Config.*` | settings, descriptors, `g_server` | load, set up, run, tear down, signals | every other part |
| Logger, `utils/Logger.*` | the file, its size, the mutex | `set_file`, `write`, rotation | everybody |
| Database backends and the handlers of `main.cpp` and the examples | tables, `last_insert_id` of a connection | `run_impl`, routes | pools |
| Multipart, security utilities, epoll manager | none | - | handlers, or nobody |

What is hard here: one-shot edge-triggered events that every handler must re-arm;
results that arrive after their connection is gone and its descriptor was given
to somebody else; a self-pipe that is bounded and shared; deadlines that race
with late answers; pipelined requests already in the buffer when no event will
announce them; the shutdown, which crosses all threads. What makes each component
correct:

- *Event loop*: no live connection is stranded in a phase nothing will end; every
  request is answered once, in order, to the client that asked; nothing is written
  into the middle of a response; a stop request ends the loop.
- *Hand-over to the pool*: one request of a connection in flight; a completion is
  never left behind with the loop asleep; the cap bounds the backlog exactly.
- *Thread pool*: FIFO, each task once, no lost wakeup, no idle thread while work
  waits, shutdown runs what was accepted and returns.
- *Shutdown*: a drain loses nothing within its grace, ends in any case, and the
  pipe outlives its writers.
- *Timeouts*: each deadline is enforced in time and never early.
- *Metrics*: no request and no duration is lost, without a lock.
- *Request task*: HEAD is told what GET would be; headers describe the body they go with.
- *Requests*: a request shows its own bytes as long as it lives.
- *Application*: what a client is told of the database is so.
- *Logger*: rotation loses, doubles and reorders nothing, over restarts.
- *Program*: it starts as it was told or not at all, undoes a failed start, heeds signals.
- *Rate limiter*: lazy refills and evictions cannot be observed.
- *Router*: the route that fits is found, the most literal first.
- *Parser*: the requests handed out are those sent, however they are cut into reads.
- *Database pools*: a handle has one user at a time and none is lost; no caller
  sleeps beside a free one; outages are recovered from.
- *Responses*: the client is sent the bytes the headers announce, those its range
  names, in order, over short writes; then the next request is read.

## Modules

| Module | What it is |
|---|---|
| `HttpExchange` | abstract: whose turn it is on each connection and what its client was told |
| `Server` | the event loop, connections, workers, self-pipe, owner, and the environment |
| `ServerProperties` | the invariants, action properties, refinement mapping and fairness for `Server` |
| `MCServer` | the same, with the symmetry set for TLC |
| `ServerProofs` | proofs about `Server`: types, the gauge, the self-pipe |
| `ServerPhaseProofs` | proofs about `Server`: phases, custody of requests, timeouts, drain, backlog, and the step to `HttpExchange` |
| `TaskQueue` | abstract: a FIFO queue of tasks, each run once, closed at the end |
| `ThreadPool` | the pool at the level of its mutex and condition variable, and its properties |
| `ConnPool` | `PgPool` and `SqlitePool`: construction, acquire, release, outages of the database server |
| `TokenBucket` | abstract: a bucket for each address, refilled all the time and never forgotten |
| `RateLimiter` | the limiter of `RateLimiter.cpp`: lazy refills, eviction |
| `Router` | the routing tree, the search, and the reference it is compared with |
| `HttpParser` | the parser on the read buffer of a connection |
| `ResponseWriter` | what leaves one connection: `apply_http_semantics`, the parts of `write_data`, the direction the loop arms, in clear and under TLS |
| `ResponseWriterProofs` | the range arithmetic and the sending, proved |
| `Timeouts` | the four deadlines of a connection against the clock |
| `Sums` | the sum of the first entries of a function, which `Metrics` and `Logger` use |
| `Metrics` | counters, histogram and its rendering, one atomic operation at a time |
| `Reply` | what a worker makes of a request: middlewares, route, handler, compression, semantics |
| `RequestViews` | whose bytes the views of a request show, through `make_owned`, copies and moves |
| `Application` | handlers that share a database: notes, registration, login |
| `Logger` | the log file and its rotation |
| `Lifecycle` | the program from `Config::load` to its exit, with failures and signals |
| `MCParts` | the parts with promises under fairness side by side (`ConnPool`, `ResponseWriter`, `ThreadPool`, `Lifecycle`); the first state chooses which one moves |
| `PartsProofs` | proofs about `ThreadPool`, `ConnPool`, `Lifecycle` and the types of `MCParts` |
| `MCServices` | the parts checked for safety side by side (`RateLimiter`, `Router`, `HttpParser`, `Timeouts`, `Logger`, `Metrics`, `Reply`, `Application`, `RequestViews`) |
| `ServicesProofs` | proofs about `RequestViews`, `Application`, `Reply` and the types of `MCServices` |
| `ClockProofs` | proofs about the parts with a clock: `RateLimiter` and `Timeouts` |
| `DataProofs` | proofs by induction over data: `Metrics` and `Logger` |
| `RequestProofs` | proofs about `Router` and `HttpParser` |

`ThreadPool` implements `TaskQueue`. The steps `TakeTask` and `ExitWorker` of
`Server` are what `TaskQueue` promises (start the oldest task; nothing after the
queue is closed), so `Server` carries neither mutex nor condition variable.
`Server` implements `HttpExchange`, and `RateLimiter` implements `TokenBucket`.

The other parts share no state with the threads of `Server`: the limiter and the
parser run to their end inside `dispatch_next`; the router and `Reply` inside a
worker's task, on a tree that no longer changes; a database is known to the handlers
alone; nothing in the server reads a counter other than the gauge, or the log.
`Server` therefore contains their outcomes (refused or not; complete, incomplete,
malformed; a handler that returns, throws or hangs) and the details are modules of
their own. Four modules look at a piece of the core again, at another grain:
`Timeouts` adds the clock that `Server` leaves out, `ResponseWriter` the bytes of a
response, `RequestViews` the memory that `make_owned` detaches from the connection,
`Lifecycle` the set-up and the teardown around `run()`.

### How `Server` corresponds to the code

- `connections` is `connections_`. `conn[c]` holds the fields of a `Connection`
  and its socket as the kernel sees it. A `Connection` object is one identity
  for ever; descriptors (`Fds`) are reused. That is what the check
  `it->second == item.conn` in `process_completions` is about (`StillOwner`).
- `loop` is the program counter of `run()`. Each handler is one action, the
  trailing `rearm` or close included. A handler that other threads can interleave
  with has several: `drain_wakeup` (each `read`), the swap of `completed_`,
  each completion, each turn of the `accept()` loop.
- A worker takes a task, runs the handler, pushes the completion under the mutex,
  notifies the loop, and leaves through the destructor of `InFlightGuard`: five
  points between which anything may happen.
- `batch` is what `epoll_wait` returned and is not handled yet: a connection may be
  closed by an earlier event of the same batch.
- `late` says that the deadline of the connection's current phase has passed. It is
  one flag because `enforce_timeouts` looks at one deadline at a time (handler,
  write, or idle and read), and it is reset where the code restarts the clock the
  next phase counts from. Which instant that is, is the subject of `Timeouts`.
- `said` is a history variable: what the client was sent for which request.

Abstractions:

- A request is `ReqChunks` chunks (the first is its headers), a response
  `RespChunks` chunks; bytes and contents are left out, and the parser is known by
  its outcome: complete, incomplete, malformed.
- epoll reports all events it has, since `MAX_EVENTS` exceeds what the instances
  can produce. `EINTR` and a timeout of `epoll_wait` are the same empty batch.
- A failing `EPOLL_CTL_MOD`, `fcntl` or `epoll_ctl` is a disjunct of `Rearm` and
  `Accept`: the connection is closed, as in the code.
- `AcceptFails` is any errno of `accept()`: nobody queued, no descriptor left, or an
  error of the kernel or of the peer. The loop leaves in each case.
- A write event writes the rest, or leaves what `CutShort` says: less than before
  with a full socket, or, when the file being sent has shrunk, a rest that will never
  get smaller.
- `Closed` resets the fields of a connection that nobody reads any more.
- `keep_alive_` is never cleared by the code, so every connection is persistent.
- The rate limiter refuses or not at will (`RateLimit`).
- `stop()` repeats `request_stop()`; by then the loop is gone and nobody can
  observe it.

Operators named `Faulty...` are mutants: each is the definition that follows it
with a plausible mistake, no specification uses one, and each property is violated
when one takes the place of its original.

### How `ThreadPool` corresponds to the code

An action is what a thread does between two points at which another may run: take
the mutex, the critical section, `notify_one` after the mutex is released, the
task. `Sleep` releases the mutex and joins the sleepers in one step, as
`condition_variable::wait` does; `SpuriousWake` is what the standard allows. Each
task is one call of `enqueue` by a thread of its own, which is more concurrency
than the server has (its loop is the only caller).

### How the smaller parts correspond to the code

- `ConnPool`. A section under the mutex touches only what the mutex guards, so it
  is one action; `notify_one` comes after and is another. A caller is one call of
  `run_impl`. A session the server lost is `broken`; libpq learns of it from a
  failing query (`bad`), which is what `release` looks at. `SqlitePool` is the
  same without `PQreset`, and with `PragmaFails`: the one path on which the
  constructor leaves connections open (`SqlitePool.cpp:13`, `:43`).
- `RateLimiter`. Tokens are counted in units, so rates and bursts may be fractions;
  doubles are taken as exact. `LimiterAssumption` excludes a burst between 0 and 1:
  such a bucket starts overdrawn, is granted one call, none after it, and one more
  after each eviction.
- `Router`. A node is named by the way to it. `find_route` is an operator that
  returns the set of possible outcomes: reading past `path_segment_end` is
  undefined, and gives no route or a crash. The iterator that both recursive calls
  increment (`Router.cpp:123`, `:133`) is modelled as it is.
- `HttpParser`. A unit is a line with its CRLF, a byte of a body, or the CRLF of a
  chunk, and reads cut the stream between any two units. Bodies contain units that
  look like the end of headers or of chunks. Query strings and header values are
  left out; header names are spelt as `header()` looks them up, which is case
  sensitive (`HttpRequest.cpp:76`). Not seen at this grain: a header block of
  exactly `MAX_HEADER_BYTES` is refused if a read ends within its blank line
  (`HttpParser.cpp:29`).
- `ResponseWriter`. A byte of a body is its offset in the file or text; headers are
  a number of bytes without content. `WriteData` is one call of `write_data`: it gets
  out what the room in the socket and the file allow, and says how much, what is left
  and what `tls_want_` becomes. `SendResponse` is the rest of `handle_write_ready`, with
  the dispatch it ends in. The file may be resized or unlinked between any two of
  the size the handler announced, the `stat`, the `open` and the writes; `harmed`
  notes when a response needed what is gone from the file. A file that is not there when
  the handler asks for its size gets no Content-Length (`measured`). A response whose
  Content-Length is not the size that is then sent is `Mislabelled`, see below. Validators are compared as a whole; a
  date that does not parse counts as older. SSL_accept may want either direction at
  each call; after it, without renegotiation, SSL_read wants to read and SSL_write to
  write. Refusals, hard errors and closing are in `Server`.
- `Timeouts`. An instant is the time passed since, in halves of a second in the runs;
  what is compared is bounded, so ages stop at `Long`. `Elapse` is time spent in
  `epoll_wait`, a second at most; a turn of the loop takes none. `Due` is the chain of
  tests in `enforce_timeouts`. `idleFor` and `busyFor` are what the code keeps
  (`last_activity_`, `processing_since_`); `stageFor`, `askedFor` and `stillFor` are
  history, what somebody outside would measure. `Refreshes` says which calls of
  `write_data` count as activity: those that reach their end.
- `Metrics`. Every step is one atomic operation in program order. `window` notes what
  was finished when a scrape began and what had started when it ended.
- `Reply`. One step, since a task is private to its worker; all that varies is in the
  first state: chain, routes, handler, settings, request. The operators follow the
  order of the lambda, so that `Finished` is the order of compression and semantics.
- `Application`. A handler is a sequence of statements with other handlers' between
  them. Which connection a statement uses is an outcome of `ConnPool`.
- `RequestViews`. A view is a place, in the read buffer or in a block of memory.
  `consume` moves what is behind to the front, which is why a view left behind shows
  another request. A whole request has at least 18 bytes: its storage is never within
  the string object.
- `Logger`. `write` and `set_file` hold the mutex and are one step each. A restart is
  `Close` and then `SetFile`. A fault of the directory fails all removals and renames
  of a rotation; `filesystem::rename` on a file that is missing is no fault.
- `Lifecycle`. One action per call of `main`, with the ways it may fail; an exception
  or an early return leads to `Unwind`, which destroys what lives, in order. A field that
  holds the number of a closed descriptor is `stale`; a database whose set-up threw at a
  `PRAGMA` is `leaked`, which `EndsClean` allows for that failure only.

## Runs

Each run finishes within two minutes with two workers.

| Run | Question | Instance |
|---|---|---|
| `reuse` | Do late results reach the connection that inherited the descriptor? Is every connection in a phase something ends? Is the gauge exact? Does it implement `HttpExchange`? | 2 connections on 1 descriptor, 1 worker, 2 requests each, cap 1, handlers may throw, all timeouts |
| `concurrent` | Is a completion or a wakeup forgotten, or a client in the backlog by anything but a failing `accept()`? Does a clean drain lose anything? Does the pipe outlive its writers? | 2 connections, 2 descriptors, 2 workers, pipe of 2 bytes |
| `pipelined` | Are pipelined requests answered in order, with nothing written into a response? | 1 connection, 3 requests of 2 chunks, buffer of 2 requests, `Expect`, rate limiting, all timeouts |
| `hung` | Is every request resolved, whatever handlers and clients do, thanks to the timeouts (but for a file that shrinks)? | 2 connections on 1 descriptor, handlers hang or throw |
| `progress` | Are requests answered, does a drain end and `stop()` return, with no timeout to help? | 2 connections on 1 descriptor, handlers may hang, clients read |
| `parts` | Is each handle in one place, no caller forgotten, every outage recovered from? Does a response bring what it announces, and end? Does the pool run every accepted task once, in order, and stop? Does the program undo a failed start and heed signals? | 2 handles, 4 callers, an outage; files of 0 or 3 bytes changed once, headers and socket of 2 bytes, 2 requests of 57 kinds; 2 workers, 3 calls of `enqueue`, a shutdown at any time; every file, environment, failing call and signal |
| `services` | Are refills and evictions unobservable? Is the route that fits found? Are requests parsed as sent? Are deadlines kept, and never early? Does the log keep its lines? Do counters and histogram lose nothing? Is HEAD told what GET would be? Is what clients are told of the database so? Do requests show their own bytes? | 2 addresses, bursts of 7/3 tokens; 3 routes of at most 2 segments over 2 words and 2 parameters, every path of at most 3 segments; streams of 2 requests of 60 kinds, cut anywhere, on a buffer of 9 units; all timeouts 1 second or none, ticks of half a second; 5 lines of 3 sizes, up to 3 old files; 2 workers, 2 buckets, 2 requests; 4 chains, 3 sets of routes, 24 handlers, 3 settings, 192 requests; 3 clients on 2 connections; 3 requests in 2 tasks and 2 copies |
| `tls_keepalive` | finding: after a response that did not fit the socket, the next request on a TLS connection is never read | 1 connection, 2 requests |
| `dead_end` | finding: after a literal segment that leads nowhere, the parameter is tried one segment too far | 2 routes |
| `slow_download` | finding: a file that takes longer than the write timeout is cut although the client takes it | timeouts of 1 second, a body of 2 units |
| `second_continue` | finding: the second `Expect: 100-continue` of a connection gets no 100 | 1 connection, 2 requests of 2 chunks |
| `thrown` | finding: a throw that is not a `std::exception` leaves `processing_` set with nobody to answer | 1 connection |

Why the bounds are enough for the cases meant: two connections on one descriptor
are the least for reuse, and two requests the least for pipelining. Two chunks of
a response are the least for a short write; two of a request, for a partial one. A
pipe of one byte is full at the first notification; with two bytes it can be
neither empty nor full. A cap of one is reached by one request. With two
workers two completions can be pushed between any two steps of the loop. Three
tasks on two workers let one task wait while a thread sleeps and another works.
In `parts` and `services`, two handles and four callers let two callers sleep; rate
and token do not divide one another, so buckets become full between two looks; two
routes compete on a node and the third is registered over one of them; a stream of
two requests is the least for pipelining, and the longest request has 13 units, more than
the buffer holds; a file of three bytes takes two calls of
`write_data` after its headers, and no first call gets both out; with ticks of half a
second and `Long` of nine, an age passes the limit of every timeout and the two seconds
the sweep may add; five lines fill three files and rotate a fourth time; two workers
meet in each pair of atomic operations, and a scrape meets both; three clients let two
race for a name while a third holds a connection. `MaxReq` bounds what a client sends, not what the server does. No state
constraint is used.

Deadlock is checked in every run; a part that is over, or has reached its bound, stutters
by an action of its own. In `Server` that is `Terminated`: `stop()` has returned, or
joins a worker whose handler hangs.

### Fairness

- `WF(EventLoop)`: the loop's thread is scheduled, and `epoll_wait` returns at least
  once a second (`Server.cpp:536`).
- `SF(Sweep)`: the sweep is skipped until `kCleanupIntervalSec` has passed, so
  it is taken whenever it comes round often enough.
- `WF(Worker(w))`: workers are scheduled and handlers return; where `MayHang`
  allows it a handler may step into `hung` and never return.
- `WF(Lapse(c))`, `WF(GraceExpires)`: time passes.
- `WF(Resume(c))`, only in `ReadingClientsSpec` (run `progress`): clients go on
  reading. Nothing else is assumed of clients, and `hung` does without even this.
- `ConnPool`: weak fairness of each caller. A notified thread may find that another
  took the connection; callers are finitely many, so it is served in the end. (With
  callers that come for ever it need not be: neither pool hands a connection to
  the thread it wakes.) The database server need never return.
- `ResponseWriter`: the loop and the workers go on, and the client reads what it is
  sent. Nothing is assumed of the handshake or of the file.
- `Lifecycle`: main goes on, and workers that were told to stop exit. Signals, failures
  and a failing `epoll_wait` need never come.
- In `MCParts` each of these is guarded by the part that moves; the same conjuncts
  without the guard are the fairness of the part's own specification. `MCServices` has
  safety properties only, and no fairness.
- The pool: weak fairness of each thread, strong fairness for the mutex, that is, a
  thread that finds it free again and again gets it. Neither `enqueue` nor
  `shutdown` need be called.

### Findings

1. `continue_sent_` is cleared only by `Connection::reset`, which nothing calls: on
   a keep-alive connection only the first request is ever told to continue
   (`Connection.cpp:364`, `Connection.h:47`).
2. What is not a `std::exception` escapes the lambda, no completion is queued and
   `processing_` stays true; with `handler_timeout_sec` 0 it does so for ever
   (`Server.cpp:838`, `Connection.h:67`).
3. Both recursive calls of `match_route_recursive` increment the same iterator, so
   that the parameter branch, tried after a literal child that led nowhere, skips a
   segment or runs past the end (`Router.cpp:123`, `:133`; the comment at `:128`
   says what is meant). With `GET /a` and `POST /:p`, `POST /a` has no defined
   answer.
4. `tls_want_` stays at `Write` after `SSL_write` would once have blocked, and
   `dispatch_next` arms the idle connection for write: the loop turns on a writable
   socket, never reads the next request, and refreshes `last_activity_` each time, so
   that no timeout closes it (`Server.cpp:884`, `Connection.h:60`). Only
   responses larger than the socket takes do this, and only with keep-alive.
5. The write timeout counts from `last_activity_`, which `write_data` refreshes only where
   it returns at its end (`Connection.cpp:275`, `:292`). In clear text a file goes out by
   `sendfile` until the socket is full, and that return (`Connection.cpp:250`) does not
   refresh it: a download longer than `write_timeout_sec` is dropped in the middle
   though the peer drains it all the time (`Server.cpp:1057`: "the peer is not draining
   it"). `NobodyCutShort` says what does hold. For the same reason a handler that takes
   longer than `write_timeout_sec` may have its response dropped at the next sweep.

More that no run states, met while modelling:

- When the file being sent shrinks, `sendfile` returns 0: the comment says "stop"
  (`Connection.cpp:251`), but `file_remaining_` stays positive, the call ends with
  `update_activity` (`:275`), and the loop arms a writable socket for write again
  (`Server.cpp:947`). It turns on that connection for ever and no timeout closes it,
  although "connections that have stalled" are to be closed (`Server.h:214`).
  `RequestResolved` and `RequestServed` name this as their one exception
  (`WritesNothing`); `RepliesEnd` and `DeadlinesKept` speak of files that stay.
- `apply_http_semantics` takes the size of a file again (`Server.cpp:86`), after the
  handler announced it (`HttpResponse.cpp:48`). A whole file that was resized in between
  is sent with its new size under the old Content-Length, on a connection that is kept: a
  client takes what is too much for the start of the next response. A file that
  appears in between has no Content-Length at all. `Mislabelled` says exactly when, and
  `BodyAsAnnounced` holds of all other responses.
- `handle_new_connection` leaves its loop at any error of `accept()` (`Server.cpp:728`). The
  listening socket is edge-triggered, so who is still queued (after `ECONNABORTED` of one
  client, say, or `EMFILE`) waits until another client connects. `BacklogSeen` says that
  nothing else forgets them.
- `InFlightGuard` is destroyed after the completion was queued and the loop notified, so
  a client that already has its answer can meet a stale gauge and get a 503 while no
  handler is running (`Server.cpp:799`, `Metrics.h:37`).
- A request that got 504 is recorded again by its late worker: responses outnumber
  requests by the number of timeouts (`RequestsAccountedFor` says exactly so). A scrape
  that overlaps observations may see a bucket exceed the next (`Metrics.cpp:64`).
- "Callers always get a usable connection" (`PgPool.h:19`) does not hold for one query
  after an outage (`OneFailurePerOutage` is what does hold). "Roll back already-opened
  connections before failing" (`SqlitePool.cpp:35`) is not done when a `PRAGMA` fails
  (`PragmaFails`; at start-up `LifecycleSafe` has the same exception).
- A request within the limits of the parser (8 MiB) but larger than the read buffer
  (1 MiB) has its connection closed without an answer (`Connection.cpp:90`);
  `StreamServed` says that nobody else has.
- `path_params_` of a copied request go on pointing into the storage of the original
  (`HttpRequest.cpp:34`), which may be gone; `ViewsHold` leaves them out.
- `set_file` on a log that is open fails in `ofstream::open`, sets `failbit`, and returns
  true: lines are lost until the next rotation. A line longer than `max_bytes` rotates a
  file that is empty.
- A handler that sets Content-Encoding and then throws leaves it on the 500 in JSON.
  Ranges and validators are applied to a file whatever the status the handler gave it.
- Two clients that register a name at once: one gets 500 where 409 is meant
  (`06_video_platform.cpp:172`). `main.cpp` does not read the result of the statement
  that creates its table, which is SQLite's: on PostgreSQL the server runs without it,
  and the id of a note is 0.
- A section `tls` that is not an object is passed over and the server speaks plain HTTP;
  `std::stoi` takes the number a text begins with; a port is cut to 16 bits by `htons`; a
  negative `thread_pool_size` ends in `std::terminate`.
- After a set-up that failed, descriptors are closed once by `listen` and once more by
  `stop` through fields that were not reset (`EndsClean` allows it exactly then). The
  same happens when `new_session` fails (`Server.cpp:717`). After an `epoll_wait` that
  failed, `main` returns 0.

## Proofs

TLC shows a property on an instance; these theorems hold for every number of
connections, descriptors, workers, callers and requests, every size of chunks,
buffer and pipe, and every setting. They assume what the `...Assumption` of each
module says of the constants: model values are distinct from the sets
they are added to, sizes are positive, and the workers are finitely many and at
least one (`ThreadPool.cpp:10` turns 0 into 1). The callers of a database pool and
the workers that move the counters are finitely many too, as threads are.

`ServerProofs`:

- `TypeCorrect` and `GaugeIsExact`, proved together as `ServerInv`: that the gauge
  stays a natural number follows only from what it counts. The other strengthening
  is `Sound`, for each connection: what is parsed, buffered and on its way never
  exceeds what the client may send; pending output belongs to a request; a
  worker has a request only if one was parsed. There is one lemma per piece of a
  handler (`Consumed`, `Written`, `Rearm`, `DispatchNext`, ...) and one per action.
- `NoCompletionIsLost`, from `WakeInv`: a byte in the pipe is always known to epoll
  or to the loop, so that a notification may find the pipe full.
- `PipeClosesLast`, from `StopInv` and `GaugeIsExact`.

`ServerPhaseProofs` strengthens `ServerInv` and `WakeInv` by two more parts to
`LoopInv`, which is inductive (`LoopInvariance`), one lemma per action:

- `PhaseInv` carries `NobodyIsStranded`. *Every live connection is waiting, handled or
  being written* does not follow from itself: it needs the registration of
  descriptors, which is one to one (`Registered`: otherwise a step for one connection
  would move the interest of another), that epoll is one-shot (`OneShot`: with an
  event in hand nothing is armed, and no second event is there), and that who is not
  accepted yet has used nothing of a `Connection` (`NewcomersUnserved`). A handler
  leaves its connection settled and registered, or closed (`Touched`); of all others
  it leaves what their phase depends on (`TouchedKeepsPhases`).
- `CustodyInv` is the theorem `OneRequestInThePool`: the tasks in the queue, with the
  workers, in `completed_` and in the swapped batch belong to distinct connections, and
  each is the request its connection waits for, if that is still there. So the test
  `it->second == item.conn` of `process_completions` never lets an older answer pass.
- `NoTimeoutCutsReply`: who is swept is in a phase, and a phase that is written has no
  timeout response. `DrainIsClean`: *no work in flight* is read off the phases of the
  loop's connections; `CustodyInv` says that the pool holds nothing beyond them.
- `BacklogIsSeen`: no step but a failing `accept()` leaves somebody queued with the
  listening socket neither armed nor its event in hand nor the loop at `accept`
  (`KeepsAnnounced`). It needs that a listen event is in hand only between two waits
  (`BatchInv`).
- `FollowsTheProtocol` is the refinement. `Story` says what a step does to what
  clients are told: nothing, a welcome, one turn of one connection, or the timeouts of
  a sweep. Each is a step of `HttpExchange`, for which the count of final replies must
  equal the requests taken but the current one (`Tallied`).

`ClockProofs`:

- `LimiterTypeCorrect`; `LimiterImplementsTokenBucket`; `GrantsAreBounded` (what was
  granted to an address and what its bucket holds never exceed the burst plus what
  the rate gave). All three follow from what each action does to `Level(k)`, the
  tokens a bucket holds at this instant, tracked or not: a tick adds the rate to it
  up to the burst (`TickRefills`), an eviction leaves it alone (`EvictionIsSilent`),
  and `allow` spends a token of it or nothing (`GrantSpends`, `RefusalKeeps`). They
  assume `LimiterAssumption`.
- `TimeoutsTypeCorrect`, `EveryDeadlineKept` (`DeadlinesKept`) and
  `NobodyIsCutShort` (`NobodyCutShort`), from `DeadlineInv`. A deadline alone is not
  inductive: what was swept was short of its limit then, so an age is below limit plus
  time since the sweep (`SweptInTime`), and the sweep is overdue by no more than the second
  in `epoll_wait` (`NeverOverdue`). The instants of the code are related to those of the
  properties stage by stage: `NoLater` makes a deadline come in time, `NoSooner` not early.
  `NobodyCutShort` measures a file from when it was asked for and the rest from the last
  activity: what finding 5 shows is thereby left out, and so said in the theorem.
  They assume `TimeoutsAssumption`: `Long` is longer than any limit and the sweep.

`ResponseWriterProofs`:

- `RangeIsExact`: for every file size and every range, the bounds computed are those
  of the set of bytes the range names, and there are none exactly if it is refused.
  By the form of the range: a suffix (`SuffixIsExact`), a first byte
  with or without a last (`PrefixIsExact`), bounds that are no numbers.
- `SemanticsIsExact`: so a 206 announces and sends these bytes, and a 416 answers a
  range that names none. It speaks of one call of `apply_http_semantics`, whatever
  response the handler made, with whatever length.
- `SentAsAnnounced`: and these bytes reach the client (`BodyAsAnnounced`), over any
  sequence of short writes, unless the file was resized or came to be between handler and
  semantics (`Mislabelled`, of the whole file only) or has lost bytes since (`harmed`). The invariant `WriterInv` says that what was sent is the
  start of the body, that what is left and what was sent add up to `Content-Length`,
  and that the offset stands between them (`OutInv`); that the response in hand is the
  one the semantics made of the request (`ReplyInv`), so that it announces what it is to
  send (`Labelled`); and `WriterTypesHold`.

`PartsProofs`:

- Of the thread pool, `TypeCorrect`, with the strengthening *a worker has a task in hand exactly while
  it runs one* (`Hands`): without it the task that `Run` finishes may be `None`.
- `FirstInFirstOut`: `accepted = started \o tasks`, by associativity of
  concatenation.
- `NoWakeupIsLost`, `ShutdownWakesAll`, from `WaitInv`: only threads in
  `condition_.wait` count as asleep; `stop_` is set exactly from `SetStop` on; a
  worker that exited saw `stop_` with an empty queue, and `enqueue` adds nothing
  after that. The last part is what makes *some worker is up* follow when nobody
  sleeps: a worker that is not asleep could otherwise have left.
- `ShutdownDrainsPool`, from `WorkInv`: what was started is finished or in hand.
- `PoolImplementsTaskQueue`: every step maps to a step of `TaskQueue` or a stutter.
- `HandlesAreKept`: `HandleCustody` counts occurrences; the proof goes by `OneKeeper`,
  which says the same without counting. `OneFailure` needs `ResetSoon`: a connection that
  failed a query since the server is back is with a caller that is about to reset it.
- `NoCallerForgotten` (`HandleWakeup`): a step moves one caller into or out of the set of
  those about to notify (`Notifiers`) or to look (`Lookers`), so their numbers change by
  one and are compared with the free connections.
- `LeavesNothing`, but the connections of a database that failed at a `PRAGMA`: `Ownership` says of each step of `main` what lives there, and `Settled`
  that the configuration is the resolved one as long as it is used.
- `PartsKeepTheirTypes`, from these and `TypeCorrect` of the pool, as a step of `MCParts`
  is one of a part that leaves the others alone (`PartsApart`).

`ServicesProofs`:

- `ViewsStayGood`, from `ViewsInv`: a request owns a block, no two share one, no block is
  without an owner, and the views point into it (of a copy, all but the path parameters).
- `ToldTheTruth`, from `AppInv`: a connection has one handler at a time
  (`OwnConnection`), which is why `last_insert_id` is the caller's own, and where a
  client's handler is decides what is in the tables because of it (`Served`).
- `HeadToldAsGet`: what middlewares, route and handler make is the same for HEAD as for
  GET (`HeadIsMadeAsGet`), and `apply_http_semantics` adds the mark of HEAD and nothing
  else (`HeadIsMarked`). `Describes` is what every step keeps of the headers, but for a
  handler that labels its body and then throws (`HandlerMakes`). The chain is a
  recursive function; chains of two, which `Reply` has, are unfolded (`TwoInTurn`).
- `ServicesKeepTheirTypes` (`ServicesTypeOK`), from the types of the parts that have any, as
  a step of `MCServices` is one of a part that leaves the others alone (`ServicesApart`).

`DataProofs` unfolds recursive functions for every input. The library's induction
theorems cannot be used for that, but its `NatLessThanWellFounded` and `WFMin` can: a set of
naturals that is not empty has a least element (`Least`), so a set that holds 0, and with
each `n` below `m` its successor, holds all of `0..m` (`AllUpTo`). From there: the functions
that `Sums` chooses from exist and are unique (`SumsExist`, `SumIsThat`), and sums obey the
usual laws (`SumOfNats`, ...).

- `NothingCountedIsLost` (`MetricsExact`). The counters (`EveryRequestCounted`): by what
  each step adds to them and takes from the workers in a handler (`CountedStep`,
  `RecordedStep`). The buckets (`BucketsTellTheDurations`): the invariant `BucketInv` says
  at any time that each one exceeds the one before by the durations between their bounds,
  less the observations that have counted in it and are not finished (`Base`); a step of
  a worker adds the same to a bucket and to these (`ObservedStep`). The sum of the durations:
  `SumInv`, likewise. A scrape: a bucket is never below what was finished nor above what had
  started (`RenderedBetween`), and neither decreases, so that what it reads lies in its
  window (`ScrapeInv`).
- `CountersStayBounded`: that no counter exceeds the requests and their timeouts does not
  follow from how they are counted, only from what a worker can have done for a request.
  `BoundInv`: the timeouts and the workers that still may get one are no more than the
  requests, nor are the observations and the workers that are to make one (`BooksKept`).
- `RotationKeepsTheLog` (`LogKept`). Order and numbers are an invariant of pairs of files
  (`InOrder`, `NoGap` in `LogInv`). `Consecutive` says that while nothing failed no number is
  missing among the files, so that a rotation drops the oldest only once there are
  `max_files` of them. `SizeInv` says of the file that is open that `current_size` is no
  less than its bytes, which is why no file outgrows the limit. `LogKept` then speaks of the
  files laid end to end, by induction on how many of them are laid.

`RequestProofs`, about `Router`. `RouterInv` says that the tree holds a node for every
registered route, that a handler is the last call of its node and method, and that a
`param_child` has a name. The recursion of `match_route_recursive` is unfolded by
induction on the segments that are left (`AllDownFrom`, `MatchSearches`). A literal route is
found because each attempt at a literal ends in its own outcome before the parameter is
tried (`LiteralPathFound`). Where no node leaves a choice the nodes on the way form one line
(`OneWay`), so that `Match` follows it to the handler (`WayFound`) or to nothing
(`NothingFound`); and the handler at its end is the best of the routes that fit
(`BestIsHandler`). Together: `RouterFindsRoutes` (`RouterFinds`).

And about `HttpParser`, for any limits, buffer size and length of the stream:

- `AllTreated`: what the parser makes of a buffer that is a start of a request, or goes
  beyond it. By the parts of `parse_request`: as long as the blank line is not there the
  buffer as a whole is measured (`SpanSoFar`), then the header block only (`SpanIs`); the
  framing is decided on the lines of the request (`FramedIsTreated`); a sized body is a
  count; a chunked body is a recursion on positions, unfolded from the end of the buffer
  (`ScanExists`), in which a chunk that fits is skipped (`ChunkRead`) and one that is too
  large leaves the request unread whatever comes before it (`NeverWholeFrom`). It speaks of
  the requests `ClientRequests` has: header blocks and sized bodies up to their limits and
  one unit beyond, at most two chunks of up to two bytes.
- `StreamIsServed` (`StreamServed`), from `ParserInv`: what is buffered and what was not
  received yet are the requests that were not handed out (`Remaining`, by induction on the
  stream), a connection with nothing in hand waits for what is not there (`Waits`: this is
  what says that no request stays behind), and a closed one stopped before a request the
  server is to refuse. By `AllTreated` `consume` then never passes the end of a request
  (`ConsumeIs`, `BufferDispatched`).

Model-checked only:

- Everything about liveness (`RequestResolved`, `RequestServed`, `DrainEnds`, `StopReturns`,
  `CallersServed`, `RepliesEnd`, `PoolLive`, `StopHonoured`): the prover has no fairness
  and no `ENABLED`.

## Not modelled, and why

- Multipart and the security utilities (hashing, JWT, encoding): functions on bytes
  without state. Whether a token is valid is an input of `Reply`.
- The coders behind `Compression`: zlib and brotli; what the server does with their
  result is in `Reply`.
- `EpollManager` and `SocketUtil`: nothing in the server uses them. `kqueue` is not built
  on Linux.
- Of TLS, `close_notify`, renegotiation and a session that cannot be created. Of the
  database backends, the translation of placeholders and rows.
- Of the configuration, the settings read by the same code as those `Lifecycle` has;
  `max_connections`, which nothing uses. Of the examples, what only declares routes.
- Formatting and look-ups: `build_headers_string`, accessors, levels and lay-out of the log.

## Plan

Every part is modelled as far as the section above says, and every property of a passing
run that is not about liveness is proved.

To model: the last bytes of a header block one at a time (`HttpParser.cpp:29`), and a
session that cannot be created (`Server.cpp:717`).
