------------------------------- MODULE Server -------------------------------
(***************************************************************************)
(* The event loop of Oreshnek's HTTP server (src/src/server/Server.cpp),   *)
(* its connections, the workers it hands requests to, and the shutdown of  *)
(* the whole.                                                              *)
(*                                                                         *)
(* Three kinds of threads run:                                             *)
(*   - the event loop (Server::run), the only one that touches             *)
(*     connections_, the Connection objects and epoll.  `loop' is its      *)
(*     program counter; one action is one handler, run to its return;      *)
(*   - the workers of the thread pool, which run the task enqueued by      *)
(*     dispatch_next and share with the loop only completed_ (under a      *)
(*     mutex), the self-pipe and the gauge workers_in_flight;              *)
(*   - the owner of the server: request_stop() from a signal handler, then *)
(*     stop() once run() has returned.                                     *)
(* Clients, the kernel's sockets and the clock are the environment.        *)
(*                                                                         *)
(* Data is abstracted: a request is ReqChunks chunks, a response is        *)
(* RespChunks chunks, and neither has contents.  The plaintext path is     *)
(* modelled (no TLS), on Linux (epoll).                                    *)
(*                                                                         *)
(* An operator whose name starts with Faulty is a mutant of the definition *)
(* that follows it: what that code would be with a plausible mistake.  No  *)
(* specification uses one; a mutation run puts it in the definition's      *)
(* place to see that a property notices.                                   *)
(***************************************************************************)
EXTENDS Integers, Sequences, FiniteSets

CONSTANTS
  Conns,           \* the Connection objects ever created, one per accept
  Fds,             \* the descriptors the process can have for its clients
  Workers,         \* the threads of the pool
  None,            \* a model value: no connection, or no descriptor
  MaxReq,          \* requests a client sends (bounds the environment)
  ReqChunks,       \* chunks of a request, the first being its headers
  RespChunks,      \* chunks of a response
  BufCap,          \* chunks the read buffer holds
  PipeCap,         \* bytes the self-pipe holds
  Cap,             \* max_concurrent_handlers; 0 disables the cap
  RateLimit,       \* is a rate limiter configured?
  Expecting,       \* do clients send "Expect: 100-continue"?
  IoTimeouts,      \* are the read, write and idle timeouts enabled?
  HandlerTimeout,  \* is the handler timeout enabled?
  MayThrow,        \* may a handler throw what is not a std::exception?
  MayHang          \* may a handler never return?

ASSUME ServerAssumption ==
  /\ None \notin Conns /\ None \notin Fds
  /\ IsFiniteSet(Workers) /\ Workers # {}
  /\ {MaxReq, ReqChunks, RespChunks, BufCap, PipeCap} \subseteq Nat \ {0}
  /\ Cap \in Nat
  /\ {RateLimit, Expecting, IoTimeouts, HandlerTimeout, MayThrow, MayHang}
       \subseteq BOOLEAN

VARIABLES
  connections,     \* connections_: descriptor -> live connection
  conn,            \* the Connection objects, with their sockets
  interest,        \* what epoll watches on a descriptor (one-shot)
  listening,       \* listen_fd_ is open
  listenEdge,      \* epoll has an event to report for listen_fd_
  loop,            \* program counter of the event loop
  batch,           \* events of the last epoll_wait not handled yet
  ready,           \* the local queue of process_completions
  draining,        \* draining_
  graceOver,       \* drain_deadline has passed
  stopRequested,   \* stop_requested_
  tasks,           \* the queue of the thread pool
  worker,          \* what each worker does
  completed,       \* completed_
  inFlight,        \* metrics_.workers_in_flight
  pipe,            \* bytes in the self-pipe
  pipeEdge,        \* epoll has an event to report for the self-pipe
  pipeOpen,        \* the self-pipe is open
  poolStop,        \* stop_ of the thread pool
  owner            \* program counter of the owner's thread

netVars   == <<connections, conn, interest>>
listenVars == <<listening, listenEdge>>
drainVars == <<draining, graceOver, stopRequested>>
poolVars  == <<tasks, worker, completed, inFlight>>
pipeVars  == <<pipe, pipeEdge>>
ownerVars == <<owner, poolStop, pipeOpen>>
vars == <<netVars, listenVars, loop, batch, ready, drainVars, poolVars,
          pipeVars, ownerVars>>

-----------------------------------------------------------------------------
(* State.                                                                  *)

\* An entry of a connection's transcript: what the client was sent for its
\* req-th request.  "reply" is a response sent in full (the handler's, 429 or
\* 503), "continue" the interim 100, "timeout" a 408 or a 504.
Said == [req : 1..(MaxReq + 1), kind : {"reply", "continue", "timeout"}]

Connection == [
  stage : {"away", "queued", "live", "closed"}, \* "queued": not accepted yet
  fd : Fds \cup {None},                         \* socket_fd_
  sock : Nat,                                   \* chunks in the kernel, unread
  end : {"up", "fin", "rst"},                   \* how far the peer has left
  room : BOOLEAN,                               \* the socket takes more output
  buf : Nat,                                    \* read_buffer_fill_
  parsed : 0..MaxReq,                           \* requests parsed so far
  processing : BOOLEAN,                         \* processing_
  handling : BOOLEAN,                           \* worker_in_flight_
  out : 0..RespChunks,                          \* response chunks to write
  reply : 0..MaxReq,                            \* the request they answer
  late : BOOLEAN,                               \* its phase's deadline passed
  continueSent : BOOLEAN,                       \* continue_sent_
  said : Seq(Said)]                             \* history: what was sent

NewConnection ==
  [stage |-> "away", fd |-> None, sock |-> 0, end |-> "up", room |-> TRUE,
   buf |-> 0, parsed |-> 0, processing |-> FALSE, handling |-> FALSE,
   out |-> 0, reply |-> 0, late |-> FALSE, continueSent |-> FALSE,
   said |-> <<>>]

\* What the lambda of dispatch_next captures, and CompletedResponse.
Task == [fd : Fds, conn : Conns, req : 1..MaxReq]

WakeEvent == [kind |-> "wake"]
ListenEvent == [kind |-> "listen"]
Event == {WakeEvent, ListenEvent} \cup [kind : {"in", "out", "hup"}, fd : Fds]

Idle == [pc |-> "idle"]
Exited == [pc |-> "exited"]
WorkerState ==
  {Idle, Exited} \cup
  [pc : {"handler", "push", "notify", "release", "hung"}, task : Task]

Init ==
  /\ connections = [f \in Fds |-> None]
  /\ conn = [c \in Conns |-> NewConnection]
  /\ interest = [f \in Fds |-> "off"]
  /\ listening = TRUE
  /\ listenEdge = FALSE
  /\ loop = "wait"
  /\ batch = {}
  /\ ready = <<>>
  /\ draining = FALSE
  /\ graceOver = FALSE
  /\ stopRequested = FALSE
  /\ tasks = <<>>
  /\ worker = [w \in Workers |-> Idle]
  /\ completed = <<>>
  /\ inFlight = 0
  /\ pipe = 0
  /\ pipeEdge = FALSE
  /\ pipeOpen = TRUE
  /\ poolStop = FALSE
  /\ owner = "serving"

-----------------------------------------------------------------------------
(* The environment: clients and the clock.                                 *)

EnvUnchanged ==
  UNCHANGED <<connections, interest, listening, loop, batch, ready, drainVars,
              poolVars, pipeVars, ownerVars>>

\* A client's connection reaches the listen backlog.
Connect(c) ==
  /\ listening
  /\ conn[c].stage = "away"
  /\ conn' = [conn EXCEPT ![c].stage = "queued"]
  /\ listenEdge' = TRUE
  /\ EnvUnchanged

\* The client sends one more chunk, up to MaxReq requests in all; it may send
\* the next request before the answer to the last (pipelining).
Send(c) ==
  LET k == conn[c] IN
  /\ k.stage \in {"queued", "live"}
  /\ k.end = "up"
  /\ k.parsed * ReqChunks + k.buf + k.sock < MaxReq * ReqChunks
  /\ conn' = [conn EXCEPT ![c].sock = @ + 1]
  /\ EnvUnchanged /\ UNCHANGED listenEdge

\* The client shuts its side down, or resets the connection.
Leave(c, how) ==
  /\ conn[c].stage \in {"queued", "live"}
  /\ conn[c].end = "up"
  /\ conn' = [conn EXCEPT ![c].end = how]
  /\ EnvUnchanged /\ UNCHANGED listenEdge

\* A client that had stopped reading reads again.
Resume(c) ==
  /\ conn[c].stage = "live"
  /\ ~conn[c].room
  /\ conn' = [conn EXCEPT ![c].room = TRUE]
  /\ EnvUnchanged /\ UNCHANGED listenEdge

\* Is there a deadline for the phase the connection is in?
HasDeadline(k) == IF k.handling THEN HandlerTimeout ELSE IoTimeouts

\* The deadline of the connection's current phase passes: now is more than
\* handler_timeout after processing_since_ while a worker has the request, and
\* more than the read, write or idle timeout after last_activity_ otherwise.
Lapse(c) ==
  /\ conn[c].stage = "live"
  /\ ~conn[c].late
  /\ HasDeadline(conn[c])
  /\ conn' = [conn EXCEPT ![c].late = TRUE]
  /\ EnvUnchanged /\ UNCHANGED listenEdge

\* shutdown_grace_sec passes after the start of the drain.
GraceExpires ==
  /\ draining
  /\ ~graceOver
  /\ graceOver' = TRUE
  /\ UNCHANGED <<netVars, listenVars, loop, batch, ready, draining,
                 stopRequested, poolVars, pipeVars, ownerVars>>

-----------------------------------------------------------------------------
(* What the handlers of the event loop are made of.  k is the Connection   *)
(* object of c as the handler has left it so far.                          *)

\* Connection::close_connection and the erase from connections_.  Nothing but
\* is_open() is read of a Connection after that: its other fields are reset so
\* that states which differ in them only are one.
Closed(k) ==
  [NewConnection EXCEPT !.stage = "closed", !.parsed = k.parsed,
                        !.said = k.said]

Drop(f, c, k) ==
  /\ conn' = [conn EXCEPT ![c] = Closed(k)]
  /\ connections' = [connections EXCEPT ![f] = None]
  /\ interest' = [interest EXCEPT ![f] = "off"]

\* The handler leaves the object as k and epoll watching the descriptor.
Watch(f, c, k, dir) ==
  /\ conn' = [conn EXCEPT ![c] = k]
  /\ interest' = [interest EXCEPT ![f] = dir]
  /\ UNCHANGED connections

\* rearm: if EPOLL_CTL_MOD fails, the connection is closed.
Rearm(f, c, k, dir) == Watch(f, c, k, dir) \/ Drop(f, c, k)

\* processing_ is not set.
FaultyConsumed(k) == [k EXCEPT !.buf = @ - ReqChunks, !.parsed = @ + 1]

\* parse_next has a complete request, which consume() takes off the buffer.
Consumed(k) ==
  [k EXCEPT !.buf = @ - ReqChunks, !.parsed = @ + 1, !.processing = TRUE]

\* 429 and 503: the loop answers by itself, no worker is involved.
Refuse(f, c, k) ==
  /\ Rearm(f, c, [Consumed(k) EXCEPT !.out = RespChunks, !.reply = k.parsed + 1],
           "write")
  /\ UNCHANGED <<tasks, inFlight>>

\* One handler too many.
FaultySaturated == Cap > 0 /\ inFlight > Cap

\* Load shedding: max_concurrent_handlers are in flight.
Saturated == Cap > 0 /\ inFlight >= Cap

\* The request is not counted in workers_in_flight.
FaultyEnqueueUncounted(f, c, k) ==
  /\ Watch(f, c, [Consumed(k) EXCEPT !.handling = TRUE, !.late = FALSE], "off")
  /\ tasks' = Append(tasks, [fd |-> f, conn |-> c, req |-> k.parsed + 1])
  /\ UNCHANGED inFlight

\* The request goes to the pool; the descriptor stays disarmed meanwhile.
Enqueue(f, c, k) ==
  /\ Watch(f, c, [Consumed(k) EXCEPT !.handling = TRUE, !.late = FALSE], "off")
  /\ inFlight' = inFlight + 1
  /\ tasks' = Append(tasks, [fd |-> f, conn |-> c, req |-> k.parsed + 1])

\* maybe_send_100_continue: the headers are there, the body is awaited.
MaybeContinue(k) ==
  IF Expecting /\ ~k.continueSent /\ k.buf > 0
  THEN [k EXCEPT !.continueSent = TRUE,
                 !.said = Append(@, [req |-> k.parsed + 1, kind |-> "continue"])]
  ELSE k

\* dispatch_next.
DispatchNext(f, c, k) ==
  IF k.processing
  THEN Watch(f, c, k, interest[f]) /\ UNCHANGED <<tasks, inFlight>>
  ELSE \/ /\ k.buf >= ReqChunks
          /\ RateLimit \/ Saturated
          /\ Refuse(f, c, k)
       \/ /\ k.buf >= ReqChunks
          /\ ~Saturated
          /\ Enqueue(f, c, k)
       \/ /\ k.buf > 0            \* the parser may find a request malformed
          /\ Drop(f, c, k)
          /\ UNCHANGED <<tasks, inFlight>>
       \/ /\ k.buf < ReqChunks
          /\ Rearm(f, c, MaybeContinue(k), "read")
          /\ UNCHANGED <<tasks, inFlight>>

\* set_response_content: the headers alone make the response non-empty.
SetResponse(k, req) == [k EXCEPT !.out = RespChunks, !.reply = req]

Smaller(a, b) == IF a < b THEN a ELSE b

\* What one recv() may return.
ReadSizes(k) ==
  IF k.sock = 0 THEN {0} ELSE 1..Smaller(k.sock, BufCap - k.buf)

\* recv() found the end of the stream or an error, or read_data() was called
\* with a full buffer, which it reports the same way.
ReadEnds(k) == k.buf = BufCap \/ (k.sock = 0 /\ k.end # "up")

\* handle_client_data, for a descriptor in connections_.
HandleClientData(f) ==
  LET c == connections[f]
      k == conn[c] IN
  IF ReadEnds(k)
  THEN Drop(f, c, k) /\ UNCHANGED <<tasks, inFlight>>
  ELSE \E n \in ReadSizes(k) :
         DispatchNext(f, c, [k EXCEPT !.buf = @ + n, !.sock = @ - n,
                                      !.late = IF n > 0 THEN FALSE ELSE @])

\* write_data wrote the last chunk (or had none to write).
Written(k) ==
  [k EXCEPT !.out = 0, !.reply = 0,
            !.said = IF k.out = 0 THEN @
                     ELSE Append(@, [req |-> k.reply, kind |-> "reply"])]

\* After a response, wait for reads although the next request may be buffered.
FaultyHandleWriteReady(f) ==
  LET c == connections[f]
      k == conn[c] IN
  /\ Rearm(f, c, [Written(k) EXCEPT !.processing = FALSE, !.late = FALSE], "read")
  /\ UNCHANGED <<tasks, inFlight>>

\* What write_data may leave of a response.  A short write fills the socket;
\* whether that refreshes last_activity_ depends on which part of the response
\* was cut.  Or the file being sent has shrunk: sendfile comes to its end with
\* the headers out and room in the socket, and last_activity_ is refreshed.
CutShort(k) ==
  {[k EXCEPT !.out = left, !.room = FALSE] : left \in 1..(k.out - 1)}
  \cup {[k EXCEPT !.out = left, !.room = FALSE, !.late = FALSE] : left \in 1..(k.out - 1)}
  \cup {[k EXCEPT !.out = left, !.late = FALSE] :
          left \in 1..Smaller(k.out, RespChunks - 1)}

\* handle_write_ready, for a descriptor in connections_.  keep_alive_ is never
\* false.  A chunk is what a writable socket takes at least.
HandleWriteReady(f) ==
  LET c == connections[f]
      k == conn[c] IN
  \/ /\ k.end = "rst"
     /\ Drop(f, c, k)
     /\ UNCHANGED <<tasks, inFlight>>
  \/ /\ \E m \in CutShort(k) : Rearm(f, c, m, "write")
     /\ UNCHANGED <<tasks, inFlight>>
  \/ IF draining
     THEN Drop(f, c, Written(k)) /\ UNCHANGED <<tasks, inFlight>>
     ELSE DispatchNext(f, c, [Written(k) EXCEPT !.processing = FALSE,
                                                !.late = FALSE])

-----------------------------------------------------------------------------
(* The event loop: Server::run.                                            *)

LoopUnchanged == UNCHANGED <<draining, graceOver, stopRequested, ownerVars>>

\* The events epoll has for the descriptors it watches.
SocketEvents ==
  {e \in [kind : {"in", "out", "hup"}, fd : Fds] :
     /\ interest[e.fd] # "off"
     /\ connections[e.fd] # None
     /\ LET k == conn[connections[e.fd]] IN
        CASE e.kind = "hup" -> k.end = "rst"
          [] e.kind = "in"  -> /\ interest[e.fd] = "read" /\ k.end # "rst"
                               /\ k.sock > 0 \/ k.end = "fin"
          [] e.kind = "out" -> /\ interest[e.fd] = "write" /\ k.end # "rst"
                               /\ k.room}

\* epoll_wait returns with all there is to report, or nothing on its timeout.
\* MAX_EVENTS exceeds what the model can report.
EpollWait ==
  /\ loop = "wait"
  /\ batch' = SocketEvents
                \cup (IF pipeEdge THEN {WakeEvent} ELSE {})
                \cup (IF listenEdge THEN {ListenEvent} ELSE {})
  /\ interest' = [f \in Fds |-> IF \E e \in SocketEvents : e.fd = f
                                THEN "off" ELSE interest[f]]
  /\ pipeEdge' = FALSE
  /\ listenEdge' = FALSE
  /\ loop' = "batch"
  /\ LoopUnchanged
  /\ UNCHANGED <<connections, conn, listening, ready, poolVars, pipe>>

\* An event of a client's descriptor.
HandleSocket(e) ==
  /\ loop = "batch"
  /\ e \in batch \ {WakeEvent, ListenEvent}
  /\ batch' = batch \ {e}
  /\ IF connections[e.fd] = None
     THEN UNCHANGED <<netVars, tasks, inFlight>>
     ELSE \/ /\ e.kind = "hup"
             /\ Drop(e.fd, connections[e.fd], conn[connections[e.fd]])
             /\ UNCHANGED <<tasks, inFlight>>
          \/ e.kind = "in" /\ HandleClientData(e.fd)
          \/ e.kind = "out" /\ HandleWriteReady(e.fd)
  /\ LoopUnchanged
  /\ UNCHANGED <<listenVars, loop, ready, worker, completed, pipeVars>>

\* The self-pipe: drain_wakeup(), then process_completions().
HandleWake ==
  /\ loop = "batch"
  /\ WakeEvent \in batch
  /\ batch' = batch \ {WakeEvent}
  /\ loop' = "drain"
  /\ LoopUnchanged
  /\ UNCHANGED <<netVars, listenVars, ready, poolVars, pipeVars>>

\* One read() of drain_wakeup, until there is nothing to read.
DrainWakeup ==
  /\ loop = "drain"
  /\ \/ /\ pipe > 0
        /\ \E n \in 1..pipe : pipe' = pipe - n
        /\ UNCHANGED loop
     \/ /\ pipe = 0
        /\ loop' = "swap"
        /\ UNCHANGED pipe
  /\ LoopUnchanged
  /\ UNCHANGED <<netVars, listenVars, batch, ready, poolVars, pipeEdge>>

\* One completion per wakeup.
FaultySwapCompletions ==
  /\ loop = "swap"
  /\ ready' = SubSeq(completed, 1, Smaller(1, Len(completed)))
  /\ completed' = SubSeq(completed, 2, Len(completed))
  /\ loop' = "complete"
  /\ LoopUnchanged
  /\ UNCHANGED <<netVars, listenVars, batch, tasks, worker, inFlight, pipeVars>>

\* process_completions takes the queue, under the mutex.
SwapCompletions ==
  /\ loop = "swap"
  /\ ready' = completed
  /\ completed' = <<>>
  /\ loop' = "complete"
  /\ LoopUnchanged
  /\ UNCHANGED <<netVars, listenVars, batch, tasks, worker, inFlight, pipeVars>>

\* The descriptor is compared, not the connection.
FaultyStillOwner(item) == connections[item.fd] # None

\* Is the connection of a completed response still the live owner of its fd?
StillOwner(item) ==
  /\ connections[item.fd] = item.conn
  /\ conn[item.conn].fd # None

\* process_completions, one response.  last_activity_ is left alone; the
\* deadline that counts from here on is the write timeout's.
Complete ==
  /\ loop = "complete"
  /\ IF ready = <<>>
     THEN loop' = "batch" /\ UNCHANGED <<netVars, ready>>
     ELSE LET item == Head(ready) IN
          /\ ready' = Tail(ready)
          /\ UNCHANGED loop
          /\ IF StillOwner(item)
             THEN Rearm(item.fd, item.conn,
                        [SetResponse(conn[item.conn], item.req)
                           EXCEPT !.handling = FALSE, !.late = FALSE], "write")
             ELSE UNCHANGED netVars
  /\ LoopUnchanged
  /\ UNCHANGED <<listenVars, batch, poolVars, pipeVars>>

\* handle_new_connection, called for an event of the listening socket.
HandleListen ==
  /\ loop = "batch"
  /\ ListenEvent \in batch
  /\ batch' = batch \ {ListenEvent}
  /\ loop' = "accept"
  /\ LoopUnchanged
  /\ UNCHANGED <<netVars, listenVars, ready, poolVars, pipeVars>>

Queued == {c \in Conns : conn[c].stage = "queued"}
FreeFds == {f \in Fds : connections[f] = None}

\* One accept() per event of the listening socket.
FaultyAccept(c, f) ==
  /\ loop = "accept"
  /\ c \in Queued /\ f \in FreeFds
  /\ conn' = [conn EXCEPT ![c].stage = "live", ![c].fd = f]
  /\ connections' = [connections EXCEPT ![f] = c]
  /\ interest' = [interest EXCEPT ![f] = "read"]
  /\ loop' = "batch"
  /\ LoopUnchanged
  /\ UNCHANGED <<listenVars, batch, ready, poolVars, pipeVars>>

\* One turn of its accept() loop: the connection is added to epoll and to
\* connections_, or closed again when fcntl() or epoll_ctl() fails.
Accept(c, f) ==
  /\ loop = "accept"
  /\ c \in Queued /\ f \in FreeFds
  /\ \/ /\ conn' = [conn EXCEPT ![c].stage = "live", ![c].fd = f]
        /\ connections' = [connections EXCEPT ![f] = c]
        /\ interest' = [interest EXCEPT ![f] = "read"]
     \/ /\ conn' = [conn EXCEPT ![c] = Closed(conn[c])]
        /\ UNCHANGED <<connections, interest>>
  /\ LoopUnchanged
  /\ UNCHANGED <<listenVars, loop, batch, ready, poolVars, pipeVars>>

\* accept() fails: EAGAIN when nobody is queued, EMFILE when descriptors ran out,
\* and at any time for want of memory or buffers, or because the client has gone
\* (ECONNABORTED).  Whatever errno says, the handler returns.
AcceptFails ==
  /\ loop = "accept"
  /\ loop' = "batch"
  /\ LoopUnchanged
  /\ UNCHANGED <<netVars, listenVars, batch, ready, poolVars, pipeVars>>

\* stop_accepting: the listening socket is closed and its backlog reset.
StopAccepting ==
  /\ listening' = FALSE
  /\ listenEdge' = FALSE
  /\ conn' = [c \in Conns |-> IF c \in Queued THEN Closed(conn[c]) ELSE conn[c]]
  /\ UNCHANGED <<connections, interest>>

\* The drain waits for idle clients to leave.
FaultyObserveStop ==
  /\ loop = "batch"
  /\ batch = {}
  /\ IF stopRequested /\ ~draining /\ \A f \in Fds : connections[f] = None
     THEN draining' = TRUE /\ StopAccepting
     ELSE UNCHANGED <<draining, netVars, listenVars>>
  /\ loop' = "sweep"
  /\ UNCHANGED <<batch, ready, graceOver, stopRequested, poolVars, pipeVars,
                 ownerVars>>

\* After the batch: the first observed stop request starts the drain.
ObserveStop ==
  /\ loop = "batch"
  /\ batch = {}
  /\ IF stopRequested /\ ~draining
     THEN draining' = TRUE /\ StopAccepting
     ELSE UNCHANGED <<draining, netVars, listenVars>>
  /\ loop' = "sweep"
  /\ UNCHANGED <<batch, ready, graceOver, stopRequested, poolVars, pipeVars,
                 ownerVars>>

\* The sweep is not due yet: kCleanupIntervalSec has not passed.
SkipSweep ==
  /\ loop = "sweep"
  /\ ~draining
  /\ loop' = "check"
  /\ LoopUnchanged
  /\ UNCHANGED <<netVars, listenVars, batch, ready, poolVars, pipeVars>>

\* 408 for any buffered bytes, pending response or not.
FaultyTimedOut(k) ==
  LET answer == [req |-> k.parsed + (IF k.handling THEN 0 ELSE 1),
                 kind |-> "timeout"] IN
  IF k.handling \/ k.buf > 0 THEN [k EXCEPT !.said = Append(@, answer)] ELSE k

\* What enforce_timeouts sends before it closes: 504 while a worker has the
\* request, 408 while one is partially buffered, nothing otherwise.  A
\* connection that is processing_ but has nothing to write is left alone.
TimedOut(k) ==
  LET answer == [req |-> k.parsed + (IF k.handling THEN 0 ELSE 1),
                 kind |-> "timeout"] IN
  IF k.handling \/ (k.out = 0 /\ k.buf > 0)
  THEN [k EXCEPT !.said = Append(@, answer)]
  ELSE k

\* The handler timeout is not enforced.
FaultyExpired ==
  {c \in Conns : /\ conn[c].stage = "live"
                 /\ conn[c].late
                 /\ conn[c].out > 0 \/ ~conn[c].processing}

\* The connections whose deadline passed.
Expired ==
  {c \in Conns : /\ conn[c].stage = "live"
                 /\ conn[c].late
                 /\ conn[c].handling \/ conn[c].out > 0 \/ ~conn[c].processing}

\* The live connections of a set are closed and forgotten; last is how they are
\* left before that.
DropAll(cs, last) ==
  /\ conn' = [c \in Conns |-> IF c \in cs THEN Closed(last[c]) ELSE conn[c]]
  /\ connections' = [f \in Fds |-> IF connections[f] \in cs THEN None
                                   ELSE connections[f]]
  /\ interest' = [f \in Fds |-> IF connections[f] \in cs THEN "off"
                                ELSE interest[f]]

\* enforce_timeouts.
Sweep ==
  /\ loop = "sweep"
  /\ DropAll(Expired, [c \in Conns |-> TimedOut(conn[c])])
  /\ loop' = "check"
  /\ LoopUnchanged
  /\ UNCHANGED <<listenVars, batch, ready, poolVars, pipeVars>>

Live == {c \in Conns : conn[c].stage = "live"}

\* Only responses being written count.
FaultyWorkInFlight == \E c \in Live : conn[c].out > 0

\* While draining: is there anything left to wait for?
WorkInFlight == \E c \in Live : conn[c].processing \/ conn[c].out > 0

\* The grace period is not enforced.
FaultyEndIteration ==
  /\ loop = "check"
  /\ loop' = IF draining /\ ~WorkInFlight THEN "teardown" ELSE "wait"
  /\ LoopUnchanged
  /\ UNCHANGED <<netVars, listenVars, batch, ready, poolVars, pipeVars>>

\* The end of an iteration: go on, or leave the loop because the drain is
\* complete or its grace has expired.
EndIteration ==
  /\ loop = "check"
  /\ loop' = IF draining /\ (~WorkInFlight \/ graceOver) THEN "teardown"
             ELSE "wait"
  /\ LoopUnchanged
  /\ UNCHANGED <<netVars, listenVars, batch, ready, poolVars, pipeVars>>

\* run() clears connections_ and closes epoll and the listening socket.
Teardown ==
  /\ loop = "teardown"
  /\ DropAll(Live, conn)
  /\ loop' = "done"
  /\ LoopUnchanged
  /\ UNCHANGED <<listenVars, batch, ready, poolVars, pipeVars>>

-----------------------------------------------------------------------------
(* The workers.  Each runs the loop of the thread pool (module ThreadPool  *)
(* has its mutex and condition variable) around the lambda of              *)
(* dispatch_next.                                                          *)

WorkerUnchanged ==
  UNCHANGED <<netVars, listenVars, loop, batch, ready, drainVars, ownerVars>>

TakeTask(w) ==
  /\ worker[w] = Idle
  /\ tasks # <<>>
  /\ worker' = [worker EXCEPT ![w] = [pc |-> "handler", task |-> Head(tasks)]]
  /\ tasks' = Tail(tasks)
  /\ WorkerUnchanged /\ UNCHANGED <<completed, inFlight, pipeVars>>

\* Middlewares, route handler, compression and response semantics: a response
\* comes out, an exception escapes to the packaged_task (the lambda catches
\* std::exception only, and only around middlewares and handler), or the
\* handler never returns.
RunHandler(w) ==
  /\ worker[w].pc = "handler"
  /\ \/ worker' = [worker EXCEPT ![w].pc = "push"]
     \/ MayThrow /\ worker' = [worker EXCEPT ![w].pc = "release"]
     \/ MayHang /\ worker' = [worker EXCEPT ![w].pc = "hung"]
  /\ WorkerUnchanged /\ UNCHANGED <<tasks, completed, inFlight, pipeVars>>

\* The loop is not notified.
FaultyPushCompletion(w) ==
  /\ worker[w].pc = "push"
  /\ completed' = Append(completed, worker[w].task)
  /\ worker' = [worker EXCEPT ![w].pc = "release"]
  /\ WorkerUnchanged /\ UNCHANGED <<tasks, inFlight, pipeVars>>

\* completed_.push, under the mutex.
PushCompletion(w) ==
  /\ worker[w].pc = "push"
  /\ completed' = Append(completed, worker[w].task)
  /\ worker' = [worker EXCEPT ![w].pc = "notify"]
  /\ WorkerUnchanged /\ UNCHANGED <<tasks, inFlight, pipeVars>>

\* notify_event_loop: one byte into the pipe, or EAGAIN when it is full.  On a
\* pipe that is not empty, whether epoll reports the byte depends on the kernel.
NotifyEventLoop ==
  IF pipe < PipeCap
  THEN /\ pipe' = pipe + 1
       /\ pipeEdge' \in (IF pipe = 0 THEN {TRUE} ELSE {TRUE, pipeEdge})
  ELSE UNCHANGED pipeVars

Notify(w) ==
  /\ worker[w].pc = "notify"
  /\ NotifyEventLoop
  /\ worker' = [worker EXCEPT ![w].pc = "release"]
  /\ WorkerUnchanged /\ UNCHANGED <<tasks, completed, inFlight>>

\* The destructor of InFlightGuard, last of the lambda's frame.
Release(w) ==
  /\ worker[w].pc = "release"
  /\ inFlight' = inFlight - 1
  /\ worker' = [worker EXCEPT ![w] = Idle]
  /\ WorkerUnchanged /\ UNCHANGED <<tasks, completed, pipeVars>>

\* The pool is stopped and its queue is empty: the thread returns.
ExitWorker(w) ==
  /\ worker[w] = Idle
  /\ poolStop
  /\ tasks = <<>>
  /\ worker' = [worker EXCEPT ![w] = Exited]
  /\ WorkerUnchanged /\ UNCHANGED <<tasks, completed, inFlight, pipeVars>>

-----------------------------------------------------------------------------
(* The owner of the server.                                                *)

OwnerUnchanged ==
  UNCHANGED <<netVars, listenVars, loop, batch, ready, draining, graceOver,
              poolVars>>

\* request_stop, as the signal handler calls it: first the flag ...
RequestStop ==
  /\ owner = "serving"
  /\ stopRequested' = TRUE
  /\ owner' = "notify"
  /\ OwnerUnchanged /\ UNCHANGED <<pipeVars, poolStop, pipeOpen>>

\* ... then the pipe.
NotifyStop ==
  /\ owner = "notify"
  /\ NotifyEventLoop
  /\ owner' = "requested"
  /\ OwnerUnchanged /\ UNCHANGED <<stopRequested, poolStop, pipeOpen>>

\* stop(), once run() has returned: ThreadPool::shutdown sets stop_ ...
ShutdownPool ==
  /\ owner = "requested"
  /\ loop = "done"
  /\ poolStop' = TRUE
  /\ owner' = "joining"
  /\ OwnerUnchanged /\ UNCHANGED <<stopRequested, pipeVars, pipeOpen>>

\* The pipe is closed before the workers are joined.
FaultyClosePipe ==
  /\ owner = "joining"
  /\ pipeOpen' = FALSE
  /\ owner' = "stopped"
  /\ OwnerUnchanged /\ UNCHANGED <<stopRequested, pipeVars, poolStop>>

\* ... and joins the workers; only then is the self-pipe closed.
ClosePipe ==
  /\ owner = "joining"
  /\ \A w \in Workers : worker[w] = Exited
  /\ pipeOpen' = FALSE
  /\ owner' = "stopped"
  /\ OwnerUnchanged /\ UNCHANGED <<stopRequested, pipeVars, poolStop>>

\* Nothing is left to run: stop() returned, or joins a worker whose handler
\* never will.
Terminated ==
  /\ \/ owner = "stopped"
     \/ owner = "joining" /\ \A w \in Workers : worker[w] = Exited
                                                \/ worker[w].pc = "hung"
  /\ UNCHANGED vars

-----------------------------------------------------------------------------
Environment ==
  \/ \E c \in Conns : Connect(c) \/ Send(c) \/ Resume(c) \/ Lapse(c)
                      \/ \E how \in {"fin", "rst"} : Leave(c, how)
  \/ GraceExpires

EventLoop ==
  \/ EpollWait
  \/ \E e \in batch : HandleSocket(e)
  \/ HandleWake
  \/ DrainWakeup
  \/ SwapCompletions
  \/ Complete
  \/ HandleListen
  \/ \E c \in Conns, f \in Fds : Accept(c, f)
  \/ AcceptFails
  \/ ObserveStop
  \/ SkipSweep
  \/ Sweep
  \/ EndIteration
  \/ Teardown

Worker(w) ==
  \/ TakeTask(w)
  \/ RunHandler(w)
  \/ PushCompletion(w)
  \/ Notify(w)
  \/ Release(w)
  \/ ExitWorker(w)

Owner == RequestStop \/ NotifyStop \/ ShutdownPool \/ ClosePipe

Next ==
  \/ Environment
  \/ EventLoop
  \/ \E w \in Workers : Worker(w)
  \/ Owner
  \/ Terminated

Spec == Init /\ [][Next]_vars
=============================================================================
