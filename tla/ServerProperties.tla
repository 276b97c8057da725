-------------------------- MODULE ServerProperties --------------------------
(***************************************************************************)
(* What must hold of the event loop, its connections and its workers.      *)
(***************************************************************************)
EXTENDS Server

\* Every variable keeps its type.
TypeOK ==
  /\ connections \in [Fds -> Conns \cup {None}]
  /\ conn \in [Conns -> Connection]
  /\ interest \in [Fds -> {"off", "read", "write"}]
  /\ listening \in BOOLEAN /\ listenEdge \in BOOLEAN
  /\ draining \in BOOLEAN /\ graceOver \in BOOLEAN /\ stopRequested \in BOOLEAN
  /\ pipeEdge \in BOOLEAN /\ pipeOpen \in BOOLEAN /\ poolStop \in BOOLEAN
  /\ loop \in {"wait", "batch", "drain", "swap", "complete", "accept",
               "sweep", "check", "teardown", "done"}
  /\ batch \subseteq Event
  /\ ready \in Seq(Task) /\ tasks \in Seq(Task) /\ completed \in Seq(Task)
  /\ worker \in [Workers -> WorkerState]
  /\ inFlight \in Nat
  /\ pipe \in 0..PipeCap
  /\ owner \in {"serving", "notify", "requested", "joining", "stopped"}

-----------------------------------------------------------------------------
(* Connections.                                                            *)

\* The loop is watching f for dir, or has the event in hand.
Watched(f, dir, kind) ==
  \/ interest[f] = dir
  \/ interest[f] = "off" /\ \E e \in batch : e \in [kind : {kind, "hup"}, fd : {f}]

Unwatched(f) ==
  /\ interest[f] = "off"
  /\ \A e \in batch : e \notin [kind : {"in", "out", "hup"}, fd : {f}]

\* A live connection is in one of three phases, and what epoll reports of its
\* descriptor is what the phase waits for.  In the first no complete request
\* is left in its buffer.
Waiting(c) ==
  /\ ~conn[c].processing /\ ~conn[c].handling /\ conn[c].out = 0
  /\ conn[c].buf < ReqChunks
  /\ Watched(conn[c].fd, "read", "in")

Handling(c) ==
  /\ conn[c].processing /\ conn[c].handling /\ conn[c].out = 0
  /\ Unwatched(conn[c].fd)

Writing(c) ==
  /\ conn[c].processing /\ ~conn[c].handling /\ conn[c].out > 0
  /\ conn[c].reply = conn[c].parsed
  /\ Watched(conn[c].fd, "write", "out")

\* No connection is stranded: whatever dispatch_next, process_completions,
\* handle_write_ready and rearm did, in whatever order events came, a live
\* connection is registered under its descriptor, in exactly one phase, and
\* watched for the event that ends the phase (one-shot events are lost unless
\* every path re-arms).  A descriptor of nobody is not watched.
NoStrandedConnection ==
  /\ \A c \in Live : /\ connections[conn[c].fd] = c
                     /\ Waiting(c) \/ Handling(c) \/ Writing(c)
  /\ \A f \in Fds : connections[f] = None => Unwatched(f)

-----------------------------------------------------------------------------
(* Requests in the pool.                                                   *)

\* Workers whose task has not produced its response.
Busy == {w \in Workers : worker[w].pc \in {"handler", "push", "hung"}}

\* The requests dispatched and not answered yet, wherever they are: in the
\* pool's queue, with a worker, in completed_, in the loop's local queue.
Custody ==
  {<<"tasks", i, tasks[i]>> : i \in 1..Len(tasks)} \cup
  {<<"worker", w, worker[w].task>> : w \in Busy} \cup
  {<<"completed", i, completed[i]>> : i \in 1..Len(completed)} \cup
  {<<"ready", i, ready[i]>> : i \in 1..Len(ready)}

\* A completed response never sits in completed_ with the loop asleep: until
\* its worker has called notify_event_loop, or epoll or the loop knows of it.
NoLostWakeup ==
  (completed # <<>> /\ loop # "done") =>
     \/ \E w \in Workers : worker[w].pc = "notify"
     \/ pipeEdge
     \/ WakeEvent \in batch
     \/ loop \in {"drain", "swap"}

\* Whoever is in the backlog, the loop is at accept() or has yet to hear of it.
BacklogAnnounced ==
  Queued # {} => listenEdge \/ ListenEvent \in batch \/ loop = "accept"

\* Nobody is left in the backlog with the loop asleep, unless accept() failed: the
\* listening socket is edge-triggered, so whoever stays behind when
\* handle_new_connection returns is not announced again before another client
\* connects.  No other step forgets them, whenever clients arrive: while an event is
\* in hand, between two calls of accept(), or while the loop is elsewhere.
BacklogSeen ==
  [][BacklogAnnounced /\ ~AcceptFails => BacklogAnnounced']_vars

\* workers_in_flight counts the tasks queued and running, and the cap bounds
\* it: the backlog of the pool never exceeds max_concurrent_handlers.
GaugeExact ==
  /\ inFlight = Len(tasks) +
                Cardinality({w \in Workers : worker[w] \notin {Idle, Exited}})
  /\ Cap > 0 => inFlight <= Cap

-----------------------------------------------------------------------------
(* What goes to the client.                                                *)

\* Whose turn it is on a connection: the server's from when it has parsed a
\* request until the response is written.
TurnOf(k) ==
  CASE k.stage \in {"away", "queued"} -> "none"
    [] k.stage = "closed" -> "closed"
    [] OTHER -> IF k.processing THEN "server" ELSE "client"

Exchange ==
  INSTANCE HttpExchange WITH turn <- [c \in Conns |-> TurnOf(conn[c])],
                             said <- [c \in Conns |-> conn[c].said]

\* The server implements the turn-taking protocol: every client is answered
\* what it asked, once, in order, whatever the interleaving of workers, of the
\* completion queue and of descriptors that are closed and reused.
ImplementsExchange == Exchange!Spec

\* A 408 or a 504 is never written into the middle of a response: enforce_timeouts
\* sends one only when no byte of a response is pending on the connection.
NoTimeoutInsideReply ==
  [][\A c \in Conns :
       (/\ Len(conn'[c].said) > Len(conn[c].said)
        /\ conn'[c].said[Len(conn'[c].said)].kind = "timeout")
       => conn[c].out = 0]_vars

-----------------------------------------------------------------------------
(* Shutdown.                                                               *)

\* A drain that ends before its grace loses nothing: when the loop exits, no
\* request that was dispatched and whose connection is still there is left
\* unanswered anywhere in the pool.
CleanDrain ==
  [][(loop = "check" /\ loop' = "teardown" /\ ~graceOver) =>
       \A x \in Custody : conn[x[3].conn].stage # "live"]_vars

\* No thread writes to the self-pipe after stop() closed it, and by then the
\* pool has run every task it had accepted.
PipeOutlivesWorkers ==
  ~pipeOpen => /\ tasks = <<>>
               /\ inFlight = 0
               /\ loop = "done"

-----------------------------------------------------------------------------
(* Liveness.                                                               *)

\* The scheduler runs every thread that can run; handlers return, unless
\* MayHang; the sweep comes round, since epoll_wait returns at least once a
\* second; time passes, so that a connection left in one phase runs into that
\* phase's deadline.  Nothing is assumed of the clients.
Fairness ==
  /\ WF_vars(EventLoop)
  /\ SF_vars(Sweep)
  /\ \A w \in Workers : WF_vars(Worker(w))
  /\ WF_vars(NotifyStop \/ ShutdownPool \/ ClosePipe)
  /\ \A c \in Conns : WF_vars(Lapse(c))
  /\ WF_vars(GraceExpires)

FairSpec == Spec /\ Fairness

\* As above, with clients that go on reading.
ReadingClientsSpec == FairSpec /\ \A c \in Conns : WF_vars(Resume(c))

Pending(c, n) == conn[c].processing /\ conn[c].parsed = n

\* A write event of c gets nothing out, and the loop waits for the next.
WritesNothing(c) ==
  /\ conn[c].stage = "live" /\ conn[c].out > 0
  /\ interest[conn[c].fd] = "off" /\ interest'[conn[c].fd] = "write"
  /\ conn'[c].out = conn[c].out

\* Every request taken is resolved, whatever handlers and clients do: its
\* response is written in full, or its connection is closed by a timeout; unless
\* the file it is answered with has shrunk, and the loop writes nothing for ever.
RequestResolved ==
  \A c \in Conns :
    \/ \A n \in 1..MaxReq : Pending(c, n) ~> ~Pending(c, n)
    \/ []<><<WritesNothing(c)>>_vars

\* A handler of every worker hangs.
AllHung == \A w \in Workers : worker[w].pc = "hung"

\* No timeout is needed for that as long as a handler returns: no request is
\* forgotten between the loop, the pool, the completion queue and the self-pipe.
\* (The file that has shrunk is the exception here as well.)
RequestServed ==
  \A c \in Conns :
    \/ \A n \in 1..MaxReq : Pending(c, n) ~> (~Pending(c, n) \/ AllHung)
    \/ []<><<WritesNothing(c)>>_vars

\* A stop request makes run() return, whatever the handlers do.
DrainEnds == stopRequested ~> (loop = "done")

\* A stop request lets stop() return, unless it joins a worker whose handler
\* never does.
StopReturns ==
  stopRequested ~>
    (owner = "stopped" \/ \E w \in Workers : worker[w].pc = "hung")

-----------------------------------------------------------------------------
(* What the documentation says and the code does not do.                   *)

\* A client that waits with the body of its request for "100 Continue" is told,
\* for each of its requests.
EveryRequestContinued ==
  (loop = "wait" /\ Expecting) =>
    \A c \in Live :
      (~conn[c].processing /\ conn[c].buf > 0 /\ conn[c].parsed < MaxReq) =>
        \E i \in 1..Len(conn[c].said) :
          conn[c].said[i] = [req |-> conn[c].parsed + 1, kind |-> "continue"]

\* processing_ is true only while a request is being handled by a worker or its
\* response is still being written.
ProcessingMeansWork ==
  \A c \in Live :
    conn[c].processing => conn[c].out > 0 \/ \E x \in Custody : x[3].conn = c
=============================================================================
