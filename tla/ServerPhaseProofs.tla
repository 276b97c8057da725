-------------------------- MODULE ServerPhaseProofs --------------------------
(***************************************************************************)
(* What the event loop, the workers and the clients do to one connection   *)
(* and one request, for any number of them: nobody is left unwatched, a    *)
(* request is in one place, a drain loses nothing, no timeout is written   *)
(* into a response, and all of it follows the protocol of HttpExchange.    *)
(***************************************************************************)
EXTENDS ServerProofs

-----------------------------------------------------------------------------
(* The inductive invariant.                                                *)

SocketEvent(e) == e \in [kind : {"in", "out", "hup"}, fd : Fds]

\* A descriptor belongs to at most one live connection, and a live connection
\* to its descriptor.
Registered ==
  /\ \A c \in Conns : conn[c].stage = "live" =>
       conn[c].fd \in Fds /\ connections[conn[c].fd] = c
  /\ \A f \in Fds : connections[f] # None =>
       /\ conn[connections[f]].stage = "live"
       /\ conn[connections[f]].fd = f
  /\ \A c \in Conns : conn[c].stage # "live" => conn[c].fd = None

\* Before it is accepted a connection has only what the kernel holds of it.
Unserved(k) ==
  /\ ~k.processing /\ ~k.handling /\ k.out = 0 /\ k.buf = 0
  /\ k.parsed = 0 /\ k.said = <<>>

NewcomersUnserved ==
  \A c \in Conns : conn[c].stage \in {"away", "queued"} => Unserved(conn[c])

\* What the loop registers for the phase a connection is in.
Settled(k, dir) ==
  \/ /\ ~k.processing /\ ~k.handling /\ k.out = 0 /\ k.buf < ReqChunks
     /\ dir = "read"
  \/ /\ k.processing /\ k.handling /\ k.out = 0
     /\ dir = "off"
  \/ /\ k.processing /\ ~k.handling /\ k.out > 0 /\ k.reply = k.parsed
     /\ dir = "write"

\* epoll is one-shot: of a descriptor at most one event is in hand, and then
\* nothing is registered.
OneShot ==
  \A e \in batch : SocketEvent(e) =>
    /\ interest[e.fd] = "off"
    /\ \A d \in batch : SocketEvent(d) /\ d.fd = e.fd => d = e

PhaseInv ==
  /\ Registered
  /\ NewcomersUnserved
  /\ OneShot
  /\ \A c \in Live : Waiting(c) \/ Handling(c) \/ Writing(c)
  /\ \A f \in Fds : connections[f] = None => Unwatched(f)

\* A request that waits for its response, of a connection that is still there:
\* the one the connection is at.
Current(t) ==
  /\ conn[t.conn].stage \in {"live", "closed"}
  /\ conn[t.conn].stage = "live" =>
       /\ t.fd = conn[t.conn].fd
       /\ conn[t.conn].handling
       /\ t.req = conn[t.conn].parsed

\* No connection has two requests in the pool, neither in one queue nor in two.
Once(q) == \A i, j \in 1..Len(q) : q[i].conn = q[j].conn => i = j
Apart(q, r) == \A i \in 1..Len(q), j \in 1..Len(r) : q[i].conn # r[j].conn
NotBusy(q) == \A i \in 1..Len(q), w \in Busy : q[i].conn # worker[w].task.conn

\* A queue of such requests.
Orderly(q) == (\A i \in 1..Len(q) : Current(q[i])) /\ Once(q) /\ NotBusy(q)

CustodyInv ==
  /\ Orderly(tasks) /\ Orderly(completed) /\ Orderly(ready)
  /\ Apart(tasks, completed) /\ Apart(tasks, ready) /\ Apart(completed, ready)
  /\ \A w \in Busy : Current(worker[w].task)
  /\ \A v, w \in Busy : worker[v].task.conn = worker[w].task.conn => v = w
  /\ loop # "complete" => ready = <<>>

-----------------------------------------------------------------------------
(* Steps that concern one descriptor and its connection.                   *)

InPhase(c) == Waiting(c) \/ Handling(c) \/ Writing(c)

\* A connection whose registration and events are what they were stays where it
\* was.
LEMMA PhaseKept ==
  ASSUME NEW c \in Conns, InPhase(c), conn[c].fd \in Fds,
         conn'[c].fd = conn[c].fd,
         conn'[c].processing = conn[c].processing,
         conn'[c].handling = conn[c].handling,
         conn'[c].out = conn[c].out, conn'[c].buf = conn[c].buf,
         conn'[c].reply = conn[c].reply, conn'[c].parsed = conn[c].parsed,
         interest'[conn[c].fd] = interest[conn[c].fd],
         \A e : SocketEvent(e) /\ e.fd = conn[c].fd =>
                  (e \in batch' <=> e \in batch)
  PROVE  InPhase(c)'
<1>1. ASSUME NEW dir, NEW kind \in {"in", "out"}, Watched(conn[c].fd, dir, kind)
      PROVE  Watched(conn[c].fd, dir, kind)'
  <2>1. CASE interest[conn[c].fd] = dir
    BY <2>1 DEF Watched
  <2>2. CASE /\ interest[conn[c].fd] = "off"
             /\ \E e \in batch : e \in [kind : {kind, "hup"}, fd : {conn[c].fd}]
    <3>1. PICK e \in batch : e \in [kind : {kind, "hup"}, fd : {conn[c].fd}]
      BY <2>2
    <3>2. SocketEvent(e) /\ e.fd = conn[c].fd
      BY <1>1, <3>1 DEF SocketEvent
    <3> QED
      BY <2>2, <3>1, <3>2 DEF Watched
  <2> QED
    BY <1>1, <2>1, <2>2 DEF Watched
<1> QED
  <2>1. CASE Waiting(c)
    BY <1>1, <2>1 DEF InPhase, Waiting
  <2>2. CASE Handling(c)
    BY <2>2 DEF InPhase, Handling, Unwatched, SocketEvent
  <2>3. CASE Writing(c)
    BY <1>1, <2>3 DEF InPhase, Writing
  <2> QED
    BY <2>1, <2>2, <2>3 DEF InPhase

\* How a handler leaves connection c, whose descriptor is f: settled in a phase
\* and registered for it, or closed.
Touched(f, c, n, dir) ==
  /\ conn' = [conn EXCEPT ![c] = n]
  /\ interest' = [interest EXCEPT ![f] = dir]
  /\ \/ /\ connections' = [connections EXCEPT ![f] = c]
        /\ n.stage = "live" /\ n.fd = f /\ Settled(n, dir)
     \/ /\ connections' = [connections EXCEPT ![f] = None]
        /\ n.stage = "closed" /\ n.fd = None /\ dir = "off"

\* The events of f, if any, have been handled; the others are still in hand.
EventsHandled(f) ==
  /\ batch' \subseteq batch
  /\ \A e \in batch : SocketEvent(e) /\ e.fd # f => e \in batch'
  /\ \A e \in batch' : SocketEvent(e) => e.fd # f

LEMMA TouchedKeepsPhases ==
  ASSUME TypeOK, PhaseInv, NEW f \in Fds, NEW c \in Conns,
         NEW n \in Connection, NEW dir \in {"off", "read", "write"},
         connections[f] \in {c, None},
         conn[c].stage = "live" => connections[f] = c,
         Touched(f, c, n, dir), EventsHandled(f)
  PROVE  PhaseInv'
<1>0. /\ conn \in [Conns -> Connection] /\ connections \in [Fds -> Conns \cup {None}]
      /\ interest \in [Fds -> {"off", "read", "write"}] /\ None \notin Conns
      /\ None \notin Fds
  BY Constants DEF TypeOK
<1>1. /\ conn'[c] = n /\ \A d \in Conns \ {c} : conn'[d] = conn[d]
      /\ interest'[f] = dir /\ \A g \in Fds \ {f} : interest'[g] = interest[g]
      /\ \A g \in Fds \ {f} : connections'[g] = connections[g]
      /\ \/ connections'[f] = c /\ n.stage = "live" /\ n.fd = f /\ Settled(n, dir)
         \/ connections'[f] = None /\ n.stage = "closed" /\ n.fd = None /\ dir = "off"
  BY <1>0 DEF Touched
<1>2. \A d \in Conns \ {c} : conn[d].stage = "live" => conn[d].fd \in Fds \ {f}
  BY <1>0 DEF PhaseInv, Registered
<1>3. \A g \in Fds \ {f} : connections[g] # c
  BY <1>0 DEF PhaseInv, Registered
<1>4. Registered'
  <2>1. \A d \in Conns : conn'[d].stage = "live" =>
          conn'[d].fd \in Fds /\ connections'[conn'[d].fd] = d
    BY <1>0, <1>1, <1>2 DEF PhaseInv, Registered
  <2>2. \A g \in Fds : connections'[g] # None =>
          conn'[connections'[g]].stage = "live" /\ conn'[connections'[g]].fd = g
    BY <1>0, <1>1, <1>3 DEF PhaseInv, Registered
  <2>3. \A d \in Conns : conn'[d].stage # "live" => conn'[d].fd = None
    BY <1>0, <1>1 DEF PhaseInv, Registered
  <2> QED
    BY <2>1, <2>2, <2>3 DEF Registered
<1>5. NewcomersUnserved'
  BY <1>0, <1>1 DEF PhaseInv, NewcomersUnserved
<1>6. OneShot'
  BY <1>0, <1>1 DEF PhaseInv, OneShot, EventsHandled, SocketEvent
<1>7. ASSUME NEW d \in Conns, conn'[d].stage = "live"
      PROVE  InPhase(d)'
  <2>1. CASE d = c
    <3>1. conn'[d].fd = f /\ Settled(conn'[d], interest'[conn'[d].fd])
      BY <1>0, <1>1, <1>7, <2>1
    <3>2. \A e \in batch' : SocketEvent(e) => e.fd # conn'[d].fd
      BY <3>1 DEF EventsHandled
    <3> QED
      BY <3>1, <3>2
      DEF Settled, InPhase, Waiting, Handling, Writing, Watched, Unwatched, SocketEvent
  <2>2. CASE d # c
    <3>1. conn'[d] = conn[d] /\ conn[d].fd \in Fds \ {f}
      BY <1>1, <1>2, <1>7, <2>2
    <3>2. InPhase(d)
      BY <1>7, <3>1 DEF PhaseInv, InPhase, Live
    <3>3. \A e : SocketEvent(e) /\ e.fd = conn[d].fd => (e \in batch' <=> e \in batch)
      BY <3>1 DEF EventsHandled
    <3>4. interest'[conn[d].fd] = interest[conn[d].fd]
      BY <1>1, <3>1
    <3> QED
      BY <3>1, <3>2, <3>3, <3>4, PhaseKept
  <2> QED
    BY <2>1, <2>2
<1>8. ASSUME NEW g \in Fds, connections'[g] = None
      PROVE  Unwatched(g)'
  <2>1. CASE g = f
    BY <1>0, <1>1, <1>8, <2>1 DEF Unwatched, EventsHandled, SocketEvent
  <2>2. CASE g # f
    BY <1>1, <1>8, <2>2 DEF PhaseInv, Unwatched, EventsHandled
  <2> QED
    BY <2>1, <2>2
<1> QED
  BY <1>4, <1>5, <1>6, <1>7, <1>8 DEF PhaseInv, InPhase, Live

\* What the phases do not depend on may change, and a connection that is not
\* being served may arrive or be refused.
Alike(k, n) ==
  /\ n.stage = k.stage /\ n.fd = k.fd
  /\ n.processing = k.processing /\ n.handling = k.handling /\ n.out = k.out
  /\ n.buf = k.buf /\ n.parsed = k.parsed /\ n.reply = k.reply /\ n.said = k.said

Elsewhere(k, n) ==
  /\ k.stage \in {"away", "queued"} /\ n.stage # "live"
  /\ n.fd = None /\ n.said = k.said
  /\ n.stage \in {"away", "queued"} => Unserved(n)

LEMMA UntouchedKeepsPhases ==
  ASSUME TypeOK, PhaseInv,
         \A c \in Conns : Alike(conn[c], conn'[c]) \/ Elsewhere(conn[c], conn'[c]),
         UNCHANGED <<connections, interest>>,
         \A e : SocketEvent(e) => (e \in batch' <=> e \in batch)
  PROVE  PhaseInv'
<1>0. connections \in [Fds -> Conns \cup {None}] /\ None \notin Conns
  BY Constants DEF TypeOK
<1>1. Registered'
  BY <1>0 DEF PhaseInv, Registered, Alike, Elsewhere
<1>2. NewcomersUnserved'
  BY DEF PhaseInv, NewcomersUnserved, Unserved, Alike, Elsewhere
<1>3. OneShot'
  BY DEF PhaseInv, OneShot
<1>4. ASSUME NEW c \in Conns, conn'[c].stage = "live"
      PROVE  InPhase(c)'
  <2>1. Alike(conn[c], conn'[c]) /\ conn[c].stage = "live"
    BY <1>4 DEF Alike, Elsewhere
  <2>2. InPhase(c) /\ conn[c].fd \in Fds
    BY <2>1 DEF PhaseInv, Registered, InPhase, Live
  <2> QED
    BY <2>1, <2>2, PhaseKept DEF Alike
<1>5. \A f \in Fds : connections'[f] = None => Unwatched(f)'
  BY DEF PhaseInv, Unwatched, SocketEvent
<1> QED
  BY <1>1, <1>2, <1>3, <1>4, <1>5 DEF PhaseInv, InPhase, Live

\* Connections closed by the sweep or by the end of run(), between two batches.
LEMMA HangUpKeepsPhases ==
  ASSUME TypeOK, PhaseInv, NEW cs \in SUBSET Live, NEW last,
         DropAll(cs, last), batch = {}, batch' = {}
  PROVE  PhaseInv'
<1>0. /\ conn \in [Conns -> Connection] /\ connections \in [Fds -> Conns \cup {None}]
      /\ interest \in [Fds -> {"off", "read", "write"}] /\ None \notin Conns
      /\ cs \subseteq Conns /\ None \notin Fds
  BY Constants DEF TypeOK, Live
<1>1. \A c \in Conns : IF c \in cs THEN conn'[c] = Closed(last[c])
                                   ELSE conn'[c] = conn[c]
  BY <1>0 DEF DropAll
<1>2. \A f \in Fds : IF connections[f] \in cs
                     THEN connections'[f] = None /\ interest'[f] = "off"
                     ELSE /\ connections'[f] = connections[f]
                          /\ interest'[f] = interest[f]
  BY <1>0 DEF DropAll
<1>3. \A c \in cs : conn'[c].stage = "closed" /\ conn'[c].fd = None
  BY <1>0, <1>1 DEF Closed, NewConnection
<1>4. Registered'
  BY <1>0, <1>1, <1>2, <1>3 DEF PhaseInv, Registered
<1>5. NewcomersUnserved'
  BY <1>1, <1>3 DEF PhaseInv, NewcomersUnserved
<1>6. OneShot'
  BY DEF OneShot
<1>7. ASSUME NEW c \in Conns, conn'[c].stage = "live"
      PROVE  InPhase(c)'
  <2>1. c \notin cs /\ conn'[c] = conn[c] /\ conn[c].fd \in Fds
        /\ connections[conn[c].fd] = c
    BY <1>1, <1>3, <1>7 DEF PhaseInv, Registered
  <2>2. InPhase(c) /\ interest'[conn[c].fd] = interest[conn[c].fd]
    BY <1>2, <1>7, <2>1 DEF PhaseInv, InPhase, Live
  <2> QED
    BY <2>1, <2>2, PhaseKept
<1>8. \A f \in Fds : connections'[f] = None => Unwatched(f)'
  BY <1>0, <1>2 DEF PhaseInv, Unwatched
<1> QED
  BY <1>4, <1>5, <1>6, <1>7, <1>8 DEF PhaseInv, InPhase, Live

-----------------------------------------------------------------------------
(* epoll_wait.                                                             *)

LEMMA EventMeans ==
  ASSUME NEW e \in SocketEvents
  PROVE  /\ SocketEvent(e) /\ e.fd \in Fds /\ e.kind \in {"in", "out", "hup"}
         /\ interest[e.fd] # "off" /\ connections[e.fd] # None
         /\ e.kind = "hup" <=> conn[connections[e.fd]].end = "rst"
         /\ e.kind = "in" => interest[e.fd] = "read"
         /\ e.kind = "out" => interest[e.fd] = "write"
<1>1. /\ SocketEvent(e) /\ e.fd \in Fds /\ e.kind \in {"in", "out", "hup"}
      /\ interest[e.fd] # "off" /\ connections[e.fd] # None
  BY DEF SocketEvents, SocketEvent
<1>2. CASE e.kind = "hup"
  BY <1>1, <1>2 DEF SocketEvents
<1>3. CASE e.kind = "in"
  BY <1>1, <1>3 DEF SocketEvents
<1>4. CASE e.kind = "out"
  BY <1>1, <1>4 DEF SocketEvents
<1> QED
  BY <1>1, <1>2, <1>3, <1>4

LEMMA EpollKeepsPhases ==
  ASSUME TypeOK, PhaseInv, EpollWait, batch = {}
  PROVE  PhaseInv'
<1>0. /\ UNCHANGED <<conn, connections>>
      /\ interest \in [Fds -> {"off", "read", "write"}]
  BY DEF EpollWait, TypeOK
<1>1. \A e : SocketEvent(e) => (e \in batch' <=> e \in SocketEvents)
  <2>1. ~SocketEvent(WakeEvent) /\ ~SocketEvent(ListenEvent)
    <3>1. WakeEvent.kind = "wake" /\ ListenEvent.kind = "listen"
      BY DEF WakeEvent, ListenEvent
    <3>2. \A e : SocketEvent(e) => e.kind \in {"in", "out", "hup"}
      BY DEF SocketEvent
    <3> QED
      BY <3>1, <3>2
  <2>2. /\ batch' \subseteq SocketEvents \cup {WakeEvent, ListenEvent}
        /\ SocketEvents \subseteq batch'
    BY DEF EpollWait
  <2> QED
    BY <2>1, <2>2
<1>2. \A f \in Fds : IF \E e \in SocketEvents : e.fd = f
                     THEN interest'[f] = "off" ELSE interest'[f] = interest[f]
  BY DEF EpollWait
<1>3. Registered' /\ NewcomersUnserved'
  BY <1>0 DEF PhaseInv, Registered, NewcomersUnserved
<1>4. OneShot'
  <2>1. ASSUME NEW e \in batch', SocketEvent(e)
        PROVE  interest'[e.fd] = "off"
    BY <1>1, <1>2, <2>1, EventMeans
  <2>2. ASSUME NEW e \in batch', NEW d \in batch', SocketEvent(e), SocketEvent(d),
               d.fd = e.fd
        PROVE  d = e
    <3>1. e \in SocketEvents /\ d \in SocketEvents
      BY <1>1, <2>2
    <3>2. d.kind = e.kind
      BY <2>2, <3>1, EventMeans
    <3> QED
      BY <2>2, <3>2 DEF SocketEvent
  <2> QED
    BY <2>1, <2>2 DEF OneShot
<1>5. ASSUME NEW c \in Conns, conn'[c].stage = "live"
      PROVE  InPhase(c)'
  <2> DEFINE f == conn[c].fd
  <2>1. conn'[c] = conn[c] /\ f \in Fds /\ connections[f] = c /\ InPhase(c)
    BY <1>0, <1>5 DEF PhaseInv, Registered, InPhase, Live
  <2>2. CASE \E e \in SocketEvents : e.fd = f
    <3>1. PICK e \in SocketEvents : e.fd = f
      BY <2>2
    <3>2. e \in batch' /\ SocketEvent(e) /\ interest'[f] = "off"
      BY <1>1, <1>2, <2>1, <3>1, EventMeans
    <3>3. CASE Waiting(c)
      <4>1. interest[f] = "read"
        BY <3>3 DEF Waiting, Watched
      <4>2. e.kind \in {"in", "hup"}
        BY <3>1, <4>1, EventMeans
      <4>3. Watched(f, "read", "in")'
        BY <1>0, <3>1, <3>2, <4>2 DEF Watched, SocketEvent
      <4> QED
        BY <1>0, <3>3, <4>3 DEF InPhase, Waiting
    <3>4. CASE Writing(c)
      <4>1. interest[f] = "write"
        BY <3>4 DEF Writing, Watched
      <4>2. e.kind \in {"out", "hup"}
        BY <3>1, <4>1, EventMeans
      <4>3. Watched(f, "write", "out")'
        BY <1>0, <3>1, <3>2, <4>2 DEF Watched, SocketEvent
      <4> QED
        BY <1>0, <3>4, <4>3 DEF InPhase, Writing
    <3>5. ~Handling(c)
      BY <3>1, EventMeans DEF Handling, Unwatched
    <3> QED
      BY <2>1, <3>3, <3>4, <3>5 DEF InPhase
  <2>3. CASE ~\E e \in SocketEvents : e.fd = f
    <3>1. interest'[f] = interest[f]
      BY <1>2, <2>1, <2>3
    <3>2. \A e : SocketEvent(e) /\ e.fd = f => (e \in batch' <=> e \in batch)
      BY <1>1, <2>3
    <3> QED
      BY <2>1, <3>1, <3>2, PhaseKept
  <2> QED
    BY <2>2, <2>3
<1>6. ASSUME NEW f \in Fds, connections'[f] = None
      PROVE  Unwatched(f)'
  <2>1. ~\E e \in SocketEvents : e.fd = f
    BY <1>0, <1>6, EventMeans
  <2>2. interest'[f] = "off"
    BY <1>0, <1>2, <1>6, <2>1 DEF PhaseInv, Unwatched
  <2> QED
    BY <1>1, <2>1, <2>2 DEF Unwatched, SocketEvent
<1> QED
  BY <1>3, <1>4, <1>5, <1>6 DEF PhaseInv, InPhase, Live

-----------------------------------------------------------------------------
(* What a handler does about its connection.                               *)

Reply(k) == [req |-> k.reply, kind |-> "reply"]
Interim(parsed) == [req |-> parsed + 1, kind |-> "continue"]

\* From a connection at which the server awaits a request, where it has said so
\* much and parsed so many: it takes one, or goes on waiting, or closes.
Moves(said, parsed, n) ==
  \/ /\ n.stage = "live" /\ n.processing
     /\ n.parsed = parsed + 1 /\ n.parsed \in 1..MaxReq
     /\ n.said = said
  \/ /\ n.stage = "live" => ~n.processing /\ n.parsed = parsed
     /\ n.said \in {said, Append(said, Interim(parsed))}

\* From k to n: nothing is said; a request is awaited; a response is complete.
Turn(k, n) ==
  \/ /\ n.said = k.said
     /\ n.stage = "live" => n.processing = k.processing /\ n.parsed = k.parsed
  \/ ~k.processing /\ Moves(k.said, k.parsed, n)
  \/ /\ k.processing /\ ~k.handling /\ k.out > 0 /\ k.reply = k.parsed
     /\ \/ n.stage = "closed" /\ n.said = Append(k.said, Reply(k))
        \/ Moves(Append(k.said, Reply(k)), k.parsed, n)

\* A request is queued for the pool exactly when its connection waits for it.
Queues(f, c, n) ==
  IF n.stage = "live" /\ n.handling
  THEN tasks' = Append(tasks, [fd |-> f, conn |-> c, req |-> n.parsed])
  ELSE UNCHANGED tasks

LEMMA ClosedFields ==
  ASSUME NEW k \in Connection
  PROVE  /\ Closed(k).stage = "closed" /\ Closed(k).fd = None
         /\ Closed(k).said = k.said /\ Closed(k).parsed = k.parsed
         /\ Closed(k).handling = FALSE /\ Closed(k).processing = FALSE
BY DEF Closed, NewConnection

LEMMA DropTouches ==
  ASSUME NEW f \in Fds, NEW c \in Conns, NEW k \in Connection, Drop(f, c, k)
  PROVE  Touched(f, c, Closed(k), "off")
BY ClosedFields DEF Drop, Touched

LEMMA WatchTouches ==
  ASSUME NetSound, NEW f \in Fds, NEW c \in Conns, NEW k, NEW dir,
         connections[f] = c, k.stage = "live", k.fd = f, Settled(k, dir),
         Watch(f, c, k, dir)
  PROVE  Touched(f, c, k, dir)
BY DEF NetSound, Watch, Touched

LEMMA RearmTouches ==
  ASSUME NetSound, NEW f \in Fds, NEW c \in Conns, NEW k \in Connection, NEW dir,
         connections[f] = c, k.stage = "live", k.fd = f, Settled(k, dir),
         Rearm(f, c, k, dir)
  PROVE  Touched(f, c, k, dir) \/ Touched(f, c, Closed(k), "off")
BY WatchTouches, DropTouches DEF Rearm

LEMMA ConsumedFields ==
  ASSUME NEW k \in Connection
  PROVE  LET n == Consumed(k) IN
         /\ n.stage = k.stage /\ n.fd = k.fd /\ n.said = k.said
         /\ n.parsed = k.parsed + 1 /\ n.processing = TRUE
         /\ n.handling = k.handling /\ n.out = k.out
BY DEF Consumed, Connection

LEMMA ContinueFields ==
  ASSUME NEW k \in Connection
  PROVE  LET n == MaybeContinue(k) IN
         /\ n.stage = k.stage /\ n.fd = k.fd /\ n.buf = k.buf
         /\ n.parsed = k.parsed /\ n.processing = k.processing
         /\ n.handling = k.handling /\ n.out = k.out
         /\ n.said \in {k.said, Append(k.said, Interim(k.parsed))}
<1> DEFINE s == Interim(k.parsed)
           m == [k EXCEPT !.continueSent = TRUE, !.said = Append(@, s)]
<1>1. /\ m.stage = k.stage /\ m.fd = k.fd /\ m.buf = k.buf
      /\ m.parsed = k.parsed /\ m.processing = k.processing
      /\ m.handling = k.handling /\ m.out = k.out
      /\ m.said = Append(k.said, s)
  <2> HIDE DEF s
  <2> QED
    BY DEF Connection
<1>2. MaybeContinue(k) = m \/ MaybeContinue(k) = k
  BY DEF MaybeContinue, Interim
<1> QED
  BY <1>1, <1>2

\* A connection that waits for a request, as dispatch_next finds it.
Awaiting(f, k) ==
  /\ k.stage = "live" /\ k.fd = f
  /\ ~k.processing /\ ~k.handling /\ k.out = 0

LEMMA DispatchMoves ==
  ASSUME NetSound, NEW f \in Fds, NEW c \in Conns, connections[f] = c,
         NEW k, Sound(k), Awaiting(f, k), DispatchNext(f, c, k)
  PROVE  \E n \in Connection, dir \in {"off", "read", "write"} :
           Touched(f, c, n, dir) /\ Moves(k.said, k.parsed, n) /\ Queues(f, c, n)
<1>0. k \in Connection
  BY DEF Sound
<1>a. ASSUME NEW m, Sound(m), Touched(f, c, Closed(m), "off"), UNCHANGED tasks,
             m.said \in {k.said, Append(k.said, Interim(k.parsed))}
      PROVE  \E n \in Connection, dir \in {"off", "read", "write"} :
               Touched(f, c, n, dir) /\ Moves(k.said, k.parsed, n) /\ Queues(f, c, n)
  <2>1. Closed(m) \in Connection /\ m \in Connection
    BY <1>a, ClosedIsSound DEF Sound
  <2>2. Moves(k.said, k.parsed, Closed(m)) /\ Queues(f, c, Closed(m))
    BY <1>a, <2>1, ClosedFields DEF Moves, Queues
  <2> QED
    BY <1>a, <2>1, <2>2
<1>1. CASE k.buf >= ReqChunks /\ Refuse(f, c, k)
  <2> DEFINE b == Consumed(k)
             n == [b EXCEPT !.out = RespChunks, !.reply = k.parsed + 1]
  <2>1. Sound(b) /\ b \in Connection /\ k.parsed + 1 \in 1..MaxReq
    BY <1>1, ConsumedIsSound DEF Sound
  <2>2. /\ b.stage = "live" /\ b.fd = f /\ b.said = k.said
        /\ b.parsed = k.parsed + 1 /\ b.processing = TRUE /\ b.handling = FALSE
    <3>1. k.handling = FALSE
      BY <1>0 DEF Awaiting, Connection
    <3> QED
      BY <1>0, <3>1, ConsumedFields DEF Awaiting
  <2>3. Rearm(f, c, n, "write") /\ UNCHANGED tasks
    BY <1>1 DEF Refuse
  <2> HIDE DEF b
  <2>4. n \in Connection
    <3>1. RespChunks \in 0..RespChunks /\ k.parsed + 1 \in 0..MaxReq
      BY <2>1, Constants
    <3> QED
      BY <2>1, <3>1, Update
  <2>5. /\ n.stage = "live" /\ n.fd = f /\ n.said = k.said
        /\ n.parsed = k.parsed + 1 /\ n.processing = TRUE /\ n.handling = FALSE
        /\ n.out = RespChunks /\ n.reply = k.parsed + 1
        /\ n.buf = b.buf /\ n.sock = b.sock
    BY <2>1, <2>2 DEF Connection
  <2> HIDE DEF n
  <2>6. Sound(n)
    BY <2>1, <2>2, <2>4, <2>5, StaysSound
  <2>7. Settled(n, "write")
    BY <2>5, Constants DEF Settled
  <2>8. Touched(f, c, n, "write") \/ Touched(f, c, Closed(n), "off")
    BY <2>3, <2>4, <2>5, <2>7, RearmTouches
  <2>9. CASE Touched(f, c, n, "write")
    <3>1. Moves(k.said, k.parsed, n) /\ Queues(f, c, n)
      BY <2>1, <2>3, <2>5 DEF Moves, Queues
    <3> QED
      BY <2>4, <2>9, <3>1
  <2>10. CASE Touched(f, c, Closed(n), "off")
    BY <1>a, <2>3, <2>5, <2>6, <2>10
  <2> QED
    BY <2>8, <2>9, <2>10
<1>2. CASE k.buf >= ReqChunks /\ Enqueue(f, c, k)
  <2> DEFINE b == Consumed(k)
             n == [b EXCEPT !.handling = TRUE, !.late = FALSE]
  <2>1. Sound(b) /\ b \in Connection /\ k.parsed + 1 \in 1..MaxReq
    BY <1>2, ConsumedIsSound DEF Sound
  <2>2. /\ b.stage = "live" /\ b.fd = f /\ b.said = k.said
        /\ b.parsed = k.parsed + 1 /\ b.processing = TRUE /\ b.out = 0
    BY <1>0, ConsumedFields DEF Awaiting
  <2>3. /\ Watch(f, c, n, "off")
        /\ tasks' = Append(tasks, [fd |-> f, conn |-> c, req |-> k.parsed + 1])
    BY <1>2 DEF Enqueue
  <2> HIDE DEF b
  <2>4. n \in Connection
    BY <2>1, Update
  <2>5. /\ n.stage = "live" /\ n.fd = f /\ n.said = k.said
        /\ n.parsed = k.parsed + 1 /\ n.processing = TRUE /\ n.handling = TRUE
        /\ n.out = 0
    BY <2>1, <2>2 DEF Connection
  <2> HIDE DEF n
  <2>6. Settled(n, "off")
    BY <2>5 DEF Settled
  <2>7. Touched(f, c, n, "off")
    BY <2>3, <2>5, <2>6, WatchTouches
  <2>8. Moves(k.said, k.parsed, n) /\ Queues(f, c, n)
    BY <2>1, <2>3, <2>5 DEF Moves, Queues
  <2> QED
    BY <2>4, <2>7, <2>8
<1>3. CASE Drop(f, c, k) /\ UNCHANGED <<tasks, inFlight>>
  BY <1>0, <1>3, <1>a, DropTouches
<1>4. CASE /\ k.buf < ReqChunks /\ Rearm(f, c, MaybeContinue(k), "read")
           /\ UNCHANGED <<tasks, inFlight>>
  <2> DEFINE n == MaybeContinue(k)
  <2>1. Sound(n) /\ n \in Connection
    BY ContinueIsSound DEF Sound
  <2>2. /\ n.stage = "live" /\ n.fd = f /\ n.buf < ReqChunks
        /\ n.parsed = k.parsed /\ ~n.processing /\ ~n.handling /\ n.out = 0
        /\ n.said \in {k.said, Append(k.said, Interim(k.parsed))}
    BY <1>0, <1>4, ContinueFields DEF Awaiting
  <2> HIDE DEF n
  <2>3. Settled(n, "read")
    BY <2>2 DEF Settled
  <2>4. Touched(f, c, n, "read") \/ Touched(f, c, Closed(n), "off")
    BY <1>4, <2>1, <2>2, <2>3, RearmTouches DEF n
  <2>5. CASE Touched(f, c, n, "read")
    <3>1. Moves(k.said, k.parsed, n) /\ Queues(f, c, n)
      BY <1>4, <2>2 DEF Moves, Queues
    <3> QED
      BY <2>1, <2>5, <3>1
  <2>6. CASE Touched(f, c, Closed(n), "off")
    BY <1>4, <1>a, <2>1, <2>2, <2>6
  <2> QED
    BY <2>4, <2>5, <2>6
<1> QED
  BY <1>1, <1>2, <1>3, <1>4 DEF DispatchNext, Awaiting

\* The event in hand is one the connection's phase waits for.
LEMMA EventFitsPhase ==
  ASSUME TypeOK, PhaseInv, NEW e \in batch, SocketEvent(e),
         connections[e.fd] # None
  PROVE  LET c == connections[e.fd] IN
         /\ c \in Conns /\ conn[c].stage = "live" /\ conn[c].fd = e.fd
         /\ e.fd \in Fds
         /\ e.kind = "in" => Waiting(c)
         /\ e.kind = "out" => Writing(c)
         /\ ~conn[c].handling
<1> DEFINE f == e.fd
           c == connections[f]
<1>1. f \in Fds /\ c \in Conns /\ conn[c].stage = "live" /\ conn[c].fd = f
  BY DEF SocketEvent, TypeOK, PhaseInv, Registered
<1>2. interest[f] = "off" /\ \A d \in batch : SocketEvent(d) /\ d.fd = f => d = e
  BY DEF PhaseInv, OneShot
<1>3. ASSUME NEW dir, NEW kind \in {"in", "out"}, Watched(f, dir, kind), dir # "off"
      PROVE  e.kind \in {kind, "hup"}
  <2>1. PICK d \in batch : d \in [kind : {kind, "hup"}, fd : {f}]
    BY <1>2, <1>3 DEF Watched
  <2>2. SocketEvent(d) /\ d.fd = f /\ d.kind \in {kind, "hup"}
    BY <1>1, <2>1 DEF SocketEvent
  <2> QED
    BY <1>2, <2>1, <2>2
<1>4. ~Handling(c)
  BY <1>1 DEF Handling, Unwatched, SocketEvent
<1>5. Waiting(c) => e.kind \in {"in", "hup"}
  BY <1>1, <1>3 DEF Waiting
<1>6. Writing(c) => e.kind \in {"out", "hup"}
  BY <1>1, <1>3 DEF Writing
<1>7. Waiting(c) \/ Writing(c)
  BY <1>1, <1>4 DEF PhaseInv, Live
<1> QED
  BY <1>1, <1>4, <1>5, <1>6, <1>7 DEF Waiting, Writing

LEMMA ReadTurns ==
  ASSUME NetSound, NEW f \in Fds, NEW c \in Conns, connections[f] = c,
         Awaiting(f, conn[c]), HandleClientData(f)
  PROVE  \E n \in Connection, dir \in {"off", "read", "write"} :
           Touched(f, c, n, dir) /\ Turn(conn[c], n) /\ Queues(f, c, n)
<1> DEFINE k == conn[c]
<1>1. Sound(k) /\ k \in Connection
  BY DEF NetSound, Sound
<1>2. CASE ReadEnds(k)
  <2>1. Drop(f, c, k) /\ UNCHANGED tasks
    BY <1>2 DEF HandleClientData
  <2>2. Touched(f, c, Closed(k), "off") /\ Closed(k) \in Connection
    BY <1>1, <2>1, DropTouches, ClosedIsSound DEF Sound
  <2>3. Turn(k, Closed(k)) /\ Queues(f, c, Closed(k))
    BY <1>1, <2>1, ClosedFields DEF Turn, Queues
  <2> QED
    BY <2>2, <2>3
<1>3. ASSUME NEW n \in ReadSizes(k), ~ReadEnds(k),
             DispatchNext(f, c, [k EXCEPT !.buf = @ + n, !.sock = @ - n,
                                          !.late = IF n > 0 THEN FALSE ELSE @])
      PROVE  \E m \in Connection, dir \in {"off", "read", "write"} :
               Touched(f, c, m, dir) /\ Turn(k, m) /\ Queues(f, c, m)
  <2> DEFINE l == IF n > 0 THEN FALSE ELSE k.late
             b == [k EXCEPT !.buf = @ + n, !.sock = @ - n, !.late = l]
  <2>1. DispatchNext(f, c, b)
    <3>1. b = [k EXCEPT !.buf = @ + n, !.sock = @ - n,
                        !.late = IF n > 0 THEN FALSE ELSE @]
      BY <1>1 DEF Connection
    <3> QED
      BY <1>3, <3>1
  <2> HIDE DEF k
  <2>2. Sound(b)
    BY <1>1, <1>3, ReadKeepsSound
  <2>3. /\ b.stage = k.stage /\ b.fd = k.fd /\ b.said = k.said
        /\ b.parsed = k.parsed /\ b.processing = k.processing
        /\ b.handling = k.handling /\ b.out = k.out
    <3> HIDE DEF l
    <3> QED
      BY <1>1 DEF Connection
  <2> HIDE DEF b
  <2>4. Awaiting(f, b) /\ ~k.processing
    BY <2>3 DEF Awaiting, k
  <2>5. PICK m \in Connection, dir \in {"off", "read", "write"} :
          Touched(f, c, m, dir) /\ Moves(b.said, b.parsed, m) /\ Queues(f, c, m)
    BY <2>1, <2>2, <2>4, DispatchMoves
  <2>6. Turn(k, m)
    BY <2>3, <2>4, <2>5 DEF Turn
  <2> QED
    BY <2>5, <2>6
<1> QED
  BY <1>2, <1>3 DEF HandleClientData

LEMMA WriteTurns ==
  ASSUME NetSound, NEW f \in Fds, NEW c \in Conns, connections[f] = c,
         conn[c].stage = "live", conn[c].fd = f, Writing(c), HandleWriteReady(f)
  PROVE  \E n \in Connection, dir \in {"off", "read", "write"} :
           Touched(f, c, n, dir) /\ Turn(conn[c], n) /\ Queues(f, c, n)
<1> DEFINE k == conn[c]
           w == Written(k)
<1>1. Sound(k) /\ k \in Connection /\ Sound(w) /\ w \in Connection
  BY WrittenIsSound DEF NetSound, Sound
<1>2. /\ k.stage = "live" /\ k.fd = f /\ k.processing /\ ~k.handling /\ k.out > 0
      /\ k.reply = k.parsed /\ k.out \in Nat
  BY <1>1 DEF Writing, Connection
<1> HIDE DEF k
<1>3. /\ w.stage = k.stage /\ w.fd = k.fd /\ w.said = Append(k.said, Reply(k))
      /\ w.parsed = k.parsed /\ w.handling = k.handling /\ w.out = 0
  <2> DEFINE t == IF k.out = 0 THEN k.said ELSE Append(k.said, Reply(k))
             v == [k EXCEPT !.out = 0, !.reply = 0, !.said = t]
  <2>1. w = v
    BY <1>1 DEF Written, Reply, Connection
  <2>2. /\ v.stage = k.stage /\ v.fd = k.fd /\ v.said = t
        /\ v.parsed = k.parsed /\ v.handling = k.handling /\ v.out = 0
    <3> HIDE DEF t
    <3> QED
      BY <1>1 DEF Connection
  <2>3. t = Append(k.said, Reply(k))
    <3>1. k.out # 0
      BY <1>2
    <3> QED
      BY <3>1
  <2> HIDE DEF v, w, t
  <2> QED
    BY <2>1, <2>2, <2>3
<1> HIDE DEF w
<1>4. CASE Drop(f, c, k) /\ UNCHANGED <<tasks, inFlight>>
  <2>1. Touched(f, c, Closed(k), "off") /\ Closed(k) \in Connection
    BY <1>1, <1>4, DropTouches, ClosedIsSound DEF Sound
  <2>2. Turn(k, Closed(k)) /\ Queues(f, c, Closed(k))
    BY <1>1, <1>4, ClosedFields DEF Turn, Queues
  <2> QED
    BY <2>1, <2>2 DEF k
<1>5. CASE Drop(f, c, w) /\ UNCHANGED <<tasks, inFlight>>
  <2>1. Touched(f, c, Closed(w), "off") /\ Closed(w) \in Connection
    BY <1>1, <1>5, DropTouches, ClosedIsSound DEF Sound
  <2>2. Turn(k, Closed(w)) /\ Queues(f, c, Closed(w))
    BY <1>1, <1>2, <1>3, <1>5, ClosedFields DEF Turn, Queues
  <2> QED
    BY <2>1, <2>2 DEF k
<1>6. ASSUME NEW m \in CutShort(k), Rearm(f, c, m, "write"), UNCHANGED <<tasks, inFlight>>
      PROVE  \E n \in Connection, dir \in {"off", "read", "write"} :
               Touched(f, c, n, dir) /\ Turn(k, n) /\ Queues(f, c, n)
  <2>1. m \in Connection /\ m.out > 0
    BY <1>1, CutShortFields
  <2>2. m \in Connection
    BY <2>1
  <2>3. /\ m.stage = k.stage /\ m.fd = k.fd /\ m.said = k.said
        /\ m.parsed = k.parsed /\ m.processing = k.processing
        /\ m.handling = k.handling /\ m.reply = k.reply
    BY <1>1, CutShortFields
  <2>4. Rearm(f, c, m, "write")
    BY <1>6
  <2>5. Settled(m, "write")
    BY <1>2, <2>1, <2>3 DEF Settled
  <2>6. Touched(f, c, m, "write") \/ Touched(f, c, Closed(m), "off")
    BY <1>2, <2>2, <2>3, <2>4, <2>5, RearmTouches
  <2>7. Closed(m) \in Connection
    <3>1. /\ NewConnection \in Connection /\ m.parsed \in 0..MaxReq
          /\ m.said \in Seq(Said)
      BY <2>2, NewIsSound DEF Sound, Connection
    <3> QED
      BY <3>1, Update DEF Closed
  <2>8. Turn(k, m) /\ Queues(f, c, m)
    BY <1>2, <1>6, <2>3 DEF Turn, Queues
  <2>9. Turn(k, Closed(m)) /\ Queues(f, c, Closed(m))
    BY <1>6, <2>2, <2>3, ClosedFields DEF Turn, Queues
  <2> QED
    BY <2>2, <2>6, <2>7, <2>8, <2>9
<1>7. CASE DispatchNext(f, c, [w EXCEPT !.processing = FALSE, !.late = FALSE])
  <2> DEFINE b == [w EXCEPT !.processing = FALSE, !.late = FALSE]
  <2>1. b \in Connection
    BY <1>1, Update
  <2>2. /\ b.stage = w.stage /\ b.fd = w.fd /\ b.said = w.said
        /\ b.parsed = w.parsed /\ b.processing = FALSE
        /\ b.handling = w.handling /\ b.out = w.out /\ b.reply = w.reply
        /\ b.buf = w.buf /\ b.sock = w.sock
    BY <1>1 DEF Connection
  <2>3. DispatchNext(f, c, b)
    BY <1>7
  <2> HIDE DEF b
  <2>4. Sound(b)
    BY <1>1, <2>1, <2>2, StaysSound DEF Sound
  <2>5. Awaiting(f, b)
    BY <1>2, <1>3, <2>2 DEF Awaiting
  <2>6. PICK m \in Connection, dir \in {"off", "read", "write"} :
          Touched(f, c, m, dir) /\ Moves(b.said, b.parsed, m) /\ Queues(f, c, m)
    BY <2>3, <2>4, <2>5, DispatchMoves
  <2>7. Turn(k, m)
    BY <1>2, <1>3, <2>2, <2>6 DEF Turn
  <2> QED
    BY <2>6, <2>7 DEF k
<1> QED
  BY <1>4, <1>5, <1>6, <1>7 DEF HandleWriteReady, k, w

LEMMA SocketTurns ==
  ASSUME ServerInv, PhaseInv, NEW e \in batch, HandleSocket(e),
         connections[e.fd] # None
  PROVE  LET f == e.fd
             c == connections[e.fd] IN
         /\ f \in Fds /\ c \in Conns
         /\ conn[c].stage = "live" /\ conn[c].fd = f /\ ~conn[c].handling
         /\ EventsHandled(f)
         /\ \E n \in Connection, dir \in {"off", "read", "write"} :
              Touched(f, c, n, dir) /\ Turn(conn[c], n) /\ Queues(f, c, n)
<1> DEFINE f == e.fd
           c == connections[f]
           k == conn[c]
<1>1. TypeOK /\ NetSound
  BY NetOfInv DEF ServerInv
<1>2. SocketEvent(e) /\ batch' = batch \ {e}
  BY <1>1 DEF HandleSocket, TypeOK, Event, SocketEvent
<1>3. /\ c \in Conns /\ k.stage = "live" /\ k.fd = f /\ f \in Fds
      /\ e.kind = "in" => Waiting(c)
      /\ e.kind = "out" => Writing(c)
      /\ ~k.handling
  BY <1>1, <1>2, EventFitsPhase
<1>4. EventsHandled(f)
  BY <1>2, <1>3 DEF EventsHandled, PhaseInv, OneShot
<1> HIDE DEF c
<1>5. CASE Drop(f, c, k) /\ UNCHANGED <<tasks, inFlight>>
  <2>1. Sound(k) /\ k \in Connection
    BY <1>1, <1>3 DEF NetSound, Sound
  <2>2. Touched(f, c, Closed(k), "off") /\ Closed(k) \in Connection
    BY <1>3, <1>5, <2>1, DropTouches, ClosedIsSound DEF Sound
  <2>3. Turn(k, Closed(k)) /\ Queues(f, c, Closed(k))
    BY <1>5, <2>1, ClosedFields DEF Turn, Queues
  <2> QED
    BY <1>3, <1>4, <2>2, <2>3 DEF c
<1>6. CASE e.kind = "in" /\ HandleClientData(f)
  <2>1. Awaiting(f, k)
    BY <1>3, <1>6 DEF Awaiting, Waiting
  <2>2. connections[f] = c
    BY DEF c
  <2>3. \E n \in Connection, dir \in {"off", "read", "write"} :
          Touched(f, c, n, dir) /\ Turn(conn[c], n) /\ Queues(f, c, n)
    BY <1>1, <1>3, <1>6, <2>1, <2>2, ReadTurns
  <2> QED
    BY <1>3, <1>4, <2>3 DEF c
<1>7. CASE e.kind = "out" /\ HandleWriteReady(f)
  <2>1. connections[f] = c
    BY DEF c
  <2>2. \E n \in Connection, dir \in {"off", "read", "write"} :
          Touched(f, c, n, dir) /\ Turn(conn[c], n) /\ Queues(f, c, n)
    BY <1>1, <1>3, <1>7, <2>1, WriteTurns
  <2> QED
    BY <1>3, <1>4, <2>2 DEF c
<1> QED
  BY <1>5, <1>6, <1>7 DEF HandleSocket, c

-----------------------------------------------------------------------------
(* Requests in the pool.                                                   *)

\* What may happen to a connection while the pool keeps what it has: it closes,
\* or nothing does that its request depends on, or it has no request there.
Steady(k, n) ==
  \/ n.stage = "closed"
  \/ n.stage = k.stage /\ n.fd = k.fd /\ n.handling = k.handling
     /\ n.parsed = k.parsed
  \/ k.stage \in {"away", "queued"}
  \/ k.stage = "live" /\ ~k.handling

LEMMA CurrentKept ==
  ASSUME NEW t, Current(t), Steady(conn[t.conn], conn'[t.conn])
  PROVE  Current(t)'
BY DEF Current, Steady

\* The requests of the pool are left where they are, or one is added by a
\* connection that has none there.
LEMMA CustodyKept ==
  ASSUME ServerInv, CustodyInv,
         \A c \in Conns : Steady(conn[c], conn'[c]),
         UNCHANGED <<worker, completed, ready>>,
         loop' # "complete" => loop # "complete" \/ ready' = <<>>,
         \/ UNCHANGED tasks
         \/ \E t \in Task : /\ tasks' = Append(tasks, t)
                            /\ conn[t.conn].stage = "live"
                            /\ ~conn[t.conn].handling
                            /\ Current(t)'
  PROVE  CustodyInv'
<1>0. /\ tasks \in Seq(Task) /\ completed \in Seq(Task) /\ ready \in Seq(Task)
      /\ worker \in [Workers -> WorkerState] /\ Busy' = Busy
  BY DEF ServerInv, TypeOK, Busy
<1>1. /\ \A i \in 1..Len(tasks) : tasks[i] \in Task
      /\ \A i \in 1..Len(completed) : completed[i] \in Task
      /\ \A i \in 1..Len(ready) : ready[i] \in Task
      /\ \A w \in Busy : worker[w].task \in Task
  <2>1. \A w \in Busy : worker[w].task \in Task
    BY <1>0, WithTask DEF Busy
  <2> QED
    BY <1>0, <2>1, ElementOfSeq
<1>2. \A t \in Task : Current(t) => Current(t)'
  BY CurrentKept DEF Task
<1>3. /\ \A w \in Busy : Current(worker[w].task)
      /\ \A i \in 1..Len(completed) : Current(completed[i])
      /\ \A i \in 1..Len(ready) : Current(ready[i])
      /\ \A i \in 1..Len(tasks) : Current(tasks[i])
  BY DEF CustodyInv, Orderly
<1>4. /\ \A w \in Busy' : Current(worker[w].task)'
      /\ \A i \in 1..Len(completed') : Current(completed[i])'
      /\ \A i \in 1..Len(ready') : Current(ready[i])'
  BY <1>0, <1>1, <1>2, <1>3
<1>5. Orderly(completed)' /\ Orderly(ready)'
  BY <1>0, <1>4 DEF CustodyInv, Orderly, Once, NotBusy
<1>6. CASE UNCHANGED tasks
  <2>1. Orderly(tasks)'
    BY <1>0, <1>1, <1>2, <1>3, <1>6 DEF CustodyInv, Orderly, Once, NotBusy
  <2> QED
    BY <1>0, <1>4, <1>5, <1>6, <2>1 DEF CustodyInv, Apart
<1>7. ASSUME NEW t \in Task, tasks' = Append(tasks, t),
             conn[t.conn].stage = "live", ~conn[t.conn].handling, Current(t)'
      PROVE  CustodyInv'
  <2>1. \A u : Current(u) => u.conn # t.conn
    BY <1>7 DEF Current
  <2>2. /\ Len(tasks') = Len(tasks) + 1 /\ Len(tasks) \in Nat
        /\ tasks'[Len(tasks) + 1] = t
        /\ \A i \in 1..Len(tasks) : tasks'[i] = tasks[i]
    BY <1>0, <1>7, AppendProperties, LenProperties
  <2>3. \A i \in 1..Len(tasks') : \/ i \in 1..Len(tasks) /\ tasks'[i] = tasks[i]
                                  \/ i = Len(tasks) + 1 /\ tasks'[i] = t
    BY <2>2
  <2>4. \A i \in 1..Len(tasks') : Current(tasks[i])'
    BY <1>1, <1>2, <1>3, <1>7, <2>3
  <2>5. Once(tasks)'
    BY <1>3, <2>1, <2>3 DEF CustodyInv, Orderly, Once
  <2>6. NotBusy(tasks)'
    BY <1>0, <1>3, <2>1, <2>3 DEF CustodyInv, Orderly, NotBusy
  <2>7. Apart(tasks, completed)' /\ Apart(tasks, ready)'
    BY SMTT(20), <1>3, <2>1, <2>3 DEF CustodyInv, Apart
  <2> QED
    BY <1>0, <1>4, <1>5, <2>4, <2>5, <2>6, <2>7 DEF CustodyInv, Orderly, Apart
<1> QED
  BY <1>6, <1>7

\* Everything the pool holds, typed.
LEMMA Held ==
  ASSUME TypeOK
  PROVE  /\ tasks \in Seq(Task) /\ completed \in Seq(Task) /\ ready \in Seq(Task)
         /\ worker \in [Workers -> WorkerState]
         /\ Idle.pc = "idle" /\ Exited.pc = "exited"
         /\ \A i \in 1..Len(tasks) : tasks[i] \in Task
         /\ \A i \in 1..Len(completed) : completed[i] \in Task
         /\ \A i \in 1..Len(ready) : ready[i] \in Task
         /\ \A w \in Busy : worker[w].task \in Task
<1>1. \A w \in Busy : worker[w].task \in Task
  BY WithTask DEF Busy, TypeOK
<1> QED
  BY <1>1, ElementOfSeq DEF TypeOK, Idle, Exited

LEMMA TailElements ==
  ASSUME NEW q \in Seq(Task), q # <<>>
  PROVE  /\ \A i \in 1..Len(Tail(q)) : i + 1 \in 1..Len(q) /\ Tail(q)[i] = q[i + 1]
         /\ Len(q) \in Nat \ {0} /\ Head(q) = q[1] /\ Tail(q) \in Seq(Task)
         /\ Len(Tail(q)) = Len(q) - 1
BY HeadTailProperties, LenProperties

\* A worker drops its request, or keeps it.
LEMMA BusyKept ==
  ASSUME CustodyInv, UNCHANGED <<conn, tasks, completed, ready, loop>>,
         Busy' \subseteq Busy,
         \A w \in Busy' : worker'[w].task = worker[w].task
  PROVE  CustodyInv'
<1>1. \A t : Current(t)' <=> Current(t)
  BY DEF Current
<1>2. \A w \in Busy' : Current(worker'[w].task)
  BY DEF CustodyInv
<1>3. Orderly(tasks)' /\ Orderly(completed)' /\ Orderly(ready)'
  BY <1>1 DEF CustodyInv, Orderly, Once, NotBusy
<1>4. \A v, w \in Busy' : worker'[v].task.conn = worker'[w].task.conn => v = w
  BY DEF CustodyInv
<1> QED
  BY <1>1, <1>2, <1>3, <1>4 DEF CustodyInv, Apart

LEMMA TakeKeepsCustody ==
  ASSUME TypeOK, CustodyInv, NEW w \in Workers, TakeTask(w)
  PROVE  CustodyInv'
<1> DEFINE t == Head(tasks)
<1>0. UNCHANGED <<conn, completed, ready, loop>>
  BY DEF TakeTask, WorkerUnchanged, netVars
<1>1. \A u : Current(u)' <=> Current(u)
  BY <1>0 DEF Current
<1>2. /\ t = tasks[1] /\ 1 \in 1..Len(tasks)
      /\ \A i \in 1..Len(tasks') : i + 1 \in 1..Len(tasks) /\ tasks'[i] = tasks[i + 1]
  BY Held, TailElements DEF TakeTask
<1>3. w \notin Busy
  BY Held DEF TakeTask, Busy
<1>4. /\ worker'[w].task = t /\ Busy' = Busy \cup {w}
      /\ \A v \in Workers \ {w} : worker'[v] = worker[v]
  BY Held DEF TakeTask, Busy
<1> HIDE DEF t
<1>5. \A v \in Busy' : \/ v = w /\ worker'[v].task = t
                       \/ v \in Busy /\ v # w /\ worker'[v].task = worker[v].task
  BY <1>3, <1>4 DEF Busy
<1>6. /\ Current(t) /\ \A v \in Busy : worker[v].task.conn # t.conn
      /\ \A i \in 1..Len(completed) : completed[i].conn # t.conn
      /\ \A i \in 1..Len(ready) : ready[i].conn # t.conn
      /\ \A i \in 1..Len(tasks') : tasks'[i].conn # t.conn
  BY <1>2 DEF CustodyInv, Orderly, Once, NotBusy, Apart
<1>7. /\ \A v \in Busy' : Current(worker'[v].task)
      /\ \A u, v \in Busy' : worker'[u].task.conn = worker'[v].task.conn => u = v
  BY <1>5, <1>6 DEF CustodyInv
<1>8. NotBusy(tasks)' /\ NotBusy(completed)' /\ NotBusy(ready)'
  <2>1. NotBusy(tasks)'
    <3>1. \A i \in 1..Len(tasks'), v \in Busy : tasks'[i].conn # worker[v].task.conn
      BY <1>2 DEF CustodyInv, Orderly, NotBusy
    <3> QED
      BY <1>5, <1>6, <3>1 DEF NotBusy
  <2>2. NotBusy(completed)'
    BY <1>0, <1>5, <1>6 DEF CustodyInv, Orderly, NotBusy
  <2>3. NotBusy(ready)'
    BY <1>0, <1>5, <1>6 DEF CustodyInv, Orderly, NotBusy
  <2> QED
    BY <2>1, <2>2, <2>3
<1>9. Orderly(tasks)'
  BY SMTT(20), <1>1, <1>2, <1>8 DEF CustodyInv, Orderly, Once
<1>10. Orderly(completed)' /\ Orderly(ready)'
  BY <1>0, <1>1, <1>8 DEF CustodyInv, Orderly, Once
<1>11. Apart(tasks, completed)' /\ Apart(tasks, ready)' /\ Apart(completed, ready)'
  <2>1. Apart(tasks, completed)'
    BY SMTT(20), <1>0, <1>2 DEF CustodyInv, Apart
  <2>2. Apart(tasks, ready)'
    BY <1>0, <1>2 DEF CustodyInv, Apart
  <2>3. Apart(completed, ready)'
    BY <1>0 DEF CustodyInv, Apart
  <2> QED
    BY <2>1, <2>2, <2>3
<1> QED
  BY <1>0, <1>1, <1>7, <1>9, <1>10, <1>11 DEF CustodyInv

LEMMA PushKeepsCustody ==
  ASSUME TypeOK, CustodyInv, NEW w \in Workers, PushCompletion(w)
  PROVE  CustodyInv'
<1> DEFINE t == worker[w].task
<1>0. UNCHANGED <<conn, tasks, ready, loop>> /\ w \in Busy
  BY DEF PushCompletion, WorkerUnchanged, netVars, Busy
<1>1. \A u : Current(u)' <=> Current(u)
  BY <1>0 DEF Current
<1>2. worker'[w].pc = "notify" /\ \A v \in Workers \ {w} : worker'[v] = worker[v]
  BY Held, WithTask DEF PushCompletion
<1>3. Busy' = Busy \ {w} /\ \A v \in Busy' : worker'[v] = worker[v]
  BY <1>2 DEF Busy
<1>4. t \in Task /\ Current(t)
  BY <1>0, Held DEF CustodyInv
<1>5. \A i \in 1..Len(completed') :
         \/ i \in 1..Len(completed) /\ completed'[i] = completed[i]
         \/ i = Len(completed) + 1 /\ completed'[i] = t
  <2>1. completed' = Append(completed, t) /\ completed \in Seq(Task)
    BY Held DEF PushCompletion
  <2> HIDE DEF t
  <2> QED
    BY <1>4, <2>1, AppendProperties, LenProperties
<1>6. /\ \A v \in Busy' : worker[v].task.conn # t.conn
      /\ \A i \in 1..Len(completed) : completed[i].conn # t.conn
      /\ \A i \in 1..Len(ready) : ready[i].conn # t.conn
      /\ \A i \in 1..Len(tasks) : tasks[i].conn # t.conn
  BY <1>0, <1>3 DEF CustodyInv, Orderly, NotBusy
<1> HIDE DEF t
<1>7. /\ \A v \in Busy' : Current(worker'[v].task)
      /\ \A u, v \in Busy' : worker'[u].task.conn = worker'[v].task.conn => u = v
  BY <1>3 DEF CustodyInv
<1>8. NotBusy(tasks)' /\ NotBusy(completed)' /\ NotBusy(ready)'
  BY <1>0, <1>3, <1>5, <1>6 DEF CustodyInv, Orderly, NotBusy
<1>9. Orderly(completed)'
  BY <1>1, <1>4, <1>5, <1>6, <1>8 DEF CustodyInv, Orderly, Once
<1>10. Orderly(tasks)' /\ Orderly(ready)'
  BY <1>0, <1>1, <1>8 DEF CustodyInv, Orderly, Once
<1>11. Apart(tasks, completed)' /\ Apart(tasks, ready)' /\ Apart(completed, ready)'
  <2>1. Apart(tasks, completed)'
    BY <1>0, <1>5, <1>6 DEF CustodyInv, Apart
  <2>2. Apart(tasks, ready)'
    BY <1>0 DEF CustodyInv, Apart
  <2>3. Apart(completed, ready)'
    BY <1>0, <1>5, <1>6 DEF CustodyInv, Apart
  <2> QED
    BY <2>1, <2>2, <2>3
<1> QED
  BY <1>0, <1>1, <1>7, <1>9, <1>10, <1>11 DEF CustodyInv

LEMMA SwapKeepsCustody ==
  ASSUME TypeOK, CustodyInv, SwapCompletions
  PROVE  CustodyInv'
<1>0. /\ UNCHANGED <<conn, tasks, worker>> /\ Busy' = Busy
      /\ ready' = completed /\ completed' = <<>> /\ loop' = "complete"
  BY DEF SwapCompletions, netVars, Busy
<1>1. \A u : Current(u)' <=> Current(u)
  BY <1>0 DEF Current
<1>2. \A i \in 1..Len(completed') : FALSE
  BY <1>0, EmptySeq
<1>3. Orderly(ready)'
  BY <1>0, <1>1 DEF CustodyInv, Orderly, Once, NotBusy
<1>4. Orderly(completed)'
  BY <1>2 DEF Orderly, Once, NotBusy
<1>5. Orderly(tasks)'
  BY <1>0, <1>1 DEF CustodyInv, Orderly, Once, NotBusy
<1>6. Apart(tasks, completed)' /\ Apart(tasks, ready)' /\ Apart(completed, ready)'
  BY <1>0, <1>2 DEF CustodyInv, Apart
<1>7. /\ \A w \in Busy' : Current(worker[w].task)'
      /\ \A v, w \in Busy' : worker'[v].task.conn = worker'[w].task.conn => v = w
  BY <1>0, <1>1 DEF CustodyInv
<1> QED
  BY <1>0, <1>3, <1>4, <1>5, <1>6, <1>7 DEF CustodyInv

\* The first response leaves the local queue; nothing else of its connection is
\* in the pool, so whatever becomes of the connection the rest stays current.
LEMMA PopKeepsCustody ==
  ASSUME TypeOK, CustodyInv, ready # <<>>, ready' = Tail(ready),
         loop' = "complete",
         UNCHANGED <<tasks, completed, worker>>,
         \A c \in Conns \ {Head(ready).conn} : conn'[c] = conn[c]
  PROVE  CustodyInv'
<1> DEFINE t == Head(ready)
<1>0. Busy' = Busy
  BY DEF Busy
<1>1. /\ t = ready[1] /\ 1 \in 1..Len(ready)
      /\ \A i \in 1..Len(ready') : i + 1 \in 1..Len(ready) /\ ready'[i] = ready[i + 1]
  BY Held, TailElements
<1> HIDE DEF t
<1>2. \A u \in Task : u.conn # t.conn /\ Current(u) => Current(u)'
  BY DEF Current, Task, t
<1>3. /\ \A v \in Busy : worker[v].task.conn # t.conn
      /\ \A i \in 1..Len(completed) : completed[i].conn # t.conn
      /\ \A i \in 1..Len(tasks) : tasks[i].conn # t.conn
      /\ \A i \in 1..Len(ready') : ready'[i].conn # t.conn
  BY <1>1 DEF CustodyInv, Orderly, Once, NotBusy, Apart
<1>4. Orderly(tasks)' /\ Orderly(completed)'
  BY <1>0, <1>2, <1>3, Held DEF CustodyInv, Orderly, Once, NotBusy
<1>5. Orderly(ready)'
  <2>1. \A i \in 1..Len(ready') : Current(ready'[i]) /\ ready'[i] \in Task
    BY <1>1, Held DEF CustodyInv, Orderly
  <2>2. \A i \in 1..Len(ready') : Current(ready[i])'
    BY <1>2, <1>3, <2>1
  <2>3. Once(ready)' /\ NotBusy(ready)'
    BY <1>0, <1>1 DEF CustodyInv, Orderly, Once, NotBusy
  <2> QED
    BY <2>2, <2>3 DEF Orderly
<1>6. Apart(tasks, completed)' /\ Apart(tasks, ready)' /\ Apart(completed, ready)'
  BY <1>1 DEF CustodyInv, Apart
<1>7. /\ \A w \in Busy' : Current(worker[w].task)'
      /\ \A v, w \in Busy' : worker'[v].task.conn = worker'[w].task.conn => v = w
  BY <1>0, <1>2, <1>3, Held DEF CustodyInv
<1> QED
  BY <1>4, <1>5, <1>6, <1>7 DEF CustodyInv

-----------------------------------------------------------------------------
(* Every step keeps both.                                                  *)

LoopInv == ServerInv /\ WakeInv /\ PhaseInv /\ CustodyInv

LEMMA InitPhases == Init => PhaseInv /\ CustodyInv
<1> SUFFICES ASSUME Init
             PROVE  PhaseInv /\ CustodyInv
  OBVIOUS
<1>1. \A c \in Conns : conn[c] = NewConnection
  BY DEF Init
<1>2. Live = {}
  BY <1>1 DEF Live, NewConnection
<1>3. PhaseInv
  <2>1. Registered
    BY <1>1 DEF Init, Registered, NewConnection
  <2>2. NewcomersUnserved
    BY <1>1 DEF NewcomersUnserved, Unserved, NewConnection
  <2>3. OneShot /\ \A f \in Fds : Unwatched(f)
    BY DEF Init, OneShot, Unwatched
  <2> QED
    BY <1>2, <2>1, <2>2, <2>3 DEF PhaseInv
<1>4. CustodyInv
  <2>1. tasks = <<>> /\ completed = <<>> /\ ready = <<>>
    BY DEF Init
  <2>2. Busy = {}
    BY DEF Init, Busy, Idle
  <2> QED
    BY <2>1, <2>2, EmptySeq DEF CustodyInv, Orderly, Once, NotBusy, Apart
<1> QED
  BY <1>3, <1>4

LEMMA NotSocket == ~SocketEvent(WakeEvent) /\ ~SocketEvent(ListenEvent)
<1>1. WakeEvent.kind = "wake" /\ ListenEvent.kind = "listen"
  BY DEF WakeEvent, ListenEvent
<1>2. \A e : SocketEvent(e) => e.kind \in {"in", "out", "hup"}
  BY DEF SocketEvent
<1> QED
  BY <1>1, <1>2

\* What clients and the clock do to a connection object.
LEMMA EnvironmentIsAlike ==
  ASSUME TypeOK, PhaseInv, Environment
  PROVE  /\ \A c \in Conns : /\ Alike(conn[c], conn'[c])
                                \/ Elsewhere(conn[c], conn'[c])
                             /\ Steady(conn[c], conn'[c])
         /\ UNCHANGED <<connections, interest, batch, loop, ready, tasks, worker,
                        completed>>
<1>0. conn \in [Conns -> Connection]
  BY DEF TypeOK
<1>1. UNCHANGED <<connections, interest, batch, loop, ready, tasks, worker, completed>>
  BY DEF Environment, Connect, Send, Resume, Lapse, Leave, GraceExpires, EnvUnchanged,
         netVars, poolVars
<1>2. \A c \in Conns : conn'[c] = conn[c] =>
         Alike(conn[c], conn'[c]) /\ Steady(conn[c], conn'[c])
  BY DEF Alike, Steady
<1>3. ASSUME NEW c \in Conns, Connect(c)
      PROVE  /\ Elsewhere(conn[c], conn'[c]) /\ Steady(conn[c], conn'[c])
             /\ \A d \in Conns \ {c} : conn'[d] = conn[d]
  <2> DEFINE n == [conn[c] EXCEPT !.stage = "queued"]
  <2>1. /\ conn'[c] = n /\ conn[c].stage = "away"
        /\ \A d \in Conns \ {c} : conn'[d] = conn[d]
    BY <1>0, <1>3 DEF Connect
  <2>2. /\ n.stage = "queued" /\ n.fd = conn[c].fd
        /\ n.processing = conn[c].processing /\ n.handling = conn[c].handling
        /\ n.out = conn[c].out /\ n.buf = conn[c].buf /\ n.parsed = conn[c].parsed
        /\ n.said = conn[c].said
    BY <1>0 DEF Connection
  <2>3. Unserved(conn[c]) /\ conn[c].fd = None
    BY <2>1 DEF PhaseInv, NewcomersUnserved, Registered
  <2> QED
    BY <2>1, <2>2, <2>3 DEF Elsewhere, Unserved, Steady
<1>4. ASSUME NEW c \in Conns, \/ Send(c) \/ Resume(c) \/ Lapse(c)
                              \/ \E how \in {"fin", "rst"} : Leave(c, how)
      PROVE  /\ Alike(conn[c], conn'[c]) /\ Steady(conn[c], conn'[c])
             /\ \A d \in Conns \ {c} : conn'[d] = conn[d]
  <2>1. Alike(conn[c], conn'[c]) /\ \A d \in Conns \ {c} : conn'[d] = conn[d]
    <3>1. CASE Send(c)
      BY <1>0, <3>1 DEF Send, Alike, Connection
    <3>2. CASE Resume(c)
      BY <1>0, <3>2 DEF Resume, Alike, Connection
    <3>3. CASE Lapse(c)
      BY <1>0, <3>3 DEF Lapse, Alike, Connection
    <3>4. CASE \E how \in {"fin", "rst"} : Leave(c, how)
      BY <1>0, <3>4 DEF Leave, Alike, Connection
    <3> QED
      BY <1>4, <3>1, <3>2, <3>3, <3>4
  <2> QED
    BY <2>1 DEF Alike, Steady
<1>5. CASE GraceExpires
  BY <1>1, <1>2, <1>5 DEF GraceExpires, netVars
<1> QED
  BY <1>1, <1>2, <1>3, <1>4, <1>5 DEF Environment

LEMMA SocketKeepsPhases ==
  ASSUME LoopInv, NEW e \in batch, HandleSocket(e)
  PROVE  PhaseInv' /\ CustodyInv'
<1> DEFINE f == e.fd
           c == connections[f]
<1>1. TypeOK /\ ServerInv /\ PhaseInv /\ CustodyInv
  BY DEF LoopInv, ServerInv
<1>2. connections[f] # None
  <2>1. SocketEvent(e)
    BY <1>1 DEF HandleSocket, TypeOK, Event, SocketEvent
  <2> QED
    BY <1>1, <2>1 DEF PhaseInv, Unwatched, SocketEvent
<1>3. /\ f \in Fds /\ c \in Conns
      /\ conn[c].stage = "live" /\ conn[c].fd = f /\ ~conn[c].handling
      /\ EventsHandled(f)
      /\ \E n \in Connection, dir \in {"off", "read", "write"} :
           Touched(f, c, n, dir) /\ Turn(conn[c], n) /\ Queues(f, c, n)
  BY <1>1, <1>2, SocketTurns
<1>4. PICK n \in Connection, dir \in {"off", "read", "write"} :
        Touched(f, c, n, dir) /\ Turn(conn[c], n) /\ Queues(f, c, n)
  BY <1>3
<1>5. PhaseInv'
  BY <1>1, <1>3, <1>4, TouchedKeepsPhases
<1>6. conn'[c] = n /\ \A d \in Conns \ {c} : conn'[d] = conn[d]
  BY <1>1, <1>3, <1>4 DEF Touched, TypeOK
<1> HIDE DEF f, c
<1>7. \A d \in Conns : Steady(conn[d], conn'[d])
  BY <1>3, <1>6 DEF Steady
<1>8. \/ UNCHANGED tasks
      \/ \E t \in Task : /\ tasks' = Append(tasks, t)
                         /\ conn[t.conn].stage = "live" /\ ~conn[t.conn].handling
                         /\ Current(t)'
  <2>1. CASE n.stage = "live" /\ n.handling
    <3> DEFINE t == [fd |-> f, conn |-> c, req |-> n.parsed]
    <3>1. Sound(n)
      <4>1. ServerInv'
        BY <1>1, SocketIsSound
      <4> QED
        BY <1>3, <1>6, <4>1 DEF ServerInv
    <3>2. n.fd = f /\ n.parsed \in 1..MaxReq
      <4>1. n.fd = f
        BY <1>4, <2>1 DEF Touched
      <4>2. n.parsed \in 0..MaxReq /\ n.parsed > 0
        BY <2>1, <3>1 DEF Sound, Connection
      <4> QED
        BY <4>1, <4>2, Constants
    <3>3. PICK u \in Task : /\ u.conn = c /\ u.fd = f /\ u.req = n.parsed
                            /\ tasks' = Append(tasks, u)
      <4>1. t \in Task /\ t.conn = c /\ t.fd = f /\ t.req = n.parsed
        BY <1>3, <3>2 DEF Task
      <4>2. tasks' = Append(tasks, t)
        BY <1>4, <2>1 DEF Queues
      <4> HIDE DEF t
      <4> QED
        BY <4>1, <4>2
    <3> HIDE DEF t
    <3>4. Current(u)'
      BY <1>6, <2>1, <3>2, <3>3 DEF Current
    <3> QED
      BY <1>3, <3>3, <3>4
  <2>2. CASE ~(n.stage = "live" /\ n.handling)
    BY <1>4, <2>2 DEF Queues
  <2> QED
    BY <2>1, <2>2
<1>9. UNCHANGED <<worker, completed, ready, loop>>
  BY DEF HandleSocket
<1> QED
  BY <1>1, <1>5, <1>7, <1>8, <1>9, CustodyKept

\* process_completions says nothing: it moves a connection to its next phase, or
\* closes it when rearm fails.
Settles(k, n) ==
  \/ n = k
  \/ /\ k.stage = "live" /\ n.said = k.said
     /\ \/ n.stage = "closed"
        \/ n.stage = "live" /\ n.processing = k.processing /\ n.parsed = k.parsed

LEMMA CompleteKeepsPhases ==
  ASSUME LoopInv, Complete
  PROVE  /\ PhaseInv' /\ CustodyInv'
         /\ \A d \in Conns : Settles(conn[d], conn'[d])
<1> DEFINE item == Head(ready)
           f == item.fd
           c == item.conn
           k == conn[c]
<1>1. TypeOK /\ ServerInv /\ PhaseInv /\ CustodyInv /\ NetSound
  BY NetOfInv DEF LoopInv, ServerInv
<1>2. UNCHANGED <<batch, tasks, worker, completed>> /\ loop = "complete"
  BY DEF Complete, poolVars
<1>a. ASSUME UNCHANGED netVars
      PROVE  PhaseInv'
  BY <1>1, <1>2, <1>a, UntouchedKeepsPhases DEF netVars, Alike
<1>3. CASE ready = <<>>
  <2>1. PhaseInv' /\ UNCHANGED <<conn, ready>> /\ ready' = <<>>
    BY <1>3, <1>a DEF Complete, netVars
  <2>2. \A d \in Conns : Steady(conn[d], conn'[d]) /\ Settles(conn[d], conn'[d])
    BY <2>1 DEF Steady, Settles
  <2> QED
    BY <1>1, <1>2, <2>1, <2>2, CustodyKept
<1>4. CASE ready # <<>>
  <2>1. /\ ready' = Tail(ready) /\ loop' = "complete"
        /\ \/ /\ StillOwner(item)
              /\ Rearm(f, c, [SetResponse(k, item.req)
                                EXCEPT !.handling = FALSE, !.late = FALSE], "write")
           \/ UNCHANGED netVars
    BY <1>4 DEF Complete
  <2>2. item = ready[1] /\ 1 \in 1..Len(ready)
    BY <1>1, <1>4, Held, TailElements
  <2>3. item \in Task /\ Current(item)
    BY <1>1, <2>2, Held DEF CustodyInv, Orderly
  <2>4. f \in Fds /\ c \in Conns /\ item.req \in 1..MaxReq
    BY <2>3 DEF Task
  <2>5. CASE UNCHANGED netVars
    <3>1. \A d \in Conns \ {c} : conn'[d] = conn[d]
      BY <2>5 DEF netVars
    <3>2. CustodyInv'
      BY <1>1, <1>2, <1>4, <2>1, <3>1, PopKeepsCustody
    <3> QED
      BY <1>a, <2>5, <3>2 DEF netVars, Settles
  <2>6. CASE /\ StillOwner(item)
             /\ Rearm(f, c, [SetResponse(k, item.req)
                               EXCEPT !.handling = FALSE, !.late = FALSE], "write")
    <3>1. connections[f] = c
      BY <2>6 DEF StillOwner
    <3>2. k.stage = "live" /\ k.fd = f
      BY <2>4, <3>1, <1>1, Constants DEF PhaseInv, Registered
    <3>3. k.handling /\ item.req = k.parsed
      BY <2>3, <3>2 DEF Current
    <3>4. Handling(c)
      BY <1>1, <2>4, <3>2, <3>3 DEF PhaseInv, Live, Waiting, Writing
    <3>5. k \in Connection /\ Sound(k)
      BY <1>1, <2>4 DEF NetSound
    <3> DEFINE m == [SetResponse(k, item.req)
                       EXCEPT !.handling = FALSE, !.late = FALSE]
    <3>6. Rearm(f, c, m, "write")
      BY <2>6
    <3> HIDE DEF item, c, f, k
    <3>7. m \in Connection
      <4>1. RespChunks \in 0..RespChunks /\ item.req \in 0..MaxReq
        BY <2>4, Constants
      <4>2. SetResponse(k, item.req) \in Connection
        BY <3>5, <4>1, Update DEF SetResponse
      <4> QED
        BY <4>2, Update
    <3>8. /\ m.stage = k.stage /\ m.fd = k.fd /\ m.processing = k.processing
          /\ m.handling = FALSE /\ m.out = RespChunks /\ m.reply = item.req
          /\ m.parsed = k.parsed /\ m.said = k.said
      BY <3>5 DEF SetResponse, Connection
    <3> HIDE DEF m
    <3>9. Settled(m, "write")
      BY <3>3, <3>4, <3>8, Constants DEF Handling, Settled, k
    <3>10. Touched(f, c, m, "write") \/ Touched(f, c, Closed(m), "off")
      BY <1>1, <2>4, <3>1, <3>2, <3>6, <3>7, <3>8, <3>9, RearmTouches
    <3>11. Closed(m) \in Connection
      <4>1. /\ NewConnection \in Connection /\ m.parsed \in 0..MaxReq
            /\ m.said \in Seq(Said)
        BY <3>7, NewIsSound DEF Sound, Connection
      <4> QED
        BY <4>1, Update DEF Closed
    <3>12. EventsHandled(f)
      BY <1>2, <2>4, <3>2, <3>4 DEF EventsHandled, Handling, Unwatched, SocketEvent, k
    <3>13. PhaseInv'
      BY <1>1, <2>4, <3>1, <3>7, <3>10, <3>11, <3>12, TouchedKeepsPhases
    <3>14. \A d \in Conns \ {c} : conn'[d] = conn[d]
      BY <1>1, <3>10 DEF Touched, TypeOK
    <3>15. CustodyInv'
      BY <1>1, <1>2, <1>4, <2>1, <3>14, PopKeepsCustody DEF c, item
    <3>16. Settles(k, conn'[c])
      <4>1. /\ Closed(m).stage = "closed" /\ Closed(m).said = k.said
        BY <3>7, <3>8, ClosedFields
      <4>2. conn'[c] = m \/ conn'[c] = Closed(m)
        BY <1>1, <2>4, <3>10 DEF Touched, TypeOK
      <4> QED
        BY <3>2, <3>8, <4>1, <4>2 DEF Settles
    <3>17. \A d \in Conns : Settles(conn[d], conn'[d])
      BY <3>14, <3>16 DEF Settles, k
    <3> QED
      BY <3>13, <3>15, <3>17
  <2> QED
    BY <2>1, <2>5, <2>6
<1> QED
  BY <1>3, <1>4

\* Handlers that touch no connection.
LEMMA QuietStep ==
  ASSUME LoopInv, UNCHANGED <<conn, connections, interest>>,
         \A e : SocketEvent(e) => (e \in batch' <=> e \in batch)
  PROVE  PhaseInv' /\ \A c \in Conns : Steady(conn[c], conn'[c])
<1>1. \A c \in Conns : Alike(conn[c], conn'[c]) /\ Steady(conn[c], conn'[c])
  BY DEF Alike, Steady
<1> QED
  BY <1>1, UntouchedKeepsPhases DEF LoopInv, ServerInv

LEMMA AcceptKeepsPhases ==
  ASSUME LoopInv, NEW c \in Conns, NEW f \in Fds, Accept(c, f)
  PROVE  PhaseInv' /\ \A d \in Conns : Steady(conn[d], conn'[d])
<1> DEFINE k == conn[c]
           n == [k EXCEPT !.stage = "live", !.fd = f]
<1>1. /\ TypeOK /\ PhaseInv /\ conn \in [Conns -> Connection]
      /\ connections \in [Fds -> Conns \cup {None}]
      /\ interest \in [Fds -> {"off", "read", "write"}]
  BY DEF LoopInv, ServerInv, TypeOK
<1>2. k.stage = "queued" /\ k \in Connection /\ connections[f] = None
      /\ UNCHANGED batch
  BY <1>1 DEF Accept, Queued, FreeFds
<1>3. Unserved(k)
  BY <1>1, <1>2 DEF PhaseInv, NewcomersUnserved
<1>4. \A d \in Conns \ {c} : conn'[d] = conn[d]
  BY <1>1 DEF Accept
<1>5. \A d \in Conns : Steady(conn[d], conn'[d])
  BY <1>2, <1>4 DEF Steady
<1>6. CASE /\ conn' = [conn EXCEPT ![c].stage = "live", ![c].fd = f]
           /\ connections' = [connections EXCEPT ![f] = c]
           /\ interest' = [interest EXCEPT ![f] = "read"]
  <2>1. n \in Connection
    BY <1>2, Update
  <2>2. conn' = [conn EXCEPT ![c] = n]
    BY <1>1, <1>6
  <2>3. /\ n.stage = "live" /\ n.fd = f /\ n.processing = k.processing
        /\ n.handling = k.handling /\ n.out = k.out /\ n.buf = k.buf
    BY <1>2 DEF Connection
  <2> HIDE DEF n
  <2>4. Settled(n, "read")
    BY <1>3, <2>3, Constants DEF Settled, Unserved
  <2>5. Touched(f, c, n, "read")
    BY <1>6, <2>2, <2>3, <2>4 DEF Touched
  <2>6. EventsHandled(f)
    BY <1>1, <1>2 DEF EventsHandled, PhaseInv, Unwatched, SocketEvent
  <2> QED
    BY <1>1, <1>2, <1>5, <2>1, <2>5, <2>6, TouchedKeepsPhases
<1>7. CASE conn' = [conn EXCEPT ![c] = Closed(conn[c])]
           /\ UNCHANGED <<connections, interest>>
  <2>1. Elsewhere(k, conn'[c])
    BY <1>1, <1>2, <1>7, ClosedFields DEF Elsewhere
  <2>2. \A d \in Conns : Alike(conn[d], conn'[d]) \/ Elsewhere(conn[d], conn'[d])
    BY <1>4, <2>1 DEF Alike
  <2> QED
    BY <1>1, <1>2, <1>5, <1>7, <2>2, UntouchedKeepsPhases
<1> QED
  BY <1>6, <1>7 DEF Accept

LEMMA StopKeepsPhases ==
  ASSUME LoopInv, StopAccepting, UNCHANGED batch
  PROVE  PhaseInv' /\ \A d \in Conns : Steady(conn[d], conn'[d])
<1>1. TypeOK /\ PhaseInv /\ conn \in [Conns -> Connection]
  BY DEF LoopInv, ServerInv, TypeOK
<1>2. \A c \in Conns : IF conn[c].stage = "queued" THEN conn'[c] = Closed(conn[c])
                                                  ELSE conn'[c] = conn[c]
  BY DEF StopAccepting, Queued
<1>3. \A c \in Conns : Alike(conn[c], conn'[c]) \/ Elsewhere(conn[c], conn'[c])
  <2>1. ASSUME NEW c \in Conns, conn[c].stage = "queued"
        PROVE  Elsewhere(conn[c], conn'[c])
    <3>1. conn'[c] = Closed(conn[c]) /\ conn[c] \in Connection
      BY <1>1, <1>2, <2>1
    <3>2. /\ Closed(conn[c]).stage = "closed" /\ Closed(conn[c]).fd = None
          /\ Closed(conn[c]).said = conn[c].said
      BY <3>1, ClosedFields
    <3> QED
      BY <2>1, <3>1, <3>2 DEF Elsewhere
  <2>2. ASSUME NEW c \in Conns, conn[c].stage # "queued"
        PROVE  Alike(conn[c], conn'[c])
    BY <1>2, <2>2 DEF Alike
  <2> QED
    BY <2>1, <2>2
<1>4. \A c \in Conns : Steady(conn[c], conn'[c])
  BY <1>2 DEF Steady
<1> QED
  BY <1>1, <1>3, <1>4, UntouchedKeepsPhases DEF StopAccepting

LEMMA HangUpIsSteady ==
  ASSUME TypeOK, NEW cs \in SUBSET Live, NEW last,
         \A c \in Conns : last[c] \in Connection, DropAll(cs, last)
  PROVE  \A d \in Conns : Steady(conn[d], conn'[d])
BY ClosedFields DEF DropAll, Steady

LEMMA LoopKeepsPhases == LoopInv /\ EventLoop => PhaseInv' /\ CustodyInv'
<1> SUFFICES ASSUME LoopInv, EventLoop
             PROVE  PhaseInv' /\ CustodyInv'
  OBVIOUS
<1>0. /\ TypeOK /\ ServerInv /\ PhaseInv /\ CustodyInv /\ NetSound
      /\ loop \in {"wait", "sweep", "check", "teardown", "done"} => batch = {}
  BY NetOfInv DEF LoopInv, ServerInv, WakeInv
\* Most handlers change nothing in the pool.
<1>a. ASSUME \A c \in Conns : Steady(conn[c], conn'[c]),
             UNCHANGED <<tasks, worker, completed, ready>>, loop # "complete"
      PROVE  CustodyInv'
  BY <1>0, <1>a, CustodyKept
<1> USE DEF poolVars
<1>1. CASE EpollWait
  <2>1. PhaseInv' /\ UNCHANGED conn
    BY <1>0, <1>1, EpollKeepsPhases DEF EpollWait
  <2>2. \A c \in Conns : Steady(conn[c], conn'[c])
    BY <2>1 DEF Steady
  <2> QED
    BY <1>1, <1>a, <2>1, <2>2 DEF EpollWait
<1>2. ASSUME NEW e \in batch, HandleSocket(e)
      PROVE  PhaseInv' /\ CustodyInv'
  BY <1>2, SocketKeepsPhases
<1>3. CASE HandleWake \/ HandleListen \/ DrainWakeup \/ AcceptFails \/ SkipSweep
           \/ EndIteration
  <2>1. /\ UNCHANGED <<conn, connections, interest>>
        /\ \A e : SocketEvent(e) => (e \in batch' <=> e \in batch)
        /\ UNCHANGED <<tasks, worker, completed, ready>> /\ loop # "complete"
    BY <1>3, NotSocket DEF HandleWake, HandleListen, DrainWakeup, AcceptFails,
                           SkipSweep, EndIteration, netVars
  <2> QED
    BY <1>a, <2>1, QuietStep
<1>4. CASE SwapCompletions
  <2>1. UNCHANGED <<conn, connections, interest, batch>>
    BY <1>4 DEF SwapCompletions, netVars
  <2> QED
    BY <1>0, <1>4, <2>1, QuietStep, SwapKeepsCustody
<1>5. CASE Complete
  BY <1>5, CompleteKeepsPhases
<1>6. ASSUME NEW c \in Conns, NEW f \in Fds, Accept(c, f)
      PROVE  PhaseInv' /\ CustodyInv'
  <2>1. UNCHANGED <<tasks, worker, completed, ready>> /\ loop # "complete"
    BY <1>6 DEF Accept
  <2> QED
    BY <1>6, <1>a, <2>1, AcceptKeepsPhases
<1>7. CASE ObserveStop
  <2>1. UNCHANGED <<tasks, worker, completed, ready, batch>> /\ loop # "complete"
    BY <1>7 DEF ObserveStop
  <2>2. CASE StopAccepting
    BY <1>a, <2>1, <2>2, StopKeepsPhases
  <2>3. CASE UNCHANGED netVars
    BY <1>a, <2>1, <2>3, QuietStep DEF netVars
  <2> QED
    BY <1>7, <2>2, <2>3 DEF ObserveStop
<1>8. CASE Sweep
  <2> DEFINE last == [c \in Conns |-> TimedOut(conn[c])]
  <2>1. /\ UNCHANGED <<tasks, worker, completed, ready, batch>> /\ loop = "sweep"
        /\ DropAll(Expired, last)
    BY <1>8 DEF Sweep
  <2>2. Expired \in SUBSET Live /\ \A c \in Conns : last[c] \in Connection
    BY <1>0, TimedOutIsSound DEF Expired, Live, NetSound, Sound
  <2> HIDE DEF last
  <2> QED
    BY <1>0, <1>a, <2>1, <2>2, HangUpKeepsPhases, HangUpIsSteady
<1>9. CASE Teardown
  <2>1. /\ UNCHANGED <<tasks, worker, completed, ready, batch>> /\ loop = "teardown"
        /\ DropAll(Live, conn)
    BY <1>9 DEF Teardown
  <2>2. Live \in SUBSET Live /\ \A c \in Conns : conn[c] \in Connection
    BY <1>0 DEF TypeOK
  <2> QED
    BY <1>0, <1>a, <2>1, <2>2, HangUpKeepsPhases, HangUpIsSteady
<1> QED
  BY <1>1, <1>2, <1>3, <1>4, <1>5, <1>6, <1>7, <1>8, <1>9 DEF EventLoop

LEMMA WorkerKeepsPhases ==
  ASSUME LoopInv, NEW w \in Workers, Worker(w)
  PROVE  PhaseInv' /\ CustodyInv'
<1>0. /\ TypeOK /\ ServerInv /\ PhaseInv /\ CustodyInv
  BY DEF LoopInv, ServerInv
<1>1. /\ UNCHANGED <<conn, connections, interest, batch, loop, ready>>
  BY DEF Worker, TakeTask, RunHandler, PushCompletion, Notify, Release, ExitWorker,
         WorkerUnchanged, netVars
<1>2. PhaseInv'
  BY <1>1, QuietStep
<1>3. CASE TakeTask(w)
  BY <1>0, <1>2, <1>3, TakeKeepsCustody
<1>4. CASE PushCompletion(w)
  BY <1>0, <1>2, <1>4, PushKeepsCustody
<1>5. CASE RunHandler(w)
  <2>1. PICK p \in {"push", "release", "hung"} :
          worker' = [worker EXCEPT ![w].pc = p]
    BY <1>5 DEF RunHandler
  <2>2. worker[w].pc = "handler" /\ worker[w] \in WorkerState
    BY <1>5, Held, <1>0 DEF RunHandler
  <2>3. /\ worker'[w].task = worker[w].task
        /\ \A v \in Workers \ {w} : worker'[v] = worker[v]
    <3>1. worker'[w] = [worker[w] EXCEPT !.pc = p]
      BY <1>0, <2>1, Held
    <3>2. worker[w] \in [pc : {"handler", "push", "notify", "release", "hung"},
                         task : Task]
      BY <2>2 DEF WorkerState, Idle, Exited
    <3> QED
      BY <1>0, <2>1, <3>1, <3>2, Held
  <2>4. Busy' \subseteq Busy
    BY <2>2, <2>3 DEF Busy
  <2>5. \A v \in Busy' : worker'[v].task = worker[v].task
    BY <2>3 DEF Busy
  <2> QED
    BY <1>0, <1>1, <1>2, <1>5, <2>4, <2>5, BusyKept DEF RunHandler
<1>6. CASE Notify(w) \/ Release(w) \/ ExitWorker(w)
  <2>1. worker'[w].pc \notin {"handler", "push", "hung"}
    <3>1. CASE Notify(w)
      <4>1. worker'[w] = [worker[w] EXCEPT !.pc = "release"]
        BY <1>0, <3>1, Held DEF Notify
      <4>2. worker[w].pc = "notify" /\ worker[w] \in WorkerState
        BY <1>0, <3>1, Held DEF Notify
      <4> QED
        BY <4>1, <4>2, WithTask
    <3>2. CASE Release(w) \/ ExitWorker(w)
      BY <1>0, <3>2, Held DEF Release, ExitWorker
    <3> QED
      BY <1>6, <3>1, <3>2
  <2>2. \A v \in Workers \ {w} : worker'[v] = worker[v]
    BY <1>0, <1>6, Held DEF Notify, Release, ExitWorker
  <2>3. Busy' \subseteq Busy /\ \A v \in Busy' : worker'[v].task = worker[v].task
    BY <2>1, <2>2 DEF Busy
  <2> QED
    BY <1>0, <1>1, <1>2, <1>6, <2>3, BusyKept DEF Notify, Release, ExitWorker
<1> QED
  BY <1>3, <1>4, <1>5, <1>6 DEF Worker

LEMMA NextPhases == LoopInv /\ [Next]_vars => PhaseInv' /\ CustodyInv'
<1> SUFFICES ASSUME LoopInv, [Next]_vars
             PROVE  PhaseInv' /\ CustodyInv'
  OBVIOUS
<1>0. TypeOK /\ ServerInv /\ PhaseInv /\ CustodyInv
  BY DEF LoopInv, ServerInv
<1>1. CASE Environment
  BY <1>0, <1>1, EnvironmentIsAlike, UntouchedKeepsPhases, CustodyKept
<1>2. CASE Owner \/ Terminated \/ UNCHANGED vars
  <2>1. UNCHANGED <<conn, connections, interest, batch, loop, ready, tasks, worker,
                    completed>>
    BY <1>2 DEF Owner, RequestStop, NotifyStop, ShutdownPool, ClosePipe, Terminated,
                OwnerUnchanged, vars, netVars, poolVars
  <2> QED
    BY <1>0, <2>1, QuietStep, CustodyKept
<1> QED
  BY <1>1, <1>2, LoopKeepsPhases, WorkerKeepsPhases DEF Next

LEMMA LoopInvariance == Spec => []LoopInv
<1>1. Init => LoopInv
  BY InitServerInv, InitWakeInv, InitPhases DEF LoopInv
<1>2. LoopInv /\ [Next]_vars => LoopInv'
  BY NextServerInv, NextWakeInv, NextPhases DEF LoopInv, ServerInv
<1> QED
  BY <1>1, <1>2, PTL DEF Spec

\* Every live connection is registered under its descriptor, in one phase, and
\* watched for what ends the phase; a descriptor of nobody is not watched.
THEOREM NobodyIsStranded == Spec => []NoStrandedConnection
<1>1. LoopInv => NoStrandedConnection
  BY DEF LoopInv, PhaseInv, Registered, Live, NoStrandedConnection
<1> QED
  BY <1>1, LoopInvariance, PTL

\* A request dispatched to the pool is in one place of it, alone of its
\* connection, and the connection, if it is still there, waits for it and for no
\* other: what process_completions gives a connection is the answer to its
\* request, also when descriptors are reused.
THEOREM OneRequestInThePool == Spec => []CustodyInv
BY LoopInvariance, PTL DEF LoopInv

-----------------------------------------------------------------------------
(* The story of a step: what clients are told, and by which handler.       *)

\* Nothing is said: the connection is where it was, arrives, or closes.
Hushed(k, n) ==
  /\ n.said = k.said
  /\ \/ n.stage = "closed"
     \/ {n.stage, k.stage} \subseteq {"away", "queued"}
     \/ n.stage = "live" /\ k.stage = "live"
        /\ n.processing = k.processing /\ n.parsed = k.parsed

\* accept(): the client's turn begins.
Welcomed(k, n) ==
  /\ k.stage = "queued" /\ n.stage = "live" /\ ~n.processing
  /\ n.parsed = 0 /\ n.said = <<>> /\ k.said = <<>>

\* enforce_timeouts closes with a 504, or a 408, which no response precedes.
Answer(k) ==
  [req |-> k.parsed + (IF k.processing THEN 0 ELSE 1), kind |-> "timeout"]

GivenUp(k, n) ==
  /\ k.stage = "live" /\ n.stage = "closed" /\ k.out = 0
  /\ n.said = Append(k.said, Answer(k))

Story ==
  \/ \A c \in Conns : Hushed(conn[c], conn'[c])
  \/ \E c \in Conns : /\ Welcomed(conn[c], conn'[c])
                      /\ \A d \in Conns \ {c} : conn'[d] = conn[d]
  \/ \E c \in Conns : /\ conn[c].stage = "live" /\ conn'[c].stage \in {"live", "closed"}
                      /\ Turn(conn[c], conn'[c])
                      /\ \A d \in Conns \ {c} : conn'[d] = conn[d]
  \/ \A c \in Conns : Hushed(conn[c], conn'[c]) \/ GivenUp(conn[c], conn'[c])

LEMMA SameIsHushed ==
  ASSUME NEW k \in Connection
  PROVE  Hushed(k, k)
BY DEF Hushed, Connection

LEMMA ClosedIsHushed ==
  ASSUME NEW k \in Connection
  PROVE  Hushed(k, Closed(k))
BY ClosedFields DEF Hushed

LEMMA SweepStory ==
  ASSUME LoopInv, Sweep
  PROVE  \A c \in Conns : Hushed(conn[c], conn'[c]) \/ GivenUp(conn[c], conn'[c])
<1> SUFFICES ASSUME NEW c \in Conns
             PROVE  Hushed(conn[c], conn'[c]) \/ GivenUp(conn[c], conn'[c])
  OBVIOUS
<1> DEFINE k == conn[c]
           last == [d \in Conns |-> TimedOut(conn[d])]
<1>1. k \in Connection /\ TimedOut(k) \in Connection
  BY TimedOutIsSound DEF LoopInv, ServerInv, TypeOK, Sound
<1>2. IF c \in Expired THEN conn'[c] = Closed(TimedOut(k)) ELSE conn'[c] = k
  BY DEF Sweep, DropAll
<1>3. CASE c \notin Expired
  BY <1>1, <1>2, <1>3, SameIsHushed
<1>4. CASE c \in Expired
  <2>1. /\ conn'[c].stage = "closed" /\ conn'[c].said = TimedOut(k).said
        /\ k.stage = "live"
    BY <1>1, <1>2, <1>4, ClosedFields DEF Expired
  <2>2. /\ InPhase(c)
        /\ k.handling \/ k.out > 0 \/ ~k.processing
    BY <1>4 DEF LoopInv, PhaseInv, Expired, Live, InPhase
  <2>3. CASE k.handling \/ (k.out = 0 /\ k.buf > 0)
    <3> DEFINE r == k.parsed + (IF k.handling THEN 0 ELSE 1)
               s == [req |-> r, kind |-> "timeout"]
               m == [k EXCEPT !.said = Append(@, s)]
    <3>1. k.out = 0 /\ (k.processing <=> k.handling)
      BY <2>2, <2>3 DEF InPhase, Waiting, Handling, Writing
    <3>2. s = Answer(k)
      <4>1. CASE k.handling
        BY <3>1, <4>1 DEF Answer
      <4>2. CASE ~k.handling
        BY <3>1, <4>2 DEF Answer
      <4> QED
        BY <4>1, <4>2
    <3>3. TimedOut(k) = m
      BY <2>3 DEF TimedOut
    <3> HIDE DEF s, k
    <3>4. m.said = Append(k.said, s)
      BY <1>1 DEF Connection
    <3> QED
      BY <2>1, <3>1, <3>2, <3>3, <3>4 DEF GivenUp, k
  <2>4. CASE ~(k.handling \/ (k.out = 0 /\ k.buf > 0))
    BY <2>1, <2>4 DEF TimedOut, Hushed
  <2> QED
    BY <2>3, <2>4
<1> QED
  BY <1>3, <1>4

LEMMA LoopStory == LoopInv /\ EventLoop => Story
<1> SUFFICES ASSUME LoopInv, EventLoop
             PROVE  Story
  OBVIOUS
<1>0. /\ TypeOK /\ ServerInv /\ PhaseInv
      /\ conn \in [Conns -> Connection] /\ \A c \in Conns : conn[c] \in Connection
  BY DEF LoopInv, ServerInv, TypeOK
<1>1. CASE UNCHANGED conn
  BY <1>0, <1>1, SameIsHushed DEF Story
<1>2. ASSUME NEW e \in batch, HandleSocket(e)
      PROVE  Story
  <2>1. CASE connections[e.fd] = None
    BY <1>1, <1>2, <2>1 DEF HandleSocket, netVars
  <2>2. CASE connections[e.fd] # None
    <3> DEFINE f == e.fd
    <3>1. PICK c \in Conns : c = connections[f]
      BY <1>0, <1>2, <2>2, SocketTurns
    <3>2. /\ f \in Fds /\ conn[c].stage = "live"
          /\ \E n \in Connection, dir \in {"off", "read", "write"} :
               Touched(f, c, n, dir) /\ Turn(conn[c], n)
      BY <1>0, <1>2, <2>2, <3>1, SocketTurns
    <3>3. PICK n \in Connection, dir \in {"off", "read", "write"} :
            Touched(f, c, n, dir) /\ Turn(conn[c], n)
      BY <3>2
    <3>4. /\ conn'[c] = n /\ n.stage \in {"live", "closed"}
          /\ \A d \in Conns \ {c} : conn'[d] = conn[d]
      BY <1>0, <3>3 DEF Touched
    <3> QED
      BY <3>2, <3>3, <3>4 DEF Story
  <2> QED
    BY <2>1, <2>2
<1>3. CASE Complete
  <2>1. \A c \in Conns : Settles(conn[c], conn'[c])
    BY <1>3, CompleteKeepsPhases
  <2>2. \A c \in Conns : Hushed(conn[c], conn'[c])
    BY <1>0, <2>1, SameIsHushed DEF Settles, Hushed
  <2> QED
    BY <2>2 DEF Story
<1>4. ASSUME NEW c \in Conns, NEW f \in Fds, Accept(c, f)
      PROVE  Story
  <2>1. conn[c].stage = "queued" /\ Unserved(conn[c])
    BY <1>0, <1>4 DEF Accept, Queued, PhaseInv, NewcomersUnserved
  <2>2. \A d \in Conns \ {c} : conn'[d] = conn[d]
    BY <1>0, <1>4 DEF Accept
  <2>3. CASE conn' = [conn EXCEPT ![c].stage = "live", ![c].fd = f]
    <3> DEFINE n == [conn[c] EXCEPT !.stage = "live", !.fd = f]
    <3>1. conn'[c] = n
      BY <1>0, <2>3
    <3>2. /\ n.stage = "live" /\ n.processing = conn[c].processing
          /\ n.parsed = conn[c].parsed /\ n.said = conn[c].said
      BY <1>0 DEF Connection
    <3> HIDE DEF n
    <3>3. Welcomed(conn[c], conn'[c])
      BY <2>1, <3>1, <3>2 DEF Welcomed, Unserved
    <3> QED
      BY <2>2, <3>3 DEF Story
  <2>4. CASE conn' = [conn EXCEPT ![c] = Closed(conn[c])]
    <3>1. Hushed(conn[c], conn'[c])
      BY <1>0, <2>4, ClosedFields DEF Hushed
    <3>2. \A d \in Conns : Hushed(conn[d], conn'[d])
      BY <1>0, <2>2, <3>1, SameIsHushed
    <3> QED
      BY <3>2 DEF Story
  <2> QED
    BY <1>4, <2>3, <2>4 DEF Accept
<1>5. CASE ObserveStop
  <2>1. CASE UNCHANGED netVars
    BY <1>1, <2>1 DEF netVars
  <2>2. CASE StopAccepting
    <3>1. \A c \in Conns : conn'[c] = Closed(conn[c]) \/ conn'[c] = conn[c]
      BY <2>2 DEF StopAccepting
    <3>2. \A c \in Conns : Hushed(conn[c], conn'[c])
      BY <1>0, <3>1, SameIsHushed, ClosedIsHushed
    <3> QED
      BY <3>2 DEF Story
  <2> QED
    BY <1>5, <2>1, <2>2 DEF ObserveStop
<1>6. CASE Sweep
  BY <1>6, SweepStory DEF Story
<1>7. CASE Teardown
  <2>1. \A c \in Conns : conn'[c] = Closed(conn[c]) \/ conn'[c] = conn[c]
    BY <1>7 DEF Teardown, DropAll
  <2>2. \A c \in Conns : Hushed(conn[c], conn'[c])
    BY <1>0, <2>1, SameIsHushed, ClosedIsHushed
  <2> QED
    BY <2>2 DEF Story
<1>8. CASE \/ EpollWait \/ HandleWake \/ HandleListen \/ DrainWakeup
           \/ SwapCompletions \/ AcceptFails \/ SkipSweep \/ EndIteration
  BY <1>1, <1>8 DEF EpollWait, HandleWake, HandleListen, DrainWakeup, SwapCompletions,
                    AcceptFails, SkipSweep, EndIteration, netVars
<1> QED
  BY <1>2, <1>3, <1>4, <1>5, <1>6, <1>7, <1>8 DEF EventLoop

LEMMA StepStory == LoopInv /\ [Next]_vars => Story
<1> SUFFICES ASSUME LoopInv, [Next]_vars
             PROVE  Story
  OBVIOUS
<1>0. TypeOK /\ PhaseInv /\ \A c \in Conns : conn[c] \in Connection
  BY DEF LoopInv, ServerInv, TypeOK
<1>1. CASE Environment
  <2>1. \A c \in Conns : Alike(conn[c], conn'[c]) \/ Elsewhere(conn[c], conn'[c])
    BY <1>0, <1>1, EnvironmentIsAlike
  <2>2. ASSUME NEW c \in Conns
        PROVE  Hushed(conn[c], conn'[c])
    <3>1. conn[c].stage \in {"away", "queued", "live", "closed"}
      BY <1>0 DEF Connection
    <3>2. CASE Alike(conn[c], conn'[c])
      BY <3>1, <3>2 DEF Alike, Hushed
    <3>3. CASE Elsewhere(conn[c], conn'[c])
      <4>1. conn'[c].stage \in {"away", "queued", "live", "closed"}
        <5>1. ServerInv'
          BY <1>1, EnvironmentIsSound DEF LoopInv
        <5> QED
          BY <5>1 DEF ServerInv, Sound, Connection
      <4> QED
        BY <3>3, <4>1 DEF Elsewhere, Hushed
    <3> QED
      BY <2>1, <3>2, <3>3
  <2> QED
    BY <2>2 DEF Story
<1>2. CASE (\E w \in Workers : Worker(w)) \/ Owner \/ Terminated \/ UNCHANGED vars
  <2>1. UNCHANGED conn
    BY <1>2 DEF Worker, TakeTask, RunHandler, PushCompletion, Notify, Release,
                ExitWorker, WorkerUnchanged, Owner, RequestStop, NotifyStop,
                ShutdownPool, ClosePipe, OwnerUnchanged, Terminated, vars, netVars
  <2> QED
    BY <1>0, <2>1, SameIsHushed DEF Story
<1> QED
  BY <1>1, <1>2, LoopStory DEF Next

\* A 408 or a 504 never goes out with a byte of a response pending.
THEOREM NoTimeoutCutsReply == Spec => NoTimeoutInsideReply
<1> DEFINE Speaks(c) ==
      /\ Len(conn'[c].said) > Len(conn[c].said)
      /\ conn'[c].said[Len(conn'[c].said)].kind = "timeout"
<1>1. ASSUME LoopInv, Story, NEW c \in Conns, Speaks(c)
      PROVE  conn[c].out = 0
  <2> DEFINE k == conn[c]
             n == conn'[c]
  <2>0. k.said \in Seq(Said) /\ Len(k.said) \in Nat
    <3>1. k.said \in Seq(Said)
      BY <1>1 DEF LoopInv, ServerInv, TypeOK, Connection
    <3> QED
      BY <3>1, LenProperties
  <2>1. ASSUME NEW q \in Seq(Said), NEW s, n.said = Append(q, s)
        PROVE  s.kind = "timeout"
    <3>1. n.said[Len(n.said)] = s
      BY <2>1
    <3> QED
      BY <1>1, <3>1
  <2>2. n.said # k.said
    BY <1>1, <2>0
  <2>3. ~Hushed(k, n) /\ ~Welcomed(k, n) /\ n # k
    BY <2>2 DEF Hushed, Welcomed
  <2>4. ~Turn(k, n)
    <3>1. ASSUME NEW q \in Seq(Said), NEW p, Moves(q, p, n)
          PROVE  n.said = q
      BY <2>1, <3>1 DEF Moves, Interim
    <3>2. CASE ~k.processing /\ Moves(k.said, k.parsed, n)
      BY <2>0, <2>2, <3>1, <3>2
    <3>3. CASE /\ k.out > 0 /\ k.reply = k.parsed
               /\ \/ n.said = Append(k.said, Reply(k))
                  \/ Moves(Append(k.said, Reply(k)), k.parsed, n)
      <4>1. Reply(k) \in Said
        <5>1. Sound(k) /\ k.reply \in 0..MaxReq /\ k.reply > 0
          BY <1>1, <3>3 DEF LoopInv, ServerInv, Sound, Connection
        <5> QED
          BY <5>1, Constants DEF Reply, Said
      <4>2. Append(k.said, Reply(k)) \in Seq(Said)
        BY <2>0, <4>1, AppendProperties
      <4>3. n.said = Append(k.said, Reply(k))
        BY <3>1, <3>3, <4>2
      <4> QED
        BY <2>0, <2>1, <4>3 DEF Reply
    <3> QED
      BY <2>2, <3>2, <3>3 DEF Turn
  <2> QED
    BY <1>1, <2>3, <2>4 DEF Story, GivenUp
<1>2. LoopInv /\ [Next]_vars =>
        [\A c \in Conns : Speaks(c) => conn[c].out = 0]_vars
  BY <1>1, StepStory
<1> QED
  BY <1>2, LoopInvariance, PTL DEF Spec, NoTimeoutInsideReply

\* A drain that ends before its grace abandons no request.
THEOREM DrainIsClean == Spec => CleanDrain
<1> DEFINE Left == loop = "check" /\ loop' = "teardown" /\ ~graceOver
<1>1. ASSUME LoopInv, [Next]_vars, Left
      PROVE  \A x \in Custody : conn[x[3].conn].stage # "live"
  <2>1. ~WorkInFlight
    <3>1. CASE EventLoop
      <4>1. EndIteration
        BY <1>1, <3>1 DEF EventLoop, EpollWait, HandleSocket, HandleWake, DrainWakeup,
                          SwapCompletions, Complete, HandleListen, Accept, AcceptFails,
                          ObserveStop, SkipSweep, Sweep, Teardown
      <4> QED
        BY <1>1, <4>1 DEF EndIteration
    <3>2. CASE Environment
      BY <1>1, <3>2 DEF Environment, Connect, Send, Resume, Lapse, Leave, GraceExpires,
                        EnvUnchanged
    <3>3. CASE (\E w \in Workers : Worker(w)) \/ Owner \/ Terminated \/ UNCHANGED vars
      BY <1>1, <3>3 DEF Worker, WorkerUnchanged, TakeTask, RunHandler, PushCompletion,
                        Notify, Release, ExitWorker, Owner, OwnerUnchanged, RequestStop,
                        NotifyStop, ShutdownPool, ClosePipe, Terminated, vars
    <3> QED
      BY <1>1, <3>1, <3>2, <3>3 DEF Next
  <2>2. ASSUME NEW t, Current(t), t.conn \in Conns
        PROVE  conn[t.conn].stage # "live"
    <3>1. CASE conn[t.conn].stage = "live"
      <4>1. conn[t.conn].handling /\ t.conn \in Live
        BY <2>2, <3>1 DEF Current, Live
      <4>2. conn[t.conn].processing
        BY <1>1, <4>1 DEF LoopInv, PhaseInv, Waiting, Handling, Writing
      <4> QED
        BY <2>1, <4>1, <4>2 DEF WorkInFlight
    <3> QED
      BY <3>1
  <2>3. /\ TypeOK /\ CustodyInv
        /\ tasks \in Seq(Task) /\ completed \in Seq(Task) /\ ready \in Seq(Task)
    <3>1. TypeOK /\ CustodyInv
      BY <1>1 DEF LoopInv, ServerInv
    <3> QED
      BY <3>1, Held
  <2>4. ASSUME NEW q \in Seq(Task), Orderly(q), NEW i \in 1..Len(q)
        PROVE  conn[q[i].conn].stage # "live"
    <3>1. q[i] \in Task /\ Current(q[i])
      BY <2>4, ElementOfSeq DEF Orderly
    <3> QED
      BY <2>2, <3>1 DEF Task
  <2>5. ASSUME NEW w \in Busy
        PROVE  conn[worker[w].task.conn].stage # "live"
    <3>1. worker[w].task \in Task
      BY <2>3, <2>5, Held
    <3>2. Current(worker[w].task)
      BY <2>3, <2>5 DEF CustodyInv
    <3> QED
      BY <2>2, <3>1, <3>2 DEF Task
  <2> SUFFICES ASSUME NEW x \in Custody
               PROVE  conn[x[3].conn].stage # "live"
    OBVIOUS
  <2>6. \/ \E i \in 1..Len(tasks) : x = <<"tasks", i, tasks[i]>>
        \/ \E w \in Busy : x = <<"worker", w, worker[w].task>>
        \/ \E i \in 1..Len(completed) : x = <<"completed", i, completed[i]>>
        \/ \E i \in 1..Len(ready) : x = <<"ready", i, ready[i]>>
    BY DEF Custody
  <2>7. \/ \E i \in 1..Len(tasks) : x[3] = tasks[i]
        \/ \E w \in Busy : x[3] = worker[w].task
        \/ \E i \in 1..Len(completed) : x[3] = completed[i]
        \/ \E i \in 1..Len(ready) : x[3] = ready[i]
    BY <2>6
  <2>8. Orderly(tasks) /\ Orderly(completed) /\ Orderly(ready)
    BY <2>3 DEF CustodyInv
  <2> QED
    BY <2>3, <2>4, <2>5, <2>7, <2>8
<1>2. LoopInv /\ [Next]_vars =>
        [Left => \A x \in Custody : conn[x[3].conn].stage # "live"]_vars
  BY <1>1
<1> QED
  BY <1>2, LoopInvariance, PTL DEF Spec, CleanDrain

-----------------------------------------------------------------------------
(* The backlog.                                                            *)

\* No batch outlives its iteration.
BatchInv ==
  loop \in {"sweep", "check", "wait", "teardown", "done"} => batch = {}

\* What BacklogSeen asks of a step.
KeepsAnnounced == BacklogAnnounced /\ ~AcceptFails => BacklogAnnounced'

LEMMA LoopQueuesNobody ==
  ASSUME LoopInv, EventLoop, NEW c \in Conns, conn'[c].stage = "queued"
  PROVE  conn[c].stage = "queued"
<1>0. /\ TypeOK /\ ServerInv /\ PhaseInv
      /\ conn \in [Conns -> Connection] /\ conn[c] \in Connection
  BY DEF LoopInv, ServerInv, TypeOK
<1>1. CASE conn'[c] = conn[c]
  BY <1>1
<1>2. ASSUME NEW k \in Connection, conn'[c] = Closed(k)
      PROVE  FALSE
  BY <1>2, ClosedFields
<1>3. ASSUME NEW e \in batch, HandleSocket(e)
      PROVE  conn[c].stage = "queued"
  <2>1. CASE connections[e.fd] = None
    BY <1>1, <1>3, <2>1 DEF HandleSocket, netVars
  <2>2. CASE connections[e.fd] # None
    <3>1. PICK d \in Conns, n \in Connection, dir \in {"off", "read", "write"} :
            Touched(e.fd, d, n, dir)
      BY <1>0, <1>3, <2>2, SocketTurns
    <3> QED
      BY <1>0, <1>1, <3>1 DEF Touched
  <2> QED
    BY <2>1, <2>2
<1>4. CASE Complete
  <2>1. Settles(conn[c], conn'[c])
    BY <1>4, CompleteKeepsPhases
  <2> QED
    BY <2>1 DEF Settles
<1>5. ASSUME NEW d \in Conns, NEW f \in Fds, Accept(d, f)
      PROVE  conn[c].stage = "queued"
  <2>1. CASE c = d
    BY <1>5, <2>1 DEF Accept, Queued
  <2>2. CASE c # d
    BY <1>0, <1>1, <1>5, <2>2 DEF Accept
  <2> QED
    BY <2>1, <2>2
<1>6. CASE ObserveStop
  <2>1. conn'[c] = Closed(conn[c]) \/ conn'[c] = conn[c]
    BY <1>6 DEF ObserveStop, StopAccepting, netVars
  <2> QED
    BY <1>0, <1>1, <1>2, <2>1
<1>7. CASE Sweep \/ Teardown
  <2>1. \/ conn'[c] = Closed(TimedOut(conn[c])) \/ conn'[c] = Closed(conn[c])
        \/ conn'[c] = conn[c]
    BY <1>7 DEF Sweep, Teardown, DropAll
  <2>2. Closed(TimedOut(conn[c])).stage = "closed" /\ Closed(conn[c]).stage = "closed"
    BY DEF Closed, NewConnection
  <2> QED
    BY <1>1, <2>1, <2>2
<1>8. CASE \/ EpollWait \/ HandleWake \/ HandleListen \/ DrainWakeup
           \/ SwapCompletions \/ AcceptFails \/ SkipSweep \/ EndIteration
  BY <1>1, <1>8 DEF EpollWait, HandleWake, HandleListen, DrainWakeup, SwapCompletions,
                    AcceptFails, SkipSweep, EndIteration, netVars
<1> QED
  BY <1>3, <1>4, <1>5, <1>6, <1>7, <1>8 DEF EventLoop

LEMMA LoopKeepsBacklog ==
  LoopInv /\ BatchInv /\ EventLoop => BatchInv' /\ KeepsAnnounced
<1> SUFFICES ASSUME LoopInv, BatchInv, EventLoop
             PROVE  BatchInv' /\ KeepsAnnounced
  OBVIOUS
<1>1. Queued' # {} => Queued # {}
  BY LoopQueuesNobody DEF Queued
<1>2. CASE EpollWait
  BY <1>1, <1>2 DEF EpollWait, BatchInv, KeepsAnnounced, BacklogAnnounced
<1>3. ASSUME NEW e \in batch, HandleSocket(e)
      PROVE  BatchInv' /\ KeepsAnnounced
  BY <1>1, <1>3 DEF HandleSocket, BatchInv, KeepsAnnounced, BacklogAnnounced, listenVars
<1>4. CASE HandleWake
  BY <1>1, <1>4 DEF HandleWake, BatchInv, KeepsAnnounced, BacklogAnnounced, listenVars, WakeEvent, ListenEvent
<1>5. CASE HandleListen
  BY <1>1, <1>5 DEF HandleListen, BatchInv, KeepsAnnounced, BacklogAnnounced
<1>6. ASSUME NEW c \in Conns, NEW f \in Fds, Accept(c, f)
      PROVE  BatchInv' /\ KeepsAnnounced
  BY <1>6 DEF Accept, BatchInv, KeepsAnnounced, BacklogAnnounced
<1>7. CASE AcceptFails
  BY <1>7 DEF AcceptFails, BatchInv, KeepsAnnounced
<1>8. CASE ObserveStop
  <2>1. CASE UNCHANGED listenVars
    BY <1>1, <1>8, <2>1 DEF ObserveStop, BatchInv, KeepsAnnounced, BacklogAnnounced, listenVars
  <2>2. CASE StopAccepting
    <3>1. \A c \in Conns : conn'[c].stage # "queued"
      BY <2>2 DEF StopAccepting, Queued, Closed, NewConnection
    <3>2. Queued' = {}
      BY <3>1 DEF Queued
    <3> QED
      BY <1>8, <3>2 DEF ObserveStop, BatchInv, KeepsAnnounced, BacklogAnnounced
  <2> QED
    BY <1>8, <2>1, <2>2 DEF ObserveStop
<1>9. CASE \/ DrainWakeup \/ SwapCompletions \/ Complete
           \/ SkipSweep \/ Sweep \/ EndIteration \/ Teardown
  <2>1. UNCHANGED <<listenVars, batch>> /\ loop # "accept"
    BY <1>9 DEF DrainWakeup, SwapCompletions, Complete, SkipSweep, Sweep,
                EndIteration, Teardown
  <2>2. loop' \in {"sweep", "check", "wait", "teardown", "done"} =>
          loop \in {"sweep", "check", "wait", "teardown", "done"}
    BY <1>9 DEF DrainWakeup, SwapCompletions, Complete, SkipSweep, Sweep,
                EndIteration, Teardown
  <2> QED
    BY <1>1, <2>1, <2>2 DEF BatchInv, KeepsAnnounced, BacklogAnnounced, listenVars
<1> QED
  BY <1>2, <1>3, <1>4, <1>5, <1>6, <1>7, <1>8, <1>9 DEF EventLoop

LEMMA NextKeepsBacklog ==
  LoopInv /\ BatchInv /\ [Next]_vars => BatchInv' /\ KeepsAnnounced
<1> SUFFICES ASSUME LoopInv, BatchInv, [Next]_vars
             PROVE  BatchInv' /\ KeepsAnnounced
  OBVIOUS
<1>0. conn \in [Conns -> Connection]
  BY DEF LoopInv, ServerInv, TypeOK
<1>1. CASE Environment
  <2>1. UNCHANGED <<batch, loop>>
    BY <1>1 DEF Environment, Connect, Send, Resume, Lapse, Leave, GraceExpires, EnvUnchanged
  <2>2. CASE \E c \in Conns : Connect(c)
    BY <2>1, <2>2 DEF Connect, BatchInv, KeepsAnnounced, BacklogAnnounced
  <2>3. CASE ~ \E c \in Conns : Connect(c)
    <3>1. ASSUME NEW c \in Conns
          PROVE  conn'[c].stage = conn[c].stage
      <4>1. Alike(conn[c], conn'[c]) \/ conn'[c] = conn[c]
        <5>1. PICK d \in Conns : \/ Send(d) \/ Resume(d) \/ Lapse(d) \/ GraceExpires
                                 \/ \E how \in {"fin", "rst"} : Leave(d, how)
          BY <1>1, <2>3 DEF Environment
        <5> QED
          BY <1>0, <5>1 DEF Send, Resume, Lapse, Leave, GraceExpires, netVars, Connection,
                            Alike
      <4> QED
        BY <4>1 DEF Alike
    <3>2. UNCHANGED listenEdge
      BY <1>1, <2>3 DEF Environment, Send, Resume, Lapse, Leave, GraceExpires, listenVars
    <3>3. Queued' = Queued
      BY <3>1 DEF Queued
    <3> QED
      BY <2>1, <3>2, <3>3 DEF BatchInv, KeepsAnnounced, BacklogAnnounced
  <2> QED
    BY <2>2, <2>3
<1>2. CASE (\E w \in Workers : Worker(w)) \/ Owner \/ Terminated \/ UNCHANGED vars
  <2>1. UNCHANGED <<conn, listenEdge, batch, loop>>
    BY <1>2 DEF Worker, TakeTask, RunHandler, PushCompletion, Notify, Release,
                ExitWorker, WorkerUnchanged, Owner, RequestStop, NotifyStop,
                ShutdownPool, ClosePipe, OwnerUnchanged, Terminated, vars, netVars,
                listenVars
  <2> QED
    BY <2>1 DEF BatchInv, KeepsAnnounced, BacklogAnnounced, Queued
<1> QED
  BY <1>1, <1>2, LoopKeepsBacklog DEF Next

\* Only a failing accept() makes the loop forget clients in the backlog: every other
\* step leaves them announced, whoever connects in between.
THEOREM BacklogIsSeen == Spec => BacklogSeen
<1>1. Init => BatchInv
  BY DEF Init, BatchInv
<1>2. LoopInv /\ BatchInv /\ [Next]_vars =>
        [BacklogAnnounced /\ ~AcceptFails => BacklogAnnounced']_vars
  BY NextKeepsBacklog DEF KeepsAnnounced
<1> QED
  BY <1>1, <1>2, LoopInvariance, NextKeepsBacklog, PTL DEF Spec, BacklogSeen

-----------------------------------------------------------------------------
(* The protocol of HttpExchange.                                           *)

\* A live connection has been answered every request taken on it but the one
\* the server is at.
Tallied ==
  \A c \in Live : Exchange!Replies(conn[c].said) =
                    conn[c].parsed - (IF conn[c].processing THEN 1 ELSE 0)

LEMMA CountsAlike == \A S : Exchange!Cardinality(S) = Cardinality(S)
BY DEF Exchange!Cardinality, Cardinality

LEMMA NothingReplied == Exchange!Replies(<<>>) = 0
<1> DEFINE S == {i \in 1..Len(<<>>) : <<>>[i].kind = "reply"}
<1>1. Exchange!Replies(<<>>) = Cardinality(S)
  BY CountsAlike DEF Exchange!Replies
<1>2. S = {}
  BY EmptySeq
<1> QED
  BY <1>1, <1>2, FS_EmptySet

LEMMA OneMoreReply ==
  ASSUME NEW q \in Seq(Said), NEW m \in Said
  PROVE  /\ Exchange!Replies(q) \in Nat
         /\ Exchange!Replies(Append(q, m)) =
              Exchange!Replies(q) + (IF m.kind = "reply" THEN 1 ELSE 0)
<1> DEFINE r == Append(q, m)
           S == {i \in 1..Len(q) : q[i].kind = "reply"}
           T == {i \in 1..Len(r) : r[i].kind = "reply"}
           n == Len(q) + 1
<1>1. /\ Len(q) \in Nat /\ Len(r) = n /\ r[n] = m
      /\ \A i \in 1..Len(q) : r[i] = q[i]
  BY AppendProperties, LenProperties
<1>2. IsFiniteSet(S) /\ Cardinality(S) \in Nat
  <2>1. IsFiniteSet(1..Len(q))
    BY <1>1, FS_Interval
  <2> QED
    BY <2>1, FS_Subset, FS_CardinalityType, S \in SUBSET (1..Len(q))
<1>3. T = IF m.kind = "reply" THEN S \cup {n} ELSE S
  <2> HIDE DEF r
  <2> QED
    BY <1>1
<1>4. n \notin S
  BY <1>1
<1>5. Cardinality(T) = Cardinality(S) + (IF m.kind = "reply" THEN 1 ELSE 0)
  <2> HIDE DEF S, T, n
  <2>1. Cardinality(S \cup {n}) = Cardinality(S) + 1
    BY <1>2, <1>4, FS_AddElement
  <2>2. CASE m.kind = "reply"
    BY <1>3, <2>1, <2>2
  <2>3. CASE m.kind # "reply"
    BY <1>2, <1>3, <2>3
  <2> QED
    BY <2>2, <2>3
<1>6. Exchange!Replies(q) = Cardinality(S) /\ Exchange!Replies(r) = Cardinality(T)
  BY CountsAlike DEF Exchange!Replies
<1> QED
  BY <1>2, <1>5, <1>6

\* The tally of one connection.
Replied(k) == k.parsed - (IF k.processing THEN 1 ELSE 0)

\* The message about the request a client is at.
Message(k, kind) == [req |-> Replied(k) + 1, kind |-> kind]

\* What a handler does about a live connection, as the protocol has it.
LEMMA TurnIsOfTheProtocol ==
  ASSUME NEW k \in Connection, NEW n \in Connection, Sound(k),
         k.stage = "live", n.stage \in {"live", "closed"}, Turn(k, n)
  PROVE  \/ Hushed(k, n)
         \/ /\ ~k.processing /\ Replied(k) < MaxReq
            /\ TurnOf(n) = "server" /\ n.said = k.said
         \/ /\ ~k.processing /\ TurnOf(n) \in {"client", "closed"}
            /\ n.said = Append(k.said, Message(k, "continue"))
         \/ /\ k.processing /\ n.said = Append(k.said, Message(k, "reply"))
            /\ TurnOf(n) \in {"client", "closed"} \cup
                             (IF Replied(k) + 1 < MaxReq THEN {"server"} ELSE {})
         \/ /\ k.processing /\ TurnOf(n) \in {"client", "closed"}
            /\ n.said = Append(Append(k.said, Message(k, "reply")),
                               [req |-> Replied(k) + 2, kind |-> "continue"])
<1>0. /\ k.processing \in BOOLEAN /\ n.processing \in BOOLEAN
      /\ k.parsed \in 0..MaxReq /\ n.parsed \in 0..MaxReq /\ MaxReq \in Nat
  BY Constants DEF Connection
<1>1. /\ n.stage = "closed" => TurnOf(n) = "closed"
      /\ n.stage = "live" /\ n.processing => TurnOf(n) = "server"
      /\ n.stage = "live" /\ ~n.processing => TurnOf(n) = "client"
  BY DEF TurnOf
<1>2. CASE n.said = k.said /\ (n.stage = "live" => n.processing = k.processing
                                                   /\ n.parsed = k.parsed)
  BY <1>2 DEF Hushed
<1>3. CASE ~k.processing /\ Moves(k.said, k.parsed, n)
  <2>1. Replied(k) = k.parsed /\ Interim(k.parsed) = Message(k, "continue")
    BY <1>0, <1>3 DEF Replied, Message, Interim
  <2>2. CASE /\ n.stage = "live" /\ n.processing
             /\ n.parsed = k.parsed + 1 /\ n.parsed \in 1..MaxReq /\ n.said = k.said
    BY <1>0, <1>1, <1>3, <2>1, <2>2
  <2>3. CASE /\ n.stage = "live" => ~n.processing /\ n.parsed = k.parsed
             /\ n.said = k.said
    BY <1>0, <1>3, <2>3 DEF Hushed
  <2>4. CASE /\ n.stage = "live" => ~n.processing /\ n.parsed = k.parsed
             /\ n.said = Append(k.said, Interim(k.parsed))
    BY <1>1, <1>3, <2>1, <2>4
  <2> QED
    BY <1>3, <2>2, <2>3, <2>4 DEF Moves
<1>4. CASE /\ k.processing /\ k.reply = k.parsed
           /\ \/ n.stage = "closed" /\ n.said = Append(k.said, Reply(k))
              \/ Moves(Append(k.said, Reply(k)), k.parsed, n)
  <2>1. /\ Replied(k) + 1 = k.parsed /\ Reply(k) = Message(k, "reply")
        /\ Interim(k.parsed) = [req |-> Replied(k) + 2, kind |-> "continue"]
    BY <1>0, <1>4 DEF Replied, Message, Interim, Reply
  <2> DEFINE q == Append(k.said, Reply(k))
  <2>2. CASE n.stage = "closed" /\ n.said = q
    BY <1>1, <1>4, <2>1, <2>2
  <2>3. CASE /\ n.stage = "live" /\ n.processing
             /\ n.parsed = k.parsed + 1 /\ n.parsed \in 1..MaxReq /\ n.said = q
    <3>1. Replied(k) + 1 < MaxReq
      BY <1>0, <2>1, <2>3
    <3> QED
      BY <1>1, <1>4, <2>1, <2>3, <3>1
  <2>4. CASE /\ n.stage = "live" => ~n.processing /\ n.parsed = k.parsed
             /\ n.said = q
    BY <1>1, <1>4, <2>1, <2>4
  <2>5. CASE /\ n.stage = "live" => ~n.processing /\ n.parsed = k.parsed
             /\ n.said = Append(q, Interim(k.parsed))
    BY <1>1, <1>4, <2>1, <2>5
  <2> QED
    BY <1>4, <2>2, <2>3, <2>4, <2>5 DEF Moves
<1> QED
  BY <1>2, <1>3, <1>4 DEF Turn

LEMMA TurnTallies ==
  ASSUME NEW k \in Connection, NEW n \in Connection, Sound(k),
         k.stage = "live", Turn(k, n), n.stage = "live",
         Exchange!Replies(k.said) = Replied(k)
  PROVE  Exchange!Replies(n.said) = Replied(n)
<1>0. /\ k.processing \in BOOLEAN /\ n.processing \in BOOLEAN
      /\ k.parsed \in 0..MaxReq /\ n.parsed \in 0..MaxReq /\ MaxReq \in Nat
      /\ k.said \in Seq(Said)
  BY Constants DEF Connection
<1>1. ASSUME NEW q \in Seq(Said), Exchange!Replies(q) = k.parsed, Moves(q, k.parsed, n)
      PROVE  Exchange!Replies(n.said) = Replied(n)
  <2>1. CASE n.processing /\ n.parsed = k.parsed + 1 /\ n.said = q
    BY <1>0, <1>1, <2>1 DEF Replied
  <2>2. CASE ~n.processing /\ n.parsed = k.parsed /\ n.said = q
    BY <1>0, <1>1, <2>2 DEF Replied
  <2>3. CASE ~n.processing /\ n.parsed = k.parsed /\ n.said = Append(q, Interim(k.parsed))
    <3>1. Interim(k.parsed) \in Said /\ Interim(k.parsed).kind = "continue"
      BY <1>0 DEF Interim, Said
    <3>2. Exchange!Replies(n.said) = Exchange!Replies(q) + 0
      BY <1>1, <2>3, <3>1, OneMoreReply
    <3> QED
      BY <1>0, <1>1, <2>3, <3>2 DEF Replied
  <2> QED
    BY <1>1, <2>1, <2>2, <2>3 DEF Moves
<1>2. CASE n.said = k.said /\ n.processing = k.processing /\ n.parsed = k.parsed
  BY <1>2 DEF Replied
<1>3. CASE ~k.processing /\ Moves(k.said, k.parsed, n)
  <2>1. Replied(k) = k.parsed
    BY <1>0, <1>3 DEF Replied
  <2> QED
    BY <1>0, <1>1, <1>3, <2>1
<1>4. CASE /\ k.processing /\ k.out > 0 /\ k.reply = k.parsed
           /\ Moves(Append(k.said, Reply(k)), k.parsed, n)
  <2>1. Reply(k) \in Said /\ Reply(k).kind = "reply"
    <3>1. k.reply \in 0..MaxReq /\ k.reply > 0
      BY <1>4 DEF Sound, Connection
    <3> QED
      BY <3>1, Constants DEF Reply, Said
  <2>2. Exchange!Replies(Append(k.said, Reply(k))) = Exchange!Replies(k.said) + 1
    BY <1>0, <2>1, OneMoreReply
  <2>3. Exchange!Replies(k.said) = k.parsed - 1
    BY <1>4 DEF Replied
  <2>4. Append(k.said, Reply(k)) \in Seq(Said)
    BY <1>0, <2>1, AppendProperties
  <2>5. Exchange!Replies(Append(k.said, Reply(k))) = k.parsed
    BY <1>0, <2>2, <2>3
  <2> QED
    BY <1>1, <1>4, <2>4, <2>5
<1> QED
  BY <1>2, <1>3, <1>4 DEF Turn

LEMMA StoryTallies ==
  ASSUME LoopInv, ServerInv', Tallied, Story
  PROVE  Tallied'
<1>0. \A c \in Conns : /\ conn[c] \in Connection /\ conn'[c] \in Connection
                       /\ Sound(conn[c])
  BY DEF LoopInv, ServerInv, TypeOK, Sound
<1>1. \A c \in Conns : conn[c].stage = "live" =>
                         Exchange!Replies(conn[c].said) = Replied(conn[c])
  BY DEF Tallied, Live, Replied
<1>2. ASSUME NEW c \in Conns, conn'[c].stage = "live"
      PROVE  Exchange!Replies(conn'[c].said) = Replied(conn'[c])
  <2>1. CASE Hushed(conn[c], conn'[c])
    <3>1. /\ conn[c].stage = "live" /\ conn'[c].said = conn[c].said
          /\ conn'[c].processing = conn[c].processing /\ conn'[c].parsed = conn[c].parsed
      BY <1>2, <2>1 DEF Hushed
    <3> QED
      BY <1>1, <3>1 DEF Replied
  <2>2. CASE Welcomed(conn[c], conn'[c])
    BY <2>2, NothingReplied DEF Welcomed, Replied
  <2>3. CASE conn[c].stage = "live" /\ Turn(conn[c], conn'[c])
    BY <1>0, <1>1, <1>2, <2>3, TurnTallies
  <2>4. CASE GivenUp(conn[c], conn'[c])
    BY <1>2, <2>4 DEF GivenUp
  <2>5. CASE conn'[c] = conn[c]
    BY <1>1, <1>2, <2>5
  <2> QED
    BY <2>1, <2>2, <2>3, <2>4, <2>5 DEF Story
<1> QED
  BY <1>2 DEF Tallied, Live, Replied

\* One client's state of the protocol.
LEMMA OneClient ==
  ASSUME NEW c \in Conns, \A d \in Conns \ {c} : conn'[d] = conn[d]
  PROVE  /\ [d \in Conns |-> TurnOf(conn'[d])] =
              [[d \in Conns |-> TurnOf(conn[d])] EXCEPT ![c] = TurnOf(conn'[c])]
         /\ [d \in Conns |-> conn'[d].said] =
              [[d \in Conns |-> conn[d].said] EXCEPT ![c] = conn'[c].said]
OBVIOUS

LEMMA TheTurns ==
  ASSUME NEW k \in Connection
  PROVE  /\ TurnOf(k) = "none" <=> k.stage \in {"away", "queued"}
         /\ TurnOf(k) = "closed" <=> k.stage = "closed"
         /\ k.stage = "live" => TurnOf(k) = IF k.processing THEN "server" ELSE "client"
<1>1. k.stage \in {"away", "queued", "live", "closed"}
  BY DEF Connection
<1> QED
  BY <1>1 DEF TurnOf

\* Connections that close, some of them with a last word.
LEMMA ClosingIsOfTheProtocol ==
  ASSUME LoopInv, ServerInv', Tallied,
         \A c \in Conns : Hushed(conn[c], conn'[c]) \/ GivenUp(conn[c], conn'[c])
  PROVE  \E cs \in SUBSET Conns : \E timedOut \in SUBSET cs : Exchange!Close(cs, timedOut)
<1> PICK cs : cs = {c \in Conns : conn[c].stage # "closed" /\ conn'[c].stage = "closed"}
  OBVIOUS
<1> PICK timedOut : timedOut = {c \in Conns : GivenUp(conn[c], conn'[c])}
  OBVIOUS
<1> DEFINE last(c) == IF c \in timedOut THEN Append(conn[c].said, Answer(conn[c]))
                      ELSE conn[c].said
<1>0. \A c \in Conns : conn[c] \in Connection /\ conn'[c] \in Connection
  BY DEF LoopInv, ServerInv, TypeOK
<1>1. timedOut \subseteq cs /\ \A c \in timedOut : conn[c].stage = "live"
  BY DEF GivenUp
<1>2. ASSUME NEW c \in Conns
      PROVE  TurnOf(conn'[c]) = IF c \in cs THEN "closed" ELSE TurnOf(conn[c])
  <2>1. CASE c \in cs
    BY <1>0, <2>1, TheTurns
  <2>2. CASE conn[c].stage = "closed" /\ conn'[c].stage = "closed"
    BY <1>0, <2>2, TheTurns
  <2>3. CASE conn'[c].stage # "closed"
    <3>1. Hushed(conn[c], conn'[c])
      BY <2>3 DEF GivenUp
    <3> QED
      BY <1>0, <2>3, <3>1, TheTurns DEF Hushed, TurnOf
  <2> QED
    BY <2>1, <2>2, <2>3
<1>3. \A c \in Conns : conn'[c].said = last(c)
  BY DEF GivenUp, Hushed
<1>4. \A c \in timedOut : /\ Answer(conn[c]) = [req |-> Exchange!Replies(conn[c].said) + 1,
                                                kind |-> "timeout"]
                          /\ TurnOf(conn[c]) \in {"client", "server"}
  <2> SUFFICES ASSUME NEW c \in timedOut
               PROVE  /\ Answer(conn[c]) = [req |-> Exchange!Replies(conn[c].said) + 1,
                                            kind |-> "timeout"]
                      /\ TurnOf(conn[c]) \in {"client", "server"}
    OBVIOUS
  <2>1. /\ conn[c].parsed \in Nat /\ conn[c].processing \in BOOLEAN
        /\ conn[c].stage = "live"
    BY <1>0, <1>1, Constants DEF Connection
  <2>2. Exchange!Replies(conn[c].said) =
          conn[c].parsed - (IF conn[c].processing THEN 1 ELSE 0)
    BY <2>1 DEF Tallied, Live
  <2>3. conn[c].parsed + (IF conn[c].processing THEN 0 ELSE 1) =
          Exchange!Replies(conn[c].said) + 1
    BY <2>1, <2>2
  <2> QED
    BY <1>0, <2>1, <2>3, TheTurns DEF Answer
<1>5. Exchange!Close(cs, timedOut)
  <2>1. timedOut \subseteq {c \in cs : [d \in Conns |-> TurnOf(conn[d])][c]
                                         \in {"client", "server"}}
    BY <1>1, <1>4
  <2>2. \A c \in cs : [d \in Conns |-> TurnOf(conn[d])][c] # "closed"
    BY <1>0, TheTurns
  <2>3. [d \in Conns |-> TurnOf(conn'[d])] =
          [c \in Conns |-> IF c \in cs THEN "closed"
                           ELSE [d \in Conns |-> TurnOf(conn[d])][c]]
    BY <1>2
  <2>4. [d \in Conns |-> conn'[d].said] =
          [c \in Conns |->
             IF c \in timedOut
             THEN Append([d \in Conns |-> conn[d].said][c],
                         [req |-> Exchange!Replies([d \in Conns |-> conn[d].said][c]) + 1,
                          kind |-> "timeout"])
             ELSE [d \in Conns |-> conn[d].said][c]]
    <3>1. \A c \in Conns : [d \in Conns |-> conn[d].said][c] = conn[c].said
      OBVIOUS
    <3> QED
      BY <1>3, <1>4, <3>1
  <2> QED
    BY <2>1, <2>2, <2>3, <2>4
       DEF Exchange!Close, Exchange!About, Exchange!Replied
<1>6. cs \in SUBSET Conns /\ timedOut \in SUBSET cs
  BY <1>1
<1> QED
  BY <1>5, <1>6

LEMMA StoryIsOfTheProtocol ==
  ASSUME LoopInv, ServerInv', Tallied, Story
  PROVE  [Exchange!Next]_(Exchange!vars)
<1> DEFINE turn == [c \in Conns |-> TurnOf(conn[c])]
           said == [c \in Conns |-> conn[c].said]
<1>0. /\ \A c \in Conns : /\ conn[c] \in Connection /\ conn'[c] \in Connection
                          /\ Sound(conn[c])
      /\ \A c \in Conns : turn[c] = TurnOf(conn[c]) /\ said[c] = conn[c].said
  BY DEF LoopInv, ServerInv, TypeOK, Sound
<1>1. CASE \A c \in Conns : Hushed(conn[c], conn'[c]) \/ GivenUp(conn[c], conn'[c])
  BY <1>1, ClosingIsOfTheProtocol DEF Exchange!Next
<1>2. ASSUME NEW c \in Conns, Welcomed(conn[c], conn'[c]),
             \A d \in Conns \ {c} : conn'[d] = conn[d]
      PROVE  Exchange!Next
  <2>1. /\ TurnOf(conn[c]) = "none" /\ TurnOf(conn'[c]) = "client"
        /\ conn'[c].said = conn[c].said
    BY <1>0, <1>2, TheTurns DEF Welcomed
  <2>2. turn' = [turn EXCEPT ![c] = "client"] /\ said' = [said EXCEPT ![c] = conn[c].said]
    BY <1>2, <2>1, OneClient
  <2>3. said' = said
    BY <2>2
  <2>4. Exchange!Open(c)
    BY <1>0, <2>1, <2>2, <2>3 DEF Exchange!Open
  <2> QED
    BY <2>4 DEF Exchange!Next
<1>3. ASSUME NEW c \in Conns, conn[c].stage = "live", conn'[c].stage \in {"live", "closed"},
             Turn(conn[c], conn'[c]), \A d \in Conns \ {c} : conn'[d] = conn[d]
      PROVE  [Exchange!Next]_(Exchange!vars)
  <2> DEFINE k == conn[c]
             n == conn'[c]
  <2>0. /\ turn' = [turn EXCEPT ![c] = TurnOf(n)] /\ said' = [said EXCEPT ![c] = n.said]
        /\ turn \in [Conns -> {turn[d] : d \in Conns}]
        /\ said \in [Conns -> {said[d] : d \in Conns}]
    BY <1>3, OneClient
  <2>1. /\ Exchange!Replied(c) = Replied(k)
        /\ \A kind : Exchange!About(c, kind) = Message(k, kind)
    <3>1. Exchange!Replies(k.said) = Replied(k)
      BY <1>3 DEF Tallied, Live, Replied
    <3> QED
      BY <1>0, <3>1 DEF Exchange!Replied, Exchange!About, Message
  <2>2. /\ turn[c] = IF k.processing THEN "server" ELSE "client"
        /\ said[c] = k.said
    BY <1>0, <1>3, TheTurns
  <2>3. CASE Hushed(k, n)
    <3>1. \A d \in Conns : Hushed(conn[d], conn'[d])
      BY <1>0, <1>3, <2>3, SameIsHushed
    <3> QED
      BY <1>1, <3>1
  <2> HIDE DEF turn, said, k, n
  <2>4. CASE ~k.processing /\ Replied(k) < MaxReq /\ TurnOf(n) = "server" /\ n.said = k.said
    <3>1. said' = said
      BY <2>0, <2>2, <2>4
    <3>2. Exchange!Ask(c)
      BY <2>0, <2>1, <2>2, <2>4, <3>1 DEF Exchange!Ask, turn, said
    <3> QED
      BY <3>2 DEF Exchange!Next
  <2>5. CASE /\ ~k.processing /\ TurnOf(n) \in {"client", "closed"}
             /\ n.said = Append(k.said, Message(k, "continue"))
    <3>1. said' = [said EXCEPT ![c] = Append(@, Exchange!About(c, "continue"))]
      BY <2>0, <2>1, <2>2, <2>5
    <3>2. CASE TurnOf(n) = "client"
      <4>1. turn' = turn
        BY <2>0, <2>2, <2>5, <3>2
      <4>2. Exchange!Continue(c)
        BY <2>2, <2>5, <3>1, <4>1 DEF Exchange!Continue, turn, said
      <4> QED
        BY <4>2 DEF Exchange!Next
    <3>3. CASE TurnOf(n) = "closed"
      <4>1. Exchange!ContinueAndClose(c)
        BY <2>0, <2>2, <2>5, <3>1, <3>3 DEF Exchange!ContinueAndClose, turn, said
      <4> QED
        BY <4>1 DEF Exchange!Next
    <3> QED
      BY <2>5, <3>2, <3>3
  <2>6. CASE /\ k.processing /\ n.said = Append(k.said, Message(k, "reply"))
             /\ TurnOf(n) \in {"client", "closed"} \cup
                              (IF Replied(k) + 1 < MaxReq THEN {"server"} ELSE {})
    <3>1. said' = [said EXCEPT ![c] = Append(@, Exchange!About(c, "reply"))]
      BY <2>0, <2>1, <2>2, <2>6
    <3>2. Exchange!About(c, "reply").req = Replied(k) + 1
      BY <2>1 DEF Message
    <3>3. Exchange!Answer(c)
      BY <2>0, <2>2, <2>6, <3>1, <3>2 DEF Exchange!Answer, turn, said
    <3> QED
      BY <3>3 DEF Exchange!Next
  <2>7. CASE /\ k.processing /\ TurnOf(n) \in {"client", "closed"}
             /\ n.said = Append(Append(k.said, Message(k, "reply")),
                                [req |-> Replied(k) + 2, kind |-> "continue"])
    <3> DEFINE reply == Exchange!About(c, "reply")
               next == [req |-> reply.req + 1, kind |-> "continue"]
    <3>1. reply = Message(k, "reply") /\ reply.req = Replied(k) + 1
      BY <2>1 DEF Message
    <3>2. Replied(k) \in Int
      <4>1. k.parsed \in Int
        BY <1>0, Constants DEF k, Connection
      <4> QED
        BY <4>1 DEF Replied
    <3>3. next = [req |-> Replied(k) + 2, kind |-> "continue"]
      BY <3>1, <3>2
    <3> HIDE DEF reply, next
    <3>4. said' = [said EXCEPT ![c] = Append(Append(@, reply), next)]
      BY <2>0, <2>2, <2>7, <3>1, <3>3
    <3>5. turn[c] = "server" /\ \E t \in {"client", "closed"} : turn' = [turn EXCEPT ![c] = t]
      BY <2>0, <2>2, <2>7
    <3>6. Exchange!Answer(c)
      BY <3>4, <3>5 DEF Exchange!Answer, turn, said, reply, next
    <3> QED
      BY <3>6 DEF Exchange!Next
  <2>8. n \in Connection /\ k \in Connection /\ Sound(k)
    BY <1>0 DEF k, n
  <2>9. k.stage = "live" /\ n.stage \in {"live", "closed"} /\ Turn(k, n)
    BY <1>3 DEF k, n
  <2> QED
    BY <2>3, <2>4, <2>5, <2>6, <2>7, <2>8, <2>9, TurnIsOfTheProtocol
<1> QED
  BY <1>1, <1>2, <1>3 DEF Story

\* Whatever the threads do, every client sees the turns of HttpExchange.
THEOREM FollowsTheProtocol == Spec => ImplementsExchange
<1>1. Init => Exchange!Init /\ Tallied
  <2> SUFFICES ASSUME Init
               PROVE  Exchange!Init /\ Tallied
    OBVIOUS
  <2>1. \A c \in Conns : conn[c].stage = "away" /\ conn[c].said = <<>>
    BY DEF Init, NewConnection
  <2>2. \A c \in Conns : TurnOf(conn[c]) = "none"
    BY <2>1 DEF TurnOf
  <2> QED
    BY <2>1, <2>2 DEF Exchange!Init, Tallied, Live
<1>2. LoopInv /\ Tallied /\ [Next]_vars => Tallied' /\ [Exchange!Next]_(Exchange!vars)
  BY StepStory, NextServerInv, StoryTallies, StoryIsOfTheProtocol DEF LoopInv
<1> QED
  BY <1>1, <1>2, LoopInvariance, PTL DEF Spec, ImplementsExchange, Exchange!Spec
=============================================================================
