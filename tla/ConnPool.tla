------------------------------ MODULE ConnPool ------------------------------
(***************************************************************************)
(* The pools of database connections (src/src/platform/PgPool.cpp,         *)
(* SqlitePool.cpp): a queue of free connections under a mutex, and the     *)
(* condition variable acquire() waits on.  The two differ in the           *)
(* constructor's error paths and in release(), where PgPool resets a       *)
(* connection libpq knows to be bad.                                       *)
(*                                                                         *)
(* A section under the mutex touches only what the mutex guards and is one *)
(* action; notify_one comes after it and is another.  A caller is one call *)
(* of run_impl: acquire, one query, release by the destructor of Handle.   *)
(*                                                                         *)
(* An operator whose name starts with Faulty is a mutant of the definition *)
(* that follows it.                                                        *)
(***************************************************************************)
EXTENDS Integers, Sequences, FiniteSets

CONSTANTS
  Handles,     \* the connections the pool opens
  Callers,     \* calls of run_impl
  Kinds,       \* the pools considered, of "pg" and "sqlite"
  NoHandle,    \* no connection
  MaxOutages   \* bound: how often the database server goes away

ASSUME ConnPoolAssumption ==
  /\ Handles # {} /\ IsFiniteSet(Handles) /\ IsFiniteSet(Callers)
  /\ NoHandle \notin Handles
  /\ Kinds \subseteq {"pg", "sqlite"}
  /\ MaxOutages \in Nat

VARIABLES
  kind,        \* which of the two classes this is
  phase,       \* the life of the pool: constructor, use, end
  opened,      \* connections open in the database library
  connections, \* connections_
  available,   \* available_
  waiting,     \* the callers blocked in cv_.wait
  client,      \* program counter of each caller
  held,        \* the connection in each caller's Handle
  up,          \* is the database server there?
  broken,      \* connections whose session the server lost
  bad,         \* connections for which PQstatus says CONNECTION_BAD
  outages,     \* how often the server went away
  burnt        \* history: queries each connection failed since the server is back

dbVars == <<kind, phase, opened, connections, available, waiting, client, held,
            up, broken, bad, outages, burnt>>
envVars == <<up, broken, bad, outages, burnt>>
poolVars == <<kind, phase, opened, connections>>

DbInit ==
  /\ kind \in Kinds
  /\ phase = "opening"
  /\ opened = {} /\ connections = {}
  /\ available = <<>>
  /\ waiting = {}
  /\ client = [c \in Callers |-> "try"]
  /\ held = [c \in Callers |-> NoHandle]
  /\ up = TRUE
  /\ broken = {} /\ bad = {}
  /\ outages = 0
  /\ burnt = [h \in Handles |-> 0]

-----------------------------------------------------------------------------
(* The constructor: nobody else has the pool yet.                          *)

OpenOne(h) ==
  /\ phase = "opening"
  /\ up
  /\ h \notin connections
  /\ opened' = opened \cup {h}
  /\ connections' = connections \cup {h}
  /\ available' = Append(available, h)
  /\ phase' = IF connections' = Handles THEN "ready" ELSE "opening"
  /\ UNCHANGED <<kind, waiting, client, held, envVars>>

\* PQconnectdb or sqlite3_open_v2 fails: both close what they opened and throw.
OpenFails ==
  /\ phase = "opening"
  /\ opened' = {}
  /\ phase' = "failed"
  /\ UNCHANGED <<kind, connections, available, waiting, client, held, envVars>>

\* A PRAGMA fails on a connection just opened: exec_or_throw throws, and neither
\* that connection nor the ones before it are closed (the destructor of an object
\* whose constructor threw does not run).
PragmaFails(h) ==
  /\ kind = "sqlite"
  /\ phase = "opening"
  /\ h \notin connections
  /\ opened' = opened \cup {h}
  /\ phase' = "failed"
  /\ UNCHANGED <<kind, connections, available, waiting, client, held, envVars>>

\* The destructor; all Handles are expected to be released by then.
Destroy ==
  /\ phase = "ready"
  /\ \A c \in Callers : client[c] = "done"
  /\ opened' = {}
  /\ phase' = "destroyed"
  /\ UNCHANGED <<kind, connections, available, waiting, client, held, envVars>>

-----------------------------------------------------------------------------
(* acquire, the query, and release.                                        *)

\* Nothing is free: release the mutex and sleep, in one step.
Wait(c) ==
  /\ phase = "ready"
  /\ client[c] = "try"
  /\ available = <<>>
  /\ waiting' = waiting \cup {c}
  /\ client' = [client EXCEPT ![c] = "wait"]
  /\ UNCHANGED <<poolVars, available, held, envVars>>

\* Notified (no longer in `waiting'): look again.
WakeUp(c) ==
  /\ client[c] = "wait"
  /\ c \notin waiting
  /\ client' = [client EXCEPT ![c] = "try"]
  /\ UNCHANGED <<poolVars, available, waiting, held, envVars>>

\* A condition variable may wake a thread nobody notified.
WakeForNothing(c) ==
  /\ c \in waiting
  /\ waiting' = waiting \ {c}
  /\ UNCHANGED <<poolVars, available, client, held, envVars>>

\* The connection handed out stays in the queue.
FaultyAcquire(c) ==
  /\ phase = "ready"
  /\ client[c] = "try"
  /\ available # <<>>
  /\ held' = [held EXCEPT ![c] = Head(available)]
  /\ client' = [client EXCEPT ![c] = "query"]
  /\ UNCHANGED <<poolVars, available, waiting, envVars>>

Acquire(c) ==
  /\ phase = "ready"
  /\ client[c] = "try"
  /\ available # <<>>
  /\ held' = [held EXCEPT ![c] = Head(available)]
  /\ available' = Tail(available)
  /\ client' = [client EXCEPT ![c] = "query"]
  /\ UNCHANGED <<poolVars, waiting, envVars>>

\* A query on a lost session fails, and libpq learns of the loss.
Query(c) ==
  /\ client[c] = "query"
  /\ LET h == held[c] IN
       IF h \in broken
       THEN /\ bad' = bad \cup {h}
            /\ burnt' = [burnt EXCEPT ![h] = IF up THEN @ + 1 ELSE @]
       ELSE UNCHANGED <<bad, burnt>>
  /\ client' = [client EXCEPT ![c] = "release"]
  /\ UNCHANGED <<poolVars, available, waiting, held, up, broken, outages>>

\* A bad connection goes back as it is.
FaultyReset(c) ==
  /\ client[c] = "release"
  /\ client' = [client EXCEPT ![c] = "push"]
  /\ UNCHANGED <<poolVars, available, waiting, held, envVars>>

\* PgPool::release: PQreset if PQstatus says bad.  It has no effect while the
\* server is away.
Reset(c) ==
  /\ client[c] = "release"
  /\ IF kind = "pg" /\ up
     THEN /\ broken' = broken \ ({held[c]} \cap bad)
          /\ bad' = bad \ {held[c]}
     ELSE UNCHANGED <<broken, bad>>
  /\ client' = [client EXCEPT ![c] = "push"]
  /\ UNCHANGED <<poolVars, available, waiting, held, up, outages, burnt>>

\* Under the mutex: the connection is free again.
Push(c) ==
  /\ client[c] = "push"
  /\ available' = Append(available, held[c])
  /\ held' = [held EXCEPT ![c] = NoHandle]
  /\ client' = [client EXCEPT ![c] = "notify"]
  /\ UNCHANGED <<poolVars, waiting, envVars>>

\* Nobody is notified.
FaultyNotify(c) ==
  /\ client[c] = "notify"
  /\ client' = [client EXCEPT ![c] = "done"]
  /\ UNCHANGED <<poolVars, available, waiting, held, envVars>>

\* cv_.notify_one, after the mutex is released.
Notify(c) ==
  /\ client[c] = "notify"
  /\ IF waiting = {} THEN UNCHANGED waiting
     ELSE \E w \in waiting : waiting' = waiting \ {w}
  /\ client' = [client EXCEPT ![c] = "done"]
  /\ UNCHANGED <<poolVars, available, held, envVars>>

-----------------------------------------------------------------------------
(* The database server, for PostgreSQL.                                    *)

\* It goes away, and with it the sessions.
Outage ==
  /\ kind = "pg" /\ up /\ outages < MaxOutages
  /\ up' = FALSE
  /\ broken' = connections
  /\ outages' = outages + 1
  /\ UNCHANGED <<poolVars, available, waiting, client, held, bad, burnt>>

\* It is back; the sessions are not.
Return ==
  /\ ~up
  /\ up' = TRUE
  /\ burnt' = [h \in Handles |-> 0]
  /\ UNCHANGED <<poolVars, available, waiting, client, held, broken, bad, outages>>

DbTerminated ==
  /\ phase \in {"failed", "destroyed"}
  /\ UNCHANGED dbVars

Client(c) ==
  \/ Wait(c) \/ Acquire(c) \/ Query(c) \/ Reset(c) \/ Push(c) \/ Notify(c)
  \/ WakeUp(c)

DbNext ==
  \/ \E h \in Handles : OpenOne(h) \/ PragmaFails(h)
  \/ OpenFails \/ Destroy
  \/ \E c \in Callers : Client(c) \/ WakeForNothing(c)
  \/ Outage \/ Return
  \/ DbTerminated

DbSpec == DbInit /\ [][DbNext]_dbVars

\* Threads that can run do, and the constructor ends; the server need not return.
DbFairness ==
  /\ WF_dbVars(OpenFails \/ \E h \in Handles : OpenOne(h))
  /\ \A c \in Callers : WF_dbVars(Client(c))

-----------------------------------------------------------------------------
\* Every variable keeps its type.
DbTypeOK ==
  /\ kind \in Kinds
  /\ phase \in {"opening", "ready", "failed", "destroyed"}
  /\ opened \subseteq Handles /\ connections \subseteq Handles
  /\ available \in Seq(Handles)
  /\ waiting \subseteq Callers
  /\ client \in [Callers ->
                   {"try", "wait", "query", "release", "push", "notify", "done"}]
  /\ held \in [Callers -> Handles \cup {NoHandle}]
  /\ up \in BOOLEAN
  /\ broken \subseteq Handles /\ bad \subseteq Handles
  /\ outages \in 0..MaxOutages
  /\ burnt \in [Handles -> Nat]

\* A connection is free once or in the hands of one caller: none is lost by
\* release and none is handed to two threads at a time.
HandleCustody ==
  \A h \in connections :
    Cardinality({i \in DOMAIN available : available[i] = h}) +
    Cardinality({c \in Callers : held[c] = h}) = 1

\* No caller sleeps while a connection is free that nobody is about to take: as
\* long as one sleeps, as many calls of notify_one are still to come, or callers
\* up and about to look, as there are free connections.
HandleWakeup ==
  waiting # {} =>
    Len(available) <=
      Cardinality({c \in Callers : client[c] = "notify"}) +
      Cardinality({c \in Callers : client[c] \in {"try", "wait"}
                                   /\ c \notin waiting})

\* Once the database server is back, a connection of PgPool fails one query at
\* most before release() resets it.
OneFailurePerOutage == \A h \in Handles : burnt[h] <= 1

\* Whatever fails, PgPool leaves no connection open behind.
PgLeavesNothingOpen ==
  kind = "pg" /\ phase \in {"failed", "destroyed"} => opened = {}

\* Custody, and what the constructor of PgPool rolls back when it fails.
HandlesKept == HandleCustody /\ PgLeavesNothingOpen

\* Every caller of a pool that was built gets a connection and gives it back: those
\* that barge in between a notification and the thread it wakes are finitely many.
CallersServed ==
  (phase = "ready") ~> (\A c \in Callers : client[c] = "done")
=============================================================================
