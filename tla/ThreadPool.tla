----------------------------- MODULE ThreadPool -----------------------------
(***************************************************************************)
(* The thread pool (src/src/server/ThreadPool.cpp, ThreadPool.h): a queue  *)
(* of tasks guarded by queue_mutex_, and the condition variable condition_ *)
(* the idle threads wait on.  One action is what a thread does between two *)
(* points where another may run: taking the mutex, the section under it,   *)
(* a call to notify, the task itself.                                      *)
(*                                                                         *)
(* A task stands for one call of enqueue, by a thread of its own.          *)
(*                                                                         *)
(* An operator whose name starts with Faulty is a mutant of the definition *)
(* that follows it; no specification uses one.                             *)
(***************************************************************************)
EXTENDS Integers, Sequences, FiniteSets

CONSTANTS
  Workers,  \* workers_
  Tasks,    \* the calls of enqueue
  Owner,    \* the thread that calls shutdown
  None      \* nobody; no task

ASSUME PoolAssumption ==
  /\ Workers # {}
  /\ Workers \cap Tasks = {}
  /\ Owner \notin Workers \cup Tasks
  /\ None \notin Workers \cup Tasks \cup {Owner}

VARIABLES
  mutex,     \* the thread that holds queue_mutex_, or None
  sleeping,  \* the threads blocked in condition_.wait
  tasks,     \* tasks_
  stop,      \* stop_
  worker,    \* program counter of each worker
  current,   \* the local variable `task' of each worker
  caller,    \* program counter of each call of enqueue
  owner,     \* program counter of shutdown
  accepted,  \* history: tasks enqueued, in order
  started,   \* history: tasks taken off the queue, in order
  finished   \* history: tasks run to their end

vars == <<mutex, sleeping, tasks, stop, worker, current, caller, owner,
          accepted, started, finished>>

Init ==
  /\ mutex = None
  /\ sleeping = {}
  /\ tasks = <<>>
  /\ stop = FALSE
  /\ worker = [w \in Workers |-> "lock"]
  /\ current = [w \in Workers |-> None]
  /\ caller = [t \in Tasks |-> "call"]
  /\ owner = "call"
  /\ accepted = <<>>
  /\ started = <<>>
  /\ finished = {}

-----------------------------------------------------------------------------
(* enqueue.                                                                *)

EnqueueLock(t) ==
  /\ caller[t] = "call"
  /\ mutex = None
  /\ mutex' = t
  /\ caller' = [caller EXCEPT ![t] = "locked"]
  /\ UNCHANGED <<sleeping, tasks, stop, worker, current, owner, accepted,
                 started, finished>>

\* A stopped pool accepts tasks.
FaultyEnqueue(t) ==
  /\ caller[t] = "locked"
  /\ mutex' = None
  /\ tasks' = Append(tasks, t)
  /\ accepted' = Append(accepted, t)
  /\ caller' = [caller EXCEPT ![t] = "notify"]
  /\ UNCHANGED <<sleeping, stop, worker, current, owner, started, finished>>

\* Under the mutex: throw if the pool is stopped, else queue the task.
Enqueue(t) ==
  /\ caller[t] = "locked"
  /\ mutex' = None
  /\ \/ /\ stop
        /\ caller' = [caller EXCEPT ![t] = "thrown"]
        /\ UNCHANGED <<tasks, accepted>>
     \/ /\ ~stop
        /\ tasks' = Append(tasks, t)
        /\ accepted' = Append(accepted, t)
        /\ caller' = [caller EXCEPT ![t] = "notify"]
  /\ UNCHANGED <<sleeping, stop, worker, current, owner, started, finished>>

\* Nobody is notified.
FaultyNotifyOne(t) ==
  /\ caller[t] = "notify"
  /\ caller' = [caller EXCEPT ![t] = "returned"]
  /\ UNCHANGED <<mutex, sleeping, tasks, stop, worker, current, owner, accepted,
                 started, finished>>

\* condition_.notify_one, after the mutex is released.
NotifyOne(t) ==
  /\ caller[t] = "notify"
  /\ IF sleeping = {} THEN UNCHANGED sleeping
     ELSE \E w \in sleeping : sleeping' = sleeping \ {w}
  /\ caller' = [caller EXCEPT ![t] = "returned"]
  /\ UNCHANGED <<mutex, tasks, stop, worker, current, owner, accepted, started,
                 finished>>

-----------------------------------------------------------------------------
(* The loop of a worker.                                                   *)

\* The unique_lock, or condition_.wait taking the mutex again.
Lock(w) ==
  /\ worker[w] = "lock"
  /\ mutex = None
  /\ mutex' = w
  /\ worker' = [worker EXCEPT ![w] = "locked"]
  /\ UNCHANGED <<sleeping, tasks, stop, current, caller, owner, accepted,
                 started, finished>>

\* The predicate of the wait.
MayProceed == stop \/ tasks # <<>>

\* The predicate is false: release the mutex and sleep, in one step.
Sleep(w) ==
  /\ worker[w] = "locked"
  /\ ~MayProceed
  /\ mutex' = None
  /\ sleeping' = sleeping \cup {w}
  /\ worker' = [worker EXCEPT ![w] = "wait"]
  /\ UNCHANGED <<tasks, stop, current, caller, owner, accepted, started,
                 finished>>

\* Notified (no longer in `sleeping'), the thread goes for the mutex again.
Wake(w) ==
  /\ worker[w] = "wait"
  /\ w \notin sleeping
  /\ worker' = [worker EXCEPT ![w] = "lock"]
  /\ UNCHANGED <<mutex, sleeping, tasks, stop, current, caller, owner, accepted,
                 started, finished>>

\* A condition variable may wake a thread nobody notified.
SpuriousWake(w) ==
  /\ w \in sleeping
  /\ sleeping' = sleeping \ {w}
  /\ UNCHANGED <<mutex, tasks, stop, worker, current, caller, owner, accepted,
                 started, finished>>

\* Stopped and nothing queued: the thread returns.
Exit(w) ==
  /\ worker[w] = "locked"
  /\ stop /\ tasks = <<>>
  /\ mutex' = None
  /\ worker' = [worker EXCEPT ![w] = "exited"]
  /\ UNCHANGED <<sleeping, tasks, stop, current, caller, owner, accepted,
                 started, finished>>

\* The task is popped before it is moved out of the queue.
FaultyTakeNothing(w) ==
  /\ worker[w] = "locked"
  /\ tasks # <<>>
  /\ mutex' = None
  /\ started' = Append(started, Head(tasks))
  /\ tasks' = Tail(tasks)
  /\ worker' = [worker EXCEPT ![w] = "run"]
  /\ UNCHANGED <<sleeping, stop, current, caller, owner, accepted, finished>>

\* A task is queued: take the oldest, release the mutex.
Take(w) ==
  /\ worker[w] = "locked"
  /\ tasks # <<>>
  /\ mutex' = None
  /\ current' = [current EXCEPT ![w] = Head(tasks)]
  /\ started' = Append(started, Head(tasks))
  /\ tasks' = Tail(tasks)
  /\ worker' = [worker EXCEPT ![w] = "run"]
  /\ UNCHANGED <<sleeping, stop, caller, owner, accepted, finished>>

\* task() returns; what it throws stays in its packaged_task.
Run(w) ==
  /\ worker[w] = "run"
  /\ finished' = finished \cup {current[w]}
  /\ current' = [current EXCEPT ![w] = None]
  /\ worker' = [worker EXCEPT ![w] = "lock"]
  /\ UNCHANGED <<mutex, sleeping, tasks, stop, caller, owner, accepted, started>>

-----------------------------------------------------------------------------
(* shutdown.                                                               *)

ShutdownLock ==
  /\ owner = "call"
  /\ mutex = None
  /\ mutex' = Owner
  /\ owner' = "locked"
  /\ UNCHANGED <<sleeping, tasks, stop, worker, current, caller, accepted,
                 started, finished>>

SetStop ==
  /\ owner = "locked"
  /\ stop' = TRUE
  /\ mutex' = None
  /\ owner' = "notify"
  /\ UNCHANGED <<sleeping, tasks, worker, current, caller, accepted, started,
                 finished>>

\* condition_.notify_all.
NotifyAll ==
  /\ owner = "notify"
  /\ sleeping' = {}
  /\ owner' = "join"
  /\ UNCHANGED <<mutex, tasks, stop, worker, current, caller, accepted, started,
                 finished>>

Join ==
  /\ owner = "join"
  /\ \A w \in Workers : worker[w] = "exited"
  /\ owner' = "returned"
  /\ UNCHANGED <<mutex, sleeping, tasks, stop, worker, current, caller, accepted,
                 started, finished>>

\* shutdown returned and so did every call of enqueue.
Terminated ==
  /\ owner = "returned"
  /\ \A t \in Tasks : caller[t] \in {"returned", "thrown"}
  /\ UNCHANGED vars

Caller(t) == EnqueueLock(t) \/ Enqueue(t) \/ NotifyOne(t)

WorkerStep(w) == Lock(w) \/ Sleep(w) \/ Wake(w) \/ Exit(w) \/ Take(w) \/ Run(w)

Shutdown == ShutdownLock \/ SetStop \/ NotifyAll \/ Join

Next ==
  \/ \E t \in Tasks : Caller(t)
  \/ \E w \in Workers : WorkerStep(w) \/ SpuriousWake(w)
  \/ Shutdown
  \/ Terminated

Spec == Init /\ [][Next]_vars

\* Threads that can run do; tasks return; a thread that keeps finding the mutex
\* free at times gets it.  Neither enqueue nor shutdown need ever be called.
Fairness ==
  /\ \A t \in Tasks : WF_vars(Enqueue(t) \/ NotifyOne(t))
  /\ \A w \in Workers :
       /\ SF_vars(Lock(w))
       /\ WF_vars(Sleep(w) \/ Wake(w) \/ Exit(w) \/ Take(w) \/ Run(w))
  /\ WF_vars(SetStop \/ NotifyAll \/ Join)

FairSpec == Spec /\ Fairness

-----------------------------------------------------------------------------
\* Every variable keeps its type.
TypeOK ==
  /\ mutex \in Workers \cup Tasks \cup {Owner, None}
  /\ sleeping \subseteq Workers
  /\ tasks \in Seq(Tasks) /\ accepted \in Seq(Tasks) /\ started \in Seq(Tasks)
  /\ stop \in BOOLEAN
  /\ worker \in [Workers -> {"lock", "locked", "wait", "run", "exited"}]
  /\ current \in [Workers -> Tasks \cup {None}]
  /\ caller \in [Tasks -> {"call", "locked", "notify", "returned", "thrown"}]
  /\ owner \in {"call", "locked", "notify", "join", "returned"}
  /\ finished \subseteq Tasks

\* Tasks are started in the order enqueue accepted them, none twice and none
\* skipped: what was accepted is what was started followed by what is queued.
Fifo == accepted = started \o tasks

\* No wakeup is lost: if a task is queued, either a thread is up and will look
\* at the queue before it sleeps, or a notification is on its way.  Neither
\* notifying after the mutex is released nor spurious wakeups break this.
NoLostWakeup ==
  tasks # <<>> =>
    \/ \E w \in Workers : worker[w] # "exited" /\ w \notin sleeping
    \/ \E t \in Tasks : caller[t] = "notify"
    \/ owner = "notify"

\* Nobody sleeps through shutdown: once notify_all was called, no thread is or
\* goes to sleep, so that join cannot wait for ever.
NobodySleepsAfterStop == owner \in {"join", "returned"} => sleeping = {}

\* shutdown returns only when every task accepted was run to its end, also those
\* queued while it was waiting to take the mutex.
ShutdownDrains ==
  owner = "returned" =>
    /\ tasks = <<>>
    /\ finished = {accepted[i] : i \in 1..Len(accepted)}

\* The pool as those who hand it work see it.
Abstract ==
  INSTANCE TaskQueue WITH queue <- tasks, running <- current, closed <- stop

\* The pool implements a first-in first-out queue of tasks, each run once.
ImplementsTaskQueue == Abstract!Spec

\* Every task accepted is run, with or without a shutdown.
EveryTaskRuns ==
  []<>(\A i \in DOMAIN accepted : accepted[i] \in finished)

\* shutdown returns.
ShutdownReturns == (owner = "locked") ~> (owner = "returned")

\* Neither a task nor a shutdown waits for ever.
PoolLive == EveryTaskRuns /\ ShutdownReturns
=============================================================================
