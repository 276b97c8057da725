----------------------------- MODULE PartsProofs -----------------------------
(***************************************************************************)
(* Proofs about the parts that MCParts checks side by side: the thread     *)
(* pool, for any number of workers and of calls of enqueue; the pools of   *)
(* database connections, for any number of connections, callers and        *)
(* outages; the life of the program, for any configuration; and the types  *)
(* of all four.                                                            *)
(***************************************************************************)
EXTENDS MCParts, ResponseWriterProofs, FiniteSetTheorems

-----------------------------------------------------------------------------
(* ThreadPool: types.                                                      *)

\* A worker has a task exactly while it runs one.
Hands == \A w \in Workers : worker[w] = "run" <=> current[w] # None

TypeInv == TypeOK /\ Hands

LEMMA InitTypeInv == Init => TypeInv
BY EmptySeq DEF Init, TypeInv, TypeOK, Hands

LEMMA NextTypeInv == TypeInv /\ [Next]_vars => TypeInv'
<1> SUFFICES ASSUME TypeInv, [Next]_vars
             PROVE  TypeInv'
  OBVIOUS
<1> USE PoolAssumption DEF TypeInv, TypeOK, Hands
<1>1. ASSUME NEW t \in Tasks, EnqueueLock(t)
      PROVE  TypeInv'
  BY <1>1 DEF EnqueueLock
<1>2. ASSUME NEW t \in Tasks, Enqueue(t)
      PROVE  TypeInv'
  <2>1. Append(tasks, t) \in Seq(Tasks) /\ Append(accepted, t) \in Seq(Tasks)
    BY AppendProperties
  <2> QED
    BY <1>2, <2>1 DEF Enqueue
<1>3. ASSUME NEW t \in Tasks, NotifyOne(t)
      PROVE  TypeInv'
  BY <1>3 DEF NotifyOne
<1>4. ASSUME NEW w \in Workers, Lock(w) \/ Sleep(w) \/ Wake(w) \/ Exit(w)
      PROVE  TypeInv'
  BY SMTT(20), <1>4 DEF Lock, Sleep, Wake, Exit
<1>5. ASSUME NEW w \in Workers, Take(w)
      PROVE  TypeInv'
  <2>1. Head(tasks) \in Tasks /\ Tail(tasks) \in Seq(Tasks)
    BY <1>5, HeadTailProperties DEF Take
  <2> QED
    BY <1>5, <2>1 DEF Take
<1>6. ASSUME NEW w \in Workers, Run(w)
      PROVE  TypeInv'
  BY <1>6 DEF Run
<1>7. ASSUME NEW w \in Workers, SpuriousWake(w)
      PROVE  TypeInv'
  BY <1>7 DEF SpuriousWake
<1>8. CASE Shutdown
  BY <1>8 DEF Shutdown, ShutdownLock, SetStop, NotifyAll, Join
<1>9. CASE Terminated \/ UNCHANGED vars
  BY <1>9 DEF Terminated, vars
<1> QED
  BY <1>1, <1>2, <1>3, <1>4, <1>5, <1>6, <1>7, <1>8, <1>9
  DEF Next, Caller, WorkerStep

LEMMA TypeInvariance == Spec => []TypeInv
BY InitTypeInv, NextTypeInv, PTL DEF Spec

\* Every variable of the pool keeps its type: what a worker runs is always a
\* task that enqueue accepted.
THEOREM TypeCorrect == Spec => []TypeOK
BY TypeInvariance, PTL DEF TypeInv

-----------------------------------------------------------------------------
(* First in, first out.                                                    *)

FifoInv == TypeInv /\ Fifo

LEMMA InitFifo == Init => Fifo
BY DEF Init, Fifo

LEMMA NextFifo == FifoInv /\ [Next]_vars => Fifo'
<1> SUFFICES ASSUME FifoInv, [Next]_vars
             PROVE  Fifo'
  OBVIOUS
<1> USE DEF FifoInv, Fifo
<1> tasks \in Seq(Tasks) /\ accepted \in Seq(Tasks) /\ started \in Seq(Tasks)
  BY DEF TypeInv, TypeOK
<1>1. ASSUME NEW t \in Tasks, Enqueue(t)
      PROVE  Fifo'
  <2>1. CASE stop
    BY <1>1, <2>1 DEF Enqueue
  <2>2. CASE ~stop
    <3>1. tasks' = tasks \o <<t>> /\ accepted' = accepted \o <<t>>
      BY <1>1, <2>2, AppendIsConcat DEF Enqueue
    <3>2. <<t>> \in Seq(Tasks)
      OBVIOUS
    <3>3. (started \o tasks) \o <<t>> = started \o (tasks \o <<t>>)
      BY <3>2, ConcatAssociative
    <3> QED
      BY <1>1, <3>1, <3>3 DEF Enqueue
  <2> QED
    BY <2>1, <2>2
<1>2. ASSUME NEW w \in Workers, Take(w)
      PROVE  Fifo'
  <2>1. tasks # <<>>
    BY <1>2 DEF Take
  <2>2. /\ Head(tasks) \in Tasks
        /\ Tail(tasks) \in Seq(Tasks)
        /\ <<Head(tasks)>> \in Seq(Tasks)
    BY <2>1, HeadTailProperties
  <2>3. tasks = <<Head(tasks)>> \o Tail(tasks)
    BY <2>1, <2>2, HeadTailProperties
  <2>4. started' = started \o <<Head(tasks)>>
    BY <1>2, <2>2, AppendIsConcat DEF Take
  <2>5. (started \o <<Head(tasks)>>) \o Tail(tasks)
          = started \o (<<Head(tasks)>> \o Tail(tasks))
    BY <2>2, ConcatAssociative
  <2> QED
    BY <1>2, <2>3, <2>4, <2>5 DEF Take
<1>3. CASE UNCHANGED <<tasks, accepted, started>>
  BY <1>3
<1>4. ASSUME NEW t \in Tasks, EnqueueLock(t) \/ NotifyOne(t)
      PROVE  UNCHANGED <<tasks, accepted, started>>
  BY <1>4 DEF EnqueueLock, NotifyOne
<1>5. ASSUME NEW w \in Workers,
             Lock(w) \/ Sleep(w) \/ Wake(w) \/ Exit(w) \/ Run(w) \/ SpuriousWake(w)
      PROVE  UNCHANGED <<tasks, accepted, started>>
  BY <1>5 DEF Lock, Sleep, Wake, Exit, Run, SpuriousWake
<1>6. CASE Shutdown \/ Terminated \/ UNCHANGED vars
  BY <1>6 DEF Shutdown, ShutdownLock, SetStop, NotifyAll, Join, Terminated, vars
<1> QED
  BY <1>1, <1>2, <1>3, <1>4, <1>5, <1>6 DEF Next, Caller, WorkerStep

\* Tasks are started in the order enqueue accepted them, none twice, none
\* skipped, whatever the number of workers and of callers.
THEOREM FirstInFirstOut == Spec => []Fifo
BY TypeInvariance, InitFifo, NextFifo, PTL DEF Spec, FifoInv

-----------------------------------------------------------------------------
(* Sleeping, waking and stopping.                                          *)

\* Only threads in condition_.wait sleep; stop_ is what shutdown set; a worker
\* that exited has seen the queue empty for good; shutdown has joined them all.
WaitInv ==
  /\ \A w \in sleeping : worker[w] = "wait"
  /\ stop <=> owner \in {"notify", "join", "returned"}
  /\ \A w \in Workers : worker[w] = "exited" => stop /\ tasks = <<>>
  /\ owner = "returned" => \A w \in Workers : worker[w] = "exited"

SleepInv == WaitInv /\ NoLostWakeup /\ NobodySleepsAfterStop

LEMMA InitSleepInv == Init => SleepInv
BY DEF Init, SleepInv, WaitInv, NoLostWakeup, NobodySleepsAfterStop

LEMMA NextSleepInv == TypeInv /\ SleepInv /\ [Next]_vars => SleepInv'
<1> SUFFICES ASSUME TypeInv, SleepInv, [Next]_vars
             PROVE  SleepInv'
  OBVIOUS
<1> USE PoolAssumption
    DEF TypeInv, TypeOK, SleepInv, WaitInv, NoLostWakeup, NobodySleepsAfterStop
<1>1. ASSUME NEW t \in Tasks, EnqueueLock(t)
      PROVE  SleepInv'
  BY <1>1 DEF EnqueueLock
<1>2. ASSUME NEW t \in Tasks, Enqueue(t)
      PROVE  SleepInv'
  <2>1. CASE stop
    BY <1>2, <2>1 DEF Enqueue
  <2>2. CASE ~stop
    <3>1. caller'[t] = "notify"
      BY <1>2, <2>2 DEF Enqueue
    <3> QED
      BY <1>2, <2>2, <3>1 DEF Enqueue
  <2> QED
    BY <2>1, <2>2
<1>3. ASSUME NEW t \in Tasks, NotifyOne(t)
      PROVE  SleepInv'
  <2>1. sleeping' \subseteq sleeping /\ (sleeping # {} => sleeping' # sleeping)
    BY <1>3 DEF NotifyOne
  <2>2. UNCHANGED <<tasks, stop, worker, owner>>
    BY <1>3 DEF NotifyOne
  <2>3. PICK w \in Workers : w \notin sleeping'
    BY <2>1
  <2>4. NoLostWakeup'
    BY <2>2, <2>3
  <2> QED
    BY <2>1, <2>2, <2>4
<1>4. ASSUME NEW w \in Workers, Lock(w) \/ Wake(w) \/ SpuriousWake(w)
      PROVE  SleepInv'
  <2>1. /\ sleeping' \subseteq sleeping /\ w \notin sleeping'
        /\ UNCHANGED <<tasks, stop, owner, caller>>
        /\ worker' = worker \/ worker' = [worker EXCEPT ![w] = "locked"]
             \/ worker' = [worker EXCEPT ![w] = "lock"]
        /\ worker[w] \in {"lock", "wait"}
    BY <1>4 DEF Lock, Wake, SpuriousWake
  <2>2. worker'[w] # "exited"
    BY <2>1
  <2>3. NoLostWakeup'
    BY <2>1, <2>2
  <2>4. \A v \in sleeping' : worker'[v] = "wait"
    BY <2>1
  <2> QED
    BY <2>1, <2>3, <2>4
<1>5. ASSUME NEW w \in Workers, Sleep(w)
      PROVE  SleepInv'
  BY <1>5 DEF Sleep, MayProceed
<1>6. ASSUME NEW w \in Workers, Exit(w)
      PROVE  SleepInv'
  BY <1>6 DEF Exit
<1>7. ASSUME NEW w \in Workers, Take(w) \/ Run(w)
      PROVE  SleepInv'
  <2>1. worker'[w] \in {"run", "lock"} /\ w \notin sleeping'
    BY <1>7 DEF Take, Run
  <2> QED
    BY <1>7, <2>1 DEF Take, Run
<1>8. CASE Shutdown
  BY <1>8 DEF Shutdown, ShutdownLock, SetStop, NotifyAll, Join
<1>9. CASE Terminated \/ UNCHANGED vars
  BY <1>9 DEF Terminated, vars
<1> QED
  BY <1>1, <1>2, <1>3, <1>4, <1>5, <1>6, <1>7, <1>8, <1>9
  DEF Next, Caller, WorkerStep

LEMMA SleepInvariance == Spec => []SleepInv
BY TypeInvariance, InitSleepInv, NextSleepInv, PTL DEF Spec

\* No wakeup is lost between enqueue and the workers, although notify_one comes
\* after the mutex is released.
THEOREM NoWakeupIsLost == Spec => []NoLostWakeup
BY SleepInvariance, PTL DEF SleepInv

\* After notify_all no worker sleeps or goes to sleep: join cannot wait for one.
THEOREM ShutdownWakesAll == Spec => []NobodySleepsAfterStop
BY SleepInvariance, PTL DEF SleepInv

-----------------------------------------------------------------------------
(* Every task is run, once.                                                *)

Elements(s) == {s[i] : i \in 1..Len(s)}

LEMMA AppendElements ==
  ASSUME NEW S, NEW s \in Seq(S), NEW e \in S
  PROVE  Elements(Append(s, e)) = Elements(s) \cup {e}
BY AppendProperties DEF Elements

LEMMA ConcatElements ==
  ASSUME NEW S, NEW s \in Seq(S), NEW t \in Seq(S)
  PROVE  Elements(s \o t) = Elements(s) \cup Elements(t)
<1>1. Elements(s \o t) \subseteq Elements(s) \cup Elements(t)
  BY ConcatProperties DEF Elements
<1>2. Elements(s) \subseteq Elements(s \o t)
  BY ConcatProperties DEF Elements
<1>3. ASSUME NEW i \in 1..Len(t)
      PROVE  t[i] \in Elements(s \o t)
  <2>1. Len(s) + i \in 1..Len(s \o t) /\ (s \o t)[Len(s) + i] = t[i]
    BY ConcatProperties
  <2> QED
    BY <2>1 DEF Elements
<1> QED
  BY <1>1, <1>2, <1>3 DEF Elements

\* The tasks workers run, c being what each has in hand.
Held(c) == {c[w] : w \in {v \in Workers : c[v] # None}}

\* What was started is finished or in the hands of a worker; what was accepted
\* was submitted by a call that is past its critical section.
WorkInv ==
  /\ Elements(started) = finished \cup Held(current)
  /\ \A t \in Elements(accepted) : caller[t] \in {"notify", "returned"}

LEMMA InitWorkInv == Init => WorkInv
BY DEF Init, WorkInv, Elements, Held

LEMMA NextWorkInv == TypeInv /\ WorkInv /\ [Next]_vars => WorkInv'
<1> SUFFICES ASSUME TypeInv, WorkInv, [Next]_vars
             PROVE  WorkInv'
  OBVIOUS
<1> USE PoolAssumption DEF TypeInv, TypeOK, Hands, WorkInv
<1>0. Elements(accepted) \subseteq Tasks
  BY DEF Elements
<1>1. ASSUME NEW t \in Tasks, EnqueueLock(t)
      PROVE  WorkInv'
  <2>1. t \notin Elements(accepted)
    BY <1>1 DEF EnqueueLock
  <2> QED
    BY <1>0, <1>1, <2>1 DEF EnqueueLock
<1>2. ASSUME NEW t \in Tasks, Enqueue(t)
      PROVE  WorkInv'
  <2>1. t \notin Elements(accepted)
    BY <1>2 DEF Enqueue
  <2>2. UNCHANGED <<started, finished, current>>
    BY <1>2 DEF Enqueue
  <2>3. CASE stop
    <3>1. accepted' = accepted /\ caller' = [caller EXCEPT ![t] = "thrown"]
      BY <1>2, <2>3 DEF Enqueue
    <3> QED
      BY <1>0, <2>1, <2>2, <3>1
  <2>4. CASE ~stop
    <3>1. /\ accepted' = Append(accepted, t)
          /\ caller' = [caller EXCEPT ![t] = "notify"]
      BY <1>2, <2>4 DEF Enqueue
    <3>2. Elements(accepted') = Elements(accepted) \cup {t}
      BY <3>1, AppendElements
    <3>3. \A u \in Elements(accepted') : caller'[u] \in {"notify", "returned"}
      BY <1>0, <3>1, <3>2
    <3> QED
      BY <2>2, <3>3
  <2> QED
    BY <2>3, <2>4
<1>3. ASSUME NEW t \in Tasks, NotifyOne(t)
      PROVE  WorkInv'
  <2>1. /\ UNCHANGED <<started, finished, current, accepted>>
        /\ caller' = [caller EXCEPT ![t] = "returned"]
    BY <1>3 DEF NotifyOne
  <2> QED
    BY <1>0, <2>1
<1>4. ASSUME NEW w \in Workers, Take(w)
      PROVE  WorkInv'
  <2>1. Head(tasks) \in Tasks
    BY <1>4, HeadTailProperties DEF Take
  <2>2. /\ UNCHANGED <<finished, accepted, caller>>
        /\ current' = [current EXCEPT ![w] = Head(tasks)]
        /\ current[w] = None
        /\ started' = Append(started, Head(tasks))
    BY <1>4 DEF Take
  <2>3. Elements(started') = Elements(started) \cup {Head(tasks)}
    BY <2>1, <2>2, AppendElements
  <2>4. Held(current') = Held(current) \cup {Head(tasks)}
    <3>1. {v \in Workers : current'[v] # None}
            = {v \in Workers : current[v] # None} \cup {w}
      BY <2>1, <2>2
    <3> QED
      BY <2>1, <2>2, <3>1 DEF Held
  <2> QED
    BY <2>2, <2>3, <2>4
<1>5. ASSUME NEW w \in Workers, Run(w)
      PROVE  WorkInv'
  <2>1. /\ UNCHANGED <<started, accepted, caller>>
        /\ current' = [current EXCEPT ![w] = None]
        /\ current[w] # None
        /\ finished' = finished \cup {current[w]}
    BY <1>5 DEF Run
  <2>2. Held(current) = Held(current') \cup {current[w]}
    <3>1. {v \in Workers : current[v] # None}
            = {v \in Workers : current'[v] # None} \cup {w}
      BY <2>1
    <3> QED
      BY <2>1, <3>1 DEF Held
  <2> QED
    BY <2>1, <2>2
<1>6. ASSUME NEW w \in Workers,
             Lock(w) \/ Sleep(w) \/ Wake(w) \/ Exit(w) \/ SpuriousWake(w)
      PROVE  UNCHANGED <<started, accepted, finished, current, caller>>
  BY <1>6 DEF Lock, Sleep, Wake, Exit, SpuriousWake
<1>7. CASE Shutdown \/ Terminated \/ UNCHANGED vars
  BY <1>7 DEF Shutdown, ShutdownLock, SetStop, NotifyAll, Join, Terminated, vars
<1>8. CASE UNCHANGED <<started, accepted, finished, current, caller>>
  BY <1>8
<1> QED
  BY <1>1, <1>2, <1>3, <1>4, <1>5, <1>6, <1>7, <1>8
  DEF Next, Caller, WorkerStep

LEMMA WorkInvariance == Spec => []WorkInv
BY TypeInvariance, InitWorkInv, NextWorkInv, PTL DEF Spec

LEMMA DrainedAtReturn == TypeInv /\ Fifo /\ SleepInv /\ WorkInv => ShutdownDrains
<1> SUFFICES ASSUME TypeInv, Fifo, SleepInv, WorkInv, owner = "returned"
             PROVE  tasks = <<>> /\ finished = Elements(accepted)
  BY DEF ShutdownDrains, Elements
<1>1. \A w \in Workers : worker[w] = "exited"
  BY DEF SleepInv, WaitInv
<1>2. tasks = <<>>
  BY <1>1, PoolAssumption DEF SleepInv, WaitInv
<1>3. accepted = started
  BY <1>2, ConcatEmptySeq DEF Fifo, TypeInv, TypeOK
<1>4. \A w \in Workers : current[w] = None
  BY <1>1 DEF TypeInv, Hands
<1> QED
  BY <1>2, <1>3, <1>4 DEF WorkInv, Held

\* When shutdown returns, every task that enqueue ever accepted was run to its
\* end and none is queued.
THEOREM ShutdownDrainsPool == Spec => []ShutdownDrains
<1>1. Spec => []Fifo
  BY FirstInFirstOut
<1> QED
  BY <1>1, TypeInvariance, SleepInvariance, WorkInvariance, DrainedAtReturn, PTL

-----------------------------------------------------------------------------
(* The pool implements TaskQueue.                                          *)

LEMMA InitRefinement == Init => Abstract!Init
BY DEF Init, Abstract!Init

LEMMA NextRefinement ==
  TypeInv /\ Fifo /\ WorkInv /\ [Next]_vars => [Abstract!Next]_(Abstract!vars)
<1> SUFFICES ASSUME TypeInv, Fifo, WorkInv, [Next]_vars
             PROVE  Abstract!Next \/ UNCHANGED Abstract!vars
  OBVIOUS
<1> USE PoolAssumption DEF TypeInv, TypeOK, Hands
<1>1. ASSUME NEW t \in Tasks, Enqueue(t), ~stop
      PROVE  Abstract!Submit(t)
  <2>1. Elements(accepted) = Elements(started) \cup Elements(tasks)
    BY ConcatElements DEF Fifo
  <2>2. t \notin Elements(accepted)
    BY <1>1 DEF Enqueue, WorkInv
  <2>3. t \notin finished /\ t \notin Held(current)
    BY <2>1, <2>2 DEF WorkInv
  <2>4. t \notin {current[w] : w \in Workers}
    BY <2>3 DEF Held
  <2>5. t \notin {tasks[i] : i \in 1..Len(tasks)}
    BY <2>1, <2>2 DEF Elements
  <2>6. t \notin Abstract!Known
    BY <2>3, <2>4, <2>5 DEF Abstract!Known
  <2> QED
    BY <1>1, <2>6 DEF Enqueue, Abstract!Submit
<1>2. ASSUME NEW t \in Tasks, Enqueue(t), stop
      PROVE  UNCHANGED Abstract!vars
  BY <1>2 DEF Enqueue, Abstract!vars
<1>3. ASSUME NEW t \in Tasks, EnqueueLock(t) \/ NotifyOne(t)
      PROVE  UNCHANGED Abstract!vars
  BY <1>3 DEF EnqueueLock, NotifyOne, Abstract!vars
<1>4. ASSUME NEW w \in Workers, Take(w)
      PROVE  Abstract!Start(w)
  BY <1>4 DEF Take, Abstract!Start
<1>5. ASSUME NEW w \in Workers, Run(w)
      PROVE  Abstract!Finish(w)
  BY <1>5 DEF Run, Abstract!Finish
<1>6. ASSUME NEW w \in Workers,
             Lock(w) \/ Sleep(w) \/ Wake(w) \/ Exit(w) \/ SpuriousWake(w)
      PROVE  UNCHANGED Abstract!vars
  BY <1>6 DEF Lock, Sleep, Wake, Exit, SpuriousWake, Abstract!vars
<1>7. ASSUME SetStop
      PROVE  Abstract!CloseQueue
  BY <1>7 DEF SetStop, Abstract!CloseQueue
<1>8. CASE ShutdownLock \/ NotifyAll \/ Join \/ Terminated \/ UNCHANGED vars
  BY <1>8 DEF ShutdownLock, NotifyAll, Join, Terminated, vars, Abstract!vars
<1> QED
  BY <1>1, <1>2, <1>3, <1>4, <1>5, <1>6, <1>7, <1>8
  DEF Next, Caller, WorkerStep, Shutdown, Abstract!Next

\* The pool, with its mutex, its condition variable and its spurious wakeups,
\* implements the queue that those who call enqueue rely on.
THEOREM PoolImplementsTaskQueue == Spec => ImplementsTaskQueue
<1>1. Spec => []Fifo
  BY FirstInFirstOut
<1> QED
  BY <1>1, TypeInvariance, WorkInvariance, InitRefinement, NextRefinement, PTL
  DEF Spec, ImplementsTaskQueue, Abstract!Spec

-----------------------------------------------------------------------------
(* ConnPool: who has a connection.                                         *)

\* A caller has one from acquire to the push into available_.
Keeping == {"query", "release", "push"}

\* A connection is free once or with one caller: HandleCustody, without counting.
OneKeeper ==
  /\ \A c \in Callers : held[c] # NoHandle <=> client[c] \in Keeping
  /\ \A i, j \in 1..Len(available) : available[i] = available[j] => i = j
  /\ \A c, d \in Callers : held[c] = held[d] /\ held[c] # NoHandle => c = d
  /\ \A i \in 1..Len(available), c \in Callers : available[i] # held[c]
  /\ \A i \in 1..Len(available) : available[i] \in connections
  /\ \A c \in Callers : held[c] # NoHandle => held[c] \in connections
  /\ \A h \in connections : \/ \E i \in 1..Len(available) : available[i] = h
                            \/ \E c \in Callers : held[c] = h

\* Only those that found nothing wait, in a pool that is ready.
Sleepers ==
  /\ \A c \in waiting : client[c] = "wait"
  /\ waiting # {} => phase = "ready"

\* A connection that failed a query since the server is back is about to be reset
\* by the caller it failed, or was.
ResetSoon ==
  \A h \in broken : up /\ burnt[h] > 0 =>
    h \in bad /\ \E c \in Callers : held[c] = h /\ client[c] = "release"

DbInv ==
  /\ DbTypeOK
  /\ OneKeeper
  /\ Sleepers
  /\ PgLeavesNothingOpen
  /\ broken # {} => kind = "pg"
  /\ OneFailurePerOutage
  /\ ResetSoon

\* What Append and Tail do to the queue of free connections.
LEMMA FreedHandle ==
  ASSUME NEW q \in Seq(Handles), NEW h \in Handles
  PROVE  /\ Append(q, h) \in Seq(Handles)
         /\ Len(Append(q, h)) = Len(q) + 1 /\ Len(q) \in Nat
         /\ \A i \in 1..Len(q) : Append(q, h)[i] = q[i]
         /\ Append(q, h)[Len(q) + 1] = h
BY AppendProperties, LenProperties

LEMMA TakenHandle ==
  ASSUME NEW q \in Seq(Handles), q # <<>>
  PROVE  /\ Tail(q) \in Seq(Handles) /\ Head(q) \in Handles
         /\ Len(Tail(q)) = Len(q) - 1 /\ Len(q) \in Nat /\ Len(q) > 0
         /\ \A i \in 1..Len(q) - 1 : Tail(q)[i] = q[i + 1]
         /\ Head(q) = q[1]
BY HeadTailProperties, EmptySeq, LenProperties

LEMMA InitDbInv == DbInit => DbInv
<1> SUFFICES ASSUME DbInit
             PROVE  DbInv
  OBVIOUS
<1> USE ConnPoolAssumption DEF DbInit
<1>1. DbTypeOK
  BY EmptySeq DEF DbTypeOK
<1>2. OneKeeper
  BY DEF OneKeeper, Keeping
<1> QED
  BY <1>1, <1>2 DEF DbInv, Sleepers, PgLeavesNothingOpen, OneFailurePerOutage, ResetSoon

\* Steps that leave the queue, the callers and what they hold alone.
LEMMA CustodyUntouched ==
  ASSUME OneKeeper, UNCHANGED <<available, held, connections>>,
         \A c \in Callers : client'[c] \in Keeping <=> client[c] \in Keeping
  PROVE  OneKeeper'
BY DEF OneKeeper

LEMMA OpenKeepsCustody ==
  ASSUME DbInv, NEW h \in Handles, OpenOne(h)
  PROVE  OneKeeper'
<1>1. /\ available' = Append(available, h) /\ connections' = connections \cup {h}
      /\ h \notin connections /\ UNCHANGED <<held, client>>
  BY DEF OpenOne
<1>2. available \in Seq(Handles)
  BY DEF DbInv, DbTypeOK
<1>3. /\ Len(available') = Len(available) + 1 /\ Len(available) \in Nat
      /\ \A i \in 1..Len(available) : available'[i] = available[i]
      /\ available'[Len(available) + 1] = h
  BY <1>1, <1>2, FreedHandle
<1>4. OneKeeper
  BY DEF DbInv
<1>5. \A i \in 1..Len(available') : i \in 1..Len(available) \/ i = Len(available) + 1
  BY <1>3
<1>6. h # NoHandle
  BY ConnPoolAssumption
<1>7. \A i, j \in 1..Len(available') : available'[i] = available'[j] => i = j
  BY <1>1, <1>3, <1>4, <1>5 DEF OneKeeper
<1>8. \A i \in 1..Len(available'), c \in Callers : available'[i] # held'[c]
  BY <1>1, <1>3, <1>4, <1>5, <1>6 DEF OneKeeper
<1>9. \A g \in connections' : \/ \E i \in 1..Len(available') : available'[i] = g
                              \/ \E c \in Callers : held'[c] = g
  <2>1. Len(available) + 1 \in 1..Len(available')
        /\ 1..Len(available) \subseteq 1..Len(available')
    BY <1>3
  <2> QED
    BY <1>1, <1>3, <1>4, <2>1 DEF OneKeeper
<1>10. \A i \in 1..Len(available') : available'[i] \in connections'
  BY <1>1, <1>3, <1>4, <1>5 DEF OneKeeper
<1> QED
  BY <1>1, <1>4, <1>7, <1>8, <1>9, <1>10 DEF OneKeeper

LEMMA AcquireKeepsCustody ==
  ASSUME DbInv, NEW c \in Callers, Acquire(c)
  PROVE  OneKeeper'
<1> DEFINE h == Head(available)
<1>1. /\ available' = Tail(available) /\ available # <<>>
      /\ held' = [held EXCEPT ![c] = h] /\ client' = [client EXCEPT ![c] = "query"]
      /\ client[c] = "try" /\ UNCHANGED connections
  BY DEF Acquire, poolVars
<1>2. /\ available \in Seq(Handles) /\ held \in [Callers -> Handles \cup {NoHandle}]
      /\ client \in [Callers -> {"try", "wait", "query", "release", "push", "notify", "done"}]
  BY DEF DbInv, DbTypeOK
<1>3. /\ Len(available') = Len(available) - 1 /\ Len(available) \in Nat /\ Len(available) > 0
      /\ \A i \in 1..Len(available') : available'[i] = available[i + 1]
      /\ h = available[1] /\ h \in Handles
  BY <1>1, <1>2, TakenHandle
<1>4. OneKeeper
  BY DEF DbInv
<1>5. /\ h # NoHandle /\ h \in connections
      /\ \A i \in 1..Len(available') : i + 1 \in 1..Len(available) /\ i + 1 # 1
  BY <1>3, <1>4, ConnPoolAssumption DEF OneKeeper
<1> HIDE DEF h
<1>6. held'[c] = h /\ \A d \in Callers \ {c} : held'[d] = held[d] /\ client'[d] = client[d]
  BY <1>1, <1>2
<1>7. \A d \in Callers : held'[d] # NoHandle <=> client'[d] \in Keeping
  BY <1>1, <1>2, <1>4, <1>5, <1>6 DEF OneKeeper, Keeping
<1>8. \A i, j \in 1..Len(available') : available'[i] = available'[j] => i = j
  <2> SUFFICES ASSUME NEW i \in 1..Len(available'), NEW j \in 1..Len(available'),
                      available'[i] = available'[j]
               PROVE  i = j
    OBVIOUS
  <2>1. i + 1 = j + 1
    BY <1>3, <1>4, <1>5 DEF OneKeeper
  <2> QED
    BY <2>1
<1>9. \A d, e \in Callers : held'[d] = held'[e] /\ held'[d] # NoHandle => d = e
  <2>1. \A d \in Callers : held[d] # h
    BY <1>3, <1>4, <1>5 DEF OneKeeper
  <2> QED
    BY <1>4, <1>6, <2>1 DEF OneKeeper
<1>10. \A i \in 1..Len(available'), d \in Callers : available'[i] # held'[d]
  BY <1>3, <1>4, <1>5, <1>6 DEF OneKeeper
<1>11. \A i \in 1..Len(available') : available'[i] \in connections'
  BY <1>1, <1>3, <1>4, <1>5 DEF OneKeeper
<1>12. \A d \in Callers : held'[d] # NoHandle => held'[d] \in connections'
  BY <1>1, <1>4, <1>5, <1>6 DEF OneKeeper
<1>13. ASSUME NEW g \in connections'
       PROVE  \/ \E i \in 1..Len(available') : available'[i] = g
              \/ \E d \in Callers : held'[d] = g
  <2>1. CASE \E d \in Callers : held[d] = g
    <3>1. held[c] = NoHandle /\ g # NoHandle
      BY <1>1, <1>2, <1>4, <1>13, ConnPoolAssumption DEF OneKeeper, Keeping, DbInv, DbTypeOK
    <3> QED
      BY <1>6, <2>1, <3>1
  <2>2. ASSUME NEW i \in 1..Len(available), available[i] = g
        PROVE  \/ \E j \in 1..Len(available') : available'[j] = g
               \/ \E d \in Callers : held'[d] = g
    <3>1. CASE i = 1
      BY <1>3, <1>6, <2>2, <3>1
    <3>2. CASE i # 1
      <4>1. i - 1 \in 1..Len(available') /\ (i - 1) + 1 = i
        BY <1>3, <3>2
      <4> QED
        BY <1>3, <2>2, <4>1
    <3> QED
      BY <3>1, <3>2
  <2> QED
    BY <1>1, <1>4, <2>1, <2>2 DEF OneKeeper
<1> QED
  BY <1>7, <1>8, <1>9, <1>10, <1>11, <1>12, <1>13 DEF OneKeeper

LEMMA PushKeepsCustody ==
  ASSUME DbInv, NEW c \in Callers, Push(c)
  PROVE  OneKeeper'
<1> DEFINE h == held[c]
<1>1. /\ available' = Append(available, h) /\ held' = [held EXCEPT ![c] = NoHandle]
      /\ client' = [client EXCEPT ![c] = "notify"]
      /\ client[c] = "push" /\ UNCHANGED connections
  BY DEF Push, poolVars
<1>2. /\ available \in Seq(Handles) /\ held \in [Callers -> Handles \cup {NoHandle}]
      /\ client \in [Callers -> {"try", "wait", "query", "release", "push", "notify", "done"}]
  BY DEF DbInv, DbTypeOK
<1>3. OneKeeper
  BY DEF DbInv
<1>4. h \in Handles /\ h # NoHandle /\ h \in connections
  BY <1>1, <1>2, <1>3 DEF OneKeeper, Keeping
<1>5. /\ Len(available') = Len(available) + 1 /\ Len(available) \in Nat
      /\ \A i \in 1..Len(available) : available'[i] = available[i]
      /\ available'[Len(available) + 1] = h
  BY <1>1, <1>2, <1>4, FreedHandle
<1>6. held'[c] = NoHandle /\ \A d \in Callers \ {c} : held'[d] = held[d] /\ client'[d] = client[d]
  BY <1>1, <1>2
<1>7. \A i \in 1..Len(available') : i \in 1..Len(available) \/ i = Len(available) + 1
  BY <1>5
<1>8. \A i \in 1..Len(available) : available[i] # h /\ available[i] # NoHandle
  BY <1>2, <1>3, ConnPoolAssumption, ElementOfSeq DEF OneKeeper
<1>9. \A d \in Callers : held'[d] # NoHandle <=> client'[d] \in Keeping
  BY <1>1, <1>2, <1>3, <1>6 DEF OneKeeper, Keeping
<1>10. \A i, j \in 1..Len(available') : available'[i] = available'[j] => i = j
  BY <1>3, <1>5, <1>7, <1>8 DEF OneKeeper
<1>11. \A d, e \in Callers : held'[d] = held'[e] /\ held'[d] # NoHandle => d = e
  BY <1>3, <1>6 DEF OneKeeper
<1>12. \A i \in 1..Len(available'), d \in Callers : available'[i] # held'[d]
  <2>1. \A d \in Callers \ {c} : held[d] # h
    BY <1>3, <1>4 DEF OneKeeper
  <2> QED
    BY <1>3, <1>4, <1>5, <1>6, <1>7, <1>8, <2>1 DEF OneKeeper
<1>13. \A i \in 1..Len(available') : available'[i] \in connections'
  BY <1>1, <1>3, <1>4, <1>5, <1>7 DEF OneKeeper
<1>14. \A d \in Callers : held'[d] # NoHandle => held'[d] \in connections'
  BY <1>1, <1>3, <1>6 DEF OneKeeper
<1>15. \A g \in connections' : \/ \E i \in 1..Len(available') : available'[i] = g
                               \/ \E d \in Callers : held'[d] = g
  <2>1. Len(available) + 1 \in 1..Len(available')
        /\ 1..Len(available) \subseteq 1..Len(available')
    BY <1>5
  <2> QED
    BY <1>1, <1>3, <1>5, <1>6, <2>1 DEF OneKeeper
<1> QED
  BY <1>9, <1>10, <1>11, <1>12, <1>13, <1>14, <1>15 DEF OneKeeper

\* A step is one of these.
LEMMA NextKeepsCustody == DbInv /\ [DbNext]_dbVars => OneKeeper'
<1> SUFFICES ASSUME DbInv, [DbNext]_dbVars
             PROVE  OneKeeper'
  OBVIOUS
<1>0. /\ OneKeeper
      /\ client \in [Callers -> {"try", "wait", "query", "release", "push", "notify", "done"}]
  BY DEF DbInv, DbTypeOK
<1>1. ASSUME NEW h \in Handles, OpenOne(h) \/ PragmaFails(h)
      PROVE  OneKeeper'
  <2>1. CASE PragmaFails(h)
    BY <1>0, <2>1, CustodyUntouched DEF PragmaFails
  <2> QED
    BY <1>1, <2>1, OpenKeepsCustody
<1>2. CASE OpenFails \/ Destroy \/ Outage \/ Return \/ UNCHANGED dbVars \/ DbTerminated
  <2>1. UNCHANGED <<available, held, connections, client>>
    BY <1>2 DEF OpenFails, Destroy, Outage, Return, DbTerminated, dbVars, poolVars
  <2> QED
    BY <1>0, <2>1, CustodyUntouched
<1>3. ASSUME NEW c \in Callers, Client(c) \/ WakeForNothing(c)
      PROVE  OneKeeper'
  <2>1. CASE \/ Wait(c) \/ Query(c) \/ Reset(c) \/ Notify(c) \/ WakeUp(c)
             \/ WakeForNothing(c)
    <3>1. UNCHANGED <<available, held, connections>>
      BY <2>1 DEF Wait, Query, Reset, Notify, WakeUp, WakeForNothing, poolVars
    <3>2. \A d \in Callers : client'[d] \in Keeping <=> client[d] \in Keeping
      BY <1>0, <2>1 DEF Wait, Query, Reset, Notify, WakeUp, WakeForNothing, Keeping
    <3> QED
      BY <1>0, <3>1, <3>2, CustodyUntouched
  <2> QED
    BY <1>3, <2>1, AcquireKeepsCustody, PushKeepsCustody DEF Client
<1> QED
  BY <1>1, <1>2, <1>3 DEF DbNext

LEMMA NextDbTypeOK == DbInv /\ [DbNext]_dbVars => DbTypeOK'
<1> SUFFICES ASSUME DbInv, [DbNext]_dbVars
             PROVE  DbTypeOK'
  OBVIOUS
<1>0. DbTypeOK /\ OneKeeper
  BY DEF DbInv
<1> USE ConnPoolAssumption DEF DbTypeOK
<1>1. ASSUME NEW h \in Handles, OpenOne(h)
      PROVE  DbTypeOK'
  <2>1. Append(available, h) \in Seq(Handles)
    BY <1>0, FreedHandle
  <2> QED
    BY <1>0, <1>1, <2>1 DEF OpenOne, envVars
<1>2. ASSUME NEW h \in Handles, PragmaFails(h)
      PROVE  DbTypeOK'
  BY <1>0, <1>2 DEF PragmaFails, envVars
<1>3. CASE OpenFails \/ Destroy
  BY <1>0, <1>3 DEF OpenFails, Destroy, envVars
<1>4. CASE Outage
  <2>1. outages + 1 \in 0..MaxOutages
    BY <1>0, <1>4 DEF Outage
  <2> QED
    BY <1>0, <1>4, <2>1 DEF Outage, poolVars
<1>5. CASE Return
  BY <1>0, <1>5 DEF Return, poolVars
<1>6. ASSUME NEW c \in Callers, Wait(c) \/ WakeUp(c) \/ WakeForNothing(c)
      PROVE  DbTypeOK'
  BY <1>0, <1>6 DEF Wait, WakeUp, WakeForNothing, poolVars, envVars
<1>7. ASSUME NEW c \in Callers, Acquire(c)
      PROVE  DbTypeOK'
  <2>1. Tail(available) \in Seq(Handles) /\ Head(available) \in Handles
    BY <1>0, <1>7, TakenHandle DEF Acquire
  <2> QED
    BY <1>0, <1>7, <2>1 DEF Acquire, poolVars, envVars
<1>8. ASSUME NEW c \in Callers, Query(c)
      PROVE  DbTypeOK'
  <2>1. held[c] \in Handles
    BY <1>0, <1>8 DEF Query, OneKeeper, Keeping
  <2>2. bad' \subseteq Handles /\ burnt' \in [Handles -> Nat]
    BY <1>0, <1>8, <2>1 DEF Query
  <2> QED
    BY <1>0, <1>8, <2>2 DEF Query, poolVars
<1>9. ASSUME NEW c \in Callers, Reset(c)
      PROVE  DbTypeOK'
  <2>1. broken' \subseteq Handles /\ bad' \subseteq Handles
    BY <1>0, <1>9 DEF Reset
  <2>2. client' = [client EXCEPT ![c] = "push"]
    BY <1>9 DEF Reset
  <2> QED
    BY <1>0, <1>9, <2>1, <2>2 DEF Reset, poolVars
<1>10. ASSUME NEW c \in Callers, Push(c)
       PROVE  DbTypeOK'
  <2>1. held[c] \in Handles
    BY <1>0, <1>10 DEF Push, OneKeeper, Keeping
  <2>2. Append(available, held[c]) \in Seq(Handles)
    BY <1>0, <2>1, FreedHandle
  <2> QED
    BY <1>0, <1>10, <2>2 DEF Push, poolVars, envVars
<1>11. ASSUME NEW c \in Callers, Notify(c)
       PROVE  DbTypeOK'
  BY <1>0, <1>11 DEF Notify, poolVars, envVars
<1>12. CASE UNCHANGED dbVars \/ DbTerminated
  BY <1>0, <1>12 DEF dbVars, DbTerminated
<1> QED
  BY <1>1, <1>2, <1>3, <1>4, <1>5, <1>6, <1>7, <1>8, <1>9, <1>10, <1>11, <1>12
     DEF DbNext, Client

LEMMA NextSleepers == DbInv /\ [DbNext]_dbVars => Sleepers' /\ PgLeavesNothingOpen'
<1> SUFFICES ASSUME DbInv, [DbNext]_dbVars
             PROVE  Sleepers' /\ PgLeavesNothingOpen'
  OBVIOUS
<1>0. /\ Sleepers /\ PgLeavesNothingOpen
      /\ client \in [Callers -> {"try", "wait", "query", "release", "push", "notify", "done"}]
      /\ waiting \subseteq Callers
  BY DEF DbInv, DbTypeOK
<1> USE DEF Sleepers, PgLeavesNothingOpen
<1>1. ASSUME NEW h \in Handles, OpenOne(h) \/ PragmaFails(h)
      PROVE  Sleepers' /\ PgLeavesNothingOpen'
  BY <1>0, <1>1 DEF OpenOne, PragmaFails
<1>2. CASE OpenFails \/ Destroy
  BY <1>0, <1>2 DEF OpenFails, Destroy
<1>3. CASE Outage \/ Return \/ UNCHANGED dbVars \/ DbTerminated
  BY <1>0, <1>3 DEF Outage, Return, dbVars, DbTerminated, poolVars
<1>4. ASSUME NEW c \in Callers, Client(c) \/ WakeForNothing(c)
      PROVE  Sleepers' /\ PgLeavesNothingOpen'
  <2>1. UNCHANGED poolVars
    BY <1>4 DEF Client, Wait, Acquire, Query, Reset, Push, Notify, WakeUp, WakeForNothing
  <2>2. \A d \in waiting' : client'[d] = "wait"
    BY <1>0, <1>4 DEF Client, Wait, Acquire, Query, Reset, Push, Notify, WakeUp,
                      WakeForNothing
  <2>3. waiting' # {} => phase = "ready"
    BY <1>0, <1>4 DEF Client, Wait, Acquire, Query, Reset, Push, Notify, WakeUp,
                      WakeForNothing
  <2> QED
    BY <1>0, <2>1, <2>2, <2>3 DEF poolVars
<1> QED
  BY <1>1, <1>2, <1>3, <1>4 DEF DbNext

\* A query that fails once the server is back is the connection's first.
LEMMA NextResetSoon ==
  DbInv /\ [DbNext]_dbVars =>
    (broken # {} => kind = "pg")' /\ OneFailurePerOutage' /\ ResetSoon'
<1> SUFFICES ASSUME DbInv, [DbNext]_dbVars
             PROVE  (broken # {} => kind = "pg")' /\ OneFailurePerOutage' /\ ResetSoon'
  OBVIOUS
<1>0. /\ DbTypeOK /\ OneKeeper /\ OneFailurePerOutage /\ ResetSoon
      /\ broken # {} => kind = "pg"
      /\ held \in [Callers -> Handles \cup {NoHandle}] /\ burnt \in [Handles -> Nat]
      /\ client \in [Callers -> {"try", "wait", "query", "release", "push", "notify", "done"}]
  BY DEF DbInv, DbTypeOK
<1> USE DEF OneFailurePerOutage, ResetSoon
<1>1. CASE UNCHANGED <<kind, envVars>> /\ \A c \in Callers : client[c] = "release" =>
                                            client'[c] = "release" /\ held'[c] = held[c]
  BY <1>0, <1>1 DEF envVars
<1>2. ASSUME NEW c \in Callers, Query(c)
      PROVE  (broken # {} => kind = "pg")' /\ OneFailurePerOutage' /\ ResetSoon'
  <2> DEFINE h == held[c]
  <2>1. /\ client[c] = "query" /\ client' = [client EXCEPT ![c] = "release"]
        /\ UNCHANGED <<kind, held, up, broken>>
        /\ IF h \in broken
           THEN bad' = bad \cup {h} /\ burnt' = [burnt EXCEPT ![h] = IF up THEN @ + 1 ELSE @]
           ELSE UNCHANGED <<bad, burnt>>
    BY <1>2 DEF Query, poolVars
  <2>2. h \in Handles /\ h # NoHandle
    BY <1>0, <2>1 DEF OneKeeper, Keeping
  <2>3. \A d \in Callers : held[d] = h => d = c
    BY <1>0, <2>2 DEF OneKeeper
  <2>4. h \in broken /\ up => burnt[h] = 0
    <3>1. h \in broken /\ up => ~(burnt[h] > 0)
      BY <1>0, <2>1, <2>3
    <3> QED
      BY <1>0, <2>2, <3>1
  <2>5. client'[c] = "release" /\ \A d \in Callers : client[d] = "release" => client'[d] = "release"
    BY <1>0, <2>1
  <2>6. \A g \in Handles : \/ burnt'[g] = burnt[g]
                           \/ g = h /\ burnt[h] = 0 /\ burnt'[h] = 1
    <3>1. CASE h \in broken /\ up
      <4>1. burnt' = [burnt EXCEPT ![h] = burnt[h] + 1]
        BY <2>1, <3>1
      <4> HIDE DEF h
      <4> QED
        BY <1>0, <2>2, <2>4, <3>1, <4>1
    <3>2. CASE ~(h \in broken /\ up)
      <4>1. CASE h \notin broken
        BY <2>1, <4>1
      <4>2. CASE h \in broken /\ ~up
        <5>1. burnt' = [burnt EXCEPT ![h] = burnt[h]]
          BY <2>1, <4>2
        <5> QED
          BY <1>0, <5>1
      <4> QED
        BY <3>2, <4>1, <4>2
    <3> QED
      BY <3>1, <3>2
  <2>7. OneFailurePerOutage'
    BY <1>0, <2>6
  <2>8. ASSUME NEW g \in broken, up, burnt'[g] > 0
        PROVE  g \in bad' /\ \E d \in Callers : held[d] = g /\ client'[d] = "release"
    <3>1. CASE g = h
      BY <2>1, <2>5, <2>8, <3>1
    <3>2. CASE g # h
      <4>1. burnt'[g] = burnt[g]
        BY <1>0, <2>1, <2>2, <3>2, <2>8 DEF DbTypeOK
      <4>2. g \in bad /\ \E d \in Callers : held[d] = g /\ client[d] = "release"
        BY <1>0, <2>8, <4>1
      <4> QED
        BY <2>1, <2>5, <4>2
    <3> QED
      BY <3>1, <3>2
  <2> QED
    BY <1>0, <2>1, <2>7, <2>8
<1>3. ASSUME NEW c \in Callers, Reset(c)
      PROVE  (broken # {} => kind = "pg")' /\ OneFailurePerOutage' /\ ResetSoon'
  <2> DEFINE h == held[c]
  <2>1. /\ client[c] = "release" /\ client' = [client EXCEPT ![c] = "push"]
        /\ UNCHANGED <<kind, held, up, burnt>>
        /\ IF kind = "pg" /\ up
           THEN broken' = broken \ ({h} \cap bad) /\ bad' = bad \ {h}
           ELSE UNCHANGED <<broken, bad>>
    BY <1>3 DEF Reset, poolVars
  <2>2. \A d \in Callers \ {c} : client'[d] = client[d]
    BY <1>0, <2>1
  <2>3. ASSUME NEW g \in broken', up, burnt[g] > 0
        PROVE  g \in bad' /\ \E d \in Callers : held[d] = g /\ client'[d] = "release"
    <3>1. g \in broken /\ kind = "pg"
      BY <1>0, <2>1, <2>3
    <3>2. PICK d \in Callers : g \in bad /\ held[d] = g /\ client[d] = "release"
      BY <1>0, <2>3, <3>1
    <3>3. g # h
      BY <2>1, <2>3, <3>1, <3>2
    <3> QED
      BY <2>1, <2>2, <2>3, <3>1, <3>2, <3>3
  <2>4. broken' \subseteq broken
    BY <2>1
  <2> QED
    BY <1>0, <2>1, <2>3, <2>4
<1>4. CASE Outage
  BY <1>0, <1>4 DEF Outage, poolVars
<1>5. CASE Return
  <2>1. /\ burnt' = [g \in Handles |-> 0] /\ UNCHANGED <<kind, broken>>
        /\ broken \subseteq Handles
    BY <1>0, <1>5 DEF Return, poolVars, DbTypeOK
  <2> QED
    BY <1>0, <2>1
<1>6. ASSUME NEW c \in Callers, \/ Wait(c) \/ WakeUp(c) \/ Acquire(c) \/ Push(c) \/ Notify(c)
                                \/ WakeForNothing(c)
      PROVE  UNCHANGED <<kind, envVars>> /\ \A d \in Callers : client[d] = "release" =>
                                              client'[d] = "release" /\ held'[d] = held[d]
  BY <1>0, <1>6 DEF Wait, WakeUp, Acquire, Push, Notify, WakeForNothing, poolVars
<1>7. CASE \/ \E h \in Handles : OpenOne(h) \/ PragmaFails(h)
           \/ OpenFails \/ Destroy \/ UNCHANGED dbVars \/ DbTerminated
  <2>1. UNCHANGED <<kind, envVars, client, held>>
    BY <1>7 DEF OpenOne, PragmaFails, OpenFails, Destroy, dbVars, DbTerminated, envVars
  <2> QED
    BY <1>1, <2>1
<1> QED
  BY <1>1, <1>2, <1>3, <1>4, <1>5, <1>6, <1>7 DEF DbNext, Client

LEMMA NextDbInv == DbInv /\ [DbNext]_dbVars => DbInv'
BY NextKeepsCustody, NextDbTypeOK, NextSleepers, NextResetSoon DEF DbInv

LEMMA DbInvariance == DbSpec => []DbInv
BY InitDbInv, NextDbInv, PTL DEF DbSpec

\* At most one x has a property: their number.
LEMMA CountOne ==
  ASSUME NEW S, \A x, y \in S : x = y
  PROVE  /\ IsFiniteSet(S)
         /\ Cardinality(S) = IF S = {} THEN 0 ELSE 1
<1>1. CASE S = {}
  BY <1>1, FS_EmptySet
<1>2. ASSUME NEW x \in S
      PROVE  IsFiniteSet(S) /\ Cardinality(S) = 1
  <2>1. S = {x}
    OBVIOUS
  <2> QED
    BY <2>1, FS_Singleton
<1> QED
  BY <1>1, <1>2

LEMMA CustodyCounts == DbTypeOK /\ OneKeeper => HandleCustody
<1> SUFFICES ASSUME DbTypeOK, OneKeeper, NEW h \in connections
             PROVE  Cardinality({i \in DOMAIN available : available[i] = h}) +
                    Cardinality({c \in Callers : held[c] = h}) = 1
  BY DEF HandleCustody
<1> DEFINE Free == {i \in DOMAIN available : available[i] = h}
           Keepers == {c \in Callers : held[c] = h}
<1>1. DOMAIN available = 1..Len(available) /\ h # NoHandle
  BY ConnPoolAssumption, LenProperties DEF DbTypeOK
<1>2. /\ \A i, j \in Free : i = j
      /\ \A c, d \in Keepers : c = d
      /\ Free = {} \/ Keepers = {}
      /\ Free # {} \/ Keepers # {}
  BY <1>1 DEF OneKeeper
<1> HIDE DEF Free, Keepers
<1>3. /\ Cardinality(Free) = IF Free = {} THEN 0 ELSE 1
      /\ Cardinality(Keepers) = IF Keepers = {} THEN 0 ELSE 1
  BY <1>2, CountOne
<1>4. Cardinality(Free) + Cardinality(Keepers) = 1
  BY <1>2, <1>3
<1> QED
  BY <1>4 DEF Free, Keepers

\* No connection is lost or handed out twice, whatever callers do and however often
\* the server goes away, and the constructor of PgPool closes what it opened.
THEOREM HandlesAreKept == DbSpec => []HandlesKept
<1>1. DbInv => HandlesKept
  BY CustodyCounts DEF DbInv, HandlesKept
<1> QED
  BY <1>1, DbInvariance, PTL

\* A connection of PgPool fails one query per outage at most.
THEOREM OneFailure == DbSpec => []OneFailurePerOutage
<1>1. DbInv => OneFailurePerOutage
  BY DEF DbInv
<1> QED
  BY <1>1, DbInvariance, PTL

-----------------------------------------------------------------------------
(* ConnPool: who wakes whom.                                               *)

Notifiers == {c \in Callers : client[c] = "notify"}
Lookers == {c \in Callers : client[c] \in {"try", "wait"} /\ c \notin waiting}

LEMMA Counted ==
  /\ IsFiniteSet(Notifiers) /\ Cardinality(Notifiers) \in Nat
  /\ IsFiniteSet(Lookers) /\ Cardinality(Lookers) \in Nat
<1>1. Notifiers \in SUBSET Callers /\ Lookers \in SUBSET Callers
  BY DEF Notifiers, Lookers
<1> QED
  BY <1>1, ConnPoolAssumption, FS_Subset, FS_CardinalityType

\* A caller that leaves a finite set, or joins it, changes its number by one.
LEMMA OneOut ==
  ASSUME NEW S, IsFiniteSet(S), NEW c \in S
  PROVE  IsFiniteSet(S \ {c}) /\ Cardinality(S \ {c}) = Cardinality(S) - 1
BY FS_RemoveElement

LEMMA OneIn ==
  ASSUME NEW S, IsFiniteSet(S), NEW c, c \notin S
  PROVE  IsFiniteSet(S \cup {c}) /\ Cardinality(S \cup {c}) = Cardinality(S) + 1
BY FS_AddElement

\* Where Notifiers and Lookers are what they were, only the queue matters.
LEMMA WakeupUntouched ==
  ASSUME HandleWakeup, UNCHANGED available,
         \A c \in Callers : /\ client'[c] = "notify" <=> client[c] = "notify"
                            /\ (client'[c] \in {"try", "wait"} /\ c \notin waiting')
                                 <=> (client[c] \in {"try", "wait"} /\ c \notin waiting),
         waiting' # {} => waiting # {}
  PROVE  HandleWakeup'
<1>1. Notifiers' = Notifiers /\ Lookers' = Lookers
  BY DEF Notifiers, Lookers
<1> QED
  BY <1>1 DEF HandleWakeup, Notifiers, Lookers

LEMMA NextHandleWakeup == DbInv /\ HandleWakeup /\ [DbNext]_dbVars => HandleWakeup'
<1> SUFFICES ASSUME DbInv, HandleWakeup, [DbNext]_dbVars
             PROVE  HandleWakeup'
  OBVIOUS
<1>0. /\ available \in Seq(Handles) /\ Len(available) \in Nat
      /\ client \in [Callers -> {"try", "wait", "query", "release", "push", "notify", "done"}]
      /\ waiting \subseteq Callers /\ Sleepers /\ OneKeeper
      /\ held \in [Callers -> Handles \cup {NoHandle}]
  BY LenProperties DEF DbInv, DbTypeOK
<1>1. waiting # {} => Len(available) <= Cardinality(Notifiers) + Cardinality(Lookers)
  BY DEF HandleWakeup, Notifiers, Lookers
<1>2. SUFFICES waiting' # {} => Len(available') <= Cardinality(Notifiers') + Cardinality(Lookers')
  BY DEF HandleWakeup, Notifiers, Lookers
<1>3. CASE UNCHANGED <<available, client, waiting>>
  BY <1>1, <1>3 DEF Notifiers, Lookers
<1>4. CASE \E h \in Handles : OpenOne(h) \/ PragmaFails(h)
  BY <1>0, <1>4 DEF OpenOne, PragmaFails, Sleepers
<1>5. CASE OpenFails \/ Destroy \/ Outage \/ Return \/ UNCHANGED dbVars \/ DbTerminated
  BY <1>3, <1>5 DEF OpenFails, Destroy, Outage, Return, dbVars, DbTerminated
<1>6. ASSUME NEW c \in Callers, Wait(c)
      PROVE  Len(available') <= Cardinality(Notifiers') + Cardinality(Lookers')
  <2>1. available' = <<>> /\ Len(<<>>) = 0
    BY <1>6 DEF Wait
  <2>2. Cardinality(Notifiers') \in Nat /\ Cardinality(Lookers') \in Nat
    <3>1. Notifiers' \in SUBSET Callers /\ Lookers' \in SUBSET Callers
      BY DEF Notifiers, Lookers
    <3> QED
      BY <3>1, ConnPoolAssumption, FS_Subset, FS_CardinalityType
  <2> QED
    BY <2>1, <2>2
<1>7. ASSUME NEW c \in Callers, WakeUp(c) \/ Query(c) \/ Reset(c)
      PROVE  HandleWakeup'
  <2>1. UNCHANGED <<available, waiting>>
    BY <1>7 DEF WakeUp, Query, Reset
  <2>2. ASSUME NEW d \in Callers
        PROVE  /\ client'[d] = "notify" <=> client[d] = "notify"
               /\ (client'[d] \in {"try", "wait"} /\ d \notin waiting')
                    <=> (client[d] \in {"try", "wait"} /\ d \notin waiting)
    BY <1>0, <1>7 DEF WakeUp, Query, Reset
  <2> QED
    BY <2>1, <2>2, WakeupUntouched
<1>8. ASSUME NEW c \in Callers, WakeForNothing(c), waiting' # {}
      PROVE  Len(available') <= Cardinality(Notifiers') + Cardinality(Lookers')
  <2>1. /\ c \in waiting /\ waiting' = waiting \ {c} /\ UNCHANGED <<available, client>>
        /\ client[c] = "wait"
    BY <1>0, <1>8 DEF WakeForNothing, Sleepers
  <2>2. Notifiers' = Notifiers /\ Lookers' = Lookers \cup {c} /\ c \notin Lookers
    BY <1>0, <2>1 DEF Notifiers, Lookers
  <2>3. Cardinality(Lookers') = Cardinality(Lookers) + 1
    BY <2>2, Counted, OneIn
  <2> QED
    BY <1>0, <1>1, <2>1, <2>2, <2>3, Counted
<1>9. ASSUME NEW c \in Callers, Acquire(c), waiting' # {}
      PROVE  Len(available') <= Cardinality(Notifiers') + Cardinality(Lookers')
  <2>1. /\ available # <<>> /\ available' = Tail(available) /\ client[c] = "try"
        /\ client' = [client EXCEPT ![c] = "query"] /\ UNCHANGED waiting
    BY <1>9 DEF Acquire
  <2>2. Len(available') = Len(available) - 1
    BY <1>0, <2>1, TakenHandle
  <2>3. c \notin waiting
    BY <1>0, <2>1 DEF Sleepers
  <2>4. Notifiers' = Notifiers /\ Lookers' = Lookers \ {c} /\ c \in Lookers
    BY <1>0, <2>1, <2>3 DEF Notifiers, Lookers
  <2>5. Cardinality(Lookers') = Cardinality(Lookers) - 1
    BY <2>4, Counted, OneOut
  <2> QED
    BY <1>0, <1>1, <1>9, <2>1, <2>2, <2>4, <2>5, Counted
<1>10. ASSUME NEW c \in Callers, Push(c), waiting' # {}
       PROVE  Len(available') <= Cardinality(Notifiers') + Cardinality(Lookers')
  <2>1. /\ available' = Append(available, held[c]) /\ client[c] = "push"
        /\ client' = [client EXCEPT ![c] = "notify"] /\ UNCHANGED waiting
    BY <1>10 DEF Push
  <2>2. held[c] \in Handles
    BY <1>0, <2>1 DEF OneKeeper, Keeping
  <2>3. Len(available') = Len(available) + 1
    BY <1>0, <2>1, <2>2, FreedHandle
  <2>4. Notifiers' = Notifiers \cup {c} /\ c \notin Notifiers /\ Lookers' = Lookers
    BY <1>0, <2>1 DEF Notifiers, Lookers
  <2>5. Cardinality(Notifiers') = Cardinality(Notifiers) + 1
    BY <2>4, Counted, OneIn
  <2> QED
    BY <1>0, <1>1, <1>10, <2>1, <2>3, <2>4, <2>5, Counted
<1>11. ASSUME NEW c \in Callers, Notify(c), waiting' # {}
       PROVE  Len(available') <= Cardinality(Notifiers') + Cardinality(Lookers')
  <2>1. waiting # {}
    BY <1>11 DEF Notify
  <2>2. PICK w \in waiting : waiting' = waiting \ {w}
    BY <1>11, <2>1 DEF Notify
  <2>3. /\ client[c] = "notify" /\ client' = [client EXCEPT ![c] = "done"]
        /\ UNCHANGED available /\ client[w] = "wait" /\ w \in Callers
    BY <1>0, <1>11, <2>2 DEF Notify, Sleepers
  <2>4. /\ Notifiers' = Notifiers \ {c} /\ c \in Notifiers
        /\ Lookers' = Lookers \cup {w} /\ w \notin Lookers
    BY <1>0, <2>2, <2>3 DEF Notifiers, Lookers
  <2>5. /\ Cardinality(Notifiers') = Cardinality(Notifiers) - 1
        /\ Cardinality(Lookers') = Cardinality(Lookers) + 1
    BY <2>4, Counted, OneIn, OneOut
  <2> QED
    BY <1>0, <1>1, <2>1, <2>3, <2>5, Counted
<1> QED
  BY <1>2, <1>4, <1>5, <1>6, <1>7, <1>8, <1>9, <1>10, <1>11
     DEF DbNext, Client, HandleWakeup, Notifiers, Lookers

\* No caller sleeps on while a connection is free: between release's push and its
\* notify_one, and with callers that barge in, every free connection has somebody
\* who is going to look.
THEOREM NoCallerForgotten == DbSpec => []HandleWakeup
<1>1. DbInit => HandleWakeup
  BY DEF DbInit, HandleWakeup
<1> QED
  BY <1>1, DbInvariance, NextHandleWakeup, PTL DEF DbSpec

-----------------------------------------------------------------------------
(* Lifecycle: how the program ends.                                        *)

Starting == {"load", "open", "crew"}            \* no thread, no descriptor
SettingUp == {"options", "socket", "epoll", "wakeup", "run"} \* the crew works
Ending == {"stop", "join", "database", "ended"}

\* What is settled, what lives and what must still be closed, at each step of main.
\* A stale field is the trace of a set-up that failed after the handlers were
\* installed, so that no signal can hide the failure.
Ownership ==
  /\ step \in Starting \cup SettingUp \cup Ending
  /\ step \in Starting \cup {"options", "socket", "database"} =>
       \A d \in Descriptors : fd[d] = "none"
  /\ step \in Starting => crew = "none" /\ ~handlers
  /\ step \in {"load", "open"} => database = "none"
  /\ step \in SettingUp => crew = "working"
  /\ step \in Starting \cup SettingUp => ~leaving
  /\ step = "database" => crew \in {"none", "joined"}
  /\ step \in {"socket", "epoll", "wakeup", "run"} => handlers
  /\ (twice # {} \/ \E d \in Descriptors : fd[d] = "stale") =>
       status = "failure" /\ leaving /\ handlers
  /\ database = "leaked" =>
       step = "ended" /\ status = "failure" /\ crew = "none" /\ ~handlers
  /\ step = "ended" /\ status \in {"success", "failure"} =>
       /\ \A d \in Descriptors : fd[d] = "none"
       /\ crew \in {"none", "joined"} /\ database # "open"

\* The configuration that Config::load made is the one that runs, and TLS without a
\* good certificate does not get past enable_tls.
Settled ==
  /\ told \in Told
  /\ step \in {"open", "crew"} \cup SettingUp =>
       told.file \in {"missing", "read"} /\ config = Resolved
  /\ step \in {"socket", "epoll", "wakeup", "run"} => (config.tls => config.cert = "good")

LifeInv == LifeTypeOK /\ Ownership /\ Settled

LEMMA InitLifeInv == LifeInit => LifeInv
BY DEF LifeInit, LifeInv, LifeTypeOK, Ownership, Settled, Starting, SettingUp, Ending, Told

\* An exception that leaves main's try block, with whatever has become of the
\* descriptors.
LEMMA UnwindOwns ==
  ASSUME LifeInv, Unwind, UNCHANGED <<crew, database, twice, handlers>>,
         fd' \in [Descriptors -> {"none", "open", "stale"}],
         step \in Starting \cup SettingUp,
         step \in Starting => fd' = fd,
         \A d \in Descriptors : fd'[d] = "stale" => fd[d] = "stale" \/ handlers
  PROVE  LifeTypeOK' /\ Ownership'
<1>1. step' \in {"stop", "database", "ended"} /\ status' = "failure" /\ leaving'
  BY DEF Unwind
<1>2. LifeTypeOK'
  BY <1>1 DEF LifeInv, LifeTypeOK
<1>3. step' # "stop" => step \in Starting /\ crew = "none"
  BY DEF Unwind, LifeInv, Ownership, Starting, SettingUp
<1>4. step' = "ended" => database # "open"
  BY <1>3 DEF Unwind
<1>5. (twice' # {} \/ \E d \in Descriptors : fd'[d] = "stale") => handlers'
  BY DEF LifeInv, Ownership
<1>6. step' # "stop" => \A d \in Descriptors : fd'[d] = "none"
  BY <1>3 DEF LifeInv, Ownership
<1>7. step' \notin Starting \cup SettingUp
  BY <1>1 DEF Starting, SettingUp
<1>8. database' # "leaked"
  BY DEF LifeInv, Ownership, Starting, SettingUp
<1>9. step' # "stop" => crew' = "none" /\ \A d \in Descriptors : fd'[d] = "none"
  BY <1>3, <1>6
<1>10. step' = "ended" => database' # "open"
  BY <1>4
<1>11. step' \in Ending /\ step' \notin {"options", "socket", "load", "open", "crew", "epoll", "wakeup", "run"}
  BY <1>1 DEF Ending
<1>12. Ownership'
  BY <1>1, <1>5, <1>8, <1>9, <1>10, <1>11 DEF Ownership, Starting, SettingUp
<1> QED
  BY <1>2, <1>12

\* The other steps of the set-up: nothing becomes stale, and main goes on.
LEMMA SetUpOwns ==
  ASSUME LifeInv, UNCHANGED <<told, twice, database, status, leaving>>,
         step \in SettingUp, step' \in SettingUp \ {"options"}, crew' = crew, handlers',
         fd' \in [Descriptors -> {"none", "open", "stale"}],
         step' = "socket" => fd' = fd /\ step = "options",
         \A d \in Descriptors : fd'[d] = "stale" => fd[d] = "stale"
  PROVE  LifeTypeOK' /\ Ownership'
<1>1. LifeTypeOK /\ Ownership /\ crew = "working" /\ ~leaving
  BY DEF LifeInv, Ownership, Starting, SettingUp
<1>2. step' \in {"socket", "epoll", "wakeup", "run"} /\ step # "ended"
  BY DEF Starting, SettingUp
<1>3. database' # "leaked" /\ database' = database
  BY <1>1, <1>2 DEF Ownership
<1>4. ~(twice' # {} \/ \E d \in Descriptors : fd'[d] = "stale")
  BY <1>1 DEF Ownership
<1>5. step' = "socket" => \A d \in Descriptors : fd'[d] = "none"
  BY <1>1 DEF Ownership
<1>6. LifeTypeOK'
  BY <1>1 DEF LifeTypeOK
<1> QED
  BY <1>1, <1>2, <1>3, <1>4, <1>5, <1>6 DEF Ownership, Starting, SettingUp, Ending

\* Closing through the fields: what was stale is counted.
LEMMA ClosedFields ==
  ASSUME LifeInv, NEW D \in SUBSET Descriptors, CloseFields(D)
  PROVE  /\ fd' \in [Descriptors -> {"none", "open", "stale"}] /\ twice' \subseteq Descriptors
         /\ \A d \in Descriptors : fd'[d] = (IF d \in D THEN "none" ELSE fd[d])
         /\ (twice' # {} \/ \E d \in Descriptors : fd'[d] = "stale") =>
              status = "failure" /\ leaving /\ handlers
BY DEF CloseFields, LifeInv, LifeTypeOK, Ownership

LEMMA NextOwns == LifeInv /\ [LifeNext]_lifeVars => LifeTypeOK' /\ Ownership'
<1> SUFFICES ASSUME LifeInv, [LifeNext]_lifeVars
             PROVE  LifeTypeOK' /\ Ownership'
  OBVIOUS
<1>0. LifeTypeOK /\ Ownership
  BY DEF LifeInv
<1> USE DEF Starting, SettingUp, Ending
<1>1. CASE UNCHANGED lifeVars
  BY <1>0, <1>1 DEF lifeVars, LifeTypeOK, Ownership
<1>2. CASE Load
  <2>1. CASE Unwind
    BY <1>0, <1>2, <2>1, UnwindOwns DEF Load, LifeTypeOK
  <2>2. CASE ~Unwind
    BY <1>0, <1>2, <2>2 DEF Load, LifeTypeOK, Ownership
  <2> QED
    BY <2>1, <2>2
<1>3. CASE OpenDatabase
  <2>1. CASE Unwind /\ database' \in {"none", "leaked"}
    <3>1. /\ step = "open" /\ crew = "none" /\ database = "none" /\ twice = {} /\ ~handlers
          /\ \A d \in Descriptors : fd[d] = "none"
      BY <1>0, <1>3 DEF OpenDatabase, Ownership
    <3>2. /\ step' = "ended" /\ status' = "failure" /\ leaving' = TRUE
          /\ UNCHANGED <<handlers, fd, twice, crew>>
      BY <1>3, <2>1, <3>1 DEF OpenDatabase, Unwind
    <3>3. LifeTypeOK'
      BY <1>0, <2>1, <3>2 DEF LifeTypeOK
    <3> QED
      BY <2>1, <3>1, <3>2, <3>3 DEF Ownership
  <2>2. CASE database' = "open" /\ step' = "crew" /\ UNCHANGED <<status, leaving>>
    BY <1>0, <1>3, <2>2 DEF OpenDatabase, LifeTypeOK, Ownership
  <2> QED
    BY <1>3, <2>1, <2>2 DEF OpenDatabase
<1>4. CASE MakeThreads
  <2>1. CASE Unwind /\ UNCHANGED crew
    BY <1>0, <1>4, <2>1, UnwindOwns DEF MakeThreads, LifeTypeOK
  <2>2. CASE Die("aborted") /\ UNCHANGED crew
    BY <1>0, <1>4, <2>2 DEF MakeThreads, Die, LifeTypeOK, Ownership
  <2>3. CASE crew' = "working" /\ step' = "options" /\ UNCHANGED <<status, leaving>>
    BY <1>0, <1>4, <2>3 DEF MakeThreads, LifeTypeOK, Ownership
  <2> QED
    BY <1>4, <2>1, <2>2, <2>3 DEF MakeThreads
<1>5. CASE Enable
  <2>1. CASE Unwind /\ UNCHANGED handlers
    BY <1>0, <1>5, <2>1, UnwindOwns DEF Enable, LifeTypeOK
  <2>2. CASE handlers' = TRUE /\ step' = "socket" /\ UNCHANGED <<status, leaving>>
    BY <1>0, <1>5, <2>2, SetUpOwns DEF Enable, LifeTypeOK
  <2> QED
    BY <1>5, <2>1, <2>2 DEF Enable
<1>6. ASSUME NEW f \in [Descriptors -> {"none", "open", "stale"}], SetUpFails(f),
             step \in {"socket", "epoll", "wakeup"},
             UNCHANGED <<crew, database, twice, handlers>>
      PROVE  LifeTypeOK' /\ Ownership'
  <2>1. handlers
    BY <1>0, <1>6 DEF Ownership
  <2> QED
    BY <1>6, <2>1, UnwindOwns DEF SetUpFails
<1>7. ASSUME NEW D \in SUBSET Descriptors
      PROVE  Stale(fd, D) \in [Descriptors -> {"none", "open", "stale"}]
  BY <1>0 DEF Stale, LifeTypeOK
<1>8. ASSUME NEW d \in Descriptors, NEW next \in {"epoll", "wakeup", "run"}, Opened(d, next),
             step \in {"socket", "epoll", "wakeup"},
             UNCHANGED <<told, handlers, twice, crew, database>>
      PROVE  LifeTypeOK' /\ Ownership'
  <2>1. fd' \in [Descriptors -> {"none", "open", "stale"}]
        /\ \A e \in Descriptors : fd'[e] = "stale" => fd[e] = "stale"
    BY <1>0, <1>8 DEF Opened, LifeTypeOK
  <2>2. handlers
    BY <1>0, <1>8 DEF Ownership
  <2> QED
    BY <1>8, <2>1, <2>2, SetUpOwns DEF Opened
<1>9. CASE SetupSocket
  <2>1. fd \in [Descriptors -> {"none", "open", "stale"}] /\ {"listen"} \subseteq Descriptors
    BY <1>0 DEF LifeTypeOK, Descriptors
  <2> QED
    BY <1>6, <1>7, <1>8, <1>9, <2>1 DEF SetupSocket
<1>10. CASE SetupEpoll
  <2>1. {"listen"} \subseteq Descriptors /\ {"listen", "epoll"} \subseteq Descriptors
    BY DEF Descriptors
  <2> QED
    BY <1>6, <1>7, <1>8, <1>10, <2>1 DEF SetupEpoll
<1>11. CASE SetupWakeup
  <2>1. /\ fd \in [Descriptors -> {"none", "open", "stale"}] /\ "pipe" \in Descriptors
        /\ [fd EXCEPT !["pipe"] = "open"] \in [Descriptors -> {"none", "open", "stale"}]
    BY <1>0 DEF LifeTypeOK, Descriptors
  <2> QED
    BY <1>6, <1>8, <1>11, <2>1 DEF SetupWakeup
<1>12. CASE StartDrain
  <2>1. {"listen"} \in SUBSET Descriptors
    BY DEF Descriptors
  <2>2. CloseFields({"listen"})
    BY <1>12 DEF StartDrain
  <2> QED
    BY <1>0, <1>12, <2>1, <2>2, ClosedFields DEF StartDrain, LifeTypeOK, Ownership
<1>13. ASSUME NEW failed \in BOOLEAN, LeaveLoop(failed)
       PROVE  LifeTypeOK' /\ Ownership'
  <2>1. {"epoll", "listen"} \in SUBSET Descriptors
    BY DEF Descriptors
  <2>2. CloseFields({"epoll", "listen"})
    BY <1>13 DEF LeaveLoop
  <2> QED
    BY <1>0, <1>13, <2>1, <2>2, ClosedFields DEF LeaveLoop, LifeTypeOK, Ownership
<1>14. CASE StopCrew
  BY <1>0, <1>14 DEF StopCrew, LifeTypeOK, Ownership
<1>15. CASE CrewExits
  BY <1>0, <1>15 DEF CrewExits, LifeTypeOK, Ownership
<1>16. CASE CloseRest
  <2>1. LeftOpen \in SUBSET Descriptors /\ \A d \in Descriptors : d \in LeftOpen
    BY DEF LeftOpen, Descriptors
  <2>2. CloseFields(LeftOpen)
    BY <1>16 DEF CloseRest
  <2>3. \A d \in Descriptors : fd'[d] = "none"
    BY <2>1, <2>2, ClosedFields
  <2>4. twice' # {} => status' = "failure" /\ leaving' /\ handlers'
    BY <1>16, <2>1, <2>2, ClosedFields DEF CloseRest
  <2>5. LifeTypeOK'
    BY <1>0, <1>16, <2>1, <2>2, ClosedFields DEF CloseRest, LifeTypeOK
  <2> QED
    BY <1>0, <1>16, <2>3, <2>4, <2>5 DEF CloseRest, Ownership
<1>17. CASE CloseDatabase
  BY <1>0, <1>17 DEF CloseDatabase, LifeTypeOK, Ownership
<1>18. CASE Signal
  <2>1. CASE handlers
    BY <1>0, <1>18, <2>1 DEF Signal, LifeTypeOK, Ownership
  <2>2. CASE ~handlers
    BY <1>0, <1>18, <2>2 DEF Signal, Die, LifeTypeOK, Ownership
  <2> QED
    BY <2>1, <2>2
<1> QED
  BY <1>1, <1>2, <1>3, <1>4, <1>5, <1>9, <1>10, <1>11, <1>12, <1>13, <1>14, <1>15, <1>16,
     <1>17, <1>18 DEF LifeNext, Main

LEMMA NextSettled == LifeInv /\ [LifeNext]_lifeVars => Settled'
<1> SUFFICES ASSUME LifeInv, [LifeNext]_lifeVars
             PROVE  Settled'
  OBVIOUS
<1>0. Settled /\ told' = told
  BY DEF LifeInv, LifeNext, Main, lifeVars, Load, OpenDatabase, MakeThreads, Enable, SetupSocket,
         SetupEpoll, SetupWakeup, StartDrain, LeaveLoop, StopCrew, CrewExits, CloseRest,
         CloseDatabase, Signal
<1>1. Resolved' = Resolved
  BY <1>0 DEF Resolved
<1> USE DEF SettingUp
<1>2. CASE Load
  <2>1. CASE told.file \in {"malformed", "mistyped"}
    BY <1>0, <1>2, <2>1 DEF Load, Unwind, Settled
  <2>2. CASE told.file \notin {"malformed", "mistyped"}
    <3>1. told.file \in {"missing", "read"}
      BY <1>0, <2>2 DEF Settled, Told
    <3> QED
      BY <1>0, <1>1, <1>2, <2>2, <3>1 DEF Load, Settled
  <2> QED
    BY <2>1, <2>2
<1>3. CASE Enable
  BY <1>0, <1>1, <1>3 DEF Enable, Unwind, Settled
<1>4. CASE UNCHANGED config /\ (step' # step => step' \notin {"load", "open", "socket"})
           /\ (step' = "crew" => step \in {"open", "crew"})
           /\ (step' = "options" => step \in {"crew", "options"})
           /\ (step' \in {"epoll", "wakeup", "run"} => step \in {"socket", "epoll", "wakeup", "run"})
  BY <1>0, <1>1, <1>4 DEF Settled
<1> QED
  BY <1>2, <1>3, <1>4
     DEF LifeNext, Main, lifeVars, OpenDatabase, MakeThreads, SetupSocket, SetupEpoll, SetupWakeup,
         StartDrain, LeaveLoop, StopCrew, CrewExits, CloseRest, CloseDatabase, Signal, Unwind,
         Die, SetUpFails, Opened

LEMMA LifeInvariance == LifeInit /\ [][LifeNext]_lifeVars => []LifeInv
<1>1. LifeInv /\ [LifeNext]_lifeVars => LifeInv'
  BY NextOwns, NextSettled DEF LifeInv
<1> QED
  BY <1>1, InitLifeInv, PTL

\* Config.h and main.cpp: a server that runs has the settings it was told, and main's
\* return leaves no descriptor and no thread behind, and of the database only what a
\* failing PRAGMA of SQLite leaves, whichever call of the set-up failed and whenever a
\* signal came.
THEOREM LeavesNothing == LifeInit /\ [][LifeNext]_lifeVars => []LifecycleSafe
<1>1. ASSUME LifeInv
      PROVE  LifecycleSafe
  <2>1. EndsClean
    BY <1>1 DEF LifeInv, Ownership, EndsClean
  <2>2. SUFFICES ASSUME step = "run"
                 PROVE  RunsAsTold
    BY <2>1 DEF LifecycleSafe, RunsAsTold
  <2>3. /\ told \in Told /\ told.file \in {"missing", "read"} /\ config = Resolved
        /\ config.tls => config.cert = "good"
    BY <1>1, <2>2 DEF LifeInv, Settled, SettingUp
  <2>4. told.envPort \in {Unset, EnvPort} /\ told.says.port \in {Unset, FilePort}
        /\ told.envCert \in {"none", "good"}
    BY <2>3 DEF Told, Contents, Silent
  <2>5. /\ config.port = IF told.envPort # Unset THEN told.envPort
                         ELSE IF told.says.port # Unset THEN told.says.port ELSE DefaultPort
        /\ config.tls = told.says.tls
        /\ config.cert = IF told.envCert # "none" THEN told.envCert ELSE told.says.cert
    BY <2>3 DEF Resolved
  <2> QED
    BY <2>1, <2>2, <2>3, <2>4, <2>5 DEF LifecycleSafe, RunsAsTold
<1> QED
  BY <1>1, LifeInvariance, PTL

-----------------------------------------------------------------------------
(* The four together.                                                      *)

\* A step of one part leaves the others where they are.
LEMMA PartsApart ==
  PartsInit /\ [][PartsNext]_partsVars =>
    /\ DbSpec
    /\ WriterInit /\ [][WriterNext]_writerVars
    /\ Init /\ [][Next]_vars
    /\ LifeInit /\ [][LifeNext]_lifeVars
<1>1. [PartsNext]_partsVars => [DbNext]_dbVars
  BY DEF PartsNext, partsVars
<1>2. [PartsNext]_partsVars => [WriterNext]_writerVars
  BY DEF PartsNext, partsVars
<1>3. [PartsNext]_partsVars => [Next]_vars
  BY DEF PartsNext, partsVars
<1>4. [PartsNext]_partsVars => [LifeNext]_lifeVars
  BY DEF PartsNext, partsVars
<1>5. PartsInit => DbInit /\ WriterInit /\ Init /\ LifeInit
  BY DEF PartsInit
<1> QED
  BY <1>1, <1>2, <1>3, <1>4, <1>5, PTL DEF DbSpec

\* Each variable of the connection pool, the connection's output, the thread pool and
\* the program's life keeps its type, in whatever order the parts move.
THEOREM PartsKeepTheirTypes == PartsSpec => []PartsTypeOK
<1>1. DbInv => DbTypeOK
  BY DEF DbInv
<1>2. WriterInv => WriterTypeOK
  BY DEF WriterInv
<1>3. LifeInv => LifeTypeOK
  BY DEF LifeInv
<1>4. DbTypeOK /\ WriterTypeOK /\ TypeOK /\ LifeTypeOK => PartsTypeOK
  BY DEF PartsTypeOK
<1>5. Init /\ [][Next]_vars => []TypeOK
  BY InitTypeInv, NextTypeInv, PTL DEF TypeInv
<1> QED
  BY <1>1, <1>2, <1>3, <1>4, <1>5, PartsApart, DbInvariance, WriterInvariance, LifeInvariance, PTL
     DEF PartsSpec
=============================================================================
