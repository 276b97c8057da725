------------------------------ MODULE TaskQueue ------------------------------
(***************************************************************************)
(* What a thread pool promises to those who hand it work, with no lock and *)
(* no condition variable: the tasks it accepts are started in the order    *)
(* they were accepted, each once, at most one per thread at a time, and    *)
(* once it is closed nothing is accepted any more.                         *)
(***************************************************************************)
EXTENDS Sequences, FiniteSets, Integers

CONSTANTS Tasks, Workers, None

VARIABLES
  queue,     \* accepted, not started
  running,   \* the task each thread runs, or None
  finished,  \* tasks that were run to their end
  closed     \* no more tasks

vars == <<queue, running, finished, closed>>

Init ==
  /\ queue = <<>>
  /\ running = [w \in Workers |-> None]
  /\ finished = {}
  /\ closed = FALSE

Known == finished \cup {running[w] : w \in Workers}
         \cup {queue[i] : i \in 1..Len(queue)}

Submit(t) ==
  /\ ~closed
  /\ t \notin Known
  /\ queue' = Append(queue, t)
  /\ UNCHANGED <<running, finished, closed>>

Start(w) ==
  /\ queue # <<>>
  /\ running[w] = None
  /\ running' = [running EXCEPT ![w] = Head(queue)]
  /\ queue' = Tail(queue)
  /\ UNCHANGED <<finished, closed>>

Finish(w) ==
  /\ running[w] # None
  /\ finished' = finished \cup {running[w]}
  /\ running' = [running EXCEPT ![w] = None]
  /\ UNCHANGED <<queue, closed>>

CloseQueue ==
  /\ closed' = TRUE
  /\ UNCHANGED <<queue, running, finished>>

Next ==
  \/ \E t \in Tasks : Submit(t)
  \/ \E w \in Workers : Start(w) \/ Finish(w)
  \/ CloseQueue

Spec == Init /\ [][Next]_vars
=============================================================================
