------------------------------- MODULE Metrics -------------------------------
(***************************************************************************)
(* The counters and the histogram (src/src/server/Metrics.cpp) with those  *)
(* who move them without a lock: the loop, which counts a request when it  *)
(* is parsed and again when it refuses or gives up on it                   *)
(* (src/src/server/Server.cpp), the workers, which record a request in     *)
(* several steps, and a handler that renders it all for /metrics.          *)
(*                                                                         *)
(* Every step is one atomic operation, in program order; only what the     *)
(* loop counts for one request is taken together, as nothing depends on    *)
(* these counters among themselves.  A duration is represented by the      *)
(* first bucket it falls in; the sum of the durations adds these numbers.  *)
(*                                                                         *)
(* An operator whose name starts with Faulty is a mutant of the definition *)
(* that follows it.                                                        *)
(***************************************************************************)
EXTENDS Integers, FiniteSets, Sums

CONSTANTS
  Recorders,  \* threads that run handlers
  Buckets,    \* the number of kBuckets
  MaxCounted  \* bound: requests

ASSUME MetricsAssumption ==
  IsFiniteSet(Recorders) /\ Buckets \in Nat \ {0} /\ MaxCounted \in Nat

Inf == Buckets + 1  \* the duration beyond the last bucket

VARIABLES
  counters,  \* requests_total, responses_*, rate_limited_total, load_shed_total, handler_timeouts_total
  histogram, \* duration_buckets_
  total,     \* duration_count_
  sum,       \* duration_sum_
  recorder,  \* what each worker does: its place in the task, the duration, what it has read
  givenUp,   \* workers whose request was answered 504
  scrape,    \* /metrics: the next thing to render, the worker that does, what was rendered
  started,   \* history: observations started, by bucket
  finished,  \* history: observations finished, by bucket
  window     \* history: finished when the scrape started, and started when it ended

metricsVars == <<counters, histogram, total, sum, recorder, givenUp, scrape,
                 started, finished, window>>

None == [i \in 1..Inf |-> 0]
Resting == [at |-> "idle", d |-> 1, read |-> 0]
NoScrape == [at |-> 0, by |-> {}, seen |-> None]

MetricsInit ==
  /\ counters = [requests |-> 0, r2xx |-> 0, r4xx |-> 0, r5xx |-> 0,
                 limited |-> 0, shed |-> 0, timeouts |-> 0]
  /\ histogram = [i \in 1..Buckets |-> 0] /\ total = 0 /\ sum = 0
  /\ recorder = [w \in Recorders |-> Resting] /\ givenUp = {}
  /\ scrape = NoScrape
  /\ started = None /\ finished = None /\ window = <<None, None>>

-----------------------------------------------------------------------------
(* The event loop.                                                         *)

\* The counters after names have each been incremented.
Plus(names) ==
  [name \in DOMAIN counters |-> counters[name] + (IF name \in names THEN 1 ELSE 0)]

\* dispatch_next refuses: 429 or 503.
Refused(counter, class) == counters' = Plus({"requests", counter, class})

RefuseRequest ==
  /\ counters.requests < MaxCounted
  /\ Refused("limited", "r4xx") \/ Refused("shed", "r5xx")
  /\ UNCHANGED <<histogram, total, sum, recorder, givenUp, scrape, started, finished, window>>

\* dispatch_next hands the request to a worker.
Dispatched(w) ==
  /\ counters.requests < MaxCounted /\ recorder[w].at = "idle"
  /\ counters' = Plus({"requests"})
  /\ recorder' = [recorder EXCEPT ![w] = [Resting EXCEPT !.at = "handler"]]
  /\ UNCHANGED <<histogram, total, sum, givenUp, scrape, started, finished, window>>

\* enforce_timeouts answers 504, while the worker goes on.
GiveUp(w) ==
  /\ recorder[w].at # "idle" /\ w \notin givenUp
  /\ counters' = Plus({"timeouts", "r5xx"})
  /\ givenUp' = givenUp \cup {w}
  /\ UNCHANGED <<histogram, total, sum, recorder, scrape, started, finished, window>>

-----------------------------------------------------------------------------
(* A worker: the end of the lambda, record_status and observe_duration.    *)

At(w, place) == recorder' = [recorder EXCEPT ![w].at = place]

RecordStatus(w) ==
  /\ recorder[w].at = "handler" /\ w \notin scrape.by
  /\ \E class \in {"r2xx", "r5xx"} : counters' = Plus({class})
  /\ \E d \in 1..Inf :
       /\ recorder' = [recorder EXCEPT ![w] = [at |-> "observe", d |-> d, read |-> d]]
       /\ started' = [started EXCEPT ![d] = @ + 1]
  /\ UNCHANGED <<histogram, total, sum, givenUp, scrape, finished, window>>

\* `read' is the bucket that is next.
CountBucket(w) ==
  /\ recorder[w].at = "observe"
  /\ IF recorder[w].read = Inf THEN At(w, "count") /\ UNCHANGED histogram
     ELSE /\ histogram' = [histogram EXCEPT ![recorder[w].read] = @ + 1]
          /\ recorder' = [recorder EXCEPT ![w].read = @ + 1]
  /\ UNCHANGED <<counters, total, sum, givenUp, scrape, started, finished, window>>

CountAll(w) ==
  /\ recorder[w].at = "count"
  /\ total' = total + 1
  /\ At(w, "load")
  /\ UNCHANGED <<counters, histogram, sum, givenUp, scrape, started, finished, window>>

LoadSum(w) ==
  /\ recorder[w].at = "load"
  /\ recorder' = [recorder EXCEPT ![w].at = "add", ![w].read = sum]
  /\ UNCHANGED <<counters, histogram, total, sum, givenUp, scrape, started, finished, window>>

\* The sum is stored whatever it has become.
FaultyExchanges(w) == TRUE

\* Does compare_exchange succeed?  The weak form may fail in any case.
Exchanges(w) == sum = recorder[w].read

AddSum(w) ==
  /\ recorder[w].at = "add"
  /\ \/ /\ Exchanges(w)
        /\ sum' = recorder[w].read + recorder[w].d
        /\ finished' = [finished EXCEPT ![recorder[w].d] = @ + 1]
        /\ recorder' = [recorder EXCEPT ![w] = Resting]
        /\ givenUp' = givenUp \ {w}
     \/ /\ recorder' = [recorder EXCEPT ![w].read = sum]
        /\ UNCHANGED <<sum, finished, givenUp>>
  /\ UNCHANGED <<counters, histogram, total, scrape, started, window>>

-----------------------------------------------------------------------------
(* render, of the histogram.  It runs in a handler; the model renders once. *)

StartScrape(w) ==
  /\ scrape.at = 0 /\ recorder[w].at = "handler"
  /\ scrape' = [NoScrape EXCEPT !.at = 1, !.by = {w}]
  /\ window' = <<finished, None>>
  /\ UNCHANGED <<counters, histogram, total, sum, recorder, givenUp, started, finished>>

RenderNext ==
  /\ scrape.at \in 1..Inf
  /\ LET value == IF scrape.at = Inf THEN total ELSE histogram[scrape.at] IN
       scrape' = [at |-> scrape.at + 1,
                  by |-> IF scrape.at = Inf THEN {} ELSE scrape.by,
                  seen |-> [scrape.seen EXCEPT ![scrape.at] = value]]
  /\ window' = IF scrape.at = Inf THEN <<window[1], started>> ELSE window
  /\ UNCHANGED <<counters, histogram, total, sum, recorder, givenUp, started, finished>>

MetricsNext ==
  \/ RefuseRequest \/ RenderNext
  \/ \E w \in Recorders :
       \/ StartScrape(w) \/ Dispatched(w) \/ GiveUp(w) \/ RecordStatus(w) \/ CountBucket(w)
       \/ CountAll(w) \/ LoadSum(w) \/ AddSum(w)
  \/ counters.requests = MaxCounted /\ UNCHANGED metricsVars

MetricsSpec == MetricsInit /\ [][MetricsNext]_metricsVars

-----------------------------------------------------------------------------
(* Properties.                                                             *)

Counts == 0..2 * MaxCounted

MetricsTypeOK ==
  /\ \A name \in DOMAIN counters : counters[name] \in Counts
  /\ histogram \in [1..Buckets -> Counts] /\ total \in Counts /\ sum \in Nat
  /\ recorder \in [Recorders -> [at : {"idle", "handler", "observe", "count", "load", "add"},
                                 d : 1..Inf, read : Nat]]
  /\ givenUp \subseteq Recorders

\* Every request is accounted for (dispatch_next, enforce_timeouts): it is a response
\* or with a worker that has not recorded it; those that got 504 are counted once
\* more, by the worker that comes too late.  Refusals and timeouts are in the class
\* of their status.
RequestsAccountedFor ==
  /\ counters.r2xx + counters.r4xx + counters.r5xx
       + Cardinality({w \in Recorders : recorder[w].at = "handler"})
     = counters.requests + counters.timeouts
  /\ counters.limited <= counters.r4xx
  /\ counters.shed + counters.timeouts <= counters.r5xx

\* What h has in the buckets up to i.
AtMost(i, h) == SumTo(i, h)

Durations(h) == [d \in 1..Inf |-> d * h[d]]

\* The histogram loses nothing (observe_duration): between observations each bucket
\* is the number of durations up to its bound, the count that of all, the sum theirs,
\* although no lock is held over them.  A scrape among observations sees in each
\* bucket those that were over before it and none that started after it, so that a
\* bucket exceeds the next by what the scrape overlaps at most.
HistogramExact ==
  /\ started = finished =>
       /\ \A i \in 1..Buckets : histogram[i] = AtMost(i, finished)
       /\ total = AtMost(Inf, finished)
       /\ sum = AtMost(Inf, Durations(finished))
  /\ scrape.at = Inf + 1 => \A i \in 1..Inf :
       scrape.seen[i] \in AtMost(i, window[1])..AtMost(i, window[2])

\* Nothing counted is lost, in the counters and in the histogram.
MetricsExact == RequestsAccountedFor /\ HistogramExact
=============================================================================
