------------------------------ MODULE DataProofs ------------------------------
(***************************************************************************)
(* Proofs that need induction over data, about further parts that          *)
(* MCServices checks side by side: the counters and the histogram, for any *)
(* number of workers and buckets; and the files of the log, for any limits *)
(* and lines.                                                              *)
(***************************************************************************)
EXTENDS MCServices, NaturalsInduction, WellFoundedInduction, FiniteSetTheorems,
        SequenceTheorems, TLAPS

-----------------------------------------------------------------------------
(* Induction, over sets of numbers.                                        *)

\* A set of numbers has a least one: induction without a predicate as parameter.
LEMMA Least ==
  ASSUME NEW T, T \subseteq Nat, T # {}
  PROVE  \E n \in T : \A m \in T : n <= m
<1> DEFINE R == {ss \in Nat \X Nat : ss[1] < ss[2]}
<1>1. IsWellFoundedOn(R, Nat)
  BY NatLessThanWellFounded DEF OpToRel
<1>2. \E n \in T : \A m \in T : ~(<<m, n>> \in R)
  <2> HIDE DEF R
  <2> QED
    BY <1>1, WFMin
<1>3. PICK n \in T : \A m \in T : ~(<<m, n>> \in R)
  BY <1>2
<1>4. \A m \in T : ~(m < n)
  BY <1>3
<1> QED
  BY <1>4

\* Induction over the numbers up to m: a set that has 0, and with n the next.
LEMMA AllUpTo ==
  ASSUME NEW m \in Nat, NEW T, 0 \in T, \A n \in 0..m - 1 : n \in T => n + 1 \in T
  PROVE  \A n \in 0..m : n \in T
<1> SUFFICES ASSUME NEW k \in 0..m, k \notin T
             PROVE  FALSE
  OBVIOUS
<1> DEFINE F == {n \in Nat : n <= m /\ n \notin T}
<1>1. PICK n \in F : \A j \in F : n <= j
  <2>1. F \subseteq Nat /\ k \in F
    OBVIOUS
  <2> HIDE DEF F
  <2> QED
    BY <2>1, Least
<1>2. n \in Nat /\ n <= m /\ n \notin T /\ n # 0
  OBVIOUS
<1>3. n - 1 \in 0..m - 1 /\ n - 1 \in Nat /\ n - 1 <= m /\ ~(n <= n - 1) /\ (n - 1) + 1 = n
  BY <1>2
<1>4. n - 1 \in T
  BY <1>1, <1>3
<1> QED
  BY <1>2, <1>3, <1>4

-----------------------------------------------------------------------------
(* Sums.                                                                   *)

\* What defines the sums up to n.
SumStep(h, f, j) == IF j = 0 THEN 0 ELSE f[j - 1] + h[j]
AddsUp(n, h, f) == f \in [0..n -> Int] /\ \A j \in 0..n : f[j] = SumStep(h, f, j)

LEMMA SumsExist ==
  ASSUME NEW m \in Nat, NEW h, \A i \in 1..m : h[i] \in Int
  PROVE  \E f : AddsUp(m, h, f)
<1> DEFINE T == {n \in 0..m : \E f : AddsUp(n, h, f)}
<1>1. 0 \in T
  <2> DEFINE g == [j \in 0..0 |-> 0]
  <2>1. g \in [0..0 -> Int] /\ \A j \in 0..0 : g[j] = 0 /\ j = 0
    OBVIOUS
  <2> HIDE DEF g
  <2>2. AddsUp(0, h, g)
    BY <2>1 DEF AddsUp, SumStep
  <2> QED
    BY <2>2
<1>2. ASSUME NEW n \in 0..m - 1, n \in T
      PROVE  n + 1 \in T
  <2>1. PICK f : AddsUp(n, h, f)
    BY <1>2
  <2> DEFINE g == [j \in 0..n + 1 |-> IF j = n + 1 THEN f[n] + h[n + 1] ELSE f[j]]
  <2>2. n \in Nat /\ n + 1 \in 1..m /\ n + 1 \in 0..m
    OBVIOUS
  <2>3. f \in [0..n -> Int] /\ f[n] \in Int /\ h[n + 1] \in Int
    BY <2>1, <2>2 DEF AddsUp
  <2>4. g \in [0..n + 1 -> Int]
    BY <2>2, <2>3
  <2>5. ASSUME NEW j \in 0..n + 1
        PROVE  g[j] = SumStep(h, g, j)
    <3>1. CASE j = n + 1
      BY <2>2, <3>1 DEF SumStep
    <3>2. CASE j # n + 1
      <4>1. j \in 0..n /\ (j # 0 => j - 1 \in 0..n /\ j - 1 # n + 1)
        BY <2>2, <3>2
      <4>2. f[j] = SumStep(h, f, j)
        BY <2>1, <4>1 DEF AddsUp
      <4> QED
        BY <3>2, <4>1, <4>2 DEF SumStep
    <3> QED
      BY <3>1, <3>2
  <2> HIDE DEF g
  <2>6. AddsUp(n + 1, h, g)
    BY <2>4, <2>5 DEF AddsUp
  <2> QED
    BY <2>2, <2>6
<1> HIDE DEF T
<1>3. \A n \in 0..m - 1 : n \in T => n + 1 \in T
  BY <1>2
<1>4. \A n \in 0..m : n \in T
  BY <1>1, <1>3, AllUpTo
<1> QED
  BY <1>4 DEF T

LEMMA SumIsThat ==
  ASSUME NEW m \in Nat, NEW h, \A i \in 1..m : h[i] \in Int
  PROVE  \E f : AddsUp(m, h, f) /\ SumTo(m, h) = f[m]
<1> DEFINE upto == CHOOSE f : f = [j \in 0..m |-> SumStep(h, f, j)]
<1>1. PICK g : AddsUp(m, h, g)
  BY SumsExist
<1>2. g = [j \in 0..m |-> SumStep(h, g, j)]
  BY <1>1 DEF AddsUp
<1>3. upto = [j \in 0..m |-> SumStep(h, upto, j)]
  BY <1>2
<1>4. SumTo(m, h) = upto[m]
  BY DEF SumTo, SumStep
<1> HIDE DEF upto
<1>5. \A j \in 0..m : upto[j] = SumStep(h, upto, j)
  BY <1>3
<1> DEFINE I == {j \in 0..m : upto[j] \in Int}
<1>6. 0 \in I
  BY <1>5 DEF SumStep
<1>7. ASSUME NEW n \in 0..m - 1, n \in I
      PROVE  n + 1 \in I
  <2>1. n + 1 \in 1..m /\ n + 1 \in 0..m /\ (n + 1) - 1 = n /\ n + 1 # 0
    OBVIOUS
  <2>2. upto[n + 1] = upto[n] + h[n + 1]
    BY <1>5, <2>1 DEF SumStep
  <2>3. upto[n] \in Int /\ h[n + 1] \in Int
    BY <1>7, <2>1
  <2> QED
    BY <2>1, <2>2, <2>3
<1> HIDE DEF I
<1>8. \A n \in 0..m - 1 : n \in I => n + 1 \in I
  BY <1>7
<1>9. \A n \in 0..m : n \in I
  BY <1>6, <1>8, AllUpTo
<1>10. upto \in [0..m -> Int]
  BY <1>3, <1>9 DEF I
<1> QED
  BY <1>4, <1>5, <1>10 DEF AddsUp

LEMMA SumsAgree ==
  ASSUME NEW m \in Nat, NEW n \in Nat, m <= n, NEW h, NEW k, \A i \in 1..m : h[i] = k[i],
         NEW f, AddsUp(m, h, f), NEW g, AddsUp(n, k, g)
  PROVE  \A j \in 0..m : f[j] = g[j]
<1> DEFINE T == {j \in 0..m : f[j] = g[j]}
<1>1. \A j \in 0..m : f[j] = SumStep(h, f, j) /\ g[j] = SumStep(k, g, j)
  BY DEF AddsUp
<1>2. 0 \in T
  BY <1>1 DEF SumStep
<1>3. ASSUME NEW i \in 0..m - 1, i \in T
      PROVE  i + 1 \in T
  <2>1. i + 1 \in 1..m /\ i + 1 \in 0..m /\ (i + 1) - 1 = i /\ i + 1 # 0
    OBVIOUS
  <2>2. f[i + 1] = f[i] + h[i + 1] /\ g[i + 1] = g[i] + k[i + 1]
    BY <1>1, <2>1 DEF SumStep
  <2> QED
    BY <1>3, <2>1, <2>2
<1> HIDE DEF T
<1>4. \A i \in 0..m - 1 : i \in T => i + 1 \in T
  BY <1>3
<1>5. \A j \in 0..m : j \in T
  BY <1>2, <1>4, AllUpTo
<1> QED
  BY <1>5 DEF T

LEMMA SumOfSame ==
  ASSUME NEW m \in Nat, NEW h, NEW k, \A i \in 1..m : h[i] \in Int /\ h[i] = k[i]
  PROVE  SumTo(m, h) = SumTo(m, k)
<1>1. PICK f : AddsUp(m, h, f) /\ SumTo(m, h) = f[m]
  BY SumIsThat
<1>2. PICK g : AddsUp(m, k, g) /\ SumTo(m, k) = g[m]
  BY SumIsThat
<1>3. \A j \in 0..m : f[j] = g[j]
  BY <1>1, <1>2, SumsAgree
<1> QED
  BY <1>1, <1>2, <1>3

LEMMA SumOfNext ==
  ASSUME NEW m \in Nat, NEW h, \A i \in 1..m + 1 : h[i] \in Int
  PROVE  SumTo(m, h) \in Int /\ SumTo(m + 1, h) = SumTo(m, h) + h[m + 1]
<1>1. PICK f : AddsUp(m, h, f) /\ SumTo(m, h) = f[m]
  BY SumIsThat
<1>2. PICK g : AddsUp(m + 1, h, g) /\ SumTo(m + 1, h) = g[m + 1]
  <2>1. m + 1 \in Nat
    OBVIOUS
  <2> QED
    BY <2>1, SumIsThat
<1>3. \A j \in 0..m : f[j] = g[j]
  <2>1. m + 1 \in Nat /\ m <= m + 1
    OBVIOUS
  <2> QED
    BY <1>1, <1>2, <2>1, SumsAgree
<1>4. g[m + 1] = g[m] + h[m + 1]
  <2>1. m + 1 \in 0..m + 1 /\ m + 1 # 0 /\ (m + 1) - 1 = m
    OBVIOUS
  <2> QED
    BY <1>2, <2>1 DEF AddsUp, SumStep
<1>5. f[m] \in Int
  BY <1>1 DEF AddsUp
<1> QED
  BY <1>1, <1>2, <1>3, <1>4, <1>5

LEMMA SumOfNone == \A h : SumTo(0, h) = 0
<1> TAKE h
<1>1. PICK f : AddsUp(0, h, f) /\ SumTo(0, h) = f[0]
  BY SumIsThat
<1> QED
  BY <1>1 DEF AddsUp, SumStep

LEMMA SumOfNats ==
  ASSUME NEW m \in Nat, NEW h, \A i \in 1..m : h[i] \in Nat
  PROVE  SumTo(m, h) \in Nat
<1>1. PICK f : AddsUp(m, h, f) /\ SumTo(m, h) = f[m]
  BY SumIsThat
<1> DEFINE I == {j \in 0..m : f[j] \in Nat}
<1>2. 0 \in I
  BY <1>1 DEF AddsUp, SumStep
<1>3. ASSUME NEW n \in 0..m - 1, n \in I
      PROVE  n + 1 \in I
  <2>1. n + 1 \in 1..m /\ n + 1 \in 0..m /\ (n + 1) - 1 = n /\ n + 1 # 0
    OBVIOUS
  <2>2. f[n + 1] = f[n] + h[n + 1]
    BY <1>1, <2>1 DEF AddsUp, SumStep
  <2>3. f[n] \in Nat /\ h[n + 1] \in Nat
    BY <1>3, <2>1
  <2> QED
    BY <2>1, <2>2, <2>3
<1> HIDE DEF I
<1>4. \A n \in 0..m - 1 : n \in I => n + 1 \in I
  BY <1>3
<1>5. \A n \in 0..m : n \in I
  BY <1>2, <1>4, AllUpTo
<1> QED
  BY <1>1, <1>5 DEF I

-----------------------------------------------------------------------------
(* Metrics: where each request is counted.                                 *)

CounterNames == {"requests", "r2xx", "r4xx", "r5xx", "limited", "shed", "timeouts"}
Places == {"idle", "handler", "observe", "count", "load", "add"}

\* Workers with a request that is not counted in a class yet, but by its dispatch.
Unrecorded == {w \in Recorders : recorder[w].at = "handler"}

CountersTyped ==
  /\ counters \in [CounterNames -> Nat] /\ sum \in Nat
  /\ recorder \in [Recorders -> [at : Places, d : 1..Inf, read : Nat]]

CountInv == CountersTyped /\ RequestsAccountedFor

LEMMA UnrecordedFinite ==
  /\ IsFiniteSet(Unrecorded) /\ Cardinality(Unrecorded) \in Nat
BY MetricsAssumption, FS_Subset, FS_CardinalityType DEF Unrecorded

\* RequestsAccountedFor, as a relation of the counters and of the workers.
LEMMA AccountedFor ==
  RequestsAccountedFor <=>
    /\ counters["r2xx"] + counters["r4xx"] + counters["r5xx"] + Cardinality(Unrecorded)
         = counters["requests"] + counters["timeouts"]
    /\ counters["limited"] <= counters["r4xx"]
    /\ counters["shed"] + counters["timeouts"] <= counters["r5xx"]
BY DEF RequestsAccountedFor, Unrecorded

LEMMA NextAccountedFor ==
  RequestsAccountedFor' <=>
    /\ counters'["r2xx"] + counters'["r4xx"] + counters'["r5xx"] + Cardinality(Unrecorded')
         = counters'["requests"] + counters'["timeouts"]
    /\ counters'["limited"] <= counters'["r4xx"]
    /\ counters'["shed"] + counters'["timeouts"] <= counters'["r5xx"]
BY DEF RequestsAccountedFor, Unrecorded

\* The counters after some have been incremented.
LEMMA PlusCounts ==
  ASSUME counters \in [CounterNames -> Nat], NEW names
  PROVE  /\ Plus(names) \in [CounterNames -> Nat]
         /\ \A n \in CounterNames \cap names : Plus(names)[n] = counters[n] + 1
         /\ \A n \in CounterNames \ names : Plus(names)[n] = counters[n]
BY DEF Plus

\* What one step of a worker does to the workers.
LEMMA RecorderMoves ==
  ASSUME CountersTyped, NEW w \in Recorders,
         NEW r \in [at : Places, d : 1..Inf, read : Nat],
         recorder' = [recorder EXCEPT ![w] = r]
  PROVE  /\ recorder' \in [Recorders -> [at : Places, d : 1..Inf, read : Nat]]
         /\ r.at = "handler" => Unrecorded' = Unrecorded \cup {w}
         /\ r.at # "handler" => Unrecorded' = Unrecorded \ {w}
<1>1. recorder' \in [Recorders -> [at : Places, d : 1..Inf, read : Nat]]
  BY DEF CountersTyped
<1>2. \A v \in Recorders : recorder'[v] = IF v = w THEN r ELSE recorder[v]
  BY DEF CountersTyped
<1> QED
  BY <1>1, <1>2 DEF Unrecorded

LEMMA OneMoreOrLess ==
  ASSUME NEW w \in Recorders
  PROVE  /\ recorder[w].at = "handler" =>
              Cardinality(Unrecorded \ {w}) = Cardinality(Unrecorded) - 1
         /\ recorder[w].at # "handler" =>
              /\ Unrecorded \ {w} = Unrecorded
              /\ Cardinality(Unrecorded \cup {w}) = Cardinality(Unrecorded) + 1
<1>1. recorder[w].at = "handler" => w \in Unrecorded
  BY DEF Unrecorded
<1>2. recorder[w].at # "handler" => w \notin Unrecorded
  BY DEF Unrecorded
<1> QED
  BY ZenonT(30), <1>1, <1>2, UnrecordedFinite, FS_AddElement, FS_RemoveElement

\* Nothing but the counters moves, and the books balance.
LEMMA CountedStep ==
  ASSUME CountInv, NEW names, counters' = Plus(names), UNCHANGED <<sum, recorder>>,
         \/ names = {"requests", "limited", "r4xx"}
         \/ names = {"requests", "shed", "r5xx"}
         \/ names = {"timeouts", "r5xx"}
  PROVE  CountInv'
<1>1. Unrecorded' = Unrecorded
  BY DEF Unrecorded
<1>2. CountersTyped'
  BY PlusCounts DEF CountInv, CountersTyped
<1>3. /\ \A n \in CounterNames \cap names : counters'[n] = counters[n] + 1
      /\ \A n \in CounterNames \ names : counters'[n] = counters[n]
      /\ counters \in [CounterNames -> Nat]
  BY PlusCounts DEF CountInv, CountersTyped
<1> DEFINE N == Cardinality(Unrecorded)
<1>4. N \in Nat /\ Cardinality(Unrecorded)' = N
  BY <1>1, UnrecordedFinite
<1>5. /\ counters["r2xx"] + counters["r4xx"] + counters["r5xx"] + N
           = counters["requests"] + counters["timeouts"]
      /\ counters["limited"] <= counters["r4xx"]
      /\ counters["shed"] + counters["timeouts"] <= counters["r5xx"]
  BY AccountedFor DEF CountInv
<1> HIDE DEF N
<1>6. /\ counters'["r2xx"] + counters'["r4xx"] + counters'["r5xx"] + N
           = counters'["requests"] + counters'["timeouts"]
      /\ counters'["limited"] <= counters'["r4xx"]
      /\ counters'["shed"] + counters'["timeouts"] <= counters'["r5xx"]
  <2>1. CASE names = {"requests", "limited", "r4xx"}
    BY <1>3, <1>4, <1>5, <2>1 DEF CounterNames
  <2>2. CASE names = {"requests", "shed", "r5xx"}
    BY <1>3, <1>4, <1>5, <2>2 DEF CounterNames
  <2>3. CASE names = {"timeouts", "r5xx"}
    BY <1>3, <1>4, <1>5, <2>3 DEF CounterNames
  <2> QED
    BY <2>1, <2>2, <2>3
<1>7. RequestsAccountedFor'
  BY <1>1, <1>4, <1>6, NextAccountedFor
<1> QED
  BY <1>2, <1>7 DEF CountInv

\* A worker comes to a request or records its status.
LEMMA RecordedStep ==
  ASSUME CountInv, NEW w \in Recorders, sum' = sum,
         NEW r \in [at : Places, d : 1..Inf, read : Nat],
         recorder' = [recorder EXCEPT ![w] = r],
         \/ /\ recorder[w].at # "handler" /\ r.at = "handler"
            /\ counters' = Plus({"requests"})
         \/ /\ recorder[w].at = "handler" /\ r.at # "handler"
            /\ \E class \in {"r2xx", "r5xx"} : counters' = Plus({class})
  PROVE  CountInv'
<1>1. counters' \in [CounterNames -> Nat] /\ counters \in [CounterNames -> Nat]
  BY PlusCounts DEF CountInv, CountersTyped
<1>2. CountersTyped'
  BY <1>1, RecorderMoves DEF CountInv, CountersTyped
<1> DEFINE N == Cardinality(Unrecorded)
           M == Cardinality(Unrecorded')
<1>3. N \in Nat /\ Cardinality(Unrecorded)' = M
  BY UnrecordedFinite
<1>4. /\ counters["r2xx"] + counters["r4xx"] + counters["r5xx"] + N
           = counters["requests"] + counters["timeouts"]
      /\ counters["limited"] <= counters["r4xx"]
      /\ counters["shed"] + counters["timeouts"] <= counters["r5xx"]
  BY AccountedFor DEF CountInv
<1>5. /\ r.at = "handler" => Unrecorded' = Unrecorded \cup {w}
      /\ r.at # "handler" => Unrecorded' = Unrecorded \ {w}
  BY RecorderMoves DEF CountInv
<1>6. /\ counters'["r2xx"] + counters'["r4xx"] + counters'["r5xx"] + M
           = counters'["requests"] + counters'["timeouts"]
      /\ counters'["limited"] <= counters'["r4xx"]
      /\ counters'["shed"] + counters'["timeouts"] <= counters'["r5xx"]
  <2>1. CASE /\ recorder[w].at # "handler" /\ r.at = "handler"
             /\ counters' = Plus({"requests"})
    <3>1. M = N + 1
      BY <1>5, <2>1, OneMoreOrLess
    <3>2. /\ counters'["requests"] = counters["requests"] + 1
          /\ \A n \in CounterNames \ {"requests"} : counters'[n] = counters[n]
      BY <1>1, <2>1, PlusCounts DEF CounterNames
    <3> HIDE DEF M, N
    <3> QED
      BY <1>1, <1>3, <1>4, <3>1, <3>2 DEF CounterNames
  <2>2. ASSUME NEW class \in {"r2xx", "r5xx"}, counters' = Plus({class}),
               recorder[w].at = "handler" /\ r.at # "handler"
        PROVE  /\ counters'["r2xx"] + counters'["r4xx"] + counters'["r5xx"] + M
                    = counters'["requests"] + counters'["timeouts"]
               /\ counters'["limited"] <= counters'["r4xx"]
               /\ counters'["shed"] + counters'["timeouts"] <= counters'["r5xx"]
    <3>1. M = N - 1
      BY <1>5, <2>2, OneMoreOrLess
    <3>2. /\ counters'[class] = counters[class] + 1
          /\ \A n \in CounterNames \ {class} : counters'[n] = counters[n]
      BY <1>1, <2>2, PlusCounts DEF CounterNames
    <3> HIDE DEF M, N
    <3>3. CASE class = "r2xx"
      BY <1>1, <1>3, <1>4, <3>1, <3>2, <3>3 DEF CounterNames
    <3>4. CASE class = "r5xx"
      BY <1>1, <1>3, <1>4, <3>1, <3>2, <3>4 DEF CounterNames
    <3> QED
      BY <2>2, <3>3, <3>4
  <2> QED
    BY <2>1, <2>2
<1> HIDE DEF M
<1>7. RequestsAccountedFor'
  BY <1>3, <1>6, NextAccountedFor DEF M
<1> QED
  BY <1>2, <1>7 DEF CountInv

\* A worker goes on with what it observes, and the counters stay.
LEMMA ObservingStep ==
  ASSUME CountInv, NEW w \in Recorders, counters' = counters, sum' \in Nat,
         NEW r \in [at : Places, d : 1..Inf, read : Nat],
         recorder' = [recorder EXCEPT ![w] = r],
         recorder[w].at # "handler", r.at # "handler"
  PROVE  CountInv'
<1>1. CountersTyped'
  BY RecorderMoves DEF CountInv, CountersTyped
<1>2. Unrecorded' = Unrecorded
  BY RecorderMoves, OneMoreOrLess DEF CountInv
<1>3. RequestsAccountedFor'
  <2>1. Cardinality(Unrecorded') = Cardinality(Unrecorded)
    BY <1>2
  <2> QED
    BY <2>1, AccountedFor, NextAccountedFor DEF CountInv
<1> QED
  BY <1>1, <1>3 DEF CountInv

LEMMA InitCountInv == MetricsInit => CountInv
<1> SUFFICES ASSUME MetricsInit
             PROVE  CountInv
  OBVIOUS
<1>1. CountersTyped
  <2>1. Resting \in [at : Places, d : 1..Inf, read : Nat]
    BY MetricsAssumption DEF Resting, Places, Inf
  <2>2. counters \in [CounterNames -> Nat]
    BY DEF MetricsInit, CounterNames
  <2> QED
    BY <2>1, <2>2 DEF MetricsInit, CountersTyped
<1>2. Unrecorded = {}
  BY DEF MetricsInit, Resting, Unrecorded
<1>3. Cardinality(Unrecorded) = 0
  BY <1>2, FS_EmptySet
<1>4. RequestsAccountedFor
  BY <1>3, AccountedFor DEF MetricsInit
<1> QED
  BY <1>1, <1>4 DEF CountInv

\* The workers' next states.
LEMMA RecorderStates ==
  ASSUME CountersTyped, NEW w \in Recorders
  PROVE  /\ [Resting EXCEPT !.at = "handler"] \in [at : Places, d : 1..Inf, read : Nat]
         /\ Resting \in [at : Places, d : 1..Inf, read : Nat]
         /\ \A p \in Places : [recorder[w] EXCEPT !.at = p] \in [at : Places, d : 1..Inf, read : Nat]
         /\ \A n \in Nat : [recorder[w] EXCEPT !.read = n] \in [at : Places, d : 1..Inf, read : Nat]
         /\ recorder[w].d \in Nat /\ recorder[w].read \in Nat
         /\ \A d \in 1..Inf : d \in Nat
BY MetricsAssumption DEF CountersTyped, Resting, Places, Inf

LEMMA LoopCounts ==
  ASSUME CountInv, RefuseRequest \/ \E w \in Recorders : GiveUp(w)
  PROVE  CountInv'
<1>1. UNCHANGED <<sum, recorder>>
  BY DEF RefuseRequest, GiveUp
<1>2. \/ counters' = Plus({"requests", "limited", "r4xx"})
      \/ counters' = Plus({"requests", "shed", "r5xx"})
      \/ counters' = Plus({"timeouts", "r5xx"})
  BY DEF RefuseRequest, Refused, GiveUp
<1> QED
  BY <1>1, <1>2, CountedStep

LEMMA DispatchCounts ==
  ASSUME CountInv, NEW w \in Recorders, Dispatched(w)
  PROVE  CountInv'
<1> DEFINE r == [Resting EXCEPT !.at = "handler"]
<1>1. /\ recorder[w].at = "idle" /\ sum' = sum /\ counters' = Plus({"requests"})
      /\ recorder' = [recorder EXCEPT ![w] = r]
  BY DEF Dispatched
<1>2. r \in [at : Places, d : 1..Inf, read : Nat] /\ r.at = "handler"
  BY RecorderStates DEF CountInv, Resting
<1> HIDE DEF r
<1> QED
  BY <1>1, <1>2, RecordedStep

LEMMA RecordCounts ==
  ASSUME CountInv, NEW w \in Recorders, RecordStatus(w)
  PROVE  CountInv'
<1>1. PICK d \in 1..Inf : recorder' = [recorder EXCEPT ![w] = [at |-> "observe", d |-> d, read |-> d]]
  BY DEF RecordStatus
<1>2. PICK class \in {"r2xx", "r5xx"} : counters' = Plus({class})
  BY DEF RecordStatus
<1>3. recorder[w].at = "handler" /\ sum' = sum
  BY DEF RecordStatus
<1> DEFINE r == [at |-> "observe", d |-> d, read |-> d]
<1>4. r \in [at : Places, d : 1..Inf, read : Nat] /\ r.at # "handler"
  BY RecorderStates DEF CountInv, Places
<1>5. recorder' = [recorder EXCEPT ![w] = r]
  BY <1>1
<1> HIDE DEF r
<1> QED
  BY <1>2, <1>3, <1>4, <1>5, RecordedStep

\* observe_duration.
LEMMA ObserveCounts ==
  ASSUME CountInv, NEW w \in Recorders,
         CountBucket(w) \/ CountAll(w) \/ LoadSum(w) \/ AddSum(w)
  PROVE  CountInv'
<1> USE DEF CountInv
<1> DEFINE R == [at : Places, d : 1..Inf, read : Nat]
<1>1. recorder[w] \in R /\ sum \in Nat
  BY DEF CountersTyped
<1>2. CASE CountBucket(w)
  <2>1. recorder[w].at = "observe" /\ counters' = counters /\ sum' = sum
    BY <1>2 DEF CountBucket
  <2>2. CASE recorder[w].read = Inf
    <3> DEFINE r == [recorder[w] EXCEPT !.at = "count"]
    <3>1. recorder' = [recorder EXCEPT ![w] = r]
      BY <1>2, <2>2 DEF CountBucket, At, CountersTyped
    <3>2. r \in R /\ r.at = "count"
      BY <1>1, RecorderStates DEF Places
    <3> HIDE DEF r
    <3> QED
      BY <1>1, <2>1, <3>1, <3>2, ObservingStep
  <2>3. CASE recorder[w].read # Inf
    <3> DEFINE r == [recorder[w] EXCEPT !.read = @ + 1]
    <3>1. recorder' = [recorder EXCEPT ![w] = r]
      BY <1>2, <2>3 DEF CountBucket, CountersTyped
    <3>2. r \in R /\ r.at = "observe"
      BY <1>1, <2>1
    <3> HIDE DEF r
    <3> QED
      BY <1>1, <2>1, <3>1, <3>2, ObservingStep
  <2> QED
    BY <2>2, <2>3
<1>3. CASE CountAll(w)
  <2> DEFINE r == [recorder[w] EXCEPT !.at = "load"]
  <2>1. recorder[w].at = "count" /\ counters' = counters /\ sum' = sum
    BY <1>3 DEF CountAll
  <2>2. recorder' = [recorder EXCEPT ![w] = r]
    BY <1>3 DEF CountAll, At, CountersTyped
  <2>3. r \in R /\ r.at = "load"
    BY <1>1, RecorderStates DEF Places
  <2> HIDE DEF r
  <2> QED
    BY <1>1, <2>1, <2>2, <2>3, ObservingStep
<1>4. CASE LoadSum(w)
  <2> DEFINE r == [[recorder[w] EXCEPT !.at = "add"] EXCEPT !.read = sum]
  <2>1. recorder[w].at = "load" /\ counters' = counters /\ sum' = sum
    BY <1>4 DEF LoadSum
  <2>2. recorder' = [recorder EXCEPT ![w] = r]
    BY <1>4 DEF LoadSum, CountersTyped
  <2>3. r \in R /\ r.at = "add"
    BY <1>1 DEF Places
  <2> HIDE DEF r
  <2> QED
    BY <1>1, <2>1, <2>2, <2>3, ObservingStep
<1>5. CASE AddSum(w)
  <2>1. recorder[w].at = "add" /\ counters' = counters
    BY <1>5 DEF AddSum
  <2>2. CASE sum' = recorder[w].read + recorder[w].d /\ recorder' = [recorder EXCEPT ![w] = Resting]
    <3>1. sum' \in Nat
      BY <2>2, RecorderStates
    <3>2. Resting \in R /\ Resting.at = "idle"
      BY RecorderStates DEF Resting
    <3> QED
      BY <1>1, <2>1, <2>2, <3>1, <3>2, ObservingStep
  <2>3. CASE sum' = sum /\ recorder' = [recorder EXCEPT ![w].read = sum]
    <3> DEFINE r == [recorder[w] EXCEPT !.read = sum]
    <3>1. recorder' = [recorder EXCEPT ![w] = r]
      BY <2>3 DEF CountersTyped
    <3>2. r \in R /\ r.at = "add"
      BY <1>1, <2>1
    <3> HIDE DEF r
    <3> QED
      BY <1>1, <2>1, <2>3, <3>1, <3>2, ObservingStep
  <2> QED
    BY <1>5, <2>2, <2>3 DEF AddSum
<1> QED
  BY <1>2, <1>3, <1>4, <1>5

LEMMA NextCountInv == CountInv /\ [MetricsNext]_metricsVars => CountInv'
<1> SUFFICES ASSUME CountInv, [MetricsNext]_metricsVars
             PROVE  CountInv'
  OBVIOUS
<1>1. CASE UNCHANGED <<counters, sum, recorder>>
  <2>1. Unrecorded' = Unrecorded
    BY <1>1 DEF Unrecorded
  <2>2. CountersTyped'
    BY <1>1 DEF CountInv, CountersTyped
  <2>3. Cardinality(Unrecorded') = Cardinality(Unrecorded)
    BY <2>1
  <2> QED
    BY <1>1, <2>2, <2>3, AccountedFor, NextAccountedFor DEF CountInv
<1>2. CASE RefuseRequest \/ \E w \in Recorders : GiveUp(w)
  BY <1>2, LoopCounts
<1>3. ASSUME NEW w \in Recorders, Dispatched(w)
      PROVE  CountInv'
  BY <1>3, DispatchCounts
<1>4. ASSUME NEW w \in Recorders, RecordStatus(w)
      PROVE  CountInv'
  BY <1>4, RecordCounts
<1>5. ASSUME NEW w \in Recorders, CountBucket(w) \/ CountAll(w) \/ LoadSum(w) \/ AddSum(w)
      PROVE  CountInv'
  BY <1>5, ObserveCounts
<1>6. RenderNext => UNCHANGED <<counters, sum, recorder>>
  BY DEF RenderNext
<1>7. ASSUME NEW w \in Recorders
      PROVE  StartScrape(w) => UNCHANGED <<counters, sum, recorder>>
  BY DEF StartScrape
<1>8. UNCHANGED metricsVars => UNCHANGED <<counters, sum, recorder>>
  BY DEF metricsVars
<1> QED
  BY <1>1, <1>2, <1>3, <1>4, <1>5, <1>6, <1>7, <1>8 DEF MetricsNext

\* No request is lost between the counters that the loop and the workers move without
\* a lock: with any number of workers each one is in the class of its status, or with
\* a worker that has not come to its end, and 504s are counted once more.
THEOREM EveryRequestCounted == MetricsSpec => []RequestsAccountedFor
<1>1. CountInv => RequestsAccountedFor
  BY DEF CountInv
<1> QED
  BY <1>1, InitCountInv, NextCountInv, PTL DEF MetricsSpec

-----------------------------------------------------------------------------
(* Metrics: what the buckets tell of the durations.                        *)

InHand == {"observe", "count", "load", "add"}

\* The number rendered for bucket i; beyond the last it is the count of all.
Rendered(i) == IF i = 0 THEN 0 ELSE IF i = Inf THEN total ELSE histogram[i]

\* Has a worker counted its duration in bucket i, and not finished?
CountedIn(r, i) ==
  IF i = Inf THEN r.at \in {"load", "add"}
  ELSE r.at \in InHand /\ r.d <= i /\ (r.at = "observe" => i < r.read)

Counting(i) == {w \in Recorders : CountedIn(recorder[w], i)}

Observes(r, d) == r.at \in InHand /\ r.d = d

Observing(d) == {w \in Recorders : Observes(recorder[w], d)}

\* Between observations two neighbouring buckets differ by the durations of the
\* second.
BucketsExact ==
  started = finished => \A i \in 1..Inf : Rendered(i) - Rendered(i - 1) = finished[i]

\* At any time they do, but for the observations on their way.
Base(i) == Rendered(i) - Cardinality(Counting(i))

BucketInv ==
  /\ histogram \in [1..Buckets -> Nat] /\ total \in Nat
  /\ started \in [1..Inf -> Nat] /\ finished \in [1..Inf -> Nat]
  /\ \A w \in Recorders : recorder[w].at = "observe" => recorder[w].read \in recorder[w].d..Inf
  /\ \A d \in 1..Inf : started[d] = finished[d] + Cardinality(Observing(d))
  /\ \A i \in 1..Inf : Base(i) - Base(i - 1) = finished[i]

RecorderStatesAll == [at : Places, d : 1..Inf, read : Nat]

One(b) == IF b THEN 1 ELSE 0

\* Of two sets of workers that differ by w at most.
LEMMA OneChanges ==
  ASSUME NEW S \in SUBSET Recorders, NEW T \in SUBSET Recorders, NEW w \in Recorders,
         T \ {w} = S \ {w}
  PROVE  /\ Cardinality(S) \in Nat
         /\ Cardinality(T) = Cardinality(S) + One(w \in T) - One(w \in S)
<1>1. /\ IsFiniteSet(S) /\ IsFiniteSet(T) /\ Cardinality(S) \in Nat /\ Cardinality(T) \in Nat
  BY MetricsAssumption, FS_Subset, FS_CardinalityType
<1> DEFINE R == S \ {w}
<1>2. \A X \in {S, T} : Cardinality(X) = Cardinality(X \ {w}) + One(w \in X)
  <2> TAKE X \in {S, T}
  <2>1. CASE w \in X
    <3>1. IsFiniteSet(X) /\ Cardinality(X) \in Nat
      BY <1>1
    <3>2. Cardinality(X \ {w}) = Cardinality(X) - 1
      BY <2>1, <3>1, FS_RemoveElement
    <3>3. One(w \in X) = 1
      BY <2>1 DEF One
    <3> HIDE DEF One
    <3> QED
      BY <3>1, <3>2, <3>3
  <2>2. CASE w \notin X
    <3>1. X \ {w} = X
      BY <2>2
    <3> QED
      BY <1>1, <2>2, <3>1 DEF One
  <2> QED
    BY <2>1, <2>2
<1>3. Cardinality(R) \in Nat
  BY <1>1, FS_Subset, FS_CardinalityType
<1>4. /\ Cardinality(S) = Cardinality(R) + One(w \in S)
      /\ Cardinality(T) = Cardinality(R) + One(w \in T)
  BY <1>2
<1>5. One(w \in S) \in Nat /\ One(w \in T) \in Nat
  BY DEF One
<1> HIDE DEF R
<1> QED
  BY <1>1, <1>3, <1>4, <1>5

LEMMA BucketTypes ==
  ASSUME CountInv, BucketInv
  PROVE  /\ Inf \in Nat /\ Inf = Buckets + 1 /\ Inf > 1 /\ 0 # Inf
         /\ \A i \in 0..Inf : Rendered(i) \in Nat /\ Cardinality(Counting(i)) \in Nat
         /\ Rendered(0) = 0 /\ Counting(0) = {}
<1>1. Inf \in Nat /\ Inf = Buckets + 1 /\ Inf > 1 /\ 0 # Inf
  BY MetricsAssumption DEF Inf
<1>2. \A i \in 0..Inf : Rendered(i) \in Nat
  BY <1>1, MetricsAssumption DEF Rendered, BucketInv
<1>3. \A i \in 0..Inf : Cardinality(Counting(i)) \in Nat
  <2> TAKE i \in 0..Inf
  <2>1. Counting(i) \in SUBSET Recorders
    BY DEF Counting
  <2> QED
    BY <2>1, MetricsAssumption, FS_Subset, FS_CardinalityType
<1>4. Rendered(0) = 0
  BY DEF Rendered
<1>5. \A w \in Recorders : recorder[w].d \in 1..Inf
  BY DEF CountInv, CountersTyped
<1>6. Counting(0) = {}
  BY <1>1, <1>5 DEF Counting, CountedIn
<1> QED
  BY <1>1, <1>2, <1>3, <1>4, <1>6

LEMMA RecordersKnown ==
  ASSUME CountInv
  PROVE  \A w \in Recorders : recorder[w] \in RecorderStatesAll
BY DEF CountInv, CountersTyped, RecorderStatesAll

LEMMA NothingBelow ==
  ASSUME NEW r \in RecorderStatesAll
  PROVE  ~CountedIn(r, 0)
<1>1. Inf \in Nat /\ 0 # Inf
  BY MetricsAssumption DEF Inf
<1>2. ~(r.d <= 0)
  BY <1>1 DEF RecorderStatesAll
<1> QED
  BY <1>1, <1>2 DEF CountedIn

\* A step of one worker, and what it adds to the base of each bucket.
LEMMA ObservedStep ==
  ASSUME CountInv, BucketInv, NEW w \in Recorders, NEW r \in RecorderStatesAll,
         recorder' = [recorder EXCEPT ![w] = r],
         r.at = "observe" => r.read \in r.d..Inf,
         histogram' \in [1..Buckets -> Nat], total' \in Nat,
         started' \in [1..Inf -> Nat], finished' \in [1..Inf -> Nat],
         NEW more \in [0..Inf -> Int], more[0] = 0,
         \A i \in 1..Inf : Rendered(i)' = Rendered(i) + One(CountedIn(r, i))
                                        - One(CountedIn(recorder[w], i)) + more[i],
         \A i \in 1..Inf : finished'[i] = finished[i] + more[i] - more[i - 1],
         \A d \in 1..Inf : started'[d] = started[d] + finished'[d] - finished[d]
                                         + One(Observes(r, d)) - One(Observes(recorder[w], d))
  PROVE  BucketInv'
<1>1. \A v \in Recorders : recorder'[v] = IF v = w THEN r ELSE recorder[v]
  BY DEF CountInv, CountersTyped
<1>2. \A v \in Recorders : recorder'[v].at = "observe" => recorder'[v].read \in recorder'[v].d..Inf
  BY <1>1 DEF BucketInv
<1>3. ASSUME NEW d \in 1..Inf
      PROVE  started'[d] = finished'[d] + Cardinality(Observing(d)')
  <2>1. Observing(d) \in SUBSET Recorders /\ Observing(d)' \in SUBSET Recorders
    BY DEF Observing
  <2>2. Observing(d)' \ {w} = Observing(d) \ {w}
    BY <1>1 DEF Observing
  <2>3. /\ (w \in Observing(d)') = Observes(r, d)
        /\ (w \in Observing(d)) = Observes(recorder[w], d)
    BY <1>1 DEF Observing, Observes
  <2>4. /\ Cardinality(Observing(d)) \in Nat
        /\ Cardinality(Observing(d)') = Cardinality(Observing(d))
             + One(Observes(r, d)) - One(Observes(recorder[w], d))
    BY <2>1, <2>2, <2>3, OneChanges
  <2>5. One(Observes(r, d)) \in Int /\ One(Observes(recorder[w], d)) \in Int
    BY DEF One
  <2>6. /\ started'[d] = started[d] + finished'[d] - finished[d]
                         + One(Observes(r, d)) - One(Observes(recorder[w], d))
        /\ started[d] = finished[d] + Cardinality(Observing(d))
        /\ started[d] \in Nat /\ finished[d] \in Nat /\ finished'[d] \in Nat /\ started'[d] \in Nat
    BY DEF BucketInv
  <2> QED
    BY <2>4, <2>5, <2>6
<1>4. ASSUME NEW i \in 0..Inf
      PROVE  Base(i)' = Base(i) + more[i] /\ Base(i) \in Int
  <2>1. Counting(i) \in SUBSET Recorders /\ Counting(i)' \in SUBSET Recorders
    BY DEF Counting
  <2>2. Counting(i)' \ {w} = Counting(i) \ {w}
    BY <1>1 DEF Counting
  <2>3. /\ (w \in Counting(i)') = CountedIn(r, i)
        /\ (w \in Counting(i)) = CountedIn(recorder[w], i)
    BY <1>1 DEF Counting, CountedIn
  <2>4. /\ Cardinality(Counting(i)) \in Nat
        /\ Cardinality(Counting(i)') = Cardinality(Counting(i))
             + One(CountedIn(r, i)) - One(CountedIn(recorder[w], i))
    BY <2>1, <2>2, <2>3, OneChanges
  <2>5. One(CountedIn(r, i)) \in Int /\ One(CountedIn(recorder[w], i)) \in Int
    BY DEF One
  <2>6. Rendered(i)' = Rendered(i) + One(CountedIn(r, i)) - One(CountedIn(recorder[w], i)) + more[i]
    <3>1. CASE i = 0
      <4>1. ~CountedIn(r, 0) /\ ~CountedIn(recorder[w], 0)
        BY RecordersKnown, NothingBelow
      <4>2. Rendered(0)' = 0 /\ Rendered(0) = 0
        BY DEF Rendered
      <4> QED
        BY <3>1, <4>1, <4>2 DEF One
    <3>2. CASE i # 0
      BY <3>2
    <3> QED
      BY <3>1, <3>2
  <2>7. Rendered(i) \in Nat /\ more[i] \in Int
    BY BucketTypes
  <2>8. Base(i)' = Rendered(i)' - Cardinality(Counting(i)') /\ Base(i) = Rendered(i) - Cardinality(Counting(i))
    BY DEF Base
  <2> QED
    BY <2>4, <2>5, <2>6, <2>7, <2>8
<1>5. ASSUME NEW i \in 1..Inf
      PROVE  Base(i)' - Base(i - 1)' = finished'[i]
  <2>1. i \in 0..Inf /\ i - 1 \in 0..Inf
    BY BucketTypes
  <2>2. /\ finished'[i] = finished[i] + more[i] - more[i - 1]
        /\ finished[i] \in Nat /\ more[i] \in Int /\ more[i - 1] \in Int
    BY <2>1 DEF BucketInv
  <2>3. Base(i) - Base(i - 1) = finished[i]
    BY DEF BucketInv
  <2>4. /\ Base(i)' = Base(i) + more[i] /\ Base(i) \in Int
        /\ Base(i - 1)' = Base(i - 1) + more[i - 1] /\ Base(i - 1) \in Int
    BY <1>4, <2>1
  <2> QED
    BY <2>2, <2>3, <2>4
<1> QED
  BY <1>2, <1>3, <1>5 DEF BucketInv

LEMMA RecordBuckets ==
  ASSUME CountInv, BucketInv, NEW w \in Recorders, RecordStatus(w)
  PROVE  BucketInv'
<1>1. PICK d \in 1..Inf :
        /\ recorder' = [recorder EXCEPT ![w] = [at |-> "observe", d |-> d, read |-> d]]
        /\ started' = [started EXCEPT ![d] = @ + 1]
  BY DEF RecordStatus
<1>2. /\ recorder[w].at = "handler"
      /\ UNCHANGED <<histogram, total, finished>>
  BY DEF RecordStatus
<1> DEFINE r == [at |-> "observe", d |-> d, read |-> d]
           more == [i \in 0..Inf |-> 0]
<1>3. Inf \in Nat /\ d \in Nat /\ d <= Inf
  BY BucketTypes
<1>4. /\ r \in RecorderStatesAll /\ r.at = "observe" /\ r.d = d /\ r.read = d
      /\ r.read \in r.d..Inf
  BY <1>3 DEF RecorderStatesAll, Places
<1>5. recorder' = [recorder EXCEPT ![w] = r]
  BY <1>1
<1>6. more \in [0..Inf -> Int] /\ \A i \in 0..Inf : more[i] = 0
  OBVIOUS
<1> HIDE DEF r, more
<1>7. \A i \in 1..Inf : ~CountedIn(r, i) /\ ~CountedIn(recorder[w], i)
  BY <1>2, <1>3, <1>4 DEF CountedIn, InHand
<1>8. \A i \in 1..Inf : Rendered(i)' = Rendered(i) /\ Rendered(i) \in Nat
  BY <1>2, BucketTypes DEF Rendered
<1>9. \A i \in 1..Inf : Rendered(i)' = Rendered(i) + One(CountedIn(r, i))
                                     - One(CountedIn(recorder[w], i)) + more[i]
  BY <1>6, <1>7, <1>8 DEF One
<1>10. /\ started \in [1..Inf -> Nat] /\ finished \in [1..Inf -> Nat]
       /\ histogram \in [1..Buckets -> Nat] /\ total \in Nat
  BY DEF BucketInv
<1>11. started' \in [1..Inf -> Nat] /\ finished' = finished
  BY <1>1, <1>2, <1>10
<1>12. \A i \in 1..Inf : finished'[i] = finished[i] + more[i] - more[i - 1]
  BY <1>3, <1>6, <1>10, <1>11
<1>13. \A e \in 1..Inf : started'[e] = started[e] + finished'[e] - finished[e]
                             + One(Observes(r, e)) - One(Observes(recorder[w], e))
  <2> TAKE e \in 1..Inf
  <2>1. ~Observes(recorder[w], e) /\ (Observes(r, e) <=> e = d)
    BY <1>2, <1>4 DEF Observes, InHand
  <2>2. started'[e] = started[e] + (IF e = d THEN 1 ELSE 0)
    BY <1>1, <1>10
  <2> QED
    BY <1>10, <1>11, <2>1, <2>2 DEF One
<1>14. histogram' \in [1..Buckets -> Nat] /\ total' \in Nat /\ finished' \in [1..Inf -> Nat]
  BY <1>2, <1>10
<1>15. more[0] = 0
  BY <1>3, <1>6
<1> QED
  BY <1>4, <1>5, <1>6, <1>9, <1>11, <1>12, <1>13, <1>14, <1>15, ObservedStep

\* A worker goes on, and nothing is started or finished.
LEMMA CountingStep ==
  ASSUME CountInv, BucketInv, NEW w \in Recorders, NEW r \in RecorderStatesAll,
         recorder' = [recorder EXCEPT ![w] = r],
         r.at = "observe" => r.read \in r.d..Inf,
         histogram' \in [1..Buckets -> Nat], total' \in Nat,
         UNCHANGED <<started, finished>>,
         r.at \in InHand <=> recorder[w].at \in InHand,
         r.at \in InHand => r.d = recorder[w].d,
         \A i \in 1..Inf : Rendered(i)' = Rendered(i) + One(CountedIn(r, i))
                                        - One(CountedIn(recorder[w], i))
  PROVE  BucketInv'
<1> DEFINE more == [i \in 0..Inf |-> 0]
<1>1. more \in [0..Inf -> Int] /\ \A i \in 0..Inf : more[i] = 0
  OBVIOUS
<1> HIDE DEF more
<1>2. Inf \in Nat /\ \A i \in 1..Inf : Rendered(i) \in Nat
  BY BucketTypes
<1>3. \A i \in 1..Inf : One(CountedIn(r, i)) \in Int /\ One(CountedIn(recorder[w], i)) \in Int
  BY DEF One
<1>4. \A i \in 1..Inf : Rendered(i)' = Rendered(i) + One(CountedIn(r, i))
                                     - One(CountedIn(recorder[w], i)) + more[i]
  BY <1>1, <1>2, <1>3
<1>5. started \in [1..Inf -> Nat] /\ finished \in [1..Inf -> Nat]
  BY DEF BucketInv
<1>6. \A i \in 1..Inf : finished'[i] = finished[i] + more[i] - more[i - 1]
  BY <1>1, <1>2, <1>5
<1>7. \A d \in 1..Inf : Observes(r, d) <=> Observes(recorder[w], d)
  BY DEF Observes
<1>8. \A d \in 1..Inf : started'[d] = started[d] + finished'[d] - finished[d]
                            + One(Observes(r, d)) - One(Observes(recorder[w], d))
  BY <1>5, <1>7 DEF One
<1>9. started' \in [1..Inf -> Nat] /\ finished' \in [1..Inf -> Nat] /\ more[0] = 0
  BY <1>1, <1>2, <1>5
<1> QED
  BY <1>1, <1>4, <1>6, <1>8, <1>9, ObservedStep

\* The bucket that is next, of a worker that has not reached the end.
LEMMA NextBucket ==
  ASSUME NEW n \in Nat, NEW d \in 1..Inf, n \in d..Inf, n # Inf
  PROVE  n \in 1..Buckets /\ n < Inf /\ d <= n /\ d \in Nat /\ n + 1 \in d..Inf
<1>1. Inf \in Nat /\ Inf = Buckets + 1 /\ Buckets \in Nat
  BY MetricsAssumption DEF Inf
<1> QED
  BY <1>1

LEMMA ObservingCounts ==
  ASSUME NEW r, r.at = "observe"
  PROVE  \A i \in 1..Inf : CountedIn(r, i) <=> (i # Inf /\ r.d <= i /\ i < r.read)
BY DEF CountedIn, InHand

LEMMA CountBucketBuckets ==
  ASSUME CountInv, BucketInv, NEW w \in Recorders, CountBucket(w)
  PROVE  BucketInv'
<1> DEFINE n == recorder[w].read
           d == recorder[w].d
<1>1. /\ recorder[w] \in RecorderStatesAll /\ recorder[w].at = "observe"
      /\ n \in d..Inf /\ d \in 1..Inf /\ n \in Nat /\ UNCHANGED <<total, started, finished>>
  BY RecordersKnown DEF CountBucket, BucketInv, RecorderStatesAll
<1>2. Inf \in Nat /\ Inf = Buckets + 1 /\ Inf > 1
  BY BucketTypes
<1>3. histogram \in [1..Buckets -> Nat] /\ total \in Nat
  BY DEF BucketInv
<1>4. CASE n = Inf
  <2> DEFINE r == [recorder[w] EXCEPT !.at = "count"]
  <2>1. recorder' = [recorder EXCEPT ![w] = r] /\ histogram' = histogram
    BY <1>4 DEF CountBucket, At, CountInv, CountersTyped
  <2>2. /\ r \in RecorderStatesAll /\ r.at = "count" /\ r.d = d /\ r.read = n
    BY <1>1 DEF RecorderStatesAll, Places
  <2> HIDE DEF r
  <2>3. \A i \in 1..Inf : CountedIn(r, i) <=> CountedIn(recorder[w], i)
    BY <1>1, <1>2, <1>4, <2>2 DEF CountedIn, InHand
  <2>4. \A i \in 1..Inf : Rendered(i)' = Rendered(i) /\ Rendered(i) \in Nat
    BY <1>1, <2>1, BucketTypes DEF Rendered
  <2>5. \A i \in 1..Inf : Rendered(i)' = Rendered(i) + One(CountedIn(r, i))
                                       - One(CountedIn(recorder[w], i))
    BY <2>3, <2>4 DEF One
  <2>6. histogram' \in [1..Buckets -> Nat] /\ total' \in Nat
    BY <1>1, <1>3, <2>1
  <2>7. r.at \in InHand /\ recorder[w].at \in InHand /\ r.at # "observe"
    BY <1>1, <2>2 DEF InHand
  <2> QED
    BY <1>1, <2>1, <2>2, <2>5, <2>6, <2>7, CountingStep
<1>5. CASE n # Inf
  <2> DEFINE r == [recorder[w] EXCEPT !.read = @ + 1]
  <2>1. /\ recorder' = [recorder EXCEPT ![w] = r]
        /\ histogram' = [histogram EXCEPT ![n] = @ + 1]
    BY <1>5 DEF CountBucket, CountInv, CountersTyped
  <2>2. /\ r \in RecorderStatesAll /\ r.at = "observe" /\ r.d = d /\ r.read = n + 1
    BY <1>1 DEF RecorderStatesAll
  <2>3. n \in 1..Buckets /\ n < Inf /\ d <= n /\ d \in Nat /\ n + 1 \in d..Inf
    <3>1. n \in Nat /\ d \in 1..Inf /\ n \in d..Inf
      BY <1>1
    <3> HIDE DEF n, d
    <3> QED
      BY <3>1, <1>5, NextBucket
  <2> HIDE DEF r
  <2>4. /\ \A i \in 1..Inf : CountedIn(r, i) <=> (i # Inf /\ d <= i /\ i < n + 1)
        /\ \A i \in 1..Inf : CountedIn(recorder[w], i) <=> (i # Inf /\ d <= i /\ i < n)
    <3>1. \A i \in 1..Inf : CountedIn(r, i) <=> (i # Inf /\ r.d <= i /\ i < r.read)
      BY <2>2, ObservingCounts
    <3>2. \A i \in 1..Inf : CountedIn(recorder[w], i)
             <=> (i # Inf /\ recorder[w].d <= i /\ i < recorder[w].read)
      BY <1>1, ObservingCounts
    <3> QED
      BY <2>2, <3>1, <3>2
  <2> HIDE DEF n, d
  <2>5. \A i \in 1..Inf : Rendered(i)' = Rendered(i) + (IF i = n THEN 1 ELSE 0) /\ Rendered(i) \in Nat
    <3> TAKE i \in 1..Inf
    <3>1. i \in Nat /\ i # 0 /\ Rendered(i) \in Nat /\ (i # Inf => i \in 1..Buckets)
      BY <1>2, BucketTypes, MetricsAssumption
    <3>2. n # Inf /\ total' = total
      BY <1>1, <1>5
    <3>3. i # Inf => histogram'[i] = histogram[i] + (IF i = n THEN 1 ELSE 0)
      BY <1>3, <2>1, <2>3, <3>1
    <3>4. CASE i = Inf
      BY <3>1, <3>2, <3>4 DEF Rendered
    <3>5. CASE i # Inf
      BY <3>1, <3>3, <3>5 DEF Rendered
    <3> QED
      BY <3>4, <3>5
  <2>6. n \in Nat /\ d \in Nat
    BY <1>1, <2>3
  <2>7. \A i \in 1..Inf : Rendered(i)' = Rendered(i) + One(CountedIn(r, i))
                                       - One(CountedIn(recorder[w], i))
    <3> TAKE i \in 1..Inf
    <3>1. i \in Nat /\ Rendered(i) \in Nat
      BY <1>2, <2>5
    <3>2. One(CountedIn(r, i)) = One(CountedIn(recorder[w], i)) + (IF i = n THEN 1 ELSE 0)
      BY <2>3, <2>4, <2>6, <3>1 DEF One
    <3>3. One(CountedIn(recorder[w], i)) \in Int
      BY DEF One
    <3> QED
      BY <2>5, <3>1, <3>2, <3>3
  <2>8. histogram' \in [1..Buckets -> Nat] /\ total' \in Nat
    BY <1>1, <1>3, <2>1, <2>3
  <2>9. r.read \in r.d..Inf
    BY <2>2, <2>3
  <2>10. r.at \in InHand /\ recorder[w].at \in InHand
    BY <1>1, <2>2 DEF InHand
  <2>11. r.d = recorder[w].d
    BY <2>2 DEF d
  <2>12. UNCHANGED <<started, finished>>
    BY <1>1
  <2> QED
    BY <2>1, <2>2, <2>7, <2>8, <2>9, <2>10, <2>11, <2>12, CountingStep
<1> QED
  BY <1>4, <1>5

LEMMA CountAllBuckets ==
  ASSUME CountInv, BucketInv, NEW w \in Recorders, CountAll(w)
  PROVE  BucketInv'
<1> DEFINE r == [recorder[w] EXCEPT !.at = "load"]
<1>1. /\ recorder[w] \in RecorderStatesAll /\ recorder[w].at = "count"
      /\ total' = total + 1 /\ UNCHANGED <<histogram, started, finished>>
      /\ recorder' = [recorder EXCEPT ![w] = r]
  BY RecordersKnown DEF CountAll, At, CountInv, CountersTyped
<1>2. r \in RecorderStatesAll /\ r.at = "load" /\ r.d = recorder[w].d
  BY <1>1 DEF RecorderStatesAll, Places
<1>3. Inf \in Nat /\ 0 # Inf /\ \A i \in 1..Inf : Rendered(i) \in Nat
  BY BucketTypes
<1> HIDE DEF r
<1>4. /\ \A i \in 1..Inf : i # Inf => (CountedIn(r, i) <=> CountedIn(recorder[w], i))
      /\ CountedIn(r, Inf) /\ ~CountedIn(recorder[w], Inf)
  BY <1>1, <1>2 DEF CountedIn, InHand
<1>5. histogram \in [1..Buckets -> Nat] /\ total \in Nat
  BY DEF BucketInv
<1>6. /\ \A i \in 1..Inf : i # Inf => Rendered(i)' = Rendered(i)
      /\ Rendered(Inf)' = Rendered(Inf) + 1
  BY <1>1, <1>3 DEF Rendered
<1>7. \A i \in 1..Inf : Rendered(i)' = Rendered(i) + One(CountedIn(r, i))
                                     - One(CountedIn(recorder[w], i))
  BY <1>3, <1>4, <1>6 DEF One
<1>8. histogram' \in [1..Buckets -> Nat] /\ total' \in Nat
  BY <1>1, <1>5
<1>9. r.at \in InHand /\ recorder[w].at \in InHand /\ r.at # "observe"
  BY <1>1, <1>2 DEF InHand
<1>10. UNCHANGED <<started, finished>>
  BY <1>1
<1> QED
  BY <1>1, <1>2, <1>7, <1>8, <1>9, <1>10, CountingStep

\* A step within the loop over duration_sum_.
LEMMA SumLoopBuckets ==
  ASSUME CountInv, BucketInv, NEW w \in Recorders, NEW r \in RecorderStatesAll,
         recorder' = [recorder EXCEPT ![w] = r],
         UNCHANGED <<histogram, total, started, finished>>,
         r.d = recorder[w].d, r.at \in {"load", "add"}, recorder[w].at \in {"load", "add"}
  PROVE  BucketInv'
<1>1. Inf \in Nat /\ \A i \in 1..Inf : Rendered(i) \in Nat
  BY BucketTypes
<1>2. \A i \in 1..Inf : CountedIn(r, i) <=> CountedIn(recorder[w], i)
  BY DEF CountedIn, InHand
<1>3. \A i \in 1..Inf : Rendered(i)' = Rendered(i)
  BY DEF Rendered
<1>4. \A i \in 1..Inf : Rendered(i)' = Rendered(i) + One(CountedIn(r, i))
                                     - One(CountedIn(recorder[w], i))
  BY <1>1, <1>2, <1>3 DEF One
<1>5. histogram' \in [1..Buckets -> Nat] /\ total' \in Nat
  BY DEF BucketInv
<1>6. r.at \in InHand /\ recorder[w].at \in InHand /\ r.at # "observe"
  BY DEF InHand
<1>7. UNCHANGED <<started, finished>>
  OBVIOUS
<1> QED
  BY <1>4, <1>5, <1>6, <1>7, CountingStep

LEMMA FinishBuckets ==
  ASSUME CountInv, BucketInv, NEW w \in Recorders, recorder[w].at = "add",
         NEW r \in RecorderStatesAll, r.at = "idle",
         recorder' = [recorder EXCEPT ![w] = r],
         finished' \in [1..Inf -> Nat],
         \A i \in 1..Inf : finished'[i] = finished[i] + One(i = recorder[w].d),
         UNCHANGED <<histogram, total, started>>
  PROVE  BucketInv'
<1> DEFINE d == recorder[w].d
           more == [i \in 0..Inf |-> IF d <= i THEN 1 ELSE 0]
<1>1. Inf \in Nat /\ Inf > 1 /\ \A i \in 1..Inf : Rendered(i) \in Nat
  BY BucketTypes
<1>2. recorder[w] \in RecorderStatesAll /\ d \in 1..Inf
  BY RecordersKnown DEF RecorderStatesAll
<1>3. d \in Nat /\ 1 <= d /\ d <= Inf
  BY <1>1, <1>2
<1>5. /\ histogram \in [1..Buckets -> Nat] /\ total \in Nat
      /\ started \in [1..Inf -> Nat] /\ finished \in [1..Inf -> Nat]
  BY DEF BucketInv
<1>6. \A i \in 1..Inf : finished'[i] = finished[i] + (IF i = d THEN 1 ELSE 0)
  BY DEF One
<1>7. \A i \in 1..Inf : ~CountedIn(r, i) /\ (CountedIn(recorder[w], i) <=> d <= i)
  BY <1>3 DEF CountedIn, InHand
<1>8. /\ more \in [0..Inf -> Int] /\ more[0] = 0
      /\ \A i \in 0..Inf : more[i] = IF d <= i THEN 1 ELSE 0
  BY <1>1, <1>3
<1>9. \A i \in 1..Inf : Rendered(i)' = Rendered(i)
  BY DEF Rendered
<1> HIDE DEF d, more
<1>10. \A i \in 1..Inf : Rendered(i)' = Rendered(i) + One(CountedIn(r, i))
                                      - One(CountedIn(recorder[w], i)) + more[i]
  <2> TAKE i \in 1..Inf
  <2>1. more[i] = One(CountedIn(recorder[w], i)) /\ One(CountedIn(r, i)) = 0
    BY <1>1, <1>7, <1>8 DEF One
  <2>2. more[i] \in Int
    BY <1>1, <1>8
  <2> QED
    BY <1>1, <1>9, <2>1, <2>2
<1>11. \A i \in 1..Inf : finished'[i] = finished[i] + more[i] - more[i - 1]
  <2> TAKE i \in 1..Inf
  <2>1. /\ i \in Nat /\ i - 1 \in 0..Inf /\ i \in 0..Inf /\ finished[i] \in Nat
    BY <1>1, <1>5
  <2>2. /\ more[i] = (IF d <= i THEN 1 ELSE 0)
        /\ more[i - 1] = (IF d <= i - 1 THEN 1 ELSE 0)
    BY <1>8, <2>1
  <2>3. finished'[i] = finished[i] + (IF i = d THEN 1 ELSE 0)
    BY <1>6
  <2> QED
    BY <1>3, <2>1, <2>2, <2>3
<1>12. \A e \in 1..Inf : started'[e] = started[e] + finished'[e] - finished[e]
                             + One(Observes(r, e)) - One(Observes(recorder[w], e))
  <2> TAKE e \in 1..Inf
  <2>1. ~Observes(r, e) /\ (Observes(recorder[w], e) <=> e = d)
    BY DEF Observes, InHand, d
  <2> QED
    BY <1>5, <1>6, <2>1 DEF One
<1>13. /\ histogram' \in [1..Buckets -> Nat] /\ total' \in Nat /\ started' \in [1..Inf -> Nat]
  BY <1>5
<1>14. more \in [0..Inf -> Int] /\ more[0] = 0
  BY <1>8
<1>15. r.at # "observe"
  OBVIOUS
<1> QED
  BY <1>10, <1>11, <1>12, <1>13, <1>14, <1>15, ObservedStep

LEMMA DispatchBuckets ==
  ASSUME CountInv, BucketInv, NEW w \in Recorders, Dispatched(w)
  PROVE  BucketInv'
<1> DEFINE r == [Resting EXCEPT !.at = "handler"]
<1>1. /\ recorder[w].at = "idle" /\ recorder' = [recorder EXCEPT ![w] = r]
      /\ UNCHANGED <<histogram, total, started, finished>>
  BY DEF Dispatched
<1>2. Inf \in Nat /\ Inf > 1 /\ \A i \in 1..Inf : Rendered(i) \in Nat
  BY BucketTypes
<1>3. r \in RecorderStatesAll /\ r.at = "handler"
  BY <1>2 DEF Resting, RecorderStatesAll, Places
<1> HIDE DEF r
<1>4. \A i \in 1..Inf : ~CountedIn(r, i) /\ ~CountedIn(recorder[w], i)
  BY <1>1, <1>3 DEF CountedIn, InHand
<1>5. \A i \in 1..Inf : Rendered(i)' = Rendered(i)
  BY <1>1 DEF Rendered
<1>6. \A i \in 1..Inf : Rendered(i)' = Rendered(i) + One(CountedIn(r, i))
                                     - One(CountedIn(recorder[w], i))
  BY <1>2, <1>4, <1>5 DEF One
<1>7. histogram' \in [1..Buckets -> Nat] /\ total' \in Nat
  BY <1>1 DEF BucketInv
<1>8. r.at \notin InHand /\ recorder[w].at \notin InHand /\ r.at # "observe"
  BY <1>1, <1>3 DEF InHand
<1>9. UNCHANGED <<started, finished>>
  BY <1>1
<1> QED
  BY <1>1, <1>3, <1>6, <1>7, <1>8, <1>9, CountingStep

LEMMA SumBuckets ==
  ASSUME CountInv, BucketInv, NEW w \in Recorders, LoadSum(w) \/ AddSum(w)
  PROVE  BucketInv'
<1>1. /\ recorder[w] \in RecorderStatesAll /\ recorder \in [Recorders -> RecorderStatesAll]
      /\ sum \in Nat
  BY RecordersKnown DEF CountInv, CountersTyped, RecorderStatesAll
<1>2. CASE LoadSum(w)
  <2> DEFINE r == [recorder[w] EXCEPT !.at = "add", !.read = sum]
  <2>1. /\ recorder[w].at = "load" /\ UNCHANGED <<histogram, total, started, finished>>
    BY <1>2 DEF LoadSum
  <2>2. recorder' = [recorder EXCEPT ![w] = r]
    BY <1>1, <1>2 DEF LoadSum
  <2>3. r \in RecorderStatesAll /\ r.at = "add" /\ r.d = recorder[w].d
    BY <1>1 DEF RecorderStatesAll, Places
  <2> HIDE DEF r
  <2> QED
    BY <2>1, <2>2, <2>3, SumLoopBuckets
<1>3. CASE AddSum(w)
  <2>1. recorder[w].at = "add" /\ UNCHANGED <<histogram, total, started>>
    BY <1>3 DEF AddSum
  <2>2. CASE finished' = [finished EXCEPT ![recorder[w].d] = @ + 1]
             /\ recorder' = [recorder EXCEPT ![w] = Resting]
    <3>1. finished \in [1..Inf -> Nat] /\ recorder[w].d \in 1..Inf
      BY <1>1 DEF BucketInv, RecorderStatesAll
    <3>2. /\ finished' \in [1..Inf -> Nat]
          /\ \A i \in 1..Inf : finished'[i] = finished[i] + One(i = recorder[w].d)
      BY <2>2, <3>1 DEF One
    <3>3. Resting \in RecorderStatesAll /\ Resting.at = "idle"
      BY BucketTypes DEF Resting, RecorderStatesAll, Places
    <3> QED
      BY <2>1, <2>2, <3>2, <3>3, FinishBuckets
  <2>3. CASE recorder' = [recorder EXCEPT ![w].read = sum] /\ UNCHANGED finished
    <3> DEFINE r == [recorder[w] EXCEPT !.read = sum]
    <3>1. recorder' = [recorder EXCEPT ![w] = r]
      BY <1>1, <2>3
    <3>2. r \in RecorderStatesAll /\ r.at = "add" /\ r.d = recorder[w].d
      BY <1>1, <2>1 DEF RecorderStatesAll
    <3> HIDE DEF r
    <3> QED
      BY <2>1, <2>3, <3>1, <3>2, SumLoopBuckets
  <2> QED
    BY <1>3, <2>2, <2>3 DEF AddSum
<1> QED
  BY <1>2, <1>3

LEMMA BucketsUntouched ==
  ASSUME BucketInv, UNCHANGED <<histogram, total, recorder, started, finished>>
  PROVE  BucketInv'
BY DEF BucketInv, Base, Rendered, Counting, Observing

LEMMA InitBucketInv == MetricsInit => BucketInv
<1> SUFFICES ASSUME MetricsInit
             PROVE  BucketInv
  OBVIOUS
<1>1. Inf \in Nat /\ Inf = Buckets + 1 /\ Buckets \in Nat
  BY MetricsAssumption DEF Inf
<1>2. /\ histogram \in [1..Buckets -> Nat] /\ total \in Nat
      /\ started \in [1..Inf -> Nat] /\ finished \in [1..Inf -> Nat]
  BY DEF MetricsInit, None
<1>3. \A w \in Recorders : recorder[w].at = "idle"
  BY DEF MetricsInit, Resting
<1>4. \A i \in 0..Inf : Counting(i) = {} /\ Rendered(i) = 0
  BY <1>1, <1>3 DEF Counting, CountedIn, InHand, Rendered, MetricsInit
<1>5. \A d \in 1..Inf : Observing(d) = {}
  BY <1>3 DEF Observing, Observes, InHand
<1>6. Cardinality({}) = 0
  BY FS_EmptySet
<1>7. \A i \in 0..Inf : Base(i) = 0
  BY <1>4, <1>6 DEF Base
<1>8. \A i \in 1..Inf : Base(i) - Base(i - 1) = finished[i]
  <2> TAKE i \in 1..Inf
  <2>1. i \in 0..Inf /\ i - 1 \in 0..Inf
    BY <1>1
  <2>2. finished[i] = 0
    BY DEF MetricsInit, None
  <2> QED
    BY <1>7, <2>1, <2>2
<1>9. \A d \in 1..Inf : started[d] = finished[d] + Cardinality(Observing(d))
  <2> TAKE d \in 1..Inf
  <2>1. started[d] = 0 /\ finished[d] = 0
    BY DEF MetricsInit, None
  <2> QED
    BY <1>5, <1>6, <2>1
<1> QED
  BY <1>2, <1>3, <1>8, <1>9 DEF BucketInv

LEMMA NextBucketInv == CountInv /\ BucketInv /\ [MetricsNext]_metricsVars => BucketInv'
<1> SUFFICES ASSUME CountInv, BucketInv, [MetricsNext]_metricsVars
             PROVE  BucketInv'
  OBVIOUS
<1>1. CASE RefuseRequest \/ RenderNext \/ UNCHANGED metricsVars
  BY <1>1, BucketsUntouched DEF RefuseRequest, RenderNext, metricsVars
<1>2. ASSUME NEW w \in Recorders, StartScrape(w) \/ GiveUp(w)
      PROVE  BucketInv'
  BY <1>2, BucketsUntouched DEF StartScrape, GiveUp
<1>3. ASSUME NEW w \in Recorders, Dispatched(w)
      PROVE  BucketInv'
  BY <1>3, DispatchBuckets
<1>4. ASSUME NEW w \in Recorders, RecordStatus(w)
      PROVE  BucketInv'
  BY <1>4, RecordBuckets
<1>5. ASSUME NEW w \in Recorders, CountBucket(w)
      PROVE  BucketInv'
  BY <1>5, CountBucketBuckets
<1>6. ASSUME NEW w \in Recorders, CountAll(w)
      PROVE  BucketInv'
  BY <1>6, CountAllBuckets
<1>7. ASSUME NEW w \in Recorders, LoadSum(w) \/ AddSum(w)
      PROVE  BucketInv'
  BY <1>7, SumBuckets
<1> QED
  BY <1>1, <1>2, <1>3, <1>4, <1>5, <1>6, <1>7 DEF MetricsNext

LEMMA NoneOnTheirWay ==
  ASSUME CountInv, BucketInv
  PROVE  BucketsExact
<1> SUFFICES ASSUME started = finished, NEW i \in 1..Inf
             PROVE  Rendered(i) - Rendered(i - 1) = finished[i]
  BY DEF BucketsExact
<1>1. \A d \in 1..Inf : Observing(d) = {}
  <2> TAKE d \in 1..Inf
  <2>1. Observing(d) \in SUBSET Recorders
    BY DEF Observing
  <2>2. IsFiniteSet(Observing(d)) /\ Cardinality(Observing(d)) \in Nat
    BY <2>1, MetricsAssumption, FS_Subset, FS_CardinalityType
  <2>3. started[d] = finished[d] + Cardinality(Observing(d)) /\ finished[d] \in Nat
    BY DEF BucketInv
  <2>4. Cardinality(Observing(d)) = 0
    BY <2>2, <2>3
  <2> QED
    BY <2>2, <2>4, FS_EmptySet
<1>2. \A w \in Recorders : recorder[w].at \notin InHand
  <2> TAKE w \in Recorders
  <2>1. recorder[w].d \in 1..Inf
    BY RecordersKnown DEF RecorderStatesAll
  <2> QED
    BY <1>1, <2>1 DEF Observing, Observes
<1>3. \A j \in 0..Inf : Counting(j) = {}
  BY <1>2 DEF Counting, CountedIn, InHand
<1>4. \A j \in 0..Inf : Rendered(j) \in Nat /\ Base(j) = Rendered(j)
  BY <1>3, BucketTypes, FS_EmptySet DEF Base
<1>5. i \in 0..Inf /\ i - 1 \in 0..Inf
  BY BucketTypes
<1>6. Base(i) - Base(i - 1) = finished[i]
  BY DEF BucketInv
<1> QED
  BY <1>4, <1>5, <1>6

\* Between observations each bucket of the histogram, and the count of all, exceeds
\* the one before it by exactly the durations that fall between their bounds
\* (observe_duration), however the workers' steps interleave: the buckets are
\* cumulative and no increment is lost, without a lock.
THEOREM BucketsTellTheDurations == MetricsSpec => []BucketsExact
<1>1. MetricsInit => CountInv /\ BucketInv
  BY InitCountInv, InitBucketInv
<1>2. CountInv /\ BucketInv /\ [MetricsNext]_metricsVars => (CountInv /\ BucketInv)'
  BY NextCountInv, NextBucketInv
<1>3. CountInv /\ BucketInv => BucketsExact
  BY NoneOnTheirWay
<1> QED
  BY <1>1, <1>2, <1>3, PTL DEF MetricsSpec

-----------------------------------------------------------------------------
(* Metrics: the sums over the buckets.                                     *)

LEMMA BucketSums ==
  ASSUME NEW h \in [1..Inf -> Int]
  PROVE  /\ AtMost(0, h) = 0
         /\ \A i \in 1..Inf : AtMost(i, h) = AtMost(i - 1, h) + h[i]
         /\ \A i \in 0..Inf : AtMost(i, h) \in Int
<1>1. Inf \in Nat
  BY MetricsAssumption DEF Inf
<1>2. ASSUME NEW i \in 1..Inf
      PROVE  AtMost(i, h) = AtMost(i - 1, h) + h[i] /\ AtMost(i - 1, h) \in Int /\ h[i] \in Int
  <2>1. i - 1 \in Nat /\ (i - 1) + 1 = i /\ \A j \in 1..(i - 1) + 1 : h[j] \in Int
    BY <1>1
  <2> DEFINE m == i - 1
  <2> HIDE DEF m
  <2>2. m \in Nat /\ m + 1 = i /\ \A j \in 1..m + 1 : h[j] \in Int
    BY <2>1 DEF m
  <2>3. SumTo(m, h) \in Int /\ SumTo(m + 1, h) = SumTo(m, h) + h[m + 1]
    BY <2>2, SumOfNext
  <2>4. h[i] \in Int
    OBVIOUS
  <2> QED
    BY <2>2, <2>3, <2>4 DEF AtMost, m
<1>3. AtMost(0, h) = 0
  BY SumOfNone DEF AtMost
<1>4. ASSUME NEW i \in 0..Inf
      PROVE  AtMost(i, h) \in Int
  <2>1. i = 0 \/ i \in 1..Inf
    BY <1>1
  <2> QED
    BY <1>2, <1>3, <2>1
<1> QED
  BY <1>2, <1>3, <1>4

LEMMA SumsAreOrdered ==
  ASSUME NEW h \in [1..Inf -> Int], NEW k \in [1..Inf -> Int],
         \A d \in 1..Inf : h[d] <= k[d]
  PROVE  \A i \in 0..Inf : AtMost(i, h) <= AtMost(i, k)
<1> DEFINE T == {i \in 0..Inf : AtMost(i, h) <= AtMost(i, k)}
<1>1. Inf \in Nat
  BY MetricsAssumption DEF Inf
<1>2. /\ AtMost(0, h) = 0 /\ AtMost(0, k) = 0
      /\ \A i \in 1..Inf : AtMost(i, h) = AtMost(i - 1, h) + h[i]
                           /\ AtMost(i, k) = AtMost(i - 1, k) + k[i]
      /\ \A i \in 0..Inf : AtMost(i, h) \in Int /\ AtMost(i, k) \in Int
  BY BucketSums
<1>3. 0 \in T
  BY <1>1, <1>2
<1>4. \A n \in 0..Inf - 1 : n \in T => n + 1 \in T
  <2> SUFFICES ASSUME NEW n \in 0..Inf - 1, n \in T
               PROVE  n + 1 \in T
    OBVIOUS
  <2>1. n + 1 \in 1..Inf /\ (n + 1) - 1 = n /\ n + 1 \in 0..Inf /\ n \in 0..Inf
    BY <1>1
  <2>2. /\ AtMost(n + 1, h) = AtMost(n, h) + h[n + 1] /\ AtMost(n, h) \in Int /\ h[n + 1] \in Int
        /\ AtMost(n + 1, k) = AtMost(n, k) + k[n + 1] /\ AtMost(n, k) \in Int /\ k[n + 1] \in Int
    BY <1>2, <2>1
  <2>3. h[n + 1] <= k[n + 1] /\ AtMost(n, h) <= AtMost(n, k)
    BY <2>1
  <2>4. AtMost(n + 1, h) <= AtMost(n + 1, k)
    BY <2>2, <2>3
  <2> QED
    BY <2>1, <2>4
<1> HIDE DEF T
<1>5. \A i \in 0..Inf : i \in T
  BY <1>1, <1>3, <1>4, AllUpTo
<1> QED
  BY <1>5 DEF T

\* What grows by h from each bucket to the next is its sum.
LEMMA SumOfSteps ==
  ASSUME NEW h \in [1..Inf -> Int], NEW b \in [0..Inf -> Int], b[0] = 0,
         \A i \in 1..Inf : b[i] = b[i - 1] + h[i]
  PROVE  \A i \in 0..Inf : b[i] = AtMost(i, h)
<1> DEFINE T == {i \in 0..Inf : b[i] = AtMost(i, h)}
<1>1. Inf \in Nat
  BY MetricsAssumption DEF Inf
<1>2. /\ AtMost(0, h) = 0
      /\ \A i \in 1..Inf : AtMost(i, h) = AtMost(i - 1, h) + h[i]
  BY BucketSums
<1>3. 0 \in T
  BY <1>1, <1>2
<1>4. \A n \in 0..Inf - 1 : n \in T => n + 1 \in T
  <2> SUFFICES ASSUME NEW n \in 0..Inf - 1, n \in T
               PROVE  n + 1 \in T
    OBVIOUS
  <2>1. n + 1 \in 1..Inf /\ (n + 1) - 1 = n /\ n + 1 \in 0..Inf
    BY <1>1
  <2>2. b[n + 1] = AtMost(n + 1, h)
    BY <1>2, <2>1
  <2> QED
    BY <2>1, <2>2
<1> HIDE DEF T
<1>5. \A i \in 0..Inf : i \in T
  BY <1>1, <1>3, <1>4, AllUpTo
<1> QED
  BY <1>5 DEF T

\* One duration more.
LEMMA SumOfMore ==
  ASSUME NEW h \in [1..Inf -> Int], NEW k \in [1..Inf -> Int], NEW d \in 1..Inf, NEW c \in Int,
         \A i \in 1..Inf : k[i] = h[i] + (IF i = d THEN c ELSE 0)
  PROVE  AtMost(Inf, k) = AtMost(Inf, h) + c
<1> DEFINE b == [i \in 0..Inf |-> AtMost(i, h) + (IF d <= i THEN c ELSE 0)]
<1>1. Inf \in Nat /\ d \in Nat /\ 1 <= d /\ d <= Inf
  BY MetricsAssumption DEF Inf
<1>2. /\ AtMost(0, h) = 0
      /\ \A i \in 1..Inf : AtMost(i, h) = AtMost(i - 1, h) + h[i]
      /\ \A i \in 0..Inf : AtMost(i, h) \in Int
  BY BucketSums
<1>3. /\ b \in [0..Inf -> Int] /\ b[0] = 0
      /\ \A i \in 0..Inf : b[i] = AtMost(i, h) + (IF d <= i THEN c ELSE 0)
  BY <1>1, <1>2
<1> HIDE DEF b
<1>4. \A i \in 1..Inf : b[i] = b[i - 1] + k[i]
  <2> TAKE i \in 1..Inf
  <2>1. i \in Nat /\ i \in 0..Inf /\ i - 1 \in 0..Inf
    BY <1>1
  <2>2. /\ b[i] = AtMost(i, h) + (IF d <= i THEN c ELSE 0)
        /\ b[i - 1] = AtMost(i - 1, h) + (IF d <= i - 1 THEN c ELSE 0)
    BY <1>3, <2>1
  <2>3. AtMost(i, h) = AtMost(i - 1, h) + h[i] /\ AtMost(i - 1, h) \in Int /\ h[i] \in Int
    BY <1>2, <2>1
  <2>4. k[i] = h[i] + (IF i = d THEN c ELSE 0)
    OBVIOUS
  <2> QED
    BY <1>1, <2>1, <2>2, <2>3, <2>4
<1>5. b[Inf] = AtMost(Inf, k)
  <2>1. \A i \in 0..Inf : b[i] = AtMost(i, k)
    BY <1>3, <1>4, SumOfSteps
  <2> QED
    BY <1>1, <2>1
<1>6. b[Inf] = AtMost(Inf, h) + c
  BY <1>1, <1>3
<1> QED
  BY <1>5, <1>6

\* Workers that are recording one of the durations up to i.
Within(i) == {w \in Recorders : recorder[w].at \in InHand /\ recorder[w].d <= i}

LEMMA BaseIsSum ==
  ASSUME CountInv, BucketInv
  PROVE  \A i \in 0..Inf : Base(i) = AtMost(i, finished)
<1> DEFINE b == [i \in 0..Inf |-> Base(i)]
<1>1. finished \in [1..Inf -> Int] /\ Inf \in Nat
  BY BucketTypes DEF BucketInv
<1>2. Base(0) = 0 /\ \A i \in 0..Inf : Base(i) \in Int
  BY BucketTypes, FS_EmptySet DEF Base
<1>3. \A i \in 1..Inf : Base(i) = Base(i - 1) + finished[i]
  <2> TAKE i \in 1..Inf
  <2>1. i \in 0..Inf /\ i - 1 \in 0..Inf
    BY <1>1
  <2>2. Base(i) - Base(i - 1) = finished[i]
    BY DEF BucketInv
  <2>3. Base(i) \in Int /\ Base(i - 1) \in Int /\ finished[i] \in Int
    BY <1>1, <1>2, <2>1
  <2> QED
    BY <2>2, <2>3
<1>4. \A i \in 1..Inf : i \in 0..Inf /\ i - 1 \in 0..Inf
  BY <1>1
<1>5. b \in [0..Inf -> Int] /\ \A i \in 0..Inf : b[i] = Base(i)
  BY <1>2
<1> HIDE DEF b
<1>6. b[0] = 0 /\ \A i \in 1..Inf : b[i] = b[i - 1] + finished[i]
  BY <1>1, <1>2, <1>3, <1>4, <1>5
<1> QED
  BY <1>1, <1>5, <1>6, SumOfSteps

LEMMA StartedIsSum ==
  ASSUME CountInv, BucketInv
  PROVE  \A i \in 0..Inf : /\ Cardinality(Within(i)) \in Nat /\ IsFiniteSet(Within(i))
                           /\ AtMost(i, started) = AtMost(i, finished) + Cardinality(Within(i))
<1> DEFINE b == [i \in 0..Inf |-> AtMost(i, finished) + Cardinality(Within(i))]
<1>1. finished \in [1..Inf -> Int] /\ started \in [1..Inf -> Int] /\ Inf \in Nat
  BY BucketTypes DEF BucketInv
<1>2. \A i \in 0..Inf : Cardinality(Within(i)) \in Nat /\ IsFiniteSet(Within(i))
  <2> TAKE i \in 0..Inf
  <2>1. Within(i) \in SUBSET Recorders
    BY DEF Within
  <2> QED
    BY <2>1, MetricsAssumption, FS_Subset, FS_CardinalityType
<1>3. \A w \in Recorders : recorder[w].d \in 1..Inf
  BY RecordersKnown DEF RecorderStatesAll
<1>4. Within(0) = {}
  BY <1>1, <1>3 DEF Within
<1>5. ASSUME NEW i \in 1..Inf
      PROVE  Cardinality(Within(i)) = Cardinality(Within(i - 1)) + Cardinality(Observing(i))
  <2>1. i - 1 \in 0..Inf /\ i \in Nat
    BY <1>1
  <2>2. Within(i) = Within(i - 1) \cup Observing(i) /\ Within(i - 1) \cap Observing(i) = {}
    BY <1>1, <1>3, <2>1 DEF Within, Observing, Observes
  <2>3. Observing(i) \in SUBSET Recorders
    BY DEF Observing
  <2>4. IsFiniteSet(Observing(i)) /\ IsFiniteSet(Within(i - 1))
        /\ Cardinality(Observing(i)) \in Nat /\ Cardinality(Within(i - 1)) \in Nat
    BY <1>2, <2>1, <2>3, MetricsAssumption, FS_Subset, FS_CardinalityType
  <2>5. Cardinality(Within(i - 1) \cup Observing(i))
          = Cardinality(Within(i - 1)) + Cardinality(Observing(i))
              - Cardinality(Within(i - 1) \cap Observing(i))
    BY <2>4, FS_Union
  <2>6. Cardinality({}) = 0
    BY FS_EmptySet
  <2>7. Cardinality(Within(i - 1) \cap Observing(i)) = 0
    BY <2>2, <2>6
  <2>8. Cardinality(Within(i))
          = Cardinality(Within(i - 1)) + Cardinality(Observing(i))
              - Cardinality(Within(i - 1) \cap Observing(i))
    BY <2>2, <2>5
  <2> QED
    BY <2>4, <2>7, <2>8
<1>6. /\ AtMost(0, finished) = 0
      /\ \A i \in 1..Inf : AtMost(i, finished) = AtMost(i - 1, finished) + finished[i]
      /\ \A i \in 0..Inf : AtMost(i, finished) \in Int
  BY <1>1, BucketSums
<1>7. /\ b \in [0..Inf -> Int]
      /\ \A i \in 0..Inf : b[i] = AtMost(i, finished) + Cardinality(Within(i))
  BY <1>2, <1>6
<1> HIDE DEF b
<1>8. b[0] = 0
  <2>1. Cardinality(Within(0)) = 0
    BY <1>4, FS_EmptySet
  <2>2. 0 \in 0..Inf
    BY <1>1
  <2> QED
    BY <1>6, <1>7, <2>1, <2>2
<1>9. \A i \in 1..Inf : b[i] = b[i - 1] + started[i]
  <2> TAKE i \in 1..Inf
  <2>1. i \in 0..Inf /\ i - 1 \in 0..Inf
    BY <1>1
  <2>2. /\ b[i] = AtMost(i, finished) + Cardinality(Within(i))
        /\ b[i - 1] = AtMost(i - 1, finished) + Cardinality(Within(i - 1))
    BY <1>7, <2>1
  <2>3. /\ AtMost(i, finished) = AtMost(i - 1, finished) + finished[i]
        /\ AtMost(i - 1, finished) \in Int /\ finished[i] \in Int
        /\ Cardinality(Within(i - 1)) \in Nat /\ Cardinality(Within(i)) \in Nat
    BY <1>1, <1>2, <1>6, <2>1
  <2>4. started[i] = finished[i] + Cardinality(Observing(i)) /\ started[i] \in Int
    BY <1>1 DEF BucketInv
  <2>5. Cardinality(Within(i)) = Cardinality(Within(i - 1)) + Cardinality(Observing(i))
    BY <1>5
  <2>6. Cardinality(Observing(i)) \in Nat
    <3>1. Observing(i) \in SUBSET Recorders
      BY DEF Observing
    <3> QED
      BY <3>1, MetricsAssumption, FS_Subset, FS_CardinalityType
  <2> QED
    BY <2>2, <2>3, <2>4, <2>5, <2>6
<1>10. \A i \in 0..Inf : b[i] = AtMost(i, started)
  BY <1>1, <1>7, <1>8, <1>9, SumOfSteps
<1> QED
  BY <1>2, <1>7, <1>10

\* A bucket that is read holds what is finished, and nothing that is not started.
LEMMA RenderedBetween ==
  ASSUME CountInv, BucketInv
  PROVE  \A i \in 1..Inf : /\ AtMost(i, finished) <= Rendered(i)
                           /\ Rendered(i) <= AtMost(i, started)
                           /\ Rendered(i) \in Nat
<1> TAKE i \in 1..Inf
<1>1. i \in 0..Inf /\ i \in Nat /\ i <= Inf
  BY BucketTypes
<1>2. /\ Rendered(i) \in Nat /\ Cardinality(Counting(i)) \in Nat
      /\ Rendered(i) - Cardinality(Counting(i)) = AtMost(i, finished)
  BY <1>1, BucketTypes, BaseIsSum DEF Base
<1>3. /\ Cardinality(Within(i)) \in Nat /\ IsFiniteSet(Within(i))
      /\ AtMost(i, started) = AtMost(i, finished) + Cardinality(Within(i))
  BY <1>1, StartedIsSum
<1>4. Counting(i) \subseteq Within(i)
  <2>1. \A w \in Recorders : recorder[w].d \in 1..Inf
    BY RecordersKnown DEF RecorderStatesAll
  <2>2. \A w \in Recorders : recorder[w].d <= Inf
    BY <2>1, BucketTypes
  <2> QED
    BY <2>2 DEF Counting, CountedIn, Within, InHand
<1>5. Cardinality(Counting(i)) <= Cardinality(Within(i))
  BY <1>3, <1>4, FS_Subset
<1>6. AtMost(i, finished) \in Int
  <2>1. finished \in [1..Inf -> Int]
    BY DEF BucketInv
  <2> QED
    BY <1>1, <2>1, BucketSums
<1> QED
  BY <1>2, <1>3, <1>5, <1>6

-----------------------------------------------------------------------------
(* Metrics: the sum, and a scrape.                                         *)

\* What was rendered so far, and when.
ScrapeTyped ==
  /\ scrape.at \in 0..Inf + 1 /\ scrape = [at |-> scrape.at, by |-> scrape.by, seen |-> scrape.seen]
  /\ scrape.seen \in [1..Inf -> Nat]
  /\ window = <<window[1], window[2]>>
  /\ window[1] \in [1..Inf -> Nat] /\ window[2] \in [1..Inf -> Nat]

ScrapeInv ==
  /\ ScrapeTyped
  /\ scrape.at \in 1..Inf =>
       /\ \A d \in 1..Inf : window[1][d] <= finished[d]
       /\ \A i \in 1..Inf : i < scrape.at =>
            AtMost(i, window[1]) <= scrape.seen[i] /\ scrape.seen[i] <= AtMost(i, started)
  /\ scrape.at = Inf + 1 => \A i \in 1..Inf :
       AtMost(i, window[1]) <= scrape.seen[i] /\ scrape.seen[i] <= AtMost(i, window[2])

SumInv == sum = AtMost(Inf, Durations(finished))

HistInv == BucketInv /\ SumInv /\ ScrapeInv

LEMMA OneMore ==
  ASSUME NEW f \in [1..Inf -> Nat], NEW g,
         g = f \/ \E d \in 1..Inf : g = [f EXCEPT ![d] = @ + 1]
  PROVE  \A e \in 1..Inf : f[e] <= g[e]
<1> TAKE e \in 1..Inf
<1>1. f[e] \in Nat
  OBVIOUS
<1>2. CASE g = f
  BY <1>1, <1>2
<1>3. ASSUME NEW d \in 1..Inf, g = [f EXCEPT ![d] = @ + 1]
      PROVE  f[e] <= g[e]
  <2>1. g[e] = f[e] \/ g[e] = f[e] + 1
    BY <1>3
  <2> QED
    BY <1>1, <2>1
<1> QED
  BY <1>2, <1>3

\* Observations are started and finished, and never taken back.
LEMMA OnlyMore ==
  ASSUME CountInv, BucketInv, [MetricsNext]_metricsVars
  PROVE  \A d \in 1..Inf : started[d] <= started'[d] /\ finished[d] <= finished'[d]
<1>1. started \in [1..Inf -> Nat] /\ finished \in [1..Inf -> Nat]
  BY DEF BucketInv
<1>2. CASE UNCHANGED started
        /\ \/ UNCHANGED finished
           \/ \E d \in 1..Inf : finished' = [finished EXCEPT ![d] = @ + 1]
  BY <1>1, <1>2, OneMore
<1>3. CASE UNCHANGED finished /\ \E d \in 1..Inf : started' = [started EXCEPT ![d] = @ + 1]
  BY <1>1, <1>3, OneMore
<1>4. ASSUME NEW w \in Recorders, AddSum(w)
      PROVE  UNCHANGED started
        /\ \/ UNCHANGED finished
           \/ \E d \in 1..Inf : finished' = [finished EXCEPT ![d] = @ + 1]
  <2>1. recorder[w].d \in 1..Inf
    BY RecordersKnown DEF RecorderStatesAll
  <2> QED
    BY <1>4, <2>1 DEF AddSum
<1>5. ASSUME NEW w \in Recorders, RecordStatus(w)
      PROVE  UNCHANGED finished /\ \E d \in 1..Inf : started' = [started EXCEPT ![d] = @ + 1]
  BY <1>5 DEF RecordStatus
<1>6. ASSUME NEW w \in Recorders,
             StartScrape(w) \/ Dispatched(w) \/ GiveUp(w) \/ CountBucket(w) \/ CountAll(w) \/ LoadSum(w)
      PROVE  UNCHANGED started /\ UNCHANGED finished
  BY <1>6 DEF StartScrape, Dispatched, GiveUp, CountBucket, CountAll, LoadSum
<1>7. CASE RefuseRequest \/ RenderNext \/ UNCHANGED metricsVars
  <2>1. UNCHANGED started /\ UNCHANGED finished
    BY <1>7 DEF RefuseRequest, RenderNext, metricsVars
  <2> QED
    BY <1>2, <2>1
<1>8. CASE \E w \in Recorders :
       \/ StartScrape(w) \/ Dispatched(w) \/ GiveUp(w) \/ RecordStatus(w) \/ CountBucket(w)
       \/ CountAll(w) \/ LoadSum(w) \/ AddSum(w)
  BY <1>2, <1>3, <1>4, <1>5, <1>6, <1>8
<1> QED
  BY <1>7, <1>8 DEF MetricsNext

LEMMA InitHistInv == MetricsInit => SumInv /\ ScrapeInv
<1> SUFFICES ASSUME MetricsInit
             PROVE  SumInv /\ ScrapeInv
  OBVIOUS
<1>1. Inf \in Nat /\ Inf > 0
  BY MetricsAssumption DEF Inf
<1>2. finished = None /\ sum = 0 /\ scrape = NoScrape /\ window = <<None, None>>
  BY DEF MetricsInit
<1>3. None \in [1..Inf -> Nat] /\ \A d \in 1..Inf : None[d] = 0
  BY DEF None
<1>4. SumInv
  <2> DEFINE h == Durations(finished)
             b == [i \in 0..Inf |-> 0]
  <2>1. h \in [1..Inf -> Int] /\ \A d \in 1..Inf : h[d] = 0
    BY <1>1, <1>2, <1>3 DEF Durations
  <2>2. b \in [0..Inf -> Int] /\ \A i \in 0..Inf : b[i] = 0
    OBVIOUS
  <2> HIDE DEF h, b
  <2>3. b[0] = 0 /\ \A i \in 1..Inf : b[i] = b[i - 1] + h[i]
    <3>1. 0 \in 0..Inf /\ \A i \in 1..Inf : i \in 0..Inf /\ i - 1 \in 0..Inf
      BY <1>1
    <3> QED
      BY <2>1, <2>2, <3>1
  <2>4. \A i \in 0..Inf : b[i] = AtMost(i, h)
    BY <2>1, <2>2, <2>3, SumOfSteps
  <2>5. AtMost(Inf, h) = 0
    BY <1>1, <2>2, <2>4
  <2> QED
    BY <1>2, <2>5 DEF SumInv, h
<1>5. ScrapeInv
  <2>1. scrape.at = 0 /\ scrape.seen = None /\ scrape = [at |-> scrape.at, by |-> scrape.by, seen |-> scrape.seen]
    BY <1>2 DEF NoScrape
  <2>2. window[1] = None /\ window[2] = None /\ window = <<window[1], window[2]>>
    BY <1>2
  <2>3. 0 \in 0..Inf + 1 /\ 0 \notin 1..Inf /\ 0 # Inf + 1
    BY <1>1
  <2> QED
    BY <1>3, <2>1, <2>2, <2>3 DEF ScrapeInv, ScrapeTyped
<1> QED
  BY <1>4, <1>5

LEMMA NextSumInv ==
  ASSUME CountInv, BucketInv, SumInv, [MetricsNext]_metricsVars
  PROVE  SumInv'
<1>1. CASE UNCHANGED <<sum, finished>>
  BY <1>1 DEF SumInv, Durations
<1>2. ASSUME NEW w \in Recorders, AddSum(w)
      PROVE  SumInv'
  <2>1. CASE UNCHANGED <<sum, finished>>
    BY <1>1, <2>1
  <2>2. CASE Exchanges(w) /\ sum' = recorder[w].read + recorder[w].d
             /\ finished' = [finished EXCEPT ![recorder[w].d] = @ + 1]
    <3> DEFINE d == recorder[w].d
               h == Durations(finished)
               k == Durations(finished')
    <3>1. d \in 1..Inf /\ Inf \in Nat /\ sum' = sum + d
      BY <2>2, RecordersKnown, BucketTypes DEF RecorderStatesAll, Exchanges
    <3>2. d \in Int
      BY <3>1
    <3>3. finished \in [1..Inf -> Nat]
      BY DEF BucketInv
    <3>4. h \in [1..Inf -> Int] /\ \A i \in 1..Inf : h[i] = i * finished[i]
      BY <3>1, <3>3 DEF Durations
    <3>5. \A i \in 1..Inf : finished'[i] = finished[i] + (IF i = d THEN 1 ELSE 0)
      BY <2>2, <3>1, <3>3
    <3>6. \A i \in 1..Inf : k[i] = i * finished'[i]
      BY DEF Durations
    <3>7. \A i \in 1..Inf : k[i] = h[i] + (IF i = d THEN d ELSE 0)
      <4> TAKE i \in 1..Inf
      <4>1. i \in Nat /\ finished[i] \in Nat
        BY <3>1, <3>3
      <4>2. i * (finished[i] + 1) = i * finished[i] + i
        BY <4>1
      <4> HIDE DEF h, k, d
      <4>3. CASE i = d
        <5>1. k[i] = i * (finished[i] + 1)
          BY <3>5, <3>6, <4>3
        <5>2. h[i] = i * finished[i]
          BY <3>4
        <5> QED
          BY <4>2, <4>3, <5>1, <5>2
      <4>4. CASE i # d
        <5>1. finished'[i] = finished[i]
          BY <3>5, <4>1, <4>4
        <5>2. k[i] = h[i] /\ h[i] \in Int
          BY <3>4, <3>6, <5>1
        <5> QED
          BY <4>4, <5>2
      <4> QED
        BY <4>3, <4>4
    <3>8. k \in [1..Inf -> Int]
      <4>1. \A i \in 1..Inf : finished'[i] \in Int /\ i \in Int
        BY <3>1, <3>3, <3>5
      <4> QED
        BY <4>1 DEF Durations
    <3> HIDE DEF h, k, d
    <3>9. AtMost(Inf, k) = AtMost(Inf, h) + d
      BY <3>1, <3>2, <3>4, <3>7, <3>8, SumOfMore
    <3>10. sum = AtMost(Inf, h)
      BY DEF SumInv, h
    <3> QED
      BY <3>1, <3>9, <3>10 DEF SumInv, k
  <2> QED
    BY <1>2, <2>1, <2>2 DEF AddSum
<1>3. ASSUME NEW w \in Recorders,
             StartScrape(w) \/ Dispatched(w) \/ GiveUp(w) \/ RecordStatus(w) \/ CountBucket(w)
               \/ CountAll(w) \/ LoadSum(w)
      PROVE  UNCHANGED <<sum, finished>>
  BY <1>3 DEF StartScrape, Dispatched, GiveUp, RecordStatus, CountBucket, CountAll, LoadSum
<1>4. CASE RefuseRequest \/ RenderNext \/ UNCHANGED metricsVars
  <2>1. UNCHANGED <<sum, finished>>
    BY <1>4 DEF RefuseRequest, RenderNext, metricsVars
  <2> QED
    BY <1>1, <2>1
<1> QED
  BY <1>1, <1>2, <1>3, <1>4 DEF MetricsNext

\* The bounds of the buckets rendered so far stay good while more is observed.
LEMMA StillBetween ==
  ASSUME CountInv, BucketInv, BucketInv', [MetricsNext]_metricsVars, ScrapeInv
  PROVE  /\ scrape.at \in 1..Inf => \A d \in 1..Inf : window[1][d] <= finished'[d]
         /\ scrape.at \in 1..Inf => \A i \in 1..Inf : i < scrape.at =>
              AtMost(i, window[1]) <= scrape.seen[i] /\ scrape.seen[i] <= AtMost(i, started')
         /\ \A i \in 1..Inf : AtMost(i, started) <= AtMost(i, started')
<1>1. /\ started \in [1..Inf -> Int] /\ started' \in [1..Inf -> Int]
      /\ finished \in [1..Inf -> Nat] /\ finished' \in [1..Inf -> Nat]
      /\ window[1] \in [1..Inf -> Nat] /\ scrape.seen \in [1..Inf -> Nat]
  BY DEF BucketInv, ScrapeInv, ScrapeTyped
<1>2. \A d \in 1..Inf : started[d] <= started'[d] /\ finished[d] <= finished'[d]
  BY OnlyMore
<1>3. \A i \in 0..Inf : /\ AtMost(i, started) <= AtMost(i, started')
                        /\ AtMost(i, started) \in Int /\ AtMost(i, started') \in Int
  BY <1>1, <1>2, SumsAreOrdered, BucketSums
<1>4. \A i \in 1..Inf : i \in 0..Inf
  BY BucketTypes
<1>5. ASSUME scrape.at \in 1..Inf, NEW d \in 1..Inf
      PROVE  window[1][d] <= finished'[d]
  <2>1. window[1][d] <= finished[d]
    BY <1>5 DEF ScrapeInv
  <2>2. window[1][d] \in Nat /\ finished[d] \in Nat /\ finished'[d] \in Nat
    BY <1>1
  <2> QED
    BY <1>2, <2>1, <2>2
<1>6. ASSUME scrape.at \in 1..Inf, NEW i \in 1..Inf, i < scrape.at
      PROVE  AtMost(i, window[1]) <= scrape.seen[i] /\ scrape.seen[i] <= AtMost(i, started')
  <2>1. AtMost(i, window[1]) <= scrape.seen[i] /\ scrape.seen[i] <= AtMost(i, started)
    BY <1>6 DEF ScrapeInv
  <2>2. scrape.seen[i] \in Nat
    BY <1>1
  <2>3. /\ AtMost(i, started) <= AtMost(i, started')
        /\ AtMost(i, started) \in Int /\ AtMost(i, started') \in Int
    BY <1>3, <1>4
  <2> QED
    BY <2>1, <2>2, <2>3
<1> QED
  BY <1>3, <1>4, <1>5, <1>6

LEMMA OthersScrape ==
  ASSUME CountInv, BucketInv, BucketInv', [MetricsNext]_metricsVars, ScrapeInv,
         UNCHANGED <<scrape, window>>
  PROVE  ScrapeInv'
<1>1. ScrapeTyped'
  BY DEF ScrapeInv, ScrapeTyped
<1>2. scrape'.at \in 1..Inf =>
       /\ \A d \in 1..Inf : window'[1][d] <= finished'[d]
       /\ \A i \in 1..Inf : i < scrape'.at =>
            AtMost(i, window'[1]) <= scrape'.seen[i] /\ scrape'.seen[i] <= AtMost(i, started')
  BY StillBetween
<1>3. scrape'.at = Inf + 1 => \A i \in 1..Inf :
       AtMost(i, window'[1]) <= scrape'.seen[i] /\ scrape'.seen[i] <= AtMost(i, window'[2])
  BY DEF ScrapeInv
<1> QED
  BY <1>1, <1>2, <1>3 DEF ScrapeInv, AtMost

LEMMA StartKeeps ==
  ASSUME CountInv, BucketInv, ScrapeInv, NEW w \in Recorders, StartScrape(w)
  PROVE  ScrapeInv'
<1>1. /\ scrape' = [NoScrape EXCEPT !.at = 1, !.by = {w}] /\ window' = <<finished, None>>
      /\ finished' = finished /\ started' = started
  BY DEF StartScrape
<1>2. /\ scrape' = [at |-> 1, by |-> {w}, seen |-> None]
  BY <1>1 DEF NoScrape
<1>3. Inf \in Nat /\ Inf > 1 /\ finished \in [1..Inf -> Nat]
  BY BucketTypes DEF BucketInv
<1>4. None \in [1..Inf -> Nat]
  BY DEF None
<1>5. /\ scrape'.at = 1 /\ scrape'.seen = None /\ window'[1] = finished /\ window'[2] = None
      /\ scrape' = [at |-> scrape'.at, by |-> scrape'.by, seen |-> scrape'.seen]
      /\ window' = <<window'[1], window'[2]>>
  <2>1. /\ scrape'.at = 1 /\ scrape'.seen = None
        /\ scrape' = [at |-> scrape'.at, by |-> scrape'.by, seen |-> scrape'.seen]
    BY <1>2
  <2>2. window'[1] = finished /\ window'[2] = None /\ window' = <<window'[1], window'[2]>>
    BY <1>1
  <2> QED
    BY <2>1, <2>2
<1>6. ScrapeTyped'
  <2>1. 1 \in 0..Inf + 1
    BY <1>3
  <2> QED
    BY <1>3, <1>4, <1>5, <2>1 DEF ScrapeTyped
<1>7. \A d \in 1..Inf : window'[1][d] <= finished'[d]
  BY <1>1, <1>3, <1>5
<1>8. \A i \in 1..Inf : ~(i < scrape'.at)
  BY <1>3, <1>5
<1>9. scrape'.at # Inf + 1
  BY <1>3, <1>5
<1> QED
  BY <1>6, <1>7, <1>8, <1>9 DEF ScrapeInv, Inf

LEMMA RenderKeeps ==
  ASSUME CountInv, BucketInv, ScrapeInv, RenderNext
  PROVE  ScrapeInv'
<1> DEFINE i == scrape.at
<1>1. /\ i \in 1..Inf
      /\ scrape' = [at |-> i + 1, by |-> IF i = Inf THEN {} ELSE scrape.by,
                    seen |-> [scrape.seen EXCEPT ![i] = Rendered(i)]]
      /\ window' = IF i = Inf THEN <<window[1], started>> ELSE window
      /\ finished' = finished /\ started' = started
  <2>1. i \in 1..Inf /\ i # 0
    BY BucketTypes DEF RenderNext
  <2>2. Rendered(i) = IF i = Inf THEN total ELSE histogram[i]
    BY <2>1 DEF Rendered
  <2> QED
    BY <2>1, <2>2 DEF RenderNext
<1>2. /\ started \in [1..Inf -> Nat] /\ finished \in [1..Inf -> Nat]
      /\ window[1] \in [1..Inf -> Nat] /\ window[2] \in [1..Inf -> Nat]
      /\ scrape.seen \in [1..Inf -> Nat] /\ window = <<window[1], window[2]>>
      /\ Inf \in Nat
  BY BucketTypes DEF BucketInv, ScrapeInv, ScrapeTyped
<1>3. /\ window'[1] = window[1] /\ window'[2] = (IF i = Inf THEN started ELSE window[2])
      /\ window' = <<window'[1], window'[2]>>
  BY <1>1, <1>2
<1>4. /\ scrape'.at = i + 1 /\ scrape'.seen = [scrape.seen EXCEPT ![i] = Rendered(i)]
      /\ scrape' = [at |-> scrape'.at, by |-> scrape'.by, seen |-> scrape'.seen]
  BY <1>1
<1>5. Rendered(i) \in Nat /\ AtMost(i, finished) <= Rendered(i) /\ Rendered(i) <= AtMost(i, started)
  BY <1>1, RenderedBetween
<1>6. /\ \A d \in 1..Inf : window[1][d] <= finished[d]
      /\ \A j \in 1..Inf : j < i =>
            AtMost(j, window[1]) <= scrape.seen[j] /\ scrape.seen[j] <= AtMost(j, started)
  BY <1>1 DEF ScrapeInv
<1>7. AtMost(i, window[1]) <= Rendered(i)
  <2>1. window[1] \in [1..Inf -> Int] /\ finished \in [1..Inf -> Int] /\ i \in 0..Inf
    BY <1>1, <1>2
  <2>2. AtMost(i, window[1]) <= AtMost(i, finished)
    BY <1>6, <2>1, SumsAreOrdered
  <2>3. AtMost(i, window[1]) \in Int /\ AtMost(i, finished) \in Int
    BY <2>1, BucketSums
  <2> HIDE DEF i
  <2> QED
    BY <1>5, <2>2, <2>3
<1> HIDE DEF i
<1>8. \A j \in 1..Inf : j < i + 1 =>
         AtMost(j, window[1]) <= scrape'.seen[j] /\ scrape'.seen[j] <= AtMost(j, started)
  <2> SUFFICES ASSUME NEW j \in 1..Inf, j < i + 1
               PROVE  AtMost(j, window[1]) <= scrape'.seen[j] /\ scrape'.seen[j] <= AtMost(j, started)
    OBVIOUS
  <2>1. CASE j = i
    <3>1. scrape'.seen[j] = Rendered(i)
      BY <1>2, <1>4, <2>1
    <3> QED
      BY <1>5, <1>7, <2>1, <3>1
  <2>2. CASE j # i
    <3>1. j \in Nat /\ i \in Nat /\ j < i
      BY SMTT(20), <1>1, <1>2, <2>2
    <3>2. scrape'.seen[j] = scrape.seen[j]
      BY <1>2, <1>4, <2>2
    <3> QED
      BY <1>6, <3>1, <3>2
  <2> QED
    BY <2>1, <2>2
<1>9. scrape'.seen \in [1..Inf -> Nat]
  BY <1>1, <1>2, <1>4, <1>5
<1>10. scrape'.at \in 0..Inf + 1
  BY <1>1, <1>2, <1>4
<1>11. window'[1] \in [1..Inf -> Nat] /\ window'[2] \in [1..Inf -> Nat]
  BY <1>2, <1>3
<1>12. ScrapeTyped'
  BY <1>3, <1>4, <1>9, <1>10, <1>11 DEF ScrapeTyped, Inf
<1>13. scrape'.at \in 1..Inf =>
       /\ \A d \in 1..Inf : window'[1][d] <= finished'[d]
       /\ \A j \in 1..Inf : j < scrape'.at =>
            AtMost(j, window'[1]) <= scrape'.seen[j] /\ scrape'.seen[j] <= AtMost(j, started')
  BY <1>1, <1>3, <1>4, <1>6, <1>8
<1>14. scrape'.at = Inf + 1 => \A j \in 1..Inf :
         AtMost(j, window'[1]) <= scrape'.seen[j] /\ scrape'.seen[j] <= AtMost(j, window'[2])
  <2> SUFFICES ASSUME scrape'.at = Inf + 1, NEW j \in 1..Inf
               PROVE  AtMost(j, window'[1]) <= scrape'.seen[j]
                      /\ scrape'.seen[j] <= AtMost(j, window'[2])
    OBVIOUS
  <2>1. i = Inf /\ j < i + 1
    BY <1>1, <1>2, <1>4
  <2> QED
    BY <1>3, <1>8, <2>1
<1> QED
  BY <1>12, <1>13, <1>14 DEF ScrapeInv, AtMost, Inf

LEMMA NextScrapeInv ==
  ASSUME CountInv, BucketInv, BucketInv', [MetricsNext]_metricsVars, ScrapeInv
  PROVE  ScrapeInv'
<1>1. ASSUME NEW w \in Recorders,
             Dispatched(w) \/ GiveUp(w) \/ RecordStatus(w) \/ CountBucket(w)
               \/ CountAll(w) \/ LoadSum(w) \/ AddSum(w)
      PROVE  UNCHANGED <<scrape, window>>
  BY <1>1 DEF Dispatched, GiveUp, RecordStatus, CountBucket, CountAll, LoadSum, AddSum
<1>2. CASE RefuseRequest \/ UNCHANGED metricsVars
  <2>1. UNCHANGED <<scrape, window>>
    BY <1>2 DEF RefuseRequest, metricsVars
  <2> QED
    BY <2>1, OthersScrape
<1>3. CASE RenderNext
  BY <1>3, RenderKeeps
<1>4. ASSUME NEW w \in Recorders, StartScrape(w)
      PROVE  ScrapeInv'
  BY <1>4, StartKeeps
<1>5. CASE UNCHANGED <<scrape, window>>
  BY <1>5, OthersScrape
<1> QED
  BY <1>1, <1>2, <1>3, <1>4, <1>5 DEF MetricsNext

LEMMA HistogramIsExact ==
  ASSUME CountInv, HistInv
  PROVE  HistogramExact
<1>1. /\ started \in [1..Inf -> Int] /\ finished \in [1..Inf -> Int] /\ Inf \in Nat
      /\ Inf = Buckets + 1 /\ Buckets \in Nat
  BY BucketTypes, MetricsAssumption DEF HistInv, BucketInv
<1>2. ASSUME started = finished
      PROVE  \A i \in 1..Inf : Rendered(i) = AtMost(i, finished)
  <2> TAKE i \in 1..Inf
  <2>1. AtMost(i, finished) \in Int
    <3>1. i \in 0..Inf
      BY <1>1
    <3> QED
      BY <1>1, <3>1, BucketSums
  <2>2. AtMost(i, finished) <= Rendered(i) /\ Rendered(i) <= AtMost(i, finished) /\ Rendered(i) \in Nat
    BY <1>2, RenderedBetween DEF HistInv
  <2> QED
    BY <2>1, <2>2
<1>3. /\ \A i \in 1..Buckets : i \in 1..Inf /\ Rendered(i) = histogram[i]
      /\ Inf \in 1..Inf /\ Rendered(Inf) = total
  BY <1>1, BucketTypes DEF Rendered, HistInv
<1>4. started = finished =>
       /\ \A i \in 1..Buckets : histogram[i] = AtMost(i, finished)
       /\ total = AtMost(Inf, finished)
       /\ sum = AtMost(Inf, Durations(finished))
  BY <1>2, <1>3 DEF HistInv, SumInv
<1>5. ASSUME scrape.at = Inf + 1, NEW i \in 1..Inf
      PROVE  scrape.seen[i] \in AtMost(i, window[1])..AtMost(i, window[2])
  <2>1. AtMost(i, window[1]) <= scrape.seen[i] /\ scrape.seen[i] <= AtMost(i, window[2])
    BY <1>5 DEF HistInv, ScrapeInv
  <2>2. window[1] \in [1..Inf -> Int] /\ window[2] \in [1..Inf -> Int] /\ scrape.seen[i] \in Nat
        /\ i \in 0..Inf
    BY <1>1 DEF HistInv, ScrapeInv, ScrapeTyped
  <2>3. AtMost(i, window[1]) \in Int /\ AtMost(i, window[2]) \in Int
    BY <2>2, BucketSums
  <2> QED
    BY <2>1, <2>2, <2>3
<1> QED
  BY <1>4, <1>5 DEF HistogramExact

\* Nothing counted is lost (dispatch_next, enforce_timeouts, observe_duration, render):
\* for any number of workers and buckets, whatever their order, every request is in the
\* class of its status or with a worker that has not recorded it; between observations
\* buckets, count and sum are those of the durations; and what a scrape renders lies
\* between the durations over before it and those started when it ended.
THEOREM NothingCountedIsLost == MetricsSpec => []MetricsExact
<1>1. MetricsInit => CountInv /\ HistInv
  BY InitCountInv, InitBucketInv, InitHistInv DEF HistInv
<1>2. CountInv /\ HistInv /\ [MetricsNext]_metricsVars => (CountInv /\ HistInv)'
  <2> SUFFICES ASSUME CountInv, HistInv, [MetricsNext]_metricsVars
               PROVE  CountInv' /\ HistInv'
    OBVIOUS
  <2>1. CountInv' /\ BucketInv'
    BY NextCountInv, NextBucketInv DEF HistInv
  <2>2. SumInv'
    BY NextSumInv DEF HistInv
  <2>3. ScrapeInv'
    BY <2>1, NextScrapeInv DEF HistInv
  <2> QED
    BY <2>1, <2>2, <2>3 DEF HistInv
<1>3. CountInv /\ HistInv => MetricsExact
  BY HistogramIsExact DEF MetricsExact, CountInv
<1> QED
  BY <1>1, <1>2, <1>3, PTL DEF MetricsSpec

-----------------------------------------------------------------------------
(* Metrics: how far the counters get.                                      *)

\* Workers whose request has not got an answer from the loop.
Pending == {w \in Recorders : recorder[w].at # "idle" /\ w \notin givenUp}

\* Every timeout and every observation is of a request of its own.
BoundInv ==
  /\ counters["requests"] <= MaxCounted
  /\ \A w \in givenUp : w \in Recorders /\ recorder[w].at # "idle"
  /\ counters["timeouts"] + Cardinality(Pending) <= counters["requests"]
  /\ AtMost(Inf, started) + Cardinality(Unrecorded) <= counters["requests"]

LEMMA PendingFinite ==
  /\ Pending \in SUBSET Recorders /\ Unrecorded \in SUBSET Recorders
  /\ Cardinality(Pending) \in Nat /\ Cardinality(Unrecorded) \in Nat
<1>1. Pending \in SUBSET Recorders /\ Unrecorded \in SUBSET Recorders
  BY DEF Pending, Unrecorded
<1> QED
  BY <1>1, MetricsAssumption, FS_Subset, FS_CardinalityType

\* What one worker's step does to their numbers.
LEMMA PendingStep ==
  ASSUME NEW w \in Recorders,
         \A v \in Recorders \ {w} : recorder'[v] = recorder[v],
         \A v \in Recorders \ {w} : v \in givenUp' <=> v \in givenUp
  PROVE  /\ Cardinality(Pending') = Cardinality(Pending) + One(w \in Pending') - One(w \in Pending)
         /\ Cardinality(Unrecorded')
              = Cardinality(Unrecorded) + One(w \in Unrecorded') - One(w \in Unrecorded)
<1>1. /\ Pending \in SUBSET Recorders /\ Unrecorded \in SUBSET Recorders
      /\ Pending' \in SUBSET Recorders /\ Unrecorded' \in SUBSET Recorders
  BY DEF Pending, Unrecorded
<1>2. Pending' \ {w} = Pending \ {w}
  BY DEF Pending
<1>3. Unrecorded' \ {w} = Unrecorded \ {w}
  BY DEF Unrecorded
<1>4. Cardinality(Pending') = Cardinality(Pending) + One(w \in Pending') - One(w \in Pending)
  BY <1>1, <1>2, OneChanges
<1>5. Cardinality(Unrecorded')
        = Cardinality(Unrecorded) + One(w \in Unrecorded') - One(w \in Unrecorded)
  BY <1>1, <1>3, OneChanges
<1> QED
  BY <1>4, <1>5

\* The books after a step, whatever it adds to them.
LEMMA BooksKept ==
  ASSUME CountInv, CountInv', BucketInv, BucketInv', BoundInv,
         NEW a \in 0..1, NEW t \in 0..1, NEW p \in -1..1, NEW u \in -1..1, NEW s \in 0..1,
         counters'["requests"] = counters["requests"] + a,
         a = 1 => counters["requests"] < MaxCounted,
         counters'["timeouts"] = counters["timeouts"] + t,
         Cardinality(Pending') <= Cardinality(Pending) + p,
         Cardinality(Unrecorded') = Cardinality(Unrecorded) + u,
         AtMost(Inf, started') = AtMost(Inf, started) + s,
         t + p <= a, s + u <= a,
         \A w \in givenUp' : w \in Recorders /\ recorder'[w].at # "idle"
  PROVE  BoundInv'
<1>1. /\ counters \in [CounterNames -> Nat] /\ counters' \in [CounterNames -> Nat]
      /\ MaxCounted \in Nat
  BY MetricsAssumption DEF CountInv, CountersTyped
<1>2. /\ counters["requests"] \in Nat /\ counters["timeouts"] \in Nat
  BY <1>1 DEF CounterNames
<1>3. /\ Cardinality(Pending) \in Nat /\ Cardinality(Pending') \in Nat
      /\ Cardinality(Unrecorded) \in Nat
  <2>1. Pending' \in SUBSET Recorders
    BY DEF Pending
  <2> QED
    BY <2>1, PendingFinite, MetricsAssumption, FS_Subset, FS_CardinalityType
<1>4. AtMost(Inf, started) \in Int
  <2>1. started \in [1..Inf -> Int] /\ Inf \in 0..Inf
    BY BucketTypes DEF BucketInv
  <2> QED
    BY <2>1, BucketSums
<1>5. /\ counters["requests"] <= MaxCounted
      /\ counters["timeouts"] + Cardinality(Pending) <= counters["requests"]
      /\ AtMost(Inf, started) + Cardinality(Unrecorded) <= counters["requests"]
  BY DEF BoundInv
<1>6. counters'["requests"] <= MaxCounted
  BY <1>1, <1>2, <1>5
<1>7. counters'["timeouts"] + Cardinality(Pending') <= counters'["requests"]
  BY <1>2, <1>3, <1>5
<1>8. AtMost(Inf, started') + Cardinality(Unrecorded') <= counters'["requests"]
  BY <1>2, <1>3, <1>4, <1>5
<1>9. AtMost(Inf, started)' = AtMost(Inf, started')
  BY DEF AtMost, Inf
<1> QED
  BY <1>6, <1>7, <1>8, <1>9 DEF BoundInv

\* The loop counts a request, and hands it to nobody.
LEMMA RefuseBooks ==
  ASSUME CountInv, CountInv', BucketInv, BucketInv', BoundInv, RefuseRequest
  PROVE  BoundInv'
<1>1. counters \in [CounterNames -> Nat] /\ "requests" \in CounterNames /\ "timeouts" \in CounterNames
  BY DEF CountInv, CountersTyped, CounterNames
<1>2. PICK names : /\ counters' = Plus(names) /\ "requests" \in names /\ "timeouts" \notin names
  BY DEF RefuseRequest, Refused
<1>3. counters'["requests"] = counters["requests"] + 1 /\ counters'["timeouts"] = counters["timeouts"]
  BY <1>1, <1>2, PlusCounts
<1>4. UNCHANGED <<recorder, givenUp, started>> /\ counters["requests"] < MaxCounted
  BY DEF RefuseRequest
<1>5. Pending' = Pending /\ Unrecorded' = Unrecorded
  BY <1>4 DEF Pending, Unrecorded
<1>6. /\ Cardinality(Pending') = Cardinality(Pending) /\ Cardinality(Pending) \in Nat
      /\ Cardinality(Unrecorded') = Cardinality(Unrecorded) /\ Cardinality(Unrecorded) \in Nat
  BY <1>5, PendingFinite
<1>7. AtMost(Inf, started') = AtMost(Inf, started) /\ AtMost(Inf, started) \in Int
  <2>1. started \in [1..Inf -> Int] /\ Inf \in 0..Inf
    BY BucketTypes DEF BucketInv
  <2> QED
    BY <1>4, <2>1, BucketSums
<1>8. \A w \in givenUp' : w \in Recorders /\ recorder'[w].at # "idle"
  BY <1>4 DEF BoundInv
<1>9. counters["timeouts"] \in Nat
  BY <1>1
<1> QED
  <2>1. counters'["timeouts"] = counters["timeouts"] + 0
    BY <1>3, <1>9
  <2>2. Cardinality(Pending') <= Cardinality(Pending) + 0
    BY <1>6
  <2>3. Cardinality(Unrecorded') = Cardinality(Unrecorded) + 0
    BY <1>6
  <2>4. AtMost(Inf, started') = AtMost(Inf, started) + 0
    BY <1>7
  <2> QED
    BY <1>3, <1>4, <1>8, <2>1, <2>2, <2>3, <2>4, BooksKept

\* The loop hands a request to a worker.
LEMMA DispatchBooks ==
  ASSUME CountInv, CountInv', BucketInv, BucketInv', BoundInv, NEW w \in Recorders, Dispatched(w)
  PROVE  BoundInv'
<1>1. counters \in [CounterNames -> Nat] /\ "requests" \in CounterNames /\ "timeouts" \in CounterNames
  BY DEF CountInv, CountersTyped, CounterNames
<1>2. counters'["requests"] = counters["requests"] + 1 /\ counters'["timeouts"] = counters["timeouts"]
  BY <1>1, PlusCounts DEF Dispatched
<1>3. /\ UNCHANGED <<givenUp, started>> /\ counters["requests"] < MaxCounted
      /\ recorder[w].at = "idle" /\ w \notin givenUp
  BY DEF Dispatched, BoundInv
<1>4. /\ \A v \in Recorders \ {w} : recorder'[v] = recorder[v]
      /\ recorder'[w].at = "handler"
  BY DEF Dispatched, CountInv, CountersTyped, Resting
<1>5. /\ ~(w \in Pending) /\ w \in Pending' /\ ~(w \in Unrecorded) /\ w \in Unrecorded'
  BY <1>3, <1>4 DEF Pending, Unrecorded
<1>6. /\ Cardinality(Pending') = Cardinality(Pending) + One(w \in Pending') - One(w \in Pending)
      /\ Cardinality(Unrecorded')
           = Cardinality(Unrecorded) + One(w \in Unrecorded') - One(w \in Unrecorded)
  BY <1>3, <1>4, PendingStep
<1>7. Cardinality(Pending) \in Nat /\ Cardinality(Unrecorded) \in Nat
  BY PendingFinite
<1>8. Cardinality(Pending') <= Cardinality(Pending) + 1
  BY <1>5, <1>6, <1>7 DEF One
<1>9. Cardinality(Unrecorded') = Cardinality(Unrecorded) + 1
  BY <1>5, <1>6, <1>7 DEF One
<1>10. AtMost(Inf, started') = AtMost(Inf, started) + 0
  <2>1. started \in [1..Inf -> Int] /\ Inf \in 0..Inf
    BY BucketTypes DEF BucketInv
  <2>2. AtMost(Inf, started) \in Int
    BY <2>1, BucketSums
  <2> QED
    BY <1>3, <2>2
<1>11. \A v \in givenUp' : v \in Recorders /\ recorder'[v].at # "idle"
  BY <1>3, <1>4 DEF BoundInv
<1>12. counters'["timeouts"] = counters["timeouts"] + 0
  BY <1>1, <1>2
<1> QED
  BY <1>2, <1>3, <1>8, <1>9, <1>10, <1>11, <1>12, BooksKept

\* The loop answers 504.
LEMMA GiveUpBooks ==
  ASSUME CountInv, CountInv', BucketInv, BucketInv', BoundInv, NEW w \in Recorders, GiveUp(w)
  PROVE  BoundInv'
<1>1. counters \in [CounterNames -> Nat] /\ "requests" \in CounterNames /\ "timeouts" \in CounterNames
  BY DEF CountInv, CountersTyped, CounterNames
<1>2. counters'["requests"] = counters["requests"] /\ counters'["timeouts"] = counters["timeouts"] + 1
  BY <1>1, PlusCounts DEF GiveUp
<1>3. /\ UNCHANGED <<recorder, started>> /\ givenUp' = givenUp \cup {w}
      /\ recorder[w].at # "idle" /\ w \notin givenUp
  BY DEF GiveUp
<1>4. w \in Pending /\ ~(w \in Pending')
  BY <1>3 DEF Pending
<1>5. Cardinality(Pending') = Cardinality(Pending) + One(w \in Pending') - One(w \in Pending)
  BY <1>3, PendingStep
<1>6. Unrecorded' = Unrecorded
  BY <1>3 DEF Unrecorded
<1>7. Cardinality(Pending) \in Nat /\ Cardinality(Unrecorded) \in Nat
  BY PendingFinite
<1>8. Cardinality(Pending') <= Cardinality(Pending) + (-1)
  BY <1>4, <1>5, <1>7 DEF One
<1>9. Cardinality(Unrecorded') = Cardinality(Unrecorded) + 0
  BY <1>6, <1>7
<1>10. AtMost(Inf, started') = AtMost(Inf, started) + 0
  <2>1. started \in [1..Inf -> Int] /\ Inf \in 0..Inf
    BY BucketTypes DEF BucketInv
  <2>2. AtMost(Inf, started) \in Int
    BY <2>1, BucketSums
  <2> QED
    BY <1>3, <2>2
<1>11. \A v \in givenUp' : v \in Recorders /\ recorder'[v].at # "idle"
  BY <1>3 DEF BoundInv
<1>12. counters'["requests"] = counters["requests"] + 0
  BY <1>1, <1>2
<1> QED
  BY <1>2, <1>8, <1>9, <1>10, <1>11, <1>12, BooksKept

\* A worker records the status, and starts to observe.
LEMMA RecordBooks ==
  ASSUME CountInv, CountInv', BucketInv, BucketInv', BoundInv, NEW w \in Recorders, RecordStatus(w)
  PROVE  BoundInv'
<1>1. counters \in [CounterNames -> Nat] /\ "requests" \in CounterNames /\ "timeouts" \in CounterNames
  BY DEF CountInv, CountersTyped, CounterNames
<1>2. PICK class \in {"r2xx", "r5xx"} : counters' = Plus({class})
  BY DEF RecordStatus
<1>3. "requests" # class /\ "timeouts" # class
  OBVIOUS
<1>4. /\ counters'["requests"] = counters["requests"] + 0
      /\ counters'["timeouts"] = counters["timeouts"] + 0
  BY <1>1, <1>2, <1>3, PlusCounts
<1>5. PICK d \in 1..Inf :
        /\ recorder' = [recorder EXCEPT ![w] = [at |-> "observe", d |-> d, read |-> d]]
        /\ started' = [started EXCEPT ![d] = @ + 1]
  BY DEF RecordStatus
<1>6. recorder[w].at = "handler" /\ givenUp' = givenUp
  BY DEF RecordStatus
<1>7. /\ \A v \in Recorders \ {w} : recorder'[v] = recorder[v]
      /\ recorder'[w].at = "observe"
  BY <1>5 DEF CountInv, CountersTyped
<1>8. /\ w \in Pending' <=> w \in Pending
      /\ w \in Unrecorded /\ ~(w \in Unrecorded')
  BY <1>6, <1>7 DEF Pending, Unrecorded
<1>9. /\ Cardinality(Pending') = Cardinality(Pending) + One(w \in Pending') - One(w \in Pending)
      /\ Cardinality(Unrecorded')
           = Cardinality(Unrecorded) + One(w \in Unrecorded') - One(w \in Unrecorded)
  BY <1>6, <1>7, PendingStep
<1>10. Cardinality(Pending) \in Nat /\ Cardinality(Unrecorded) \in Nat
  BY PendingFinite
<1>11. Cardinality(Pending') <= Cardinality(Pending) + 0
  BY <1>8, <1>9, <1>10 DEF One
<1>12. Cardinality(Unrecorded') = Cardinality(Unrecorded) + (-1)
  BY <1>8, <1>9, <1>10 DEF One
<1>13. AtMost(Inf, started') = AtMost(Inf, started) + 1
  <2>1. /\ started \in [1..Inf -> Nat] /\ started' \in [1..Inf -> Nat]
        /\ started \in [1..Inf -> Int] /\ started' \in [1..Inf -> Int]
    BY DEF BucketInv, Inf
  <2>2. \A i \in 1..Inf : started'[i] = started[i] + (IF i = d THEN 1 ELSE 0)
    BY <1>5, <2>1
  <2>3. d \in 1..Inf /\ 1 \in Int
    OBVIOUS
  <2> QED
    BY <2>1, <2>2, <2>3, SumOfMore
<1>14. \A v \in givenUp' : v \in Recorders /\ recorder'[v].at # "idle"
  BY <1>6, <1>7 DEF BoundInv
<1> QED
  BY <1>4, <1>11, <1>12, <1>13, <1>14, BooksKept

\* A worker goes on or is done, of which the loop learns nothing.
LEMMA ObserveBooks ==
  ASSUME CountInv, CountInv', BucketInv, BucketInv', BoundInv, NEW w \in Recorders,
         CountBucket(w) \/ CountAll(w) \/ LoadSum(w) \/ AddSum(w)
  PROVE  BoundInv'
<1>1. counters \in [CounterNames -> Nat] /\ "requests" \in CounterNames /\ "timeouts" \in CounterNames
  BY DEF CountInv, CountersTyped, CounterNames
<1>2. counters' = counters /\ started' = started
  BY DEF CountBucket, CountAll, LoadSum, AddSum
<1>3. /\ counters'["requests"] = counters["requests"] + 0
      /\ counters'["timeouts"] = counters["timeouts"] + 0
  BY <1>1, <1>2
<1>4. \A v \in Recorders \ {w} : recorder'[v] = recorder[v]
  BY DEF CountInv, CountersTyped, CountBucket, CountAll, LoadSum, AddSum, At
<1>5. /\ recorder[w].at \in InHand /\ recorder'[w].at # "handler"
      /\ \/ recorder'[w].at # "idle" /\ givenUp' = givenUp
         \/ recorder'[w].at = "idle" /\ givenUp' = givenUp \ {w}
  <2>1. recorder[w] \in RecorderStatesAll /\ recorder \in [Recorders -> RecorderStatesAll]
    BY DEF CountInv, CountersTyped, RecorderStatesAll
  <2>2. CASE CountBucket(w)
    BY <2>1, <2>2 DEF CountBucket, At, RecorderStatesAll, InHand
  <2>3. CASE CountAll(w)
    BY <2>1, <2>3 DEF CountAll, At, RecorderStatesAll, InHand
  <2>4. CASE LoadSum(w)
    BY <2>1, <2>4 DEF LoadSum, RecorderStatesAll, InHand
  <2>5. CASE AddSum(w)
    BY <2>1, <2>5 DEF AddSum, Resting, RecorderStatesAll, InHand
  <2> QED
    BY <2>2, <2>3, <2>4, <2>5
<1>6. /\ w \in Pending' => w \in Pending
      /\ ~(w \in Unrecorded) /\ ~(w \in Unrecorded')
  BY <1>5 DEF Pending, Unrecorded, InHand
<1>7. \A v \in Recorders \ {w} : v \in givenUp' <=> v \in givenUp
  BY <1>5
<1>8. /\ Cardinality(Pending') = Cardinality(Pending) + One(w \in Pending') - One(w \in Pending)
      /\ Cardinality(Unrecorded')
           = Cardinality(Unrecorded) + One(w \in Unrecorded') - One(w \in Unrecorded)
  BY <1>4, <1>7, PendingStep
<1>9. Cardinality(Pending) \in Nat /\ Cardinality(Unrecorded) \in Nat
  BY PendingFinite
<1>10. Cardinality(Pending') <= Cardinality(Pending) + 0
  BY <1>6, <1>8, <1>9 DEF One
<1>11. Cardinality(Unrecorded') = Cardinality(Unrecorded) + 0
  BY <1>6, <1>8, <1>9 DEF One
<1>12. AtMost(Inf, started') = AtMost(Inf, started) + 0
  <2>1. started \in [1..Inf -> Int] /\ Inf \in 0..Inf
    BY BucketTypes DEF BucketInv
  <2>2. AtMost(Inf, started) \in Int
    BY <2>1, BucketSums
  <2> QED
    BY <1>2, <2>2
<1>13. \A v \in givenUp' : v \in Recorders /\ recorder'[v].at # "idle"
  BY <1>4, <1>5 DEF BoundInv
<1> QED
  BY <1>3, <1>10, <1>11, <1>12, <1>13, BooksKept

LEMMA InitBoundInv == MetricsInit => BoundInv
<1> SUFFICES ASSUME MetricsInit
             PROVE  BoundInv
  OBVIOUS
<1>1. Inf \in Nat /\ MaxCounted \in Nat
  BY MetricsAssumption DEF Inf
<1>2. Pending = {} /\ Unrecorded = {} /\ givenUp = {}
  BY DEF MetricsInit, Resting, Pending, Unrecorded
<1>3. Cardinality(Pending) = 0 /\ Cardinality(Unrecorded) = 0
  BY <1>2, FS_EmptySet
<1>4. AtMost(Inf, started) = 0
  <2> DEFINE b == [i \in 0..Inf |-> 0]
  <2>1. started \in [1..Inf -> Int] /\ \A i \in 1..Inf : started[i] = 0
    BY DEF MetricsInit, None
  <2>2. b \in [0..Inf -> Int] /\ \A i \in 0..Inf : b[i] = 0
    OBVIOUS
  <2> HIDE DEF b
  <2>3. /\ 0 \in 0..Inf /\ Inf \in 0..Inf
        /\ \A i \in 1..Inf : i \in 0..Inf /\ i - 1 \in 0..Inf
    BY <1>1
  <2>4. b[0] = 0 /\ \A i \in 1..Inf : b[i] = b[i - 1] + started[i]
    BY <2>1, <2>2, <2>3
  <2>5. \A i \in 0..Inf : b[i] = AtMost(i, started)
    BY <2>1, <2>2, <2>4, SumOfSteps
  <2> QED
    BY <2>2, <2>3, <2>5
<1>5. counters["requests"] = 0 /\ counters["timeouts"] = 0
  BY DEF MetricsInit
<1> QED
  BY <1>1, <1>2, <1>3, <1>4, <1>5 DEF BoundInv

LEMMA NextBoundInv ==
  ASSUME CountInv, CountInv', BucketInv, BucketInv', BoundInv, [MetricsNext]_metricsVars
  PROVE  BoundInv'
<1>1. CASE UNCHANGED <<counters, recorder, givenUp, started>>
  <2>1. Pending' = Pending /\ Unrecorded' = Unrecorded
    BY <1>1 DEF Pending, Unrecorded
  <2>2. Cardinality(Pending)' = Cardinality(Pending) /\ Cardinality(Unrecorded)' = Cardinality(Unrecorded)
    BY <2>1
  <2>3. AtMost(Inf, started)' = AtMost(Inf, started)
    BY <1>1 DEF AtMost, Inf
  <2> QED
    BY <1>1, <2>2, <2>3 DEF BoundInv
<1>2. RenderNext => UNCHANGED <<counters, recorder, givenUp, started>>
  BY DEF RenderNext
<1>3. ASSUME NEW w \in Recorders
      PROVE  StartScrape(w) => UNCHANGED <<counters, recorder, givenUp, started>>
  BY DEF StartScrape
<1>4. UNCHANGED metricsVars => UNCHANGED <<counters, recorder, givenUp, started>>
  BY DEF metricsVars
<1>5. CASE RefuseRequest
  BY <1>5, RefuseBooks
<1>6. ASSUME NEW w \in Recorders,
             \/ Dispatched(w) \/ GiveUp(w) \/ RecordStatus(w)
             \/ CountBucket(w) \/ CountAll(w) \/ LoadSum(w) \/ AddSum(w)
      PROVE  BoundInv'
  BY <1>6, DispatchBooks, GiveUpBooks, RecordBooks, ObserveBooks
<1> QED
  BY <1>1, <1>2, <1>3, <1>4, <1>5, <1>6 DEF MetricsNext

\* Up to a later bucket there are no fewer.
LEMMA SumsGrow ==
  ASSUME NEW h \in [1..Inf -> Nat]
  PROVE  \A i \in 0..Inf : AtMost(i, h) <= AtMost(Inf, h)
<1> DEFINE T == {j \in 0..Inf : \A i \in 0..j : AtMost(i, h) <= AtMost(j, h)}
<1>0. h \in [1..Inf -> Int]
  OBVIOUS
<1>1. Inf \in Nat
  BY MetricsAssumption DEF Inf
<1>2. /\ AtMost(0, h) = 0
      /\ \A i \in 1..Inf : AtMost(i, h) = AtMost(i - 1, h) + h[i]
      /\ \A i \in 0..Inf : AtMost(i, h) \in Int
  BY <1>0, BucketSums
<1>3. 0 \in T
  <2>1. \A i \in 0..0 : i = 0
    OBVIOUS
  <2> QED
    BY <1>1, <1>2, <2>1
<1>4. \A n \in 0..Inf - 1 : n \in T => n + 1 \in T
  <2> SUFFICES ASSUME NEW n \in 0..Inf - 1, n \in T
               PROVE  n + 1 \in T
    OBVIOUS
  <2>1. n + 1 \in 1..Inf /\ (n + 1) - 1 = n /\ n + 1 \in 0..Inf /\ n \in 0..Inf /\ n \in Nat
    BY <1>1
  <2>2. AtMost(n + 1, h) = AtMost(n, h) + h[n + 1]
    BY <1>2, <2>1
  <2>3. AtMost(n, h) \in Int /\ h[n + 1] \in Nat /\ AtMost(n + 1, h) \in Int
    BY <1>2, <2>1
  <2>4. ASSUME NEW i \in 0..n + 1
        PROVE  AtMost(i, h) <= AtMost(n + 1, h)
    <3>1. CASE i = n + 1
      BY <2>3, <3>1
    <3>2. CASE i \in 0..n
      <4>1. AtMost(i, h) <= AtMost(n, h)
        BY <3>2
      <4>2. AtMost(i, h) \in Int
        <5>1. i \in 0..Inf
          BY <1>1, <2>1, <3>2
        <5> QED
          BY <1>2, <5>1
      <4> QED
        BY <2>2, <2>3, <4>1, <4>2
    <3> QED
      BY <2>1, <3>1, <3>2
  <2> QED
    BY <2>1, <2>4
<1> HIDE DEF T
<1>5. \A i \in 0..Inf : i \in T
  BY <1>1, <1>3, <1>4, AllUpTo
<1>6. Inf \in T
  BY <1>1, <1>5
<1> QED
  BY <1>6 DEF T

LEMMA CountersBounded ==
  ASSUME CountInv, BoundInv
  PROVE  \A name \in DOMAIN counters : counters[name] \in Counts
<1>1. counters \in [CounterNames -> Nat] /\ MaxCounted \in Nat
  BY MetricsAssumption DEF CountInv, CountersTyped
<1>2. /\ counters["requests"] \in Nat /\ counters["r2xx"] \in Nat /\ counters["r4xx"] \in Nat
      /\ counters["r5xx"] \in Nat /\ counters["limited"] \in Nat /\ counters["shed"] \in Nat
      /\ counters["timeouts"] \in Nat
  BY <1>1 DEF CounterNames
<1>3. /\ counters["r2xx"] + counters["r4xx"] + counters["r5xx"] + Cardinality(Unrecorded)
           = counters["requests"] + counters["timeouts"]
      /\ counters["limited"] <= counters["r4xx"]
      /\ counters["shed"] + counters["timeouts"] <= counters["r5xx"]
  BY AccountedFor DEF CountInv
<1>4. Cardinality(Unrecorded) \in Nat /\ Cardinality(Pending) \in Nat
  BY PendingFinite
<1>5. /\ counters["requests"] <= MaxCounted
      /\ counters["timeouts"] + Cardinality(Pending) <= counters["requests"]
  BY DEF BoundInv
<1>6. /\ counters["requests"] <= 2 * MaxCounted /\ counters["timeouts"] <= 2 * MaxCounted
      /\ counters["requests"] + counters["timeouts"] <= 2 * MaxCounted
  BY <1>1, <1>2, <1>4, <1>5
<1>7. /\ counters["r2xx"] <= 2 * MaxCounted /\ counters["r4xx"] <= 2 * MaxCounted
      /\ counters["r5xx"] <= 2 * MaxCounted
  BY <1>1, <1>2, <1>3, <1>4, <1>6
<1>8. counters["limited"] <= 2 * MaxCounted /\ counters["shed"] <= 2 * MaxCounted
  BY <1>1, <1>2, <1>3, <1>7
<1>9. \A name \in CounterNames : counters[name] \in Nat /\ counters[name] <= 2 * MaxCounted
  BY <1>2, <1>6, <1>7, <1>8 DEF CounterNames
<1>10. DOMAIN counters = CounterNames
  BY <1>1
<1> QED
  BY <1>1, <1>9, <1>10 DEF Counts

LEMMA BucketsBounded ==
  ASSUME CountInv, BucketInv, BoundInv
  PROVE  histogram \in [1..Buckets -> Counts] /\ total \in Counts
<1>1. /\ Inf \in Nat /\ Inf = Buckets + 1 /\ Inf > 1 /\ MaxCounted \in Nat /\ Buckets \in Nat
      /\ started \in [1..Inf -> Nat] /\ started \in [1..Inf -> Int]
  BY MetricsAssumption, BucketTypes DEF BucketInv
<1>2. AtMost(Inf, started) <= MaxCounted
  <2>1. AtMost(Inf, started) \in Int /\ Cardinality(Unrecorded) \in Nat
    BY <1>1, BucketSums, PendingFinite
  <2>2. counters["requests"] \in Nat
    BY DEF CountInv, CountersTyped, CounterNames
  <2>3. /\ AtMost(Inf, started) + Cardinality(Unrecorded) <= counters["requests"]
        /\ counters["requests"] <= MaxCounted
    BY DEF BoundInv
  <2> QED
    BY <1>1, <2>1, <2>2, <2>3
<1>3. ASSUME NEW i \in 1..Inf
      PROVE  Rendered(i) \in Counts
  <2>1. Rendered(i) <= AtMost(i, started) /\ Rendered(i) \in Nat
    BY RenderedBetween
  <2>2. i \in 0..Inf /\ Inf \in 0..Inf
    BY <1>1
  <2>3. AtMost(i, started) <= AtMost(Inf, started)
    BY <1>1, <2>2, SumsGrow
  <2>4. AtMost(i, started) \in Int /\ AtMost(Inf, started) \in Int
    BY <1>1, <2>2, BucketSums
  <2> QED
    BY <1>1, <1>2, <2>1, <2>3, <2>4 DEF Counts
<1>4. total \in Counts
  <2>1. Inf \in 1..Inf /\ Rendered(Inf) = total
    BY <1>1 DEF Rendered
  <2> QED
    BY <1>3, <2>1
<1>5. \A i \in 1..Buckets : histogram[i] \in Counts
  <2> TAKE i \in 1..Buckets
  <2>1. i \in 1..Inf /\ i # 0 /\ i # Inf
    BY <1>1
  <2>2. Rendered(i) = histogram[i]
    BY <2>1 DEF Rendered
  <2> QED
    BY <1>3, <2>1, <2>2
<1>6. histogram \in [1..Buckets -> Nat]
  BY DEF BucketInv
<1> QED
  BY <1>4, <1>5, <1>6

LEMMA MetricsTyped == CountInv /\ BucketInv /\ BoundInv => MetricsTypeOK
<1> SUFFICES ASSUME CountInv, BucketInv, BoundInv
             PROVE  MetricsTypeOK
  OBVIOUS
<1>1. sum \in Nat /\ recorder \in [Recorders -> [at : Places, d : 1..Inf, read : Nat]]
  BY DEF CountInv, CountersTyped
<1>2. givenUp \subseteq Recorders
  BY DEF BoundInv
<1> QED
  BY <1>1, <1>2, CountersBounded, BucketsBounded DEF MetricsTypeOK, Places

\* The books on every step: what the invariants of the counters, of the buckets and of
\* their bounds need of each other.
BooksInv == CountInv /\ BucketInv /\ BoundInv

LEMMA InitBooksInv == MetricsInit => BooksInv
BY InitCountInv, InitBucketInv, InitBoundInv DEF BooksInv

LEMMA NextBooksInv == BooksInv /\ [MetricsNext]_metricsVars => BooksInv'
<1> SUFFICES ASSUME BooksInv, [MetricsNext]_metricsVars
             PROVE  BooksInv'
  OBVIOUS
<1>1. CountInv /\ BucketInv /\ BoundInv
  BY DEF BooksInv
<1>2. CountInv'
  BY <1>1, NextCountInv
<1>3. BucketInv'
  BY <1>1, NextBucketInv
<1>4. BoundInv'
  BY <1>1, <1>2, <1>3, NextBoundInv
<1> QED
  BY <1>2, <1>3, <1>4 DEF BooksInv

\* However the loop and the workers interleave, no counter and no bucket counts more
\* than the requests and their timeouts: a duration is observed, and a 504 is given, once
\* for a request (dispatch_next, enforce_timeouts, observe_duration).
THEOREM CountersStayBounded == MetricsSpec => []MetricsTypeOK
<1>1. BooksInv => MetricsTypeOK
  BY MetricsTyped DEF BooksInv
<1> QED
  BY <1>1, InitBooksInv, NextBooksInv, PTL DEF MetricsSpec

-----------------------------------------------------------------------------
(* Logger: where the lines are.                                            *)

LogLine == [number : Nat, size : Nat]

\* The files of a log, each a sequence of lines.
LogFiles(fs) ==
  /\ DOMAIN fs \subseteq 0..limits.files
  /\ \A i \in DOMAIN fs : fs[i] \in Seq(LogLine)

\* Read from the oldest file to path, the lines are in the order written, and none
\* is there twice.
InOrder(fs) ==
  \A i, j \in DOMAIN fs : \A a \in 1..Len(fs[i]), b \in 1..Len(fs[j]) :
    i > j \/ (i = j /\ a < b) => fs[i][a].number < fs[j][b].number

\* They are among the first m lines.
Among(fs, m) == \A i \in DOMAIN fs : \A a \in 1..Len(fs[i]) : fs[i][a].number \in 1..m

HasLine(fs, n) == \E i \in DOMAIN fs : \E a \in 1..Len(fs[i]) : fs[i][a].number = n

\* Only the first lines are missing, and they only once the oldest file is there.
NoGap(fs, m) ==
  /\ \A n \in 1..m : \A k \in 1..n : HasLine(fs, k) => HasLine(fs, n)
  /\ \A n \in 1..m : ~HasLine(fs, n) => limits.files \in DOMAIN fs
  /\ m > 0 => HasLine(fs, m)

LinesInOrder ==
  InOrder(files) /\ Among(files, lines) /\ (~harmed => NoGap(files, lines))

\* While nothing failed no number is left out among the files.
Consecutive(fs) == \A i \in DOMAIN fs : i > 0 => i - 1 \in DOMAIN fs

LogInv ==
  /\ limits.bytes \in Nat /\ limits.files \in Nat /\ lines \in Nat
  /\ LogFiles(files)
  /\ sink \in {"closed", "open", "bad"} /\ (sink = "bad" => harmed)
  /\ sink # "closed" => 0 \in DOMAIN files
  /\ ~harmed => Consecutive(files)
  /\ LinesInOrder

\* A line more at the end of path.
Added(fs, line) == [fs EXCEPT ![0] = Append(@, line)]

LEMMA AddedFiles ==
  ASSUME NEW fs, LogFiles(fs), 0 \in DOMAIN fs, NEW line \in LogLine
  PROVE  /\ DOMAIN Added(fs, line) = DOMAIN fs
         /\ \A i \in DOMAIN fs \ {0} : Added(fs, line)[i] = fs[i]
         /\ Added(fs, line)[0] = Append(fs[0], line)
         /\ LogFiles(Added(fs, line))
<1>1. fs[0] \in Seq(LogLine) /\ Append(fs[0], line) \in Seq(LogLine)
  BY AppendProperties DEF LogFiles
<1>2. /\ DOMAIN Added(fs, line) = DOMAIN fs
      /\ \A i \in DOMAIN fs \ {0} : Added(fs, line)[i] = fs[i]
      /\ Added(fs, line)[0] = Append(fs[0], line)
  BY DEF Added
<1>3. LogFiles(Added(fs, line))
  BY <1>1, <1>2 DEF LogFiles
<1> QED
  BY <1>2, <1>3

LEMMA AddedInOrder ==
  ASSUME NEW fs, LogFiles(fs), 0 \in DOMAIN fs, NEW m \in Nat, InOrder(fs), Among(fs, m),
         NEW line \in LogLine, line.number = m + 1,
         NEW gs, DOMAIN gs = DOMAIN fs, \A i \in DOMAIN fs \ {0} : gs[i] = fs[i],
         gs[0] = Append(fs[0], line)
  PROVE  /\ InOrder(gs) /\ Among(gs, m + 1)
         /\ HasLine(gs, m + 1)
         /\ \A n \in 1..m : HasLine(gs, n) <=> HasLine(fs, n)
<1> DEFINE l == Len(fs[0])
<1>1. /\ fs[0] \in Seq(LogLine) /\ l \in Nat
      /\ Len(gs[0]) = l + 1 /\ gs[0][l + 1] = line
      /\ \A a \in 1..l : gs[0][a] = fs[0][a]
  BY LenProperties, AppendProperties DEF LogFiles
<1>2. \A i \in DOMAIN fs : Len(fs[i]) \in Nat
  BY LenProperties DEF LogFiles
<1> HIDE DEF l
\* A place in gs is one in fs, or that of the new line.
<1>3. ASSUME NEW i \in DOMAIN gs, NEW a \in 1..Len(gs[i])
      PROVE  \/ a \in 1..Len(fs[i]) /\ gs[i][a] = fs[i][a]
             \/ i = 0 /\ a = l + 1 /\ gs[i][a].number = m + 1
  <2>1. CASE i # 0
    BY <2>1
  <2>2. CASE i = 0
    <3>1. a \in 1..l + 1
      BY <1>1, <2>2
    <3>2. a \in 1..l \/ a = l + 1
      BY <1>1, <3>1
    <3> QED
      BY <1>1, <2>2, <3>2 DEF l
  <2> QED
    BY <2>1, <2>2
<1>4. \A i \in DOMAIN fs : \A a \in 1..Len(fs[i]) :
        a \in 1..Len(gs[i]) /\ gs[i][a] = fs[i][a] /\ fs[i][a].number \in 1..m
  <2> TAKE i \in DOMAIN fs
  <2> TAKE a \in 1..Len(fs[i])
  <2>1. CASE i # 0
    BY <2>1 DEF Among
  <2>2. CASE i = 0
    <3>1. a \in 1..l
      BY <2>2 DEF l
    <3> QED
      BY <1>1, <2>2, <3>1 DEF Among
  <2> QED
    BY <2>1, <2>2
<1>5. InOrder(gs)
  <2> SUFFICES ASSUME NEW i \in DOMAIN gs, NEW j \in DOMAIN gs,
                      NEW a \in 1..Len(gs[i]), NEW b \in 1..Len(gs[j]),
                      i > j \/ (i = j /\ a < b)
               PROVE  gs[i][a].number < gs[j][b].number
    BY DEF InOrder
  <2>1. i \in Nat /\ j \in Nat
    BY DEF LogFiles
  <2>2. CASE a \in 1..Len(fs[i]) /\ gs[i][a] = fs[i][a]
    <3>1. CASE b \in 1..Len(fs[j]) /\ gs[j][b] = fs[j][b]
      BY <2>2, <3>1 DEF InOrder
    <3>2. CASE gs[j][b].number = m + 1
      BY <2>2, <3>2 DEF Among
    <3> QED
      BY <1>3, <3>1, <3>2
  <2>3. CASE i = 0 /\ a = l + 1
    <3>1. j = 0 /\ b \in 1..l + 1 /\ a < b
      BY <1>1, <2>1, <2>3
    <3> QED
      BY <1>1, <2>3, <3>1
  <2> QED
    BY <1>3, <2>2, <2>3
<1>6. Among(gs, m + 1)
  BY <1>3 DEF Among
<1>7. HasLine(gs, m + 1)
  <2>1. l + 1 \in 1..Len(gs[0]) /\ gs[0][l + 1].number = m + 1
    BY <1>1
  <2> QED
    BY <2>1 DEF HasLine
<1>8. ASSUME NEW n \in 1..m
      PROVE  HasLine(gs, n) <=> HasLine(fs, n)
  <2>1. HasLine(fs, n) => HasLine(gs, n)
    BY <1>4 DEF HasLine
  <2>2. HasLine(gs, n) => HasLine(fs, n)
    BY <1>3, <1>8 DEF HasLine
  <2> QED
    BY <2>1, <2>2
<1> QED
  BY <1>5, <1>6, <1>7, <1>8

\* Each file is renamed to the next, but the oldest, which is gone.
LEMMA ShiftedFiles ==
  ASSUME limits.files \in Nat, LogFiles(files)
  PROVE  /\ LogFiles(Shifted) /\ 0 \in DOMAIN Shifted /\ Shifted[0] = <<>>
         /\ \A i \in DOMAIN Shifted \ {0} :
              i - 1 \in DOMAIN files /\ i - 1 < limits.files /\ Shifted[i] = files[i - 1]
         /\ \A i \in DOMAIN files : i < limits.files =>
              i + 1 \in DOMAIN Shifted /\ Shifted[i + 1] = files[i]
<1> DEFINE D == {0} \cup {j + 1 : j \in {k \in DOMAIN files : k < limits.files}}
<1>1. Shifted = [i \in D |-> IF i = 0 THEN <<>> ELSE files[i - 1]]
  BY DEF Shifted
<1>2. DOMAIN Shifted = D
  BY <1>1
<1>3. DOMAIN files \subseteq Nat
  BY DEF LogFiles
<1>4. \A i \in D \ {0} : i - 1 \in DOMAIN files /\ i - 1 < limits.files
  BY <1>3
<1>5. D \subseteq 0..limits.files
  BY <1>3
<1>6. \A i \in DOMAIN files : i < limits.files => i + 1 \in D /\ i + 1 # 0 /\ (i + 1) - 1 = i
  BY <1>3
<1>7. \A i \in D : Shifted[i] = IF i = 0 THEN <<>> ELSE files[i - 1]
  BY <1>1
<1>8. 0 \in D
  OBVIOUS
<1> HIDE DEF D
<1>9. LogFiles(Shifted)
  BY <1>2, <1>4, <1>5, <1>7, EmptySeq DEF LogFiles
<1> QED
  BY <1>2, <1>4, <1>6, <1>7, <1>8, <1>9

LEMMA ShiftedInOrder ==
  ASSUME limits.files \in Nat, LogFiles(files), NEW m \in Nat, InOrder(files), Among(files, m)
  PROVE  InOrder(Shifted) /\ Among(Shifted, m)
<1> DEFINE S == Shifted
<1>1. /\ 0 \in DOMAIN S /\ S[0] = <<>> /\ DOMAIN S \subseteq Nat
      /\ \A i \in DOMAIN S \ {0} : i - 1 \in DOMAIN files /\ S[i] = files[i - 1]
  BY ShiftedFiles DEF LogFiles
<1> HIDE DEF S
<1>2. \A i \in DOMAIN S : \A a \in 1..Len(S[i]) : i # 0
  BY <1>1
<1>3. InOrder(S)
  <2> SUFFICES ASSUME NEW i \in DOMAIN S, NEW j \in DOMAIN S,
                      NEW a \in 1..Len(S[i]), NEW b \in 1..Len(S[j]),
                      i > j \/ (i = j /\ a < b)
               PROVE  S[i][a].number < S[j][b].number
    BY DEF InOrder
  <2>1. /\ i - 1 \in DOMAIN files /\ S[i] = files[i - 1]
        /\ j - 1 \in DOMAIN files /\ S[j] = files[j - 1]
    BY <1>1, <1>2
  <2>2. i - 1 > j - 1 \/ (i - 1 = j - 1 /\ a < b)
    BY <1>1
  <2> QED
    BY <2>1, <2>2 DEF InOrder
<1>4. Among(S, m)
  BY <1>1, <1>2 DEF Among
<1> QED
  BY <1>3, <1>4 DEF S

\* Files that are there no more, or empty, leave the others in order.
LEMMA FewerInOrder ==
  ASSUME NEW fs, NEW gs, NEW m, InOrder(fs), Among(fs, m),
         \A i \in DOMAIN gs : gs[i] = <<>> \/ (i \in DOMAIN fs /\ gs[i] = fs[i])
  PROVE  InOrder(gs) /\ Among(gs, m)
<1>1. \A i \in DOMAIN gs : \A a \in 1..Len(gs[i]) : i \in DOMAIN fs /\ gs[i] = fs[i]
  OBVIOUS
<1> QED
  BY <1>1 DEF InOrder, Among

\* A line added to the files closes the gap it would make.
LEMMA AddedNoGap ==
  ASSUME NEW fs, NEW gs, NEW m \in Nat, limits.files \in Nat,
         DOMAIN gs = DOMAIN fs, HasLine(gs, m + 1),
         \A n \in 1..m : HasLine(gs, n) <=> HasLine(fs, n),
         \A n \in 1..m : \A k \in 1..n : HasLine(fs, k) => HasLine(fs, n),
         \A n \in 1..m : ~HasLine(fs, n) => limits.files \in DOMAIN fs
  PROVE  NoGap(gs, m + 1)
<1>1. ASSUME NEW n \in 1..m + 1, NEW k \in 1..n, HasLine(gs, k)
      PROVE  HasLine(gs, n)
  <2>1. CASE n = m + 1
    BY <2>1
  <2>2. CASE n \in 1..m
    <3>1. k \in 1..m
      BY <2>2
    <3> QED
      BY <1>1, <2>2, <3>1
  <2> QED
    BY <2>1, <2>2
<1>2. ASSUME NEW n \in 1..m + 1, ~HasLine(gs, n)
      PROVE  limits.files \in DOMAIN gs
  <2>1. n # m + 1
    BY <1>2
  <2>2. n \in 1..m
    BY <2>1
  <2> QED
    BY <1>2, <2>2
<1> QED
  BY <1>1, <1>2 DEF NoGap

\* A rotation drops the first lines and no others, and only with the oldest file.
LEMMA ShiftedNoGap ==
  ASSUME limits.files \in Nat, LogFiles(files), Consecutive(files), NEW m \in Nat,
         InOrder(files), Among(files, m), NoGap(files, m)
  PROVE  /\ \A n \in 1..m : \A k \in 1..n : HasLine(Shifted, k) => HasLine(Shifted, n)
         /\ \A n \in 1..m : ~HasLine(Shifted, n) => limits.files \in DOMAIN Shifted
         /\ Consecutive(Shifted)
<1> DEFINE S == Shifted
<1>1. /\ 0 \in DOMAIN S /\ S[0] = <<>> /\ DOMAIN S \subseteq Nat
      /\ \A i \in DOMAIN S \ {0} :
           i - 1 \in DOMAIN files /\ i - 1 < limits.files /\ S[i] = files[i - 1]
      /\ \A i \in DOMAIN files : i < limits.files => i + 1 \in DOMAIN S /\ S[i + 1] = files[i]
  BY ShiftedFiles DEF LogFiles
<1>2. DOMAIN files \subseteq 0..limits.files
  BY DEF LogFiles
<1> HIDE DEF S
\* What is left was in a file that is not the last there may be.
<1>3. ASSUME NEW n, HasLine(S, n)
      PROVE  \E i \in DOMAIN files : \E a \in 1..Len(files[i]) :
               i < limits.files /\ files[i][a].number = n
  <2>1. PICK i \in DOMAIN S : \E a \in 1..Len(S[i]) : S[i][a].number = n
    BY <1>3 DEF HasLine
  <2>2. i # 0
    BY <1>1, <2>1
  <2> QED
    BY <1>1, <2>1, <2>2
<1>4. ASSUME NEW i \in DOMAIN files, i < limits.files, NEW a \in 1..Len(files[i])
      PROVE  HasLine(S, files[i][a].number)
  BY <1>1, <1>4 DEF HasLine
<1>5. ASSUME NEW n \in 1..m, NEW k \in 1..n, HasLine(S, k)
      PROVE  HasLine(S, n)
  <2>1. PICK i \in DOMAIN files : \E a \in 1..Len(files[i]) :
          i < limits.files /\ files[i][a].number = k
    BY <1>3, <1>5
  <2>2. PICK a \in 1..Len(files[i]) : i < limits.files /\ files[i][a].number = k
    BY <2>1
  <2>3. HasLine(files, n)
    BY <2>2 DEF HasLine, NoGap
  <2>4. PICK j \in DOMAIN files : \E b \in 1..Len(files[j]) : files[j][b].number = n
    BY <2>3 DEF HasLine
  <2>5. PICK b \in 1..Len(files[j]) : files[j][b].number = n
    BY <2>4
  <2>6. CASE j < limits.files
    BY <1>4, <2>5, <2>6
  <2>7. CASE ~(j < limits.files)
    <3>1. j > i
      BY <1>2, <2>2, <2>7
    <3>2. files[j][b].number < files[i][a].number
      BY <3>1 DEF InOrder
    <3> QED
      BY <2>2, <2>5, <3>2
  <2> QED
    BY <2>6, <2>7
<1>6. ASSUME NEW n \in 1..m, ~HasLine(S, n)
      PROVE  limits.files \in DOMAIN S
  <2>1. limits.files \in DOMAIN files
    <3>1. CASE HasLine(files, n)
      <4>1. PICK i \in DOMAIN files : \E a \in 1..Len(files[i]) : files[i][a].number = n
        BY <3>1 DEF HasLine
      <4>2. ~(i < limits.files)
        BY <1>4, <1>6, <4>1
      <4>3. i = limits.files
        BY <1>2, <4>2
      <4> QED
        BY <4>3
    <3>2. CASE ~HasLine(files, n)
      BY <3>2 DEF NoGap
    <3> QED
      BY <3>1, <3>2
  <2>2. CASE limits.files = 0
    BY <1>1, <2>2
  <2>3. CASE limits.files > 0
    <3>1. limits.files - 1 \in DOMAIN files
      BY <2>1, <2>3 DEF Consecutive
    <3>2. (limits.files - 1) + 1 = limits.files /\ limits.files - 1 < limits.files
      OBVIOUS
    <3> QED
      BY <1>1, <3>1, <3>2
  <2> QED
    BY <2>2, <2>3
<1>7. Consecutive(S)
  <2> SUFFICES ASSUME NEW i \in DOMAIN S, i > 0
               PROVE  i - 1 \in DOMAIN S
    BY DEF Consecutive
  <2>1. i - 1 \in DOMAIN files /\ i - 1 < limits.files
    BY <1>1
  <2>2. CASE i - 1 = 0
    BY <1>1, <2>2
  <2>3. CASE i - 1 > 0
    <3>1. (i - 1) - 1 \in DOMAIN files
      BY <2>1, <2>3 DEF Consecutive
    <3>2. (i - 1) - 1 < limits.files /\ ((i - 1) - 1) + 1 = i - 1
      BY <1>1, <2>1
    <3> QED
      BY <1>1, <3>1, <3>2
  <2> QED
    BY <1>1, <2>2, <2>3
<1> QED
  BY <1>5, <1>6, <1>7 DEF S

\* Writing a line to path, given what the rotation, if any, left of the files.
LEMMA AddedKeeps ==
  ASSUME LogInv, NEW fs, LogFiles(fs), 0 \in DOMAIN fs, InOrder(fs), Among(fs, lines),
         NEW size \in Nat, lines' = lines + 1,
         files' = Added(fs, [number |-> lines + 1, size |-> size]),
         limits' = limits, sink' \in {"open", "bad"}, sink' = "bad" => harmed',
         ~harmed' =>
           /\ Consecutive(fs)
           /\ \A n \in 1..lines : \A k \in 1..n : HasLine(fs, k) => HasLine(fs, n)
           /\ \A n \in 1..lines : ~HasLine(fs, n) => limits.files \in DOMAIN fs
  PROVE  LogInv'
<1> DEFINE line == [number |-> lines + 1, size |-> size]
<1>1. line \in LogLine /\ line.number = lines + 1 /\ lines \in Nat /\ lines' \in Nat
  BY DEF LogInv, LogLine
<1> HIDE DEF line
<1>2. /\ DOMAIN files' = DOMAIN fs
      /\ \A i \in DOMAIN fs \ {0} : files'[i] = fs[i]
      /\ files'[0] = Append(fs[0], line)
      /\ LogFiles(Added(fs, line))
  BY <1>1, AddedFiles DEF line
<1>3. /\ InOrder(files') /\ Among(files', lines + 1) /\ HasLine(files', lines + 1)
      /\ \A n \in 1..lines : HasLine(files', n) <=> HasLine(fs, n)
  BY <1>1, <1>2, AddedInOrder
<1>4. LogFiles(files)'
  BY <1>2 DEF LogFiles, line
<1>5. ASSUME ~harmed'
      PROVE  NoGap(files', lines + 1) /\ Consecutive(files')
  <2>1. limits.files \in Nat
    BY DEF LogInv
  <2>2. NoGap(files', lines + 1)
    BY <1>1, <1>2, <1>3, <1>5, <2>1, AddedNoGap
  <2> QED
    BY <1>2, <1>5, <2>2 DEF Consecutive
<1>6. LinesInOrder'
  BY <1>3, <1>5 DEF LinesInOrder, NoGap
<1> QED
  BY <1>1, <1>2, <1>4, <1>5, <1>6 DEF LogInv

LEMMA WriteKeeps ==
  ASSUME LogInv, NEW size \in LineSizes, Write(size), UNCHANGED limits
  PROVE  LogInv'
<1> DEFINE line == [number |-> lines + 1, size |-> size]
<1>1. /\ size \in Nat /\ limits.files \in Nat /\ lines \in Nat
      /\ LogFiles(files) /\ 0 \in DOMAIN files /\ sink \in {"open", "bad"}
      /\ InOrder(files) /\ Among(files, lines)
  BY LoggerAssumption DEF LogInv, LinesInOrder, Write
<1>2. lines' = lines + 1 /\ limits' = limits
  BY DEF Write
<1>3. \/ files' = files /\ sink' = sink /\ harmed' = harmed /\ sink = "bad"
      \/ files' = Added(files, line) /\ sink' = sink /\ harmed' = harmed
      \/ files' = Added(Shifted, line) /\ sink' = "open" /\ harmed' = harmed
      \/ files' = Added([files EXCEPT ![0] = <<>>], line) /\ sink' = "open" /\ harmed'
      \/ /\ harmed' /\ sink' = "closed"
         /\ files' = IF limits.files = 0 THEN files
                     ELSE [i \in DOMAIN Shifted \ {0} |-> Shifted[i]]
  BY DEF Write, Added
<1>4. CASE files' = files /\ sink' = sink /\ harmed' = harmed /\ sink = "bad"
  <2>1. LogFiles(files)' /\ harmed'
    BY <1>1, <1>2, <1>4 DEF LogInv, LogFiles
  <2>2. InOrder(files') /\ Among(files', lines + 1)
    BY <1>1, <1>4 DEF Among
  <2> QED
    BY <1>1, <1>2, <1>4, <2>1, <2>2 DEF LogInv, LinesInOrder
<1>5. CASE files' = Added(files, line) /\ sink' = sink /\ harmed' = harmed
  <2>1. ~harmed => Consecutive(files) /\ NoGap(files, lines)
    BY DEF LogInv, LinesInOrder
  <2> QED
    BY <1>1, <1>2, <1>5, <2>1, AddedKeeps DEF LogInv, NoGap
<1>6. CASE files' = Added(Shifted, line) /\ sink' = "open" /\ harmed' = harmed
  <2>1. LogFiles(Shifted) /\ 0 \in DOMAIN Shifted
    BY <1>1, ShiftedFiles
  <2>2. InOrder(Shifted) /\ Among(Shifted, lines)
    BY <1>1, ShiftedInOrder
  <2>3. ~harmed =>
          /\ Consecutive(Shifted)
          /\ \A n \in 1..lines : \A k \in 1..n : HasLine(Shifted, k) => HasLine(Shifted, n)
          /\ \A n \in 1..lines : ~HasLine(Shifted, n) => limits.files \in DOMAIN Shifted
    BY <1>1, ShiftedNoGap DEF LogInv, LinesInOrder
  <2> QED
    BY <1>1, <1>2, <1>6, <2>1, <2>2, <2>3, AddedKeeps
<1>7. CASE files' = Added([files EXCEPT ![0] = <<>>], line) /\ sink' = "open" /\ harmed'
  <2> DEFINE fs == [files EXCEPT ![0] = <<>>]
  <2>1. /\ DOMAIN fs = DOMAIN files /\ fs[0] = <<>>
        /\ \A i \in DOMAIN files \ {0} : fs[i] = files[i]
    BY <1>1
  <2> HIDE DEF fs
  <2>2. LogFiles(fs) /\ 0 \in DOMAIN fs
    BY <1>1, <2>1, EmptySeq DEF LogFiles
  <2>3. InOrder(fs) /\ Among(fs, lines)
    BY <1>1, <2>1, FewerInOrder
  <2>4. files' = Added(fs, line)
    BY <1>7 DEF fs
  <2> QED
    BY <1>1, <1>2, <1>7, <2>2, <2>3, <2>4, AddedKeeps
<1>8. CASE /\ harmed' /\ sink' = "closed"
           /\ files' = IF limits.files = 0 THEN files
                       ELSE [i \in DOMAIN Shifted \ {0} |-> Shifted[i]]
  <2>1. LogFiles(files') /\ InOrder(files') /\ Among(files', lines)
    <3>1. CASE limits.files = 0
      BY <1>1, <1>8, <3>1
    <3>2. CASE limits.files # 0
      <4>1. /\ DOMAIN files' \subseteq DOMAIN Shifted
            /\ \A i \in DOMAIN files' : files'[i] = Shifted[i]
        BY <1>8, <3>2
      <4>2. LogFiles(Shifted)
        BY <1>1, ShiftedFiles
      <4>3. InOrder(Shifted) /\ Among(Shifted, lines)
        BY <1>1, ShiftedInOrder
      <4>4. LogFiles(files')
        BY <4>1, <4>2 DEF LogFiles
      <4> QED
        BY <4>1, <4>3, <4>4, FewerInOrder
    <3> QED
      BY <3>1, <3>2
  <2>2. LogFiles(files)' /\ Among(files', lines + 1)
    BY <1>1, <1>2, <2>1 DEF LogFiles, Among
  <2> QED
    BY <1>1, <1>2, <1>8, <2>1, <2>2 DEF LogInv, LinesInOrder
<1> QED
  BY <1>3, <1>4, <1>5, <1>6, <1>7, <1>8

LEMMA SetFileKeeps ==
  ASSUME LogInv, SetFile, UNCHANGED <<limits, lines>>
  PROVE  LogInv'
<1>1. /\ files' = IF sink = "closed" /\ sink' = "open" /\ 0 \notin DOMAIN files
                  THEN [i \in DOMAIN files \cup {0} |-> IF i = 0 THEN <<>> ELSE files[i]]
                  ELSE files
      /\ \/ sink = "closed" /\ sink' = "open" /\ harmed' = harmed
         \/ sink' = sink /\ sink = "closed" /\ harmed'
         \/ sink # "closed" /\ sink' = "bad" /\ harmed'
  BY DEF SetFile
<1>2. CASE files' = files
  <2>1. sink' # "closed" => 0 \in DOMAIN files
    BY <1>1, <1>2 DEF LogInv
  <2> QED
    BY <1>1, <1>2, <2>1 DEF LogInv, LogFiles, LinesInOrder, NoGap
<1>3. CASE files' # files
  <2>1. /\ sink = "closed" /\ sink' = "open" /\ harmed' = harmed /\ 0 \notin DOMAIN files
        /\ files' = [i \in DOMAIN files \cup {0} |-> IF i = 0 THEN <<>> ELSE files[i]]
    BY <1>1, <1>3
  <2>2. /\ DOMAIN files' = DOMAIN files \cup {0} /\ files'[0] = <<>>
        /\ \A i \in DOMAIN files : files'[i] = files[i]
    BY <2>1
  <2>3. /\ LogFiles(files) /\ limits.files \in Nat
        /\ InOrder(files) /\ Among(files, lines)
    BY DEF LogInv, LinesInOrder
  <2>4. LogFiles(files)'
    <3>1. limits' = limits /\ <<>> \in Seq(LogLine)
      BY EmptySeq
    <3> QED
      BY <2>2, <2>3, <3>1 DEF LogFiles
  <2>5. InOrder(files') /\ Among(files', lines)
    BY <2>2, <2>3, FewerInOrder
  <2>6. \A n : HasLine(files', n) <=> HasLine(files, n)
    <3>1. \A i \in DOMAIN files' : \A a \in 1..Len(files'[i]) : i \in DOMAIN files
      BY <2>2
    <3> QED
      BY <2>2, <3>1 DEF HasLine
  <2>7. ~harmed' => Consecutive(files') /\ NoGap(files', lines)
    <3> SUFFICES ASSUME ~harmed
                 PROVE  Consecutive(files') /\ NoGap(files', lines)
      BY <2>1
    <3>1. Consecutive(files) /\ NoGap(files, lines)
      BY DEF LogInv, LinesInOrder
    <3>2. Consecutive(files')
      BY <2>2, <3>1 DEF Consecutive
    <3>3. NoGap(files', lines)
      BY <2>2, <2>6, <3>1 DEF NoGap
    <3> QED
      BY <3>2, <3>3
  <2> QED
    BY <2>1, <2>2, <2>4, <2>5, <2>7 DEF LogInv, LinesInOrder, NoGap
<1> QED
  BY <1>2, <1>3

LEMMA NextLogInv == LogInv /\ [LoggerNext]_logVars => LogInv'
<1> SUFFICES ASSUME LogInv, [LoggerNext]_logVars
             PROVE  LogInv'
  OBVIOUS
<1>1. CASE SetFile /\ UNCHANGED <<limits, lines>>
  BY <1>1, SetFileKeeps
<1>2. CASE Close /\ UNCHANGED <<limits, lines>>
  BY <1>2 DEF Close, LogInv, LogFiles, LinesInOrder, NoGap
<1>3. CASE (\E size \in LineSizes : Write(size)) /\ UNCHANGED limits
  BY <1>3, WriteKeeps
<1>4. CASE UNCHANGED logVars
  BY <1>4 DEF logVars, LogInv, LogFiles, LinesInOrder, NoGap
<1> QED
  BY <1>1, <1>2, <1>3, <1>4 DEF LoggerNext

LEMMA InitLogInv == LoggerInit => LogInv
<1> SUFFICES ASSUME LoggerInit
             PROVE  LogInv
  OBVIOUS
<1>1. limits.bytes \in Nat /\ limits.files \in Nat
  BY LoggerAssumption DEF LoggerInit
<1>2. lines = 0 /\ DOMAIN files = {} /\ sink = "closed"
  BY DEF LoggerInit
<1> QED
  BY <1>1, <1>2 DEF LogInv, LogFiles, Consecutive, LinesInOrder, InOrder, Among, NoGap

-----------------------------------------------------------------------------
(* Logger: the sizes.                                                      *)

\* No line but a long one takes a file over the limit.
Small(file) == Bytes(file) <= limits.bytes \/ Len(file) = 1

SizeInv ==
  /\ limits \in [bytes : MaxBytes, files : MaxFiles] /\ harmed \in BOOLEAN
  /\ lines \in 0..MaxLines /\ current \in Nat
  /\ sink # "closed" => Bytes(files[0]) <= current
  /\ limits.bytes > 0 => \A i \in DOMAIN files : Small(files[i])

LEMMA BytesOfNone == Bytes(<<>>) = 0
BY SumOfNone DEF Bytes

LEMMA BytesOfFile ==
  ASSUME NEW file \in Seq(LogLine)
  PROVE  Bytes(file) \in Nat
<1> DEFINE h == [i \in DOMAIN file |-> file[i].size]
<1>1. Len(file) \in Nat /\ DOMAIN file = 1..Len(file)
  BY LenProperties
<1>2. \A i \in 1..Len(file) : h[i] \in Nat
  <2> TAKE i \in 1..Len(file)
  <2>1. file[i] \in LogLine
    BY ElementOfSeq
  <2> QED
    BY <1>1, <2>1 DEF LogLine
<1> HIDE DEF h
<1>3. SumTo(Len(file), h) \in Nat
  BY <1>1, <1>2, SumOfNats
<1> QED
  BY <1>3 DEF Bytes, h

LEMMA BytesOfMore ==
  ASSUME NEW file \in Seq(LogLine), NEW line \in LogLine
  PROVE  Bytes(Append(file, line)) = Bytes(file) + line.size
<1> DEFINE more == Append(file, line)
           h == [i \in DOMAIN file |-> file[i].size]
           k == [i \in DOMAIN more |-> more[i].size]
           m == Len(file)
<1>1. /\ m \in Nat /\ DOMAIN file = 1..m
      /\ \A i \in 1..m : file[i] \in LogLine
  BY LenProperties, ElementOfSeq
<1>2. /\ more \in Seq(LogLine) /\ Len(more) = m + 1 /\ DOMAIN more = 1..m + 1
      /\ more[m + 1] = line /\ \A i \in 1..m : more[i] = file[i]
  BY <1>1, AppendProperties, LenProperties
<1>3. \A e \in LogLine : e.size \in Nat
  BY DEF LogLine
<1> HIDE DEF more, m
<1>4. \A i \in 1..m : h[i] \in Int /\ h[i] = k[i]
  <2> TAKE i \in 1..m
  <2>1. i \in 1..m + 1
    BY <1>1
  <2>2. h[i] = file[i].size /\ k[i] = more[i].size
    BY <1>1, <1>2, <2>1
  <2> QED
    BY <1>1, <1>2, <1>3, <2>2
<1>5. k[m + 1] = line.size /\ line.size \in Int
  <2>1. m + 1 \in 1..m + 1
    BY <1>1
  <2> QED
    BY <1>2, <1>3, <2>1
<1> HIDE DEF h, k
<1>6. \A i \in 1..m + 1 : k[i] \in Int
  <2> TAKE i \in 1..m + 1
  <2>1. i \in 1..m \/ i = m + 1
    BY <1>1
  <2> QED
    BY <1>4, <1>5, <2>1
<1>7. SumTo(m + 1, k) = SumTo(m, k) + k[m + 1]
  BY <1>1, <1>6, SumOfNext
<1>8. SumTo(m, h) = SumTo(m, k)
  BY <1>1, <1>4, SumOfSame
<1>9. Bytes(file) = SumTo(m, h) /\ Bytes(more) = SumTo(m + 1, k)
  BY <1>2 DEF Bytes, h, k, m
<1> QED
  BY <1>5, <1>7, <1>8, <1>9 DEF more

LEMMA AddedSizes ==
  ASSUME NEW fs, LogFiles(fs), 0 \in DOMAIN fs, NEW line \in LogLine, NEW c \in Nat,
         limits.bytes \in Nat, Bytes(fs[0]) <= c,
         limits.bytes > 0 => \A i \in DOMAIN fs \ {0} : Small(fs[i]),
         limits.bytes > 0 => c + line.size <= limits.bytes \/ fs[0] = <<>>
  PROVE  /\ Bytes(Added(fs, line)[0]) <= c + line.size
         /\ limits.bytes > 0 => \A i \in DOMAIN Added(fs, line) : Small(Added(fs, line)[i])
<1> DEFINE gs == Added(fs, line)
<1>1. /\ DOMAIN gs = DOMAIN fs /\ \A i \in DOMAIN fs \ {0} : gs[i] = fs[i]
      /\ gs[0] = Append(fs[0], line)
  BY AddedFiles
<1>2. fs[0] \in Seq(LogLine) /\ line.size \in Nat
  BY DEF LogFiles, LogLine
<1>3. Bytes(gs[0]) = Bytes(fs[0]) + line.size /\ Bytes(fs[0]) \in Nat
  BY <1>1, <1>2, BytesOfMore, BytesOfFile
<1>4. Bytes(gs[0]) <= c + line.size /\ Bytes(gs[0]) \in Nat
  BY <1>2, <1>3
<1>5. ASSUME limits.bytes > 0
      PROVE  Small(gs[0])
  <2>1. CASE c + line.size <= limits.bytes
    BY <1>2, <1>4, <2>1 DEF Small
  <2>2. CASE fs[0] = <<>>
    <3>1. Len(gs[0]) = 1
      BY <1>1, <1>2, <2>2, AppendProperties
    <3> QED
      BY <3>1 DEF Small
  <2> QED
    BY <1>5, <2>1, <2>2
<1> HIDE DEF gs
<1>6. limits.bytes > 0 => \A i \in DOMAIN gs : Small(gs[i])
  BY <1>1, <1>5
<1> QED
  BY <1>4, <1>6 DEF gs

LEMMA WriteSizes ==
  ASSUME LogInv, SizeInv, NEW size \in LineSizes, Write(size), UNCHANGED limits
  PROVE  SizeInv'
<1> DEFINE line == [number |-> lines + 1, size |-> size]
           rotates == limits.bytes > 0 /\ current + size > limits.bytes
<1>1. /\ size \in Nat /\ line \in LogLine /\ line.size = size /\ lines \in 0..MaxLines
      /\ limits.bytes \in Nat /\ limits.files \in Nat /\ current \in Nat /\ MaxLines \in Nat
      /\ LogFiles(files) /\ 0 \in DOMAIN files /\ sink # "closed" /\ lines < MaxLines
      /\ Bytes(files[0]) <= current
      /\ limits.bytes > 0 => \A i \in DOMAIN files : Small(files[i])
  BY LoggerAssumption DEF LogInv, SizeInv, Write, LogLine
<1>2. /\ \A fs : Added(fs, line) = [fs EXCEPT ![0] = Append(@, line)]
  BY DEF Added
<1>3. /\ lines' = lines + 1 /\ limits' = limits
      /\ \/ /\ ~rotates /\ files' = files /\ current' = current + size /\ UNCHANGED harmed
         \/ /\ ~rotates /\ files' = Added(files, line) /\ current' = current + size
            /\ UNCHANGED harmed
         \/ /\ files' = Added(Shifted, line) /\ current' = size /\ UNCHANGED harmed
         \/ /\ files' = Added([files EXCEPT ![0] = <<>>], line) /\ current' = size /\ harmed'
         \/ /\ current' = size /\ harmed' /\ sink' = "closed"
            /\ files' = IF limits.files = 0 THEN files
                        ELSE [i \in DOMAIN Shifted \ {0} |-> Shifted[i]]
  BY DEF Write, Added
<1>4. harmed' \in BOOLEAN
  BY <1>3 DEF SizeInv, Write
<1> DEFINE SizesGood == /\ sink' # "closed" => Bytes(files'[0]) <= current'
                        /\ limits.bytes > 0 => \A i \in DOMAIN files' : Small(files'[i])
<1>5. ASSUME ~rotates /\ files' = files /\ current' = current + size
      PROVE  SizesGood
  <2>1. Bytes(files[0]) \in Nat
    BY <1>1, BytesOfFile DEF LogFiles
  <2>2. Bytes(files[0]) <= current + size
    BY <1>1, <2>1
  <2> QED
    BY <1>1, <1>5, <2>2
<1>6. ASSUME ~rotates /\ files' = Added(files, line) /\ current' = current + size
      PROVE  SizesGood
  <2>1. limits.bytes > 0 => current + size <= limits.bytes
    BY <1>1, <1>6
  <2> HIDE DEF line
  <2>2. /\ Bytes(Added(files, line)[0]) <= current + line.size
        /\ limits.bytes > 0 => \A i \in DOMAIN Added(files, line) : Small(Added(files, line)[i])
    BY <1>1, <2>1, AddedSizes
  <2> QED
    BY <1>1, <1>6, <2>2
<1>7. ASSUME NEW fs, LogFiles(fs), 0 \in DOMAIN fs, fs[0] = <<>>,
             limits.bytes > 0 => \A i \in DOMAIN fs \ {0} : Small(fs[i]),
             files' = Added(fs, line), current' = size
      PROVE  SizesGood
  <2>1. Bytes(fs[0]) <= 0 /\ 0 \in Nat
    BY <1>7, BytesOfNone
  <2> HIDE DEF line
  <2>2. /\ Bytes(Added(fs, line)[0]) <= 0 + line.size
        /\ limits.bytes > 0 => \A i \in DOMAIN Added(fs, line) : Small(Added(fs, line)[i])
    BY <1>1, <1>7, <2>1, AddedSizes
  <2> QED
    BY <1>1, <1>7, <2>2
<1>8. /\ LogFiles(Shifted) /\ 0 \in DOMAIN Shifted /\ Shifted[0] = <<>>
      /\ limits.bytes > 0 => \A i \in DOMAIN Shifted \ {0} : Small(Shifted[i])
  <2>1. LogFiles(Shifted) /\ 0 \in DOMAIN Shifted
    BY <1>1, ShiftedFiles
  <2>2. Shifted[0] = <<>> /\ \A i \in DOMAIN Shifted \ {0} : i - 1 \in DOMAIN files /\ Shifted[i] = files[i - 1]
    BY <1>1, ShiftedFiles DEF LogFiles
  <2> QED
    BY <1>1, <2>1, <2>2
<1>9. ASSUME files' = Added(Shifted, line) /\ current' = size
      PROVE  SizesGood
  <2> HIDE DEF line, SizesGood
  <2> QED
    BY <1>7, <1>8, <1>9
<1>10. ASSUME files' = Added([files EXCEPT ![0] = <<>>], line) /\ current' = size
      PROVE  SizesGood
  <2> DEFINE fs == [files EXCEPT ![0] = <<>>]
  <2>1. /\ DOMAIN fs = DOMAIN files /\ fs[0] = <<>>
        /\ \A i \in DOMAIN files \ {0} : fs[i] = files[i]
    BY <1>1
  <2>2. files' = Added(fs, line)
    BY <1>10
  <2> HIDE DEF fs, line, SizesGood
  <2>3. LogFiles(fs) /\ 0 \in DOMAIN fs
    BY <1>1, <2>1, EmptySeq DEF LogFiles
  <2>4. limits.bytes > 0 => \A i \in DOMAIN fs \ {0} : Small(fs[i])
    BY <1>1, <2>1
  <2> QED
    BY <1>7, <1>10, <2>1, <2>2, <2>3, <2>4
<1>11. ASSUME sink' = "closed",
              files' = IF limits.files = 0 THEN files
                       ELSE [i \in DOMAIN Shifted \ {0} |-> Shifted[i]]
       PROVE  SizesGood
  <2>1. CASE files' = files
    BY <1>1, <1>11, <2>1
  <2>2. CASE files' = [i \in DOMAIN Shifted \ {0} |-> Shifted[i]]
    <3>1. \A i \in DOMAIN files' : i \in DOMAIN Shifted \ {0} /\ files'[i] = Shifted[i]
      BY <2>2
    <3> QED
      BY <1>8, <1>11, <3>1
  <2> QED
    BY <1>11, <2>1, <2>2
<1> HIDE DEF SizesGood, rotates
<1>12. SizesGood
  BY <1>3, <1>5, <1>6, <1>9, <1>10, <1>11
<1>13. lines' \in 0..MaxLines /\ current' \in Nat
  BY <1>1, <1>3
<1>14. limits' \in [bytes : MaxBytes, files : MaxFiles]
  BY <1>3 DEF SizeInv
<1> QED
  BY <1>3, <1>4, <1>12, <1>13, <1>14 DEF SizesGood, SizeInv, Small

LEMMA SetFileSizes ==
  ASSUME LogInv, SizeInv, SetFile, UNCHANGED <<limits, lines>>
  PROVE  SizeInv'
<1>1. /\ LogFiles(files) /\ sink # "closed" => 0 \in DOMAIN files
      /\ limits.bytes > 0 => \A i \in DOMAIN files : Small(files[i])
  BY DEF LogInv, SizeInv
<1>2. Existing \in Nat /\ (0 \in DOMAIN files => Existing = Bytes(files[0]))
  BY <1>1, BytesOfFile DEF Existing, LogFiles
<1>3. CASE files' = files
  <2>1. \/ sink' # "closed" /\ current' = Existing /\ 0 \in DOMAIN files
        \/ sink' = "closed" /\ current' = current
    BY <1>1, <1>3 DEF SetFile, LogInv
  <2>2. harmed' \in BOOLEAN
    BY DEF SetFile, SizeInv
  <2>3. current' \in Nat /\ (sink' # "closed" => Bytes(files'[0]) <= current')
    BY <1>2, <1>3, <2>1 DEF SizeInv
  <2> QED
    BY <1>1, <1>3, <2>2, <2>3 DEF SizeInv, Small
<1>4. CASE files' # files
  <2>1. /\ sink' = "open" /\ harmed' = harmed /\ 0 \notin DOMAIN files /\ current' = Existing
        /\ files' = [i \in DOMAIN files \cup {0} |-> IF i = 0 THEN <<>> ELSE files[i]]
    BY <1>4 DEF SetFile
  <2>2. current' = 0
    BY <2>1 DEF Existing
  <2>3. /\ DOMAIN files' = DOMAIN files \cup {0} /\ files'[0] = <<>>
        /\ \A i \in DOMAIN files : files'[i] = files[i]
    BY <2>1
  <2>4. Bytes(files'[0]) = 0
    BY <2>3, BytesOfNone
  <2>5. limits.bytes > 0 => \A i \in DOMAIN files' : Small(files'[i])
    <3>1. limits.bytes > 0 => Small(files'[0])
      BY <2>4 DEF Small, LogInv
    <3> QED
      BY <1>1, <2>3, <3>1
  <2>6. limits'.bytes > 0 =>
         \A i \in DOMAIN files' : Bytes(files'[i]) <= limits'.bytes \/ Len(files'[i]) = 1
    BY <2>5 DEF Small
  <2>7. current' \in Nat /\ (sink' # "closed" => Bytes(files'[0]) <= current')
    BY <2>2, <2>4
  <2>8. /\ limits' \in [bytes : MaxBytes, files : MaxFiles] /\ harmed' \in BOOLEAN
        /\ lines' \in 0..MaxLines
    BY <2>1 DEF SizeInv
  <2> QED
    BY <2>6, <2>7, <2>8 DEF SizeInv, Small
<1> QED
  BY <1>3, <1>4

LEMMA NextSizeInv == LogInv /\ SizeInv /\ [LoggerNext]_logVars => SizeInv'
<1> SUFFICES ASSUME LogInv, SizeInv, [LoggerNext]_logVars
             PROVE  SizeInv'
  OBVIOUS
<1>1. CASE SetFile /\ UNCHANGED <<limits, lines>>
  BY <1>1, SetFileSizes
<1>2. CASE Close /\ UNCHANGED <<limits, lines>>
  BY <1>2 DEF Close, SizeInv, Small
<1>3. CASE (\E size \in LineSizes : Write(size)) /\ UNCHANGED limits
  BY <1>3, WriteSizes
<1>4. CASE UNCHANGED logVars
  BY <1>4 DEF logVars, SizeInv, Small
<1> QED
  BY <1>1, <1>2, <1>3, <1>4 DEF LoggerNext

LEMMA InitSizeInv == LoggerInit => SizeInv
<1> SUFFICES ASSUME LoggerInit
             PROVE  SizeInv
  OBVIOUS
<1>1. DOMAIN files = {} /\ sink = "closed" /\ current = 0 /\ lines = 0 /\ harmed = FALSE
      /\ limits \in [bytes : MaxBytes, files : MaxFiles] /\ 0 \in 0..MaxLines
  BY LoggerAssumption DEF LoggerInit
<1> QED
  BY <1>1 DEF SizeInv

-----------------------------------------------------------------------------
(* Logger: what can be read back.                                          *)

FileOf(fs, i) == IF i \in DOMAIN fs THEN fs[i] ELSE <<>>

\* The lines of the files from the oldest to path.i, in their order.
ReadsBack(fs, i, s) ==
  /\ s \in Seq(LogLine)
  /\ \A a \in 1..Len(s) : \E j \in DOMAIN fs : j >= i /\ \E b \in 1..Len(fs[j]) : s[a] = fs[j][b]
  /\ \A j \in DOMAIN fs : j >= i => \A b \in 1..Len(fs[j]) : \E a \in 1..Len(s) : s[a] = fs[j][b]
  /\ \A a, b \in 1..Len(s) : a < b => s[a].number < s[b].number

LEMMA OneFileMore ==
  ASSUME NEW fs, LogFiles(fs), InOrder(fs), limits.files \in Nat,
         NEW i \in 0..limits.files, NEW s, ReadsBack(fs, i + 1, s)
  PROVE  ReadsBack(fs, i, s \o FileOf(fs, i))
<1> DEFINE f == FileOf(fs, i)
           t == s \o f
<1>1. s \in Seq(LogLine) /\ f \in Seq(LogLine)
  BY EmptySeq DEF ReadsBack, LogFiles, FileOf
<1>2. Len(s) \in Nat /\ Len(f) \in Nat
  BY <1>1, LenProperties
<1>3. /\ t \in Seq(LogLine) /\ Len(t) = Len(s) + Len(f)
      /\ \A a \in 1..Len(s) + Len(f) : t[a] = IF a <= Len(s) THEN s[a] ELSE f[a - Len(s)]
  BY <1>1, ConcatProperties
<1>4. \A b \in 1..Len(f) : i \in DOMAIN fs /\ f = fs[i]
  <2>1. i \notin DOMAIN fs => Len(f) = 0
    BY DEF FileOf
  <2> QED
    BY <2>1 DEF FileOf
<1>5. DOMAIN fs \subseteq 0..limits.files /\ i \in Nat
  BY DEF LogFiles
<1> HIDE DEF t, f
<1>6. /\ \A a \in 1..Len(s) : a \in 1..Len(t) /\ t[a] = s[a]
      /\ \A b \in 1..Len(f) : Len(s) + b \in 1..Len(t) /\ t[Len(s) + b] = f[b]
      /\ \A a \in 1..Len(t) : a \in 1..Len(s) \/ (a - Len(s) \in 1..Len(f) /\ t[a] = f[a - Len(s)])
  BY <1>2, <1>3
<1>7. ASSUME NEW a \in 1..Len(t)
      PROVE  \E j \in DOMAIN fs : j >= i /\ \E b \in 1..Len(fs[j]) : t[a] = fs[j][b]
  <2>1. CASE a \in 1..Len(s)
    <3>1. PICK j \in DOMAIN fs : j >= i + 1 /\ \E b \in 1..Len(fs[j]) : s[a] = fs[j][b]
      BY <2>1 DEF ReadsBack
    <3>2. j >= i
      BY <1>5, <3>1
    <3> QED
      BY <1>6, <2>1, <3>1, <3>2
  <2>2. CASE a - Len(s) \in 1..Len(f) /\ t[a] = f[a - Len(s)]
    BY <1>4, <1>5, <2>2
  <2> QED
    BY <1>6, <2>1, <2>2
<1>8. ASSUME NEW j \in DOMAIN fs, j >= i, NEW b \in 1..Len(fs[j])
      PROVE  \E a \in 1..Len(t) : t[a] = fs[j][b]
  <2>1. CASE j = i
    <3>1. f = fs[j]
      BY <2>1 DEF f, FileOf
    <3> QED
      BY <1>6, <3>1
  <2>2. CASE j # i
    <3>1. j >= i + 1
      BY <1>5, <1>8, <2>2
    <3>2. PICK a \in 1..Len(s) : s[a] = fs[j][b]
      BY <3>1 DEF ReadsBack
    <3> QED
      BY <1>6, <3>2
  <2> QED
    BY <2>1, <2>2
<1>9. ASSUME NEW a \in 1..Len(t), NEW b \in 1..Len(t), a < b
      PROVE  t[a].number < t[b].number
  <2>1. CASE b \in 1..Len(s)
    <3>1. a \in 1..Len(s)
      BY <1>2, <1>9, <2>1
    <3> QED
      BY <1>6, <1>9, <2>1, <3>1 DEF ReadsBack
  <2>2. CASE b \notin 1..Len(s) /\ a \in 1..Len(s)
    <3>1. PICK j \in DOMAIN fs : j >= i + 1 /\ \E c \in 1..Len(fs[j]) : s[a] = fs[j][c]
      BY <2>2 DEF ReadsBack
    <3>2. PICK c \in 1..Len(fs[j]) : s[a] = fs[j][c]
      BY <3>1
    <3>3. b - Len(s) \in 1..Len(f) /\ t[b] = f[b - Len(s)]
      BY <1>6, <2>2
    <3>4. i \in DOMAIN fs /\ f = fs[i] /\ j > i
      BY <1>4, <1>5, <3>1, <3>3
    <3>5. fs[j][c].number < fs[i][b - Len(s)].number
      BY <3>3, <3>4 DEF InOrder
    <3> QED
      BY <1>6, <2>2, <3>2, <3>3, <3>4, <3>5
  <2>3. CASE b \notin 1..Len(s) /\ a \notin 1..Len(s)
    <3>1. /\ b - Len(s) \in 1..Len(f) /\ t[b] = f[b - Len(s)]
          /\ a - Len(s) \in 1..Len(f) /\ t[a] = f[a - Len(s)]
      BY <1>6, <2>3
    <3>2. a - Len(s) < b - Len(s)
      BY <1>2, <1>3, <1>9
    <3>3. i \in DOMAIN fs /\ f = fs[i]
      BY <1>4, <3>1
    <3> QED
      BY <3>1, <3>2, <3>3 DEF InOrder
  <2> QED
    BY <2>1, <2>2, <2>3
<1> QED
  BY <1>3, <1>7, <1>8, <1>9 DEF ReadsBack, t, f

LEMMA KeptReadsBack ==
  ASSUME limits.files \in Nat, LogFiles(files), InOrder(files)
  PROVE  ReadsBack(files, 0, Kept)
<1> DEFINE F == limits.files
           Ext(f, i) == (IF i = F THEN <<>> ELSE f[i + 1]) \o FileOf(files, i)
           upto == CHOOSE f : f = [i \in 0..F |-> Ext(f, i)]
           Has(n, g) == \A i \in F - n..F : g[i] = Ext(g, i)
           T == {n \in 0..F : \E g : Has(n, g)}
<1>1. 0 \in T
  <2> DEFINE g == [i \in F - 0..F |-> Ext(<<>>, F)]
  <2>1. \A i \in F - 0..F : g[i] = Ext(g, i)
    <3> TAKE i \in F - 0..F
    <3>1. i = F
      OBVIOUS
    <3> QED
      BY <3>1
  <2> HIDE DEF Ext, g
  <2> QED
    BY <2>1
<1>2. ASSUME NEW n \in 0..F - 1, n \in T
      PROVE  n + 1 \in T
  <2>1. PICK f : Has(n, f)
    BY <1>2
  <2> DEFINE m == F - (n + 1)
             g == [i \in m..F |-> IF i = m THEN f[m + 1] \o FileOf(files, m) ELSE f[i]]
  <2>2. m \in Nat /\ m + 1 = F - n /\ m < F /\ n + 1 \in 0..F
    OBVIOUS
  <2> HIDE DEF m
  <2>3. ASSUME NEW i \in m..F
        PROVE  g[i] = Ext(g, i)
    <3>1. g[m] = f[m + 1] \o FileOf(files, m) /\ \A j \in m + 1..F : g[j] = f[j]
      BY <2>2
    <3> HIDE DEF g
    <3>2. CASE i = m
      <4>1. m # F /\ m + 1 \in m + 1..F
        BY <2>2
      <4> QED
        BY <3>1, <3>2, <4>1
    <3>3. CASE i # m
      <4>1. i \in m + 1..F /\ i \in F - n..F /\ (i # F => i + 1 \in m + 1..F)
        BY <2>2, <3>3
      <4>2. f[i] = Ext(f, i)
        BY <2>1, <4>1
      <4> QED
        BY <3>1, <4>1, <4>2
    <3> QED
      BY <3>2, <3>3
  <2> HIDE DEF g, Ext
  <2>4. Has(n + 1, g)
    BY <2>3 DEF m
  <2> HIDE DEF Has
  <2> QED
    BY <2>2, <2>4
<1>3. PICK g : \A i \in 0..F : g[i] = Ext(g, i)
  <2> HIDE DEF T
  <2>1. \A n \in 0..F - 1 : n \in T => n + 1 \in T
    BY <1>2
  <2>2. \A n \in 0..F : n \in T
    BY <1>1, <2>1, AllUpTo
  <2>3. F \in T
    BY <2>2
  <2>4. PICK g : Has(F, g)
    BY <2>3 DEF T
  <2>5. F - F = 0
    OBVIOUS
  <2> HIDE DEF Ext
  <2> QED
    BY <2>4, <2>5
<1>4. upto = [i \in 0..F |-> Ext(upto, i)]
  <2> DEFINE h == [i \in 0..F |-> g[i]]
  <2>1. \A i \in 0..F : h[i] = Ext(h, i)
    <3> TAKE i \in 0..F
    <3>1. i # F => i + 1 \in 0..F
      OBVIOUS
    <3>2. g[i] = Ext(g, i)
      BY <1>3
    <3>3. \A j \in 0..F : h[j] = g[j]
      OBVIOUS
    <3> HIDE DEF h
    <3> QED
      BY <3>1, <3>2, <3>3
  <2>2. h = [i \in 0..F |-> Ext(h, i)]
    <3>1. h = [i \in 0..F |-> h[i]]
      OBVIOUS
    <3> HIDE DEF h, Ext
    <3> QED
      BY <2>1, <3>1
  <2> HIDE DEF h, Ext
  <2> QED
    BY <2>2
<1>5. Kept = upto[0]
  BY DEF Kept, FileOf
<1> HIDE DEF upto
<1>6. \A i \in 0..F : upto[i] = Ext(upto, i)
  <2> HIDE DEF Ext
  <2> QED
    BY <1>4
<1> DEFINE G == {n \in 0..F : ReadsBack(files, F - n, upto[F - n])}
<1>7. 0 \in G
  <2>1. F \in 0..F /\ F - 0 = F /\ upto[F] = <<>> \o FileOf(files, F)
    <3>1. F \in 0..F /\ F - 0 = F
      OBVIOUS
    <3>2. upto[F] = Ext(upto, F)
      BY <1>6, <3>1
    <3>3. Ext(upto, F) = <<>> \o FileOf(files, F)
      OBVIOUS
    <3> QED
      BY <3>1, <3>2, <3>3
  <2>2. ReadsBack(files, F + 1, <<>>)
    <3>1. \A j \in DOMAIN files : ~(j >= F + 1)
      BY DEF LogFiles
    <3>2. <<>> \in Seq(LogLine) /\ Len(<<>>) = 0
      BY EmptySeq
    <3> QED
      BY <3>1, <3>2 DEF ReadsBack
  <2>3. ReadsBack(files, F, upto[F])
    BY <2>1, <2>2, OneFileMore
  <2> QED
    BY <2>1, <2>3
<1>8. ASSUME NEW n \in 0..F - 1, n \in G
      PROVE  n + 1 \in G
  <2> DEFINE m == F - (n + 1)
  <2>1. m \in 0..F /\ m + 1 = F - n /\ m # F /\ n + 1 \in 0..F
    OBVIOUS
  <2>2. ReadsBack(files, F - n, upto[F - n])
    BY <1>8
  <2> HIDE DEF m
  <2>3. upto[m] = upto[m + 1] \o FileOf(files, m)
    BY <1>6, <2>1
  <2>4. ReadsBack(files, m, upto[m])
    BY <2>1, <2>2, <2>3, OneFileMore
  <2> QED
    BY <2>1, <2>4 DEF m
<1>9. ReadsBack(files, F - F, upto[F - F])
  <2> HIDE DEF G
  <2>1. \A n \in 0..F - 1 : n \in G => n + 1 \in G
    BY <1>8
  <2>2. \A n \in 0..F : n \in G
    BY <1>7, <2>1, AllUpTo
  <2>3. F \in G
    BY <2>2
  <2> QED
    BY <2>3 DEF G
<1>10. F - F = 0
  OBVIOUS
<1> QED
  BY <1>5, <1>9, <1>10

LEMMA KeptIsWhole ==
  ASSUME NEW fs, NEW m \in Nat, NEW s, ReadsBack(fs, 0, s), Among(fs, m), NoGap(fs, m),
         DOMAIN fs \subseteq Nat
  PROVE  /\ \A a \in 1..Len(s) : s[a].number = m - Len(s) + a
         /\ Len(s) < m => limits.files \in DOMAIN fs
<1> DEFINE L == Len(s)
           T == {n \in 0..L - 1 : s[L - n].number = m - n}
<1>1. /\ L \in Nat /\ \A a \in 1..L : s[a].number \in 1..m
      /\ \A a, b \in 1..L : a < b => s[a].number < s[b].number
  <2>1. s \in Seq(LogLine)
    BY DEF ReadsBack
  <2>2. L \in Nat
    BY <2>1, LenProperties
  <2>3. \A a \in 1..L : s[a].number \in 1..m
    BY DEF ReadsBack, Among
  <2> QED
    BY <2>2, <2>3 DEF ReadsBack
<1>2. ASSUME NEW n \in 1..m, HasLine(fs, n)
      PROVE  \E a \in 1..L : s[a].number = n
  <2>1. PICK j \in DOMAIN fs : \E b \in 1..Len(fs[j]) : fs[j][b].number = n
    BY <1>2 DEF HasLine
  <2>2. PICK b \in 1..Len(fs[j]) : fs[j][b].number = n
    BY <2>1
  <2>3. j >= 0
    OBVIOUS
  <2>4. \E a \in 1..Len(s) : s[a] = fs[j][b]
    BY <2>3 DEF ReadsBack
  <2> QED
    BY <2>2, <2>4
<1>3. \A a \in 1..L : HasLine(fs, s[a].number)
  BY DEF ReadsBack, HasLine
<1> HIDE DEF L
<1>4. ASSUME L > 0
      PROVE  0 \in T
  <2>1. m > 0 /\ HasLine(fs, m) /\ m \in 1..m
    BY <1>1, <1>4 DEF NoGap
  <2>2. PICK a \in 1..L : s[a].number = m
    BY <1>2, <2>1
  <2>3. L \in 1..L /\ (a # L => a < L)
    BY <1>1, <1>4
  <2>4. s[L].number \in 1..m /\ (a # L => m < s[L].number)
    BY <1>1, <2>2, <2>3
  <2>5. a = L
    BY <2>4
  <2>6. 0 \in 0..L - 1 /\ L - 0 = L /\ m - 0 = m
    BY <1>1, <1>4
  <2> QED
    BY <2>2, <2>5, <2>6
<1>5. ASSUME NEW n \in 0..L - 2, n \in T
      PROVE  n + 1 \in T
  <2> DEFINE k == L - (n + 1)
             p == s[k].number
             q == s[k + 1].number
  <2>1. /\ k \in 1..L /\ k + 1 \in 1..L /\ k + 1 = L - n /\ n + 1 \in 0..L - 1 /\ k < k + 1
        /\ k \in Nat
    BY <1>1
  <2>2. q = m - n /\ p < q /\ p \in 1..m /\ q \in 1..m
    BY <1>1, <1>5, <2>1
  <2>3. q - 1 \in 1..m /\ p \in 1..q - 1
    BY <2>2
  <2>4. HasLine(fs, q - 1)
    BY <1>3, <2>1, <2>3 DEF NoGap
  <2>5. PICK a \in 1..L : s[a].number = q - 1
    BY <1>2, <2>3, <2>4
  <2>6. ~(a < k)
    <3>1. a < k => s[a].number < p
      BY <1>1, <2>1
    <3> QED
      BY <2>3, <2>5, <3>1
  <2>7. ~(k + 1 < a) /\ a # k + 1
    <3>1. k + 1 < a => q < s[a].number
      BY <1>1, <2>1
    <3> QED
      BY <2>2, <2>5, <3>1
  <2>8. a = k
    BY <2>1, <2>6, <2>7
  <2>9. p = m - (n + 1)
    BY <2>2, <2>5, <2>8
  <2> QED
    BY <2>1, <2>9
<1>6. ASSUME NEW a \in 1..L
      PROVE  s[a].number = m - L + a
  <2>1. L > 0 /\ L - 1 \in Nat /\ (L - 1) - 1 = L - 2
    BY <1>1
  <2> HIDE DEF T
  <2>2. \A n \in 0..(L - 1) - 1 : n \in T => n + 1 \in T
    BY <1>5, <2>1
  <2>3. \A n \in 0..L - 1 : n \in T
    <3> DEFINE k == L - 1
    <3> HIDE DEF k
    <3>1. k \in Nat /\ \A n \in 0..k - 1 : n \in T => n + 1 \in T
      BY <2>1, <2>2 DEF k
    <3>2. \A n \in 0..k : n \in T
      BY <1>4, <2>1, <3>1, AllUpTo
    <3> QED
      BY <3>2 DEF k
  <2>4. L - a \in 0..L - 1 /\ L - (L - a) = a /\ m - (L - a) = m - L + a
    BY <1>1
  <2>5. L - a \in T
    BY <2>3, <2>4
  <2>6. s[L - (L - a)].number = m - (L - a)
    BY <2>5 DEF T
  <2> QED
    BY <2>4, <2>6
<1>7. ASSUME L < m, limits.files \notin DOMAIN fs
      PROVE  FALSE
  <2>1. m > 0 /\ 1 \in 1..m
    BY <1>1, <1>7
  <2>2. HasLine(fs, 1)
    BY <1>7, <2>1 DEF NoGap
  <2>3. PICK a \in 1..L : s[a].number = 1
    BY <1>2, <2>1, <2>2
  <2> QED
    BY <1>1, <1>6, <1>7, <2>3
<1> QED
  BY <1>6, <1>7 DEF L

LEMMA LogIsKept == LogInv /\ SizeInv => LogKept
<1> SUFFICES ASSUME LogInv, SizeInv
             PROVE  LogKept
  OBVIOUS
<1>1. /\ limits.files \in Nat /\ lines \in Nat /\ LogFiles(files) /\ InOrder(files)
      /\ Among(files, lines) /\ (~harmed => NoGap(files, lines)) /\ DOMAIN files \subseteq Nat
  BY DEF LogInv, LinesInOrder, LogFiles
<1>2. ReadsBack(files, 0, Kept)
  BY <1>1, KeptReadsBack
<1>3. \A i \in 1..Len(Kept) - 1 : Kept[i].number < Kept[i + 1].number
  <2> TAKE i \in 1..Len(Kept) - 1
  <2>1. Len(Kept) \in Nat
    BY <1>2, LenProperties DEF ReadsBack
  <2>2. i \in 1..Len(Kept) /\ i + 1 \in 1..Len(Kept) /\ i < i + 1
    BY <2>1
  <2> QED
    BY <1>2, <2>2 DEF ReadsBack
<1>4. limits.bytes > 0 => \A i \in DOMAIN files :
        Bytes(files[i]) <= limits.bytes \/ Len(files[i]) = 1
  BY DEF SizeInv, Small
<1>5. ASSUME ~harmed
      PROVE  /\ \A i \in 1..Len(Kept) : Kept[i].number = lines - Len(Kept) + i
             /\ Len(Kept) < lines => limits.files \in DOMAIN files
  BY <1>1, <1>2, <1>5, KeptIsWhole
<1> QED
  BY <1>3, <1>4, <1>5 DEF LogKept

\* rotate_if_needed, write and set_file, for any limits and sizes: whatever fails and
\* however often the process starts again, what is read from the oldest file to path is
\* in the order written, no line twice, and no file outgrows max_bytes but by one long
\* line; while nothing fails it ends with the last line, leaves none out, and the first
\* are missing only once max_files files were filled.
THEOREM RotationKeepsTheLog == LoggerSpec => []LogKept
<1>1. LoggerInit => LogInv /\ SizeInv
  BY InitLogInv, InitSizeInv
<1>2. LogInv /\ SizeInv /\ [LoggerNext]_logVars => (LogInv /\ SizeInv)'
  BY NextLogInv, NextSizeInv
<1> QED
  BY <1>1, <1>2, LogIsKept, PTL DEF LoggerSpec
=============================================================================
