------------------------------ MODULE ClockProofs ------------------------------
(***************************************************************************)
(* Proofs about the parts that have a clock, the rate limiter for every    *)
(* rate, burst and set of addresses, and the timeouts for every setting.   *)
(***************************************************************************)
EXTENDS MCServices, TLAPS

-----------------------------------------------------------------------------
(* RateLimiter.  The heart of it is what each action does to Level(k), the *)
(* tokens a bucket holds at this instant, tracked or not.                  *)

\* The constructor leaves a positive rate, and a burst of a token or more.
LEMMA Settings ==
  /\ Token \in Nat /\ Token > 0
  /\ Rate \in Nat
  /\ Burst \in Nat /\ Burst >= Token
BY LimiterAssumption DEF LimiterAssumption, Rate, Burst

\* Products of naturals, and one step of a product.
LEMMA Product ==
  ASSUME NEW a \in Nat, NEW b \in Nat
  PROVE  /\ a * b \in Nat
         /\ (a + 1) * b = a * b + b
BY SMT

\* A sum capped at every step is the sum capped at the end.
LEMMA CapTwice ==
  ASSUME NEW c \in Nat, NEW x \in Nat, NEW r \in Nat
  PROVE  Min2(c, x + r) = Min2(c, Min2(c, x) + r)
BY DEF Min2

\* What a tracked bucket gained since its last refill.
LEMMA GainIsNat ==
  ASSUME LimiterTypeOK, NEW k \in DOMAIN buckets
  PROVE  (clock - buckets[k].last_refill) * Rate \in Nat
<1>1. clock - buckets[k].last_refill \in Nat
  BY DEF LimiterTypeOK, Bucket
<1> QED  BY <1>1, Settings, Product

LEMMA RefilledType ==
  ASSUME LimiterTypeOK, NEW k \in DOMAIN buckets
  PROVE  Refilled(k) \in 0..Burst
<1>1. buckets[k].tokens \in 0..Burst
  BY DEF LimiterTypeOK, Bucket
<1> QED  BY <1>1, GainIsNat, Settings DEF Refilled, Min2

LEMMA LevelType ==
  ASSUME LimiterTypeOK, NEW k \in Keys
  PROVE  Level(k) \in 0..Burst
BY RefilledType, Settings DEF Level

\* A tick refills every bucket, tracked or not, as if it were looked at.
LEMMA TickRefills ==
  ASSUME LimiterTypeOK, Tick, NEW k \in Keys
  PROVE  Level(k)' = Min2(Burst, Level(k) + Rate)
<1>1. CASE k \in DOMAIN buckets
  <2> DEFINE age == clock - buckets[k].last_refill
             gain == age * Rate
  <2>1. age \in Nat /\ buckets[k].tokens \in 0..Burst
    BY <1>1 DEF LimiterTypeOK, Bucket
  <2>2. gain \in Nat
    BY <1>1, GainIsNat
  <2>3. (age + 1) * Rate = gain + Rate
    BY <2>1, Settings, Product
  <2>4. clock' - buckets[k].last_refill = age + 1
    BY <1>1 DEF Tick, LimiterTypeOK, Bucket
  <2>5. Refilled(k)' = Min2(Burst, buckets[k].tokens + (age + 1) * Rate)
    BY <2>4 DEF Refilled, Tick, Burst, Rate
  <2>6. Refilled(k) = Min2(Burst, buckets[k].tokens + gain)
    BY DEF Refilled
  <2>7. Level(k)' = Refilled(k)' /\ Level(k) = Refilled(k)
    BY <1>1 DEF Level, Tick
  <2>8. Level(k)' = Min2(Burst, buckets[k].tokens + gain + Rate)
    BY <2>1, <2>2, <2>3, <2>5, <2>7, Settings
  <2>9. Level(k) = Min2(Burst, buckets[k].tokens + gain)
    BY <2>6, <2>7
  <2>10. buckets[k].tokens + gain \in Nat
    BY <2>1, <2>2, Settings
  <2>11. Min2(Burst, buckets[k].tokens + gain + Rate) =
           Min2(Burst, Min2(Burst, buckets[k].tokens + gain) + Rate)
    BY ONLY <2>10, CapTwice, Settings
  <2> HIDE DEF age, gain
  <2> QED  BY ONLY <2>8, <2>9, <2>11
<1>2. CASE k \notin DOMAIN buckets
  <2>1. Level(k)' = Burst /\ Level(k) = Burst
    BY <1>2 DEF Level, Tick, Burst
  <2> QED  BY <2>1, Settings DEF Min2
<1> QED  BY <1>1, <1>2

\* Writing t tokens as of now makes t the level of that bucket and leaves the
\* others as they are.
LEMMA StoreSets ==
  ASSUME LimiterTypeOK, UNCHANGED clock, NEW k \in Keys, NEW t \in 0..Burst,
         Store(k, t)
  PROVE  /\ DOMAIN buckets' \subseteq Keys
         /\ \A j \in DOMAIN buckets' :
              buckets'[j] \in Bucket /\ buckets'[j].last_refill <= clock
         /\ \A j \in Keys : Level(j)' = IF j = k THEN t ELSE Level(j)
<1>1. /\ DOMAIN buckets' = DOMAIN buckets \cup {k}
      /\ buckets'[k] = [tokens |-> t, last_refill |-> clock]
      /\ \A j \in DOMAIN buckets \ {k} : buckets'[j] = buckets[j]
  BY DEF Store
<1>2. clock \in Nat /\ DOMAIN buckets \subseteq Keys
  BY DEF LimiterTypeOK
<1>3. buckets'[k] \in Bucket /\ buckets'[k].last_refill <= clock
  BY <1>1, <1>2 DEF Bucket
<1>4. \A j \in DOMAIN buckets \ {k} :
        buckets'[j] \in Bucket /\ buckets'[j].last_refill <= clock
  BY <1>1 DEF LimiterTypeOK
<1>5. ASSUME NEW j \in Keys
      PROVE  Level(j)' = IF j = k THEN t ELSE Level(j)
  <2>1. CASE j = k
    <3>1. Level(k)' = Min2(Burst, t + (clock - clock) * Rate)
      BY <1>1 DEF Level, Refilled, Burst, Rate
    <3>2. (clock - clock) * Rate = 0
      BY <1>2, Settings
    <3> QED  BY <2>1, <3>1, <3>2, Settings DEF Min2
  <2>2. CASE j # k
    BY <2>2, <1>1 DEF Level, Refilled, Burst, Rate
  <2> QED  BY <2>1, <2>2
<1> QED  BY <1>1, <1>2, <1>3, <1>4, <1>5

\* Only full buckets are forgotten, so no level changes.
LEMMA EvictionIsSilent ==
  ASSUME LimiterTypeOK, EvictIdle, NEW k \in Keys
  PROVE  Level(k)' = Level(k)
<1>1. CASE k \in DOMAIN buckets /\ Idle(k)
  <2>1. Refilled(k) = Burst
    <3>1. buckets[k].tokens \in 0..Burst
      BY <1>1 DEF LimiterTypeOK, Bucket
    <3> QED  BY <1>1, <3>1, GainIsNat, Settings DEF Idle, Refilled, Min2
  <2>2. k \notin DOMAIN buckets'
    BY <1>1 DEF EvictIdle
  <2> QED  BY <1>1, <2>1, <2>2 DEF Level, Burst
<1>2. CASE k \in DOMAIN buckets /\ ~Idle(k)
  <2>1. k \in DOMAIN buckets' /\ buckets'[k] = buckets[k] /\ clock' = clock
    BY <1>2 DEF EvictIdle
  <2> QED  BY <1>2, <2>1 DEF Level, Refilled, Burst, Rate
<1>3. CASE k \notin DOMAIN buckets
  <2>1. k \notin DOMAIN buckets'
    BY <1>3 DEF EvictIdle
  <2> QED  BY <1>3, <2>1 DEF Level, Burst
<1> QED  BY <1>1, <1>2, <1>3

-----------------------------------------------------------------------------
\* What the three outcomes of allow have in common: k's bucket goes from its
\* level to t.
LEMMA GrantSpends ==
  ASSUME LimiterTypeOK, NEW k \in Keys, AllowNew(k) \/ AllowKnown(k)
  PROVE  /\ Level(k) >= Token
         /\ Store(k, Level(k) - Token)
         /\ Level(k) - Token \in 0..Burst
         /\ asked' = [asked EXCEPT ![k] = @ + 1]
         /\ granted' = [granted EXCEPT ![k] = @ + 1]
         /\ UNCHANGED clock
<1>1. CASE AllowNew(k)
  BY <1>1, Settings DEF AllowNew, Level
<1>2. CASE AllowKnown(k)
  <2>1. Refilled(k) \in 0..Burst
    BY <1>2, RefilledType DEF AllowKnown
  <2> QED  BY <1>2, <2>1, Settings DEF AllowKnown, Level
<1> QED  BY <1>1, <1>2

LEMMA RefusalKeeps ==
  ASSUME LimiterTypeOK, NEW k \in Keys, Refuse(k)
  PROVE  /\ Level(k) < Token
         /\ Store(k, Level(k))
         /\ Level(k) \in 0..Burst
         /\ asked' = [asked EXCEPT ![k] = @ + 1]
         /\ UNCHANGED <<clock, granted>>
<1>1. Refilled(k) \in 0..Burst
  BY RefilledType DEF Refuse
<1> QED  BY <1>1 DEF Refuse, Level

-----------------------------------------------------------------------------
\* Types, and that no bucket is overdrawn, over full or refilled in the future.
THEOREM LimiterTypeCorrect == LimiterSpec => []LimiterTypeOK
<1>1. LimiterInit => LimiterTypeOK
  BY DEF LimiterInit, LimiterTypeOK
<1>2. ASSUME LimiterTypeOK, [LimiterNext]_limiterVars
      PROVE  LimiterTypeOK'
  <2>1. CASE Tick
    BY <2>1, <1>2 DEF Tick, LimiterTypeOK, Bucket, Burst
  <2>2. CASE \E k \in Keys : AllowNew(k) \/ AllowKnown(k)
    <3>1. PICK k \in Keys : AllowNew(k) \/ AllowKnown(k)
      BY <2>2
    <3>2. /\ Store(k, Level(k) - Token) /\ Level(k) - Token \in 0..Burst
          /\ asked' = [asked EXCEPT ![k] = @ + 1]
          /\ granted' = [granted EXCEPT ![k] = @ + 1]
          /\ UNCHANGED clock
      BY <3>1, <1>2, GrantSpends
    <3>3. /\ DOMAIN buckets' \subseteq Keys
          /\ \A j \in DOMAIN buckets' :
               buckets'[j] \in Bucket /\ buckets'[j].last_refill <= clock
      BY <3>2, <1>2, StoreSets
    <3> QED  BY <3>2, <3>3, <1>2 DEF LimiterTypeOK, Bucket, Burst
  <2>3. CASE \E k \in Keys : Refuse(k)
    <3>1. PICK k \in Keys : Refuse(k)
      BY <2>3
    <3>2. /\ Store(k, Level(k)) /\ Level(k) \in 0..Burst
          /\ asked' = [asked EXCEPT ![k] = @ + 1]
          /\ UNCHANGED <<clock, granted>>
      BY <3>1, <1>2, RefusalKeeps
    <3>3. /\ DOMAIN buckets' \subseteq Keys
          /\ \A j \in DOMAIN buckets' :
               buckets'[j] \in Bucket /\ buckets'[j].last_refill <= clock
      BY <3>2, <1>2, StoreSets
    <3> QED  BY <3>2, <3>3, <1>2 DEF LimiterTypeOK, Bucket, Burst
  <2>4. CASE EvictIdle
    BY <2>4, <1>2 DEF EvictIdle, LimiterTypeOK, Bucket, Burst
  <2>5. CASE UNCHANGED limiterVars
    BY <2>5, <1>2 DEF limiterVars, LimiterTypeOK, Bucket, Burst
  <2> QED  BY <1>2, <2>1, <2>2, <2>3, <2>4, <2>5 DEF LimiterNext
<1> QED  BY <1>1, <1>2, PTL DEF LimiterSpec

\* However calls and evictions are spread, an address is granted no more than the
\* burst plus what the rate gave: what was granted and what is left never exceed it.
THEOREM GrantsAreBounded == LimiterSpec => []RateBound
<1>1. LimiterInit => RateBound
  <2> SUFFICES ASSUME LimiterInit, NEW k \in Keys
               PROVE  granted[k] * Token + Level(k) <= Burst + clock * Rate
    BY DEF RateBound
  <2>1. granted[k] = 0 /\ clock = 0 /\ Level(k) = Burst
    BY DEF LimiterInit, Level
  <2> QED  BY <2>1, Settings
<1>2. ASSUME LimiterTypeOK, RateBound, [LimiterNext]_limiterVars
      PROVE  RateBound'
  <2> SUFFICES ASSUME NEW k \in Keys
               PROVE  granted'[k] * Token + Level(k)' <= Burst + clock' * Rate
    BY DEF RateBound, Burst, Rate
  <2> DEFINE spent == granted[k] * Token
             given == clock * Rate
  <2>1. /\ granted \in [Keys -> Nat] /\ clock \in Nat
        /\ Level(k) \in 0..Burst
    BY <1>2, LevelType DEF LimiterTypeOK
  <2>2. spent \in Nat /\ (granted[k] + 1) * Token = spent + Token
    BY <2>1, Product, Settings
  <2>3. given \in Nat /\ (clock + 1) * Rate = given + Rate
    BY <2>1, Product, Settings
  <2>4. spent + Level(k) <= Burst + given
    BY <1>2 DEF RateBound
  <2>5. CASE Tick
    <3>1. Level(k)' = Min2(Burst, Level(k) + Rate)
      BY <2>5, <1>2, TickRefills
    <3>2. granted'[k] * Token = spent /\ clock' * Rate = (clock + 1) * Rate
      BY <2>5 DEF Tick
    <3> HIDE DEF spent, given
    <3> QED  BY <2>1, <2>2, <2>3, <2>4, <3>1, <3>2, Settings DEF Min2
  <2>6. ASSUME NEW j \in Keys, AllowNew(j) \/ AllowKnown(j)
        PROVE  granted'[k] * Token + Level(k)' <= Burst + clock' * Rate
    <3>1. /\ Store(j, Level(j) - Token) /\ Level(j) - Token \in 0..Burst
          /\ granted' = [granted EXCEPT ![j] = @ + 1]
          /\ UNCHANGED clock
      BY <2>6, <1>2, GrantSpends
    <3>2. Level(k)' = IF k = j THEN Level(j) - Token ELSE Level(k)
      BY <3>1, <1>2, StoreSets
    <3>3. granted'[k] = IF k = j THEN granted[k] + 1 ELSE granted[k]
      BY <3>1, <2>1
    <3>4. granted'[k] * Token = IF k = j THEN spent + Token ELSE spent
      BY <3>3, <2>2
    <3>5. clock' * Rate = given
      BY <3>1
    <3> HIDE DEF spent, given
    <3> QED  BY <2>1, <2>2, <2>3, <2>4, <3>2, <3>4, <3>5, Settings
  <2>7. ASSUME NEW j \in Keys, Refuse(j)
        PROVE  granted'[k] * Token + Level(k)' <= Burst + clock' * Rate
    <3>1. /\ Store(j, Level(j)) /\ Level(j) \in 0..Burst
          /\ UNCHANGED <<clock, granted>>
      BY <2>7, <1>2, RefusalKeeps
    <3>2. Level(k)' = Level(k)
      BY <3>1, <1>2, StoreSets
    <3> QED  BY <3>1, <3>2, <2>4
  <2>8. CASE EvictIdle
    <3>1. Level(k)' = Level(k)
      BY <2>8, <1>2, EvictionIsSilent
    <3> QED  BY <3>1, <2>8, <2>4 DEF EvictIdle
  <2>9. CASE UNCHANGED limiterVars
    BY <2>9, <2>4 DEF limiterVars, Level, Refilled, Burst, Rate
  <2> QED  BY <1>2, <2>5, <2>6, <2>7, <2>8, <2>9 DEF LimiterNext
<1> QED  BY <1>1, <1>2, LimiterTypeCorrect, PTL DEF LimiterSpec

\* Lazy refills and evictions cannot be observed: the limiter implements buckets
\* that refill continuously and are kept for ever.
THEOREM LimiterImplementsTokenBucket == LimiterSpec => ImplementsTokenBucket
<1> DEFINE level == [k \in Keys |-> Level(k)]
<1>1. LimiterInit => Ideal!Init
  <2> SUFFICES ASSUME LimiterInit PROVE Ideal!Init
    OBVIOUS
  <2>1. \A k \in Keys : Level(k) = Burst
    BY DEF LimiterInit, Level
  <2> QED  BY <2>1 DEF LimiterInit, Ideal!Init
<1>2. ASSUME LimiterTypeOK, [LimiterNext]_limiterVars
      PROVE  [Ideal!Next]_(Ideal!vars)
  <2>0. \A k \in Keys : Level(k) \in 0..Burst
    BY <1>2, LevelType
  <2>1. CASE Tick
    <3>1. \A k \in Keys : Level(k)' = Min2(Burst, Level(k) + Rate)
      BY <2>1, <1>2, TickRefills
    <3>2. level' = [k \in Keys |-> IF level[k] + Rate <= Burst
                                     THEN level[k] + Rate ELSE Burst]
      BY <3>1, <2>0, Settings DEF Min2
    <3>3. Ideal!Refill
      BY <3>2, <2>1 DEF Ideal!Refill, Tick
    <3> QED  BY <3>3 DEF Ideal!Next
  <2>2. ASSUME NEW k \in Keys, AllowNew(k) \/ AllowKnown(k)
        PROVE  Ideal!Grant(k)
    <3>1. /\ Level(k) >= Token
          /\ Store(k, Level(k) - Token) /\ Level(k) - Token \in 0..Burst
          /\ asked' = [asked EXCEPT ![k] = @ + 1]
          /\ granted' = [granted EXCEPT ![k] = @ + 1]
          /\ UNCHANGED clock
      BY <2>2, <1>2, GrantSpends
    <3>2. \A j \in Keys : Level(j)' = IF j = k THEN Level(k) - Token ELSE Level(j)
      BY <3>1, <1>2, StoreSets
    <3>3. level' = [level EXCEPT ![k] = @ - Token]
      BY <3>2
    <3> QED  BY <3>1, <3>3 DEF Ideal!Grant
  <2>3. ASSUME NEW k \in Keys, Refuse(k)
        PROVE  Ideal!Deny(k)
    <3>1. /\ Level(k) < Token
          /\ Store(k, Level(k)) /\ Level(k) \in 0..Burst
          /\ asked' = [asked EXCEPT ![k] = @ + 1]
          /\ UNCHANGED <<clock, granted>>
      BY <2>3, <1>2, RefusalKeeps
    <3>2. \A j \in Keys : Level(j)' = Level(j)
      BY <3>1, <1>2, StoreSets
    <3>3. level' = level
      BY <3>2
    <3> QED  BY <3>1, <3>3 DEF Ideal!Deny
  <2>4. CASE EvictIdle
    <3>1. \A k \in Keys : Level(k)' = Level(k)
      BY <2>4, <1>2, EvictionIsSilent
    <3>2. level' = level
      BY <3>1
    <3> QED  BY <3>2, <2>4 DEF EvictIdle, Ideal!vars
  <2>5. CASE UNCHANGED limiterVars
    <3>1. \A k \in Keys : Level(k)' = Level(k)
      BY <2>5 DEF limiterVars, Level, Refilled, Burst, Rate
    <3>2. level' = level
      BY <3>1
    <3> QED  BY <3>2, <2>5 DEF limiterVars, Ideal!vars
  <2> QED
    BY <1>2, <2>1, <2>2, <2>3, <2>4, <2>5 DEF LimiterNext, Ideal!Next
<1> QED
  BY <1>1, <1>2, LimiterTypeCorrect, PTL
  DEF LimiterSpec, ImplementsTokenBucket, Ideal!Spec

-----------------------------------------------------------------------------
(* Timeouts: each deadline is kept within two seconds, and nobody is cut   *)
(* off early.  At most a second goes by in epoll_wait, so that the sweep   *)
(* is never overdue by more (NeverOverdue); what was swept was short of    *)
(* its limit then, so an age exceeds its limit by no more than the time    *)
(* since the sweep (SweptInTime); and the instants the code keeps are, in  *)
(* each stage, neither older nor younger than what the properties measure  *)
(* (NoLater, NoSooner).                                                    *)

\* The sweep runs with the first turn that ends a second after the last.
NeverOverdue == unswept < asleep + Second

\* A file that has shrunk never gets out of write_data.
ShrunkStays == shrunk => stage \in {"writing", "closed"}

\* What the properties measure began no earlier than what the code measures.
NoLater ==
  /\ ~shrunk => stillFor <= idleFor
  /\ stage = "working" => stageFor <= busyFor

\* Nor later, where a deadline must not come early.
NoSooner ==
  /\ idleFor <= askedFor
  /\ stage \in {"reading", "working"} \/ (stage = "writing" /\ ~response.file)
       => idleFor <= stillFor
  /\ stage = "working" => busyFor <= stageFor

Slack(t, age) == settings[t] > 0 => age < Limit(t) + unswept

SweptInTime ==
  /\ stage = "reading" /\ filled = "nothing" => Slack("idle", stillFor)
  /\ stage = "reading" /\ filled = "part" => Slack("read", stillFor)
  /\ stage = "working" => Slack("handler", stageFor)
  /\ stage = "writing" /\ ~shrunk =>
       Slack("write", IF stillFor < stageFor THEN stillFor ELSE stageFor)

DeadlineInv ==
  TimeoutsTypeOK /\ NeverOverdue /\ ShrunkStays /\ NoLater /\ NoSooner /\ SweptInTime

-----------------------------------------------------------------------------
LEMMA SecondsOf ==
  ASSUME NEW s \in Nat, NEW d \in Nat \ {0}
  PROVE  /\ (s + 1) * d \in Nat
         /\ (s + 1) * d = s * d + d
         /\ s * d \in Nat
  BY SMT

\* What the proofs use of the settings.
LEMMA Limits ==
  ASSUME settings \in [TimeoutNames -> TimeoutValues]
  PROVE  /\ Second \in Nat /\ Second > 0 /\ Long \in Nat
         /\ 3 * Second < Long
         /\ \A t \in TimeoutNames :
              /\ settings[t] \in Nat
              /\ Limit(t) \in Nat /\ Limit(t) > 0
              /\ Limit(t) > settings[t] * Second
<1>1. Second \in Nat \ {0} /\ Long \in Nat
  BY TimeoutsAssumption
<1>2. ASSUME NEW t \in TimeoutNames
      PROVE  settings[t] \in TimeoutValues /\ settings[t] \in Nat
  BY <1>2, TimeoutsAssumption
<1>3. ASSUME NEW t \in TimeoutNames
      PROVE  Limit(t) \in Nat /\ Limit(t) > 0 /\ Limit(t) > settings[t] * Second
  <2>1. Limit(t) \in Nat /\ Limit(t) = settings[t] * Second + Second
        /\ settings[t] * Second \in Nat
    BY <1>1, <1>2, SecondsOf DEF Limit
  <2> QED BY <1>1, <2>1
<1>4. 3 * Second < Long
  <2>1. "idle" \in TimeoutNames
    BY DEF TimeoutNames
  <2> DEFINE s == settings["idle"]
  <2>2. s \in Nat /\ (s + 3) * Second < Long
    BY <1>2, <2>1, TimeoutsAssumption
  <2>3. (s + 3) * Second = s * Second + 3 * Second /\ s * Second \in Nat
    BY <1>1, <2>2, SMT
  <2>4. s * Second \in Nat /\ 3 * Second \in Nat
    BY <1>1, <2>3
  <2> QED BY <1>1, <2>2, <2>3, <2>4
<1> QED BY <1>1, <1>2, <1>3, <1>4

LEMMA SettingsStay ==
  ASSUME [TimeoutsNext]_timeoutVars
  PROVE  /\ settings' = settings
         /\ \A t \in TimeoutNames : Limit(t)' = Limit(t)
<1>1. settings' = settings
  BY DEF TimeoutsNext, timeoutVars, clocks, Woken, Elapse, Shrink, ReceiveData, Complete,
         WriteSome, WriteNothing, WriteLast, Hangup, EndTurn, TimeoutsOver
<1> QED BY <1>1 DEF Limit

\* The deadlines are those of a response, and its shape never matters to them.
LEMMA ResponseType ==
  ASSUME response \in [file : BOOLEAN, headers : BOOLEAN, left : 0..MaxUnits],
         MaxUnits \in Nat, NEW units \in 1..MaxUnits
  PROVE  /\ [response EXCEPT !.headers = FALSE, !.left = @ - Taken(units)]
              \in [file : BOOLEAN, headers : BOOLEAN, left : 0..MaxUnits]
         /\ [response EXCEPT !.headers = FALSE]
              \in [file : BOOLEAN, headers : BOOLEAN, left : 0..MaxUnits]
<1>1. response.left - Taken(units) \in 0..MaxUnits
  BY DEF Taken
<1> QED BY <1>1

LEMMA NothingYet ==
  ASSUME MaxUnits \in Nat, 1 <= MaxUnits
  PROVE  /\ Nothing \in [file : BOOLEAN, headers : BOOLEAN, left : 0..MaxUnits]
         /\ [file |-> FALSE, headers |-> TRUE, left |-> 1]
              \in [file : BOOLEAN, headers : BOOLEAN, left : 0..MaxUnits]
BY DEF Nothing

\* A tick adds one to an age, and no more than that to one that is Long.
LEMMA LaterType ==
  ASSUME Long \in Nat, NEW age \in Ages
  PROVE  /\ Later(age) \in Ages
         /\ age <= Later(age) /\ Later(age) <= age + 1
         /\ age < Long => Later(age) = age + 1
BY DEF Later, Ages

LEMMA LaterMonotone ==
  ASSUME Long \in Nat, NEW a \in Ages, NEW b \in Ages, a <= b
  PROVE  Later(a) <= Later(b)
BY DEF Later, Ages

\* The branches of enforce_timeouts, one by one.
LEMMA DueMeans ==
  ASSUME stage \in {"reading", "working", "writing"}
  PROVE  /\ stage = "working" =>
              Due = IF Expired("handler", busyFor) THEN "504" ELSE "none"
         /\ stage = "writing" =>
              Due = IF Expired("write", idleFor) THEN "write" ELSE "none"
         /\ stage = "reading" /\ filled = "part" =>
              Due = IF Expired("read", idleFor) THEN "408" ELSE "none"
         /\ stage = "reading" /\ filled # "part" =>
              Due = IF Expired("idle", idleFor) THEN "idle" ELSE "none"
<1>1. CASE stage = "working"
  BY <1>1 DEF Due
<1>2. CASE stage = "writing"
  BY <1>2 DEF Due
<1>3. CASE stage = "reading" /\ filled = "part"
  BY <1>3 DEF Due
<1>4. CASE stage = "reading" /\ filled # "part"
  BY <1>4 DEF Due
<1> QED BY <1>1, <1>2, <1>3, <1>4

LEMMA DueType ==
  ASSUME stage \in {"reading", "working", "writing"}
  PROVE  Due \in {"none", "504", "write", "408", "idle"}
BY DueMeans

LEMMA InitDeadline == TimeoutsInit => DeadlineInv
<1> SUFFICES ASSUME TimeoutsInit PROVE DeadlineInv
  OBVIOUS
<1>0. settings \in [TimeoutNames -> TimeoutValues]
  BY DEF TimeoutsInit
<1>1. /\ Second \in Nat /\ Second > 0 /\ Long \in Nat
      /\ MaxUnits \in Nat /\ 1 <= MaxUnits
      /\ \A t \in TimeoutNames : Limit(t) \in Nat /\ Limit(t) > 0
  BY <1>0, Limits, TimeoutsAssumption
<1>2. TimeoutsTypeOK
  <2>1. 0 \in Ages /\ Long \in Ages /\ 0 \in 0..Second
    BY <1>1 DEF Ages
  <2> QED BY <1>0, <1>1, <2>1, NothingYet DEF TimeoutsInit, TimeoutsTypeOK
<1>3. NeverOverdue /\ ShrunkStays /\ NoLater /\ NoSooner
  BY <1>1 DEF TimeoutsInit, NeverOverdue, ShrunkStays, NoLater, NoSooner
<1>4. SweptInTime
  BY <1>1 DEF TimeoutsInit, SweptInTime, Slack, TimeoutNames
<1> QED BY <1>2, <1>3, <1>4 DEF DeadlineInv

-----------------------------------------------------------------------------
(* Types.                                                                  *)

LEMMA TypePreserved ==
  ASSUME TimeoutsTypeOK, NeverOverdue, [TimeoutsNext]_timeoutVars
  PROVE  TimeoutsTypeOK'
<1>0. /\ settings \in [TimeoutNames -> TimeoutValues]
      /\ response \in [file : BOOLEAN, headers : BOOLEAN, left : 0..MaxUnits]
  BY DEF TimeoutsTypeOK
<1>1. /\ Second \in Nat /\ Second > 0 /\ Long \in Nat /\ MaxUnits \in Nat
      /\ 0 \in Ages /\ Long \in Ages
      /\ 1 <= MaxUnits /\ 0 \in 0..MaxUnits /\ 1 \in 0..MaxUnits
  BY <1>0, Limits, TimeoutsAssumption DEF Ages
<1>2. CASE Elapse
  BY <1>1, <1>2, LaterType DEF Elapse, TimeoutsTypeOK
<1>3. CASE Shrink
  BY <1>3 DEF Shrink, clocks, TimeoutsTypeOK
<1>4. ASSUME NEW behind \in {"nothing", "part", "whole"}, StartRequest(behind)
      PROVE  /\ stage' \in {"reading", "working", "writing", "closed"}
             /\ filled' \in {"nothing", "part", "whole"}
             /\ response' \in [file : BOOLEAN, headers : BOOLEAN, left : 0..MaxUnits]
             /\ busyFor' \in Ages /\ stageFor' \in Ages
  BY <1>1, <1>4, NothingYet DEF StartRequest, TimeoutsTypeOK
<1>5. CASE ReceiveData
  BY <1>1, <1>4, <1>5 DEF ReceiveData, Woken, TimeoutsTypeOK
<1>6. CASE Complete
  BY <1>1, <1>6 DEF Complete, Woken, Responses, TimeoutsTypeOK
<1>7. CASE WriteSome
  BY <1>0, <1>1, <1>7, ResponseType DEF WriteSome, Woken, TimeoutsTypeOK
<1>8. CASE WriteNothing
  BY <1>0, <1>1, <1>8, ResponseType DEF WriteNothing, Woken, TimeoutsTypeOK
<1>9. CASE WriteLast
  BY <1>1, <1>4, <1>9, NothingYet DEF WriteLast, AwaitRest, Woken, TimeoutsTypeOK
<1>10. CASE Hangup
  BY <1>10 DEF Hangup, Woken, TimeoutsTypeOK
<1>11. CASE EndTurn
  <2>1. stage \in {"reading", "working", "writing"}
    BY <1>11 DEF EndTurn, TimeoutsTypeOK
  <2>2. /\ stage' \in {stage, "closed"} /\ unswept' \in {unswept, 0}
        /\ ended' \in {"open", "client", "408", "504", "write", "idle"}
    BY <1>11, <2>1, DueType DEF EndTurn, TimeoutsTypeOK
  <2>3. /\ awake' = FALSE /\ asleep' = 0
        /\ UNCHANGED <<settings, filled, response, shrunk, idleFor, busyFor, stageFor,
                       askedFor, stillFor>>
    BY <1>11 DEF EndTurn
  <2>4. stage' \in {"reading", "working", "writing", "closed"}
    BY <2>2 DEF TimeoutsTypeOK
  <2>5. unswept' \in Ages /\ asleep' \in 0..Second
    BY <1>1, <2>2, <2>3 DEF TimeoutsTypeOK
  <2> QED BY <2>2, <2>3, <2>4, <2>5 DEF TimeoutsTypeOK
<1>12. CASE TimeoutsOver \/ UNCHANGED timeoutVars
  BY <1>12 DEF TimeoutsOver, timeoutVars, clocks, TimeoutsTypeOK
<1> QED BY <1>2, <1>3, <1>5, <1>6, <1>7, <1>8, <1>9, <1>10, <1>11, <1>12 DEF TimeoutsNext

-----------------------------------------------------------------------------
(* The rest of the invariant.                                              *)

LEMMA NeverOverduePreserved ==
  ASSUME TimeoutsTypeOK, NeverOverdue, [TimeoutsNext]_timeoutVars
  PROVE  NeverOverdue'
<1>1. /\ Second \in Nat /\ Second > 0 /\ Long \in Nat
      /\ asleep \in Nat /\ asleep <= Second /\ unswept \in Ages
  BY Limits DEF TimeoutsTypeOK
<1>2. CASE Elapse
  BY <1>1, <1>2, LaterType DEF Elapse, NeverOverdue, Ages
<1>3. CASE EndTurn
  BY <1>1, <1>3 DEF EndTurn, NeverOverdue, Ages
<1>4. CASE UNCHANGED <<asleep, unswept>>
  BY <1>4 DEF NeverOverdue
<1> QED BY <1>2, <1>3, <1>4 DEF TimeoutsNext, timeoutVars, clocks, Woken, Shrink, ReceiveData,
      Complete, WriteSome, WriteNothing, WriteLast, Hangup, TimeoutsOver

LEMMA ShrunkStaysPreserved ==
  ASSUME TimeoutsTypeOK, ShrunkStays, [TimeoutsNext]_timeoutVars
  PROVE  ShrunkStays'
<1>1. CASE Elapse \/ Shrink
  BY <1>1 DEF Elapse, Shrink, ShrunkStays
<1>2. CASE ReceiveData \/ Complete \/ WriteLast
  BY <1>2 DEF ReceiveData, Complete, WriteLast, Woken, ShrunkStays
<1>3. CASE WriteSome \/ WriteNothing \/ Hangup
  BY <1>3 DEF WriteSome, WriteNothing, Hangup, Woken, ShrunkStays
<1>4. CASE EndTurn
  BY <1>4 DEF EndTurn, ShrunkStays, TimeoutsTypeOK
<1>5. CASE TimeoutsOver \/ UNCHANGED timeoutVars
  BY <1>5 DEF TimeoutsOver, timeoutVars, ShrunkStays
<1> QED BY <1>1, <1>2, <1>3, <1>4, <1>5 DEF TimeoutsNext

LEMMA NoLaterPreserved ==
  ASSUME TimeoutsTypeOK, ShrunkStays, NoLater, [TimeoutsNext]_timeoutVars
  PROVE  NoLater'
<1>1. /\ Long \in Nat
      /\ stillFor \in Ages /\ idleFor \in Ages /\ stageFor \in Ages /\ busyFor \in Ages
      /\ 0 <= idleFor /\ 0 <= busyFor
  BY Limits DEF TimeoutsTypeOK, Ages
<1>2. CASE Elapse
  BY <1>1, <1>2, LaterMonotone DEF Elapse, NoLater
<1>3. CASE Shrink
  BY <1>3 DEF Shrink, clocks, NoLater
<1>4. CASE ReceiveData
  BY <1>4 DEF ReceiveData, Woken, StartRequest, NoLater
<1>5. CASE Complete
  BY <1>5 DEF Complete, Woken, NoLater
<1>6. CASE WriteSome
  BY <1>1, <1>6 DEF WriteSome, Woken, NoLater
<1>7. CASE WriteNothing
  BY <1>7 DEF WriteNothing, Woken, NoLater
<1>8. CASE WriteLast
  BY <1>8 DEF WriteLast, Woken, StartRequest, AwaitRest, NoLater
<1>9. CASE Hangup
  BY <1>9 DEF Hangup, Woken, NoLater
<1>10. CASE EndTurn
  BY <1>10 DEF EndTurn, NoLater
<1>11. CASE TimeoutsOver \/ UNCHANGED timeoutVars
  BY <1>11 DEF TimeoutsOver, timeoutVars, clocks, NoLater
<1> QED BY <1>2, <1>3, <1>4, <1>5, <1>6, <1>7, <1>8, <1>9, <1>10, <1>11 DEF TimeoutsNext

LEMMA NoSoonerPreserved ==
  ASSUME TimeoutsTypeOK, ShrunkStays, NoSooner, [TimeoutsNext]_timeoutVars
  PROVE  NoSooner'
<1>1. /\ Long \in Nat
      /\ stillFor \in Ages /\ idleFor \in Ages /\ askedFor \in Ages
      /\ stageFor \in Ages /\ busyFor \in Ages
      /\ 0 <= stillFor /\ 0 <= askedFor
  BY Limits DEF TimeoutsTypeOK, Ages
<1>2. CASE Elapse
  BY <1>1, <1>2, LaterMonotone DEF Elapse, NoSooner
<1>3. CASE Shrink
  BY <1>3 DEF Shrink, clocks, NoSooner
<1>4. CASE ReceiveData
  BY <1>4 DEF ReceiveData, Woken, StartRequest, NoSooner
<1>5. CASE Complete
  BY <1>5 DEF Complete, Woken, NoSooner
<1>6. CASE WriteSome
  <2>1. response'.file = response.file
    BY <1>6 DEF WriteSome, TimeoutsTypeOK
  <2>2. stage = "writing" /\ stage' = stage /\ stillFor' = 0 /\ askedFor' = askedFor
    BY <1>6 DEF WriteSome
  <2>3. idleFor' = 0 \/ (idleFor' = idleFor /\ response.file = TRUE)
    BY <1>6 DEF WriteSome, Refreshes, TimeoutsTypeOK
  <2> QED BY <1>1, <2>1, <2>2, <2>3 DEF NoSooner
<1>7. CASE WriteNothing
  BY <1>1, <1>7 DEF WriteNothing, Woken, NoSooner
<1>8. CASE WriteLast
  BY <1>1, <1>8 DEF WriteLast, Woken, StartRequest, AwaitRest, NoSooner
<1>9. CASE Hangup
  BY <1>9 DEF Hangup, Woken, NoSooner
<1>10. CASE EndTurn
  BY <1>10 DEF EndTurn, NoSooner
<1>11. CASE TimeoutsOver \/ UNCHANGED timeoutVars
  BY <1>11 DEF TimeoutsOver, timeoutVars, clocks, NoSooner
<1> QED BY <1>2, <1>3, <1>4, <1>5, <1>6, <1>7, <1>8, <1>9, <1>10, <1>11 DEF TimeoutsNext

-----------------------------------------------------------------------------
(* The deadlines.                                                          *)

\* What was short of its limit is so a tick later.
LEMMA SlackElapses ==
  ASSUME TimeoutsTypeOK, NeverOverdue, Elapse,
         NEW t \in TimeoutNames, NEW age \in Ages, Slack(t, age)
  PROVE  settings'[t] > 0 => Later(age) < Limit(t)' + unswept'
<1>1. /\ Second \in Nat /\ Second > 0 /\ Long \in Nat /\ 3 * Second < Long
      /\ Limit(t) \in Nat /\ unswept \in Ages /\ asleep \in Nat /\ asleep <= Second
  BY Limits DEF TimeoutsTypeOK
<1>2. settings' = settings /\ Limit(t)' = Limit(t)
  BY SettingsStay DEF TimeoutsNext
<1>3. unswept' = unswept + 1
  <2>1. asleep < Second /\ unswept < asleep + Second
    BY DEF Elapse, NeverOverdue
  <2>2. unswept < Long
    BY <1>1, <2>1 DEF Ages
  <2> QED BY <1>1, <2>2, LaterType DEF Elapse
<1>4. Later(age) <= age + 1 /\ Later(age) \in Nat /\ age \in Nat /\ unswept \in Nat
  BY <1>1, LaterType DEF Ages
<1> QED BY <1>1, <1>2, <1>3, <1>4 DEF Slack

\* A timer that starts now is short of any limit.
LEMMA SlackFresh ==
  ASSUME TimeoutsTypeOK', TimeoutsTypeOK, NEW t \in TimeoutNames
  PROVE  0 < Limit(t)' + unswept'
<1>1. Limit(t)' \in Nat /\ Limit(t)' > 0
  <2>1. settings' \in [TimeoutNames -> TimeoutValues]
    BY DEF TimeoutsTypeOK
  <2>2. settings'[t] \in Nat /\ Second \in Nat \ {0}
    BY <2>1, TimeoutsAssumption
  <2>3. (settings'[t] + 1) * Second \in Nat /\ (settings'[t] + 1) * Second = settings'[t] * Second + Second
        /\ settings'[t] * Second \in Nat
    BY <2>2, SecondsOf
  <2> QED BY <2>2, <2>3 DEF Limit
<1>2. unswept' \in Nat
  <2>1. Long \in Nat
    BY TimeoutsAssumption
  <2> QED BY <2>1 DEF TimeoutsTypeOK, Ages
<1> QED BY <1>1, <1>2

\* The age the write timeout is measured with.
Shortest == IF stillFor < stageFor THEN stillFor ELSE stageFor

\* The actions that start a timer leave the ages that matter at 0.
LEMMA FreshInTime ==
  ASSUME TimeoutsTypeOK, TimeoutsTypeOK',
         stage' = "reading" => stillFor' = 0,
         stage' = "working" => stageFor' = 0,
         stage' = "writing" => stillFor' = 0 \/ stageFor' = 0
  PROVE  SweptInTime'
<1>1. \A t \in TimeoutNames : 0 < Limit(t)' + unswept'
  BY SlackFresh
<1>2. {"idle", "read", "handler", "write"} \subseteq TimeoutNames
  BY DEF TimeoutNames
<1>3. stage' = "writing" => Shortest' = 0
  <2>1. stillFor' \in Nat /\ stageFor' \in Nat
    BY TimeoutsAssumption DEF TimeoutsTypeOK, Ages
  <2> QED BY <2>1 DEF Shortest
<1>4. 0 < Limit("idle")' + unswept' /\ 0 < Limit("read")' + unswept'
      /\ 0 < Limit("handler")' + unswept' /\ 0 < Limit("write")' + unswept'
  BY <1>1, <1>2
<1> QED BY <1>3, <1>4 DEF SweptInTime, Slack, Shortest

LEMMA ElapseInTime ==
  ASSUME TimeoutsTypeOK, NeverOverdue, SweptInTime, Elapse
  PROVE  SweptInTime'
<1>1. /\ Long \in Nat /\ stillFor \in Ages /\ stageFor \in Ages /\ Shortest \in Ages
  BY TimeoutsAssumption DEF TimeoutsTypeOK, Shortest, Ages
<1>2. {"idle", "read", "handler", "write"} \subseteq TimeoutNames
  BY DEF TimeoutNames
<1>3. /\ stage' = stage /\ filled' = filled /\ shrunk' = shrunk
      /\ stillFor' = Later(stillFor) /\ stageFor' = Later(stageFor)
  BY DEF Elapse
<1>4. ASSUME stage = "reading", filled = "nothing"
      PROVE  Slack("idle", stillFor)'
  BY <1>1, <1>2, <1>3, <1>4, SlackElapses DEF SweptInTime, Slack
<1>5. ASSUME stage = "reading", filled = "part"
      PROVE  Slack("read", stillFor)'
  BY <1>1, <1>2, <1>3, <1>5, SlackElapses DEF SweptInTime, Slack
<1>6. ASSUME stage = "working"
      PROVE  Slack("handler", stageFor)'
  BY <1>1, <1>2, <1>3, <1>6, SlackElapses DEF SweptInTime, Slack
<1>7. ASSUME stage = "writing", ~shrunk
      PROVE  Slack("write", Shortest)'
  <2>1. Shortest' = Later(Shortest)
    BY <1>1, <1>3 DEF Shortest, Later, Ages
  <2>2. Slack("write", Shortest)
    BY <1>7 DEF SweptInTime, Shortest
  <2>3. settings'["write"] > 0 => Later(Shortest) < Limit("write")' + unswept'
    BY <1>1, <1>2, <2>2, SlackElapses
  <2> QED BY <2>1, <2>3 DEF Slack
<1> QED BY <1>3, <1>4, <1>5, <1>6, <1>7 DEF SweptInTime, Shortest

LEMMA SweepInTime ==
  ASSUME TimeoutsTypeOK, NoLater, ShrunkStays, SweptInTime, EndTurn
  PROVE  SweptInTime'
<1>1. CASE UNCHANGED <<stage, unswept>>
  <2>1. UNCHANGED <<settings, stage, unswept, filled, shrunk, stillFor, stageFor>>
    BY <1>1 DEF EndTurn
  <2> QED BY <2>1 DEF SweptInTime, Slack, Limit
<1>2. CASE stage' = "closed"
  BY <1>2 DEF SweptInTime
<1>3. CASE Due = "none" /\ stage' = stage /\ unswept' = 0
  <2>1. /\ UNCHANGED <<settings, stage, filled, shrunk, stillFor, stageFor>>
        /\ stage \in {"reading", "working", "writing"}
    BY <1>3 DEF EndTurn, TimeoutsTypeOK
  <2>2. /\ stillFor \in Nat /\ stageFor \in Nat /\ idleFor \in Nat /\ busyFor \in Nat
        /\ Shortest \in Nat /\ Shortest <= stillFor
    BY TimeoutsAssumption DEF TimeoutsTypeOK, Ages, Shortest
  <2>3. {"idle", "read", "handler", "write"} \subseteq TimeoutNames
    BY DEF TimeoutNames
  <2>4. /\ Limit("idle") \in Nat /\ Limit("read") \in Nat
        /\ Limit("handler") \in Nat /\ Limit("write") \in Nat
        /\ settings["idle"] \in Nat /\ settings["read"] \in Nat
        /\ settings["handler"] \in Nat /\ settings["write"] \in Nat
    BY <2>3, Limits DEF TimeoutsTypeOK
  <2>5. \A t : Limit(t)' = Limit(t)
    BY <2>1 DEF Limit
  <2>6. stage = "reading" => ~shrunk
    BY DEF ShrunkStays
  <2>7. ASSUME stage = "reading", filled = "nothing"
        PROVE  settings["idle"] > 0 => stillFor < Limit("idle")
    <3>1. ~Expired("idle", idleFor)
      BY <1>3, <2>1, <2>7, DueMeans
    <3> QED BY <2>2, <2>4, <2>6, <2>7, <3>1 DEF Expired, NoLater
  <2>8. ASSUME stage = "reading", filled = "part"
        PROVE  settings["read"] > 0 => stillFor < Limit("read")
    <3>1. ~Expired("read", idleFor)
      BY <1>3, <2>1, <2>8, DueMeans
    <3> QED BY <2>2, <2>4, <2>6, <2>8, <3>1 DEF Expired, NoLater
  <2>9. ASSUME stage = "working"
        PROVE  settings["handler"] > 0 => stageFor < Limit("handler")
    <3>1. ~Expired("handler", busyFor)
      BY <1>3, <2>1, <2>9, DueMeans
    <3> QED BY <2>2, <2>4, <2>9, <3>1 DEF Expired, NoLater
  <2>10. ASSUME stage = "writing", ~shrunk
         PROVE  settings["write"] > 0 => Shortest < Limit("write")
    <3>1. ~Expired("write", idleFor)
      BY <1>3, <2>1, <2>10, DueMeans
    <3> QED BY <2>2, <2>4, <2>10, <3>1 DEF Expired, NoLater
  <2>11. Shortest' = Shortest /\ settings' = settings
    BY <2>1 DEF Shortest
  <2> QED BY <1>3, <2>1, <2>4, <2>5, <2>7, <2>8, <2>9, <2>10, <2>11
          DEF SweptInTime, Slack, Shortest
<1> QED BY <1>1, <1>2, <1>3 DEF EndTurn

LEMMA SweptInTimePreserved ==
  ASSUME DeadlineInv, [TimeoutsNext]_timeoutVars
  PROVE  SweptInTime'
<1>1. TimeoutsTypeOK /\ NeverOverdue /\ ShrunkStays /\ NoLater /\ SweptInTime
  BY DEF DeadlineInv
<1>2. TimeoutsTypeOK'
  BY <1>1, TypePreserved
<1>3. CASE Elapse
  BY <1>1, <1>3, ElapseInTime
<1>4. CASE Shrink \/ WriteNothing
  BY <1>4 DEF Shrink, WriteNothing, SweptInTime
<1>5. CASE ReceiveData
  <2>1. /\ stage' = "reading" => stillFor' = 0
        /\ stage' = "working" => stageFor' = 0
        /\ stage' = "writing" => stillFor' = 0 \/ stageFor' = 0
    BY <1>5 DEF ReceiveData, StartRequest
  <2> QED BY <1>1, <1>2, <2>1, FreshInTime
<1>6. CASE Complete \/ WriteSome \/ WriteLast
  <2>1. /\ stage' = "reading" => stillFor' = 0
        /\ stage' = "working" => stageFor' = 0
        /\ stage' = "writing" => stillFor' = 0 \/ stageFor' = 0
    BY <1>6 DEF Complete, WriteSome, WriteLast, StartRequest, AwaitRest
  <2> QED BY <1>1, <1>2, <2>1, FreshInTime
<1>7. CASE Hangup
  BY <1>7 DEF Hangup, SweptInTime
<1>8. CASE EndTurn
  BY <1>1, <1>8, SweepInTime
<1>9. CASE TimeoutsOver \/ UNCHANGED timeoutVars
  BY <1>1, <1>9 DEF TimeoutsOver, timeoutVars, clocks, SweptInTime, Slack, Limit
<1> QED BY <1>3, <1>4, <1>5, <1>6, <1>7, <1>8, <1>9 DEF TimeoutsNext

LEMMA StepDeadline == DeadlineInv /\ [TimeoutsNext]_timeoutVars => DeadlineInv'
<1> SUFFICES ASSUME DeadlineInv, [TimeoutsNext]_timeoutVars
             PROVE  DeadlineInv'
  OBVIOUS
<1>1. /\ TimeoutsTypeOK /\ NeverOverdue /\ ShrunkStays /\ NoLater /\ NoSooner
  BY DEF DeadlineInv
<1> QED BY <1>1, TypePreserved, NeverOverduePreserved, ShrunkStaysPreserved,
           NoLaterPreserved, NoSoonerPreserved, SweptInTimePreserved DEF DeadlineInv

\* Less than two seconds have passed since the sweep.
LEMMA InTimeFollows == DeadlineInv => DeadlinesKept
<1> SUFFICES ASSUME DeadlineInv PROVE DeadlinesKept
  OBVIOUS
<1>1. TimeoutsTypeOK /\ NeverOverdue /\ SweptInTime
  BY DEF DeadlineInv
<1>2. unswept < 2 * Second /\ unswept \in Nat /\ Second \in Nat
  BY <1>1, TimeoutsAssumption DEF TimeoutsTypeOK, NeverOverdue, Ages
<1>3. {"idle", "read", "handler", "write"} \subseteq TimeoutNames
  BY DEF TimeoutNames
<1>4. ASSUME NEW t \in TimeoutNames, NEW age \in Nat, Slack(t, age)
      PROVE  InTime(t, age)
  <2>1. Limit(t) \in Nat
    BY <1>1, Limits DEF TimeoutsTypeOK
  <2> QED BY <1>2, <1>4, <2>1 DEF Slack, InTime
<1>5. stillFor \in Nat /\ stageFor \in Nat /\ Shortest \in Nat
  BY <1>1, TimeoutsAssumption DEF TimeoutsTypeOK, Ages, Shortest
<1> QED BY <1>1, <1>3, <1>4, <1>5 DEF SweptInTime, DeadlinesKept, Shortest

\* Types of the deadlines' state, for every setting of the timeouts.
THEOREM TimeoutsTypeCorrect == TimeoutsSpec => []TimeoutsTypeOK
<1>1. DeadlineInv => TimeoutsTypeOK
  BY DEF DeadlineInv
<1> QED BY <1>1, InitDeadline, StepDeadline, PTL DEF TimeoutsSpec

\* enforce_timeouts keeps every deadline within two seconds, whatever the settings
\* are and however the client, the handler and the loop are interleaved.
THEOREM EveryDeadlineKept == TimeoutsSpec => []DeadlinesKept
BY InitDeadline, StepDeadline, InTimeFollows, PTL DEF TimeoutsSpec

-----------------------------------------------------------------------------
(* Nobody is cut off early.                                                *)

Early ==
  \/ ended' = "idle" /\ ~(stillFor > settings["idle"] * Second)
  \/ ended' = "408" /\ ~(stillFor > settings["read"] * Second)
  \/ ended' = "504" /\ ~(stageFor > settings["handler"] * Second)
  \/ ended' = "write" /\
       ~((IF response.file THEN askedFor ELSE stillFor) > settings["write"] * Second)

\* What a sweep closes has outlived its limit.
LEMMA SweepIsNotEarly ==
  ASSUME DeadlineInv, EndTurn, ended' = Due, Due # "none"
  PROVE  ~Early
<1>1. /\ stage \in {"reading", "working", "writing"}
      /\ TimeoutsTypeOK /\ NoSooner
  BY DEF EndTurn, DeadlineInv, TimeoutsTypeOK
<1>2. /\ stillFor \in Nat /\ stageFor \in Nat /\ idleFor \in Nat
      /\ busyFor \in Nat /\ askedFor \in Nat
  BY <1>1, TimeoutsAssumption DEF TimeoutsTypeOK, Ages
<1>3. ASSUME NEW t \in TimeoutNames, NEW age \in Nat, Expired(t, age)
      PROVE  age > settings[t] * Second
  <2>1. Limit(t) \in Nat /\ Limit(t) > settings[t] * Second /\ settings[t] \in Nat
        /\ Second \in Nat
    BY <1>1, Limits DEF TimeoutsTypeOK
  <2>2. settings[t] * Second \in Nat /\ age >= Limit(t)
    BY <1>3, <2>1, TimeoutsAssumption, SecondsOf DEF Expired
  <2> QED BY <2>1, <2>2
<1>4. {"idle", "read", "handler", "write"} \subseteq TimeoutNames
  BY DEF TimeoutNames
<1>5. \A t \in TimeoutNames : settings[t] * Second \in Nat
  BY <1>1, TimeoutsAssumption, Limits, SecondsOf DEF TimeoutsTypeOK
<1>6. CASE stage = "working"
  <2>1. Due = "504" /\ busyFor > settings["handler"] * Second
    BY <1>1, <1>2, <1>3, <1>4, <1>6, DueMeans
  <2>2. busyFor <= stageFor /\ settings["handler"] * Second \in Nat
    BY <1>1, <1>4, <1>5, <1>6 DEF NoSooner
  <2>3. stageFor > settings["handler"] * Second
    BY <1>2, <2>1, <2>2
  <2> QED BY <2>1, <2>3 DEF Early
<1>7. CASE stage = "writing"
  <2>1. Due = "write" /\ idleFor > settings["write"] * Second
    BY <1>1, <1>2, <1>3, <1>4, <1>7, DueMeans
  <2>2. idleFor <= askedFor /\ (~response.file => idleFor <= stillFor)
        /\ settings["write"] * Second \in Nat
    BY <1>1, <1>4, <1>5, <1>7 DEF NoSooner
  <2>3. (IF response.file THEN askedFor ELSE stillFor) > settings["write"] * Second
    BY <1>2, <2>1, <2>2
  <2> QED BY <2>1, <2>3 DEF Early
<1>8. CASE stage = "reading" /\ filled = "part"
  <2>1. Due = "408" /\ idleFor > settings["read"] * Second
    BY <1>1, <1>2, <1>3, <1>4, <1>8, DueMeans
  <2>2. idleFor <= stillFor /\ settings["read"] * Second \in Nat
    BY <1>1, <1>4, <1>5, <1>8 DEF NoSooner
  <2>3. stillFor > settings["read"] * Second
    BY <1>2, <2>1, <2>2
  <2> QED BY <2>1, <2>3 DEF Early
<1>9. CASE stage = "reading" /\ filled # "part"
  <2>1. Due = "idle" /\ idleFor > settings["idle"] * Second
    BY <1>1, <1>2, <1>3, <1>4, <1>9, DueMeans
  <2>2. idleFor <= stillFor /\ settings["idle"] * Second \in Nat
    BY <1>1, <1>4, <1>5, <1>9 DEF NoSooner
  <2>3. stillFor > settings["idle"] * Second
    BY <1>2, <2>1, <2>2
  <2> QED BY <2>1, <2>3 DEF Early
<1> QED BY <1>1, <1>6, <1>7, <1>8, <1>9

LEMMA NoStepIsEarly ==
  ASSUME DeadlineInv, [TimeoutsNext]_timeoutVars
  PROVE  ended' = ended \/ ~Early
<1>1. CASE EndTurn
  BY <1>1, SweepIsNotEarly DEF EndTurn
<1>2. CASE Hangup
  BY <1>2 DEF Hangup, Early
<1>3. CASE UNCHANGED ended
  BY <1>3
<1> QED BY <1>1, <1>2, <1>3 DEF TimeoutsNext, timeoutVars, Elapse, Shrink, ReceiveData,
      Complete, WriteSome, WriteNothing, WriteLast, TimeoutsOver

\* enforce_timeouts closes a connection that is read, or whose handler runs, only after
\* all the time the settings give.  A response it drops only once the write timeout has
\* passed since the client last sent or took something, for a text, or since it asked,
\* for a file: a slow download, or a slow handler, may be cut (CutOnlyWhenStalled).
THEOREM NobodyIsCutShort == TimeoutsSpec => NobodyCutShort
<1>1. DeadlineInv /\ [TimeoutsNext]_timeoutVars =>
        [/\ ended' = "idle" => stillFor > settings["idle"] * Second
         /\ ended' = "408" => stillFor > settings["read"] * Second
         /\ ended' = "504" => stageFor > settings["handler"] * Second
         /\ ended' = "write" =>
              (IF response.file THEN askedFor ELSE stillFor) > settings["write"] * Second]_ended
  BY NoStepIsEarly DEF Early
<1> QED BY <1>1, InitDeadline, StepDeadline, PTL DEF TimeoutsSpec, NobodyCutShort
=============================================================================
