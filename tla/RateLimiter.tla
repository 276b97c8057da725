---------------------------- MODULE RateLimiter ----------------------------
(***************************************************************************)
(* The token buckets of src/src/server/RateLimiter.cpp.  The event loop is *)
(* their only user: dispatch_next calls allow(), the sweep evict_idle().   *)
(* Buckets refill lazily, when they are next looked at, and one that would *)
(* be full is forgotten.                                                   *)
(*                                                                         *)
(* Tokens are counted in units, Token of them to a token, so that the rate *)
(* and the burst may be fractions; the code's doubles are taken as exact.  *)
(*                                                                         *)
(* An operator whose name starts with Faulty is a mutant of the definition *)
(* that follows it.                                                        *)
(***************************************************************************)
EXTENDS Integers

CONSTANTS
  Keys,        \* the addresses of clients
  RatePerSec,  \* rate_per_sec, in units
  BurstSize,   \* burst, in units
  Token,       \* units in a token
  MaxClock,    \* bound of the clock
  MaxAsked     \* bound of the calls for an address

\* A burst smaller than a token would be granted at the first call all the same.
ASSUME LimiterAssumption ==
  /\ Token \in Nat \ {0}
  /\ RatePerSec \in Int
  /\ BurstSize \in Int /\ (BurstSize <= 0 \/ BurstSize >= Token)
  /\ MaxClock \in Nat /\ MaxAsked \in Nat

VARIABLES
  clock,    \* steady_clock
  buckets,  \* buckets_: address -> tokens and time of the last refill
  asked,    \* history: calls of allow for each address
  granted   \* history: calls that returned true

limiterVars == <<clock, buckets, asked, granted>>

\* What the constructor makes of its arguments.
Rate  == IF RatePerSec > 0 THEN RatePerSec ELSE Token
Burst == IF BurstSize > 0 THEN BurstSize ELSE Token

Bucket == [tokens : 0..Burst, last_refill : Nat]

Min2(a, b) == IF a <= b THEN a ELSE b

LimiterInit ==
  /\ clock = 0
  /\ buckets = [k \in {} |-> [tokens |-> 0, last_refill |-> 0]]
  /\ asked = [k \in Keys |-> 0]
  /\ granted = [k \in Keys |-> 0]

\* Time passes.
Tick ==
  /\ clock < MaxClock
  /\ clock' = clock + 1
  /\ UNCHANGED <<buckets, asked, granted>>

\* Tokens a bucket has at this instant.
Refilled(k) ==
  Min2(Burst, buckets[k].tokens + (clock - buckets[k].last_refill) * Rate)

\* The bucket of k becomes t tokens, as of now.
Store(k, t) ==
  buckets' = [x \in DOMAIN buckets \cup {k} |->
                IF x = k THEN [tokens |-> t, last_refill |-> clock]
                ELSE buckets[x]]

\* A new client starts with a full bucket and spends one token.
AllowNew(k) ==
  /\ k \notin DOMAIN buckets
  /\ asked[k] < MaxAsked
  /\ Store(k, Burst - Token)
  /\ asked' = [asked EXCEPT ![k] = @ + 1]
  /\ granted' = [granted EXCEPT ![k] = @ + 1]
  /\ UNCHANGED clock

AllowKnown(k) ==
  /\ k \in DOMAIN buckets
  /\ asked[k] < MaxAsked
  /\ Refilled(k) >= Token
  /\ Store(k, Refilled(k) - Token)
  /\ asked' = [asked EXCEPT ![k] = @ + 1]
  /\ granted' = [granted EXCEPT ![k] = @ + 1]
  /\ UNCHANGED clock

\* No token, but what was refilled is kept.
Refuse(k) ==
  /\ k \in DOMAIN buckets
  /\ asked[k] < MaxAsked
  /\ Refilled(k) < Token
  /\ Store(k, Refilled(k))
  /\ asked' = [asked EXCEPT ![k] = @ + 1]
  /\ UNCHANGED <<clock, granted>>

\* A bucket with one token is taken for full.
FaultyIdle(k) == Refilled(k) >= Token

\* Would the bucket be full?
Idle(k) == buckets[k].tokens + (clock - buckets[k].last_refill) * Rate >= Burst

EvictIdle ==
  /\ buckets' = [k \in {x \in DOMAIN buckets : ~Idle(x)} |-> buckets[k]]
  /\ UNCHANGED <<clock, asked, granted>>

LimiterNext ==
  \/ Tick
  \/ \E k \in Keys : AllowNew(k) \/ AllowKnown(k) \/ Refuse(k)
  \/ EvictIdle

LimiterSpec == LimiterInit /\ [][LimiterNext]_limiterVars

-----------------------------------------------------------------------------
\* Every variable keeps its type; a bucket is never overdrawn or over full, and
\* never refilled in the future.
LimiterTypeOK ==
  /\ clock \in Nat
  /\ DOMAIN buckets \subseteq Keys
  /\ \A k \in DOMAIN buckets :
       buckets[k] \in Bucket /\ buckets[k].last_refill <= clock
  /\ asked \in [Keys -> Nat]
  /\ granted \in [Keys -> Nat]

\* What a bucket holds at this instant, tracked or not.
Level(k) == IF k \in DOMAIN buckets THEN Refilled(k) ELSE Burst

\* However calls and evictions are spread, an address is granted no more than
\* the burst plus what the rate gave since the start.
RateBound ==
  \A k \in Keys : granted[k] * Token + Level(k) <= Burst + clock * Rate

\* Buckets that refill continuously and are never forgotten.
Ideal ==
  INSTANCE TokenBucket WITH level <- [k \in Keys |-> Level(k)]

\* Lazy refills and evictions cannot be observed: every call is answered as by a
\* bucket that refills all the time and is kept for ever.
ImplementsTokenBucket == Ideal!Spec
=============================================================================
