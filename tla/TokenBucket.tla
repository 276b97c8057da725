---------------------------- MODULE TokenBucket ----------------------------
(***************************************************************************)
(* What a rate limiter promises: each address has a bucket, which refills  *)
(* at Rate up to Burst, and a call is granted iff a token is there.        *)
(***************************************************************************)
EXTENDS Integers

CONSTANTS Keys, Rate, Burst, Token

VARIABLES
  level,   \* what each bucket holds
  asked,   \* calls for each address
  granted  \* calls granted

vars == <<level, asked, granted>>

Init ==
  /\ level = [k \in Keys |-> Burst]
  /\ asked = [k \in Keys |-> 0]
  /\ granted = [k \in Keys |-> 0]

Refill ==
  /\ level' = [k \in Keys |->
                 IF level[k] + Rate <= Burst THEN level[k] + Rate ELSE Burst]
  /\ UNCHANGED <<asked, granted>>

Grant(k) ==
  /\ level[k] >= Token
  /\ level' = [level EXCEPT ![k] = @ - Token]
  /\ asked' = [asked EXCEPT ![k] = @ + 1]
  /\ granted' = [granted EXCEPT ![k] = @ + 1]

Deny(k) ==
  /\ level[k] < Token
  /\ asked' = [asked EXCEPT ![k] = @ + 1]
  /\ UNCHANGED <<level, granted>>

Next == Refill \/ \E k \in Keys : Grant(k) \/ Deny(k)

Spec == Init /\ [][Next]_vars
=============================================================================
