------------------------------ MODULE Timeouts ------------------------------
(***************************************************************************)
(* The deadlines of one connection against the clock: which instant each   *)
(* timeout counts from (last_activity_, processing_since_), when the loop  *)
(* looks (enforce_timeouts in src/src/server/Server.cpp), and what         *)
(* refreshes the instants (src/src/net/Connection.cpp).  Server has the    *)
(* same connection without a clock.                                        *)
(*                                                                         *)
(* An instant is represented by the time passed since, up to Long, in      *)
(* Second-ths of a second.  The loop handles what is ready at once; before *)
(* a stop request.  A response is its headers and some units of a body.    *)
(* epoll reports a socket writable when a third of its buffer is free: the *)
(* headers never leave alone or in part.                                   *)
(*                                                                         *)
(* An operator whose name starts with Faulty is a mutant of the definition *)
(* that follows it.                                                        *)
(***************************************************************************)
EXTENDS Integers

CONSTANTS
  Second,        \* ticks in a second
  TimeoutValues, \* values the four timeouts may have, in seconds; 0 is none
  Long,          \* longer than anything that is compared
  MaxUnits       \* units of the longest body

ASSUME TimeoutsAssumption ==
  /\ Second \in Nat \ {0} /\ Long \in Nat /\ MaxUnits \in Nat \ {0}
  /\ TimeoutValues \subseteq Nat
  /\ \A t \in TimeoutValues : (t + 3) * Second < Long

TimeoutNames == {"read", "write", "idle", "handler"}

VARIABLES
  settings,  \* Server::Settings
  stage,     \* which branch of enforce_timeouts the connection is in, or "closed"
  filled,    \* read_buffer_: nothing, part of a request, or a whole one at least
  response,  \* what write_data has left to send
  shrunk,    \* the file being sent has become too short
  awake,     \* is the loop handling events? else it is in epoll_wait
  asleep,    \* time since epoll_wait was entered
  unswept,   \* time since last_cleanup
  idleFor,   \* time since last_activity_
  busyFor,   \* time since processing_since_
  stageFor,  \* history: time since the stage was entered
  askedFor,  \* history: time since the client last sent something
  stillFor,  \* history: time since it last sent or took something
  ended      \* history: what ended the connection

clocks == <<asleep, unswept, idleFor, busyFor, stageFor, askedFor, stillFor>>
timeoutVars == <<settings, stage, filled, response, shrunk, awake, ended, clocks>>

Nothing == [file |-> FALSE, headers |-> FALSE, left |-> 0]
Responses == [file : BOOLEAN, headers : {TRUE}, left : 0..MaxUnits]

TimeoutsInit ==
  /\ settings \in [TimeoutNames -> TimeoutValues]
  /\ stage = "reading" /\ filled = "nothing" /\ response = Nothing /\ shrunk = FALSE
  /\ awake = FALSE /\ ended = "open"
  /\ asleep = 0 /\ unswept = 0 /\ idleFor = 0 /\ busyFor = Long
  /\ stageFor = 0 /\ askedFor = 0 /\ stillFor = 0

-----------------------------------------------------------------------------
(* Time, and the file.                                                     *)

Later(age) == IF age < Long THEN age + 1 ELSE age

\* epoll_wait returns after a second at the latest.
Elapse ==
  /\ ~awake /\ stage # "closed"
  /\ asleep < Second
  /\ asleep' = asleep + 1
  /\ unswept' = Later(unswept)
  /\ idleFor' = Later(idleFor)
  /\ busyFor' = Later(busyFor)
  /\ stageFor' = Later(stageFor)
  /\ askedFor' = Later(askedFor)
  /\ stillFor' = Later(stillFor)
  /\ UNCHANGED <<settings, stage, filled, response, shrunk, awake, ended>>

Shrink ==
  /\ stage = "writing" /\ response.file /\ response.left > 0
  /\ shrunk' = TRUE
  /\ UNCHANGED <<settings, stage, filled, response, awake, ended, clocks>>

-----------------------------------------------------------------------------
(* The handlers.                                                           *)

Woken == stage # "closed" /\ awake' = TRUE /\ UNCHANGED <<settings, asleep, unswept>>

\* The instant a handler starts at is not taken.
FaultyStartRequest(behind) ==
  /\ filled' = behind
  /\ stageFor' = 0
  /\ \/ /\ stage' = "working" /\ response' = Nothing
        /\ UNCHANGED busyFor
     \/ /\ stage' = "writing" /\ response' = [file |-> FALSE, headers |-> TRUE, left |-> 1]
        /\ UNCHANGED busyFor

\* dispatch_next with a whole request in the buffer and `behind' after it: to a
\* worker, or refused with a 429 or 503.
StartRequest(behind) ==
  /\ filled' = behind
  /\ stageFor' = 0
  /\ \/ /\ stage' = "working" /\ response' = Nothing
        /\ busyFor' = 0
     \/ /\ stage' = "writing" /\ response' = [file |-> FALSE, headers |-> TRUE, left |-> 1]
        /\ UNCHANGED busyFor

\* dispatch_next when what is buffered is no whole request: wait for the rest.
AwaitRest ==
  /\ stage' = "reading" /\ stageFor' = 0 /\ response' = Nothing
  /\ UNCHANGED <<filled, busyFor>>

\* handle_client_data
ReceiveData ==
  /\ Woken /\ stage = "reading"
  /\ idleFor' = 0 /\ askedFor' = 0 /\ stillFor' = 0
  /\ \/ \E behind \in {"nothing", "part", "whole"} : StartRequest(behind)
     \/ filled' = "part" /\ UNCHANGED <<stage, response, busyFor, stageFor>>
  /\ UNCHANGED <<shrunk, ended>>

\* process_completions: nothing is written yet, and no instant changes.
Complete ==
  /\ Woken /\ stage = "working"
  /\ stage' = "writing" /\ stageFor' = 0
  /\ response' \in Responses
  /\ UNCHANGED <<filled, shrunk, ended, idleFor, busyFor, askedFor, stillFor>>

\* What one call of write_data gets out when the socket takes that much.
Taken(units) == IF units < response.left THEN units ELSE response.left

\* Does the call end in update_activity?  sendfile until EAGAIN does not, one
\* send of a text does.
Refreshes(units) == response.file => units >= response.left

\* handle_write_ready while something is left after the call.
WriteSome ==
  /\ Woken /\ stage = "writing" /\ ~(shrunk /\ ~response.headers)
  /\ \E units \in 1..MaxUnits :
       /\ units < response.left
       /\ response' = [response EXCEPT !.headers = FALSE, !.left = @ - Taken(units)]
       /\ idleFor' = IF Refreshes(units) THEN 0 ELSE idleFor
  /\ stillFor' = 0
  /\ UNCHANGED <<stage, filled, shrunk, ended, busyFor, stageFor, askedFor>>

\* sendfile says that there is no more in the file than that.
WriteNothing ==
  /\ Woken /\ stage = "writing" /\ shrunk
  /\ response' = [response EXCEPT !.headers = FALSE]
  /\ idleFor' = 0
  /\ stillFor' = IF response.headers THEN 0 ELSE stillFor
  /\ UNCHANGED <<stage, filled, shrunk, ended, busyFor, stageFor, askedFor>>

\* handle_write_ready when the rest goes out: on to what is buffered.
WriteLast ==
  /\ Woken /\ stage = "writing" /\ shrunk = FALSE
  /\ idleFor' = 0 /\ stillFor' = 0
  /\ \/ filled # "whole" /\ AwaitRest
     \/ filled = "whole" /\ \E behind \in {"nothing", "part", "whole"} : StartRequest(behind)
  /\ UNCHANGED <<shrunk, ended, askedFor>>

\* The peer closes, or resets the connection.
Hangup ==
  /\ Woken /\ stage' = "closed" /\ ended' = "client"
  /\ UNCHANGED <<filled, response, shrunk, idleFor, busyFor, stageFor, askedFor, stillFor>>

-----------------------------------------------------------------------------
(* enforce_timeouts.                                                       *)

\* duration_cast<seconds> cuts: more than t whole seconds are t + 1 at least.
Limit(t) == (settings[t] + 1) * Second
Expired(t, age) == settings[t] > 0 /\ age >= Limit(t)

\* processing_ is looked at before the response that is being written.
FaultyDue ==
  CASE stage = "working" -> IF Expired("handler", busyFor) THEN "504" ELSE "none"
    [] stage = "writing" -> "none"
    [] stage = "reading" /\ filled = "part" ->
         IF Expired("read", idleFor) THEN "408" ELSE "none"
    [] OTHER -> IF Expired("idle", idleFor) THEN "idle" ELSE "none"

\* What enforce_timeouts does to the connection.
Due ==
  CASE stage = "working" -> IF Expired("handler", busyFor) THEN "504" ELSE "none"
    [] stage = "writing" -> IF Expired("write", idleFor) THEN "write" ELSE "none"
    [] stage = "reading" /\ filled = "part" ->
         IF Expired("read", idleFor) THEN "408" ELSE "none"
    [] OTHER -> IF Expired("idle", idleFor) THEN "idle" ELSE "none"

\* The end of an iteration of run(): the sweep, if kCleanupIntervalSec has passed,
\* and epoll_wait.  Other connections and the timeout of epoll_wait wake it too.
EndTurn ==
  /\ stage # "closed"
  /\ awake' = FALSE /\ asleep' = 0
  /\ IF unswept < Second
     THEN UNCHANGED <<stage, ended, unswept>>
     ELSE /\ unswept' = 0
          /\ IF Due = "none" THEN UNCHANGED <<stage, ended>>
             ELSE stage' = "closed" /\ ended' = Due
  /\ UNCHANGED <<settings, filled, response, shrunk, idleFor, busyFor, stageFor,
                 askedFor, stillFor>>

TimeoutsOver == stage = "closed" /\ UNCHANGED timeoutVars

TimeoutsNext ==
  \/ Elapse \/ Shrink
  \/ ReceiveData \/ Complete \/ WriteSome \/ WriteNothing \/ WriteLast \/ Hangup
  \/ EndTurn
  \/ TimeoutsOver

TimeoutsSpec == TimeoutsInit /\ [][TimeoutsNext]_timeoutVars

-----------------------------------------------------------------------------
(* Properties.                                                             *)

Ages == 0..Long

TimeoutsTypeOK ==
  /\ settings \in [TimeoutNames -> TimeoutValues]
  /\ stage \in {"reading", "working", "writing", "closed"}
  /\ filled \in {"nothing", "part", "whole"}
  /\ response \in [file : BOOLEAN, headers : BOOLEAN, left : 0..MaxUnits]
  /\ shrunk \in BOOLEAN /\ awake \in BOOLEAN
  /\ asleep \in 0..Second
  /\ unswept \in Ages /\ idleFor \in Ages /\ busyFor \in Ages
  /\ stageFor \in Ages /\ askedFor \in Ages /\ stillFor \in Ages
  /\ ended \in {"open", "client", "408", "504", "write", "idle"}

\* Short of limit t by less than the two seconds that may lie between two sweeps.
InTime(t, age) == settings[t] > 0 => age < Limit(t) + 2 * Second

\* Every deadline is kept (enforce_timeouts): a client that is silent between or
\* within requests, a handler that does not return, a client that takes nothing of
\* its response are all dealt with within two seconds of the first instant the
\* timeout allows.  Only a file that shrinks has no deadline: each vain call of
\* write_data counts as activity.
DeadlinesKept ==
  /\ stage = "reading" /\ filled = "nothing" => InTime("idle", stillFor)
  /\ stage = "reading" /\ filled = "part" => InTime("read", stillFor)
  /\ stage = "working" => InTime("handler", stageFor)
  /\ stage = "writing" /\ ~shrunk =>
       InTime("write", IF stillFor < stageFor THEN stillFor ELSE stageFor)

\* Nobody is cut off early (enforce_timeouts): the sweep closes a connection only
\* if the client was silent, or the handler at work, for all the time the settings
\* give it.  Of a write timeout this holds only as far as last_activity_ goes: since
\* the client last sent or took something for a text, since it asked for a file.
NobodyCutShort ==
  [][/\ ended' = "idle" => stillFor > settings["idle"] * Second
     /\ ended' = "408" => stillFor > settings["read"] * Second
     /\ ended' = "504" => stageFor > settings["handler"] * Second
     /\ ended' = "write" =>
          (IF response.file THEN askedFor ELSE stillFor) > settings["write"] * Second]_ended

\* What the comments say of the write timeout (Server.h:106, Server.cpp:1057): a
\* response is dropped only if the peer does not drain it.
CutOnlyWhenStalled ==
  [][ended' = "write" /\ ~response.headers =>
       stillFor > settings["write"] * Second]_ended
=============================================================================
