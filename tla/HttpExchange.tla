---------------------------- MODULE HttpExchange ----------------------------
(***************************************************************************)
(* What the server promises each client, with no trace of threads, queues, *)
(* descriptors or buffers: on a connection the two sides take turns.  The  *)
(* client asks; the server answers the request it was asked, once, in      *)
(* order, before it takes the next; between two requests it may send an    *)
(* interim 100; it may give up (408 on its client's turn, 504 on its own)  *)
(* or just close, and says nothing after that.                             *)
(***************************************************************************)
EXTENDS Integers, Sequences, FiniteSets

CONSTANTS Conns, MaxReq

VARIABLES
  turn,   \* "none" before the connection, then whose turn it is, or "closed"
  said    \* what the client was sent

vars == <<turn, said>>

\* The responses among what a client was sent.
Replies(s) == Cardinality({i \in 1..Len(s) : s[i].kind = "reply"})

Replied(c) == Replies(said[c])

\* A message about the request the client is at: the one after those replied.
About(c, kind) == [req |-> Replied(c) + 1, kind |-> kind]

Init ==
  /\ turn = [c \in Conns |-> "none"]
  /\ said = [c \in Conns |-> <<>>]

Open(c) ==
  /\ turn[c] = "none"
  /\ turn' = [turn EXCEPT ![c] = "client"]
  /\ UNCHANGED said

\* The server takes a request.
Ask(c) ==
  /\ turn[c] = "client"
  /\ Replied(c) < MaxReq
  /\ turn' = [turn EXCEPT ![c] = "server"]
  /\ UNCHANGED said

\* "100 Continue": the client is still sending its request.
Continue(c) ==
  /\ turn[c] = "client"
  /\ said' = [said EXCEPT ![c] = Append(@, About(c, "continue"))]
  /\ UNCHANGED turn

\* The response is complete.  The server may have the next request already, or
\* its headers, or close.
Answer(c) ==
  LET reply == About(c, "reply")
      next == [req |-> reply.req + 1, kind |-> "continue"] IN
  /\ turn[c] = "server"
  /\ \/ /\ \E t \in {"client", "closed"} \cup
                    (IF reply.req < MaxReq THEN {"server"} ELSE {}) :
             turn' = [turn EXCEPT ![c] = t]
        /\ said' = [said EXCEPT ![c] = Append(@, reply)]
     \/ /\ \E t \in {"client", "closed"} : turn' = [turn EXCEPT ![c] = t]
        /\ said' = [said EXCEPT ![c] = Append(Append(@, reply), next)]

\* Connections are closed, some after a final 408 or 504.
Close(cs, timedOut) ==
  /\ timedOut \subseteq {c \in cs : turn[c] \in {"client", "server"}}
  /\ \A c \in cs : turn[c] # "closed"
  /\ turn' = [c \in Conns |-> IF c \in cs THEN "closed" ELSE turn[c]]
  /\ said' = [c \in Conns |-> IF c \in timedOut
                              THEN Append(said[c], About(c, "timeout"))
                              ELSE said[c]]

\* The headers of a request arrive, 100 is sent, and the connection closes.
ContinueAndClose(c) ==
  /\ turn[c] = "client"
  /\ said' = [said EXCEPT ![c] = Append(@, About(c, "continue"))]
  /\ turn' = [turn EXCEPT ![c] = "closed"]

Next ==
  \/ \E c \in Conns : \/ Open(c) \/ Ask(c) \/ Continue(c) \/ Answer(c)
                      \/ ContinueAndClose(c)
  \/ \E cs \in SUBSET Conns : \E timedOut \in SUBSET cs : Close(cs, timedOut)

Spec == Init /\ [][Next]_vars
=============================================================================
