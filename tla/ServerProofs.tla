---------------------------- MODULE ServerProofs ----------------------------
(***************************************************************************)
(* Proofs about the event loop, for any number of connections, descriptors *)
(* and workers and any value of the bounds and settings.                   *)
(***************************************************************************)
EXTENDS ServerProperties, SequenceTheorems, FiniteSetTheorems, TLAPS

\* The assumptions on the constants, one by one.
LEMMA Constants ==
  /\ None \notin Conns /\ None \notin Fds
  /\ IsFiniteSet(Workers) /\ Workers # {}
  /\ MaxReq \in Nat \ {0} /\ ReqChunks \in Nat \ {0} /\ RespChunks \in Nat \ {0}
  /\ BufCap \in Nat \ {0} /\ PipeCap \in Nat \ {0}
  /\ Cap \in Nat
BY ServerAssumption

-----------------------------------------------------------------------------
(* One connection.                                                         *)

\* The client never sends more than MaxReq requests, counting those parsed.
WithinBudget(k) == k.parsed * ReqChunks + k.buf + k.sock <= MaxReq * ReqChunks

\* What every Connection object satisfies between two handlers.
Sound(k) ==
  /\ k \in Connection
  /\ WithinBudget(k)
  /\ k.out > 0 => k.reply > 0
  /\ k.handling => k.parsed > 0

LEMMA OneMore ==
  ASSUME NEW p \in Nat, NEW m \in Nat, NEW r \in Nat \ {0}, NEW x \in Nat,
         p * r + r + x <= m * r
  PROVE  p + 1 <= m /\ (p + 1) * r = p * r + r
<1>1. (p + 1) * r = p * r + r
  OBVIOUS
<1>2. ASSUME m <= p
      PROVE  m * r <= p * r
  BY <1>2
<1>3. p * r \in Nat /\ m * r \in Nat
  OBVIOUS
<1> QED
  BY <1>1, <1>2, <1>3

\* A field set to a value of its type leaves the record well typed.
LEMMA Update ==
  ASSUME NEW r \in Connection
  PROVE  /\ \A v \in {"away", "queued", "live", "closed"} :
              [r EXCEPT !.stage = v] \in Connection
         /\ \A v \in Fds \cup {None} : [r EXCEPT !.fd = v] \in Connection
         /\ \A v \in Nat : [r EXCEPT !.sock = v] \in Connection
         /\ \A v \in {"up", "fin", "rst"} : [r EXCEPT !.end = v] \in Connection
         /\ \A v \in BOOLEAN : [r EXCEPT !.room = v] \in Connection
         /\ \A v \in Nat : [r EXCEPT !.buf = v] \in Connection
         /\ \A v \in 0..MaxReq : [r EXCEPT !.parsed = v] \in Connection
         /\ \A v \in BOOLEAN : [r EXCEPT !.processing = v] \in Connection
         /\ \A v \in BOOLEAN : [r EXCEPT !.handling = v] \in Connection
         /\ \A v \in 0..RespChunks : [r EXCEPT !.out = v] \in Connection
         /\ \A v \in 0..MaxReq : [r EXCEPT !.reply = v] \in Connection
         /\ \A v \in BOOLEAN : [r EXCEPT !.late = v] \in Connection
         /\ \A v \in BOOLEAN : [r EXCEPT !.continueSent = v] \in Connection
         /\ \A v \in Seq(Said) : [r EXCEPT !.said = v] \in Connection
BY DEF Connection
LEMMA Product ==
  ASSUME NEW k \in Connection
  PROVE  k.parsed * ReqChunks \in Nat /\ MaxReq * ReqChunks \in Nat
BY Constants DEF Connection

LEMMA NewIsSound == Sound(NewConnection)
<1>1. 0 * ReqChunks = 0 /\ MaxReq * ReqChunks \in Nat
  BY Constants
<1> QED
  BY <1>1, Constants, EmptySeq
  DEF Sound, NewConnection, Connection, WithinBudget

LEMMA ClosedIsSound == ASSUME NEW k, Sound(k) PROVE Sound(Closed(k))
<1>1. k \in Connection /\ k.parsed \in 0..MaxReq /\ k.said \in Seq(Said)
  BY DEF Sound, Connection
<1>2. NewConnection \in Connection
  BY NewIsSound DEF Sound
<1>3. Closed(k) \in Connection
  BY <1>1, <1>2, Update DEF Closed
<1>4. /\ Closed(k).parsed = k.parsed /\ Closed(k).buf = 0 /\ Closed(k).sock = 0
      /\ Closed(k).out = 0 /\ Closed(k).handling = FALSE
  BY DEF Closed, NewConnection
<1> QED
  BY <1>1, <1>3, <1>4, Product DEF Sound, WithinBudget, Connection

LEMMA ConsumedIsSound ==
  ASSUME NEW k, Sound(k), k.buf >= ReqChunks
  PROVE  Sound(Consumed(k)) /\ k.parsed + 1 \in 1..MaxReq
<1> DEFINE p == k.parsed
           x == k.buf - ReqChunks + k.sock
           n == Consumed(k)
<1>1. /\ k \in Connection
      /\ p \in 0..MaxReq /\ k.buf \in Nat /\ k.sock \in Nat
      /\ k.buf - ReqChunks \in Nat /\ x \in Nat
  BY Constants DEF Sound, Connection
<1>2. p * ReqChunks + ReqChunks + x <= MaxReq * ReqChunks
  BY <1>1, Product, Constants DEF Sound, WithinBudget
<1>3. p + 1 <= MaxReq /\ (p + 1) * ReqChunks = p * ReqChunks + ReqChunks
  <2> HIDE DEF p, x
  <2> QED
    BY <1>1, <1>2, OneMore, Constants
<1>4. p + 1 \in 1..MaxReq
  BY <1>1, <1>3, Constants
<1>5. n \in Connection
  <2>1. [k EXCEPT !.buf = @ - ReqChunks] \in Connection
    BY <1>1, Update
  <2>2. [k EXCEPT !.buf = @ - ReqChunks, !.parsed = @ + 1] \in Connection
    <3>1. [k EXCEPT !.buf = @ - ReqChunks].parsed + 1 \in 0..MaxReq
      BY <1>1, <1>4 DEF Connection
    <3> QED
      BY <2>1, <3>1, Update
  <2> QED
    BY <2>2, Update DEF Consumed
<1>6. /\ n.parsed = p + 1 /\ n.buf = k.buf - ReqChunks /\ n.sock = k.sock
      /\ n.out = k.out /\ n.reply = k.reply /\ n.handling = k.handling
  BY <1>1 DEF Consumed, Connection
<1>7. WithinBudget(n)
  <2>1. n.parsed * ReqChunks + n.buf + n.sock = p * ReqChunks + ReqChunks + x
    BY <1>1, <1>3, <1>6, Product, Constants
  <2> QED
    BY <1>2, <2>1 DEF WithinBudget
<1> QED
  BY <1>1, <1>4, <1>5, <1>6, <1>7 DEF Sound

\* A change that parses nothing and brings in nothing keeps the budget.
LEMMA StaysSound ==
  ASSUME NEW k, Sound(k), NEW n \in Connection,
         n.parsed = k.parsed, n.buf + n.sock = k.buf + k.sock,
         n.out > 0 => n.reply > 0,
         n.handling => n.parsed > 0
  PROVE  Sound(n)
<1>1. k \in Connection /\ k.parsed * ReqChunks \in Nat
  BY Product DEF Sound
<1>2. /\ n.buf \in Nat /\ n.sock \in Nat /\ k.buf \in Nat /\ k.sock \in Nat
  BY <1>1 DEF Connection
<1>3. WithinBudget(n)
  BY <1>1, <1>2, Product DEF Sound, WithinBudget
<1> QED
  BY <1>3 DEF Sound

LEMMA SaidMore ==
  ASSUME NEW k \in Connection, NEW s \in Said
  PROVE  Append(k.said, s) \in Seq(Said)
BY AppendProperties DEF Connection

LEMMA ContinueIsSound ==
  ASSUME NEW k, Sound(k)
  PROVE  Sound(MaybeContinue(k))
<1> DEFINE s == [req |-> k.parsed + 1, kind |-> "continue"]
           m == [k EXCEPT !.continueSent = TRUE, !.said = Append(@, s)]
<1>1. k \in Connection
  BY DEF Sound
<1>2. s \in Said
  BY <1>1, Constants DEF Connection, Said
<1>3. m \in Connection
  <2>1. [k EXCEPT !.continueSent = TRUE] \in Connection
    BY <1>1, Update
  <2>2. [k EXCEPT !.continueSent = TRUE].said = k.said
    BY <1>1 DEF Connection
  <2> HIDE DEF s
  <2> QED
    BY <1>1, <1>2, <2>1, <2>2, SaidMore, Update
<1>4. /\ m.parsed = k.parsed /\ m.buf = k.buf /\ m.sock = k.sock
      /\ m.out = k.out /\ m.reply = k.reply /\ m.handling = k.handling
  BY <1>1 DEF Connection
<1>5. Sound(m)
  <2> HIDE DEF m
  <2> QED
    BY <1>3, <1>4, StaysSound DEF Sound
<1> QED
  BY <1>5 DEF MaybeContinue

LEMMA WrittenIsSound ==
  ASSUME NEW k, Sound(k)
  PROVE  Sound(Written(k))
<1> DEFINE s == [req |-> k.reply, kind |-> "reply"]
           t == IF k.out = 0 THEN k.said ELSE Append(k.said, s)
           m == [k EXCEPT !.out = 0, !.reply = 0, !.said = t]
<1>1. k \in Connection
  BY DEF Sound
<1>2. t \in Seq(Said)
  <2>1. CASE k.out = 0
    BY <1>1, <2>1 DEF Connection
  <2>2. CASE k.out # 0
    <3>1. k.out > 0 /\ k.reply \in 0..MaxReq
      BY <1>1, <2>2, Constants DEF Connection
    <3>2. s \in Said
      BY <3>1, Constants DEF Sound, Said
    <3> QED
      BY <1>1, <2>2, <3>2, SaidMore
  <2> QED
    BY <2>1, <2>2
<1>3. m \in Connection
  <2> HIDE DEF t
  <2>1. 0 \in 0..RespChunks /\ 0 \in 0..MaxReq
    BY Constants
  <2>2. [k EXCEPT !.out = 0, !.reply = 0] \in Connection
    BY <1>1, <2>1, Update
  <2> QED
    BY <1>2, <2>2, Update
<1>4. /\ m.parsed = k.parsed /\ m.buf = k.buf /\ m.sock = k.sock
      /\ m.out = 0 /\ m.handling = k.handling
  <2> HIDE DEF t
  <2> QED
    BY <1>1 DEF Connection
<1>5. Written(k) = m
  BY <1>1 DEF Written, Connection
<1> HIDE DEF m
<1> QED
  BY <1>3, <1>4, <1>5, StaysSound DEF Sound

LEMMA TimedOutIsSound ==
  ASSUME NEW k, Sound(k)
  PROVE  Sound(TimedOut(k))
<1> DEFINE r == k.parsed + (IF k.handling THEN 0 ELSE 1)
           s == [req |-> r, kind |-> "timeout"]
           m == [k EXCEPT !.said = Append(@, s)]
<1>1. k \in Connection
  BY DEF Sound
<1>2. s \in Said
  <2>1. r \in 1..(MaxReq + 1)
    BY <1>1, Constants DEF Sound, Connection
  <2> HIDE DEF r
  <2> QED
    BY <2>1 DEF Said
<1>3. m \in Connection
  <2> HIDE DEF s
  <2> QED
    BY <1>1, <1>2, SaidMore, Update
<1>4. /\ m.parsed = k.parsed /\ m.buf = k.buf /\ m.sock = k.sock
      /\ m.out = k.out /\ m.reply = k.reply /\ m.handling = k.handling
  <2> HIDE DEF s
  <2> QED
    BY <1>1 DEF Connection
<1>5. Sound(m)
  <2> HIDE DEF m
  <2> QED
    BY <1>3, <1>4, StaysSound DEF Sound
<1>6. TimedOut(k) = m \/ TimedOut(k) = k
  BY DEF TimedOut
<1> QED
  BY <1>5, <1>6

-----------------------------------------------------------------------------
(* What the handlers are made of.                                          *)

NetSound ==
  /\ connections \in [Fds -> Conns \cup {None}]
  /\ conn \in [Conns -> Connection]
  /\ \A c \in Conns : Sound(conn[c])
  /\ interest \in [Fds -> {"off", "read", "write"}]

\* One more task, counted, and only below the cap; or none.
PoolStep ==
  \/ UNCHANGED <<tasks, inFlight>>
  \/ \E t \in Task : /\ ~Saturated
                     /\ tasks' = Append(tasks, t)
                     /\ inFlight' = inFlight + 1

LEMMA WatchIsSound ==
  ASSUME NetSound, NEW f \in Fds, NEW c \in Conns, NEW k, Sound(k),
         NEW dir \in {"off", "read", "write"}, Watch(f, c, k, dir)
  PROVE  NetSound'
BY DEF NetSound, Watch, Sound

LEMMA DropIsSound ==
  ASSUME NetSound, NEW f \in Fds, NEW c \in Conns, NEW k, Sound(k),
         Drop(f, c, k)
  PROVE  NetSound'
<1>1. Sound(Closed(k)) /\ Closed(k) \in Connection
  BY ClosedIsSound DEF Sound
<1> QED
  BY <1>1 DEF NetSound, Drop

LEMMA RearmIsSound ==
  ASSUME NetSound, NEW f \in Fds, NEW c \in Conns, NEW k, Sound(k),
         NEW dir \in {"off", "read", "write"}, Rearm(f, c, k, dir)
  PROVE  NetSound'
BY WatchIsSound, DropIsSound DEF Rearm

LEMMA RefuseIsSound ==
  ASSUME NetSound, NEW f \in Fds, NEW c \in Conns, NEW k, Sound(k),
         k.buf >= ReqChunks, Refuse(f, c, k)
  PROVE  NetSound'
<1> DEFINE n == Consumed(k)
           m == [n EXCEPT !.out = RespChunks, !.reply = k.parsed + 1]
<1>1. Sound(n) /\ n \in Connection /\ k.parsed + 1 \in 1..MaxReq
  BY ConsumedIsSound DEF Sound
<1> HIDE DEF n
<1>2. m \in Connection
  <2>1. RespChunks \in 0..RespChunks /\ k.parsed + 1 \in 0..MaxReq
    BY <1>1, Constants
  <2> QED
    BY <1>1, <2>1, Update
<1>3. /\ m.parsed = n.parsed /\ m.buf = n.buf /\ m.sock = n.sock
      /\ m.reply = k.parsed + 1 /\ m.handling = n.handling
  BY <1>1 DEF Connection
<1>4. Sound(m)
  <2> HIDE DEF m
  <2> QED
    BY <1>1, <1>2, <1>3, StaysSound DEF Sound
<1>5. Rearm(f, c, m, "write")
  BY DEF Refuse, n
<1> HIDE DEF m
<1> QED
  BY <1>4, <1>5, RearmIsSound

LEMMA EnqueueIsSound ==
  ASSUME NetSound, NEW f \in Fds, NEW c \in Conns, NEW k, Sound(k),
         k.buf >= ReqChunks, ~Saturated, Enqueue(f, c, k)
  PROVE  NetSound' /\ PoolStep
<1> DEFINE n == Consumed(k)
           m == [n EXCEPT !.handling = TRUE, !.late = FALSE]
           t == [fd |-> f, conn |-> c, req |-> k.parsed + 1]
<1>1. /\ Sound(n) /\ n \in Connection
      /\ k.parsed + 1 \in 1..MaxReq /\ n.parsed = k.parsed + 1
  <2>1. k \in Connection
    BY DEF Sound
  <2> QED
    BY <2>1, ConsumedIsSound DEF Sound, Consumed, Connection
<1>2. t \in Task
  BY <1>1 DEF Task
<1> HIDE DEF n
<1>3. m \in Connection
  BY <1>1, Update
<1>4. /\ m.parsed = n.parsed /\ m.buf = n.buf /\ m.sock = n.sock
      /\ m.out = n.out /\ m.reply = n.reply
  BY <1>1 DEF Connection
<1>5. Sound(m)
  <2> HIDE DEF m
  <2> QED
    BY <1>1, <1>3, <1>4, StaysSound DEF Sound
<1>6. Watch(f, c, m, "off")
  BY DEF Enqueue, n
<1>7. tasks' = Append(tasks, t) /\ inFlight' = inFlight + 1
  BY DEF Enqueue
<1> HIDE DEF m, t
<1> QED
  BY <1>2, <1>5, <1>6, <1>7, WatchIsSound DEF PoolStep

LEMMA DispatchIsSound ==
  ASSUME NetSound, NEW f \in Fds, NEW c \in Conns, NEW k, Sound(k),
         DispatchNext(f, c, k)
  PROVE  NetSound' /\ PoolStep
<1>1. CASE k.processing
  <2>1. interest[f] \in {"off", "read", "write"}
    BY DEF NetSound
  <2> QED
    BY <1>1, <2>1, WatchIsSound DEF DispatchNext, PoolStep
<1>2. CASE k.buf >= ReqChunks /\ Refuse(f, c, k)
  BY <1>2, RefuseIsSound DEF Refuse, PoolStep
<1>3. CASE k.buf >= ReqChunks /\ ~Saturated /\ Enqueue(f, c, k)
  BY <1>3, EnqueueIsSound
<1>4. CASE Drop(f, c, k) /\ UNCHANGED <<tasks, inFlight>>
  BY <1>4, DropIsSound DEF PoolStep
<1>5. CASE Rearm(f, c, MaybeContinue(k), "read") /\ UNCHANGED <<tasks, inFlight>>
  BY <1>5, ContinueIsSound, RearmIsSound DEF PoolStep
<1> QED
  BY <1>1, <1>2, <1>3, <1>4, <1>5 DEF DispatchNext

\* What one recv() brought in.
LEMMA ReadKeepsSound ==
  ASSUME NEW k, Sound(k), NEW n \in ReadSizes(k)
  PROVE  Sound([k EXCEPT !.buf = @ + n, !.sock = @ - n,
                         !.late = IF n > 0 THEN FALSE ELSE k.late])
<1> DEFINE l == IF n > 0 THEN FALSE ELSE k.late
           m == [k EXCEPT !.buf = @ + n, !.sock = @ - n, !.late = l]
<1>0. k \in Connection
  BY DEF Sound
<1>1. /\ n \in Nat /\ k.buf \in Nat /\ k.sock - n \in Nat /\ k.buf + n \in Nat
      /\ l \in BOOLEAN
  <2>1. k.buf \in Nat /\ k.sock \in Nat /\ k.late \in BOOLEAN
    BY <1>0 DEF Connection
  <2>2. n \in Nat /\ n <= k.sock
    BY <2>1, Constants DEF ReadSizes, Smaller
  <2>3. l \in BOOLEAN
    <3>1. l = FALSE \/ l = k.late
      BY Zenon
    <3> QED
      BY <2>1, <3>1
  <2> HIDE DEF l
  <2> QED
    BY <2>1, <2>2, <2>3
<1> HIDE DEF l
<1>2. m \in Connection
  <2>1. [k EXCEPT !.buf = @ + n] \in Connection
    BY <1>0, <1>1, Update
  <2>2. [k EXCEPT !.buf = @ + n].sock - n \in Nat
    BY <1>0, <1>1 DEF Connection
  <2>3. [k EXCEPT !.buf = @ + n, !.sock = @ - n] \in Connection
    BY <2>1, <2>2, Update
  <2> QED
    BY <1>1, <2>3, Update
<1>3. /\ m.parsed = k.parsed /\ m.buf = k.buf + n /\ m.sock = k.sock - n
      /\ m.out = k.out /\ m.reply = k.reply /\ m.handling = k.handling
  BY <1>0 DEF Connection
<1>4. m.buf + m.sock = k.buf + k.sock
  <2>1. k.sock \in Nat /\ n \in Nat /\ k.buf \in Nat
    BY <1>0, <1>1 DEF Connection
  <2> HIDE DEF m
  <2> QED
    BY <1>3, <2>1
<1> HIDE DEF m
<1>5. Sound(m)
  BY <1>2, <1>3, <1>4, StaysSound DEF Sound
<1> QED
  BY <1>5 DEF m, l

LEMMA ReadIsSound ==
  ASSUME NetSound, NEW f \in Fds, connections[f] # None, HandleClientData(f)
  PROVE  NetSound' /\ PoolStep
<1> DEFINE c == connections[f]
           k == conn[c]
<1>1. c \in Conns /\ Sound(k) /\ k \in Connection
  BY DEF NetSound, Sound
<1>2. CASE ReadEnds(k)
  <2>1. Drop(f, c, k) /\ UNCHANGED <<tasks, inFlight>>
    BY <1>2 DEF HandleClientData
  <2> HIDE DEF c, k
  <2> QED
    BY <1>1, <2>1, DropIsSound DEF PoolStep
<1>3. ASSUME NEW n \in ReadSizes(k), ~ReadEnds(k),
             DispatchNext(f, c, [k EXCEPT !.buf = @ + n, !.sock = @ - n,
                                          !.late = IF n > 0 THEN FALSE ELSE @])
      PROVE  NetSound' /\ PoolStep
  <2> DEFINE m == [k EXCEPT !.buf = @ + n, !.sock = @ - n,
                            !.late = IF n > 0 THEN FALSE ELSE k.late]
  <2>1. m = [k EXCEPT !.buf = @ + n, !.sock = @ - n,
                      !.late = IF n > 0 THEN FALSE ELSE @]
    BY <1>1 DEF Connection
  <2> HIDE DEF c, k
  <2>2. Sound(m)
    BY <1>1, <1>3, ReadKeepsSound
  <2>3. DispatchNext(f, c, m)
    BY <1>3, <2>1
  <2> HIDE DEF m
  <2> QED
    BY <1>1, <2>2, <2>3, DispatchIsSound
<1> QED
  BY <1>2, <1>3 DEF HandleClientData

\* A response cut short: some of it is left, and the rest of the connection is as
\* it was.
LEMMA CutShortFields ==
  ASSUME NEW k \in Connection, NEW m \in CutShort(k)
  PROVE  /\ m \in Connection
         /\ m.stage = k.stage /\ m.fd = k.fd /\ m.said = k.said
         /\ m.buf = k.buf /\ m.sock = k.sock /\ m.parsed = k.parsed
         /\ m.processing = k.processing /\ m.handling = k.handling /\ m.reply = k.reply
         /\ m.out \in 0..RespChunks /\ m.out > 0 /\ m.out <= k.out /\ k.out > 0
<1>1. k.out \in 0..RespChunks /\ k.late \in BOOLEAN /\ RespChunks \in Nat
  BY Constants DEF Connection
<1>2. ASSUME NEW left \in 0..RespChunks, NEW room \in BOOLEAN, NEW late \in BOOLEAN,
             m = [k EXCEPT !.out = left, !.room = room, !.late = late]
      PROVE  /\ m \in Connection
             /\ m.stage = k.stage /\ m.fd = k.fd /\ m.said = k.said
             /\ m.buf = k.buf /\ m.sock = k.sock /\ m.parsed = k.parsed
             /\ m.processing = k.processing /\ m.handling = k.handling /\ m.reply = k.reply
             /\ m.out = left
  BY <1>2 DEF Connection
<1>3. PICK left \in 0..RespChunks, room \in BOOLEAN, late \in BOOLEAN :
        /\ m = [k EXCEPT !.out = left, !.room = room, !.late = late]
        /\ left > 0 /\ left <= k.out
  <2>1. CASE m \in {[k EXCEPT !.out = left, !.room = FALSE] : left \in 1..(k.out - 1)}
    <3>1. PICK left \in 1..(k.out - 1) : m = [k EXCEPT !.out = left, !.room = FALSE]
      BY <2>1
    <3>2. m = [k EXCEPT !.out = left, !.room = FALSE, !.late = k.late]
      BY <3>1 DEF Connection
    <3>3. left \in 0..RespChunks /\ left > 0 /\ left <= k.out
      BY <1>1, <3>1
    <3> QED
      BY <1>1, <3>2, <3>3
  <2>2. CASE m \in {[k EXCEPT !.out = left, !.room = FALSE, !.late = FALSE] :
                       left \in 1..(k.out - 1)}
    <3>1. PICK left \in 1..(k.out - 1) :
            m = [k EXCEPT !.out = left, !.room = FALSE, !.late = FALSE]
      BY <2>2
    <3>2. left \in 0..RespChunks /\ left > 0 /\ left <= k.out
      BY <1>1, <3>1
    <3> QED
      BY <3>1, <3>2
  <2>3. CASE m \in {[k EXCEPT !.out = left, !.late = FALSE] :
                       left \in 1..Smaller(k.out, RespChunks - 1)}
    <3>1. PICK left \in 1..Smaller(k.out, RespChunks - 1) :
            m = [k EXCEPT !.out = left, !.late = FALSE]
      BY <2>3
    <3>2. m = [k EXCEPT !.out = left, !.room = k.room, !.late = FALSE] /\ k.room \in BOOLEAN
      BY <3>1 DEF Connection
    <3>3. left \in 0..RespChunks /\ left > 0 /\ left <= k.out
      BY <1>1, <3>1 DEF Smaller
    <3> QED
      BY <3>2, <3>3
  <2> QED
    BY <2>1, <2>2, <2>3 DEF CutShort
<1>4. /\ m \in Connection
      /\ m.stage = k.stage /\ m.fd = k.fd /\ m.said = k.said
      /\ m.buf = k.buf /\ m.sock = k.sock /\ m.parsed = k.parsed
      /\ m.processing = k.processing /\ m.handling = k.handling /\ m.reply = k.reply
      /\ m.out = left
  BY <1>2, <1>3
<1>5. k.out > 0
  BY <1>1, <1>3
<1> QED
  BY <1>3, <1>4, <1>5

LEMMA WriteIsSound ==
  ASSUME NetSound, NEW f \in Fds, connections[f] # None, HandleWriteReady(f)
  PROVE  NetSound' /\ PoolStep
<1> DEFINE c == connections[f]
           k == conn[c]
<1>1. c \in Conns /\ Sound(k) /\ k \in Connection
  BY DEF NetSound, Sound
<1>2. Sound(Written(k)) /\ Written(k) \in Connection
  BY <1>1, WrittenIsSound DEF Sound
<1> HIDE DEF c, k
<1>3. CASE Drop(f, c, k) /\ UNCHANGED <<tasks, inFlight>>
  BY <1>1, <1>3, DropIsSound DEF PoolStep
<1>4. CASE Drop(f, c, Written(k)) /\ UNCHANGED <<tasks, inFlight>>
  BY <1>1, <1>2, <1>4, DropIsSound DEF PoolStep
<1>5. ASSUME NEW m \in CutShort(k), Rearm(f, c, m, "write"), UNCHANGED <<tasks, inFlight>>
      PROVE  NetSound' /\ PoolStep
  <2>1. /\ m \in Connection /\ m.out \in 0..RespChunks /\ m.out <= k.out /\ k.out > 0
        /\ m.parsed = k.parsed /\ m.buf = k.buf /\ m.sock = k.sock
        /\ m.reply = k.reply /\ m.handling = k.handling
    BY <1>1, CutShortFields
  <2>2. Sound(m)
    BY <1>1, <2>1, StaysSound DEF Sound
  <2> QED
    BY <1>1, <1>5, <2>2, RearmIsSound DEF PoolStep
<1>6. CASE DispatchNext(f, c, [Written(k) EXCEPT !.processing = FALSE,
                                                 !.late = FALSE])
  <2> DEFINE n == Written(k)
             m == [n EXCEPT !.processing = FALSE, !.late = FALSE]
  <2>1. DispatchNext(f, c, m) /\ Sound(n) /\ n \in Connection
    BY <1>2, <1>6
  <2> HIDE DEF n
  <2>2. m \in Connection
    BY <2>1, Update
  <2>3. /\ m.parsed = n.parsed /\ m.buf = n.buf /\ m.sock = n.sock
        /\ m.out = n.out /\ m.reply = n.reply /\ m.handling = n.handling
    BY <2>1 DEF Connection
  <2> HIDE DEF m
  <2>4. Sound(m)
    BY <2>1, <2>2, <2>3, StaysSound DEF Sound
  <2> QED
    BY <1>1, <2>1, <2>4, DispatchIsSound
<1> QED
  BY <1>3, <1>4, <1>5, <1>6 DEF HandleWriteReady, c, k

LEMMA DropAllIsSound ==
  ASSUME NetSound, NEW cs, NEW last, \A c \in Conns : Sound(last[c]),
         DropAll(cs, last)
  PROVE  NetSound'
<1>1. \A c \in Conns : Sound(Closed(last[c])) /\ Closed(last[c]) \in Connection
  BY ClosedIsSound DEF Sound
<1> QED
  BY <1>1 DEF NetSound, DropAll

-----------------------------------------------------------------------------
(* The gauge of handlers in flight.                                        *)

Active == {w \in Workers : worker[w] \notin {Idle, Exited}}

LEMMA ActiveIsFinite ==
  IsFiniteSet(Active) /\ Cardinality(Active) \in Nat
BY Constants, FS_Subset, FS_CardinalityType DEF Active

LEMMA PoolStepCounts ==
  ASSUME tasks \in Seq(Task), GaugeExact, PoolStep, UNCHANGED worker
  PROVE  GaugeExact' /\ inFlight' \in Nat /\ tasks' \in Seq(Task)
<1>1. /\ inFlight = Len(tasks) + Cardinality(Active)
      /\ Cap > 0 => inFlight <= Cap
  BY DEF GaugeExact, Active
<1>2. Len(tasks) \in Nat /\ Cardinality(Active) \in Nat
  BY ActiveIsFinite, LenProperties
<1>3. Active' = Active
  BY DEF Active
<1>4. CASE UNCHANGED <<tasks, inFlight>>
  BY <1>1, <1>2, <1>3, <1>4 DEF GaugeExact, Active
<1>5. ASSUME NEW t \in Task, ~Saturated, tasks' = Append(tasks, t),
             inFlight' = inFlight + 1
      PROVE  GaugeExact' /\ inFlight' \in Nat /\ tasks' \in Seq(Task)
  <2>1. tasks' \in Seq(Task) /\ Len(tasks') = Len(tasks) + 1
    BY <1>5, AppendProperties
  <2>2. inFlight' = Len(tasks') + Cardinality(Active')
    BY <1>1, <1>2, <1>3, <1>5, <2>1
  <2>3. Cap > 0 => inFlight' <= Cap
    BY <1>1, <1>2, <1>5, Constants DEF Saturated
  <2> QED
    BY <1>1, <1>2, <1>3, <2>1, <2>2, <2>3 DEF GaugeExact, Active
<1> QED
  BY <1>4, <1>5 DEF PoolStep

-----------------------------------------------------------------------------
(* Types and the gauge, together: that inFlight stays a natural number is  *)
(* what the gauge says.                                                    *)

ServerInv ==
  /\ TypeOK
  /\ \A c \in Conns : Sound(conn[c])
  /\ GaugeExact

LEMMA InitServerInv == Init => ServerInv
<1> SUFFICES ASSUME Init
             PROVE  ServerInv
  OBVIOUS
<1>1. Sound(NewConnection) /\ NewConnection \in Connection
  BY NewIsSound DEF Sound
<1>2. \A c \in Conns : conn[c] = NewConnection
  BY DEF Init
<1>3. Idle \in WorkerState
  BY DEF WorkerState
<1>4. TypeOK
  <2>1. conn \in [Conns -> Connection] /\ worker \in [Workers -> WorkerState]
    BY <1>1, <1>3 DEF Init
  <2>2. <<>> \in Seq(Task) /\ 0 \in 0..PipeCap
    BY Constants, EmptySeq
  <2> QED
    BY <2>1, <2>2 DEF Init, TypeOK
<1>5. GaugeExact
  <2>1. Active = {}
    BY DEF Init, Active
  <2>2. Cardinality({}) = 0 /\ Len(<<>>) = 0
    BY FS_EmptySet, EmptySeq
  <2>3. inFlight = 0 /\ tasks = <<>>
    BY DEF Init
  <2>4. inFlight = Len(tasks) + Cardinality(Active)
    BY <2>1, <2>2, <2>3
  <2> QED
    BY <2>3, <2>4, Constants DEF GaugeExact, Active
<1> QED
  BY <1>1, <1>2, <1>4, <1>5 DEF ServerInv

\* A step that leaves the workers alone.
LEMMA LoopStep ==
  ASSUME ServerInv, NetSound', PoolStep,
         UNCHANGED <<worker, graceOver, stopRequested, pipeOpen, poolStop, owner>>,
         listening' \in BOOLEAN, listenEdge' \in BOOLEAN, draining' \in BOOLEAN,
         loop' \in {"wait", "batch", "drain", "swap", "complete", "accept",
                    "sweep", "check", "teardown", "done"},
         batch' \subseteq Event,
         ready' \in Seq(Task), completed' \in Seq(Task),
         pipeEdge' \in BOOLEAN, pipe' \in 0..PipeCap
  PROVE  ServerInv'
<1>1. GaugeExact' /\ inFlight' \in Nat /\ tasks' \in Seq(Task)
  BY PoolStepCounts DEF ServerInv, TypeOK
<1>2. TypeOK'
  BY <1>1 DEF ServerInv, NetSound, TypeOK
<1> QED
  BY <1>1, <1>2 DEF ServerInv, NetSound

LEMMA NetOfInv == ServerInv => NetSound
BY DEF ServerInv, TypeOK, NetSound

\* One field of a connection changes, by the environment.
LEMMA OneConnection ==
  ASSUME NetSound, NEW c \in Conns, NEW n, Sound(n), conn' = [conn EXCEPT ![c] = n],
         UNCHANGED <<connections, interest>>
  PROVE  NetSound'
BY DEF NetSound, Sound

LEMMA EnvironmentIsSound == ServerInv /\ Environment => ServerInv'
<1> SUFFICES ASSUME ServerInv, Environment
             PROVE  ServerInv'
  OBVIOUS
<1> USE NetOfInv
<1>1. ASSUME NEW c \in Conns, Sound(conn'[c]),
             conn' = [conn EXCEPT ![c] = conn'[c]],
             EnvUnchanged, listenEdge' \in BOOLEAN
      PROVE  ServerInv'
  <2>1. NetSound'
    BY <1>1, OneConnection DEF EnvUnchanged
  <2> QED
    BY <1>1, <2>1, LoopStep
    DEF EnvUnchanged, drainVars, poolVars, pipeVars, ownerVars, PoolStep,
        ServerInv, TypeOK
<1>2. \A c \in Conns : conn[c] \in Connection /\ Sound(conn[c])
  BY DEF NetSound
<1>3. conn \in [Conns -> Connection] /\ listenEdge \in BOOLEAN
  BY DEF ServerInv, TypeOK
<1>4. ASSUME NEW c \in Conns, Connect(c)
      PROVE  ServerInv'
  <2> DEFINE k == conn[c]
             n == [k EXCEPT !.stage = "queued"]
  <2>1. n \in Connection
    BY <1>2, Update
  <2>2. /\ n.parsed = k.parsed /\ n.buf = k.buf /\ n.sock = k.sock
        /\ n.out = k.out /\ n.reply = k.reply /\ n.handling = k.handling
    BY <1>2 DEF Connection
  <2>3. conn' = [conn EXCEPT ![c] = n]
    BY <1>4 DEF Connect
  <2> HIDE DEF n
  <2>4. Sound(n)
    BY <1>2, <2>1, <2>2, StaysSound DEF Sound
  <2> QED
    BY <1>1, <1>3, <1>4, <2>3, <2>4 DEF Connect
<1>5. ASSUME NEW c \in Conns, Send(c)
      PROVE  ServerInv'
  <2> DEFINE k == conn[c]
             n == [k EXCEPT !.sock = k.sock + 1]
  <2>1. k \in Connection /\ k.sock \in Nat /\ k.buf \in Nat
    BY <1>2 DEF Connection
  <2>2. n \in Connection
    <3>1. k.sock + 1 \in Nat
      BY <2>1
    <3> HIDE DEF k
    <3> QED
      BY <2>1, <3>1, Update
  <2>3. /\ n.parsed = k.parsed /\ n.buf = k.buf /\ n.sock = k.sock + 1
        /\ n.out = k.out /\ n.reply = k.reply /\ n.handling = k.handling
    BY <2>1 DEF Connection
  <2>4. conn' = [conn EXCEPT ![c] = n]
    BY <1>5 DEF Send
  <2>5. k.parsed * ReqChunks + k.buf + k.sock < MaxReq * ReqChunks
    BY <1>5 DEF Send
  <2> HIDE DEF n
  <2>6. WithinBudget(n)
    <3>1. k.parsed * ReqChunks \in Nat /\ MaxReq * ReqChunks \in Nat
      BY <2>1, Product
    <3>2. n.parsed * ReqChunks = k.parsed * ReqChunks
      BY <2>3
    <3> QED
      BY <2>1, <2>3, <2>5, <3>1, <3>2 DEF WithinBudget
  <2>7. Sound(n)
    BY <1>2, <2>2, <2>3, <2>6 DEF Sound
  <2> QED
    BY <1>1, <1>3, <1>5, <2>4, <2>7 DEF Send
<1>6. ASSUME NEW c \in Conns, NEW how \in {"fin", "rst"}, Leave(c, how)
      PROVE  ServerInv'
  <2> DEFINE k == conn[c]
             n == [k EXCEPT !.end = how]
  <2>1. n \in Connection
    BY <1>2, Update
  <2>2. /\ n.parsed = k.parsed /\ n.buf = k.buf /\ n.sock = k.sock
        /\ n.out = k.out /\ n.reply = k.reply /\ n.handling = k.handling
    BY <1>2 DEF Connection
  <2>3. conn' = [conn EXCEPT ![c] = n]
    BY <1>6 DEF Leave
  <2> HIDE DEF n
  <2>4. Sound(n)
    BY <1>2, <2>1, <2>2, StaysSound DEF Sound
  <2> QED
    BY <1>1, <1>3, <1>6, <2>3, <2>4 DEF Leave
<1>7. ASSUME NEW c \in Conns, Resume(c)
      PROVE  ServerInv'
  <2> DEFINE k == conn[c]
             n == [k EXCEPT !.room = TRUE]
  <2>1. n \in Connection
    BY <1>2, Update
  <2>2. /\ n.parsed = k.parsed /\ n.buf = k.buf /\ n.sock = k.sock
        /\ n.out = k.out /\ n.reply = k.reply /\ n.handling = k.handling
    BY <1>2 DEF Connection
  <2>3. conn' = [conn EXCEPT ![c] = n]
    BY <1>7 DEF Resume
  <2> HIDE DEF n
  <2>4. Sound(n)
    BY <1>2, <2>1, <2>2, StaysSound DEF Sound
  <2> QED
    BY <1>1, <1>3, <1>7, <2>3, <2>4 DEF Resume
<1>8. ASSUME NEW c \in Conns, Lapse(c)
      PROVE  ServerInv'
  <2> DEFINE k == conn[c]
             n == [k EXCEPT !.late = TRUE]
  <2>1. n \in Connection
    BY <1>2, Update
  <2>2. /\ n.parsed = k.parsed /\ n.buf = k.buf /\ n.sock = k.sock
        /\ n.out = k.out /\ n.reply = k.reply /\ n.handling = k.handling
    BY <1>2 DEF Connection
  <2>3. conn' = [conn EXCEPT ![c] = n]
    BY <1>8 DEF Lapse
  <2> HIDE DEF n
  <2>4. Sound(n)
    BY <1>2, <2>1, <2>2, StaysSound DEF Sound
  <2> QED
    BY <1>1, <1>3, <1>8, <2>3, <2>4 DEF Lapse
<1>9. CASE GraceExpires
  <2>1. TypeOK'
    BY <1>9 DEF GraceExpires, netVars, listenVars, poolVars, pipeVars, ownerVars,
                ServerInv, TypeOK
  <2> QED
    BY <1>9, <2>1 DEF GraceExpires, netVars, poolVars, ServerInv, GaugeExact
<1> QED
  BY <1>4, <1>5, <1>6, <1>7, <1>8, <1>9 DEF Environment

LEMMA CompleteIsSound == ServerInv /\ Complete => NetSound' /\ ready' \in Seq(Task)
<1> SUFFICES ASSUME ServerInv, Complete
             PROVE  NetSound' /\ ready' \in Seq(Task)
  OBVIOUS
<1> USE NetOfInv
<1>1. ready \in Seq(Task)
  BY DEF ServerInv, TypeOK
<1>2. CASE ready = <<>>
  BY <1>1, <1>2 DEF Complete, netVars, NetSound
<1>3. CASE ready # <<>>
  <2> DEFINE item == Head(ready)
             k == conn[item.conn]
             n == SetResponse(k, item.req)
             m == [n EXCEPT !.handling = FALSE, !.late = FALSE]
  <2>1. ready' = Tail(ready) /\ Tail(ready) \in Seq(Task) /\ item \in Task
    BY <1>1, <1>3, HeadTailProperties DEF Complete
  <2>2. item.fd \in Fds /\ item.conn \in Conns /\ item.req \in 1..MaxReq
    BY <2>1 DEF Task
  <2>3. \/ Rearm(item.fd, item.conn, m, "write")
        \/ UNCHANGED netVars
    BY <1>3 DEF Complete
  <2> HIDE DEF item
  <2>4. k \in Connection /\ Sound(k)
    BY <2>2 DEF NetSound
  <2> HIDE DEF k
  <2>5. n \in Connection
    <3>1. RespChunks \in 0..RespChunks /\ item.req \in 0..MaxReq
      BY <2>2, Constants
    <3> QED
      BY <2>4, <3>1, Update DEF SetResponse
  <2>6. /\ n.parsed = k.parsed /\ n.buf = k.buf /\ n.sock = k.sock
        /\ n.reply = item.req
    BY <2>4 DEF Connection, SetResponse
  <2> HIDE DEF n
  <2>7. m \in Connection
    BY <2>5, Update
  <2>8. /\ m.parsed = n.parsed /\ m.buf = n.buf /\ m.sock = n.sock
        /\ m.reply = n.reply /\ m.handling = FALSE
    BY <2>5 DEF Connection
  <2> HIDE DEF m
  <2>9. Sound(m)
    BY <2>2, <2>4, <2>6, <2>7, <2>8, StaysSound
  <2>10. CASE Rearm(item.fd, item.conn, m, "write")
    BY <2>1, <2>2, <2>9, <2>10, RearmIsSound
  <2>11. CASE UNCHANGED netVars
    BY <2>1, <2>11 DEF netVars, NetSound
  <2> QED
    BY <2>3, <2>10, <2>11
<1> QED
  BY <1>2, <1>3

LEMMA AcceptIsSound ==
  ASSUME NetSound, NEW c \in Conns, NEW f \in Fds, Accept(c, f)
  PROVE  NetSound'
<1> DEFINE k == conn[c]
           n == [k EXCEPT !.stage = "live", !.fd = f]
<1>1. k \in Connection /\ Sound(k)
  BY DEF NetSound
<1>2. CASE /\ conn' = [conn EXCEPT ![c].stage = "live", ![c].fd = f]
           /\ connections' = [connections EXCEPT ![f] = c]
           /\ interest' = [interest EXCEPT ![f] = "read"]
  <2>1. n \in Connection
    BY <1>1, Update
  <2>2. /\ n.parsed = k.parsed /\ n.buf = k.buf /\ n.sock = k.sock
        /\ n.out = k.out /\ n.reply = k.reply /\ n.handling = k.handling
    BY <1>1 DEF Connection
  <2>3. conn' = [conn EXCEPT ![c] = n]
    <3>1. conn \in [Conns -> Connection]
      BY DEF NetSound
    <3> QED
      BY <1>2, <3>1
  <2> HIDE DEF n
  <2>4. Sound(n)
    BY <1>1, <2>1, <2>2, StaysSound DEF Sound
  <2> QED
    BY <1>2, <2>1, <2>3, <2>4 DEF NetSound
<1>3. CASE /\ conn' = [conn EXCEPT ![c] = Closed(conn[c])]
           /\ UNCHANGED <<connections, interest>>
  BY <1>1, <1>3, ClosedIsSound, OneConnection
<1> QED
  BY <1>2, <1>3 DEF Accept

LEMMA StopAcceptingIsSound ==
  ASSUME NetSound, StopAccepting
  PROVE  NetSound'
<1>1. \A c \in Conns : Sound(Closed(conn[c])) /\ Closed(conn[c]) \in Connection
  BY ClosedIsSound DEF NetSound, Sound
<1> QED
  BY <1>1 DEF NetSound, StopAccepting

LEMMA SocketIsSound ==
  ASSUME ServerInv, NEW e \in batch, HandleSocket(e)
  PROVE  ServerInv'
<1> USE NetOfInv
<1>1. e.fd \in Fds
  BY DEF HandleSocket, ServerInv, TypeOK, Event
<1>2. NetSound' /\ PoolStep
  <2>1. CASE connections[e.fd] = None
    BY <2>1 DEF HandleSocket, netVars, NetSound, PoolStep
  <2>2. CASE /\ connections[e.fd] # None
             /\ Drop(e.fd, connections[e.fd], conn[connections[e.fd]])
             /\ UNCHANGED <<tasks, inFlight>>
    BY <1>1, <2>2, DropIsSound DEF NetSound, PoolStep
  <2>3. CASE connections[e.fd] # None /\ HandleClientData(e.fd)
    BY <1>1, <2>3, ReadIsSound
  <2>4. CASE connections[e.fd] # None /\ HandleWriteReady(e.fd)
    BY <1>1, <2>4, WriteIsSound
  <2> QED
    BY <2>1, <2>2, <2>3, <2>4 DEF HandleSocket
<1>3. /\ UNCHANGED <<worker, graceOver, stopRequested, pipeOpen, poolStop, owner,
                     listening, listenEdge, draining, loop, ready, completed,
                     pipe, pipeEdge>>
      /\ batch' \subseteq batch
  BY DEF HandleSocket, LoopUnchanged, ownerVars, listenVars, pipeVars
<1> QED
  BY <1>2, <1>3, LoopStep DEF ServerInv, TypeOK

LEMMA EventLoopIsSound == ServerInv /\ EventLoop => ServerInv'
<1> SUFFICES ASSUME ServerInv, EventLoop
             PROVE  ServerInv'
  OBVIOUS
<1> USE NetOfInv
<1>a. ASSUME UNCHANGED <<netVars, tasks, inFlight>>
      PROVE  NetSound' /\ PoolStep
  BY <1>a DEF netVars, NetSound, PoolStep
<1>b. TypeOK
  BY DEF ServerInv
<1> USE DEF LoopUnchanged, drainVars, ownerVars, poolVars, pipeVars, listenVars
<1>1. CASE EpollWait
  <2>1. NetSound' /\ PoolStep
    BY <1>1 DEF EpollWait, NetSound, PoolStep
  <2>2. SocketEvents \subseteq Event /\ {WakeEvent, ListenEvent} \subseteq Event
    BY DEF SocketEvents, Event
  <2>3. batch' \subseteq Event
    <3>1. batch' \subseteq SocketEvents \cup {WakeEvent, ListenEvent}
      BY <1>1 DEF EpollWait
    <3> QED
      BY <2>2, <3>1
  <2> QED
    BY <1>1, <1>b, <2>1, <2>3, LoopStep DEF EpollWait, TypeOK
<1>2. ASSUME NEW e \in batch, HandleSocket(e)
      PROVE  ServerInv'
  BY <1>2, SocketIsSound
<1>3. CASE HandleWake
  BY <1>3, <1>a, <1>b, LoopStep DEF HandleWake, TypeOK
<1>4. CASE DrainWakeup
  <2>1. pipe' \in 0..PipeCap
    BY <1>4, <1>b, Constants DEF DrainWakeup, TypeOK
  <2> QED
    BY <1>4, <1>a, <1>b, <2>1, LoopStep DEF DrainWakeup, TypeOK
<1>5. CASE SwapCompletions
  BY <1>5, <1>a, <1>b, EmptySeq, LoopStep DEF SwapCompletions, TypeOK
<1>6. CASE Complete
  <2>1. PoolStep
    BY <1>6 DEF Complete, PoolStep
  <2>2. loop' \in {"complete", "batch"}
    BY <1>6 DEF Complete
  <2>3. UNCHANGED <<worker, graceOver, stopRequested, pipeOpen, poolStop, owner,
                    listening, listenEdge, draining, batch, completed, pipe,
                    pipeEdge>>
    BY <1>6 DEF Complete
  <2> QED
    BY <1>6, <1>b, <2>1, <2>2, <2>3, CompleteIsSound, LoopStep DEF TypeOK
<1>7. CASE HandleListen
  BY <1>7, <1>a, <1>b, LoopStep DEF HandleListen, TypeOK
<1>8. ASSUME NEW c \in Conns, NEW f \in Fds, Accept(c, f)
      PROVE  ServerInv'
  <2>1. NetSound' /\ PoolStep
    BY <1>8, AcceptIsSound DEF Accept, PoolStep
  <2> QED
    BY <1>8, <1>b, <2>1, LoopStep DEF Accept, TypeOK
<1>9. CASE AcceptFails
  BY <1>9, <1>a, <1>b, LoopStep DEF AcceptFails, TypeOK
<1>10. CASE ObserveStop
  <2>1. NetSound' /\ PoolStep
    BY <1>10, StopAcceptingIsSound DEF ObserveStop, NetSound, netVars, PoolStep
  <2>2. listening' \in BOOLEAN /\ listenEdge' \in BOOLEAN /\ draining' \in BOOLEAN
    BY <1>10, <1>b DEF ObserveStop, StopAccepting, TypeOK
  <2> QED
    BY <1>10, <1>b, <2>1, <2>2, LoopStep DEF ObserveStop, TypeOK
<1>11. CASE SkipSweep
  BY <1>11, <1>a, <1>b, LoopStep DEF SkipSweep, TypeOK
<1>12. CASE Sweep
  <2>1. NetSound' /\ PoolStep
    <3> DEFINE last == [c \in Conns |-> TimedOut(conn[c])]
    <3>1. \A c \in Conns : Sound(last[c])
      BY TimedOutIsSound DEF NetSound
    <3>2. DropAll(Expired, last)
      BY <1>12 DEF Sweep
    <3> HIDE DEF last
    <3>3. NetSound'
      BY <3>1, <3>2, DropAllIsSound
    <3> QED
      BY <1>12, <3>3 DEF Sweep, PoolStep
  <2> QED
    BY <1>12, <1>b, <2>1, LoopStep DEF Sweep, TypeOK
<1>13. CASE EndIteration
  BY <1>13, <1>a, <1>b, LoopStep DEF EndIteration, TypeOK
<1>14. CASE Teardown
  <2>1. NetSound' /\ PoolStep
    BY <1>14, DropAllIsSound DEF Teardown, NetSound, PoolStep
  <2> QED
    BY <1>14, <1>b, <2>1, LoopStep DEF Teardown, TypeOK
<1> QED
  BY <1>1, <1>2, <1>3, <1>4, <1>5, <1>6, <1>7, <1>8, <1>9, <1>10, <1>11, <1>12,
     <1>13, <1>14
  DEF EventLoop

\* A worker with a task: its state, and what it becomes when it moves on.
LEMMA WithTask ==
  ASSUME NEW s \in WorkerState,
         s.pc \in {"handler", "push", "notify", "release", "hung"}
  PROVE  /\ s.task \in Task
         /\ s \notin {Idle, Exited}
         /\ \A p \in {"handler", "push", "notify", "release", "hung"} :
              /\ [s EXCEPT !.pc = p] \in WorkerState
              /\ [s EXCEPT !.pc = p] \notin {Idle, Exited}
              /\ [s EXCEPT !.pc = p].pc = p
<1>1. Idle.pc = "idle" /\ Exited.pc = "exited"
  BY DEF Idle, Exited
<1>2. s \notin {Idle, Exited}
  BY <1>1
<1>3. s \in [pc : {"handler", "push", "notify", "release", "hung"}, task : Task]
  BY <1>2 DEF WorkerState
<1>4. ASSUME NEW p \in {"handler", "push", "notify", "release", "hung"}
      PROVE  /\ [s EXCEPT !.pc = p] \in WorkerState
             /\ [s EXCEPT !.pc = p] \notin {Idle, Exited}
             /\ [s EXCEPT !.pc = p].pc = p
  <2>1. [s EXCEPT !.pc = p]
          \in [pc : {"handler", "push", "notify", "release", "hung"}, task : Task]
    BY <1>3
  <2>2. [s EXCEPT !.pc = p].pc = p
    BY <1>3
  <2> QED
    BY <1>1, <2>1, <2>2 DEF WorkerState
<1> QED
  BY <1>2, <1>3, <1>4

\* A worker moves on with its task.
LEMMA MoveOn ==
  ASSUME ServerInv, NEW w \in Workers,
         worker[w].pc \in {"handler", "push", "notify", "release", "hung"},
         NEW p \in {"handler", "push", "notify", "release", "hung"},
         worker' = [worker EXCEPT ![w].pc = p],
         UNCHANGED <<tasks, inFlight>>
  PROVE  worker' \in [Workers -> WorkerState] /\ GaugeExact'
<1>1. worker \in [Workers -> WorkerState]
  BY DEF ServerInv, TypeOK
<1>2. worker' = [worker EXCEPT ![w] = [worker[w] EXCEPT !.pc = p]]
  BY <1>1
<1>3. /\ worker[w] \notin {Idle, Exited}
      /\ [worker[w] EXCEPT !.pc = p] \in WorkerState
      /\ [worker[w] EXCEPT !.pc = p] \notin {Idle, Exited}
  BY <1>1, WithTask
<1>4. Active' = Active
  BY <1>1, <1>2, <1>3 DEF Active
<1>5. inFlight = Len(tasks) + Cardinality(Active) /\ (Cap > 0 => inFlight <= Cap)
  BY DEF ServerInv, GaugeExact, Active
<1>6. GaugeExact'
  BY <1>4, <1>5 DEF GaugeExact, Active
<1> QED
  BY <1>1, <1>2, <1>3, <1>6

\* A step of a worker.
LEMMA WorkerStepIsSound ==
  ASSUME ServerInv, WorkerUnchanged, GaugeExact',
         worker' \in [Workers -> WorkerState], tasks' \in Seq(Task),
         completed' \in Seq(Task), inFlight' \in Nat,
         pipe' \in 0..PipeCap, pipeEdge' \in BOOLEAN
  PROVE  ServerInv'
<1>1. TypeOK'
  BY DEF ServerInv, TypeOK, WorkerUnchanged, netVars, listenVars, drainVars,
         ownerVars
<1> QED
  BY <1>1 DEF ServerInv, WorkerUnchanged, netVars

LEMMA NotifyIsSound ==
  ASSUME TypeOK, NotifyEventLoop
  PROVE  pipe' \in 0..PipeCap /\ pipeEdge' \in BOOLEAN
<1>1. CASE pipe < PipeCap
  <2>1. pipe' \in 0..PipeCap
    BY <1>1, Constants DEF NotifyEventLoop, TypeOK
  <2>2. pipeEdge' \in {TRUE, pipeEdge}
    BY <1>1 DEF NotifyEventLoop
  <2>3. pipeEdge' \in BOOLEAN
    BY <2>2 DEF TypeOK
  <2> QED
    BY <2>1, <2>3
<1>2. CASE ~(pipe < PipeCap)
  BY <1>2 DEF NotifyEventLoop, pipeVars, TypeOK
<1> QED
  BY <1>1, <1>2

LEMMA TakeTaskIsSound ==
  ASSUME ServerInv, NEW w \in Workers, TakeTask(w)
  PROVE  ServerInv'
<1> DEFINE s == [pc |-> "handler", task |-> Head(tasks)]
<1>1. /\ worker \in [Workers -> WorkerState] /\ tasks \in Seq(Task)
      /\ tasks # <<>> /\ worker[w] = Idle
      /\ worker' = [worker EXCEPT ![w] = s]
      /\ tasks' = Tail(tasks) /\ UNCHANGED <<completed, inFlight, pipe, pipeEdge>>
  BY DEF TakeTask, pipeVars, ServerInv, TypeOK
<1>2. /\ Head(tasks) \in Task /\ Tail(tasks) \in Seq(Task)
      /\ Len(Tail(tasks)) = Len(tasks) - 1 /\ Len(tasks) \in Nat
  BY <1>1, HeadTailProperties, LenProperties
<1>3. s \in WorkerState /\ s \notin {Idle, Exited}
  <2>1. s.pc = "handler" /\ Idle.pc = "idle" /\ Exited.pc = "exited"
    BY DEF Idle, Exited
  <2>2. s \in WorkerState
    BY <1>2 DEF WorkerState
  <2> HIDE DEF s
  <2> QED
    BY <2>1, <2>2
<1> HIDE DEF s
<1>4. Active' = Active \cup {w} /\ w \notin Active
  BY <1>1, <1>3 DEF Active
<1>5. Cardinality(Active') = Cardinality(Active) + 1
  BY <1>4, ActiveIsFinite, FS_AddElement
<1>6. /\ inFlight = Len(tasks) + Cardinality(Active) /\ (Cap > 0 => inFlight <= Cap)
      /\ inFlight \in Nat
  BY DEF ServerInv, TypeOK, GaugeExact, Active
<1>7. inFlight' = Len(tasks') + Cardinality(Active')
  BY <1>1, <1>2, <1>5, <1>6, ActiveIsFinite
<1>8. GaugeExact'
  BY <1>1, <1>6, <1>7 DEF GaugeExact, Active
<1>9. worker' \in [Workers -> WorkerState]
  BY <1>1, <1>3
<1> QED
  BY <1>1, <1>2, <1>6, <1>8, <1>9, WorkerStepIsSound
  DEF TakeTask, ServerInv, TypeOK

LEMMA ReleaseIsSound ==
  ASSUME ServerInv, NEW w \in Workers, Release(w)
  PROVE  ServerInv'
<1>1. /\ worker \in [Workers -> WorkerState]
      /\ worker[w].pc = "release"
      /\ worker' = [worker EXCEPT ![w] = Idle]
      /\ inFlight' = inFlight - 1 /\ UNCHANGED <<tasks, completed, pipe, pipeEdge>>
  BY DEF Release, pipeVars, ServerInv, TypeOK
<1>2. worker[w] \notin {Idle, Exited}
  BY <1>1, WithTask
<1>3. Active' = Active \ {w} /\ w \in Active
  BY <1>1, <1>2 DEF Active
<1>4. Cardinality(Active') = Cardinality(Active) - 1 /\ Cardinality(Active') \in Nat
  BY <1>3, ActiveIsFinite, FS_RemoveElement, FS_CardinalityType
<1>5. /\ inFlight = Len(tasks) + Cardinality(Active) /\ (Cap > 0 => inFlight <= Cap)
      /\ Len(tasks) \in Nat
  BY LenProperties DEF ServerInv, TypeOK, GaugeExact, Active
<1>6. /\ inFlight' = Len(tasks') + Cardinality(Active') /\ inFlight' \in Nat
      /\ Cap > 0 => inFlight' <= Cap
  BY <1>1, <1>4, <1>5, ActiveIsFinite, Constants
<1>7. GaugeExact'
  BY <1>6 DEF GaugeExact, Active
<1>8. worker' \in [Workers -> WorkerState]
  BY <1>1 DEF WorkerState
<1> QED
  BY <1>1, <1>6, <1>7, <1>8, WorkerStepIsSound DEF Release, ServerInv, TypeOK

LEMMA WorkersAreSound == \A w \in Workers : ServerInv /\ Worker(w) => ServerInv'
<1> SUFFICES ASSUME NEW w \in Workers, ServerInv, Worker(w)
             PROVE  ServerInv'
  OBVIOUS
<1>0. TypeOK /\ worker \in [Workers -> WorkerState]
  BY DEF ServerInv, TypeOK
<1>1. CASE RunHandler(w)
  <2>1. PICK p \in {"push", "release", "hung"} :
          worker' = [worker EXCEPT ![w].pc = p]
    BY <1>1 DEF RunHandler
  <2>2. worker' \in [Workers -> WorkerState] /\ GaugeExact'
    BY <1>1, <2>1, MoveOn DEF RunHandler
  <2> QED
    BY <1>0, <1>1, <2>2, WorkerStepIsSound DEF RunHandler, pipeVars, TypeOK
<1>2. CASE PushCompletion(w)
  <2>1. worker' \in [Workers -> WorkerState] /\ GaugeExact'
    BY <1>2, MoveOn DEF PushCompletion
  <2>2. completed' \in Seq(Task)
    BY <1>0, <1>2, WithTask, AppendProperties DEF PushCompletion, TypeOK
  <2> QED
    BY <1>0, <1>2, <2>1, <2>2, WorkerStepIsSound
    DEF PushCompletion, pipeVars, TypeOK
<1>3. CASE Notify(w)
  <2>1. worker' \in [Workers -> WorkerState] /\ GaugeExact'
    BY <1>3, MoveOn DEF Notify
  <2>2. pipe' \in 0..PipeCap /\ pipeEdge' \in BOOLEAN
    BY <1>0, <1>3, NotifyIsSound DEF Notify
  <2> QED
    BY <1>0, <1>3, <2>1, <2>2, WorkerStepIsSound DEF Notify, TypeOK
<1>4. CASE ExitWorker(w)
  <2>1. Active' = Active
    BY <1>0, <1>4 DEF ExitWorker, Active
  <2>2. inFlight = Len(tasks) + Cardinality(Active) /\ (Cap > 0 => inFlight <= Cap)
    BY DEF ServerInv, GaugeExact, Active
  <2>3. GaugeExact'
    BY <1>4, <2>1, <2>2 DEF ExitWorker, GaugeExact, Active
  <2>4. worker' \in [Workers -> WorkerState]
    BY <1>0, <1>4 DEF ExitWorker, WorkerState
  <2> QED
    BY <1>0, <1>4, <2>3, <2>4, WorkerStepIsSound DEF ExitWorker, pipeVars, TypeOK
<1> QED
  BY <1>1, <1>2, <1>3, <1>4, TakeTaskIsSound, ReleaseIsSound DEF Worker

LEMMA OwnerIsSound == ServerInv /\ (Owner \/ Terminated \/ UNCHANGED vars) => ServerInv'
<1> SUFFICES ASSUME ServerInv, Owner \/ Terminated \/ UNCHANGED vars
             PROVE  ServerInv'
  OBVIOUS
<1> USE DEF ServerInv, OwnerUnchanged, netVars, listenVars, poolVars, pipeVars
<1>1. CASE RequestStop \/ ShutdownPool \/ ClosePipe
  <2>1. TypeOK'
    <3>1. TypeOK
      OBVIOUS
    <3>2. CASE RequestStop
      BY <3>1, <3>2 DEF RequestStop, TypeOK
    <3>3. CASE ShutdownPool
      BY <3>1, <3>3 DEF ShutdownPool, TypeOK
    <3>4. CASE ClosePipe
      BY <3>1, <3>4 DEF ClosePipe, TypeOK
    <3> QED
      BY <1>1, <3>2, <3>3, <3>4
  <2>2. UNCHANGED <<conn, tasks, worker, inFlight>>
    BY <1>1 DEF RequestStop, ShutdownPool, ClosePipe
  <2> QED
    BY <2>1, <2>2 DEF GaugeExact
<1>2. CASE NotifyStop
  <2>1. pipe' \in 0..PipeCap /\ pipeEdge' \in BOOLEAN
    BY <1>2, NotifyIsSound DEF NotifyStop
  <2>2. TypeOK'
    BY <1>2, <2>1 DEF NotifyStop, TypeOK
  <2> QED
    BY <1>2, <2>2 DEF NotifyStop, GaugeExact
<1>3. CASE Terminated \/ UNCHANGED vars
  <2>1. UNCHANGED vars
    BY <1>3 DEF Terminated
  <2>2. TypeOK'
    BY <2>1 DEF vars, drainVars, ownerVars, TypeOK
  <2> QED
    BY <2>1, <2>2 DEF vars, GaugeExact
<1> QED
  BY <1>1, <1>2, <1>3 DEF Owner

LEMMA NextServerInv == ServerInv /\ [Next]_vars => ServerInv'
BY EnvironmentIsSound, EventLoopIsSound, WorkersAreSound, OwnerIsSound DEF Next

LEMMA ServerInvariance == Spec => []ServerInv
BY InitServerInv, NextServerInv, PTL DEF Spec

\* Every variable keeps its type.  In particular no request number leaves its
\* range, nothing is written for request 0, and the gauge is never negative.
THEOREM TypeCorrect == Spec => []TypeOK
BY ServerInvariance, PTL DEF ServerInv

\* workers_in_flight is at all times the number of tasks queued and running, and
\* with a cap it never exceeds max_concurrent_handlers.
THEOREM GaugeIsExact == Spec => []GaugeExact
BY ServerInvariance, PTL DEF ServerInv

-----------------------------------------------------------------------------
(* The self-pipe and the completion queue.                                 *)

\* A byte in the pipe is known to epoll or to the loop, so that a write that
\* finds the pipe full or not empty may rely on it; between two batches the
\* loop has no event in hand.
WakeInv ==
  /\ NoLostWakeup
  /\ pipe > 0 => pipeEdge \/ WakeEvent \in batch \/ loop = "drain"
  /\ loop \in {"wait", "sweep", "check", "teardown", "done"} => batch = {}

LEMMA InitWakeInv == Init => WakeInv
BY DEF Init, WakeInv, NoLostWakeup

\* After notify_event_loop a wakeup is on its way, whatever was in the pipe.
LEMMA NotifiedLoop ==
  ASSUME TypeOK, WakeInv, NotifyEventLoop
  PROVE  /\ pipeEdge' \/ WakeEvent \in batch \/ loop = "drain"
         /\ pipeEdge => pipeEdge'
<1>1. CASE pipe < PipeCap
  <2>1. CASE pipe = 0
    BY <1>1, <2>1 DEF NotifyEventLoop
  <2>2. CASE pipe # 0
    <3>1. pipe > 0
      BY <2>2, Constants DEF TypeOK
    <3>2. pipeEdge' = TRUE \/ pipeEdge' = pipeEdge
      BY <1>1, <2>2 DEF NotifyEventLoop
    <3> QED
      BY <3>1, <3>2 DEF WakeInv
  <2> QED
    BY <2>1, <2>2
<1>2. CASE ~(pipe < PipeCap)
  <2>1. pipe > 0
    BY <1>2, Constants DEF TypeOK
  <2> QED
    BY <1>2, <2>1 DEF NotifyEventLoop, pipeVars, WakeInv
<1> QED
  BY <1>1, <1>2

\* What concerns the loop's side of the pipe is left alone.
LEMMA WakeElsewhere ==
  ASSUME TypeOK, WakeInv,
         UNCHANGED <<batch, loop, pipe, pipeEdge, completed>>,
         \A w \in Workers : worker[w].pc = "notify" => worker'[w].pc = "notify"
  PROVE  WakeInv'
BY DEF WakeInv, NoLostWakeup

LEMMA WakeLoop ==
  ASSUME TypeOK, WakeInv, EventLoop
  PROVE  WakeInv'
<1> USE DEF WakeInv, NoLostWakeup, LoopUnchanged, poolVars, pipeVars
<1>0. pipe \in Nat /\ WakeEvent # ListenEvent
  BY Constants DEF TypeOK, WakeEvent, ListenEvent
<1>1. CASE EpollWait
  BY <1>1 DEF EpollWait
<1>2. ASSUME NEW e \in batch, HandleSocket(e)
      PROVE  WakeInv'
  <2>1. e # WakeEvent /\ batch' = batch \ {e} /\ loop = "batch"
    BY <1>2 DEF HandleSocket
  <2>2. UNCHANGED <<loop, worker, completed, pipe, pipeEdge>>
    BY <1>2 DEF HandleSocket
  <2> QED
    BY <2>1, <2>2
<1>3. CASE HandleWake
  BY <1>3 DEF HandleWake
<1>4. CASE DrainWakeup
  BY <1>0, <1>4 DEF DrainWakeup
<1>5. CASE SwapCompletions
  BY <1>5 DEF SwapCompletions
<1>6. CASE Complete
  <2>1. /\ loop = "complete" /\ loop' \in {"complete", "batch"}
        /\ UNCHANGED <<batch, worker, completed, pipe, pipeEdge>>
    BY <1>6 DEF Complete
  <2> QED
    BY <2>1
<1>7. CASE HandleListen
  BY <1>0, <1>7 DEF HandleListen
<1>8. ASSUME NEW c \in Conns, NEW f \in Fds, Accept(c, f)
      PROVE  WakeInv'
  BY <1>8 DEF Accept
<1>9. CASE AcceptFails
  BY <1>9 DEF AcceptFails
<1>10. CASE ObserveStop
  BY <1>10 DEF ObserveStop
<1>11. CASE SkipSweep \/ Sweep \/ EndIteration \/ Teardown
  BY <1>11 DEF SkipSweep, Sweep, EndIteration, Teardown
<1> QED
  BY <1>1, <1>2, <1>3, <1>4, <1>5, <1>6, <1>7, <1>8, <1>9, <1>10, <1>11
  DEF EventLoop

LEMMA WakeWorker ==
  ASSUME TypeOK, WakeInv, NEW w \in Workers, Worker(w)
  PROVE  WakeInv'
<1>0. /\ worker \in [Workers -> WorkerState]
      /\ Idle.pc = "idle" /\ Exited.pc = "exited"
  BY DEF TypeOK, Idle, Exited
<1> USE DEF WorkerUnchanged, pipeVars
<1>1. CASE TakeTask(w) \/ RunHandler(w) \/ Release(w) \/ ExitWorker(w)
  <2>1. worker[w].pc # "notify" /\ \A v \in Workers \ {w} : worker'[v] = worker[v]
    BY <1>0, <1>1 DEF TakeTask, RunHandler, Release, ExitWorker
  <2>2. UNCHANGED <<batch, loop, pipe, pipeEdge, completed>>
    BY <1>1 DEF TakeTask, RunHandler, Release, ExitWorker
  <2> QED
    BY <2>1, <2>2, WakeElsewhere
<1>2. CASE PushCompletion(w)
  <2>1. worker'[w].pc = "notify"
    <3>1. worker'[w] = [worker[w] EXCEPT !.pc = "notify"]
      BY <1>0, <1>2 DEF PushCompletion
    <3> QED
      BY <1>0, <1>2, <3>1, WithTask DEF PushCompletion
  <2> QED
    BY <1>2, <2>1 DEF PushCompletion, WakeInv, NoLostWakeup
<1>3. CASE Notify(w)
  <2>1. pipeEdge' \/ WakeEvent \in batch \/ loop = "drain"
    BY <1>3, NotifiedLoop DEF Notify
  <2> QED
    BY <1>3, <2>1 DEF Notify, WakeInv, NoLostWakeup
<1> QED
  BY <1>1, <1>2, <1>3 DEF Worker

LEMMA NextWakeInv == TypeOK /\ WakeInv /\ [Next]_vars => WakeInv'
<1> SUFFICES ASSUME TypeOK, WakeInv, [Next]_vars
             PROVE  WakeInv'
  OBVIOUS
<1>1. CASE Environment
  <2>1. UNCHANGED <<batch, loop, pipe, pipeEdge, completed, worker>>
    BY <1>1 DEF Environment, Connect, Send, Resume, Lapse, Leave, GraceExpires,
                EnvUnchanged, poolVars, pipeVars
  <2> QED
    BY <2>1, WakeElsewhere
<1>2. CASE NotifyStop
  <2>1. pipeEdge' \/ WakeEvent \in batch \/ loop = "drain"
    BY <1>2, NotifiedLoop DEF NotifyStop
  <2>2. pipeEdge => pipeEdge'
    BY <1>2, NotifiedLoop DEF NotifyStop
  <2> QED
    BY <1>2, <2>1, <2>2
    DEF NotifyStop, OwnerUnchanged, poolVars, WakeInv, NoLostWakeup
<1>3. CASE RequestStop \/ ShutdownPool \/ ClosePipe \/ Terminated \/ UNCHANGED vars
  <2>1. UNCHANGED <<batch, loop, pipe, pipeEdge, completed, worker>>
    BY <1>3 DEF RequestStop, ShutdownPool, ClosePipe, Terminated, OwnerUnchanged,
                vars, poolVars, pipeVars
  <2> QED
    BY <2>1, WakeElsewhere
<1> QED
  BY <1>1, <1>2, <1>3, WakeLoop, WakeWorker DEF Next, Owner

\* No completed response is ever left in completed_ with the loop asleep: a full
\* pipe, a partial drain and the gap between drain_wakeup and the swap included.
THEOREM NoCompletionIsLost == Spec => []NoLostWakeup
<1>1. WakeInv => NoLostWakeup
  BY DEF WakeInv
<1> QED
  BY <1>1, TypeCorrect, InitWakeInv, NextWakeInv, PTL DEF Spec

-----------------------------------------------------------------------------
(* The end of the pool and of the pipe.                                    *)

\* stop() runs after run() has returned; a worker exits only when nothing is
\* queued, and from then on nothing will be; the pipe goes last.
StopInv ==
  /\ poolStop <=> owner \in {"joining", "stopped"}
  /\ poolStop => loop = "done"
  /\ \A w \in Workers : worker[w] = Exited => poolStop /\ tasks = <<>>
  /\ ~pipeOpen => owner = "stopped"
  /\ owner = "stopped" => \A w \in Workers : worker[w] = Exited

LEMMA InitStopInv == Init => StopInv
<1>1. Idle # Exited
  <2>1. Idle.pc = "idle" /\ Exited.pc = "exited"
    BY DEF Idle, Exited
  <2> QED
    BY <2>1
<1> QED
  BY <1>1 DEF Init, StopInv

LEMMA NextStopInv == TypeOK /\ StopInv /\ [Next]_vars => StopInv'
<1> SUFFICES ASSUME TypeOK, StopInv, [Next]_vars
             PROVE  StopInv'
  OBVIOUS
<1>0. /\ worker \in [Workers -> WorkerState]
      /\ Idle.pc = "idle" /\ Exited.pc = "exited"
  BY DEF TypeOK, Idle, Exited
<1>a. ASSUME UNCHANGED <<owner, poolStop, pipeOpen, loop, tasks, worker>>
      PROVE  StopInv'
  BY <1>a DEF StopInv
<1>1. CASE Environment
  BY <1>1, <1>a
  DEF Environment, Connect, Send, Resume, Lapse, Leave, GraceExpires, EnvUnchanged,
      poolVars, ownerVars
<1>2. CASE EventLoop
  <2>1. loop # "done"
    BY <1>2
    DEF EventLoop, EpollWait, HandleSocket, HandleWake, DrainWakeup, SwapCompletions,
        Complete, HandleListen, Accept, AcceptFails, ObserveStop, SkipSweep, Sweep,
        EndIteration, Teardown
  <2>2. ~poolStop /\ \A w \in Workers : worker[w] # Exited
    BY <2>1 DEF StopInv
  <2>3. UNCHANGED <<owner, poolStop, pipeOpen, worker>>
    BY <1>2
    DEF EventLoop, EpollWait, HandleSocket, HandleWake, DrainWakeup, SwapCompletions,
        Complete, HandleListen, Accept, AcceptFails, ObserveStop, SkipSweep, Sweep,
        EndIteration, Teardown, LoopUnchanged, poolVars, ownerVars
  <2> QED
    BY <2>2, <2>3 DEF StopInv
<1>3. ASSUME NEW w \in Workers, Worker(w)
      PROVE  StopInv'
  <2> USE DEF WorkerUnchanged, ownerVars
  <2>1. CASE ExitWorker(w)
    BY <1>0, <2>1 DEF ExitWorker, StopInv
  <2>2. CASE TakeTask(w)
    <3>1. worker'[w].pc = "handler" /\ \A v \in Workers \ {w} : worker'[v] = worker[v]
      BY <1>0, <2>2 DEF TakeTask
    <3>2. \A v \in Workers : worker'[v] # Exited
      BY <1>0, <2>2, <3>1 DEF TakeTask, StopInv
    <3>3. owner # "stopped"
      BY <1>0, <2>2 DEF TakeTask, StopInv
    <3> QED
      BY <2>2, <3>2, <3>3 DEF TakeTask, StopInv
  <2>3. CASE RunHandler(w) \/ PushCompletion(w) \/ Notify(w) \/ Release(w)
    <3>1. worker[w].pc \in {"handler", "push", "notify", "release"}
      BY <2>3 DEF RunHandler, PushCompletion, Notify, Release
    <3>2. worker'[w] # Exited
      <4>1. CASE Release(w)
        BY <1>0, <4>1 DEF Release
      <4>2. CASE ~Release(w)
        <5>1. PICK p \in {"push", "release", "hung", "notify"} :
                worker' = [worker EXCEPT ![w] = [worker[w] EXCEPT !.pc = p]]
          BY <1>0, <2>3, <4>2 DEF RunHandler, PushCompletion, Notify
        <5> QED
          BY <1>0, <3>1, <5>1, WithTask
      <4> QED
        BY <4>1, <4>2
    <3>3. /\ \A v \in Workers \ {w} : worker'[v] = worker[v]
          /\ UNCHANGED <<owner, poolStop, pipeOpen, loop, tasks>>
      BY <1>0, <2>3 DEF RunHandler, PushCompletion, Notify, Release
    <3>4. owner # "stopped"
      BY <1>0, <3>1 DEF StopInv
    <3> QED
      BY <3>2, <3>3, <3>4 DEF StopInv
  <2> QED
    BY <1>3, <2>1, <2>2, <2>3 DEF Worker
<1>4. CASE RequestStop \/ NotifyStop
  BY <1>4 DEF RequestStop, NotifyStop, OwnerUnchanged, poolVars, StopInv
<1>5. CASE ShutdownPool \/ ClosePipe
  BY <1>5 DEF ShutdownPool, ClosePipe, OwnerUnchanged, poolVars, StopInv
<1>6. CASE Terminated \/ UNCHANGED vars
  BY <1>6, <1>a DEF Terminated, vars, poolVars, ownerVars
<1> QED
  BY <1>1, <1>2, <1>3, <1>4, <1>5, <1>6 DEF Next, Owner

LEMMA NothingAfterThePipe == StopInv /\ GaugeExact => PipeOutlivesWorkers
<1> SUFFICES ASSUME StopInv, GaugeExact, ~pipeOpen
             PROVE  tasks = <<>> /\ inFlight = 0 /\ loop = "done"
  BY DEF PipeOutlivesWorkers
<1>1. \A w \in Workers : worker[w] = Exited
  BY DEF StopInv
<1>2. tasks = <<>> /\ loop = "done"
  BY <1>1, Constants DEF StopInv
<1>3. Active = {}
  BY <1>1 DEF Active
<1>4. Cardinality(Active) = 0 /\ Len(tasks) = 0
  BY <1>2, <1>3, FS_EmptySet, EmptySeq
<1>5. inFlight = Len(tasks) + Cardinality(Active)
  BY DEF GaugeExact, Active
<1> QED
  BY <1>2, <1>4, <1>5

\* stop() closes the self-pipe only when no thread can write to it any more and
\* every request ever dispatched has left the pool.
THEOREM PipeClosesLast == Spec => []PipeOutlivesWorkers
BY TypeCorrect, GaugeIsExact, InitStopInv, NextStopInv, NothingAfterThePipe, PTL
DEF Spec
=============================================================================
