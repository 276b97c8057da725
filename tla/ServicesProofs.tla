--------------------------- MODULE ServicesProofs ---------------------------
(***************************************************************************)
(* Proofs about parts that MCServices checks side by side: the views of a  *)
(* request, for any number of requests, copies and blocks; the handlers    *)
(* that use a database, for any clients, connections and names; and what a *)
(* worker makes of one request.  In the end, the types of all nine parts.  *)
(***************************************************************************)
EXTENDS ClockProofs, DataProofs

-----------------------------------------------------------------------------
(* RequestViews: whose bytes a request shows.                              *)

RequestObjects ==
  [request : Nat, views : {InBlock(b) : b \in BlockIds},
   params : {Nowhere} \cup {InBlock(b) : b \in BlockIds}, storage : BlockIds, copied : BOOLEAN]

\* A request shows its own block, which holds its bytes.
ShowsItself(r) ==
  /\ r \in RequestObjects
  /\ r.storage \in DOMAIN blocks /\ blocks[r.storage] = r.request
  /\ r.views = InBlock(r.storage)
  /\ r.copied \/ r.params = Nowhere \/ r.params = InBlock(r.storage)

ViewsInv ==
  /\ bytes \in Seq(Nat) /\ ViewsTypeOK
  /\ \A o \in DOMAIN object : ShowsItself(object[o])
  /\ \A b \in DOMAIN blocks : \E o \in DOMAIN object : object[o].storage = b
  /\ \A o, p \in DOMAIN object : object[o].storage = object[p].storage => o = p

\* What is left of the live blocks and requests.
LEMMA WithoutEntries ==
  ASSUME NEW f, NEW S
  PROVE  /\ DOMAIN Without(f, S) = DOMAIN f \ S
         /\ \A z \in DOMAIN f \ S : Without(f, S)[z] = f[z]
BY DEF Without

LEMMA BytesOfBlock ==
  ASSUME NEW b \in DOMAIN blocks
  PROVE  BytesAt(InBlock(b)) = blocks[b]
BY DEF BytesAt, InBlock

LEMMA InitViewsInv == ViewsInit => ViewsInv
<1> SUFFICES ASSUME ViewsInit
             PROVE  ViewsInv
  OBVIOUS
<1>1. bytes \in Seq(Nat) /\ Len(bytes) = 0
  BY EmptySeq DEF ViewsInit
<1>2. DOMAIN blocks = {} /\ DOMAIN object = {}
  BY DEF ViewsInit
<1>3. ViewsTypeOK
  BY <1>1, <1>2, ViewsAssumption DEF ViewsInit, ViewsTypeOK
<1> QED
  BY <1>1, <1>2, <1>3 DEF ViewsInv

LEMMA ArriveKeeps ==
  ASSUME ViewsInv, Arrive
  PROVE  ViewsInv'
<1>1. /\ bytes' = SubSeq(bytes, 1, unread) \o <<arrived + 1>>
      /\ arrived' = arrived + 1 /\ unread' = unread + 1 /\ arrived < MaxArrivals
      /\ UNCHANGED <<blocks, object>>
  BY DEF Arrive
<1>2. /\ bytes \in Seq(Nat) /\ unread = Len(bytes) /\ unread \in Nat /\ arrived \in 0..MaxArrivals
  BY LenProperties DEF ViewsInv, ViewsTypeOK
<1>3. SubSeq(bytes, 1, unread) \in Seq(Nat) /\ Len(SubSeq(bytes, 1, unread)) = unread
  BY <1>2, SubSeqProperties
<1>4. <<arrived + 1>> \in Seq(Nat) /\ Len(<<arrived + 1>>) = 1
  BY <1>2
<1>5. bytes' \in Seq(Nat) /\ Len(bytes') = unread + 1
  BY <1>1, <1>3, <1>4, ConcatProperties
<1>6. ViewsTypeOK'
  BY <1>1, <1>2, <1>5, ViewsAssumption DEF ViewsInv, ViewsTypeOK
<1> QED
  BY <1>1, <1>5, <1>6 DEF ViewsInv, ShowsItself

\* A new block and a new request that shows it.
LEMMA NewObject ==
  ASSUME ViewsInv, NEW o \in Tasks \cup Copies, NEW b \in BlockIds, NEW n, NEW r,
         o \notin DOMAIN object, b \notin DOMAIN blocks,
         blocks' = With(blocks, b, n), object' = With(object, o, r),
         r \in RequestObjects, r.request = n, r.storage = b, r.views = InBlock(b),
         r.copied \/ r.params = Nowhere,
         bytes' \in Seq(Nat), unread' = Len(bytes'), arrived' = arrived
  PROVE  ViewsInv'
<1>1. /\ DOMAIN object' = DOMAIN object \cup {o} /\ object'[o] = r
      /\ \A p \in DOMAIN object : object'[p] = object[p]
      /\ DOMAIN blocks' = DOMAIN blocks \cup {b} /\ blocks'[b] = n
      /\ \A d \in DOMAIN blocks : blocks'[d] = blocks[d]
  <2>1. /\ DOMAIN object' = DOMAIN object \cup {o} /\ object'[o] = r
        /\ \A p \in DOMAIN object \ {o} : object'[p] = object[p]
    BY DEF With
  <2>2. /\ DOMAIN blocks' = DOMAIN blocks \cup {b} /\ blocks'[b] = n
        /\ \A d \in DOMAIN blocks \ {b} : blocks'[d] = blocks[d]
    BY DEF With
  <2> QED
    BY <2>1, <2>2
<1>2. ViewsTypeOK'
  BY <1>1 DEF ViewsInv, ViewsTypeOK
<1>3. ASSUME NEW p \in DOMAIN object'
      PROVE  ShowsItself(object[p])' /\ (p # o => object[p].storage \in DOMAIN blocks)
  <2>1. CASE p = o
    BY <1>1, <2>1 DEF ShowsItself
  <2>2. CASE p # o
    BY <1>1, <2>2 DEF ViewsInv, ShowsItself
  <2> QED
    BY <2>1, <2>2
<1>4. \A d \in DOMAIN blocks' : \E p \in DOMAIN object' : object'[p].storage = d
  BY <1>1 DEF ViewsInv
<1>5. \A p, q \in DOMAIN object' : object'[p].storage = object'[q].storage => p = q
  BY <1>1, <1>3 DEF ViewsInv
<1> QED
  BY <1>2, <1>3, <1>4, <1>5 DEF ViewsInv

\* make_owned copies what the views of the parsed request showed.
LEMMA MoveToTaskKeeps ==
  ASSUME ViewsInv, NEW t \in Tasks, MoveToTask(t)
  PROVE  ViewsInv'
<1>1. PICK b \in BlockIds \ DOMAIN blocks :
        /\ blocks' = With(blocks, b, OwnedBytes)
        /\ object' = With(object, t,
             [request |-> bytes[1], views |-> InBlock(b), params |-> Nowhere,
              storage |-> b, copied |-> FALSE])
  BY DEF MoveToTask
<1>2. unread > 0 /\ t \notin DOMAIN object /\ unread' = unread - 1 /\ bytes' = Tail(bytes)
      /\ arrived' = arrived
  BY DEF MoveToTask
<1>3. bytes \in Seq(Nat) /\ unread = Len(bytes)
  BY DEF ViewsInv, ViewsTypeOK
<1>4. bytes # <<>> /\ Len(bytes) \in Nat /\ 1 \in 1..Len(bytes)
  BY <1>2, <1>3, EmptySeq, LenProperties
<1>5. bytes' \in Seq(Nat) /\ unread' = Len(bytes')
  BY <1>2, <1>3, <1>4, HeadTailProperties
<1>6. bytes[1] \in Nat
  BY <1>3, <1>4, ElementOfSeq
<1>7. OwnedBytes = bytes[1]
  BY <1>3, <1>4 DEF OwnedBytes, BytesAt, InBuffer
<1>8. PICK r : r = [request |-> bytes[1], views |-> InBlock(b), params |-> Nowhere,
                    storage |-> b, copied |-> FALSE]
  OBVIOUS
<1>9. /\ r \in RequestObjects /\ r.request = bytes[1] /\ r.storage = b
      /\ r.views = InBlock(b) /\ r.params = Nowhere
  BY <1>6, <1>8 DEF RequestObjects
<1> QED
  BY <1>1, <1>2, <1>5, <1>7, <1>8, <1>9, NewObject

LEMMA SetParamsKeeps ==
  ASSUME ViewsInv, NEW t \in Tasks, SetParams(t)
  PROVE  ViewsInv'
<1>1. /\ t \in DOMAIN object /\ object' = [object EXCEPT ![t].params = object[t].views]
      /\ UNCHANGED <<bytes, unread, blocks, arrived>>
  BY DEF SetParams
<1>2. ShowsItself(object[t])
  BY <1>1 DEF ViewsInv
<1>3. PICK v \in {InBlock(b) : b \in BlockIds} : v = object[t].views
  BY <1>2 DEF ShowsItself, RequestObjects
<1>4. PICK r : r = [object[t] EXCEPT !.params = v]
  OBVIOUS
<1>5. /\ r \in RequestObjects /\ r.request = object[t].request /\ r.views = object[t].views
      /\ r.storage = object[t].storage /\ r.copied = object[t].copied /\ r.params = v
  BY <1>2, <1>4 DEF ShowsItself, RequestObjects
<1>6. /\ DOMAIN object' = DOMAIN object /\ object'[t] = r
      /\ \A o \in DOMAIN object : o # t => object'[o] = object[o]
  BY <1>1, <1>3, <1>4
<1>7. ViewsTypeOK'
  BY <1>1, <1>6 DEF ViewsInv, ViewsTypeOK
<1>8. ASSUME NEW o \in DOMAIN object
      PROVE  ShowsItself(object[o])' /\ object'[o].storage = object[o].storage
  <2>1. CASE o = t
    BY <1>1, <1>2, <1>3, <1>5, <1>6, <2>1 DEF ShowsItself
  <2>2. CASE o # t
    BY <1>1, <1>6, <2>2 DEF ViewsInv, ShowsItself
  <2> QED
    BY <2>1, <2>2
<1>9. \A b \in DOMAIN blocks' : \E o \in DOMAIN object' : object'[o].storage = b
  BY <1>1, <1>6, <1>8 DEF ViewsInv
<1>10. \A o, p \in DOMAIN object' : object'[o].storage = object'[p].storage => o = p
  BY <1>6, <1>8 DEF ViewsInv
<1>11. \A o \in DOMAIN object' : ShowsItself(object[o])'
  BY <1>6, <1>8
<1>12. bytes' \in Seq(Nat)
  BY <1>1 DEF ViewsInv
<1> QED
  BY <1>7, <1>9, <1>10, <1>11, <1>12 DEF ViewsInv

\* rebase_views makes the views of a copy show the copy's block.
LEMMA CopyKeeps ==
  ASSUME ViewsInv, NEW o \in Tasks \cup Copies, NEW c \in Copies, CopyRequest(o, c)
  PROVE  ViewsInv'
<1>1. PICK b \in BlockIds \ DOMAIN blocks :
        /\ blocks' = With(blocks, b, blocks[object[o].storage])
        /\ object' = With(object, c,
             [object[o] EXCEPT !.views = Rebased(@, object[o].storage, b),
                               !.storage = b, !.copied = TRUE])
  BY DEF CopyRequest
<1>2. /\ o \in DOMAIN object /\ c \notin DOMAIN object /\ UNCHANGED <<bytes, unread, arrived>>
  BY DEF CopyRequest
<1>3. ShowsItself(object[o])
  BY <1>2 DEF ViewsInv
<1>4. PICK r : r = [object[o] EXCEPT !.views = InBlock(b), !.storage = b, !.copied = TRUE]
  OBVIOUS
<1>5. object' = With(object, c, r)
  BY <1>1, <1>3, <1>4 DEF ShowsItself, Rebased
<1>6. InBlock(b) \in {InBlock(d) : d \in BlockIds}
  OBVIOUS
<1>7. /\ r \in RequestObjects /\ r.request = object[o].request /\ r.views = InBlock(b)
      /\ r.storage = b /\ r.copied
  <2>1. PICK v \in {InBlock(d) : d \in BlockIds} : v = InBlock(b)
    BY <1>6
  <2>2. r = [object[o] EXCEPT !.views = v, !.storage = b, !.copied = TRUE]
    BY <1>4, <2>1
  <2>3. object[o] \in RequestObjects
    BY <1>3 DEF ShowsItself
  <2> QED
    BY <2>1, <2>2, <2>3 DEF RequestObjects
<1>8. blocks[object[o].storage] = object[o].request
  BY <1>3 DEF ShowsItself
<1>9. bytes' \in Seq(Nat) /\ unread' = Len(bytes')
  BY <1>2 DEF ViewsInv, ViewsTypeOK
<1> QED
  BY <1>1, <1>2, <1>5, <1>7, <1>8, <1>9, NewObject

LEMMA MoveKeeps ==
  ASSUME ViewsInv, NEW o \in Tasks \cup Copies, NEW c \in Copies, MoveRequest(o, c)
  PROVE  ViewsInv'
<1>1. /\ o \in DOMAIN object /\ c \notin DOMAIN object
      /\ object' = With(Without(object, {o}), c, object[o])
      /\ UNCHANGED <<bytes, unread, blocks, arrived>>
  BY DEF MoveRequest
<1>2. /\ DOMAIN Without(object, {o}) = DOMAIN object \ {o}
      /\ \A p \in DOMAIN object \ {o} : Without(object, {o})[p] = object[p]
  BY WithoutEntries
<1>3. /\ DOMAIN object' = (DOMAIN object \ {o}) \cup {c} /\ object'[c] = object[o]
      /\ \A p \in DOMAIN object \ {o} : object'[p] = object[p]
  <2>1. PICK f : f = Without(object, {o})
    OBVIOUS
  <2>2. /\ DOMAIN object' = DOMAIN f \cup {c} /\ object'[c] = object[o]
        /\ \A p \in DOMAIN f \ {c} : object'[p] = f[p]
    BY <1>1, <2>1 DEF With
  <2> QED
    BY <1>1, <1>2, <2>1, <2>2
<1>4. ViewsTypeOK'
  BY <1>1, <1>3 DEF ViewsInv, ViewsTypeOK
<1>5. \A p \in DOMAIN object' : \E q \in DOMAIN object :
        object'[p] = object[q] /\ (p = c <=> q = o) /\ (p # c => p = q)
  BY <1>1, <1>3
<1>6. \A q \in DOMAIN object : \E p \in DOMAIN object' : object'[p] = object[q]
  BY <1>1, <1>3
<1>7. ASSUME NEW p \in DOMAIN object'
      PROVE  ShowsItself(object[p])'
  <2>1. PICK q \in DOMAIN object : object'[p] = object[q]
    BY <1>5
  <2>2. ShowsItself(object[q])
    BY DEF ViewsInv
  <2> QED
    BY <1>1, <2>1, <2>2 DEF ShowsItself
<1>8. ASSUME NEW b \in DOMAIN blocks'
      PROVE  \E p \in DOMAIN object' : object'[p].storage = b
  <2>1. PICK q \in DOMAIN object : object[q].storage = b
    BY <1>1 DEF ViewsInv
  <2> QED
    BY <1>6, <2>1
<1>9. \A p, q \in DOMAIN object' : object'[p].storage = object'[q].storage => p = q
  BY <1>5 DEF ViewsInv
<1> QED
  BY <1>1, <1>4, <1>7, <1>8, <1>9 DEF ViewsInv

LEMMA DestroyKeeps ==
  ASSUME ViewsInv, NEW o \in Tasks \cup Copies, Destroy(o)
  PROVE  ViewsInv'
<1>1. /\ o \in DOMAIN object /\ blocks' = Without(blocks, {object[o].storage})
      /\ object' = Without(object, {o}) /\ UNCHANGED <<bytes, unread, arrived>>
  BY DEF Destroy
<1>2. /\ DOMAIN object' = DOMAIN object \ {o}
      /\ \A p \in DOMAIN object \ {o} : object'[p] = object[p]
      /\ DOMAIN blocks' = DOMAIN blocks \ {object[o].storage}
      /\ \A b \in DOMAIN blocks \ {object[o].storage} : blocks'[b] = blocks[b]
  BY <1>1, WithoutEntries
<1>3. ViewsTypeOK'
  BY <1>1, <1>2 DEF ViewsInv, ViewsTypeOK
<1>4. ASSUME NEW p \in DOMAIN object'
      PROVE  ShowsItself(object[p])'
  <2>1. p \in DOMAIN object /\ p # o /\ object'[p] = object[p]
    BY <1>2
  <2>2. ShowsItself(object[p]) /\ object[p].storage # object[o].storage
    BY <1>1, <2>1 DEF ViewsInv
  <2> QED
    BY <1>2, <2>1, <2>2 DEF ShowsItself
<1>5. \A b \in DOMAIN blocks' : \E p \in DOMAIN object' : object'[p].storage = b
  BY <1>2 DEF ViewsInv
<1>6. \A p, q \in DOMAIN object' : object'[p].storage = object'[q].storage => p = q
  BY <1>2 DEF ViewsInv
<1> QED
  BY <1>1, <1>3, <1>4, <1>5, <1>6 DEF ViewsInv

LEMMA NextViewsInv == ViewsInv /\ [ViewsNext]_viewVars => ViewsInv'
<1> SUFFICES ASSUME ViewsInv, [ViewsNext]_viewVars
             PROVE  ViewsInv'
  OBVIOUS
<1>1. CASE UNCHANGED viewVars
  BY <1>1 DEF viewVars, ViewsInv, ViewsTypeOK, ShowsItself
<1> QED
  BY <1>1, ArriveKeeps, MoveToTaskKeeps, SetParamsKeeps, CopyKeeps, MoveKeeps, DestroyKeeps
     DEF ViewsNext

\* HttpRequest.h and make_owned: every view shows bytes of the request it belongs to,
\* whatever was received, consumed, copied, moved and destroyed meanwhile, and no
\* block is freed twice or left behind.  The path parameters of a copy are left out:
\* they go on pointing into the original (HttpRequest.cpp:34).
THEOREM ViewsStayGood == ViewsSpec => []ViewsHold
<1>1. ASSUME ViewsInv
      PROVE  ViewsHold
  <2>1. ASSUME NEW o \in DOMAIN object
        PROVE  /\ BytesAt(object[o].views) = object[o].request
               /\ object[o].params = Nowhere \/ object[o].copied
                    \/ BytesAt(object[o].params) = object[o].request
    <3>1. ShowsItself(object[o])
      BY <1>1 DEF ViewsInv
    <3> QED
      BY <3>1, BytesOfBlock DEF ShowsItself
  <2> QED
    BY <1>1, <2>1 DEF ViewsInv, ViewsHold
<1> QED
  BY <1>1, InitViewsInv, NextViewsInv, PTL DEF ViewsSpec

-----------------------------------------------------------------------------
(* Application: what the clients of a database are told.                   *)

AccountRows == [name : Usernames, mail : Usernames, by : Clients]

HandlerStates ==
  [at : {"start", "find", "found", "absent", "insert", "inserted", "end"},
   conn : Conns \cup {NoConn}, ok : BOOLEAN, row : SUBSET AccountRows, id : {0}]

AppTyped ==
  /\ wants \in [Clients -> AppRequests]
  /\ handler \in [Clients -> HandlerStates]
  /\ free \subseteq Conns /\ lastId \in [Conns -> Nat]
  /\ accounts \subseteq AccountRows /\ notes \in Seq(Clients)
  /\ answers \in [Clients -> [status : Nat, id : Nat]]

\* run_impl holds a connection from acquire to its end.
Holding(h) == h.at \in {"find", "found", "insert", "inserted"}

\* No two handlers are on one connection: last_insert_id is the caller's own.
OwnConnection ==
  /\ \A c \in Clients : Holding(handler[c]) => handler[c].conn \in Conns \ free
  /\ \A c, d \in Clients :
       Holding(handler[c]) /\ Holding(handler[d]) /\ handler[c].conn = handler[d].conn => c = d

Has(c) == \E a \in accounts : a.by = c

\* Where a request is, and what is in the tables and the answer because of it.
Served(c) ==
  LET q == wants[c]
      h == handler[c]
      status == answers[c].status
  IN
  /\ h.at \in {"find", "found"} => q.kind \in {"register", "login"}
  /\ h.at = "absent" => q.kind = "register"
  /\ h.at \in {"insert", "inserted"} => q.kind \in {"register", "note"}
  /\ h.at # "end" => status = 0
  /\ h.at = "found" => h.row \subseteq {a \in accounts : a.name = q.name}
  /\ h.at = "inserted" /\ h.ok /\ q.kind = "note" =>
       lastId[h.conn] \in 1..Len(notes) /\ notes[lastId[h.conn]] = c
  /\ q.kind = "note" /\ status = 201 =>
       answers[c].id \in 1..Len(notes) /\ notes[answers[c].id] = c
  /\ \A a \in accounts :
       a.by = c => q.kind = "register" /\ a = [name |-> q.name, mail |-> q.mail, by |-> c]
  /\ q.kind = "register" =>
       (Has(c) <=> (h.at = "inserted" /\ h.ok) \/ status = 201)
  /\ q.kind = "register" /\ status = 409 => \E a \in accounts : a.name = q.name /\ a.by # c
  /\ q.kind = "login" /\ status = 200 => \E a \in accounts : a.name = q.name /\ a.by = q.as

AppInv == AppTyped /\ OwnConnection /\ \A c \in Clients : Served(c)

\* A handler goes to another state, the others stay.
LEMMA HandlerMoves ==
  ASSUME AppTyped, NEW c \in Clients, NEW r \in HandlerStates,
         handler' = [handler EXCEPT ![c] = r]
  PROVE  /\ handler' \in [Clients -> HandlerStates] /\ handler'[c] = r
         /\ \A d \in Clients : d # c => handler'[d] = handler[d]
BY DEF AppTyped

LEMMA InitAppInv == ApplicationInit => AppInv
<1> SUFFICES ASSUME ApplicationInit
             PROVE  AppInv
  OBVIOUS
<1>1. Start \in HandlerStates
  BY DEF Start, HandlerStates
<1>2. Unanswered \in [status : Nat, id : Nat]
  BY DEF Unanswered
<1>3. AppTyped
  BY <1>1, <1>2, EmptySeq DEF ApplicationInit, AppTyped
<1>4. \A c \in Clients : handler[c].at = "start" /\ answers[c].status = 0
  BY DEF ApplicationInit, Start, Unanswered
<1>5. OwnConnection
  BY <1>4 DEF OwnConnection, Holding
<1>6. \A c \in Clients : Served(c)
  BY <1>4 DEF Served, Has, ApplicationInit
<1> QED
  BY <1>3, <1>5, <1>6 DEF AppInv

\* A client that takes no part in a step: rows are only added, and nobody uses its
\* connection.
LEMMA OthersServed ==
  ASSUME AppInv, NEW c \in Clients, NEW d \in Clients, c # d,
         handler'[d] = handler[d], answers'[d] = answers[d], wants' = wants,
         accounts \subseteq accounts', \A a \in accounts' \ accounts : a.by = c,
         Len(notes) <= Len(notes'), Len(notes') \in Nat,
         \A i \in 1..Len(notes) : notes'[i] = notes[i],
         Holding(handler[d]) => lastId'[handler[d].conn] = lastId[handler[d].conn]
  PROVE  Served(d)'
<1>1. Served(d) /\ Len(notes) \in Nat
  BY LenProperties DEF AppInv, AppTyped
<1>2. \A i \in 1..Len(notes) : i \in 1..Len(notes')
  BY <1>1
<1>3. Has(d)' <=> Has(d)
  BY DEF Has
<1>4. \A a \in accounts' : a.by = d => a \in accounts
  OBVIOUS
<1>5. handler[d].at = "inserted" => lastId'[handler[d].conn] = lastId[handler[d].conn]
  BY DEF Holding
<1> QED
  BY <1>1, <1>2, <1>3, <1>4, <1>5 DEF Served

\* The steps that touch neither table, and no connection's last id.
LEMMA TablesUntouched ==
  ASSUME AppInv, NEW c \in Clients,
         UNCHANGED <<wants, lastId, accounts, notes>>,
         \A d \in Clients : d # c => handler'[d] = handler[d] /\ answers'[d] = answers[d]
  PROVE  \A d \in Clients : d # c => Served(d)'
<1>1. Len(notes) \in Nat
  BY LenProperties DEF AppInv, AppTyped
<1> QED
  BY <1>1, OthersServed

\* The handler holds the connection it held, or has given it back.
LEMMA ConnectionKept ==
  ASSUME AppInv, NEW c \in Clients,
         \A d \in Clients : d # c => handler'[d] = handler[d],
         \/ free' = free /\ Holding(handler[c]) /\ handler'[c].conn = handler[c].conn
         \/ Holding(handler[c]) /\ free' = free \cup {handler[c].conn} /\ ~Holding(handler'[c])
  PROVE  OwnConnection'
BY DEF AppInv, OwnConnection

LEMMA AcquireKeeps ==
  ASSUME AppInv, NEW c \in Clients, Acquire(c)
  PROVE  AppInv'
<1>1. PICK h \in free :
        /\ free' = free \ {h}
        /\ handler' = [handler EXCEPT ![c].at = NextStatement(c), ![c].conn = h]
  BY DEF Acquire, Available
<1>2. /\ handler[c].at \in {"start", "absent"}
      /\ UNCHANGED <<wants, lastId, accounts, notes, answers>>
  BY DEF Acquire
<1>3. AppTyped /\ handler[c] \in HandlerStates /\ h \in Conns
  BY DEF AppInv, AppTyped
<1>4. NextStatement(c) \in {"find", "insert"}
  BY DEF NextStatement
<1>5. PICK r : r = [handler[c] EXCEPT !.at = NextStatement(c), !.conn = h]
  OBVIOUS
<1>6. /\ r \in HandlerStates /\ r.at = NextStatement(c) /\ r.conn = h
      /\ r.ok = handler[c].ok /\ r.row = handler[c].row
  BY <1>3, <1>4, <1>5 DEF HandlerStates
<1>7. handler' = [handler EXCEPT ![c] = r]
  BY <1>1, <1>3, <1>5 DEF AppTyped
<1>8. /\ handler' \in [Clients -> HandlerStates] /\ handler'[c] = r
      /\ \A d \in Clients : d # c => handler'[d] = handler[d]
  BY <1>3, <1>6, <1>7, HandlerMoves
<1>9. AppTyped'
  BY <1>1, <1>2, <1>3, <1>8 DEF AppTyped
<1>10. OwnConnection'
  BY <1>1, <1>3, <1>6, <1>8 DEF AppInv, OwnConnection
<1>11. Served(c)'
  BY <1>2, <1>3, <1>4, <1>6, <1>8 DEF AppInv, AppTyped, AppRequests, Served, Has, NextStatement
<1>12. \A d \in Clients : d # c => Served(d)'
  BY <1>2, <1>8, TablesUntouched
<1> QED
  BY <1>9, <1>10, <1>11, <1>12 DEF AppInv

\* A statement that fails leaves the tables alone.
LEMMA FailureKeeps ==
  ASSUME AppInv, NEW c \in Clients, StatementFails(c)
  PROVE  AppInv'
<1>1. /\ handler[c].at \in {"find", "insert"}
      /\ handler' = [handler EXCEPT ![c].at = IF @ = "find" THEN "found" ELSE "inserted",
                                    ![c].ok = FALSE, ![c].row = {}]
      /\ UNCHANGED <<wants, free, lastId, accounts, notes, answers>>
  BY DEF StatementFails
<1>2. AppTyped /\ handler[c] \in HandlerStates
  BY DEF AppInv, AppTyped
<1>3. PICK at \in {"found", "inserted"} :
        at = IF handler[c].at = "find" THEN "found" ELSE "inserted"
  OBVIOUS
<1>4. PICK r : r = [handler[c] EXCEPT !.at = at, !.ok = FALSE, !.row = {}]
  OBVIOUS
<1>5. /\ r \in HandlerStates /\ r.at = at /\ r.conn = handler[c].conn /\ r.ok = FALSE /\ r.row = {}
  BY <1>2, <1>4 DEF HandlerStates
<1>6. handler' = [handler EXCEPT ![c] = r]
  BY <1>1, <1>2, <1>3, <1>4 DEF AppTyped
<1>7. /\ handler' \in [Clients -> HandlerStates] /\ handler'[c] = r
      /\ \A d \in Clients : d # c => handler'[d] = handler[d]
  BY <1>2, <1>5, <1>6, HandlerMoves
<1>8. AppTyped'
  BY <1>1, <1>2, <1>7 DEF AppTyped
<1>9. OwnConnection'
  BY <1>1, <1>5, <1>7, ConnectionKept DEF Holding
<1>10. Served(c)'
  BY <1>1, <1>3, <1>5, <1>7 DEF AppInv, Served, Has
<1>11. \A d \in Clients : d # c => Served(d)'
  BY <1>1, <1>7, TablesUntouched
<1> QED
  BY <1>8, <1>9, <1>10, <1>11 DEF AppInv

LEMMA SelectKeeps ==
  ASSUME AppInv, NEW c \in Clients, Select(c)
  PROVE  AppInv'
<1>1. /\ handler[c].at = "find"
      /\ handler' = [handler EXCEPT ![c].at = "found", ![c].ok = TRUE,
                                    ![c].row = {a \in accounts : a.name = wants[c].name}]
      /\ UNCHANGED <<wants, free, lastId, accounts, notes, answers>>
  BY DEF Select
<1>2. AppTyped /\ handler[c] \in HandlerStates /\ accounts \subseteq AccountRows
  BY DEF AppInv, AppTyped
<1>3. PICK row \in SUBSET AccountRows : row = {a \in accounts : a.name = wants[c].name}
  BY <1>2
<1>4. PICK r : r = [handler[c] EXCEPT !.at = "found", !.ok = TRUE, !.row = row]
  OBVIOUS
<1>5. /\ r \in HandlerStates /\ r.at = "found" /\ r.conn = handler[c].conn /\ r.ok /\ r.row = row
  BY <1>2, <1>4 DEF HandlerStates
<1>6. handler' = [handler EXCEPT ![c] = r]
  BY <1>1, <1>2, <1>3, <1>4 DEF AppTyped
<1>7. /\ handler' \in [Clients -> HandlerStates] /\ handler'[c] = r
      /\ \A d \in Clients : d # c => handler'[d] = handler[d]
  BY <1>2, <1>5, <1>6, HandlerMoves
<1>8. AppTyped'
  BY <1>1, <1>2, <1>7 DEF AppTyped
<1>9. OwnConnection'
  BY <1>1, <1>5, <1>7, ConnectionKept DEF Holding
<1>10. Served(c)'
  <2>1. Served(c)
    BY DEF AppInv
  <2>2. handler'[c].row = {a \in accounts' : a.name = wants'[c].name}
    BY <1>1, <1>3, <1>5, <1>7
  <2>3. handler'[c].at = "found"
    BY <1>5, <1>7
  <2>4. Has(c)' <=> Has(c)
    BY <1>1 DEF Has
  <2>5. handler'[c].row \subseteq {a \in accounts' : a.name = wants'[c].name}
    BY <2>2
  <2> QED
    BY <1>1, <2>1, <2>3, <2>4, <2>5 DEF Served
<1>11. \A d \in Clients : d # c => Served(d)'
  BY <1>1, <1>7, TablesUntouched
<1> QED
  BY <1>8, <1>9, <1>10, <1>11 DEF AppInv

\* A handler whose insertion succeeded.
LEMMA InsertedState ==
  ASSUME AppTyped, NEW c \in Clients,
         handler' = [handler EXCEPT ![c].at = "inserted", ![c].ok = TRUE]
  PROVE  /\ handler' \in [Clients -> HandlerStates]
         /\ handler'[c].at = "inserted" /\ handler'[c].ok /\ handler'[c].conn = handler[c].conn
         /\ \A d \in Clients : d # c => handler'[d] = handler[d]
<1>1. handler[c] \in HandlerStates
  BY DEF AppTyped
<1>2. PICK r : r = [handler[c] EXCEPT !.at = "inserted", !.ok = TRUE]
  OBVIOUS
<1>3. /\ r \in HandlerStates /\ r.at = "inserted" /\ r.ok /\ r.conn = handler[c].conn
  BY <1>1, <1>2 DEF HandlerStates
<1>4. handler' = [handler EXCEPT ![c] = r]
  BY <1>2 DEF AppTyped
<1> QED
  BY <1>3, <1>4, HandlerMoves

LEMMA InsertNoteKeeps ==
  ASSUME AppInv, NEW c \in Clients, InsertNote(c)
  PROVE  AppInv'
<1>1. /\ handler[c].at = "insert" /\ wants[c].kind = "note"
      /\ notes' = Append(notes, c)
      /\ lastId' = [lastId EXCEPT ![handler[c].conn] = Len(notes) + 1]
      /\ handler' = [handler EXCEPT ![c].at = "inserted", ![c].ok = TRUE]
      /\ UNCHANGED <<wants, free, accounts, answers>>
  BY DEF InsertNote
<1>2. AppTyped /\ OwnConnection /\ Served(c)
  BY DEF AppInv
<1>3. /\ handler' \in [Clients -> HandlerStates]
      /\ handler'[c].at = "inserted" /\ handler'[c].ok /\ handler'[c].conn = handler[c].conn
      /\ \A d \in Clients : d # c => handler'[d] = handler[d]
  BY <1>1, <1>2, InsertedState
<1>4. PICK h \in Conns : h = handler[c].conn
  BY <1>1, <1>2 DEF OwnConnection, Holding
<1>5. notes \in Seq(Clients) /\ Len(notes) \in Nat
  BY <1>2, LenProperties DEF AppTyped
<1>6. /\ notes' \in Seq(Clients) /\ Len(notes') = Len(notes) + 1
      /\ \A i \in 1..Len(notes) : notes'[i] = notes[i]
      /\ notes'[Len(notes) + 1] = c
  BY <1>1, <1>5, AppendProperties
<1>7. lastId' \in [Conns -> Nat] /\ lastId'[h] = Len(notes) + 1
      /\ \A g \in Conns : g # h => lastId'[g] = lastId[g]
  BY <1>1, <1>2, <1>4, <1>5 DEF AppTyped
<1>8. AppTyped'
  BY <1>1, <1>2, <1>3, <1>6, <1>7 DEF AppTyped
<1>9. OwnConnection'
  BY <1>1, <1>3, ConnectionKept DEF Holding
<1>10. Served(c)'
  <2>1. lastId'[handler'[c].conn] \in 1..Len(notes') /\ notes'[lastId'[handler'[c].conn]] = c
    BY <1>3, <1>4, <1>5, <1>6, <1>7
  <2>2. answers[c].status = 0
    BY <1>1, <1>2 DEF Served
  <2> QED
    BY <1>1, <1>2, <1>3, <2>1, <2>2 DEF Served, Has
<1>11. ASSUME NEW d \in Clients, d # c
       PROVE  Served(d)'
  <2>1. Holding(handler[d]) => handler[d].conn \in Conns /\ handler[d].conn # h
    BY <1>1, <1>2, <1>4, <1>11 DEF OwnConnection, Holding
  <2>2. Holding(handler[d]) => lastId'[handler[d].conn] = lastId[handler[d].conn]
    BY <1>7, <2>1
  <2> QED
    BY <1>1, <1>3, <1>5, <1>6, <1>11, <2>2, OthersServed
<1> QED
  BY <1>8, <1>9, <1>10, <1>11 DEF AppInv

\* The table refuses a name it has: between the look-up and the insertion somebody
\* else may have taken it.
LEMMA CreateUserKeeps ==
  ASSUME AppInv, NEW c \in Clients, CreateUser(c)
  PROVE  AppInv'
<1>1. /\ handler[c].at = "insert" /\ wants[c].kind = "register"
      /\ accounts' = accounts \cup {[name |-> wants[c].name, mail |-> wants[c].mail, by |-> c]}
      /\ handler' = [handler EXCEPT ![c].at = "inserted", ![c].ok = TRUE]
      /\ UNCHANGED <<wants, free, lastId, notes, answers>>
  BY DEF CreateUser
<1>2. AppTyped /\ OwnConnection /\ Served(c)
  BY DEF AppInv
<1>3. /\ handler' \in [Clients -> HandlerStates]
      /\ handler'[c].at = "inserted" /\ handler'[c].ok /\ handler'[c].conn = handler[c].conn
      /\ \A d \in Clients : d # c => handler'[d] = handler[d]
  BY <1>1, <1>2, InsertedState
<1>4. wants[c].name \in Usernames /\ wants[c].mail \in Usernames
  BY <1>1, <1>2 DEF AppTyped, AppRequests
<1>5. PICK a : a = [name |-> wants[c].name, mail |-> wants[c].mail, by |-> c]
  OBVIOUS
<1>6. a \in AccountRows /\ a.by = c
  BY <1>4, <1>5 DEF AccountRows
<1>7. accounts' = accounts \cup {a}
  BY <1>1, <1>5
<1>8. AppTyped'
  BY <1>1, <1>2, <1>3, <1>6, <1>7 DEF AppTyped
<1>9. OwnConnection'
  BY <1>1, <1>3, ConnectionKept DEF Holding
<1>10. Served(c)'
  <2>1. answers[c].status = 0
    BY <1>1, <1>2 DEF Served
  <2>2. Has(c)'
    BY <1>6, <1>7 DEF Has
  <2>3. \A x \in accounts' : x.by = c => x = a
    BY <1>1, <1>2, <1>5, <1>7 DEF Served
  <2> QED
    BY <1>1, <1>3, <1>5, <2>1, <2>2, <2>3 DEF Served
<1>11. ASSUME NEW d \in Clients, d # c
       PROVE  Served(d)'
  <2>1. Len(notes) \in Nat
    BY <1>2, LenProperties DEF AppTyped
  <2> QED
    BY <1>1, <1>3, <1>6, <1>7, <1>11, <2>1, OthersServed
<1> QED
  BY <1>8, <1>9, <1>10, <1>11 DEF AppInv

\* The end of run_impl.
LEMMA GoOnMoves ==
  ASSUME AppInv, NEW c \in Clients, NEW at \in {"absent", "end"}, GoOn(c, at),
         Holding(handler[c])
  PROVE  /\ handler' \in [Clients -> HandlerStates] /\ free' \subseteq Conns
         /\ handler'[c].at = at /\ handler'[c].ok = handler[c].ok
         /\ \A d \in Clients : d # c => handler'[d] = handler[d]
         /\ OwnConnection'
         /\ UNCHANGED <<wants, lastId, accounts, notes>>
<1>1. /\ free' = free \cup {handler[c].conn}
      /\ handler' = [handler EXCEPT ![c].at = at, ![c].conn = NoConn]
      /\ UNCHANGED <<wants, lastId, accounts, notes>>
  BY DEF GoOn
<1>2. AppTyped /\ handler[c] \in HandlerStates /\ handler[c].conn \in Conns /\ free \subseteq Conns
  BY DEF AppInv, AppTyped, OwnConnection
<1>3. PICK r : r = [handler[c] EXCEPT !.at = at, !.conn = NoConn]
  OBVIOUS
<1>4. r \in HandlerStates /\ r.at = at /\ r.ok = handler[c].ok
  BY <1>2, <1>3 DEF HandlerStates
<1>5. handler' = [handler EXCEPT ![c] = r]
  BY <1>1, <1>2, <1>3 DEF AppTyped
<1>6. /\ handler' \in [Clients -> HandlerStates] /\ handler'[c] = r
      /\ \A d \in Clients : d # c => handler'[d] = handler[d]
  BY <1>2, <1>4, <1>5, HandlerMoves
<1>7. ~Holding(handler'[c])
  BY <1>4, <1>6 DEF Holding
<1>8. OwnConnection'
  BY <1>1, <1>6, <1>7, ConnectionKept
<1> QED
  BY <1>1, <1>2, <1>4, <1>6, <1>8

LEMMA ReplyMoves ==
  ASSUME AppTyped, NEW c \in Clients, NEW status \in Nat, NEW id \in Nat, Reply(c, status, id)
  PROVE  /\ answers' \in [Clients -> [status : Nat, id : Nat]]
         /\ answers'[c].status = status /\ answers'[c].id = id
         /\ \A d \in Clients : d # c => answers'[d] = answers[d]
BY DEF Reply, AppTyped

\* A client is told that the name is taken only if somebody else has it.
LEMMA RegisterFoundKeeps ==
  ASSUME AppInv, NEW c \in Clients, RegisterFound(c)
  PROVE  AppInv'
<1>1. /\ handler[c].at = "found" /\ wants[c].kind = "register"
      /\ \/ handler[c].row = {} /\ GoOn(c, "absent") /\ UNCHANGED answers
         \/ handler[c].row # {} /\ GoOn(c, "end") /\ Reply(c, 409, 0)
  BY DEF RegisterFound
<1>2. AppTyped /\ Served(c) /\ Holding(handler[c])
  BY <1>1 DEF AppInv, Holding
<1>3. PICK at \in {"absent", "end"} : GoOn(c, at) /\ (at = "end" <=> handler[c].row # {})
  BY <1>1
<1>4. /\ handler' \in [Clients -> HandlerStates] /\ free' \subseteq Conns
      /\ handler'[c].at = at
      /\ \A d \in Clients : d # c => handler'[d] = handler[d]
      /\ OwnConnection'
      /\ UNCHANGED <<wants, lastId, accounts, notes>>
  BY <1>2, <1>3, GoOnMoves
<1>5. /\ answers' \in [Clients -> [status : Nat, id : Nat]]
      /\ \A d \in Clients : d # c => answers'[d] = answers[d]
      /\ handler[c].row = {} => answers'[c] = answers[c]
      /\ handler[c].row # {} => answers'[c].status = 409
  <2>1. CASE handler[c].row = {}
    BY <1>1, <1>2, <2>1 DEF AppTyped
  <2>2. CASE handler[c].row # {}
    BY <1>1, <1>2, <2>2, ReplyMoves
  <2> QED
    BY <2>1, <2>2
<1>6. AppTyped'
  BY <1>2, <1>4, <1>5 DEF AppTyped
<1>7. Has(c)' <=> Has(c)
  BY <1>4 DEF Has
<1>8. ~Has(c)
  BY <1>1, <1>2 DEF Served
<1>9. Served(c)'
  <2>1. CASE handler[c].row = {}
    BY <1>1, <1>2, <1>3, <1>4, <1>5, <1>7, <1>8, <2>1 DEF Served
  <2>2. CASE handler[c].row # {}
    <3>1. \E a \in accounts : a.name = wants[c].name /\ a.by # c
      BY <1>1, <1>2, <1>8, <2>2 DEF Served, Has
    <3> QED
      BY <1>1, <1>2, <1>3, <1>4, <1>5, <1>7, <1>8, <2>2, <3>1 DEF Served
  <2> QED
    BY <2>1, <2>2
<1>10. \A d \in Clients : d # c => Served(d)'
  BY <1>4, <1>5, TablesUntouched
<1> QED
  BY <1>4, <1>6, <1>9, <1>10 DEF AppInv

LEMMA LoginKeeps ==
  ASSUME AppInv, NEW c \in Clients, Login(c)
  PROVE  AppInv'
<1>1. /\ handler[c].at = "found" /\ wants[c].kind = "login" /\ GoOn(c, "end")
      /\ Reply(c, IF \E a \in handler[c].row : a.by = wants[c].as THEN 200 ELSE 401, 0)
  BY DEF Login
<1>2. AppTyped /\ Served(c) /\ Holding(handler[c])
  BY <1>1 DEF AppInv, Holding
<1>3. /\ handler' \in [Clients -> HandlerStates] /\ free' \subseteq Conns
      /\ handler'[c].at = "end"
      /\ \A d \in Clients : d # c => handler'[d] = handler[d]
      /\ OwnConnection'
      /\ UNCHANGED <<wants, lastId, accounts, notes>>
  BY <1>1, <1>2, GoOnMoves
<1>4. PICK status \in {200, 401} :
        /\ status = IF \E a \in handler[c].row : a.by = wants[c].as THEN 200 ELSE 401
        /\ Reply(c, status, 0)
  BY <1>1
<1>5. /\ answers' \in [Clients -> [status : Nat, id : Nat]] /\ answers'[c].status = status
      /\ \A d \in Clients : d # c => answers'[d] = answers[d]
  BY <1>2, <1>4, ReplyMoves
<1>6. AppTyped'
  BY <1>2, <1>3, <1>5 DEF AppTyped
<1>7. Has(c)' <=> Has(c)
  BY <1>3 DEF Has
<1>8. status = 200 => \E a \in accounts : a.name = wants[c].name /\ a.by = wants[c].as
  BY <1>1, <1>2, <1>4 DEF Served
<1>9. Served(c)'
  BY <1>1, <1>2, <1>3, <1>5, <1>7, <1>8 DEF Served
<1>10. \A d \in Clients : d # c => Served(d)'
  BY <1>3, <1>5, TablesUntouched
<1> QED
  BY <1>3, <1>6, <1>9, <1>10 DEF AppInv

\* last_insert_rowid is read while the connection is still held.
LEMMA InsertedKeeps ==
  ASSUME AppInv, NEW c \in Clients, Inserted(c)
  PROVE  AppInv'
<1>1. /\ handler[c].at = "inserted" /\ GoOn(c, "end")
      /\ \/ handler[c].ok /\ Reply(c, 201, lastId[handler[c].conn])
         \/ ~handler[c].ok /\ Reply(c, 500, 0)
  BY DEF Inserted
<1>2. /\ AppTyped /\ Served(c) /\ Holding(handler[c]) /\ handler[c].conn \in Conns
      /\ wants[c].kind \in {"register", "note"} /\ answers[c].status = 0
  BY <1>1 DEF AppInv, Holding, OwnConnection, Served
<1>3. /\ handler' \in [Clients -> HandlerStates] /\ free' \subseteq Conns
      /\ handler'[c].at = "end"
      /\ \A d \in Clients : d # c => handler'[d] = handler[d]
      /\ OwnConnection'
      /\ UNCHANGED <<wants, lastId, accounts, notes>>
  BY <1>1, <1>2, GoOnMoves
<1>4. lastId[handler[c].conn] \in Nat
  BY <1>2 DEF AppTyped
<1>5. /\ answers' \in [Clients -> [status : Nat, id : Nat]]
      /\ \A d \in Clients : d # c => answers'[d] = answers[d]
      /\ handler[c].ok => answers'[c].status = 201 /\ answers'[c].id = lastId[handler[c].conn]
      /\ ~handler[c].ok => answers'[c].status = 500
  <2>1. CASE handler[c].ok
    BY <1>1, <1>2, <1>4, <2>1, ReplyMoves
  <2>2. CASE ~handler[c].ok
    BY <1>1, <1>2, <2>2, ReplyMoves
  <2> QED
    BY <2>1, <2>2
<1>6. AppTyped'
  BY <1>2, <1>3, <1>5 DEF AppTyped
<1>7. Has(c)' <=> Has(c)
  BY <1>3 DEF Has
<1>8. Served(c)'
  <2>1. CASE handler[c].ok
    BY <1>1, <1>2, <1>3, <1>5, <1>7, <2>1 DEF Served
  <2>2. CASE ~handler[c].ok
    BY <1>1, <1>2, <1>3, <1>5, <1>7, <2>2 DEF Served
  <2> QED
    BY <2>1, <2>2
<1>9. \A d \in Clients : d # c => Served(d)'
  BY <1>3, <1>5, TablesUntouched
<1> QED
  BY <1>3, <1>6, <1>8, <1>9 DEF AppInv

LEMMA NextAppInv == AppInv /\ [ApplicationNext]_appVars => AppInv'
<1> SUFFICES ASSUME AppInv, [ApplicationNext]_appVars
             PROVE  AppInv'
  OBVIOUS
<1>1. CASE UNCHANGED appVars
  BY <1>1 DEF appVars, AppInv, AppTyped, OwnConnection, Served, Has
<1> QED
  BY <1>1, AcquireKeeps, FailureKeeps, SelectKeeps, InsertNoteKeeps, CreateUserKeeps,
     RegisterFoundKeeps, LoginKeeps, InsertedKeeps DEF ApplicationNext, ApplicationOver

\* main.cpp, 03_rest_crud_db.cpp and 06_video_platform.cpp: what a client is told
\* about its note, its account or its password is so, whoever else uses the tables,
\* and whichever connections the statements run on.
THEOREM ToldTheTruth == ApplicationSpec => []AnswersTrue
<1>1. ASSUME AppInv, NEW c \in Clients
      PROVE  LET q == wants[c]
                 status == answers[c].status
                 mine == {a \in accounts : a.by = c}
             IN
             /\ q.kind = "register" /\ status # 0 =>
                  /\ status = 201 <=> mine # {}
                  /\ status = 409 => \E a \in accounts : a.name = q.name /\ a.by # c
             /\ q.kind = "login" /\ status = 200 =>
                  \E a \in accounts : a.name = q.name /\ a.by = q.as
             /\ q.kind = "note" /\ status = 201 => notes[answers[c].id] = c
             /\ \A a \in accounts :
                  a.by # c \/ a = [name |-> q.name, mail |-> q.mail, by |-> c]
  <2>1. Served(c)
    BY <1>1 DEF AppInv
  <2>2. Has(c) <=> {a \in accounts : a.by = c} # {}
    BY DEF Has
  <2> QED
    BY <2>1, <2>2 DEF Served
<1>2. AppInv => AnswersTrue
  BY <1>1 DEF AnswersTrue
<1> QED
  BY <1>2, InitAppInv, NextAppInv, PTL DEF ApplicationSpec

-----------------------------------------------------------------------------
(* Reply: what HEAD is told.                                               *)

Bodies == {"none", "file", "image", "text"}
Labels == {"none", "own"} \cup Codings

TaskResponses ==
  [status : Nat, body : Bodies, size : Int, coding : Labels, encoding : Labels,
   vary : BOOLEAN, cors : BOOLEAN, length : Int, headOnly : BOOLEAN, ran : BOOLEAN]

\* The chain goes on with what the last middleware made, or has stopped.
Through(name, q, s) == IF s.go THEN RunMiddleware(name, q, s.res) ELSE s

Beginning == Step(TRUE, Blank)

\* A chain of two runs its middlewares in turn.
LEMMA TwoInTurn ==
  ASSUME NEW chain, Len(chain) = 2, NEW q
  PROVE  RunChain(chain, q) = Through(chain[2], q, Through(chain[1], q, Beginning))
<1> DEFINE S == 0..Len(chain)
           R(f, i) == IF i = 0 THEN Step(TRUE, Blank)
                      ELSE IF f[i - 1].go THEN RunMiddleware(chain[i], q, f[i - 1].res)
                      ELSE f[i - 1]
           after == CHOOSE f : f = [i \in S |-> R(f, i)]
           a1 == Through(chain[1], q, Beginning)
           a2 == Through(chain[2], q, a1)
           g == [i \in S |-> IF i = 0 THEN Beginning ELSE IF i = 1 THEN a1 ELSE a2]
<1>1. RunChain(chain, q) = after[2]
  BY DEF RunChain
<1>2. g = [i \in S |-> R(g, i)]
  <2> HIDE DEF a2
  <2>1. g[0] = Beginning /\ g[1] = a1 /\ g[2] = a2
    OBVIOUS
  <2>2. R(g, 0) = g[0]
    BY <2>1 DEF Beginning
  <2>3. R(g, 1) = g[1]
    BY <2>1 DEF Through
  <2>4. R(g, 2) = g[2]
    BY <2>1 DEF Through, a2
  <2>5. \A i \in S : R(g, i) = g[i]
    <3> HIDE DEF R, g
    <3> QED BY <2>2, <2>3, <2>4
  <2> HIDE DEF R
  <2> QED BY <2>5
<1>3. after = [i \in S |-> R(after, i)]
  <2> HIDE DEF R, g
  <2> QED BY <1>2
<1>4. after[0] = Beginning /\ after[1] = R(after, 1) /\ after[2] = R(after, 2)
  <2> HIDE DEF after
  <2>1. \A i \in S : after[i] = R(after, i)
    <3> HIDE DEF R
    <3> QED BY <1>3
  <2>2. R(after, 0) = Beginning
    BY DEF Beginning
  <2> HIDE DEF R
  <2> QED BY <2>1, <2>2
<1>5. after[1] = a1
  <2> HIDE DEF after
  <2> QED BY <1>4 DEF Through
<1>6. after[2] = a2
  <2> HIDE DEF after, a1
  <2> QED BY <1>4, <1>5 DEF Through
<1> QED
  BY <1>1, <1>6

Middlewares == {"logger", "throws", "cors", "jwt"}

\* What a chain hands on: no handler ran, and a body is the text of an error.
InChain(s) ==
  /\ s \in [go : BOOLEAN, res : TaskResponses]
  /\ ~s.res.ran /\ ~s.res.headOnly /\ s.res.coding = "none" /\ s.res.encoding = "none"
  /\ \/ s.res.body = "none"
     \/ ~s.go /\ s.res.body = "text" /\ s.res.size = 1 /\ s.res.length = 1

LEMMA BeginsInChain == InChain(Beginning)
BY DEF InChain, Beginning, Step, Blank, Absent, TaskResponses, Bodies, Labels

LEMMA KnownKinds == "text" \in Bodies /\ "file" \in Bodies /\ "none" \in Labels
BY DEF Bodies, Labels

LEMMA FailedResponse ==
  ASSUME NEW r \in TaskResponses, NEW status \in Nat
  PROVE  /\ Failed(r, status) \in TaskResponses
         /\ Failed(r, status).body = "text" /\ Failed(r, status).size = 1
         /\ Failed(r, status).length = 1 /\ Failed(r, status).coding = "none"
         /\ Failed(r, status).encoding = r.encoding
         /\ Failed(r, status).headOnly = r.headOnly /\ Failed(r, status).ran = r.ran
<1> DEFINE t == [r EXCEPT !.status = status]
<1>1. /\ t \in TaskResponses /\ t.encoding = r.encoding
      /\ t.headOnly = r.headOnly /\ t.ran = r.ran
  BY DEF TaskResponses
<1>2. Failed(r, status) = WithBody(t, "text", 1)
  BY DEF Failed
<1> HIDE DEF t
<1> DEFINE b == WithBody(t, "text", 1)
<1>3. b = [t EXCEPT !.body = "text", !.size = 1, !.coding = "none", !.length = 1]
  BY DEF WithBody
<1> HIDE DEF b
<1>4. b \in TaskResponses
  <2> DEFINE u == [t EXCEPT !.body = "text"]
             v == [u EXCEPT !.size = 1]
             w == [v EXCEPT !.coding = "none"]
  <2>1. u \in TaskResponses
    BY <1>1, KnownKinds DEF TaskResponses
  <2> HIDE DEF u
  <2>2. v \in TaskResponses
    BY <2>1 DEF TaskResponses
  <2> HIDE DEF v
  <2>3. w \in TaskResponses
    BY <2>2, KnownKinds DEF TaskResponses
  <2> HIDE DEF w
  <2>4. [w EXCEPT !.length = 1] \in TaskResponses
    BY <2>3 DEF TaskResponses
  <2>5. b = [w EXCEPT !.length = 1]
    BY <1>3 DEF u, v, w
  <2> QED
    BY <2>4, <2>5
<1>5. b.body = "text" /\ b.size = 1 /\ b.length = 1 /\ b.coding = "none"
  BY <1>1, <1>3 DEF TaskResponses
<1>6. b.encoding = t.encoding /\ b.headOnly = t.headOnly /\ b.ran = t.ran
  BY <1>1, <1>3 DEF TaskResponses
<1> QED
  BY <1>1, <1>2, <1>4, <1>5, <1>6 DEF b

LEMMA ThroughKeeps ==
  ASSUME NEW name \in Middlewares, NEW q, NEW s, InChain(s)
  PROVE  InChain(Through(name, q, s))
<1> DEFINE r == s.res
<1>1. CASE ~s.go
  BY <1>1 DEF Through
<1>2. CASE s.go
  <2>1. /\ r \in TaskResponses /\ ~r.ran /\ ~r.headOnly /\ r.coding = "none"
        /\ r.encoding = "none" /\ r.body = "none"
    BY <1>2 DEF InChain
  <2>2. Through(name, q, s) = RunMiddleware(name, q, r)
    BY <1>2 DEF Through
  <2> HIDE DEF r
  <2>3. /\ InChain(Step(FALSE, Failed(r, 500)))
        /\ InChain(Step(FALSE, Failed(r, 401)))
    <3>1. \A x \in {401, 500} : InChain(Step(FALSE, Failed(r, x)))
      <4> TAKE x \in {401, 500}
      <4> DEFINE f == Failed(r, x)
      <4>1. /\ f \in TaskResponses /\ f.body = "text" /\ f.size = 1 /\ f.length = 1
            /\ f.coding = "none" /\ f.encoding = "none" /\ ~f.headOnly /\ ~f.ran
        BY <2>1, FailedResponse
      <4> HIDE DEF f
      <4>2. InChain(Step(FALSE, f))
        BY <4>1 DEF InChain, Step
      <4> QED
        BY <4>2 DEF f
    <3> QED
      BY ZenonT(30), <3>1
  <2>4. InChain(Step(TRUE, r))
    BY <2>1 DEF InChain, Step
  <2>5. InChain(Step(TRUE, [r EXCEPT !.cors = TRUE]))
    <3> DEFINE f == [r EXCEPT !.cors = TRUE]
    <3>1. f \in TaskResponses
      BY <2>1 DEF TaskResponses
    <3>2. /\ ~f.ran /\ ~f.headOnly /\ f.coding = "none" /\ f.encoding = "none"
          /\ f.body = "none"
      BY <2>1 DEF TaskResponses
    <3> HIDE DEF f
    <3>3. InChain(Step(TRUE, f))
      BY <3>1, <3>2 DEF InChain, Step
    <3> QED
      BY <3>3 DEF f
  <2>6. InChain(Step(FALSE, [r EXCEPT !.cors = TRUE, !.status = 204, !.length = 0]))
    <3> DEFINE f == [r EXCEPT !.cors = TRUE, !.status = 204, !.length = 0]
    <3>1. f \in TaskResponses
      <4> DEFINE u == [r EXCEPT !.cors = TRUE, !.status = 204]
      <4>1. u \in TaskResponses
        BY ZenonT(30), <2>1 DEF TaskResponses
      <4>2. f = [u EXCEPT !.length = 0]
        OBVIOUS
      <4> HIDE DEF u, f
      <4> QED
        BY <4>1, <4>2 DEF TaskResponses
    <3>2. /\ ~f.ran /\ ~f.headOnly /\ f.coding = "none" /\ f.encoding = "none"
          /\ f.body = "none"
      BY <2>1 DEF TaskResponses
    <3> HIDE DEF f
    <3>3. InChain(Step(FALSE, f))
      BY <3>1, <3>2 DEF InChain, Step
    <3> QED
      BY <3>3 DEF f
  <2>7. CASE name = "logger"
    BY <2>2, <2>4, <2>7 DEF RunMiddleware
  <2>8. CASE name = "throws"
    <3>1. RunMiddleware("throws", q, r) = Step(FALSE, Failed(r, 500))
      BY DEF RunMiddleware
    <3>2. Through(name, q, s) = Step(FALSE, Failed(r, 500))
      BY <2>2, <2>8, <3>1
    <3>3. InChain(Step(FALSE, Failed(r, 500)))
      BY <2>3
    <3>4. ASSUME NEW t, NEW u, t = u, InChain(u)
          PROVE  InChain(t)
      BY <3>4 DEF InChain
    <3> QED
      BY <3>2, <3>3, <3>4
  <2>9. CASE name = "cors"
    BY <2>2, <2>5, <2>6, <2>9 DEF RunMiddleware
  <2>10. CASE name = "jwt"
    BY <2>2, <2>3, <2>4, <2>10 DEF RunMiddleware
  <2> QED
    BY <2>7, <2>8, <2>9, <2>10 DEF Middlewares
<1> QED
  BY <1>1, <1>2 DEF InChain

\* Who is denied does not get past the middleware that asks for a token.
LEMMA DeniedStops ==
  ASSUME NEW q, NEW s
  PROVE  /\ q.access = "denied" => ~Through("jwt", q, s).go
         /\ \A name : ~s.go => ~Through(name, q, s).go
BY DEF Through, RunMiddleware, Step

\* The middlewares tell HEAD from GET no more than the handler does.
LEMMA HeadGoesAsGet ==
  ASSUME NEW q \in Asking, q.method = "HEAD", NEW s, NEW name \in Middlewares
  PROVE  Through(name, [q EXCEPT !.method = "GET"], s) = Through(name, q, s)
<1> DEFINE g == [q EXCEPT !.method = "GET"]
<1>1. g.method = "GET" /\ g.access = q.access
  BY DEF Asking
<1> HIDE DEF g
<1> QED
  BY <1>1 DEF Through, RunMiddleware, Middlewares

LEMMA ChainsOfTwo ==
  ASSUME NEW chain \in Chains
  PROVE  /\ Len(chain) = 2 /\ DOMAIN chain = 1..2
         /\ chain[1] \in Middlewares /\ chain[2] \in Middlewares
BY DEF Chains, Middlewares

LEMMA ChainRuns ==
  ASSUME NEW chain \in Chains, NEW q \in Asking
  PROVE  /\ InChain(RunChain(chain, q))
         /\ RunChain(chain, q).go =>
              \A i \in DOMAIN chain : chain[i] = "jwt" => q.access # "denied"
         /\ q.method = "HEAD" =>
              RunChain(chain, [q EXCEPT !.method = "GET"]) = RunChain(chain, q)
<1> DEFINE s == Through(chain[1], q, Beginning)
           g == [q EXCEPT !.method = "GET"]
<1>1. RunChain(chain, q) = Through(chain[2], q, s)
  BY TwoInTurn, ChainsOfTwo
<1>2. InChain(s) /\ InChain(Through(chain[2], q, s))
  BY BeginsInChain, ThroughKeeps, ChainsOfTwo
<1>3. RunChain(chain, q).go =>
        \A i \in DOMAIN chain : chain[i] = "jwt" => q.access # "denied"
  <2>1. chain[1] = "jwt" /\ q.access = "denied" => ~s.go
    BY DeniedStops
  <2>2. ~s.go => ~Through(chain[2], q, s).go
    BY DeniedStops
  <2>3. chain[2] = "jwt" /\ q.access = "denied" => ~Through(chain[2], q, s).go
    BY DeniedStops
  <2> QED
    BY <1>1, <2>1, <2>2, <2>3, ChainsOfTwo
<1>4. ASSUME q.method = "HEAD"
      PROVE  RunChain(chain, g) = RunChain(chain, q)
  <2>1. RunChain(chain, g) = Through(chain[2], g, Through(chain[1], g, Beginning))
    BY TwoInTurn, ChainsOfTwo
  <2>2. Through(chain[1], g, Beginning) = s
    BY <1>4, HeadGoesAsGet, ChainsOfTwo
  <2>3. Through(chain[2], g, s) = Through(chain[2], q, s)
    BY <1>4, HeadGoesAsGet, ChainsOfTwo
  <2> QED
    BY <1>1, <2>1, <2>2, <2>3
<1> QED
  BY <1>1, <1>2, <1>3, <1>4

-----------------------------------------------------------------------------
(* What a response says of its body.                                       *)

Describes(r) ==
  /\ r \in TaskResponses /\ ~r.headOnly /\ r.encoding = r.coding
  /\ r.body \in {"text", "image"} => r.length = r.size
  /\ r.length = 0 => r.body = "none"

LEMMA ErrorDescribes ==
  ASSUME NEW r \in TaskResponses, ~r.headOnly, r.encoding = "none", NEW status \in Nat
  PROVE  Describes(Failed(r, status))
<1> DEFINE f == Failed(r, status)
<1>1. /\ f \in TaskResponses /\ f.body = "text" /\ f.size = 1 /\ f.length = 1
      /\ f.coding = "none" /\ f.encoding = "none" /\ ~f.headOnly
  BY FailedResponse
<1> HIDE DEF f
<1>2. Describes(f)
  BY <1>1 DEF Describes
<1> QED
  BY <1>2 DEF f

\* A handler makes a response of a known kind, which keeps the mark that it ran.
LEMMA HandlerMakes ==
  ASSUME NEW r \in TaskResponses, ~r.headOnly, r.coding = "none", r.encoding = "none",
         r.body = "none", setup \in Setups
  PROVE  /\ RunHandler(r) \in TaskResponses /\ ~RunHandler(r).headOnly
         /\ ~(setup.handler.label /\ setup.handler.throws) => Describes(RunHandler(r))
<1> DEFINE h == setup.handler
           ran == [r EXCEPT !.ran = TRUE]
           file == [[ran EXCEPT !.body = "file"] EXCEPT !.length = FileSize]
           body == WithBody(ran, h.body, h.size)
           bare == CASE h.body = "none" -> ran
                     [] h.body = "file" -> [ran EXCEPT !.body = "file", !.length = FileSize]
                     [] OTHER -> body
           made == IF h.label THEN [bare EXCEPT !.encoding = "own", !.coding = "own"] ELSE bare
<1>1. RunHandler(r) = IF h.throws THEN Failed(made, 500) ELSE made
  BY DEF RunHandler
<1>2. /\ h.body \in {"none", "file", "image", "text"} /\ h.size \in {1, 4, 5}
      /\ h.label \in BOOLEAN /\ h.throws \in BOOLEAN
  BY DEF Setups, HandlerKinds
<1>3. /\ ran \in TaskResponses /\ ~ran.headOnly /\ ran.coding = "none" /\ ran.encoding = "none"
      /\ ran.body = "none"
  BY DEF TaskResponses
<1> HIDE DEF ran, h
<1>4. file \in TaskResponses
  <2> DEFINE u == [ran EXCEPT !.body = "file"]
  <2>1. u \in TaskResponses
    BY <1>3, KnownKinds DEF TaskResponses
  <2> HIDE DEF u
  <2>2. [u EXCEPT !.length = FileSize] \in TaskResponses
    BY <2>1 DEF TaskResponses, FileSize
  <2> QED
    BY <2>2 DEF u
<1>5. /\ file.body = "file" /\ file.length = FileSize /\ ~file.headOnly
      /\ file.coding = "none" /\ file.encoding = "none"
  BY <1>3 DEF TaskResponses
<1>6. body \in TaskResponses
  <2> DEFINE u == [ran EXCEPT !.body = h.body]
             v == [u EXCEPT !.size = h.size]
             w == [v EXCEPT !.coding = "none"]
  <2>1. u \in TaskResponses
    BY <1>2, <1>3 DEF TaskResponses, Bodies
  <2> HIDE DEF u
  <2>2. v \in TaskResponses
    BY <1>2, <2>1 DEF TaskResponses
  <2> HIDE DEF v
  <2>3. w \in TaskResponses
    BY <2>2, KnownKinds DEF TaskResponses
  <2> HIDE DEF w
  <2>4. [w EXCEPT !.length = h.size] \in TaskResponses
    BY <1>2, <2>3 DEF TaskResponses
  <2>5. body = [w EXCEPT !.length = h.size]
    BY DEF u, v, w, WithBody
  <2> QED
    BY <2>4, <2>5
<1>7. /\ body.body = h.body /\ body.size = h.size /\ body.length = h.size
      /\ ~body.headOnly /\ body.coding = "none" /\ body.encoding = "none"
  BY <1>3 DEF TaskResponses, WithBody
<1>8. bare = IF h.body = "none" THEN ran ELSE IF h.body = "file" THEN file ELSE body
  BY <1>2
<1> HIDE DEF file, body
<1>9. Describes(ran) /\ Describes(file) /\ (h.body \in {"image", "text"} => Describes(body))
  BY <1>2, <1>3, <1>4, <1>5, <1>6, <1>7 DEF Describes, FileSize
<1>10. Describes(bare)
  BY <1>2, <1>8, <1>9
<1>11. bare.encoding = "none"
  BY <1>3, <1>5, <1>7, <1>8
<1> HIDE DEF bare
<1>12. Describes(made) /\ (~h.label => made.encoding = "none")
  <2> DEFINE u == [bare EXCEPT !.encoding = "own"]
             v == [u EXCEPT !.coding = "own"]
  <2>1. "own" \in Labels
    BY DEF Labels
  <2>2. u \in TaskResponses
    BY <1>10, <2>1 DEF TaskResponses, Describes
  <2>3. v \in TaskResponses
    <3> HIDE DEF u
    <3> QED
      BY <2>1, <2>2 DEF TaskResponses
  <2>4. /\ v.encoding = "own" /\ v.coding = "own" /\ v.headOnly = bare.headOnly
        /\ v.body = bare.body /\ v.length = bare.length /\ v.size = bare.size
    BY <1>10 DEF TaskResponses, Describes
  <2>5. made = IF h.label THEN v ELSE bare
    OBVIOUS
  <2> HIDE DEF v, u, made
  <2>6. Describes(v)
    BY <1>10, <2>3, <2>4 DEF Describes
  <2> QED
    BY <1>2, <1>10, <1>11, <2>5, <2>6
<1> HIDE DEF made
<1>13. made \in TaskResponses /\ ~made.headOnly
  BY <1>12 DEF Describes
<1>14. Failed(made, 500) \in TaskResponses /\ ~Failed(made, 500).headOnly
  BY <1>13, FailedResponse
<1>15. ~h.label => Describes(Failed(made, 500))
  BY <1>12, <1>13, ErrorDescribes
<1> DEFINE out == RunHandler(r)
<1>16. out = IF h.throws THEN Failed(made, 500) ELSE made
  BY <1>1
<1> HIDE DEF out
<1>17. CASE h.throws
  <2>1. out = Failed(made, 500)
    BY <1>16, <1>17
  <2>2. ~h.label => Describes(out)
    BY <1>15, <2>1 DEF Describes
  <2> QED
    BY <1>14, <1>17, <2>1, <2>2 DEF h, out
<1>18. CASE ~h.throws
  <2>1. out = made
    BY <1>16, <1>18
  <2> QED
    BY <1>12, <1>13, <2>1 DEF h, out, Describes
<1> QED
  BY <1>17, <1>18

\* A coder changes what a response says of its body along with the body.
LEMMA CompressKeeps ==
  ASSUME NEW q, NEW r \in TaskResponses, ~r.headOnly
  PROVE  /\ MaybeCompress(q, r) \in TaskResponses /\ ~MaybeCompress(q, r).headOnly
         /\ MaybeCompress(q, r).ran = r.ran
         /\ Describes(r) => Describes(MaybeCompress(q, r))
<1> DEFINE codings == q.accepts \cap setup.coders
           coding == IF "br" \in codings THEN "br" ELSE "gzip"
           body == WithBody(r, "text", 2)
           coded == [body EXCEPT !.coding = coding, !.encoding = coding, !.vary = TRUE]
<1>1. \/ MaybeCompress(q, r) = r
      \/ MaybeCompress(q, r) = coded
  BY DEF MaybeCompress
<1>2. coding \in Labels
  BY DEF Labels, Codings
<1> HIDE DEF coding
<1>3. body \in TaskResponses
  <2> DEFINE u == [r EXCEPT !.body = "text"]
             v == [u EXCEPT !.size = 2]
             w == [v EXCEPT !.coding = "none"]
  <2>1. u \in TaskResponses
    BY KnownKinds DEF TaskResponses
  <2> HIDE DEF u
  <2>2. v \in TaskResponses
    BY <2>1 DEF TaskResponses
  <2> HIDE DEF v
  <2>3. w \in TaskResponses
    BY <2>2, KnownKinds DEF TaskResponses
  <2> HIDE DEF w
  <2>4. [w EXCEPT !.length = 2] \in TaskResponses
    BY <2>3 DEF TaskResponses
  <2>5. body = [w EXCEPT !.length = 2]
    BY DEF u, v, w, WithBody
  <2> QED
    BY <2>4, <2>5
<1>4. /\ body.body = "text" /\ body.size = 2 /\ body.length = 2
      /\ body.headOnly = r.headOnly /\ body.ran = r.ran
  BY DEF WithBody, TaskResponses
<1> HIDE DEF body
<1>5. coded \in TaskResponses
  <2> DEFINE u == [body EXCEPT !.coding = coding]
             v == [u EXCEPT !.encoding = coding]
  <2>1. u \in TaskResponses
    BY <1>2, <1>3 DEF TaskResponses
  <2> HIDE DEF u
  <2>2. v \in TaskResponses
    BY <1>2, <2>1 DEF TaskResponses
  <2> HIDE DEF v
  <2>3. [v EXCEPT !.vary = TRUE] \in TaskResponses
    BY <2>2 DEF TaskResponses
  <2>4. coded = [v EXCEPT !.vary = TRUE]
    BY DEF u, v
  <2> QED
    BY <2>3, <2>4
<1>6. /\ coded.body = "text" /\ coded.size = 2 /\ coded.length = 2
      /\ coded.headOnly = r.headOnly /\ coded.ran = r.ran
      /\ coded.coding = coding /\ coded.encoding = coding
  BY <1>3, <1>4 DEF TaskResponses
<1> HIDE DEF coded
<1>7. Describes(coded)
  BY <1>5, <1>6 DEF Describes
<1> DEFINE out == MaybeCompress(q, r)
<1> HIDE DEF out
<1>8. CASE out = r
  BY <1>8 DEF out
<1>9. CASE out = coded
  BY <1>5, <1>6, <1>7, <1>9 DEF out
<1> QED
  BY <1>1, <1>8, <1>9 DEF out

\* The three ways a response leaves the semantics of HTTP, given its mark of HEAD.
Plainly(r) == r
Emptied(r, status) == [[r EXCEPT !.length = 0, !.headOnly = TRUE] EXCEPT !.status = status]
Partly(r) == [r EXCEPT !.status = 206, !.length = PartSize]

Marked(r, q) == [r EXCEPT !.headOnly = @ \/ q.method = "HEAD"]

LEMMA WaysOut ==
  ASSUME NEW q \in Asking, NEW r0
  PROVE  LET r == Marked(r0, q) IN
         ApplySemantics(q, r0) =
           IF r.body # "file" \/ q.asks = "all" THEN r
           ELSE IF q.asks = "part" THEN Partly(r)
           ELSE IF q.asks = "beyond" THEN Emptied(r, 416)
           ELSE IF q.method \in {"GET", "HEAD"} THEN Emptied(r, 304)
           ELSE r
<1> DEFINE r == Marked(r0, q)
<1>1. q.asks \in {"all", "if changed", "part", "beyond"}
  BY DEF Asking
<1> DEFINE e304 == Emptied(r, 304)
           e416 == Emptied(r, 416)
           e206 == Partly(r)
<1>2. ApplySemantics(q, r0) =
        IF r.body # "file" THEN r
        ELSE CASE q.asks = "all" -> r
               [] q.asks = "if changed" -> IF q.method \in {"GET", "HEAD"} THEN e304 ELSE r
               [] q.asks = "part" -> e206
               [] q.asks = "beyond" -> e416
  BY DEF ApplySemantics, Marked, Emptied, Partly
<1> HIDE DEF r, e304, e416, e206
<1>3. ApplySemantics(q, r0) =
           IF r.body # "file" \/ q.asks = "all" THEN r
           ELSE IF q.asks = "part" THEN e206
           ELSE IF q.asks = "beyond" THEN e416
           ELSE IF q.method \in {"GET", "HEAD"} THEN e304
           ELSE r
  BY <1>1, <1>2
<1> QED
  BY <1>3 DEF r, e304, e416, e206

LEMMA SemanticsKeep ==
  ASSUME NEW q \in Asking, NEW r0 \in TaskResponses
  PROVE  /\ ApplySemantics(q, r0).ran = r0.ran
         /\ Describes(r0) => Consistent(ApplySemantics(q, r0))
<1> DEFINE r == Marked(r0, q)
           out == ApplySemantics(q, r0)
<1>1. /\ r \in TaskResponses /\ r.ran = r0.ran /\ r.encoding = r0.encoding
      /\ r.coding = r0.coding /\ r.body = r0.body /\ r.length = r0.length
      /\ r.size = r0.size
  BY DEF Marked, TaskResponses
<1>2. \/ out = r
      \/ r.body = "file" /\ out = Partly(r)
      \/ r.body = "file" /\ out = Emptied(r, 416)
      \/ r.body = "file" /\ out = Emptied(r, 304)
  BY WaysOut
<1> HIDE DEF r, out
<1>3. CASE out = r
  <2>1. Describes(r0) => Consistent(r)
    BY <1>1 DEF Consistent, Describes
  <2> QED
    BY <1>1, <1>3, <2>1 DEF out, Consistent
<1>4. CASE r.body = "file" /\ out = Partly(r)
  <2>1. /\ out.ran = r.ran /\ out.encoding = r.encoding /\ out.coding = r.coding
        /\ out.body = "file" /\ out.length = PartSize
    BY <1>1, <1>4 DEF Partly, TaskResponses
  <2>2. Describes(r0) => Consistent(out)
    BY <1>1, <2>1 DEF Consistent, Describes, PartSize
  <2> QED
    BY <1>1, <2>1, <2>2 DEF out
<1>5. ASSUME NEW status, r.body = "file", out = Emptied(r, status)
      PROVE  /\ out.ran = r0.ran
             /\ Describes(r0) => Consistent(out)
  <2>1. /\ out.ran = r.ran /\ out.encoding = r.encoding /\ out.coding = r.coding
        /\ out.body = "file" /\ out.headOnly
    BY <1>1, <1>5 DEF Emptied, TaskResponses
  <2> QED
    BY <1>1, <2>1 DEF Consistent, Describes
<1> QED
  BY <1>2, <1>3, <1>4, <1>5 DEF out

\* The mark of HEAD is all that the semantics do otherwise for HEAD than for GET.
LEMMA HeadIsMarked ==
  ASSUME NEW q \in Asking, q.method = "HEAD", NEW r \in TaskResponses, ~r.headOnly
  PROVE  ApplySemantics(q, r) =
           [ApplySemantics([q EXCEPT !.method = "GET"], r) EXCEPT !.headOnly = TRUE]
<1> DEFINE g == [q EXCEPT !.method = "GET"]
           m == [r EXCEPT !.headOnly = TRUE]
<1>1. g \in Asking /\ g.method = "GET" /\ g.asks = q.asks
  BY DEF Asking
<1> HIDE DEF g
<1>2. Marked(r, q) = m /\ Marked(r, g) = r
  BY <1>1 DEF Marked, TaskResponses
<1>3. m.body = r.body
  BY DEF TaskResponses
<1>4. Partly(m) = [Partly(r) EXCEPT !.headOnly = TRUE]
  BY ZenonT(30) DEF Partly, TaskResponses
<1>5. \A s : Emptied(m, s) = [Emptied(r, s) EXCEPT !.headOnly = TRUE]
  BY DEF Emptied, TaskResponses
<1> HIDE DEF m
<1> DEFINE aq == ApplySemantics(q, r)
           ag == ApplySemantics(g, r)
<1>6. aq = IF r.body # "file" \/ q.asks = "all" THEN m
           ELSE IF q.asks = "part" THEN Partly(m)
           ELSE IF q.asks = "beyond" THEN Emptied(m, 416)
           ELSE Emptied(m, 304)
  BY <1>2, <1>3, WaysOut
<1>7. ag = IF r.body # "file" \/ q.asks = "all" THEN r
           ELSE IF q.asks = "part" THEN Partly(r)
           ELSE IF q.asks = "beyond" THEN Emptied(r, 416)
           ELSE Emptied(r, 304)
  BY <1>1, <1>2, WaysOut
<1> HIDE DEF aq, ag
<1>8. aq = [ag EXCEPT !.headOnly = TRUE]
  BY ZenonT(30), <1>4, <1>5, <1>6, <1>7 DEF m
<1> QED
  BY <1>8 DEF aq, ag, g

-----------------------------------------------------------------------------
(* The whole task.                                                         *)

\* What the last two steps of the task are given.
Made(q) ==
  LET chained == RunChain(setup.chain, q) IN
    IF ~chained.go THEN chained.res
    ELSE IF RouteFound(q) THEN RunHandler(chained.res)
    ELSE Failed(chained.res, 404)

LEMMA AnswerIsFinished ==
  ASSUME NEW q
  PROVE  Answer(q) = ApplySemantics(q, MaybeCompress(q, Made(q)))
BY DEF Answer, Finished, Made

LEMMA MadeResponse ==
  ASSUME setup \in Setups, NEW q \in Asking
  PROVE  /\ Made(q) \in TaskResponses /\ ~Made(q).headOnly
         /\ ~(setup.handler.label /\ setup.handler.throws) => Describes(Made(q))
         /\ Made(q).ran => RunChain(setup.chain, q).go
<1> DEFINE s == RunChain(setup.chain, q)
           r == s.res
<1>1. InChain(s)
  BY ChainRuns DEF Setups
<1>2. /\ r \in TaskResponses /\ ~r.ran /\ ~r.headOnly /\ r.coding = "none"
      /\ r.encoding = "none" /\ (s.go => r.body = "none")
  BY <1>1 DEF InChain
<1>3. Describes(r)
  <2>1. r.body = "none" \/ (r.body = "text" /\ r.size = 1 /\ r.length = 1)
    BY <1>1 DEF InChain
  <2> HIDE DEF r
  <2> QED
    BY <1>2, <2>1 DEF Describes
<1>4. Made(q) = IF ~s.go THEN r ELSE IF RouteFound(q) THEN RunHandler(r) ELSE Failed(r, 404)
  BY DEF Made
<1>5. s.go \in BOOLEAN
  BY <1>1 DEF InChain
<1> HIDE DEF r, s
<1> DEFINE m == Made(q)
<1> HIDE DEF m
<1>6. CASE ~s.go
  <2>1. m = r
    BY <1>4, <1>6 DEF m
  <2> QED
    BY <1>2, <1>3, <2>1 DEF m, s
<1>7. CASE s.go /\ RouteFound(q)
  <2>1. m = RunHandler(r)
    BY <1>4, <1>7 DEF m
  <2> QED
    BY <1>2, <1>7, <2>1, HandlerMakes DEF m, s
<1>8. CASE s.go /\ ~RouteFound(q)
  <2>1. m = Failed(r, 404)
    BY <1>4, <1>8 DEF m
  <2>2. /\ Failed(r, 404) \in TaskResponses /\ ~Failed(r, 404).headOnly
        /\ Failed(r, 404).ran = r.ran
    BY <1>2, FailedResponse
  <2>3. Describes(Failed(r, 404))
    BY <1>2, ErrorDescribes
  <2> QED
    BY <1>2, <1>8, <2>1, <2>2, <2>3 DEF m, s
<1> QED
  BY <1>5, <1>6, <1>7, <1>8

\* The fallback of find_route: up to the semantics the task of HEAD is that of GET.
LEMMA HeadIsMadeAsGet ==
  ASSUME setup \in Setups, NEW q \in Asking, q.method = "HEAD", "HEAD" \notin setup.routes
  PROVE  LET g == [q EXCEPT !.method = "GET"] IN
           MaybeCompress(g, Made(g)) = MaybeCompress(q, Made(q))
<1> DEFINE g == [q EXCEPT !.method = "GET"]
<1>1. g.method = "GET" /\ g.accepts = q.accepts
  BY DEF Asking
<1>2. RunChain(setup.chain, g) = RunChain(setup.chain, q)
  BY ChainRuns DEF Setups
<1> HIDE DEF g
<1>3. RouteFound(g) = RouteFound(q)
  BY <1>1 DEF RouteFound
<1>4. Made(g) = Made(q)
  BY <1>2, <1>3 DEF Made
<1>5. \A r : MaybeCompress(g, r) = MaybeCompress(q, r)
  BY <1>1 DEF MaybeCompress
<1> QED
  BY <1>4, <1>5 DEF g

LEMMA AnswerOfGet ==
  ASSUME setup \in Setups, NEW q \in Asking, q.method = "HEAD", "HEAD" \notin setup.routes
  PROVE  Answer(q) = [Answer([q EXCEPT !.method = "GET"]) EXCEPT !.headOnly = TRUE]
<1> DEFINE g == [q EXCEPT !.method = "GET"]
           r == MaybeCompress(q, Made(q))
<1>1. r \in TaskResponses /\ ~r.headOnly
  BY MadeResponse, CompressKeeps
<1>2. r = MaybeCompress(g, Made(g))
  BY HeadIsMadeAsGet
<1>3. Answer(q) = ApplySemantics(q, r)
  BY AnswerIsFinished
<1>4. Answer(g) = ApplySemantics(g, r)
  BY <1>2, AnswerIsFinished
<1> HIDE DEF r
<1>5. ApplySemantics(q, r) = [ApplySemantics(g, r) EXCEPT !.headOnly = TRUE]
  BY <1>1, HeadIsMarked
<1> QED
  BY <1>3, <1>4, <1>5

LEMMA AnswerDescribes ==
  ASSUME setup \in Setups, NEW q \in Asking
  PROVE  /\ ~(setup.handler.label /\ setup.handler.throws) => Consistent(Answer(q))
         /\ Answer(q).ran => \A i \in DOMAIN setup.chain :
              setup.chain[i] = "jwt" => q.access # "denied"
<1> DEFINE m == Made(q)
           r == MaybeCompress(q, m)
<1>1. Answer(q) = ApplySemantics(q, r)
  BY AnswerIsFinished
<1>2. /\ m \in TaskResponses /\ ~m.headOnly
      /\ ~(setup.handler.label /\ setup.handler.throws) => Describes(m)
      /\ m.ran => RunChain(setup.chain, q).go
  BY MadeResponse
<1> HIDE DEF m
<1>3. r \in TaskResponses /\ r.ran = m.ran /\ (Describes(m) => Describes(r))
  BY <1>2, CompressKeeps
<1> HIDE DEF r
<1>4. /\ ApplySemantics(q, r).ran = r.ran
      /\ Describes(r) => Consistent(ApplySemantics(q, r))
  BY <1>3, SemanticsKeep
<1>5. RunChain(setup.chain, q).go => \A i \in DOMAIN setup.chain :
        setup.chain[i] = "jwt" => q.access # "denied"
  BY ChainRuns DEF Setups
<1>6. ~(setup.handler.label /\ setup.handler.throws) => Consistent(Answer(q))
  BY <1>1, <1>2, <1>3, <1>4 DEF Describes, Consistent
<1>7. Answer(q).ran => RunChain(setup.chain, q).go
  BY <1>1, <1>2, <1>3, <1>4
<1> QED
  BY <1>5, <1>6, <1>7

\* A response that is there is the answer to the request.
TaskInv ==
  /\ setup \in Setups /\ request \in Asking
  /\ res # NoResponse => res = Answer(request)

LEMMA AnswerUnmoved ==
  ASSUME setup' = setup, request' = request
  PROVE  Answer(request)' = Answer(request)
BY DEF Answer, Finished, RouteFound, RunHandler, MaybeCompress

LEMMA NextTaskInv == TaskInv /\ [ReplyNext]_replyVars => TaskInv'
<1> SUFFICES ASSUME TaskInv, [ReplyNext]_replyVars
             PROVE  TaskInv'
  OBVIOUS
<1>1. setup' = setup /\ request' = request
  BY DEF ReplyNext, Serve, ReplyOver, replyVars
<1>2. Answer(request)' = Answer(request)
  BY <1>1, AnswerUnmoved
<1>3. res' = res \/ res' = Answer(request)
  BY DEF ReplyNext, Serve, ReplyOver, replyVars
<1>4. setup' \in Setups /\ request' \in Asking
  BY <1>1 DEF TaskInv
<1>5. res' # NoResponse => res' = Answer(request)'
  BY <1>2, <1>3 DEF TaskInv
<1>6. NoResponse' = NoResponse
  BY DEF NoResponse, Blank
<1> QED
  BY <1>4, <1>5, <1>6 DEF TaskInv

\* HEAD is told what GET would be, by the whole of the task - middlewares that refuse
\* or throw, the route of GET, the handler and its exceptions, compression, validators
\* and ranges - and a response describes its body, whatever the chain, the handler and
\* the settings.
THEOREM HeadToldAsGet == ReplySpec => []HeadAsGet
<1>1. ReplyInit => TaskInv
  BY DEF ReplyInit, TaskInv
<1>2. TaskInv => HeadAsGet
  BY AnswerOfGet, AnswerDescribes DEF TaskInv, HeadAsGet
<1> QED
  BY <1>1, <1>2, NextTaskInv, PTL DEF ReplySpec

-----------------------------------------------------------------------------
(* All of MCServices: what each variable holds.                            *)

\* A step of MCServices is a step of one part, and leaves the others alone.
LEMMA ServicesApart ==
  ServicesSpec => LimiterSpec /\ TimeoutsSpec /\ LoggerSpec /\ MetricsSpec /\ ViewsSpec
<1>1. ServicesInit => LimiterInit /\ TimeoutsInit /\ LoggerInit /\ MetricsInit /\ ViewsInit
  BY DEF ServicesInit
<1> DEFINE Moves == [ServicesNext]_<<part, limiterVars, routerVars, parserVars, timeoutVars,
                                     logVars, metricsVars, replyVars, appVars, viewVars>>
<1>2. Moves => [LimiterNext]_limiterVars
  BY DEF ServicesNext
<1>3. Moves => [TimeoutsNext]_timeoutVars
  BY DEF ServicesNext
<1>4. Moves => [LoggerNext]_logVars
  BY DEF ServicesNext
<1>5. Moves => [MetricsNext]_metricsVars
  BY DEF ServicesNext
<1>6. Moves => [ViewsNext]_viewVars
  BY DEF ServicesNext
<1> QED
  BY <1>1, <1>2, <1>3, <1>4, <1>5, <1>6, PTL
     DEF ServicesSpec, LimiterSpec, TimeoutsSpec, LoggerSpec, MetricsSpec, ViewsSpec

\* Every part of MCServices keeps its types, for any of its constants: buckets of the
\* limiter, clocks of the timeouts, the files of the log, the counters and the buckets of
\* the histogram, which count no more than there were requests, and the blocks of requests.
THEOREM ServicesKeepTheirTypes == ServicesSpec => []ServicesTypeOK
<1>1. LogInv /\ SizeInv => LoggerTypeOK
  BY DEF LogInv, SizeInv, LoggerTypeOK, LogFiles
<1>2. ViewsInv => ViewsTypeOK
  BY DEF ViewsInv
<1>3. LoggerSpec => []LoggerTypeOK
  BY <1>1, InitLogInv, InitSizeInv, NextLogInv, NextSizeInv, PTL DEF LoggerSpec
<1>4. ViewsSpec => []ViewsTypeOK
  BY <1>2, InitViewsInv, NextViewsInv, PTL DEF ViewsSpec
<1>5. LimiterTypeOK /\ TimeoutsTypeOK /\ LoggerTypeOK /\ MetricsTypeOK /\ ViewsTypeOK
        => ServicesTypeOK
  BY DEF ServicesTypeOK
<1> QED
  BY <1>3, <1>4, <1>5, ServicesApart, LimiterTypeCorrect, TimeoutsTypeCorrect,
     CountersStayBounded, PTL
=============================================================================
