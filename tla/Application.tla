----------------------------- MODULE Application -----------------------------
(***************************************************************************)
(* Handlers that use a database, on several workers at once: the notes of  *)
(* src/src/main.cpp, the accounts of src/examples/03_rest_crud_db.cpp and  *)
(* 06_video_platform.cpp, over SqliteBackend::run_impl                     *)
(* (src/src/platform/SqliteBackend.cpp).  A handler is a sequence of       *)
(* statements, each on a connection of its own choice of the pool; nothing *)
(* holds them together.  ConnPool has the pool itself.                     *)
(*                                                                         *)
(* The table of accounts refuses a name or an e-mail address it has; any   *)
(* statement may fail (the database is busy).                              *)
(*                                                                         *)
(* An operator whose name starts with Faulty is a mutant of the definition *)
(* that follows it.                                                        *)
(***************************************************************************)
EXTENDS Naturals, Sequences

CONSTANTS
  Clients,   \* clients, each with one request and a worker that serves it
  Conns,     \* the connections of the pool
  Usernames, \* names and addresses of accounts
  NoConn     \* none of them

ASSUME ApplicationAssumption == NoConn \notin Conns

VARIABLES
  wants,    \* the request of each client
  handler,  \* where its handler is, the connection it holds, what a statement returned
  free,     \* the connections nobody holds
  lastId,   \* sqlite3_last_insert_rowid of each connection
  accounts, \* the table users: name, address, and the client whose password it has
  notes,    \* the table notes: the client of each row
  answers   \* what each client was answered

appVars == <<wants, handler, free, lastId, accounts, notes, answers>>

\* A login is with the password of the client `as'.
AppRequests == [kind : {"register"}, name : Usernames, mail : Usernames]
               \cup [kind : {"login"}, name : Usernames, as : Clients]
               \cup [kind : {"note"}]

Unanswered == [status |-> 0, id |-> 0]
Start == [at |-> "start", conn |-> NoConn, ok |-> FALSE, row |-> {}, id |-> 0]

ApplicationInit ==
  /\ wants \in [Clients -> AppRequests]
  /\ handler = [c \in Clients |-> Start]
  /\ free = Conns /\ lastId = [h \in Conns |-> 0]
  /\ accounts = {} /\ notes = <<>>
  /\ answers = [c \in Clients |-> Unanswered]

-----------------------------------------------------------------------------
(* run_impl: acquire, the statement, what is read off the connection.      *)

\* A connection is taken whether or not another caller has it.
FaultyAvailable == Conns

\* What acquire may return; it waits while there is none.
Available == free

\* The statement a handler starts with, or goes on with.
NextStatement(c) ==
  IF handler[c].at = "start"
  THEN IF wants[c].kind = "note" THEN "insert" ELSE "find"
  ELSE "insert"

Acquire(c) ==
  /\ handler[c].at \in {"start", "absent"}
  /\ \E h \in Available :
       /\ free' = free \ {h}
       /\ handler' = [handler EXCEPT ![c].at = NextStatement(c), ![c].conn = h]
  /\ UNCHANGED <<wants, lastId, accounts, notes, answers>>

\* Prepare or step fails.
StatementFails(c) ==
  /\ handler[c].at \in {"find", "insert"}
  /\ handler' = [handler EXCEPT ![c].at = IF @ = "find" THEN "found" ELSE "inserted",
                                ![c].ok = FALSE, ![c].row = {}]
  /\ UNCHANGED <<wants, free, lastId, accounts, notes, answers>>

\* SELECT by name.
Select(c) ==
  /\ handler[c].at = "find"
  /\ handler' = [handler EXCEPT ![c].at = "found", ![c].ok = TRUE,
                                ![c].row = {a \in accounts : a.name = wants[c].name}]
  /\ UNCHANGED <<wants, free, lastId, accounts, notes, answers>>

\* POST /api/notes: INSERT.
InsertNote(c) ==
  /\ handler[c].at = "insert" /\ wants[c].kind = "note"
  /\ notes' = Append(notes, c)
  /\ lastId' = [lastId EXCEPT ![handler[c].conn] = Len(notes) + 1]
  /\ handler' = [handler EXCEPT ![c].at = "inserted", ![c].ok = TRUE]
  /\ UNCHANGED <<wants, free, accounts, answers>>

\* create_user: INSERT; a row that violates UNIQUE is StatementFails.
CreateUser(c) ==
  /\ handler[c].at = "insert" /\ wants[c].kind = "register"
  /\ \A a \in accounts : a.name # wants[c].name /\ a.mail # wants[c].mail
  /\ accounts' = accounts \cup {[name |-> wants[c].name, mail |-> wants[c].mail, by |-> c]}
  /\ handler' = [handler EXCEPT ![c].at = "inserted", ![c].ok = TRUE]
  /\ UNCHANGED <<wants, free, lastId, notes, answers>>

\* The end of run_impl: the connection goes back, and the handler goes on.
GoOn(c, at) ==
  /\ free' = free \cup {handler[c].conn}
  /\ handler' = [handler EXCEPT ![c].at = at, ![c].conn = NoConn]
  /\ UNCHANGED <<wants, lastId, accounts, notes>>

Reply(c, status, id) == answers' = [answers EXCEPT ![c] = [status |-> status, id |-> id]]

\* POST /api/register after the look-up.
RegisterFound(c) ==
  /\ handler[c].at = "found" /\ wants[c].kind = "register"
  /\ IF handler[c].row = {} THEN GoOn(c, "absent") /\ UNCHANGED answers
     ELSE GoOn(c, "end") /\ Reply(c, 409, 0)

\* POST /api/login after the look-up.
Login(c) ==
  /\ handler[c].at = "found" /\ wants[c].kind = "login"
  /\ GoOn(c, "end")
  /\ Reply(c, IF \E a \in handler[c].row : a.by = wants[c].as THEN 200 ELSE 401, 0)

\* Any of them after the insertion; run_impl has read last_insert_id.
Inserted(c) ==
  /\ handler[c].at = "inserted"
  /\ GoOn(c, "end")
  /\ IF handler[c].ok THEN Reply(c, 201, lastId[handler[c].conn]) ELSE Reply(c, 500, 0)

ApplicationOver ==
  /\ \A c \in Clients : handler[c].at = "end"
  /\ UNCHANGED appVars

ApplicationNext ==
  \/ \E c \in Clients :
       \/ Acquire(c) \/ StatementFails(c) \/ Select(c) \/ InsertNote(c) \/ CreateUser(c)
       \/ RegisterFound(c) \/ Login(c) \/ Inserted(c)
  \/ ApplicationOver

ApplicationSpec == ApplicationInit /\ [][ApplicationNext]_appVars

-----------------------------------------------------------------------------
(* Properties.                                                             *)

\* What a client is told is so (POST /api/notes, /api/users, /api/register and
\* /api/login): an account is created for exactly those that are told 201, although
\* the look-up and the insertion are two statements; 409 means that somebody else
\* has the name, a 200 that the password is the account's, and the id a client gets
\* for its note is that of its note, although others insert meanwhile.  Of two that
\* register a name at once, one is told 500 where 409 is meant.
AnswersTrue ==
  \A c \in Clients :
    LET q == wants[c]
        status == answers[c].status
        mine == {a \in accounts : a.by = c}
    IN
    /\ q.kind = "register" /\ status # 0 =>
         /\ status = 201 <=> mine # {}
         /\ status = 409 => \E a \in accounts : a.name = q.name /\ a.by # c
    /\ q.kind = "login" /\ status = 200 =>
         \E a \in accounts : a.name = q.name /\ a.by = q.as
    /\ q.kind = "note" /\ status = 201 => notes[answers[c].id] = c
    /\ \A a \in accounts : a.by # c \/ a = [name |-> q.name, mail |-> q.mail, by |-> c]
=============================================================================
