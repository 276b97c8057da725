----------------------------- MODULE Lifecycle -----------------------------
(***************************************************************************)
(* The life of the program, from Config::load to the exit of main          *)
(* (src/src/main.cpp): what the configuration file and the environment     *)
(* settle, the set-up of the listening server, in which every system call  *)
(* may fail, run() and the teardown, with a signal at any point.           *)
(*                                                                         *)
(* The connections are Server's.  Of the configuration there are the port  *)
(* (before htons cuts it to 16 bits), the number of threads and TLS; the   *)
(* other settings are read like them.                                      *)
(*                                                                         *)
(* An operator whose name starts with Faulty is a mutant of the definition *)
(* that follows it.                                                        *)
(***************************************************************************)
CONSTANTS
  FilePort, EnvPort, DefaultPort, \* the port that each of them would have
  Unset                           \* no such key, no such variable

ASSUME LifecycleAssumption == Unset \notin {FilePort, EnvPort, DefaultPort}

VARIABLES
  told,      \* the configuration file and the environment
  config,    \* ServerConfig, or Unset
  step,      \* where main is
  leaving,   \* main has left the scope of the server
  handlers,  \* the signal handlers are installed, g_server points to the server
  stopping,  \* stop_requested_
  loopState, \* of run: "idle", "accepting" or "draining" (running_, draining_)
  fd,        \* descriptors; "stale": closed, and the field still holds the number
  twice,     \* history: descriptors closed through a stale field
  crew,      \* the worker threads
  database,
  status,    \* the exit status, Unset until it is settled
  signalled  \* history: a handler ran

lifeVars == <<told, config, step, leaving, handlers, stopping, loopState, fd, twice, crew,
              database, status, signalled>>

Descriptors == {"listen", "epoll", "pipe"}

Certificates == {"none", "bad", "good"}

\* What a file may say.  It sets the keys it has; the default of thread_pool_size is
\* several, and zero is made one.  A section "tls" that is no object is passed over.
Contents == [port : {Unset, FilePort}, threads : {"one", "several", "negative"},
             tls : BOOLEAN, cert : Certificates]

Silent == [port |-> Unset, threads |-> "several", tls |-> FALSE, cert |-> "none"]

\* envPort is what std::stoi makes of the text: the number that it starts with, or
\* nothing.
Told == [file : {"missing", "malformed", "mistyped"}, says : {Silent},
         envPort : {Unset, EnvPort}, envCert : {"none", "good"}]
        \cup [file : {"read"}, says : Contents,
              envPort : {Unset, EnvPort}, envCert : {"none", "good"}]

LifeInit ==
  /\ told \in Told
  /\ config = Unset /\ step = "load"
  /\ leaving = FALSE /\ handlers = FALSE /\ stopping = FALSE /\ loopState = "idle"
  /\ fd = [d \in Descriptors |-> "none"] /\ twice = {}
  /\ crew = "none" /\ database = "none" /\ status = Unset /\ signalled = FALSE

-----------------------------------------------------------------------------
(* Closing descriptors.                                                    *)

\* close(fd); fd = -1, for those whose fields hold a number.
CloseFields(D) ==
  /\ fd' = [d \in Descriptors |-> IF d \in D THEN "none" ELSE fd[d]]
  /\ twice' = twice \cup {d \in D : fd[d] = "stale"}

\* close(fd), and nothing else.
Stale(f, D) == [d \in Descriptors |-> IF d \in D THEN "stale" ELSE f[d]]

-----------------------------------------------------------------------------
(* The configuration.                                                      *)

\* Config::load, of a file that can be read or is not there: defaults, the file, the
\* environment.
Resolved ==
  [port |-> IF told.envPort # Unset THEN told.envPort
            ELSE IF told.says.port # Unset THEN told.says.port ELSE DefaultPort,
   threads |-> told.says.threads, tls |-> told.says.tls,
   cert |-> IF told.envCert # "none" THEN told.envCert ELSE told.says.cert]

\* An exception leaves main's try block, or main returns: what lives is destroyed.
Unwind ==
  /\ status' = "failure" /\ leaving' = TRUE
  /\ step' = IF crew # "none" THEN "stop" ELSE IF database = "open" THEN "database" ELSE "ended"

\* Config::load.  A file that is no JSON object or has a value of another type throws.
Load ==
  /\ step = "load"
  /\ IF told.file \in {"malformed", "mistyped"} THEN Unwind /\ UNCHANGED config
     ELSE config' = Resolved /\ step' = "open" /\ UNCHANGED <<status, leaving>>
  /\ UNCHANGED <<told, handlers, stopping, loopState, fd, twice, crew, database, signalled>>

-----------------------------------------------------------------------------
(* Set-up.                                                                 *)

\* create_directories and the DatabaseManager, which may throw.  The pools close what
\* they have opened before they do, except when a PRAGMA of SQLite fails: no destructor
\* runs, and that connection and those before it are left ("leaked").  db.exec reports
\* errors in its result, which is not read.
OpenDatabase ==
  /\ step = "open"
  /\ \/ Unwind /\ database' \in {"none", "leaked"}
     \/ database' = "open" /\ step' = "crew" /\ UNCHANGED <<status, leaving>>
  /\ UNCHANGED <<told, config, handlers, stopping, loopState, fd, twice, crew, signalled>>

\* std::terminate, or the default action of a signal.
Die(how) == step' = "ended" /\ status' = how /\ UNCHANGED leaving

\* The constructor of Server makes the threads.  Without the first, the exception
\* reaches main; without a later one, the vector destroys threads that can be joined.
\* thread_pool_size is converted to size_t: less than zero, they are never enough.
MakeThreads ==
  /\ step = "crew"
  /\ \/ Unwind /\ UNCHANGED crew
     \/ config.threads # "one" /\ Die("aborted") /\ UNCHANGED crew
     \/ config.threads # "negative" /\ crew' = "working" /\ step' = "options"
          /\ UNCHANGED <<status, leaving>>
  /\ UNCHANGED <<told, config, handlers, stopping, loopState, fd, twice, database, signalled>>

\* configure, enable_tls, then g_server and the handlers.
Enable ==
  /\ step = "options"
  /\ IF config.tls /\ config.cert # "good" THEN Unwind /\ UNCHANGED handlers
     ELSE handlers' = TRUE /\ step' = "socket" /\ UNCHANGED <<status, leaving>>
  /\ UNCHANGED <<told, config, stopping, loopState, fd, twice, crew, database, signalled>>

\* listen returns false.
SetUpFails(f) == fd' = f /\ Unwind

Opened(d, next) == fd' = [fd EXCEPT ![d] = "open"] /\ step' = next /\ UNCHANGED <<status, leaving>>

\* socket() fails, or one of the calls that follow it, or the address is none.
SetupSocket ==
  /\ step = "socket"
  /\ SetUpFails(fd) \/ SetUpFails(Stale(fd, {"listen"})) \/ Opened("listen", "epoll")
  /\ UNCHANGED <<told, config, handlers, stopping, loopState, twice, crew, database, signalled>>

\* epoll_create1 or epoll_ctl fails; listen closes the socket.
SetupEpoll ==
  /\ step = "epoll"
  /\ \/ SetUpFails(Stale(fd, {"listen"})) \/ SetUpFails(Stale(fd, {"listen", "epoll"}))
     \/ Opened("epoll", "wakeup")
  /\ UNCHANGED <<told, config, handlers, stopping, loopState, twice, crew, database, signalled>>

\* pipe() fails, or a later call; nothing is closed.  Otherwise running_ is set.
SetupWakeup ==
  /\ step = "wakeup"
  /\ \/ UNCHANGED loopState /\ (SetUpFails(fd) \/ SetUpFails([fd EXCEPT !["pipe"] = "open"]))
     \/ loopState' = "accepting" /\ Opened("pipe", "run")
  /\ UNCHANGED <<told, config, handlers, stopping, twice, crew, database, signalled>>

-----------------------------------------------------------------------------
(* Running and stopping.                                                   *)

\* An iteration of the loop sees the request: the drain starts, stop_accepting closes
\* the socket.
StartDrain ==
  /\ step = "run" /\ loopState = "accepting" /\ stopping
  /\ loopState' = "draining" /\ CloseFields({"listen"})
  /\ UNCHANGED <<told, config, step, leaving, handlers, stopping, crew, database, status, signalled>>

\* The loop ends: the drain is over, or epoll_wait fails.
LeaveLoop(failed) ==
  /\ step = "run" /\ loopState \in {"accepting", "draining"} /\ (failed \/ loopState = "draining")
  /\ loopState' = "idle" /\ CloseFields({"epoll", "listen"}) /\ step' = "stop"
  /\ UNCHANGED <<told, config, leaving, handlers, stopping, crew, database, status, signalled>>

\* stop(), which main calls and ~Server again: request_stop, ThreadPool::shutdown.
StopCrew ==
  /\ step = "stop" /\ step' = "join"
  /\ stopping' = TRUE /\ crew' = IF crew = "joined" THEN crew ELSE "stopping"
  /\ UNCHANGED <<told, config, leaving, handlers, loopState, fd, twice, database, status, signalled>>

\* The workers run what is left of the queue and exit.
CrewExits ==
  /\ crew = "stopping" /\ crew' = "joined"
  /\ UNCHANGED <<told, config, step, leaving, handlers, stopping, loopState, fd, twice, database,
                 status, signalled>>

\* Only what run() opened is closed.
FaultyLeftOpen == {"listen", "epoll"}

\* What the end of stop() closes.
LeftOpen == {"listen", "epoll", "pipe"}

\* The rest of stop().  After main's call, main returns and the server is destroyed.
CloseRest ==
  /\ step = "join" /\ crew = "joined"
  /\ CloseFields(LeftOpen)
  /\ step' = IF leaving THEN "database" ELSE "stop"
  /\ leaving' = TRUE /\ status' = IF leaving THEN status ELSE "success"
  /\ UNCHANGED <<told, config, handlers, stopping, loopState, crew, database, signalled>>

\* ~DatabaseManager.
CloseDatabase ==
  /\ step = "database" /\ database' = "closed" /\ step' = "ended"
  /\ UNCHANGED <<told, config, leaving, handlers, stopping, loopState, fd, twice, crew, status, signalled>>

\* request_stop does nothing unless run() is under way.
FaultyRequested == stopping \/ loopState # "idle"

\* request_stop: the flag, which nothing resets.
Requested == TRUE

\* SIGINT or SIGTERM, in whatever thread.  signal_handler calls request_stop, also on
\* the server that is already destroyed: what it writes there is not read again.
Signal ==
  /\ step # "ended"
  /\ IF handlers THEN stopping' = Requested /\ signalled' = TRUE /\ UNCHANGED <<step, status, leaving>>
     ELSE Die("killed") /\ UNCHANGED <<stopping, signalled>>
  /\ UNCHANGED <<told, config, handlers, loopState, fd, twice, crew, database>>

Main ==
  \/ Load \/ OpenDatabase \/ MakeThreads \/ Enable \/ SetupSocket \/ SetupEpoll \/ SetupWakeup
  \/ StartDrain \/ LeaveLoop(FALSE) \/ StopCrew \/ CloseRest \/ CloseDatabase

LifeNext ==
  \/ Main \/ CrewExits \/ LeaveLoop(TRUE) \/ Signal
  \/ step = "ended" /\ UNCHANGED lifeVars

\* main goes on, and route handlers return.
LifeFairness == WF_lifeVars(Main) /\ WF_lifeVars(CrewExits)

LifeSpec == LifeInit /\ [][LifeNext]_lifeVars /\ LifeFairness

-----------------------------------------------------------------------------
(* Properties.                                                             *)

LifeTypeOK ==
  /\ fd \in [Descriptors -> {"none", "open", "stale"}] /\ twice \subseteq Descriptors
  /\ crew \in {"none", "working", "stopping", "joined"}
  /\ database \in {"none", "open", "closed", "leaked"}
  /\ status \in {Unset, "success", "failure", "killed", "aborted"}

\* Whichever step of the start failed, and whatever stopped the server, main's return
\* leaves no descriptor open and no worker; nor a connection to the database, but for
\* those to SQLite that a failing PRAGMA leaves, and then there has been no thread and
\* no server.  A field is closed twice, by listen and by stop, only when the set-up failed.
EndsClean ==
  /\ step = "ended" /\ status \in {"success", "failure"} =>
       /\ \A d \in Descriptors : fd[d] = "none"
       /\ crew \in {"none", "joined"} /\ database # "open"
  /\ database = "leaked" => step = "ended" /\ crew = "none" /\ ~handlers
  /\ twice # {} => status = "failure"

\* "Resolution order (later wins)" and "a malformed file throws ... instead of silently
\* running with defaults" (Config.h); "TLS enabled but ... not set" (main.cpp): a server
\* that runs has the port it was told and speaks plain HTTP only if no
\* object "tls" asked for TLS.
RunsAsTold ==
  step = "run" =>
    /\ told.file \in {"missing", "read"}
    /\ told.says.tls => config.tls /\ "good" \in {told.says.cert, told.envCert}
    /\ told.envPort # Unset => config.port = EnvPort
    /\ told.envPort = Unset /\ told.says.port # Unset => config.port = FilePort

LifecycleSafe == RunsAsTold /\ EndsClean

\* request_stop from a handler ends the program whenever it comes, also during the
\* set-up, before run() looks at the flag; provided that the route handlers return
\* (the fairness of CrewExits), since stop() joins the threads they run on.
StopHonoured == signalled ~> step = "ended"
=============================================================================
