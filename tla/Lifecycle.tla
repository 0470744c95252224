----------------------------- MODULE Lifecycle -----------------------------
(***************************************************************************)
(* The life of the process: main (cmd/api/main.go), the HTTP server        *)
(* (internal/transport/http/server.go), the migrations, the pool, and the  *)
(* worker's goroutine seen from main.                                      *)
(*                                                                         *)
(* Three kinds of goroutine share the pool and the root context: main, the *)
(* worker, and the handlers of the requests in flight.  The process may be *)
(* signalled or killed at any point, and started again.                    *)
(***************************************************************************)
EXTENDS Naturals

CONSTANTS
  Requests,        \* HTTP requests
  WorkerEnabled,   \* WORKER_ENABLED and a token: main starts the worker
  TelegramEnabled, \* the worker has a publisher
  Latest,          \* version of the last file in migrations/
  MaxFaults        \* bound on failures and kills

ASSUME LifecycleAssumption ==
  /\ WorkerEnabled \in BOOLEAN
  /\ TelegramEnabled \in BOOLEAN
  /\ Latest \in Nat
  /\ MaxFaults \in Nat

VARIABLES
  mpc,       \* where main is; "down": no process is running
  signalled, \* the root context is cancelled
  pool,      \* "none", "open" or "closed"
  lis,       \* the goroutine of ListenAndServe; "failed": its error is queued
  inflight,  \* requests on accepted connections, until they are answered
  work,      \* the worker's goroutine; "indoubt": between a send and its mark
  version,   \* schema_migrations: version
  dirty,     \* schema_migrations: dirty
  applied,   \* migrations whose statements are in place
  last,      \* history: how the last process ended, and what it cut off
  faults     \* failures so far, to bound the model

schemaVars == <<version, dirty, applied>>
vars == <<mpc, signalled, pool, lis, inflight, work, schemaVars, last, faults>>

-----------------------------------------------------------------------------
NoExit == [how |-> "none", signalled |-> FALSE, work |-> "none", requests |-> {}]

Init ==
  /\ mpc = "down"
  /\ signalled = FALSE
  /\ pool = "none"
  /\ lis = "none"
  /\ inflight = {}
  /\ work = "none"
  /\ version \in 0..Latest
  /\ dirty = FALSE
  /\ applied = version
  /\ last = NoExit
  /\ faults = 0

Fault ==
  /\ faults < MaxFaults
  /\ faults' = faults + 1

\* The process ends, and with it every goroutine, wherever it is.
Exit(how) ==
  /\ last' = [how |-> how, signalled |-> signalled, work |-> work,
              requests |-> inflight]
  /\ mpc' = "down"
  /\ signalled' = FALSE
  /\ pool' = "none"
  /\ lis' = "none"
  /\ inflight' = {}
  /\ work' = "none"

-----------------------------------------------------------------------------
(* Starting.                                                               *)

Start ==
  /\ mpc = "down"
  /\ mpc' = "connect"
  /\ UNCHANGED <<signalled, pool, lis, inflight, work, schemaVars, last, faults>>

\* NewPool pings under the root context.
Connect ==
  /\ mpc = "connect"
  /\ ~ signalled
  /\ pool' = "open"
  /\ mpc' = "migrate"
  /\ UNCHANGED <<signalled, lis, inflight, work, schemaVars, last, faults>>

ConnectFails ==
  /\ mpc = "connect"
  /\ IF signalled THEN UNCHANGED faults ELSE Fault
  /\ Exit("failed")
  /\ UNCHANGED schemaVars

\* The library marks the next version dirty, runs its file, and marks it clean.
\* No step looks at the root context.
MigrateNext ==
  /\ mpc = "migrate"
  /\ ~ dirty
  /\ version < Latest
  /\ version' = version + 1
  /\ dirty' = TRUE
  /\ mpc' = "apply"
  /\ UNCHANGED <<signalled, pool, lis, inflight, work, applied, last, faults>>

MigrateRun ==
  /\ mpc = "apply"
  /\ applied' = version
  /\ mpc' = "clean"
  /\ UNCHANGED <<signalled, pool, lis, inflight, work, version, dirty, last,
                 faults>>

MigrateClean ==
  /\ mpc = "clean"
  /\ dirty' = FALSE
  /\ mpc' = "migrate"
  /\ UNCHANGED <<signalled, pool, lis, inflight, work, version, applied, last,
                 faults>>

\* Nothing is pending (any more): ErrNoChange counts as success.
MigrateDone ==
  /\ mpc = "migrate"
  /\ ~ dirty
  /\ version = Latest
  /\ mpc' = "wire"
  /\ UNCHANGED <<signalled, pool, lis, inflight, work, schemaVars, last, faults>>

\* Fault variant: a failed migration is only logged.
MigrateWarns ==
  /\ mpc \in {"migrate", "apply", "clean"}
  /\ IF mpc = "migrate" /\ dirty THEN UNCHANGED faults ELSE Fault
  /\ mpc' = "wire"
  /\ UNCHANGED <<signalled, pool, lis, inflight, work, schemaVars, last>>

\* A version left dirty by an earlier process is refused; any step may fail.
MigrateFails ==
  /\ mpc \in {"migrate", "apply", "clean"}
  /\ IF mpc = "migrate" /\ dirty THEN UNCHANGED faults ELSE Fault
  /\ Exit("failed")
  /\ UNCHANGED schemaVars

\* The announcement, whose failure is only logged, and the worker's goroutine:
\* its first cycle begins at once, cancelled or not.
Spawn ==
  /\ mpc = "wire"
  /\ work' = IF WorkerEnabled THEN "busy" ELSE "none"
  /\ mpc' = "ready"
  /\ UNCHANGED <<signalled, pool, lis, inflight, schemaVars, last, faults>>

\* Server.Run starts ListenAndServe and selects.
Serve ==
  /\ mpc = "ready"
  /\ lis' = "starting"
  /\ mpc' = "serve"
  /\ UNCHANGED <<signalled, pool, inflight, work, schemaVars, last, faults>>

-----------------------------------------------------------------------------
(* Serving.                                                                *)

Listen ==
  /\ lis = "starting"
  /\ lis' = "listening"
  /\ UNCHANGED <<mpc, signalled, pool, inflight, work, schemaVars, last, faults>>

\* The port is taken, or accepting fails for good.
ListenFails ==
  /\ lis \in {"starting", "listening"}
  /\ Fault
  /\ lis' = "failed"
  /\ UNCHANGED <<mpc, signalled, pool, inflight, work, schemaVars, last>>

Arrive(r) ==
  /\ lis = "listening"
  /\ r \notin inflight
  /\ inflight' = inflight \cup {r}
  /\ UNCHANGED <<mpc, signalled, pool, lis, work, schemaVars, last, faults>>

Answer(r) ==
  /\ r \in inflight
  /\ inflight' = inflight \ {r}
  /\ UNCHANGED <<mpc, signalled, pool, lis, work, schemaVars, last, faults>>

\* SIGINT or SIGTERM; a second one changes nothing.
Signal ==
  /\ mpc # "down"
  /\ ~ signalled
  /\ signalled' = TRUE
  /\ UNCHANGED <<mpc, pool, lis, inflight, work, schemaVars, last, faults>>

\* os.Exit: no deferred call runs and nobody is waited for.
ServerFails ==
  /\ mpc = "serve"
  /\ lis = "failed"
  /\ Exit("failed")
  /\ UNCHANGED <<schemaVars, faults>>

-----------------------------------------------------------------------------
(* Stopping.                                                               *)

\* Fault variant: the server goes on accepting while it shuts down.
ShutdownOpen ==
  /\ mpc = "serve"
  /\ signalled
  /\ mpc' = "shutdown"
  /\ UNCHANGED <<signalled, pool, lis, inflight, work, schemaVars, last, faults>>

\* With the server failed and the context cancelled, select takes either.
\* Shutdown closes the listener; a ListenAndServe that comes later returns.
BeginShutdown ==
  /\ mpc = "serve"
  /\ signalled
  /\ lis' = "closed"
  /\ mpc' = "shutdown"
  /\ UNCHANGED <<signalled, pool, inflight, work, schemaVars, last, faults>>

ShutdownDone ==
  /\ mpc = "shutdown"
  /\ inflight = {}
  /\ mpc' = "wait"
  /\ UNCHANGED <<signalled, pool, lis, inflight, work, schemaVars, last, faults>>

\* Fault variant: the drain of the requests has no deadline.
ShutdownPatient ==
  /\ mpc = "shutdown"
  /\ inflight = {}
  /\ Exit("failed")
  /\ UNCHANGED <<schemaVars, faults>>

\* shutdownTimeout passes with a request in flight: Run's error makes main exit.
ShutdownTimeout ==
  /\ mpc = "shutdown"
  /\ inflight # {}
  /\ Exit("failed")
  /\ UNCHANGED <<schemaVars, faults>>

\* Fault variant: main does not wait for the worker.
WaitSkipped ==
  /\ mpc = "wait"
  /\ mpc' = "close"
  /\ UNCHANGED <<signalled, pool, lis, inflight, work, schemaVars, last, faults>>

WaitDone ==
  /\ mpc = "wait"
  /\ work \in {"none", "over"}
  /\ mpc' = "close"
  /\ UNCHANGED <<signalled, pool, lis, inflight, work, schemaVars, last, faults>>

ClosePool ==
  /\ mpc = "close"
  /\ pool' = "closed"
  /\ mpc' = "return"
  /\ UNCHANGED <<signalled, lis, inflight, work, schemaVars, last, faults>>

Return ==
  /\ mpc = "return"
  /\ Exit("clean")
  /\ UNCHANGED <<schemaVars, faults>>

\* A kill, a power failure, or a signal before main asks for them.
Kill ==
  /\ mpc # "down"
  /\ Fault
  /\ Exit("killed")
  /\ UNCHANGED schemaVars

-----------------------------------------------------------------------------
(* The worker's goroutine.                                                 *)

\* A request has left for Telegram; the record of its answer is still to come.
WorkerSends ==
  /\ work = "busy"
  /\ TelegramEnabled
  /\ ~ signalled
  /\ work' = "indoubt"
  /\ UNCHANGED <<mpc, signalled, pool, lis, inflight, schemaVars, last, faults>>

WorkerRecords ==
  /\ work = "indoubt"
  /\ work' = "busy"
  /\ UNCHANGED <<mpc, signalled, pool, lis, inflight, schemaVars, last, faults>>

CycleEnds ==
  /\ work = "busy"
  /\ work' = "idle"
  /\ UNCHANGED <<mpc, signalled, pool, lis, inflight, schemaVars, last, faults>>

\* The recover of runCycle: what left for Telegram is never recorded.
CyclePanics ==
  /\ work = "indoubt"
  /\ work' = "idle"
  /\ UNCHANGED <<mpc, signalled, pool, lis, inflight, schemaVars, last, faults>>

Tick ==
  /\ work = "idle"
  /\ work' = "busy"
  /\ UNCHANGED <<mpc, signalled, pool, lis, inflight, schemaVars, last, faults>>

\* Run returns, and the wait group is done.
WorkerStops ==
  /\ work = "idle"
  /\ signalled
  /\ work' = "over"
  /\ UNCHANGED <<mpc, signalled, pool, lis, inflight, schemaVars, last, faults>>

-----------------------------------------------------------------------------
MainStep ==
  \/ Connect \/ ConnectFails
  \/ MigrateNext \/ MigrateRun \/ MigrateClean \/ MigrateDone \/ MigrateFails
  \/ Spawn \/ Serve
  \/ ServerFails
  \/ BeginShutdown \/ ShutdownDone \/ ShutdownTimeout
  \/ WaitDone \/ ClosePool \/ Return

GoroutineStep ==
  \/ WorkerSends \/ WorkerRecords
  \/ CycleEnds \/ CyclePanics
  \/ Tick \/ WorkerStops

Next ==
  \/ Start
  \/ MainStep
  \/ Listen \/ ListenFails
  \/ \E r \in Requests : Arrive(r) \/ Answer(r)
  \/ Signal \/ Kill
  \/ GoroutineStep

Spec == Init /\ [][Next]_vars

\* main runs on and the worker's calls return; select, which chooses at random,
\* does not miss the cancelled context for ever.  Nothing is assumed of the
\* handlers: a query has no timeout of its own.
FairSpec ==
  /\ Spec
  /\ WF_vars(MainStep)
  /\ WF_vars(WorkerRecords)
  /\ WF_vars(CycleEnds)
  /\ SF_vars(WorkerStops)

-----------------------------------------------------------------------------
(* Properties.                                                             *)

\* The values the variables range over.
LifecycleTypeOK ==
  /\ mpc \in {"down", "connect", "migrate", "apply", "clean", "wire", "ready",
              "serve", "shutdown", "wait", "close", "return"}
  /\ signalled \in BOOLEAN
  /\ pool \in {"none", "open", "closed"}
  /\ lis \in {"none", "starting", "listening", "failed", "closed"}
  /\ inflight \subseteq Requests
  /\ work \in {"none", "busy", "indoubt", "idle", "over"}
  /\ version \in 0..Latest /\ applied \in 0..Latest
  /\ dirty \in BOOLEAN
  /\ last.how \in {"none", "clean", "failed", "killed"}
  /\ faults \in Nat
  /\ lis \in {"starting", "listening"} => mpc = "serve"

\* The deferred Close of the pool comes after the drain of the requests and the
\* wait for the worker (main.go:156-162): nobody is left to use it.
NothingOnClosedPool ==
  pool = "closed" => inflight = {} /\ work \in {"none", "over"}

\* Neither the worker nor a handler meets a schema that is not the latest, with
\* all of its migrations in place and none half done, whatever crashed before.
SchemaInPlace ==
  inflight # {} \/ work # "none" =>
    pool # "none" /\ ~ dirty /\ version = Latest /\ applied = Latest

\* A signalled process ends, though handlers may never answer and the worker
\* may be in the middle of a cycle (server.go:61, main.go:162).  A migration ends
\* by itself, on a database that answers: it is given no context
\* (migrations.go:17).
SignalEndsProcess == signalled ~> mpc = "down"

-----------------------------------------------------------------------------
(* What comments of the repository say, and the code does not do.          *)

\* "Wait for the worker (if any) to finish its graceful stop" (main.go:161): a
\* process told to stop, and not killed, does not cut the worker off.
WorkerAwaited ==
  last.signalled /\ last.how # "killed" => last.work \in {"none", "over"}
=============================================================================
