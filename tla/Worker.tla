------------------------------- MODULE Worker -------------------------------
(***************************************************************************)
(* Worker.Run (internal/worker/worker.go): in one goroutine, a collection  *)
(* and then a publishing pass, at once and then on every tick, until the   *)
(* context is cancelled.  Composes Collector and Publisher, which share    *)
(* the offers table, the context and the clock behind collected_at.        *)
(***************************************************************************)
EXTENDS FlightOfferRepo

CONSTANTS
  Origins, Destinations, CityOf, WindowDays, PriceLists, RequestDelay,
  MaxDay, MaxMisses,                     \* of Collector
  Batches, Rejected, BatchSize, MaxPrice, PublishDelay, TelegramEnabled,
  NoOffer, MaxFaults,                    \* of Publisher
  MaxNow,                                \* of both
  Interval                               \* WORKER_INTERVAL: only its sign matters

VARIABLES
  ctx, now,                                             \* of both
  cpc, today, since, todo, batch, cres, cerr, misses, asked, heard,
  pc, fresh, attempted, cur, res, err, faults, posted, wire, excused,
  wpc,   \* where Run is
  tick   \* the ticker's channel: "none" before it exists, "empty" or "full"

C == INSTANCE Collector
P == INSTANCE Publisher

\* Both parts are given what they ask for, and the publisher is told of every
\* batch that an answer to the collector may come to.
ASSUME WorkerAssumption ==
  /\ C!CollectorAssumption /\ C!KeysAssumption /\ P!PublisherAssumption
  /\ \A k \in Keys, prices \in PriceLists :
       [i \in DOMAIN prices |-> [key |-> k, price |-> prices[i]]] \in Batches
  /\ Interval \in Int

collectorVars == <<cpc, since, todo, batch, cres, cerr, asked, heard, today,
                   misses>>
publisherVars == <<pc, fresh, attempted, cur, res, err, faults, posted, wire,
                   excused>>
vars == <<offers, ctx, now, collectorVars, publisherVars, wpc, tick>>

Init ==
  /\ C!InitCollector
  /\ P!Init
  /\ wpc = "first"
  /\ tick = "none"

-----------------------------------------------------------------------------
(* Run and runCycle.                                                       *)

\* Where a cycle returns to: the first one is run before the ticker exists.
CycleOver == wpc' = IF tick = "none" THEN "ticker" ELSE "select"

\* The immediate first cycle looks at no context.
FirstCycle ==
  /\ wpc = "first"
  /\ C!BeginCollect
  /\ wpc' = "collect"
  /\ UNCHANGED <<publisherVars, tick>>

Collecting ==
  /\ wpc = "collect"
  /\ C!CollectStep
  /\ wpc' = IF cpc' = "idle" THEN "decide" ELSE "collect"
  /\ UNCHANGED <<publisherVars, tick>>

\* Fault variant: the pass runs in a goroutine of its own.
PublishInBackground ==
  /\ wpc = "decide"
  /\ P!BeginPass
  /\ CycleOver
  /\ UNCHANGED <<collectorVars, tick>>

\* Fault variant: the context is not looked at before publishing.
PublishAnyway ==
  /\ wpc = "decide"
  /\ TelegramEnabled
  /\ pc' = "list"
  /\ wpc' = "publish"
  /\ UNCHANGED <<offers, ctx, now, collectorVars, fresh, attempted, cur, res,
                 err, faults, posted, wire, excused, tick>>

\* The publisher is called on a live context only.
BeginPublish ==
  /\ wpc = "decide"
  /\ P!BeginPass
  /\ wpc' = "publish"
  /\ UNCHANGED <<collectorVars, tick>>

\* There is no publisher, or the context is cancelled.
SkipPublish ==
  /\ wpc = "decide"
  /\ ~ TelegramEnabled \/ ctx = "cancelled"
  /\ CycleOver
  /\ UNCHANGED <<offers, ctx, now, collectorVars, publisherVars, tick>>

Publishing ==
  /\ wpc = "publish"
  /\ P!PassStep
  /\ IF pc' = "idle" THEN CycleOver ELSE UNCHANGED wpc
  /\ UNCHANGED <<collectorVars, tick>>

\* The deferred recover ends the cycle, not the worker.
CyclePanics ==
  /\ \/ wpc = "collect" /\ C!Panic /\ UNCHANGED publisherVars
     \/ wpc = "publish" /\ P!Panic /\ UNCHANGED collectorVars
  /\ CycleOver
  /\ UNCHANGED tick

\* time.NewTicker panics on an interval that is not positive, where no
\* recover is deferred: the process dies.
NewTicker ==
  /\ wpc = "ticker"
  /\ IF Interval > 0
     THEN wpc' = "select" /\ tick' = "empty" /\ UNCHANGED ctx
     ELSE wpc' = "stopped" /\ tick' = "none" /\ ctx' = "dead"
  /\ UNCHANGED <<offers, now, collectorVars, publisherVars>>

\* The channel holds one tick; a tick nobody has taken drops the next.
Tick ==
  /\ tick = "empty"
  /\ ctx # "dead"
  /\ tick' = "full"
  /\ UNCHANGED <<offers, ctx, now, collectorVars, publisherVars, wpc>>

\* With a tick waiting and the context cancelled, select takes either.
SelectTick ==
  /\ wpc = "select"
  /\ tick = "full"
  /\ tick' = "empty"
  /\ C!BeginCollect
  /\ wpc' = "collect"
  /\ UNCHANGED publisherVars

\* Fault variant: the context is looked at before the ticker exists, not after.
SelectDeaf ==
  /\ wpc = "select"
  /\ tick = "none"
  /\ P!Stop
  /\ wpc' = "stopped"
  /\ UNCHANGED <<collectorVars, tick>>

SelectDone ==
  /\ wpc = "select"
  /\ P!Stop
  /\ wpc' = "stopped"
  /\ tick' = "none"
  /\ UNCHANGED collectorVars

-----------------------------------------------------------------------------
(* The surroundings.                                                       *)

Cancel == P!Cancel /\ UNCHANGED <<collectorVars, wpc, tick>>

NextDay == C!NextDay /\ UNCHANGED <<publisherVars, wpc, tick>>

LatePost(k) == P!LatePost(k) /\ UNCHANGED <<collectorVars, wpc, tick>>

\* os.Exit, a kill or a power failure at any point.
Crash ==
  /\ P!Crash
  /\ C!ForgetPass
  /\ wpc' = "stopped"
  /\ tick' = "none"
  /\ UNCHANGED <<since, today, misses>>

Restart ==
  /\ P!Restart
  /\ wpc' = "first"
  /\ UNCHANGED <<collectorVars, tick>>

-----------------------------------------------------------------------------
WorkerStep ==
  \/ FirstCycle \/ Collecting \/ BeginPublish \/ SkipPublish \/ Publishing
  \/ NewTicker \/ SelectTick \/ SelectDone

Next ==
  \/ WorkerStep
  \/ CyclePanics
  \/ Tick
  \/ Cancel \/ NextDay \/ Crash \/ Restart
  \/ \E k \in Keys : LatePost(k)

Spec == Init /\ [][Next]_vars

\* The goroutine runs on (its calls have timeouts), the ticker ticks, and
\* select, which chooses at random, does not miss the cancelled context for
\* ever.
FairSpec ==
  /\ Spec
  /\ WF_vars(WorkerStep)
  /\ WF_vars(Tick)
  /\ SF_vars(SelectDone)

-----------------------------------------------------------------------------
(* Properties.                                                             *)

\* The values the worker's own variables range over.
WorkerTypeOK ==
  /\ wpc \in {"first", "collect", "decide", "publish", "ticker", "select",
              "stopped"}
  /\ tick \in {"none", "empty", "full"}
  /\ cpc # "idle" <=> wpc = "collect"
  /\ pc # "idle" <=> wpc = "publish"
  /\ ctx = "dead" <=> wpc = "stopped"

\* Whatever the collector, the ticker and the calendar do, the publisher finds
\* the surroundings its own specification gives it: batches come between its
\* passes only (one goroutine, worker.go:53), so everything shown of Publisher
\* holds in the worker.
ImplementsPublisher == P!Spec

\* Where main finds the worker's goroutine.
Seen ==
  CASE wpc \in {"first", "collect", "decide"} -> "busy"
    [] wpc = "publish" -> IF pc \in {"await", "mark"} THEN "indoubt" ELSE "busy"
    [] wpc \in {"ticker", "select"} -> "idle"
    [] wpc = "stopped" -> "over"

\* The process as main sees it, main itself at a standstill.
L == INSTANCE Lifecycle WITH
       work <- Seen,       signalled <- ctx # "live",
       mpc <- "serve",     pool <- "open",       lis <- "listening",
       inflight <- {},     last <- [how |-> "none"],
       version <- 0,       dirty <- FALSE,       applied <- 0,
       faults <- 0,        Requests <- {},       Latest <- 0,
       WorkerEnabled <- TRUE

\* As long as the process lives, main finds its worker to be the goroutine that
\* its wait for it reckons with (main.go:115 and 162): a message is in doubt only
\* within a cycle, and the goroutine is over only after a signal and a cycle's end.
ImplementsGoroutine ==
  /\ Seen = "busy" /\ ctx = "live"
  /\ [][Crash \/ Restart \/ L!GoroutineStep \/ L!Signal]_(L!vars)

\* A worker told to stop stops, whatever it was doing and however often select
\* takes the tick instead (worker.go:41).
StopsWhenCancelled == ctx = "cancelled" ~> ctx = "dead"

\* While the process lives and is not told to stop, cycle follows cycle: every
\* one ends and none is the last, whatever failed or panicked in it.
CycleFollowsCycle ==
  /\ wpc = "collect" ~> wpc = "select" \/ ctx # "live"
  /\ wpc = "select" ~> wpc = "collect" \/ ctx # "live"

\* A publishing pass ends, though failed offers stay eligible and are listed
\* again at once (publisher.go:66, the attempted map).
PassTerminates == P!PassTerminates

\* In the worker's own cycles an offer Telegram can accept does not stay due for
\* ever, though another, listed before it, is refused every time and cycles fail
\* or panic.
EveryOfferPublished == P!EveryOfferPublished

-----------------------------------------------------------------------------
(* What the repository says of the worker, and the code does not do.       *)

\* The channel is told of departures in the days to come (publisher.go:257): no
\* request goes out for a flight whose day was over when the cycle began.
NoDepartedOffer == pc = "await" => cur.id.date >= since
=============================================================================
