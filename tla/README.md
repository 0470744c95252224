# travel-tickets-api: a TLA+ verification project

The service collects cheap flights from a prices API, keeps them in a Postgres
table, and posts each offer once to a Telegram channel. A small HTTP API reads
the table and can post to the channel as well. This directory holds TLA+ modules
translated from the Go and SQL sources, TLC configurations that check them on
small instances, and TLAPS proofs.

File names below are relative to `src/internal/` unless they begin with `src/`.
`PROJECT.json` maps every definition to its source lines.

Run things inside this directory:

    tlc -config MCPublisher.cfg MCPublisher      # any module and cfg of the runs table
    tlapm PublisherProofs.tla                    # any module named ...Proofs


## 1. Inventory

| Component | State it keeps | Operations | Talks to | Module |
|---|---|---|---|---|
| Publisher (`service/publisher.go`) | per pass: the page, the `attempted` map, `PublishResult`, the error | `PublishPending`, `Announce` | repository, notifier | `Publisher`, `Delivery`; `Announce` in `DataFlow` |
| Flight offer repository (`repository/postgres/flight_offer_repo.go`, `src/migrations/*.sql`) | table `flight_offers`, unique on origin, destination, departure date, one-way | `UpsertMany`, `ListUnpublished`, `MarkPublished`, `List` | Postgres | `FlightOfferRepo` |
| Collector (`service/collector.go`) | per pass: the remaining routes and dates, `CollectResult`, the error | `CollectOnce` | prices API, repository | `Collector` |
| Worker (`worker/worker.go`) | where `Run` is; the ticker's channel | `Run`, `runCycle` | collector, publisher | `Worker` |
| Notifier (`service/notifier.go`) | none (`enabled`) | `Notify` | Telegram client | inside `Publisher` and `HttpApi` |
| Telegram client (`integration/telegram/client.go`) | none | `SendMessage`, `GetMe` | Telegram | `SendMessage` inside `Publisher` and `HttpApi`; its timeout in `DataFlow` |
| Prices client (`integration/travelpayouts/client.go`) | none | `PricesForDates` | prices API | its outcomes inside `Collector`, its conversions in `DataFlow` |
| Main (`src/cmd/api/main.go`) | root context, wait group | start-up, signals, exit | all | `Lifecycle`; what the settings turn on in `DataFlow`; as cancellation, exit and restart inside `Publisher`, `Collector`, `Worker` |
| HTTP server (`transport/http/server.go`) | listener, error channel, requests in flight | `Run` | main | `Lifecycle` |
| Handlers, router, middleware (`transport/http/`) | none per process; a goroutine per request | GET offers, POST notify, health, preflight, recovery | repository, notifier | `HttpApi` |
| Migrations (`repository/postgres/migrations.go`) | schema version, dirty flag | `RunMigrations` | Postgres | `Lifecycle` (their effect on old rows is in `Publisher!Init`) |
| Pool (`repository/postgres/pool.go`) | connections | open, close, acquire, release | Postgres | opened and closed in `Lifecycle`, shared in `HttpApi` |
| Configuration (`config/config.go`) | none | `Load` | main | `Config`, `DataFlow` |
| Message formatting (`publisher.go`) | none | pure functions | | `Formatting`, `DataFlow` |
| Offer service, responses | none | one forwarded call; status and body | | inside `HttpApi` |
| Logger, access log, request ids | none | | | not modelled |

How they interact. `main` opens the pool, migrates, announces the service in the
channel, starts one goroutine that runs `Worker.Run`, and serves HTTP. The
worker's goroutine runs a cycle at once and one on every tick: `CollectOnce`,
then, if the context is still live and there is a notifier, `PublishPending`.
Both use the table and nothing else in common. Everything a pass keeps in memory
is local to its call, so a crash leaves the table, what the channel shows, and
what Telegram still holds.

What is hard in it:

* **Two systems, no transaction.** A message is posted in one system and
  recorded in another. Between the two stand a refusal, a timeout after which
  nobody knows what Telegram did, a lost statement, a commit whose answer is
  lost, a panic, a cancelled context, and a crash.
* **A paging loop over a table its own steps shrink.** Offers that fail stay
  eligible and are listed again at once; only the `attempted` map and the order
  of the listing decide whether the loop ends and what it reaches.
* **A stale page.** A page is read once and sent over many seconds, with pauses.
* **Upserts over published rows**, old rows whose `published` is NULL, several
  quotes on one key.
* **select chooses at random** between a cancelled context and a timer or tick.
* **Goroutines that outlive one another.** Worker, handlers and listener share a
  pool that `main` closes in a deferred call, which `os.Exit` does not run.
* **Recover in one place and not in another**: a panic ends a cycle, a request,
  or the process.
* **One pool for all.** Handlers and worker hold a connection for each statement,
  statements have no deadline, and only the context of a request or of the
  process frees who waits.
* **A client that retries.** POST /api/notify answers 502 both for a message that
  was refused and for one Telegram may have posted.
* **Values that change on the way**: a timestamp with an offset becomes an instant
  and a date, then a date in another zone; links are completed in more than one
  place; a price is compared with a cap that has no currency; settings are parsed one
  by one, with defaults.

What makes each component correct:

* publisher: at-least-once delivery, with every duplicate accounted for; a
  published offer stays published and is not asked for again; no error means
  nothing is left; a pass ends; one bad offer does not stop the others.
* repository: a conflict keeps the mark; a page holds the eligible rows that
  come first, NULL marks included; limits and the price cap at zero and beyond.
* collector: every route, both ways, on every date, whatever fails; each counted
  once; what it heard is what is stored.
* worker: publishing never runs beside a collection; cycles follow one another;
  a cancelled worker stops.
* process: nobody uses a closed pool or a schema that is not the latest; a signal
  ends it.
* HTTP API and pool: no connection is lost; a request ends unless the database
  does not answer, and even then with its context; the worker is served among
  them; an answer leaves out nothing; "sent" is told only of what was posted.
* configuration and texts: what runs is what was said; the amounts, dates, links
  and phrases shown are the ones stored or set.


## 2. Modules

**`FlightOfferRepo`** is the table and its statements, extended by the others.
`offers` maps the stored keys to rows `[price, collectedAt, published]`; a key is
a value of the unique index and, since rows are never deleted, also stands for
the row's id. `published` is `"null"`, `"false"` or `"true"`, because migration 3
adds a nullable column. `UpsertMany` is one implicit transaction whose statements
run in order; `UnpublishedPages` is the set of pages `ORDER BY collected_at,
price LIMIT n` may return, ties being in any order. The other columns are payload.

**`Publisher`** is `PublishPending` as a state machine, one action per call or
decision:

| `pc` | code |
|---|---|
| `idle` | not in a pass |
| `list` | `repo.ListUnpublished` |
| `next` | the head of the loop over the page's fresh offers |
| `pause` | `sleep` before every message but the first |
| `send`, `await` | `notifier.Notify`: before and after the request leaves |
| `mark` | `repo.MarkPublished` |
| `done` | about to return |

`ctx` is the root context (`live`, `cancelled`) or `dead` when no process runs.
`posted`, `wire` and `excused` are history: what the channel shows, requests
given up that Telegram may still post, and attempts left in doubt. Around the
pass: `Collect` (any batch, between passes), `LatePost`, `Cancel`, `Stop`,
`Panic` (the recover in `runCycle`), `Crash`, `Restart`. A crash during the send
or the mark leaves either outcome.

**`Delivery`** is the abstract promise: an offer not recorded may be asked for
any number of times, each request posts once or never, an offer is recorded only
after it was posted, for good. `Publisher!D` maps the publisher onto it:
recorded is `published`, a request is the one awaited or one on the wire.

**`Collector`** is `CollectOnce`: `todo` is the sequence of directed routes by
dates (both loops flattened, dates taken from the clock once), and each query
passes through `sleep`, `fetch`, `store` (statement sent), `stored` (committed,
answer not read). `CityOf` is the code an answer carries, which is that of the
airport's city, so two destinations may write to one key. `asked` and `heard`
are history. `PriceLists` are the answers, in the order the API is asked for.

**`Worker`** composes instances of `Collector` and `Publisher` that share the
table, the context and the clock, and adds `wpc`, where `Run` is, and `tick`,
the ticker's channel of one place. The deferred recover is `CyclePanics`;
`NewTicker` is outside it. The constant `Batches` of the publisher holds whatever
`PriceLists` come to (`WorkerAssumption`, which also carries the assumptions of the
two parts, so that every run of the worker checks them).

**`Lifecycle`** is the process: `mpc` is where `main` is (connect, migrate in
three steps per version, wire, serve, shutdown, wait, close, return, or `down`),
`lis` the listener's goroutine, `inflight` the requests on accepted connections,
`work` the worker's goroutine seen from `main`: in a cycle, between a send and its
mark, waiting, over. It is coarser than `Worker`, which has the cycle's steps and
the panic of a non-positive interval; `Worker!ImplementsGoroutine` says, through the
instance `L`, that every other step of the worker is one of it (section 4). `Exit` ends the process from wherever its
goroutines are and records in `last` what was cut off; `os.Exit` runs no deferred
call, so only `Return` comes after `ClosePool`. The library's steps (`MigrateNext`,
`MigrateRun`, `MigrateClean`) are external, modelled from how `RunMigrations` uses
`Up`.

**`HttpApi`** is the HTTP side beside the worker, over `FlightOfferRepo`. Per
client `at` is where its request's handler is: `acquire` (waiting for a
connection), `query` (holding one), `await` (for Telegram), `reply`. `free` and
`queue` are the pool, `wat` and `stmt` the worker as the pool sees it: which
statement it makes next (store, list, mark) and whether it waits for a connection
or holds one. Router, middleware, service and response have no state, so an action
is the chain as a whole: CORS answers a preflight, Recover turns a panic into a
500. `Filter` is what `List` makes of the parameters. `DbHangs` stops the database
from answering, `HangUp` cancels a request's context, `Cancel` the root one.
`before`, `posted`, `wire`, `tries`, `doubts` and `told` are history: what was
stored when a request came, and what channel and client have seen of a message
that is asked for again until its client is told that it was sent. `D` maps it
onto `Delivery`, "recorded" being `told`: the same promise as the publisher's,
with the client's memory in the place of the table.

**`Config`** is `Load` as an operator from environments to settings. An environment
holds for each variable what its parser makes of the text, or `<<>>` where it
refuses it, and nothing for what is unset or empty. `MaxInt32` is a constant, `Narrow`
what becomes of a number beyond it. `ParseCSV` is the loop of `parseCSV`, as a
function of the number of items it has come through.

**`Formatting`** holds the functions of the messages: amounts as groups of digits
(with the sign of the smallest int64, which has no negation), counts with the form
of their noun, names. An int64 is `IntBits` wide; powers are functions on the numbers
up to that (`Power`), and `JoinNames` is the loop of `joinNames`, so that the proofs
can calculate with them.

**`DataFlow`** composes the two: `Start` loads an environment and, as `main` does,
decides whether worker and notifier run and what is announced (a failed announcement
is only logged, and the publisher goes on); `Collect` turns an answer of the prices
API into the row it leaves; `Publish` and `ListOffers` turn the row into a message and
into a JSON answer; `Send` is POST /api/notify, which tells the channel something else
and needs no worker. A time is an instant and an offset,
in hours; the table keeps the instant, and `ReadBack` is in the server's zone.
When and how often these steps happen, and what fails, is in the other modules.

**`FlightOfferRepoProofs`**, **`PublisherProofs`**, **`CollectorProofs`**,
**`WorkerProofs`**, **`HttpApiProofs`**, **`FormattingProofs`**, **`DataFlowProofs`**
and **`LifecycleProofs`** hold the theorems about the modules they are named after.
The `MC` modules give constants their values. Operators whose comment begins "Fault variant" are faulty versions of
the definition that follows them, for checking that the properties notice; no
specification uses them.


## 3. Runs

| Run | What it checks | What it shows |
|---|---|---|
| `MCPublisher.cfg` | `TypeOK` `AtLeastOnce` `DuplicatesExcused` `PageCurrent` `CleanReturn` `ResultAccounting` `DrainedUnlessBlocked` `NeverRepublished` `ImplementsDelivery` | Passes with two faults anywhere and a collection between them keep all of the publisher's promises and implement `Delivery`. |
| `MCCollector.cfg` | `CollectorTypeOK` `AllRoutesAsked` `RoutesAccounted` `HeardIsStored` `CollectTerminates` | No failure, and no midnight, makes a pass skip or double-count a route or lose an answer, and every pass ends. |
| `MCWorker.cfg` | `WorkerTypeOK` `ImplementsPublisher` | The worker implements `Publisher!Spec`: a real cycle gives the publisher just the surroundings that module assumes, so its properties hold there. |
| `MCWorkerLive.cfg` | `StopsWhenCancelled` `CycleFollowsCycle` `PassTerminates` `EveryOfferPublished` | A cancelled worker stops; until then cycle follows cycle, every pass ends, and an offer Telegram can accept is published though another is refused for ever and sits before it. |
| `Lifecycle.cfg` | `LifecycleTypeOK` `NothingOnClosedPool` `SchemaInPlace` `SignalEndsProcess` | Starts, failed migrations, signals, kills and timed-out shutdowns in every order keep pool and schema safe for who uses them, and a signal ends the process though a handler never answers. |
| `MCHttpApi.cfg` | `HttpTypeOK` `ConnsAccounted` `LeavesNothingOut` `RetriesAccounted` `SentMeansPosted` `EveryRequestEnds` `ContextFrees` `WorkerServed` | Two clients and the worker share one connection through failures, hang-ups, a hung database, shutdowns and crashes: no connection is lost, a listing misses nothing because of what is stored meanwhile, nobody waits for ever but for the database, contexts free even then, and notify implements `Delivery`. |
| `MCDataFlow.cfg` | `FlowTypeOK` `LoadedAsSaid` `SilentUnlessConfigured` `CallsBounded` `AnnouncementExact` `AmountsReadBack` `DayKept` `LinksOpen` | For every environment one variable away from a working one, and answers at the edges: what runs, what the channel is told, by the worker or for a client, and what the API shows are what was said. |
| `PublisherBacklog.cfg` | `FullyDrained` | violated, see finding 1 |
| `CollectorBestPrice.cfg` | `BestPriceStays` | violated, see finding 2 |
| `WorkerDeparted.cfg` | `NoDepartedOffer` | violated, see finding 3 |
| `LifecycleAwaited.cfg` | `WorkerAwaited` | violated, see finding 4 |
| `DataFlowDate.cfg` | `MessageTellsDate` | violated, see finding 5 |

The runs of modules `DataFlow` and `HttpApi` use `MCDataFlow` and `MCHttpApi`, those
of `Publisher`, `Collector` and `Worker` likewise.

Deadlock is checked in every run. The process can always be restarted, so no
state is final.

### Findings

1. *A full backlog is not always drained.* Failed offers stay first in the
   listing. When as many have failed as a page holds, the page has nothing fresh
   and the pass ends; the comment at `service/publisher.go:56-58` says the backlog
   is fully drained and a failure does not abort the pass. `DrainedUnlessBlocked`
   is what holds instead. If a page of offers is refused every time, those behind
   it are never published: this is why `EveryOfferPublished` is checked with
   fewer refused offers than a page.
2. *The dearest price of an answer stays*: offers come in ascending price and
   each overwrites the one before on the same key, while the channel is told
   "Лучшие цены".
3. *Departed flights are posted*: nothing looks at the date when unpublished
   offers are listed, while the channel is told of departures in the next days.
4. *A slow request keeps the worker from being awaited*: when the ten seconds of
   `shutdownTimeout` pass with a request in flight, `main` calls `os.Exit(1)` before
   `wg.Wait`, whose comment (`src/cmd/api/main.go:161`) says the worker's stop is
   waited for. The worker may be between a send and its mark, which posts twice.
5. *The message may name the wrong day*: it formats `departure_at` in the server's
   zone (`service/publisher.go:162`), and `departure_date` is the airport's day. The
   image runs in UTC, so a flight that leaves Novosibirsk before seven in the
   morning is announced for the day before. `DayKept` is what holds: at most a day
   off while the two clocks are at most a day apart, and right in the table and in
   GET /api/offers.

Seen while modelling, and not worth a run:

* The batch size bounds a page and not a cycle: `PublishPending` lists page after
  page, while `config/config.go:87` says "max offers published per cycle".
* `WORKER_INTERVAL` of zero or less is accepted; `time.NewTicker` then panics after
  the first cycle, outside the recover, and ends the process (`Worker!NewTicker`).
* A `POSTGRES_MAX_CONNS` that is no int32 wraps around to another number: one too
  large, and also one far below zero, which starts a service with a positive number
  of connections (`LoadedAsSaid` leaves both out).
* A list of only blanks gives no routes, and the worker then collects nothing.
* The announced price limit is always in roubles (`publisher.go:251`), whatever
  `AVIASALES_CURRENCY` is, and the cap compares numbers: with prices in dollars the
  channel reads a limit of so many roubles and messages of up to as many dollars. The
  run reaches such a message; `CapKept` promises something of messages in roubles only.
* `WORKER_MONTHS_AHEAD` is read and used nowhere.

### Bounds, and why they are enough

* **Publisher, safety.** Three keys and pages of two: a full page, a second page,
  and an offer hidden behind failures. `BatchSize = 5` is above
  `MaxOfferLimit = 2`, so the clamp is at work; prices 1 and 2 with a cap of 1
  give due and undue rows; any subset of the keys may be there as old NULL rows.
  A batch size and a cap of zero or less are not in this run (the liveness run of
  the worker has a batch size of 0); `ReturnsClean` is proved for them too.
  `MaxFaults = 2` allows a failure while another is outstanding (a given-up send
  and then a crash before the mark), and fills a page. `MaxNow = 1`: one
  collection, of one or two quotes, between any two passes.
* **Collector.** One origin, two destinations that are an airport and its city
  (two queries on one key), two dates, so eight queries; two stored batches, two
  faults, and midnight once.
* **Worker.** One route both ways, a window of one date, one batch, one fault in
  each half, and midnight once; one price, since the cap is checked in the
  publisher's own runs. Its own question is the interleaving of the two. The
  liveness run keeps to one day, with one of the keys refused always; its
  `BatchSize = 0` takes the default limit, and there is no delay.
* **Lifecycle.** Two requests, three migrations begun at any version, two faults:
  a crash in a migration and a failure in the next start. Starts are unbounded.
* **HttpApi.** One connection, so that any two who need one meet; larger pools only
  have fewer waits. One client lists with a limit of one and posts a message, with
  two tries; the other lists by origin and asks for health. A collection stores one of
  two routes, and there are two of them (`MaxNow = 2`): a request that came when one
  route was stored waits for its connection while the other is stored beside it, which
  is when `LeavesNothingOut` has something to say. One fault
  and the retry after it, which is what posts a message twice; the hanging database
  and a late post are not counted, so they meet every fault.
* **DataFlow.** Environments differ from a working one in one variable: its absence,
  texts that cannot be parsed, zero, negatives, and for intervals the boundaries of
  hours, minutes and noun forms. Restarts combine two of them over one table. Days
  need departures around midnight with offsets on both sides of the server's, amounts
  the boundaries of groups and both ends of an integer (`IntBits = 21` has three
  groups).

Bounds that cut behaviour are guards on faults, collections and days, named
`MaxFaults`, `MaxMisses`, `MaxNow`, `MaxDay`, `MaxTries`. No state constraint and no symmetry
is used.

### Fairness

* `Publisher!FairSpec`: `WF(BeginPass \/ PassStep)`, used through `Worker`. Each
  call of a pass returns: the HTTP clients have timeouts (`CallsBounded`), the pause
  a timer. Statements have no deadline of their own, so here a database that never
  answers is assumed away; `HttpApi` has it. Nothing is assumed of `Collect`,
  `LatePost`, `Cancel` or `Restart`: `EveryOfferPublished` promises nothing to a
  stopped process.
* `Collector!FairSpec`: `WF(CollectStep)`, for the same reasons.
* `Worker!FairSpec`: `WF(WorkerStep)`, `WF(Tick)`, and `SF(SelectDone)`: when tick
  and cancellation are both ready, Go's `select` chooses at random, and so
  does not take the tick for ever.
* `Lifecycle!FairSpec`: `WF(MainStep)`, `WF(WorkerRecords)`, `WF(CycleEnds)` and
  `SF(WorkerStops)`, the same as seen from outside. `WF(MainStep)` includes the
  migrations, so it assumes that the database answers them: `RunMigrations` is given
  no context, and a signal does not interrupt it. Nothing is assumed of
  handlers: a query has no deadline, and `shutdownTimeout` must do without.
* `HttpApi!FairSpec`: `WF(Grant)`, `WF(WorkerStep)`, and `WF(HandlerStep(c))` for each
  client. The pool serves in order (the library's), goroutines are scheduled, the
  Telegram client has a timeout, and a statement ends while the database is up or
  its context is cancelled. Nothing is assumed of the clients, of the database's
  recovery, or of a restart: the properties say "or the database does not answer".


## 4. Proofs

`PublisherProofs` proves, for every set of keys, every batch size, limit, price
cap and number of faults, under `RepoAssumption` and `PublisherAssumption` (types
of the constants, positive limits):

| Theorem | Statement |
|---|---|
| `TypeCorrect` | `Spec => []TypeOK` |
| `PageStaysCurrent` | `Spec => []PageCurrent` |
| `PublishedOnceRecorded` | `Spec => NeverRepublished` |
| `DeliveredAtLeastOnce` | `Spec => []AtLeastOnce` |
| `DuplicatesAreExcused` | `Spec => []DuplicatesExcused` |
| `ReturnsClean` | `Spec => []CleanReturn` |
| `CountsAreRight` | `Spec => []ResultAccounting` |
| `DrainsUnlessBlocked` | `Spec => []DrainedUnlessBlocked` |
| `PublisherImplementsDelivery` | `Spec => ImplementsDelivery` |

The publisher's argument is in layers; each layer is inductive given those under it.

1. **Type.** `TypeOK`. The table is a partial function, so the lemmas on
   `UpsertMany` and `MarkPublished` say that it stays one, of rows.
2. **Page.** `PageInv`: between passes nothing is kept (`IdleIsClean`), all that
   is in hand has been attempted and what is fresh has not (`AttemptedOnce`), and
   `PageCurrent`. The first is why `Collect` cannot disturb a page: it needs
   `pc = "idle"`, where the page is empty. The second is why a mark cannot: it is
   set on the offer in hand, which is not in `fresh`.
3. **Delivery.** `DeliveryInv`: a marked offer has been posted, and one being
   marked has too (`Posted`); per offer, messages posted, on the wire or awaited
   are at most those excused plus one, and that one is spent once the offer is
   marked or being marked (`Accounted`). `DuplicatesExcused` alone is not
   inductive: nothing in it says that an offer about to be sent still has its
   one message unspent. `NeverRepublished` and the refinement follow from layers
   2 and 3.
4. **Pass.** `PassInv`: while there is no error, whatever was attempted has been
   published (`Settled`). So a page of which nothing is fresh is an empty one
   (its offers would be due and published), and by the definition of a page an
   empty page means that nothing is eligible: `CleanReturn`.
5. **Count.** `CountInv`: the attempted map is finite and `ResultAccounting` and
   `DrainedUnlessBlocked` hold; a cancelled pass is at its end. `Pick` takes an
   offer not yet in the map (layer 2), so its cardinality grows by one. The last
   listing's page lies in what is due and has been attempted, and is all that is
   due or a full page.

`LifecycleProofs` proves, for every set of requests and number of migrations, under
`LifecycleAssumption`: `LifecycleTyped`, `PoolClosedLast` (`NothingOnClosedPool`) and
`SchemaBeforeService` (`SchemaInPlace`). The inductive invariant `LifeInv` adds to
the type: `SchemaKept` (a version that is not dirty has its statements in place),
`StartedInOrder` (before `Spawn` nothing but main runs; after the migrations the
schema is clean and the latest) and `StoppedInOrder` (nothing in flight after the
drain, no worker after the wait, the pool closed only then). None of the three
properties is inductive: they do not say where main is.

`CollectorProofs` proves, for any lists of cities, window, answers and calendar,
under `CollectorAssumption` (types) and `KeysAssumption` (what is asked for is among
`Keys`):

| Theorem | Statement |
|---|---|
| `CollectorTypeCorrect` | `Spec => []CollectorTypeOK` |
| `RoutesCounted` | `Spec => []RoutesAccounted` |
| `HeardStaysStored` | `Spec => []HeardIsStored` |
| `NoRouteLeftOut` | `Spec => []AllRoutesAsked` |

`CollectInv` is inductive. It adds to the type: `ProgressInv` (what is left to do is
the end of `Queries(since)`, all before it has been come to), `PassInv` (what a pass
holds where), `BatchInv` (the batch in hand is on the key of the query the pass is
at, and once committed the row has the price of its last offer) and `CalendarInv`
(without which a query's key need not be one of the table). `AllRoutesAsked` is then
arithmetic: the loops are flattened with `\div` and `%`, and `BlockOfPlace` says that
every pair of cities and every date has its place. `HeardIsStored` alone is not
inductive: it says nothing of the batch being stored, which is what is heard next.

`WorkerProofs` proves, for every setting of the two parts:

| Theorem | Statement |
|---|---|
| `WorkerTypeCorrect` | `Spec => []WorkerTypeOK` |
| `CollectorUndisturbed` | `Spec => [](C!RoutesAccounted /\ C!HeardIsStored /\ C!AllRoutesAsked)` |
| `WorkerImplementsPublisher` | `Interval > 0` implies `Spec => ImplementsPublisher` |
| `PublisherUndisturbed` | `Interval > 0` implies that the publisher's safety theorems above hold of the worker |
| `WorkerImplementsDelivery` | `Interval > 0` implies `Spec => P!ImplementsDelivery` |
| `WorkerImplementsGoroutine` | `Interval > 0` implies `Spec => ImplementsGoroutine` |

`WorkerInv` is the type, `CollectInv` and `AnswerInHand`: an answer about to be stored
is one of `PriceLists` on the key of the query, and the clock has room for it. So the
commit is a batch the publisher's `Collect` may bring, and it comes where that action
does, at `pc = "idle"`. `WorkerTypeOK` gives the latter: a collection and a pass are
never under way together. The two parts' lemmas are cited through `INSTANCE`; tlapm
then asks for their assumptions, which `WorkerAssumption` gives, and `SameCollector` and
`SamePublisher` say that the instances are the same state machines. The interval must
be positive for all but the first two because `time.NewTicker` otherwise ends a live process,
which no action of the publisher does without counting a fault; the configuration
accepts such an interval. For `ImplementsGoroutine` main stands still, and the worker's
places are mapped to `Lifecycle`'s (`Seen`); it needs `EnabledInv`, that there is no pass
without a notifier. A crash and a restart, which are main's, are left out of it.

`HttpApiProofs` proves, for any clients, requests, limits, number of connections,
tries and faults, under `HttpApiAssumption` (types; a key has a date, an idle client's
request is none of the requests):

| Theorem | Statement |
|---|---|
| `HttpTypeCorrect` | `Spec => []HttpTypeOK` |
| `ConnsCorrect` | `Spec => []ConnsAccounted` |
| `RetriesCorrect` | `Spec => []RetriesAccounted` |
| `NotifyImplementsDelivery` | `Spec => SentMeansPosted` |
| `ListsComplete` | `Spec => []LeavesNothingOut` |

1. **Place and pool.** `HttpTypeOK /\ PlaceInv /\ PoolInv`: where a handler is tells
   what its request asked for, and a collection begins only while the clock has room
   (`PlaceInv`); `PoolInv` adds to `ConnsAccounted` that nobody stands in the queue
   twice and that what is counted is finite. Without the first, leaving the queue
   would not take a waiter out of it.
2. **Channel.** `ChannelInv`: messages posted or on the wire are at most the tries left
   in doubt, plus one once the client is, or is being, told "sent"; a client that is
   told so has its message posted, and asks no more. `RetriesAccounted` says only what
   is posted, and nothing of what a client is about to be told.
3. **Table.** `TableInv`: what was stored when a request came is still stored (rows are
   never deleted), and the table is finite. With `ListedPageComplete` (a page of
   `ListedPages` leaves out nothing, or is full and leaves out nothing sooner than what
   it has) this gives `LeavesNothingOut`.

`DataFlowProofs` proves, for every set of environments, answers and zones, under
`FormattingAssumption` (an int64 has at least one bit), `ConfigAssumption` (the
default number of connections is an int32, the default codes are upper case) and
`DataFlowAssumption` (types: numbers and prices are int64s, lists are of the texts
that `Upper` knows):

| Theorem | Statement |
|---|---|
| `FlowTypesCorrect` | `Spec => []FlowTypeOK` |
| `SettingsAsSaid` | `Spec => []LoadedAsSaid` |
| `TimeoutsPositive` | `Spec => []CallsBounded` |
| `SilenceCorrect` | `Spec => []SilentUnlessConfigured` |
| `AnnouncementCorrect` | `Spec => []AnnouncementExact` |
| `AmountsCorrect` | `Spec => []AmountsReadBack` |
| `DayCorrect` | `Spec => []DayKept` |
| `LinksCorrect` | `Spec => []LinksOpen` |

`FlowInv` says how the variables hang together: the settings of a service that is up
are `Load` of an environment that was not refused (`SettingsInv`), one that is not up
shows nothing (`QuietInv`), the row is what became of the last answer that had an offer
(`RowInv`), and message and answer are made of that row (`ShownInv`). Of the announcement
it says what it is and what must be enabled *if* there is one, since it may fail; so
`SilenceCorrect` goes from what is enabled, and not from the announcement, back to the
environment (`SetByEnvironment`, `SwitchedOn`). The theorems are then facts about the
functions: `LoadedValue`, `NarrowKeeps` (an int32 survives `int32`),
`LinkCompleted` (completing once or twice keeps site and path), `PluralCorrect`, `HumanizeCorrect`, `ParseCSVTyped`, `AmountCorrect`.

`FormattingProofs` holds the facts about loops and digits those need:

| Theorem | Statement |
|---|---|
| `JoinNamesCorrect` | `JoinNames` names each city of the codes, and none twice, for every list of codes |
| `GroupsFlatten` | the groups of a number's digits, put together, are its digits |

Both, and `ParseCSVTyped`, are about what a loop has done after any number of rounds, so
they need induction. The library's induction theorems take the fact as a parameter,
which the provers cannot instantiate; here the fact is a *set*, the numbers it holds of.
`LeastNumber` (a nonempty set of numbers has a least one, from the library's theorem
that finite sets are well-founded under inclusion) gives `InductionUpTo`: a set that has
the first number, and the next of each it has, has them all. `LoopExists` then says that
a loop given by its base and its rounds is a function, so that the equations of a
recursive definition may be used. `FormatIntCorrect` gives the digits of a number
(`DigitCount` is the least number of them that will do, and 10 to the number of bits is
more than any int64), `DigitsRead` and `GroupsRead` (in `DataFlowProofs`) that reading
them gives the number back, and `AmountCorrect` that this survives the sign, but for the
number that has no negation, which `AmountsReadBack` leaves out.

What the proofs found, beyond what the runs had: `LoadedAsSaid` first excepted only
numbers above an int32, and a number far below wraps around too; `DayKept` first
promised "at most a day off" for any two clocks, which fails for clocks more than a
day apart. Both properties now say so, and `MCDataFlow` has numbers of connections of
either kind. `ImplementsPublisher` turned out to need a positive interval and a clock
with room for the batch in hand. `ImplementsGoroutine` failed at first: a cycle that
panics between an answer of Telegram and its record goes on to the next tick, which
`Lifecycle` did not have. It is now an action there (`CyclePanics`).

Every invariant and every action property that a passing run checks, and every
refinement, is proved. Model-checked only, and why:

* liveness (`PassTerminates`, `EveryOfferPublished`, `CollectTerminates`,
  `StopsWhenCancelled`, `CycleFollowsCycle`, `SignalEndsProcess`, `EveryRequestEnds`,
  `ContextFrees`, `WorkerServed`): fairness and `ENABLED` are out of the prover's reach;
* the five properties that runs find violated, which are not theorems.

`ImplementsGoroutine` is the other way round: it is proved, and no run lists it.


## 5. Not modelled, and why

* The logger, the access log and request ids: output that nothing depends on.
* Wording, emoji, HTML escaping and JSON layout of messages and answers.
* `GetMe`: one best-effort call at the start whose result is only logged.
* Texts of the configuration that decide nothing (hosts, ports, base URLs, levels).
* What several processes over one table would do: the service is run as one.
* Clocks that run backwards.


## 6. Plan

Done: all modules above, and the proofs of section 4. In this order next:

1. That `Publisher`'s `Orphaned` is what `Lifecycle` records in `last` when a process
   ends: by TLC first.
2. More of what the HTTP side and the worker owe each other over one table: a
   listing beside `Publisher!MarkSucceeds`.
