----------------------------- MODULE Collector -----------------------------
(***************************************************************************)
(* Collector.CollectOnce (internal/service/collector.go) against the       *)
(* prices API and the offers table.                                        *)
(*                                                                         *)
(* One goroutine asks for every route, both ways, and every date of the    *)
(* window, and stores each answer before it asks on.  Requests and         *)
(* statements may fail, the day may change, the context may be cancelled,  *)
(* and the process may die, at any point of a pass.                        *)
(***************************************************************************)
EXTENDS FlightOfferRepo

CONSTANTS
  Origins,       \* WORKER_ORIGINS, a sequence of codes
  Destinations,  \* WORKER_DESTINATIONS
  CityOf,        \* the code the API answers with: that of an airport's city
  WindowDays,    \* collectionWindowDays
  PriceLists,    \* the price sequences an answer may hold, in the API's order
  RequestDelay,  \* WORKER_REQUEST_DELAY: only its sign matters
  MaxDay,        \* bound on the calendar
  MaxNow,        \* bound on the batches stored
  MaxMisses      \* bound on failures, cancellations and crashes

Codes == {Origins[i] : i \in DOMAIN Origins}
           \cup {Destinations[i] : i \in DOMAIN Destinations}

Query == [from : Codes, to : Codes, date : Nat]

\* The unique index of the rows an answer to a query is stored in.
KeyOf(q) ==
  [origin |-> CityOf[q.from], destination |-> CityOf[q.to], date |-> q.date]

Window == IF WindowDays < 0 THEN 0 ELSE WindowDays

ASSUME CollectorAssumption ==
  /\ Origins \in Seq(Codes)
  /\ Destinations \in Seq(Codes)
  /\ WindowDays \in Int
  /\ PriceLists \subseteq Seq(Prices) \ {<<>>}
  /\ RequestDelay \in Int
  /\ MaxDay \in Nat
  /\ MaxNow \in Nat
  /\ MaxMisses \in Nat

VARIABLES
  ctx,     \* "live", "cancelled", or "dead": no process is running
  cpc,     \* where CollectOnce is
  today,   \* the day on the server's clock
  since,   \* the day the pass began, the last one if none is under way
  todo,    \* queries of this pass still to be made
  batch,   \* the offers of the answer being stored
  cres,    \* CollectResult, its route counters
  cerr,    \* what CollectOnce will return
  now,     \* batches stored so far: the clock behind collected_at
  misses,  \* failures so far, to bound the model
  asked,   \* history: queries this pass has come to
  heard    \* history: per key, last and least price stored in this pass

passVars == <<cpc, since, todo, batch, cres, cerr, asked, heard>>
vars == <<offers, ctx, passVars, today, now, misses>>

-----------------------------------------------------------------------------
\* routes: every origin with every destination, there and back.
Routes ==
  [n \in 1..(2 * Len(Origins) * Len(Destinations)) |->
     LET pair == (n - 1) \div 2
         o == Origins[(pair \div Len(Destinations)) + 1]
         d == Destinations[(pair % Len(Destinations)) + 1]
     IN  IF n % 2 = 1 THEN [from |-> o, to |-> d] ELSE [from |-> d, to |-> o]]

ASSUME KeysAssumption ==
  \A n \in DOMAIN Routes, d \in 0..(MaxDay + Window) :
    KeyOf([from |-> Routes[n].from, to |-> Routes[n].to, date |-> d]) \in Keys

\* Fault variant: the window starts a day early.
DatesFromYesterday(day) == [i \in 1..(Window + 1) |-> day + i - 2]

\* upcomingDates: from a day through the end of its window.
UpcomingDates(day) == [i \in 1..(Window + 1) |-> day + i - 1]

\* The two nested loops: route by route, date by date.
Queries(day) ==
  LET dates == UpcomingDates(day)
  IN  [n \in 1..(Len(Routes) * Len(dates)) |->
         LET r == Routes[((n - 1) \div Len(dates)) + 1]
         IN  [from |-> r.from, to |-> r.to,
              date |-> dates[((n - 1) % Len(dates)) + 1]]]

NoRoutes == [ok |-> 0, empty |-> 0, failed |-> 0]

\* The pass is local to one call: its variables end with the call.
ForgetPass ==
  /\ cpc' = "idle"
  /\ todo' = <<>>
  /\ batch' = <<>>
  /\ cres' = NoRoutes
  /\ cerr' = "nil"
  /\ asked' = {}
  /\ heard' = <<>>

InitCollector ==
  /\ ctx = "live"
  /\ cpc = "idle"
  /\ today = 0
  /\ since = 0
  /\ todo = <<>>
  /\ batch = <<>>
  /\ cres = NoRoutes
  /\ cerr = "nil"
  /\ now = 0
  /\ misses = 0
  /\ asked = {}
  /\ heard = <<>>

\* The collector never reads the table: it may as well begin empty.
Init == offers = <<>> /\ InitCollector

Miss ==
  /\ misses < MaxMisses
  /\ misses' = misses + 1

\* A call that takes the context fails when it is cancelled, or by a fault.
CallFails ==
  \/ ctx = "cancelled" /\ UNCHANGED misses
  \/ ctx = "live" /\ Miss

-----------------------------------------------------------------------------
\* The dates are taken from the clock once, at the start.
BeginCollect ==
  /\ cpc = "idle"
  /\ ctx # "dead"
  /\ since' = today
  /\ todo' = Queries(today)
  /\ cpc' = "sleep"
  /\ UNCHANGED <<offers, ctx, batch, cres, cerr, today, now, misses, asked,
                 heard>>

\* sleep with a positive delay selects at random between a fired timer and a
\* cancelled context; without a delay it only looks at the context.
SleepOver ==
  /\ cpc = "sleep"
  /\ todo # <<>>
  /\ ctx = "live" \/ RequestDelay > 0
  /\ asked' = asked \cup {Head(todo)}
  /\ cpc' = "fetch"
  /\ UNCHANGED <<offers, ctx, since, todo, batch, cres, cerr, today, now,
                 misses, heard>>

SleepCancelled ==
  /\ cpc = "sleep"
  /\ todo # <<>>
  /\ ctx = "cancelled"
  /\ cerr' = "cancelled"
  /\ cpc' = "done"
  /\ UNCHANGED <<offers, ctx, since, todo, batch, cres, today, now, misses,
                 asked, heard>>

RoutesDone ==
  /\ cpc = "sleep"
  /\ todo = <<>>
  /\ cpc' = "done"
  /\ UNCHANGED <<offers, ctx, since, todo, batch, cres, cerr, today, now,
                 misses, asked, heard>>

\* On to the next query.
NextQuery ==
  /\ todo' = Tail(todo)
  /\ batch' = <<>>
  /\ cpc' = "sleep"
  /\ UNCHANGED <<ctx, since, today, asked>>

\* Fault variant: the first failure ends the pass.
RouteAborts ==
  /\ cres' = [cres EXCEPT !.failed = @ + 1]
  /\ cerr' = "routes"
  /\ todo' = Tail(todo)
  /\ batch' = <<>>
  /\ cpc' = "done"
  /\ UNCHANGED <<ctx, since, today, asked>>

\* Fault variant: the failure is not counted.
RouteUncounted ==
  /\ cerr' = "routes"
  /\ UNCHANGED cres
  /\ NextQuery

\* A failed route is counted and the loop goes on.
RouteFailed ==
  /\ cres' = [cres EXCEPT !.failed = @ + 1]
  /\ cerr' = "routes"
  /\ NextQuery

\* Fault variant: an empty answer is asked for again.
EmptyAgain ==
  /\ cpc = "fetch"
  /\ ctx = "live"
  /\ cpc' = "sleep"
  /\ UNCHANGED <<offers, ctx, since, todo, batch, cres, cerr, today, now,
                 misses, asked, heard>>

\* No entry, or none with a departure time that parses: no error.
FetchEmpty ==
  /\ cpc = "fetch"
  /\ ctx = "live"
  /\ cres' = [cres EXCEPT !.empty = @ + 1]
  /\ NextQuery
  /\ UNCHANGED <<offers, cerr, now, misses, heard>>

FetchAnswered ==
  /\ cpc = "fetch"
  /\ ctx = "live"
  /\ now < MaxNow
  /\ \E prices \in PriceLists :
       batch' = [i \in DOMAIN prices |->
                   [key |-> KeyOf(Head(todo)), price |-> prices[i]]]
  /\ cpc' = "store"
  /\ UNCHANGED <<offers, ctx, since, todo, cres, cerr, today, now, misses,
                 asked, heard>>

\* Timeout, lost connection, a status other than 200, a body cut off or not
\* JSON, or an error of the API.
FetchFails ==
  /\ cpc = "fetch"
  /\ CallFails
  /\ RouteFailed
  /\ UNCHANGED <<offers, now, heard>>

\* Prices heard on a key: the last one, and the least of the pass.
Hear(k) ==
  LET prices == {batch[i].price : i \in DOMAIN batch}
                  \cup (IF k \in DOMAIN heard THEN {heard[k].least} ELSE {})
      least == CHOOSE p \in prices : \A r \in prices : p <= r
  IN  heard' = [l \in DOMAIN heard \cup {k} |->
                  IF l = k THEN [last |-> batch[Len(batch)].price, least |-> least]
                  ELSE heard[l]]

\* The database commits the batch: one transaction, before its answer is read.
StoreCommits ==
  /\ cpc = "store"
  /\ now' = now + 1
  /\ UpsertMany(batch, now')
  /\ cpc' = "stored"
  /\ UNCHANGED <<ctx, since, todo, batch, cres, cerr, today, misses, asked,
                 heard>>

StoreSucceeds ==
  /\ cpc = "stored"
  /\ Hear(KeyOf(Head(todo)))
  /\ cres' = [cres EXCEPT !.ok = @ + 1]
  /\ NextQuery
  /\ UNCHANGED <<offers, cerr, now, misses>>

\* The transaction is lost, or it is committed and only its answer is lost.
StoreFails ==
  /\ cpc \in {"store", "stored"}
  /\ CallFails
  /\ heard' = [l \in DOMAIN heard \ {KeyOf(Head(todo))} |-> heard[l]]
  /\ RouteFailed
  /\ UNCHANGED <<offers, now>>

ReturnCollect ==
  /\ cpc = "done"
  /\ ForgetPass
  /\ UNCHANGED <<offers, ctx, since, today, now, misses>>

-----------------------------------------------------------------------------
NextDay ==
  /\ today < MaxDay
  /\ today' = today + 1
  /\ UNCHANGED <<offers, ctx, passVars, now, misses>>

Cancel ==
  /\ ctx = "live"
  /\ Miss
  /\ ctx' = "cancelled"
  /\ UNCHANGED <<offers, passVars, today, now>>

\* The worker leaves its loop once the cycle is over.
Stop ==
  /\ ctx = "cancelled"
  /\ cpc = "idle"
  /\ ctx' = "dead"
  /\ UNCHANGED <<offers, passVars, today, now, misses>>

\* The deferred recover of runCycle ends a pass that panics.
Panic ==
  /\ cpc # "idle"
  /\ Miss
  /\ ForgetPass
  /\ UNCHANGED <<offers, ctx, since, today, now>>

\* os.Exit, a kill or a power failure at any point.
Crash ==
  /\ ctx # "dead"
  /\ Miss
  /\ ForgetPass
  /\ ctx' = "dead"
  /\ UNCHANGED <<offers, since, today, now>>

Restart ==
  /\ ctx = "dead"
  /\ ctx' = "live"
  /\ UNCHANGED <<offers, passVars, today, now, misses>>

CollectStep ==
  \/ SleepOver \/ SleepCancelled \/ RoutesDone
  \/ FetchEmpty \/ FetchAnswered \/ FetchFails
  \/ StoreCommits \/ StoreSucceeds \/ StoreFails
  \/ ReturnCollect

Next ==
  \/ BeginCollect
  \/ CollectStep
  \/ NextDay \/ Cancel \/ Stop \/ Panic \/ Crash \/ Restart

Spec == Init /\ [][Next]_vars

\* Every call of a pass returns: the HTTP client has a timeout, the sleep a
\* timer.
FairSpec == Spec /\ WF_vars(CollectStep)

-----------------------------------------------------------------------------
(* Properties.                                                             *)

\* The values the variables range over.
CollectorTypeOK ==
  /\ DOMAIN offers \subseteq Keys
  /\ offers \in [DOMAIN offers -> Row]
  /\ ctx \in {"live", "cancelled", "dead"}
  /\ cpc \in {"idle", "sleep", "fetch", "store", "stored", "done"}
  /\ today \in Nat /\ since \in Nat
  /\ todo \in Seq(Query)
  /\ batch \in Seq(Quote)
  /\ cres \in [ok : Nat, empty : Nat, failed : Nat]
  /\ cerr \in {"nil", "routes", "cancelled"}
  /\ now \in Nat /\ misses \in Nat
  /\ asked \subseteq Query
  /\ DOMAIN heard \subseteq Keys

\* "all routes (both directions) x the upcoming departure dates. A failure on
\* one route does not abort the cycle" (collector.go:96): a pass that was not
\* cancelled has come to all of them, of the window it began with, whatever
\* failed and though midnight may have passed.
AllRoutesAsked ==
  cpc = "done" /\ cerr # "cancelled" =>
    \A i \in DOMAIN Origins, j \in DOMAIN Destinations, d \in 0..Window :
      LET there == [from |-> Origins[i], to |-> Destinations[j],
                    date |-> since + d]
          back == [from |-> Destinations[j], to |-> Origins[i],
                   date |-> since + d]
      IN  {there, back} \subseteq asked

\* Every query is counted once: ok, empty, failed, or still to be made.
RoutesAccounted ==
  cpc # "idle" =>
    cres.ok + cres.empty + cres.failed + Len(todo) = Len(Queries(since))

\* What a pass has heard and stored, it finds stored: no later answer on
\* another key, failure or day's end disturbs it, and of the queries that share
\* a key (two airports of a city) the last one is what stays.  The key of the
\* batch being stored is excepted.
HeardIsStored ==
  \A k \in DOMAIN heard \ BatchKeys(batch) :
    k \in DOMAIN offers /\ offers[k].price = heard[k].last

\* A pass comes to its end.
CollectTerminates == cpc # "idle" ~> cpc = "idle"

-----------------------------------------------------------------------------
(* What the announcement says of the offers, and the code does not do.     *)

\* The channel is told it gets the best prices (publisher.go:244): the row a
\* pass leaves has the least price the pass has heard on its key.
BestPriceStays ==
  \A k \in DOMAIN heard \ BatchKeys(batch) :
    offers[k].price = heard[k].least
=============================================================================
