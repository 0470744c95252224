------------------------------ MODULE HttpApi ------------------------------
(***************************************************************************)
(* The HTTP API (internal/transport/http) beside the worker: requests are  *)
(* served concurrently and share with the worker one pool of Postgres      *)
(* connections, and with the publisher the Telegram channel.               *)
(*                                                                         *)
(* A client has one request at a time.  It may hang up at any point, and   *)
(* asks again for a message it was not told was sent.  The database may    *)
(* stop answering for good; statements have no deadline of their own.      *)
(***************************************************************************)
EXTENDS FlightOfferRepo

CONSTANTS
  Clients,
  Filters,         \* the queries GET /api/offers is asked
  Upper,           \* their origins and destinations, trimmed and in upper case
  Asks,            \* per client: the requests it may make
  Batches,         \* what the worker's collections store
  MaxConns,        \* POSTGRES_MAX_CONNS
  TelegramEnabled, \* Notifier.Enabled()
  NoRequest,       \* a client without a request
  MaxTries,        \* bound on the requests a client makes to post its message
  MaxNow,          \* bound on the stored batches
  MaxFaults        \* bound on failures, hang-ups, cancellations and crashes

\* What the handlers tell apart.  "invalid" is a notify whose body is no JSON or
\* has no text, "text" one that has.  Only a list reads its query.
Requests ==
  [kind : {"offers", "ping", "preflight", "invalid", "text"}, filter : Filters]

ASSUME HttpApiAssumption ==
  /\ Batches \subseteq Seq(Quote)
  /\ MaxConns \in Nat \ {0}      \* the pool opens with no less
  /\ TelegramEnabled \in BOOLEAN
  /\ "worker" \notin Clients
  /\ NoRequest \notin Requests
  /\ \A k \in Keys : k.date \in Nat
  /\ \A c \in Clients : Asks[c] \subseteq Requests
  /\ \A f \in Filters : f.limit = <<>> \/ f.limit[1] \in Int
  /\ MaxTries \in Nat /\ MaxNow \in Nat /\ MaxFaults \in Nat

VARIABLES
  at,     \* per client: where the handler of its request is, "idle" without one
  req,    \* per client: its request
  gone,   \* clients that hung up: the context of their request is cancelled
  status, \* per client: the status written, 0 before
  body,   \* per client: the offers listed for it
  before, \* per client: the offers stored when its request arrived
  free,   \* idle connections of the pool
  queue,  \* who waits for a connection, first come first served
  wat,    \* where the worker is: "idle" between statements
  stmt,   \* the worker's current or next statement
  ctx,    \* the root context: "live" or "cancelled"
  db,     \* "up", or "hung": statements are not answered
  posted, \* per client: times the channel has shown its message
  wire,   \* per client: requests given up that Telegram may still post
  tries,  \* per client: requests made to post its message
  doubts, \* per client: tries that may have posted it, and it was not told
  told,   \* clients told that their message was sent
  now,    \* stored batches: the clock behind collected_at
  faults  \* failures so far, to bound the model

reqVars == <<at, req, gone, status, body, before>>
poolVars == <<free, queue>>
workerVars == <<wat, stmt, ctx>>
chanVars == <<posted, wire, tries, doubts, told>>
vars == <<offers, reqVars, poolVars, workerVars, db, chanVars, now, faults>>

-----------------------------------------------------------------------------
\* The domain.OfferFilter of a query.  Its limit is <<>> when it is absent or not
\* a number, which Atoi refuses.
Filter(query) ==
  [origin      |-> Upper[query.origin],
   destination |-> Upper[query.destination],
   limit       |-> IF query.limit = <<>> THEN 0 ELSE query.limit[1]]

\* The first statement of a worker's cycle: a collection that was offered nothing
\* makes none, and without a notifier there is no pass.
FirstOfCycle == {"store"} \cup (IF TelegramEnabled THEN {"list"} ELSE {})

Init ==
  /\ offers = [k \in {} |-> 0]
  /\ at = [c \in Clients |-> "idle"]
  /\ req = [c \in Clients |-> NoRequest]
  /\ gone = {}
  /\ status = [c \in Clients |-> 0]
  /\ body = [c \in Clients |-> {}]
  /\ before = [c \in Clients |-> {}]
  /\ free = MaxConns
  /\ queue = <<>>
  /\ wat = "idle"
  /\ stmt \in FirstOfCycle
  /\ ctx = "live"
  /\ db = "up"
  /\ posted = [c \in Clients |-> 0]
  /\ wire = [c \in Clients |-> 0]
  /\ tries = [c \in Clients |-> 0]
  /\ doubts = [c \in Clients |-> 0]
  /\ told = {}
  /\ now = 0
  /\ faults = 0

\* Something outside the program goes wrong.
Fault ==
  /\ faults < MaxFaults
  /\ faults' = faults + 1

\* WriteJSON and WriteError: the handler is over but for sending the answer.
Answer(c, code) ==
  /\ at' = [at EXCEPT ![c] = "reply"]
  /\ status' = [status EXCEPT ![c] = code]

\* Without c, a waiter whose context is cancelled: who is behind it moves up.
Leave(c) ==
  LET place == CHOOSE i \in DOMAIN queue : queue[i] = c
  IN  [i \in 1..Len(queue) - 1 |-> IF i < place THEN queue[i] ELSE queue[i + 1]]

-----------------------------------------------------------------------------
(* The pool.  A connection is handed out in the order it was asked for, and *)
(* one whose statement was cancelled is closed, which frees its place.      *)

\* Fault variant: the pool grows beyond its size.
GrantUnbounded ==
  /\ queue # <<>>
  /\ free' = free - 1
  /\ queue' = Tail(queue)
  /\ IF Head(queue) = "worker"
     THEN wat' = "query" /\ UNCHANGED at
     ELSE at' = [at EXCEPT ![Head(queue)] = "query"] /\ UNCHANGED wat
  /\ UNCHANGED <<offers, req, gone, status, body, before, stmt, ctx, db,
                 chanVars, now, faults>>

Grant ==
  /\ free > 0
  /\ queue # <<>>
  /\ free' = free - 1
  /\ queue' = Tail(queue)
  /\ IF Head(queue) = "worker"
     THEN wat' = "query" /\ UNCHANGED at
     ELSE at' = [at EXCEPT ![Head(queue)] = "query"] /\ UNCHANGED wat
  /\ UNCHANGED <<offers, req, gone, status, body, before, stmt, ctx, db,
                 chanVars, now, faults>>

GiveBack == free' = free + 1 /\ UNCHANGED queue

-----------------------------------------------------------------------------
(* Arrival: router, middleware, and the handler up to its first call.       *)

\* The listener is closed once the root context is cancelled.
Arrive(c, r) ==
  /\ at[c] = "idle"
  /\ ctx = "live"
  /\ req' = [req EXCEPT ![c] = r]

\* Fault variant: the health check pings the database.
PingDatabase(c) ==
  /\ \E r \in Asks[c] : r.kind \in {"ping", "preflight"} /\ Arrive(c, r)
  /\ at' = [at EXCEPT ![c] = "acquire"]
  /\ queue' = Append(queue, c)
  /\ UNCHANGED <<offers, gone, status, body, before, free, workerVars, db,
                 chanVars, now, faults>>

\* The health check touches nothing; CORS answers a preflight by itself.
Ping(c) ==
  /\ \E r \in Asks[c] :
       /\ Arrive(c, r)
       /\ \/ r.kind = "ping" /\ Answer(c, 200)
          \/ r.kind = "preflight" /\ Answer(c, 204)
  /\ UNCHANGED <<offers, gone, body, before, poolVars, workerVars, db,
                 chanVars, now, faults>>

List(c) ==
  /\ \E r \in Asks[c] : r.kind = "offers" /\ Arrive(c, r)
  /\ at' = [at EXCEPT ![c] = "acquire"]
  /\ queue' = Append(queue, c)
  /\ before' = [before EXCEPT ![c] = DOMAIN offers]
  /\ UNCHANGED <<offers, gone, status, body, free, workerVars, db, chanVars,
                 now, faults>>

\* Nothing goes out: the notifier is disabled, or the body is refused.
NotifyInvalid(c) ==
  /\ \E r \in Asks[c] :
       /\ Arrive(c, r)
       /\ \/ /\ ~ TelegramEnabled
             /\ r.kind \in {"invalid", "text"}
             /\ Answer(c, 503)
          \/ TelegramEnabled /\ r.kind = "invalid" /\ Answer(c, 400)
  /\ UNCHANGED <<offers, gone, body, before, poolVars, workerVars, db,
                 chanVars, now, faults>>

\* The client has not been told that its message was sent.
Notify(c) ==
  /\ TelegramEnabled
  /\ c \notin told
  /\ tries[c] < MaxTries
  /\ \E r \in Asks[c] : r.kind = "text" /\ Arrive(c, r)
  /\ at' = [at EXCEPT ![c] = "await"]
  /\ tries' = [tries EXCEPT ![c] = @ + 1]
  /\ UNCHANGED <<offers, gone, status, body, before, poolVars, workerVars, db,
                 posted, wire, doubts, told, now, faults>>

-----------------------------------------------------------------------------
(* GET /api/offers: one statement on one connection.                        *)

ListAnswered(c) ==
  LET f == Filter(req[c].filter) IN
  /\ at[c] = "query"
  /\ db = "up"
  /\ \E page \in ListedPages(f.origin, f.destination, f.limit) :
       body' = [body EXCEPT ![c] = page]
  /\ GiveBack
  /\ Answer(c, 200)
  /\ UNCHANGED <<offers, req, gone, before, workerVars, db, chanVars, now,
                 faults>>

\* Fault variant: rows are closed at the end of the loop, not by a defer.
ListFailsRowsOpen(c) ==
  /\ at[c] = "query"
  /\ Fault
  /\ Answer(c, 500)
  /\ UNCHANGED <<offers, req, gone, body, before, poolVars, workerVars, db,
                 chanVars, now>>

\* The query or the reading of its rows fails or panics: the deferred Close
\* gives the connection back, and the answer is the handler's or Recover's.
ListFails(c) ==
  /\ at[c] = "query"
  /\ Fault
  /\ GiveBack
  /\ Answer(c, 500)
  /\ UNCHANGED <<offers, req, gone, body, before, workerVars, db, chanVars,
                 now>>

\* Fault variant: the repository is given context.Background().
ListDeaf(c) ==
  /\ c \in gone
  /\ at[c] = "query"
  /\ db = "up"
  /\ GiveBack
  /\ Answer(c, 500)
  /\ UNCHANGED <<offers, req, gone, body, before, workerVars, db, chanVars,
                 now, faults>>

\* The client is gone: neither the wait for a connection nor the statement
\* outlasts the request's context.
ListCancelled(c) ==
  /\ c \in gone
  /\ \/ at[c] = "acquire" /\ queue' = Leave(c) /\ UNCHANGED free
     \/ at[c] = "query" /\ GiveBack
  /\ Answer(c, 500)
  /\ UNCHANGED <<offers, req, gone, body, before, workerVars, db, chanVars,
                 now, faults>>

-----------------------------------------------------------------------------
(* POST /api/notify: one request to Telegram.                               *)

\* Fault variant: posted, but the answer cannot be decoded into the struct.
AcceptedUnread(c) ==
  /\ at[c] = "await"
  /\ posted' = [posted EXCEPT ![c] = @ + 1]
  /\ Answer(c, 502)
  /\ UNCHANGED <<offers, req, gone, body, before, poolVars, workerVars, db,
                 wire, tries, doubts, told, now, faults>>

NotifyAccepted(c) ==
  /\ at[c] = "await"
  /\ posted' = [posted EXCEPT ![c] = @ + 1]
  /\ Answer(c, 200)
  /\ UNCHANGED <<offers, req, gone, body, before, poolVars, workerVars, db,
                 wire, tries, doubts, told, now, faults>>

\* Fault variant: the "ok" of Telegram's answer is not looked at.
RefusedUnnoticed(c) ==
  /\ at[c] = "await"
  /\ Fault
  /\ Answer(c, 200)
  /\ UNCHANGED <<offers, req, gone, body, before, poolVars, workerVars, db,
                 chanVars, now>>

\* {"ok": false}: flood control, or a text that is not valid HTML.
NotifyRefused(c) ==
  /\ at[c] = "await"
  /\ Fault
  /\ Answer(c, 502)
  /\ UNCHANGED <<offers, req, gone, body, before, poolVars, workerVars, db,
                 chanVars, now>>

\* A timeout, a lost answer, or a client that hung up: nobody knows whether
\* Telegram posts the message.
NotifyGivenUp(c) ==
  /\ at[c] = "await"
  /\ \/ c \in gone /\ UNCHANGED faults
     \/ c \notin gone /\ Fault
  /\ wire' = [wire EXCEPT ![c] = @ + 1]
  /\ doubts' = [doubts EXCEPT ![c] = @ + 1]
  /\ Answer(c, 502)
  /\ UNCHANGED <<offers, req, gone, body, before, poolVars, workerVars, db,
                 posted, tries, told, now>>

LatePost(c) ==
  /\ wire[c] > 0
  /\ wire' = [wire EXCEPT ![c] = @ - 1]
  /\ posted' = [posted EXCEPT ![c] = @ + 1]
  /\ UNCHANGED <<offers, reqVars, poolVars, workerVars, db, tries, doubts, told,
                 now, faults>>

-----------------------------------------------------------------------------
(* The end of a request.                                                    *)

SaysSent(c) == at[c] = "reply" /\ req[c].kind = "text" /\ status[c] = 200

\* The answer reaches the client, unless it is gone.
Reply(c) ==
  /\ at[c] = "reply"
  /\ told' = IF SaysSent(c) /\ c \notin gone THEN told \cup {c} ELSE told
  /\ doubts' = IF SaysSent(c) /\ c \in gone
               THEN [doubts EXCEPT ![c] = @ + 1] ELSE doubts
  /\ at' = [at EXCEPT ![c] = "idle"]
  /\ req' = [req EXCEPT ![c] = NoRequest]
  /\ gone' = gone \ {c}
  /\ status' = [status EXCEPT ![c] = 0]
  /\ body' = [body EXCEPT ![c] = {}]
  /\ before' = [before EXCEPT ![c] = {}]
  /\ UNCHANGED <<offers, poolVars, workerVars, db, posted, wire, tries, now,
                 faults>>

\* The client closes its connection, or it is lost.
HangUp(c) ==
  /\ at[c] # "idle"
  /\ c \notin gone
  /\ Fault
  /\ gone' = gone \cup {c}
  /\ UNCHANGED <<offers, at, req, status, body, before, poolVars, workerVars,
                 db, chanVars, now>>

-----------------------------------------------------------------------------
(* The worker's statements, as the pool sees them: collections store, and a *)
(* pass lists and marks in turn.                                            *)

WorkerAsks ==
  /\ wat = "idle"
  /\ ctx = "live"
  /\ stmt = "store" => now < MaxNow
  /\ wat' = "acquire"
  /\ queue' = Append(queue, "worker")
  /\ UNCHANGED <<offers, reqVars, free, stmt, ctx, db, chanVars, now, faults>>

StoreDone ==
  /\ stmt = "store"
  /\ stmt' = IF TelegramEnabled THEN "list" ELSE "store"
  /\ now' = now + 1
  /\ \E batch \in Batches : UpsertMany(batch, now')

\* Fault variant: offers are marked while their rows are still being read.
MarkWhileListing ==
  /\ stmt = "list"
  /\ wat = "query"
  /\ Eligible(0) # {}
  /\ stmt' = "mark"
  /\ wat' = "acquire"
  /\ queue' = Append(queue, "worker")
  /\ UNCHANGED <<offers, free, now>>

\* ListUnpublished reads all its rows before it returns.
ListDone ==
  /\ stmt = "list"
  /\ stmt' \in IF Eligible(0) = {} THEN FirstOfCycle ELSE {"mark"}
  /\ wat' = "idle"
  /\ GiveBack
  /\ UNCHANGED <<offers, now>>

MarkDone ==
  /\ stmt = "mark"
  /\ stmt' = "list"
  /\ \E k \in Eligible(0) : MarkPublished(k)
  /\ UNCHANGED now

WorkerDone ==
  /\ wat = "query"
  /\ db = "up"
  /\ \/ StoreDone /\ wat' = "idle" /\ GiveBack
     \/ ListDone
     \/ MarkDone /\ wat' = "idle" /\ GiveBack
  /\ UNCHANGED <<reqVars, ctx, db, chanVars, faults>>

\* A failed listing ends the pass; after another statement the cycle goes on.
WorkerFails ==
  /\ wat = "query"
  /\ Fault
  /\ wat' = "idle"
  /\ stmt' \in IF stmt = "list" \/ ~ TelegramEnabled THEN FirstOfCycle ELSE {"list"}
  /\ GiveBack
  /\ UNCHANGED <<offers, reqVars, ctx, db, chanVars, now>>

\* Told to stop, it waits for nothing any more.
WorkerStops ==
  /\ ctx = "cancelled"
  /\ \/ wat = "idle" /\ UNCHANGED poolVars
     \/ wat = "acquire" /\ queue' = Leave("worker") /\ UNCHANGED free
     \/ wat = "query" /\ GiveBack
  /\ wat' = "stopped"
  /\ UNCHANGED <<offers, reqVars, stmt, ctx, db, chanVars, now, faults>>

-----------------------------------------------------------------------------
(* The surroundings.                                                        *)

Cancel ==
  /\ ctx = "live"
  /\ Fault
  /\ ctx' = "cancelled"
  /\ UNCHANGED <<offers, reqVars, poolVars, wat, stmt, db, chanVars, now>>

DbHangs ==
  /\ db = "up"
  /\ db' = "hung"
  /\ UNCHANGED <<offers, reqVars, poolVars, workerVars, chanVars, now, faults>>

DbRecovers ==
  /\ db = "hung"
  /\ db' = "up"
  /\ UNCHANGED <<offers, reqVars, poolVars, workerVars, chanVars, now, faults>>

\* The process ends, told to or not, and another starts on a database that
\* answers (NewPool pings it).  Requests are lost, those at Telegram in doubt.
Restart ==
  /\ ctx = "live" => Fault
  /\ ctx = "cancelled" => UNCHANGED faults
  /\ at' = [c \in Clients |-> "idle"]
  /\ req' = [c \in Clients |-> NoRequest]
  /\ gone' = {}
  /\ status' = [c \in Clients |-> 0]
  /\ body' = [c \in Clients |-> {}]
  /\ before' = [c \in Clients |-> {}]
  /\ free' = MaxConns
  /\ queue' = <<>>
  /\ wat' = "idle"
  /\ stmt' \in FirstOfCycle
  /\ ctx' = "live"
  /\ db' = "up"
  /\ wire' = [c \in Clients |-> wire[c] + (IF at[c] = "await" THEN 1 ELSE 0)]
  /\ doubts' = [c \in Clients |->
                  doubts[c] + (IF at[c] = "await" \/ SaysSent(c) THEN 1 ELSE 0)]
  /\ UNCHANGED <<offers, posted, tries, told, now>>

-----------------------------------------------------------------------------
Arrivals(c) == Ping(c) \/ List(c) \/ NotifyInvalid(c) \/ Notify(c)

HandlerStep(c) ==
  \/ ListAnswered(c) \/ ListFails(c) \/ ListCancelled(c)
  \/ NotifyAccepted(c) \/ NotifyRefused(c) \/ NotifyGivenUp(c)
  \/ Reply(c)

WorkerStep == WorkerAsks \/ WorkerDone \/ WorkerFails \/ WorkerStops

Next ==
  \/ Grant
  \/ WorkerStep
  \/ \E c \in Clients :
       Arrivals(c) \/ HandlerStep(c) \/ LatePost(c) \/ HangUp(c)
  \/ Cancel \/ DbHangs \/ DbRecovers \/ Restart

Spec == Init /\ [][Next]_vars

\* Handlers and worker run on: Telegram's client has a timeout, the database
\* answers while it is up, and a cancelled context is noticed.  No client has to
\* ask or to hang up, no database has to recover, nobody has to restart the
\* process.
FairSpec ==
  /\ Spec
  /\ WF_vars(Grant)
  /\ WF_vars(WorkerStep)
  /\ \A c \in Clients : WF_vars(HandlerStep(c))

-----------------------------------------------------------------------------
(* Properties.                                                             *)

\* A client has a request while the handler is not idle.
RequestsTyped ==
  /\ at \in [Clients -> {"idle", "acquire", "query", "await", "reply"}]
  /\ req \in [Clients -> Requests \cup {NoRequest}]
  /\ \A c \in Clients : at[c] = "idle" <=> req[c] = NoRequest

HttpTypeOK ==
  /\ DOMAIN offers \in SUBSET Keys
  /\ offers \in [DOMAIN offers -> Row]
  /\ RequestsTyped
  /\ gone \in SUBSET Clients
  /\ status \in [Clients -> {0, 200, 204, 400, 500, 502, 503}]
  /\ body \in [Clients -> SUBSET Keys]
  /\ before \in [Clients -> SUBSET Keys]
  /\ free \in 0..MaxConns
  /\ queue \in Seq(Clients \cup {"worker"})
  /\ wat \in {"idle", "acquire", "query", "stopped"}
  /\ stmt \in {"store", "list", "mark"}
  /\ ctx \in {"live", "cancelled"}
  /\ db \in {"up", "hung"}
  /\ posted \in [Clients -> Nat] /\ wire \in [Clients -> Nat]
  /\ tries \in [Clients -> Nat] /\ doubts \in [Clients -> Nat]
  /\ told \in SUBSET Clients
  /\ now \in 0..MaxNow
  /\ faults \in 0..MaxFaults

Holders ==
  {c \in Clients : at[c] = "query"}
    \cup (IF wat = "query" THEN {"worker"} ELSE {})

Waiting ==
  {c \in Clients : at[c] = "acquire"}
    \cup (IF wat = "acquire" THEN {"worker"} ELSE {})

\* No connection is lost or lent twice, whatever failed, panicked, was cancelled
\* or hung up (flight_offer_repo.go:116, the deferred Close), and who waits for
\* one is in the queue once.
ConnsAccounted ==
  /\ free + Cardinality(Holders) = MaxConns
  /\ Waiting = {queue[i] : i \in DOMAIN queue}
  /\ Cardinality(Waiting) = Len(queue)

\* What is shown of what is stored: all that matches, unless the limit leaves
\* some out, and then none that departs before what is shown.
Complete(f, stored, shown) ==
  LET owed == {k \in stored : /\ f.origin = "" \/ k.origin = f.origin
                              /\ f.destination = "" \/ k.destination = f.destination}
  IN  /\ Cardinality(shown) <= EffectiveLimit(f.limit)
      /\ \/ owed \subseteq shown
         \/ /\ Cardinality(shown) = EffectiveLimit(f.limit)
            /\ \A k \in owed \ shown, l \in shown : k.date >= l.date

\* An answer to GET /api/offers leaves out nothing that was stored before the
\* request came, unless the limit does, and then nothing that departs before
\* what it shows, though the worker stores meanwhile (flight_offer_repo.go:103).
LeavesNothingOut ==
  \A c \in Clients : at[c] = "reply" /\ status[c] = 200 /\ req[c].kind = "offers" =>
    Complete(Filter(req[c].filter), before[c], body[c])

\* A client that asks again until it is told "sent" posts its message once more
\* for every try left in doubt, and no oftener (notify_handler.go:59).
RetriesAccounted == \A c \in Clients : posted[c] <= doubts[c] + 1

\* Every request is answered, however many share the pool and though the worker
\* stores, lists and marks between them.  Only a list may wait for ever, and
\* only for a database that does not answer; the health check and the channel do
\* not depend on it (health_handler.go:12).
EveryRequestEnds ==
  \A c \in Clients :
    at[c] # "idle" ~>
      \/ at[c] = "idle"
      \/ db = "hung" /\ req[c].kind = "offers"

\* Who waits for a connection or for a database that never answers gives up and
\* gives back with its context: the client hung up, or the service stops
\* (flight_offer_repo.go:112 and 193: statements have no deadline of their own).
ContextFrees ==
  /\ \A c \in Clients : c \in gone ~> c \notin gone
  /\ ctx = "cancelled" ~> wat = "stopped" \/ ctx = "live"

\* Requests do not keep the worker from its statements for ever, though they may
\* hold every connection when it asks for one (pool.go:21).
WorkerServed == wat = "acquire" ~> wat # "acquire" \/ db = "hung"

-----------------------------------------------------------------------------
(* POST /api/notify implements at-least-once delivery (module Delivery): a  *)
(* message is recorded when its client is told that it was sent.            *)

D == INSTANCE Delivery WITH
       Offers   <- Clients,
       known    <- Clients,
       asked    <- [c \in Clients |->
                      wire[c] + (IF at[c] = "await" THEN 1 ELSE 0)],
       posted   <- posted,
       recorded <- told

\* "sent" is told of no message that was not posted, and it is not asked for
\* again, whatever was lost, came late or crashed.
SentMeansPosted == D!Spec
=============================================================================
