----------------------------- MODULE Publisher -----------------------------
(***************************************************************************)
(* Publisher.PublishPending (internal/service/publisher.go) against the    *)
(* offers table and the Telegram channel.                                  *)
(*                                                                         *)
(* One goroutine runs passes; between two passes the collector, in the     *)
(* same goroutine, writes a batch of quotes.  The process may be told to   *)
(* stop (the root context is cancelled), may crash, and may be restarted.  *)
(* A request to Telegram may be answered, refused, or given up by the      *)
(* client while Telegram still holds it and may post it later.             *)
(***************************************************************************)
EXTENDS FlightOfferRepo

CONSTANTS
  Batches,         \* the batches a collection may hand to UpsertMany
  Rejected,        \* offers whose message Telegram refuses every time
  BatchSize,       \* WORKER_PUBLISH_BATCH, any integer
  MaxPrice,        \* WORKER_MAX_PRICE, any integer
  PublishDelay,    \* WORKER_PUBLISH_DELAY: only its sign matters
  TelegramEnabled, \* Notifier.Enabled()
  NoOffer,         \* the publisher is not handling an offer
  MaxNow,          \* bound on the collections
  MaxFaults        \* bound on failures, cancellations and crashes

ASSUME PublisherAssumption ==
  /\ Batches \subseteq Seq(Quote)
  /\ Rejected \subseteq Keys
  /\ BatchSize \in Int
  /\ MaxPrice \in Int
  /\ PublishDelay \in Int
  /\ TelegramEnabled \in BOOLEAN
  /\ NoOffer \notin OfferCopy
  /\ MaxNow \in Nat
  /\ MaxFaults \in Nat

VARIABLES
  ctx,       \* "live", "cancelled", or "dead": no process is running
  pc,        \* where PublishPending is
  fresh,     \* offers of the current page still to be handled
  attempted, \* the attempted map of this pass
  cur,       \* the offer being handled
  res,       \* PublishResult
  err,       \* what PublishPending will return
  now,       \* collections so far: the clock behind collected_at
  faults,    \* failures so far, to bound the model
  posted,    \* per offer: messages the channel has shown
  wire,      \* per offer: requests given up that Telegram may still post
  excused    \* per offer: times it was left unpublished though it may be posted

passVars == <<pc, fresh, attempted, cur, res, err>>
chanVars == <<posted, wire, excused>>
vars == <<offers, ctx, passVars, now, faults, chanVars>>

-----------------------------------------------------------------------------
NoResult == [fetched |-> 0, published |-> 0, failed |-> 0]

\* The pass is local to one call: its variables end with the call.
ForgetPass ==
  /\ pc' = "idle"
  /\ fresh' = {}
  /\ attempted' = {}
  /\ cur' = NoOffer
  /\ res' = NoResult
  /\ err' = "nil"

Init ==
  /\ \E stored \in SUBSET Keys : offers \in [stored -> LegacyRow]
  /\ ctx = "live"
  /\ pc = "idle"
  /\ fresh = {}
  /\ attempted = {}
  /\ cur = NoOffer
  /\ res = NoResult
  /\ err = "nil"
  /\ now = 0
  /\ faults = 0
  /\ posted = [k \in Keys |-> 0]
  /\ wire = [k \in Keys |-> 0]
  /\ excused = [k \in Keys |-> 0]

\* Something outside the program goes wrong.
Fault ==
  /\ faults < MaxFaults
  /\ faults' = faults + 1

\* A call that takes the context fails when it is cancelled, or by a fault.
CallFails ==
  \/ ctx = "cancelled" /\ UNCHANGED faults
  \/ ctx = "live" /\ Fault

-----------------------------------------------------------------------------
(* The pass.                                                               *)

\* The worker checks the context before it calls PublishPending.
BeginPass ==
  /\ pc = "idle"
  /\ ctx = "live"
  /\ TelegramEnabled
  /\ pc' = "list"
  /\ UNCHANGED <<offers, ctx, fresh, attempted, cur, res, err, now, faults,
                 chanVars>>

\* Offers of a page that this pass has not attempted yet.
FreshOffers(page) == {Copy(k) : k \in page \ attempted}

\* Fault variant: the pass ends on an empty page, not on one with nothing fresh.
ListUntilEmpty ==
  /\ pc = "list"
  /\ ctx = "live"
  /\ \E page \in UnpublishedPages(MaxPrice, BatchSize) :
       /\ fresh' = FreshOffers(page)
       /\ pc' = IF page = {} THEN "done" ELSE "next"
  /\ UNCHANGED <<offers, ctx, attempted, cur, res, err, now, faults, chanVars>>

ListUnpublished ==
  /\ pc = "list"
  /\ ctx = "live"
  /\ \E page \in UnpublishedPages(MaxPrice, BatchSize) :
       /\ fresh' = FreshOffers(page)
       /\ pc' = IF fresh' = {} THEN "done" ELSE "next"
  /\ UNCHANGED <<offers, ctx, attempted, cur, res, err, now, faults, chanVars>>

\* A failed listing ends the pass; what was attempted before it counts.
ListFails ==
  /\ pc = "list"
  /\ CallFails
  /\ err' = "list"
  /\ pc' = "done"
  /\ UNCHANGED <<offers, ctx, fresh, attempted, cur, res, now, chanVars>>

\* Fault variant: the offer taken from the page is not the one kept in hand.
PickUnnamed ==
  /\ pc = "next"
  /\ \E c \in fresh :
       /\ fresh' = fresh \ {c}
       /\ attempted' = attempted \cup {c.id}
  /\ pc' = IF res.fetched > 0 THEN "pause" ELSE "send"
  /\ UNCHANGED <<offers, ctx, cur, res, err, now, faults, chanVars>>

\* The next offer of the page; before any but the first message, a pause.
Pick ==
  /\ pc = "next"
  /\ \E c \in fresh :
       /\ \A d \in fresh : ~ Older(d, c)
       /\ cur' = c
       /\ fresh' = fresh \ {c}
       /\ attempted' = attempted \cup {c.id}
  /\ pc' = IF res.fetched > 0 THEN "pause" ELSE "send"
  /\ UNCHANGED <<offers, ctx, res, err, now, faults, chanVars>>

\* Fault variant: one page per pass.
OnePage ==
  /\ pc = "next"
  /\ fresh = {}
  /\ pc' = "done"
  /\ UNCHANGED <<offers, ctx, fresh, attempted, cur, res, err, now, faults,
                 chanVars>>

PageDone ==
  /\ pc = "next"
  /\ fresh = {}
  /\ pc' = "list"
  /\ UNCHANGED <<offers, ctx, fresh, attempted, cur, res, err, now, faults,
                 chanVars>>

\* sleep with a positive delay selects at random between a fired timer and a
\* cancelled context; without a delay it only looks at the context.
PauseOver ==
  /\ pc = "pause"
  /\ ctx = "live" \/ PublishDelay > 0
  /\ pc' = "send"
  /\ UNCHANGED <<offers, ctx, fresh, attempted, cur, res, err, now, faults,
                 chanVars>>

PauseCancelled ==
  /\ pc = "pause"
  /\ ctx = "cancelled"
  /\ err' = "cancelled"
  /\ pc' = "done"
  /\ UNCHANGED <<offers, ctx, fresh, attempted, cur, res, now, faults,
                 chanVars>>

-----------------------------------------------------------------------------
(* One offer: send the message, then record it.                            *)

SendRequest ==
  /\ pc = "send"
  /\ ctx = "live"
  /\ res' = [res EXCEPT !.fetched = @ + 1]
  /\ pc' = "await"
  /\ UNCHANGED <<offers, ctx, fresh, attempted, cur, err, now, faults,
                 chanVars>>

\* The HTTP client sends nothing on a context that is already cancelled.
SendCancelled ==
  /\ pc = "send"
  /\ ctx = "cancelled"
  /\ res' = [res EXCEPT !.fetched = @ + 1, !.failed = @ + 1]
  /\ err' = "offers"
  /\ pc' = "next"
  /\ UNCHANGED <<offers, ctx, fresh, attempted, cur, now, faults, chanVars>>

\* Telegram posts the message and its answer {"ok": true} is read.
SendAccepted ==
  /\ pc = "await"
  /\ cur.id \notin Rejected
  /\ posted' = [posted EXCEPT ![cur.id] = @ + 1]
  /\ pc' = "mark"
  /\ UNCHANGED <<offers, ctx, fresh, attempted, cur, res, err, now, faults,
                 wire, excused>>

\* Fault variant: the failure is not counted.
OfferUncounted ==
  /\ err' = "offers"
  /\ pc' = "next"
  /\ UNCHANGED <<ctx, fresh, attempted, cur, res, now>>

\* Fault variant: the first failure ends the pass.
OfferAborts ==
  /\ res' = [res EXCEPT !.failed = @ + 1]
  /\ err' = "offers"
  /\ pc' = "done"
  /\ UNCHANGED <<ctx, fresh, attempted, cur, now>>

\* An offer that was not published: counted, and the loop goes on.
OfferFailed ==
  /\ res' = [res EXCEPT !.failed = @ + 1]
  /\ err' = "offers"
  /\ pc' = "next"
  /\ UNCHANGED <<ctx, fresh, attempted, cur, now>>

\* Fault variant: the refusal is logged and the offer marked all the same.
RefusedThenMarked ==
  /\ pc = "await"
  /\ IF cur.id \in Rejected THEN UNCHANGED faults ELSE Fault
  /\ pc' = "mark"
  /\ UNCHANGED <<offers, ctx, fresh, attempted, cur, res, err, now, chanVars>>

\* Telegram answers {"ok": false} (flood control, a message it cannot parse).
SendRefused ==
  /\ pc = "await"
  /\ IF cur.id \in Rejected THEN UNCHANGED faults ELSE Fault
  /\ OfferFailed
  /\ UNCHANGED <<offers, chanVars>>

\* Timeout, lost connection, unreadable answer or a cancelled context: the
\* client cannot know whether the message is or will be posted.
SendGivenUp ==
  /\ pc = "await"
  /\ CallFails
  /\ wire' = [wire EXCEPT ![cur.id] = @ + 1]
  /\ excused' = [excused EXCEPT ![cur.id] = @ + 1]
  /\ OfferFailed
  /\ UNCHANGED <<offers, posted>>

MarkSucceeds ==
  /\ pc = "mark"
  /\ ctx = "live"
  /\ MarkPublished(cur.id)
  /\ res' = [res EXCEPT !.published = @ + 1]
  /\ pc' = "next"
  /\ UNCHANGED <<ctx, fresh, attempted, cur, err, now, faults, chanVars>>

\* The update is lost, or is committed and only its answer is lost.
MarkInDoubt ==
  \/ MarkPublished(cur.id) /\ UNCHANGED excused
  \/ /\ excused' = [excused EXCEPT ![cur.id] = @ + 1]
     /\ UNCHANGED offers

MarkFails ==
  /\ pc = "mark"
  /\ CallFails
  /\ MarkInDoubt
  /\ OfferFailed
  /\ UNCHANGED <<posted, wire>>

ReturnPass ==
  /\ pc = "done"
  /\ ForgetPass
  /\ UNCHANGED <<offers, ctx, now, faults, chanVars>>

-----------------------------------------------------------------------------
(* The surroundings of the pass.                                           *)

\* Fault variant: the collector runs in a goroutine of its own.
CollectAnytime ==
  /\ ctx # "dead"
  /\ now < MaxNow
  /\ now' = now + 1
  /\ \E batch \in Batches : UpsertMany(batch, now')
  /\ UNCHANGED <<ctx, passVars, faults, chanVars>>

\* The collector shares the worker's goroutine: it writes between passes.
Collect ==
  /\ pc = "idle"
  /\ ctx # "dead"
  /\ now < MaxNow
  /\ now' = now + 1
  /\ \E batch \in Batches : UpsertMany(batch, now')
  /\ UNCHANGED <<ctx, passVars, faults, chanVars>>

\* Telegram processes a request its client has given up.
LatePost(k) ==
  /\ wire[k] > 0
  /\ k \notin Rejected
  /\ wire' = [wire EXCEPT ![k] = @ - 1]
  /\ posted' = [posted EXCEPT ![k] = @ + 1]
  /\ UNCHANGED <<offers, ctx, passVars, now, faults, excused>>

\* SIGINT or SIGTERM.
Cancel ==
  /\ ctx = "live"
  /\ Fault
  /\ ctx' = "cancelled"
  /\ UNCHANGED <<offers, passVars, now, chanVars>>

\* The worker leaves its loop once the cycle is over.
Stop ==
  /\ ctx = "cancelled"
  /\ pc = "idle"
  /\ ctx' = "dead"
  /\ UNCHANGED <<offers, passVars, now, faults, chanVars>>

\* What a call in progress leaves behind when the process dies.
Orphaned ==
  \/ /\ pc = "await"
     /\ wire' = [wire EXCEPT ![cur.id] = @ + 1]
     /\ excused' = [excused EXCEPT ![cur.id] = @ + 1]
     /\ UNCHANGED <<offers, posted>>
  \/ pc = "mark" /\ MarkInDoubt /\ UNCHANGED <<posted, wire>>
  \/ pc \notin {"await", "mark"} /\ UNCHANGED <<offers, chanVars>>

\* The deferred recover of runCycle ends a pass that panics between two calls.
Panic ==
  /\ pc \notin {"idle", "await"}
  /\ Fault
  /\ excused' = IF pc = "mark" THEN [excused EXCEPT ![cur.id] = @ + 1]
                               ELSE excused
  /\ ForgetPass
  /\ UNCHANGED <<offers, ctx, now, posted, wire>>

\* os.Exit, a kill or a power failure at any point.
Crash ==
  /\ ctx # "dead"
  /\ Fault
  /\ Orphaned
  /\ ForgetPass
  /\ ctx' = "dead"
  /\ UNCHANGED now

Restart ==
  /\ ctx = "dead"
  /\ ctx' = "live"
  /\ UNCHANGED <<offers, passVars, now, faults, chanVars>>

-----------------------------------------------------------------------------
PassStep ==
  \/ ListUnpublished \/ ListFails
  \/ Pick \/ PageDone \/ PauseOver \/ PauseCancelled
  \/ SendRequest \/ SendCancelled
  \/ SendAccepted \/ SendRefused \/ SendGivenUp
  \/ MarkSucceeds \/ MarkFails
  \/ ReturnPass

Next ==
  \/ BeginPass
  \/ PassStep
  \/ Panic
  \/ Collect
  \/ \E k \in Keys : LatePost(k)
  \/ Cancel \/ Stop \/ Crash \/ Restart

Spec == Init /\ [][Next]_vars

\* Every call of a pass returns (the HTTP client has a timeout, the sleep a
\* timer) and the ticker starts a cycle again and again.  Nothing restarts a
\* process that has stopped.
FairSpec == Spec /\ WF_vars(BeginPass \/ PassStep)

-----------------------------------------------------------------------------
(* Properties.                                                             *)

InHand == IF pc \in {"pause", "send", "await", "mark"} THEN {cur} ELSE {}

\* What is owed to the channel: stored, not recorded, within the price cap.
Due ==
  {k \in DOMAIN offers :
     ~ IsPublished(k) /\ (MaxPrice > 0 => offers[k].price <= MaxPrice)}

\* The values the variables range over.
TypeOK ==
  /\ DOMAIN offers \subseteq Keys
  /\ offers \in [DOMAIN offers -> Row]
  /\ ctx \in {"live", "cancelled", "dead"}
  /\ pc \in {"idle", "list", "next", "pause", "send", "await", "mark", "done"}
  /\ fresh \subseteq OfferCopy
  /\ attempted \subseteq Keys
  /\ cur \in OfferCopy \cup {NoOffer}
  /\ res \in [fetched : Nat, published : Nat, failed : Nat]
  /\ err \in {"nil", "offers", "list", "cancelled"}
  /\ now \in Nat
  /\ faults \in Nat
  /\ posted \in [Keys -> Nat]
  /\ wire \in [Keys -> Nat]
  /\ excused \in [Keys -> Nat]
  /\ InHand \subseteq OfferCopy

\* At-least-once delivery (publisher.go:104): an offer recorded as published
\* has been posted, whatever failed, crashed or came late on the way.
AtLeastOnce == \A k \in Keys : IsPublished(k) => posted[k] >= 1

\* A duplicate has a cause: one message per offer, plus one for each time an
\* attempt was left in doubt (given up, or accepted and not recorded).
DuplicatesExcused ==
  \A k \in Keys : posted[k] + wire[k] <= excused[k] + 1

\* "an already-published offer is never re-published"
\* (flight_offer_repo.go:33): neither a collection nor a pass takes the mark
\* back, and no request is ever made for an offer that has it.
NeverRepublished ==
  [][\A k \in Keys : IsPublished(k) =>
       /\ IsPublished(k)'
       /\ ~ (pc = "send" /\ pc' = "await" /\ cur.id = k)]_vars

\* The page is read once and used message after message: all that time each of
\* its offers stays due and its row stays what the message will say.
PageCurrent ==
  \A c \in fresh \cup InHand :
    c.id \in Due /\ c = Copy(c.id)

\* PublishPending returns no error only when nothing is left to publish.
CleanReturn == pc = "done" /\ err = "nil" => Due = {}

\* Every offer attempted in a pass is counted once in its PublishResult.
ResultAccounting ==
  /\ res.fetched = res.published + res.failed
                     + (IF pc \in {"await", "mark"} THEN 1 ELSE 0)
  /\ Cardinality(attempted) = res.fetched
       + (IF pc \in {"pause", "send"} \/ err = "cancelled" THEN 1 ELSE 0)

\* A pass that neither stopped nor lost the database has attempted every
\* offer due, unless the offers that failed in it fill a whole page.
DrainedUnlessBlocked ==
  pc = "done" /\ err \in {"nil", "offers"} =>
    \/ Due \subseteq attempted
    \/ Cardinality(Due \cap attempted) >= EffectiveLimit(BatchSize)

\* A pass comes to its end.
PassTerminates == pc # "idle" ~> pc = "idle"

\* An offer Telegram can accept does not stay due for ever while the
\* process runs: it is published (or its price leaves the cap).
EveryOfferPublished ==
  \A k \in Keys \ Rejected :
    k \in Due ~> k \notin Due \/ ctx # "live"

-----------------------------------------------------------------------------
(* The pass implements at-least-once delivery (module Delivery).           *)

D == INSTANCE Delivery WITH
       Offers   <- Keys,
       known    <- DOMAIN offers,
       recorded <- {k \in Keys : IsPublished(k)},
       asked    <- [k \in Keys |->
                      wire[k] + IF pc = "await" /\ cur.id = k THEN 1 ELSE 0]

\* Every behaviour of the publisher, its failures and its surroundings is one
\* of the abstract delivery: requests only for offers not recorded, records
\* only for offers posted, posts only on request (publisher.go:97-112).
ImplementsDelivery == D!Spec

-----------------------------------------------------------------------------
(* What comments of the repository say of a pass, and the code does not do. *)

\* "a large backlog is fully drained in a single pass. A failure on one offer
\* does not abort the pass" (publisher.go:57).
FullyDrained ==
  pc = "done" /\ err \in {"nil", "offers"} =>
    Due \subseteq attempted
=============================================================================
