---------------------------- MODULE WorkerProofs ----------------------------
(***************************************************************************)
(* What module Worker promises, for every setting it may be given, and     *)
(* that what is proved of the collector and of the publisher alone holds   *)
(* of the two in the worker's goroutine.                                   *)
(***************************************************************************)
EXTENDS Worker, TLAPS

CP == INSTANCE CollectorProofs
PP == INSTANCE PublisherProofs

-----------------------------------------------------------------------------
(* The inductive invariant.                                                *)

\* The batch on its way to the table is an answer to the query the collector is
\* at, and there is room left for it on the clock.
AnswerInHand ==
  cpc = "store" =>
    /\ now < MaxNow
    /\ \E prices \in PriceLists :
         batch = [i \in DOMAIN prices |->
                    [key |-> CP!KeyOf(Head(todo)), price |-> prices[i]]]

WorkerInv == WorkerTypeOK /\ CP!CollectInv /\ AnswerInHand

-----------------------------------------------------------------------------
(* The collector's steps in the worker are those of the collector alone.   *)

\* The worker gives the collector the surroundings its proofs ask for.
LEMMA CollectorSettings ==
  CP!RepoAssumption /\ CP!CollectorAssumption /\ CP!KeysAssumption
<1>1. CP!RepoAssumption
  BY RepoAssumption DEF CP!RepoAssumption
<1>2. CP!CollectorAssumption
  BY WorkerAssumption
     DEF CP!CollectorAssumption, C!CollectorAssumption, CP!Codes, C!Codes
<1>3. CP!KeysAssumption
  BY WorkerAssumption
     DEF CP!KeysAssumption, C!KeysAssumption, CP!Routes, C!Routes, CP!KeyOf,
         C!KeyOf, CP!Window, C!Window
<1> QED
  BY <1>1, <1>2, <1>3

\* Every step of a pass is one.
LEMMA SameCollector ==
  /\ C!BeginCollect => CP!BeginCollect
  /\ C!CollectStep => CP!CollectStep
  /\ C!Panic => CP!Panic
  /\ C!NextDay => CP!NextDay
  /\ C!ForgetPass => CP!ForgetPass
  /\ C!InitCollector => CP!InitCollector
<1> USE DEF C!KeyOf, CP!KeyOf, C!NoRoutes, CP!NoRoutes, C!passVars, CP!passVars,
            C!Miss, CP!Miss, C!CallFails, CP!CallFails, C!NextQuery,
            CP!NextQuery, C!RouteFailed, CP!RouteFailed
<1>1. C!BeginCollect => CP!BeginCollect
  BY DEF C!BeginCollect, CP!BeginCollect, C!Queries, CP!Queries, C!Routes,
         CP!Routes, C!UpcomingDates, CP!UpcomingDates, C!Window, CP!Window
<1>2. C!SleepOver => CP!SleepOver
  BY DEF C!SleepOver, CP!SleepOver
<1>3. C!SleepCancelled => CP!SleepCancelled
  BY DEF C!SleepCancelled, CP!SleepCancelled
<1>4. C!RoutesDone => CP!RoutesDone
  BY DEF C!RoutesDone, CP!RoutesDone
<1>5. C!FetchEmpty => CP!FetchEmpty
  BY DEF C!FetchEmpty, CP!FetchEmpty
<1>6. C!FetchAnswered => CP!FetchAnswered
  BY DEF C!FetchAnswered, CP!FetchAnswered
<1>7. C!FetchFails => CP!FetchFails
  BY DEF C!FetchFails, CP!FetchFails
<1>8. C!StoreCommits => CP!StoreCommits
  BY DEF C!StoreCommits, CP!StoreCommits, C!UpsertMany, CP!UpsertMany,
         C!BatchKeys, CP!BatchKeys, C!Surviving, CP!Surviving,
         C!PublishedAfterUpsert, CP!PublishedAfterUpsert
<1>9. C!StoreSucceeds => CP!StoreSucceeds
  BY DEF C!StoreSucceeds, CP!StoreSucceeds, C!Hear, CP!Hear
<1>10. C!StoreFails => CP!StoreFails
  BY DEF C!StoreFails, CP!StoreFails
<1>11. C!ForgetPass => CP!ForgetPass
  BY DEF C!ForgetPass, CP!ForgetPass
<1>12. C!ReturnCollect => CP!ReturnCollect
  BY <1>11 DEF C!ReturnCollect, CP!ReturnCollect
<1>13. C!CollectStep => CP!CollectStep
  BY <1>2, <1>3, <1>4, <1>5, <1>6, <1>7, <1>8, <1>9, <1>10, <1>12
     DEF C!CollectStep, CP!CollectStep
<1>14. C!Panic => CP!Panic
  BY <1>11 DEF C!Panic, CP!Panic
<1>15. C!NextDay => CP!NextDay
  BY DEF C!NextDay, CP!NextDay
<1>16. C!InitCollector => CP!InitCollector
  BY DEF C!InitCollector, CP!InitCollector
<1> QED
  BY <1>1, <1>11, <1>13, <1>14, <1>15, <1>16

-----------------------------------------------------------------------------
(* The steps of the worker.                                                *)

\* The rows stay rows when the publisher writes its marks.
LEMMA MarkKeepsTable ==
  ASSUME DOMAIN offers \subseteq Keys, offers \in [DOMAIN offers -> Row],
         NEW k, P!MarkPublished(k) \/ UNCHANGED offers
  PROVE  DOMAIN offers' \subseteq Keys /\ offers' \in [DOMAIN offers' -> Row]
<1>1. CASE k \in DOMAIN offers /\ P!MarkPublished(k)
  <2>1. offers[k] \in Row
    BY <1>1
  <2>2. [offers[k] EXCEPT !.published = "true"] \in Row
    BY <2>1 DEF Row
  <2>3. offers' = [offers EXCEPT ![k] = [@ EXCEPT !.published = "true"]]
    BY <1>1 DEF P!MarkPublished
  <2> QED
    BY <1>1, <2>2, <2>3
<1>2. CASE k \notin DOMAIN offers \/ UNCHANGED offers
  BY <1>2 DEF P!MarkPublished
<1> QED
  BY <1>1, <1>2

\* What is collected stands, whatever else is done between two collections.
LEMMA IdleKeeps ==
  ASSUME CP!CollectInv,
         C!ForgetPass \/ (cpc = "idle" /\ UNCHANGED collectorVars),
         UNCHANGED <<since, today, misses, now>>,
         ctx' \in {"live", "cancelled", "dead"},
         DOMAIN offers' \subseteq Keys, offers' \in [DOMAIN offers' -> Row]
  PROVE  CP!CollectInv'
<1>1. /\ cpc' = "idle" /\ todo' = <<>> /\ batch' = <<>>
      /\ cres' = CP!NoRoutes /\ cerr' = "nil" /\ asked' = {} /\ heard' = <<>>
  <2>1. CASE C!ForgetPass
    BY <2>1 DEF C!ForgetPass, C!NoRoutes, CP!NoRoutes
  <2>2. CASE cpc = "idle" /\ UNCHANGED collectorVars
    BY <2>2 DEF collectorVars, CP!CollectInv, CP!PassInv, CP!BatchInv
  <2> QED
    BY <2>1, <2>2
<1>2. CP!CollectorTypeOK'
  BY <1>1 DEF CP!CollectInv, CP!CollectorTypeOK, CP!NoRoutes, CP!Row, Row
<1>3. CP!CalendarInv' /\ CP!PassInv' /\ CP!BatchInv'
  BY <1>1 DEF CP!CollectInv, CP!CalendarInv, CP!PassInv, CP!BatchInv
<1>4. CP!ProgressInv' /\ CP!RoutesAccounted'
  BY <1>1 DEF CP!ProgressInv, CP!RoutesAccounted
<1>5. CP!HeardIsStored'
  BY <1>1 DEF CP!HeardIsStored
<1> QED
  BY <1>2, <1>3, <1>4, <1>5 DEF CP!CollectInv

\* A cancellation is not seen by what is in hand.
LEMMA CancelKeeps ==
  ASSUME CP!CollectInv, UNCHANGED <<offers, now, collectorVars>>,
         ctx' \in {"live", "cancelled", "dead"}
  PROVE  CP!CollectInv'
<1>1. CP!CollectorTypeOK'
  BY DEF collectorVars, CP!CollectInv, CP!CollectorTypeOK
<1>2. CP!CalendarInv' /\ CP!PassInv' /\ CP!BatchInv'
  BY DEF collectorVars, CP!CollectInv, CP!CalendarInv, CP!PassInv, CP!BatchInv
<1>3. CP!ProgressInv' /\ CP!RoutesAccounted' /\ CP!HeardIsStored'
  <2>1. CP!Queries(since)' = CP!Queries(since)
    BY DEF collectorVars
  <2> QED
    BY <2>1
       DEF collectorVars, CP!CollectInv, CP!ProgressInv, CP!RoutesAccounted,
           CP!HeardIsStored
<1> QED
  BY <1>1, <1>2, <1>3 DEF CP!CollectInv

\* A step of the collector alone.
LEMMA CollectorKeeps ==
  ASSUME CP!CollectInv,
         \/ C!BeginCollect \/ C!CollectStep \/ C!Panic \/ C!NextDay
         \/ UNCHANGED <<offers, ctx, now, collectorVars>>
  PROVE  CP!CollectInv'
<1>1. [CP!Next]_(CP!vars)
  BY SameCollector DEF CP!Next, CP!vars, CP!passVars, collectorVars
<1> QED
  BY <1>1, CollectorSettings, CP!StepCollected DEF CP!StepCollected

\* No step of a publishing pass writes more than marks, and none is taken in
\* another process.
LEMMA PassStepWrites ==
  ASSUME P!PassStep
  PROVE  /\ pc # "idle" /\ UNCHANGED <<ctx, now>>
         /\ P!MarkPublished(cur.id) \/ UNCHANGED offers
<1> USE DEF P!OfferFailed, P!passVars
<1>1. CASE P!ListUnpublished \/ P!ListFails \/ P!Pick \/ P!PageDone
  BY <1>1 DEF P!ListUnpublished, P!ListFails, P!Pick, P!PageDone
<1>2. CASE P!PauseOver \/ P!PauseCancelled \/ P!SendRequest \/ P!SendCancelled
  BY <1>2 DEF P!PauseOver, P!PauseCancelled, P!SendRequest, P!SendCancelled
<1>3. CASE P!SendAccepted \/ P!SendRefused \/ P!SendGivenUp
  BY <1>3 DEF P!SendAccepted, P!SendRefused, P!SendGivenUp
<1>4. CASE P!MarkSucceeds \/ P!MarkFails \/ P!ReturnPass
  BY <1>4 DEF P!MarkSucceeds, P!MarkFails, P!MarkInDoubt, P!ReturnPass
<1> QED
  BY <1>1, <1>2, <1>3, <1>4 DEF P!PassStep

\* A step of a collection leaves the process and the publisher's surroundings
\* alone, but for the commit.
LEMMA CollectStepWrites ==
  ASSUME C!CollectStep
  PROVE  /\ cpc # "idle" /\ UNCHANGED ctx
         /\ C!StoreCommits \/ UNCHANGED <<offers, now>>
<1> USE DEF C!RouteFailed, C!NextQuery
<1>1. CASE C!SleepOver \/ C!SleepCancelled \/ C!RoutesDone
  BY <1>1 DEF C!SleepOver, C!SleepCancelled, C!RoutesDone
<1>2. CASE C!FetchEmpty \/ C!FetchAnswered \/ C!FetchFails
  BY <1>2 DEF C!FetchEmpty, C!FetchAnswered, C!FetchFails
<1>3. CASE C!StoreCommits \/ C!StoreSucceeds \/ C!StoreFails
  BY <1>3 DEF C!StoreCommits, C!StoreSucceeds, C!StoreFails
<1>4. CASE C!ReturnCollect
  BY <1>4 DEF C!ReturnCollect, C!ForgetPass
<1> QED
  BY <1>1, <1>2, <1>3, <1>4 DEF C!CollectStep

\* A crash may leave a mark in doubt, and forgets the rest.
LEMMA CrashWrites ==
  ASSUME P!Crash
  PROVE  /\ ctx # "dead" /\ ctx' = "dead" /\ now' = now /\ pc' = "idle"
         /\ P!MarkPublished(cur.id) \/ UNCHANGED offers
BY DEF P!Crash, P!Orphaned, P!MarkInDoubt, P!ForgetPass

\* Nothing is under way when a process begins.
LEMMA InitWorked == Init => WorkerInv
<1> SUFFICES ASSUME Init PROVE WorkerInv
  OBVIOUS
<1>1. WorkerTypeOK /\ AnswerInHand
  BY DEF Init, C!InitCollector, P!Init, WorkerTypeOK, AnswerInHand
<1>2. DOMAIN offers \subseteq Keys /\ offers \in [DOMAIN offers -> Row]
  BY DEF Init, P!Init, P!LegacyRow, Row
<1>3. CP!InitCollector
  BY SameCollector DEF Init
<1>4. CP!CollectorTypeOK
  BY <1>2, <1>3
     DEF CP!InitCollector, CP!CollectorTypeOK, CP!NoRoutes, CP!Row, Row
<1>5. MaxDay \in Nat
  BY CollectorSettings DEF CP!CollectorAssumption
<1>6. CP!CalendarInv /\ CP!PassInv /\ CP!BatchInv
  BY <1>3, <1>5
     DEF CP!InitCollector, CP!CalendarInv, CP!PassInv, CP!BatchInv
<1>7. CP!ProgressInv /\ CP!RoutesAccounted /\ CP!HeardIsStored
  BY <1>3
     DEF CP!InitCollector, CP!ProgressInv, CP!RoutesAccounted,
         CP!HeardIsStored
<1> QED
  BY <1>1, <1>4, <1>6, <1>7 DEF WorkerInv, CP!CollectInv

\* Where the worker is agrees with where its two parts are.
LEMMA WorkerTyped ==
  ASSUME WorkerTypeOK, CP!CollectInv, [Next]_vars
  PROVE  WorkerTypeOK'
<1> USE DEF WorkerTypeOK
<1>0. ctx \in {"live", "cancelled", "dead"}
  BY DEF CP!CollectInv, CP!CollectorTypeOK
<1>1. CASE FirstCycle \/ SelectTick
  BY <1>1 DEF FirstCycle, SelectTick, C!BeginCollect, publisherVars
<1>2. CASE Collecting
  BY <1>2, CollectStepWrites DEF Collecting, publisherVars
<1>3. CASE BeginPublish
  BY <1>3 DEF BeginPublish, P!BeginPass, collectorVars
<1>4. CASE SkipPublish \/ Tick \/ UNCHANGED vars
  BY <1>4 DEF SkipPublish, Tick, CycleOver, vars, collectorVars, publisherVars
<1>5. CASE Publishing
  BY <1>5, PassStepWrites DEF Publishing, CycleOver, collectorVars
<1>6. CASE CyclePanics
  BY <1>6
     DEF CyclePanics, CycleOver, C!Panic, C!ForgetPass, P!Panic, P!ForgetPass,
         collectorVars, publisherVars
<1>7. CASE NewTicker
  BY <1>7 DEF NewTicker, collectorVars, publisherVars
<1>8. CASE SelectDone
  BY <1>8 DEF SelectDone, P!Stop, P!passVars, collectorVars
<1>9. CASE Cancel
  BY <1>9 DEF Cancel, P!Cancel, P!passVars, collectorVars
<1>10. CASE NextDay
  BY <1>10 DEF NextDay, C!NextDay, C!passVars, publisherVars
<1>11. CASE \E k \in Keys : LatePost(k)
  BY <1>11 DEF LatePost, P!LatePost, P!passVars, collectorVars
<1>12. CASE Crash
  BY <1>12, CrashWrites DEF Crash, C!ForgetPass
<1>13. CASE Restart
  BY <1>13 DEF Restart, P!Restart, P!passVars, collectorVars
<1> QED
  BY <1>1, <1>2, <1>3, <1>4, <1>5, <1>6, <1>7, <1>8, <1>9, <1>10, <1>11, <1>12,
     <1>13 DEF Next, WorkerStep

\* What is proved of the collector stays true between its steps.
LEMMA CollectedHere ==
  ASSUME WorkerTypeOK, CP!CollectInv, [Next]_vars
  PROVE  CP!CollectInv'
<1>0. /\ ctx \in {"live", "cancelled", "dead"}
      /\ DOMAIN offers \subseteq Keys /\ offers \in [DOMAIN offers -> Row]
  BY DEF CP!CollectInv, CP!CollectorTypeOK, CP!Row, Row
<1>1. CASE FirstCycle \/ SelectTick \/ Collecting \/ NextDay
  BY <1>1, CollectorKeeps DEF FirstCycle, SelectTick, Collecting, NextDay
<1>2. CASE BeginPublish \/ SkipPublish \/ Tick \/ UNCHANGED vars
  BY <1>2, CollectorKeeps
     DEF BeginPublish, P!BeginPass, SkipPublish, Tick, vars
<1>3. CASE Publishing
  <2>1. /\ cpc = "idle" /\ UNCHANGED collectorVars
        /\ P!MarkPublished(cur.id) \/ UNCHANGED offers
        /\ UNCHANGED <<ctx, now>>
    BY <1>3, PassStepWrites DEF Publishing, WorkerTypeOK
  <2>2. DOMAIN offers' \subseteq Keys /\ offers' \in [DOMAIN offers' -> Row]
    BY <1>0, <2>1, MarkKeepsTable
  <2> QED
    BY <1>0, <2>1, <2>2, IdleKeeps DEF collectorVars
<1>4. CASE CyclePanics
  <2>1. CASE C!Panic
    BY <2>1, CollectorKeeps
  <2>2. CASE P!Panic /\ UNCHANGED collectorVars
    BY <1>0, <2>2, CancelKeeps DEF P!Panic
  <2> QED
    BY <1>4, <2>1, <2>2 DEF CyclePanics
<1>5. CASE NewTicker \/ SelectDone \/ Cancel \/ Restart
  BY <1>0, <1>5, CancelKeeps
     DEF NewTicker, SelectDone, P!Stop, Cancel, P!Cancel, Restart, P!Restart
<1>6. CASE \E k \in Keys : LatePost(k)
  BY <1>0, <1>6, CancelKeeps DEF LatePost, P!LatePost
<1>7. CASE Crash
  <2>1. /\ C!ForgetPass /\ UNCHANGED <<since, today, misses>>
        /\ ctx' = "dead" /\ now' = now
        /\ P!MarkPublished(cur.id) \/ UNCHANGED offers
    BY <1>7, CrashWrites DEF Crash
  <2>2. DOMAIN offers' \subseteq Keys /\ offers' \in [DOMAIN offers' -> Row]
    BY <1>0, <2>1, MarkKeepsTable
  <2> QED
    BY <2>1, <2>2, IdleKeeps
<1> QED
  BY <1>1, <1>2, <1>3, <1>4, <1>5, <1>6, <1>7 DEF Next, WorkerStep

\* The answer in hand is not changed while the worker's goroutine holds it.
LEMMA AnswerKept ==
  ASSUME WorkerTypeOK, AnswerInHand, [Next]_vars
  PROVE  AnswerInHand'
<1> USE DEF WorkerTypeOK, AnswerInHand
<1>1. CASE cpc' # "store"
  BY <1>1
<1>2. CASE UNCHANGED <<cpc, todo, batch, now>>
  BY <1>2
<1>3. CASE Collecting
  <2> USE DEF C!RouteFailed, C!NextQuery, CP!KeyOf, C!KeyOf
  <2>1. CASE C!FetchAnswered
    BY <2>1 DEF C!FetchAnswered
  <2>2. CASE C!SleepOver \/ C!SleepCancelled \/ C!RoutesDone
    BY <1>1, <2>2 DEF C!SleepOver, C!SleepCancelled, C!RoutesDone
  <2>3. CASE C!FetchEmpty \/ C!FetchFails \/ C!StoreCommits
    BY <1>1, <2>3 DEF C!FetchEmpty, C!FetchFails, C!StoreCommits
  <2>4. CASE C!StoreSucceeds \/ C!StoreFails \/ C!ReturnCollect
    BY <1>1, <2>4
       DEF C!StoreSucceeds, C!StoreFails, C!ReturnCollect, C!ForgetPass
  <2> QED
    BY <1>3, <2>1, <2>2, <2>3, <2>4 DEF Collecting, C!CollectStep
<1>4. CASE FirstCycle \/ SelectTick \/ CyclePanics \/ Crash
  BY <1>1, <1>2, <1>4
     DEF FirstCycle, SelectTick, C!BeginCollect, CyclePanics, C!Panic, P!Panic,
         Crash, C!ForgetPass, collectorVars
<1>5. CASE Publishing
  BY <1>2, <1>5, PassStepWrites DEF Publishing, collectorVars
<1>6. CASE BeginPublish \/ SkipPublish \/ NewTicker \/ Tick \/ SelectDone
  BY <1>2, <1>6
     DEF BeginPublish, P!BeginPass, SkipPublish, NewTicker, Tick, SelectDone,
         P!Stop, collectorVars
<1>7. CASE Cancel \/ NextDay \/ Restart \/ \E k \in Keys : LatePost(k)
  BY <1>2, <1>7
     DEF Cancel, P!Cancel, NextDay, C!NextDay, C!passVars, Restart, P!Restart,
         LatePost, P!LatePost, collectorVars
<1>8. CASE UNCHANGED vars
  BY <1>2, <1>8 DEF vars, collectorVars
<1> QED
  BY <1>3, <1>4, <1>5, <1>6, <1>7, <1>8 DEF Next, WorkerStep

\* The inductive invariant holds of every behaviour of the worker.
LEMMA Worked == Spec => []WorkerInv
<1>1. WorkerInv /\ [Next]_vars => WorkerInv'
  BY WorkerTyped, CollectedHere, AnswerKept DEF WorkerInv
<1> QED
  BY <1>1, InitWorked, PTL DEF Spec

-----------------------------------------------------------------------------
(* The theorems.                                                           *)

\* The goroutine is in one place: in a collection exactly while the collector
\* runs, in a pass exactly while the publisher does, and in none once the
\* process is gone.
THEOREM WorkerTypeCorrect == Spec => []WorkerTypeOK
<1>1. WorkerInv => WorkerTypeOK
  BY DEF WorkerInv
<1> QED
  BY <1>1, Worked, PTL

\* What is proved of the collector alone holds in the worker, though a pass
\* writes to its table and the process crashes in the midst of one: every query
\* is counted once, what a pass has stored it finds stored, and no route is
\* left out (worker.go:53).
THEOREM CollectorUndisturbed ==
  Spec => [](C!RoutesAccounted /\ C!HeardIsStored /\ C!AllRoutesAsked)
<1>1. ASSUME WorkerInv
      PROVE  C!RoutesAccounted /\ C!HeardIsStored /\ C!AllRoutesAsked
  <2>1. CP!CollectInv
    BY <1>1 DEF WorkerInv
  <2>2. CP!AllRoutesAsked
    BY <2>1, CollectorSettings, CP!DoneMeansAll DEF CP!DoneMeansAll
  <2>3. CP!RoutesAccounted /\ CP!HeardIsStored
    BY <2>1 DEF CP!CollectInv
  <2>4. C!AllRoutesAsked
    BY <2>2 DEF C!AllRoutesAsked, CP!AllRoutesAsked, C!Window, CP!Window
  <2>5. C!RoutesAccounted
    BY <2>3
       DEF C!RoutesAccounted, CP!RoutesAccounted, C!Queries, CP!Queries,
           C!Routes, CP!Routes, C!UpcomingDates, CP!UpcomingDates, C!Window,
           CP!Window
  <2>6. C!HeardIsStored
    BY <2>3
       DEF C!HeardIsStored, CP!HeardIsStored, C!BatchKeys, CP!BatchKeys
  <2> QED
    BY <2>4, <2>5, <2>6
<1> QED
  BY <1>1, Worked, PTL

\* A committed answer is a batch the publisher may meet between two passes.
LEMMA CommitIsCollect ==
  ASSUME WorkerInv, wpc = "collect", C!StoreCommits, UNCHANGED publisherVars
  PROVE  P!Collect
<1>1. cpc = "store" /\ UNCHANGED ctx /\ now' = now + 1
  BY DEF C!StoreCommits
<1>2. pc = "idle" /\ ctx # "dead"
  BY DEF WorkerInv, WorkerTypeOK
<1>3. now < MaxNow
  BY <1>1 DEF WorkerInv, AnswerInHand
<1>4. batch \in Batches
  <2>1. PICK prices \in PriceLists :
          batch = [i \in DOMAIN prices |->
                     [key |-> CP!KeyOf(Head(todo)), price |-> prices[i]]]
    BY <1>1 DEF WorkerInv, AnswerInHand
  <2>2. CP!KeyOf(Head(todo)) \in Keys
    BY <1>1, CollectorSettings, CP!HeadTyped DEF CP!HeadTyped, WorkerInv
  <2> QED
    BY <2>1, <2>2, WorkerAssumption
<1>5. P!UpsertMany(batch, now')
  BY DEF C!StoreCommits, C!UpsertMany, P!UpsertMany, C!BatchKeys, P!BatchKeys,
         C!Surviving, P!Surviving, C!PublishedAfterUpsert,
         P!PublishedAfterUpsert
<1> QED
  BY <1>1, <1>2, <1>3, <1>4, <1>5
     DEF P!Collect, P!passVars, P!chanVars, publisherVars

\* With an interval the ticker accepts, every step of the worker is one of the
\* publisher or of its surroundings, or is hidden from it.
LEMMA StepPublishes ==
  ASSUME Interval > 0, WorkerInv, [Next]_vars
  PROVE  [P!Next]_(P!vars)
<1> USE DEF P!vars, P!passVars, P!chanVars, publisherVars
<1>1. CASE FirstCycle \/ SelectTick
  BY <1>1 DEF FirstCycle, SelectTick, C!BeginCollect
<1>2. CASE Collecting
  <2>1. CASE C!StoreCommits
    BY <1>2, <2>1, CommitIsCollect DEF Collecting, P!Next
  <2>2. CASE UNCHANGED <<offers, ctx, now>>
    BY <1>2, <2>2 DEF Collecting
  <2> QED
    BY <1>2, <2>1, <2>2, CollectStepWrites DEF Collecting
<1>3. CASE BeginPublish \/ Publishing
  BY <1>3 DEF BeginPublish, Publishing, P!Next
<1>4. CASE SkipPublish \/ Tick \/ UNCHANGED vars
  BY <1>4 DEF SkipPublish, Tick, vars
<1>5. CASE CyclePanics
  BY <1>5 DEF CyclePanics, C!Panic, P!Next
<1>6. CASE NewTicker
  BY <1>6 DEF NewTicker
<1>7. CASE SelectDone \/ Cancel \/ Crash \/ Restart
  BY <1>7 DEF SelectDone, Cancel, Crash, Restart, P!Next
<1>8. CASE NextDay
  BY <1>8 DEF NextDay, C!NextDay
<1>9. CASE \E k \in Keys : LatePost(k)
  BY <1>9 DEF LatePost, P!Next
<1> QED
  BY <1>1, <1>2, <1>3, <1>4, <1>5, <1>6, <1>7, <1>8, <1>9 DEF Next, WorkerStep

\* The publisher finds in the worker the surroundings that its own
\* specification gives it: batches between its passes only, of whatever the
\* collector was answered (worker.go:53).  An interval the ticker refuses ends
\* the process in a way the publisher alone does not have.
THEOREM WorkerImplementsPublisher ==
  ASSUME Interval > 0
  PROVE  Spec => ImplementsPublisher
<1>1. Init => P!Init
  BY DEF Init
<1>2. WorkerInv /\ [Next]_vars => [P!Next]_(P!vars)
  BY StepPublishes
<1> QED
  BY <1>1, <1>2, Worked, PTL DEF Spec, ImplementsPublisher, P!Spec

-----------------------------------------------------------------------------
(* What is proved of the publisher alone.                                  *)

\* The worker gives the publisher the settings its proofs ask for.
LEMMA PublisherSettings == PP!RepoAssumption /\ PP!PublisherAssumption
<1>1. PP!RepoAssumption
  BY RepoAssumption DEF PP!RepoAssumption
<1>2. PP!PublisherAssumption
  BY WorkerAssumption
     DEF PP!PublisherAssumption, P!PublisherAssumption, PP!Quote, P!Quote,
         PP!OfferCopy, P!OfferCopy
<1> QED
  BY <1>1, <1>2

\* Both count offers alike.
LEMMA SameCount ==
  ASSUME NEW S
  PROVE  P!Cardinality(S) = PP!Cardinality(S)
BY DEF P!Cardinality, PP!Cardinality

\* Both bound a page alike.
LEMMA SameLimit ==
  ASSUME NEW limit
  PROVE  P!EffectiveLimit(limit) = PP!EffectiveLimit(limit)
BY DEF P!EffectiveLimit, PP!EffectiveLimit

\* Both may list the same pages.
LEMMA SamePages ==
  ASSUME NEW maxPrice, NEW limit
  PROVE  P!UnpublishedPages(maxPrice, limit) =
           PP!UnpublishedPages(maxPrice, limit)
<1>1. P!Eligible(maxPrice) = PP!Eligible(maxPrice)
  BY DEF P!Eligible, PP!Eligible
<1>2. \A a, b : P!Older(a, b) <=> PP!Older(a, b)
  BY DEF P!Older, PP!Older
<1> QED
  BY <1>1, <1>2, SameCount, SameLimit
     DEF P!UnpublishedPages, PP!UnpublishedPages

\* The publisher of the worker is the one the proofs are about.
LEMMA SamePublisher ==
  /\ P!Init => PP!Init
  /\ [P!Next]_(P!vars) => [PP!Next]_(PP!vars)
<1> USE DEF P!passVars, PP!passVars, P!chanVars, PP!chanVars, P!Fault, PP!Fault,
            P!CallFails, PP!CallFails, P!OfferFailed, PP!OfferFailed,
            P!MarkInDoubt, PP!MarkInDoubt, P!MarkPublished, PP!MarkPublished,
            P!ForgetPass, PP!ForgetPass, P!NoResult, PP!NoResult
<1>1. P!Init => PP!Init
  BY DEF P!Init, PP!Init, P!LegacyRow, PP!LegacyRow
<1>2. P!ListUnpublished => PP!ListUnpublished
  BY SamePages
     DEF P!ListUnpublished, PP!ListUnpublished, P!FreshOffers, PP!FreshOffers,
         P!Copy, PP!Copy
<1>3. P!ListFails => PP!ListFails
  BY DEF P!ListFails, PP!ListFails
<1>4. P!Pick => PP!Pick
  BY DEF P!Pick, PP!Pick, P!Older, PP!Older
<1>5. /\ P!PageDone => PP!PageDone
      /\ P!PauseOver => PP!PauseOver
      /\ P!PauseCancelled => PP!PauseCancelled
  BY DEF P!PageDone, PP!PageDone, P!PauseOver, PP!PauseOver, P!PauseCancelled,
         PP!PauseCancelled
<1>6. /\ P!SendRequest => PP!SendRequest
      /\ P!SendCancelled => PP!SendCancelled
      /\ P!SendAccepted => PP!SendAccepted
  BY DEF P!SendRequest, PP!SendRequest, P!SendCancelled, PP!SendCancelled,
         P!SendAccepted, PP!SendAccepted
<1>7. /\ P!SendRefused => PP!SendRefused
      /\ P!SendGivenUp => PP!SendGivenUp
  BY DEF P!SendRefused, PP!SendRefused, P!SendGivenUp, PP!SendGivenUp
<1>8. /\ P!MarkSucceeds => PP!MarkSucceeds
      /\ P!MarkFails => PP!MarkFails
      /\ P!ReturnPass => PP!ReturnPass
  BY DEF P!MarkSucceeds, PP!MarkSucceeds, P!MarkFails, PP!MarkFails,
         P!ReturnPass, PP!ReturnPass
<1>9. P!PassStep => PP!PassStep
  BY <1>2, <1>3, <1>4, <1>5, <1>6, <1>7, <1>8 DEF P!PassStep, PP!PassStep
<1>10. P!BeginPass => PP!BeginPass
  BY DEF P!BeginPass, PP!BeginPass
<1>11. /\ P!Panic => PP!Panic
       /\ P!Crash => PP!Crash
  BY DEF P!Panic, PP!Panic, P!Crash, PP!Crash, P!Orphaned, PP!Orphaned
<1>12. P!Collect => PP!Collect
  BY DEF P!Collect, PP!Collect, P!UpsertMany, PP!UpsertMany, P!BatchKeys,
         PP!BatchKeys, P!Surviving, PP!Surviving, P!PublishedAfterUpsert,
         PP!PublishedAfterUpsert
<1>13. ASSUME NEW k, P!LatePost(k) PROVE PP!LatePost(k)
  BY <1>13 DEF P!LatePost, PP!LatePost
<1>14. /\ P!Cancel => PP!Cancel
       /\ P!Stop => PP!Stop
       /\ P!Restart => PP!Restart
  BY DEF P!Cancel, PP!Cancel, P!Stop, PP!Stop, P!Restart, PP!Restart
<1>15. P!Next => PP!Next
  BY <1>9, <1>10, <1>11, <1>12, <1>13, <1>14 DEF P!Next, PP!Next
<1>16. UNCHANGED P!vars => UNCHANGED PP!vars
  BY DEF P!vars, PP!vars
<1> QED
  BY <1>1, <1>15, <1>16

\* What is proved of the publisher alone holds in the worker, whatever the
\* collector writes between two passes (worker.go:53): at-least-once delivery,
\* a cause for every duplicate, a page that is current while it is used, no
\* false claim that all is published, every offer counted once, a drained
\* backlog unless the failures fill a page, and no request for an offer that is
\* recorded.
THEOREM PublisherUndisturbed ==
  ASSUME Interval > 0
  PROVE  Spec => /\ [](P!AtLeastOnce /\ P!DuplicatesExcused /\ P!PageCurrent)
                 /\ [](P!CleanReturn /\ P!ResultAccounting)
                 /\ []P!DrainedUnlessBlocked
                 /\ P!NeverRepublished
<1>0. PP!RepoAssumption /\ PP!PublisherAssumption
  BY PublisherSettings
<1>1. Spec => PP!Spec
  BY WorkerImplementsPublisher, SamePublisher, PTL
     DEF ImplementsPublisher, P!Spec, PP!Spec
<1>2. /\ PP!Spec => []PP!AtLeastOnce
      /\ PP!Spec => []PP!DuplicatesExcused
      /\ PP!Spec => []PP!PageCurrent
  BY <1>0, PP!DeliveredAtLeastOnce, PP!DuplicatesAreExcused,
     PP!PageStaysCurrent, PTL
     DEF PP!DeliveredAtLeastOnce, PP!DuplicatesAreExcused, PP!PageStaysCurrent
<1>3. /\ PP!Spec => []PP!CleanReturn
      /\ PP!Spec => []PP!ResultAccounting
      /\ PP!Spec => []PP!DrainedUnlessBlocked
      /\ PP!Spec => PP!NeverRepublished
  BY <1>0, PP!ReturnsClean, PP!CountsAreRight, PP!DrainsUnlessBlocked,
     PP!PublishedOnceRecorded, PTL
     DEF PP!ReturnsClean, PP!CountsAreRight, PP!DrainsUnlessBlocked,
         PP!PublishedOnceRecorded
<1> USE DEF P!IsPublished, PP!IsPublished, P!InHand, PP!InHand, P!Due, PP!Due,
            P!Copy, PP!Copy
<1>4. /\ PP!AtLeastOnce => P!AtLeastOnce
      /\ PP!DuplicatesExcused => P!DuplicatesExcused
      /\ PP!PageCurrent => P!PageCurrent
  BY DEF P!AtLeastOnce, PP!AtLeastOnce, P!DuplicatesExcused,
         PP!DuplicatesExcused, P!PageCurrent, PP!PageCurrent
<1>5. /\ PP!CleanReturn => P!CleanReturn
      /\ PP!ResultAccounting => P!ResultAccounting
      /\ PP!DrainedUnlessBlocked => P!DrainedUnlessBlocked
  BY SameCount, SameLimit
     DEF P!CleanReturn, PP!CleanReturn, P!ResultAccounting,
         PP!ResultAccounting, P!DrainedUnlessBlocked, PP!DrainedUnlessBlocked
<1>6. PP!NeverRepublished => P!NeverRepublished
  BY PTL DEF P!NeverRepublished, PP!NeverRepublished, P!vars, PP!vars,
         P!passVars, PP!passVars, P!chanVars, PP!chanVars
<1> QED
  BY <1>1, <1>2, <1>3, <1>4, <1>5, <1>6, PTL

\* The worker delivers what it collects at least once: with its collections, its
\* panics, crashes and restarts it is a delivery in the sense of module Delivery
\* (publisher.go:97-112, worker.go:53).
THEOREM WorkerImplementsDelivery ==
  ASSUME Interval > 0
  PROVE  Spec => P!ImplementsDelivery
<1>1. Spec => PP!Spec
  BY WorkerImplementsPublisher, SamePublisher, PTL
     DEF ImplementsPublisher, P!Spec, PP!Spec
<1>2. PP!Spec => PP!ImplementsDelivery
  BY PublisherSettings, PP!PublisherImplementsDelivery, PTL
     DEF PP!PublisherImplementsDelivery
<1>3. /\ PP!D!Init => P!D!Init
      /\ [PP!D!Next]_(PP!D!vars) => [P!D!Next]_(P!D!vars)
  BY DEF P!IsPublished, PP!IsPublished, P!D!Init, PP!D!Init, P!D!vars, PP!D!vars,
         P!D!Next, PP!D!Next, P!D!Learn, PP!D!Learn, P!D!Ask, PP!D!Ask,
         P!D!Post, PP!D!Post, P!D!Refuse, PP!D!Refuse, P!D!Record, PP!D!Record
<1>4. PP!ImplementsDelivery => P!ImplementsDelivery
  BY <1>3, PTL
     DEF P!ImplementsDelivery, PP!ImplementsDelivery, P!D!Spec, PP!D!Spec
<1> QED
  BY <1>1, <1>2, <1>4, PTL

-----------------------------------------------------------------------------
(* The worker's goroutine as main sees it.                                 *)

\* Without a notifier there is no pass (main.go:103).
EnabledInv == pc # "idle" => TelegramEnabled

\* No step of the publisher begins a pass but the one that asks for it.
LEMMA EnabledKept ==
  ASSUME EnabledInv, [P!Next]_(P!vars)
  PROVE  EnabledInv'
<1> USE DEF EnabledInv
<1>1. CASE pc # "idle" \/ P!BeginPass
  BY <1>1 DEF P!BeginPass
<1>2. CASE pc = "idle" /\ (P!PassStep \/ P!Panic)
  BY <1>2
     DEF P!PassStep, P!ListUnpublished, P!ListFails, P!Pick, P!PageDone,
         P!PauseOver, P!PauseCancelled, P!SendRequest, P!SendCancelled,
         P!SendAccepted, P!SendRefused, P!SendGivenUp, P!MarkSucceeds,
         P!MarkFails, P!ReturnPass, P!Panic
<1>3. CASE pc = "idle" /\ (P!Collect \/ P!Cancel \/ P!Stop \/ P!Restart)
  BY <1>3 DEF P!Collect, P!Cancel, P!Stop, P!Restart, P!passVars
<1>4. CASE pc = "idle" /\ P!Crash
  BY <1>4 DEF P!Crash, P!ForgetPass
<1>5. CASE pc = "idle" /\ \E k \in Keys : P!LatePost(k)
  BY <1>5 DEF P!LatePost, P!passVars
<1>6. CASE UNCHANGED P!vars
  BY <1>6 DEF P!vars, P!passVars
<1> QED
  BY <1>1, <1>2, <1>3, <1>4, <1>5, <1>6 DEF P!Next

\* Main sees of a pass that a message is in doubt, and that none is any more.
LEMMA PassSeen ==
  ASSUME WorkerTypeOK, EnabledInv, Publishing
  PROVE  [L!GoroutineStep]_(L!vars)
<1> USE DEF Publishing, WorkerTypeOK, Seen, CycleOver, L!vars, L!schemaVars,
            L!GoroutineStep, L!WorkerSends, L!WorkerRecords, L!CycleEnds
<1>0. wpc = "publish" /\ P!PassStep /\ UNCHANGED ctx
  BY PassStepWrites
<1>1. CASE P!ListUnpublished \/ P!ListFails \/ P!Pick \/ P!PageDone
             \/ P!PauseOver \/ P!PauseCancelled \/ P!SendCancelled
  BY <1>0, <1>1
     DEF P!ListUnpublished, P!ListFails, P!Pick, P!PageDone, P!PauseOver,
         P!PauseCancelled, P!SendCancelled
<1>2. CASE P!SendRequest
  BY <1>0, <1>2 DEF P!SendRequest, EnabledInv
<1>3. CASE P!SendAccepted
  BY <1>0, <1>3 DEF P!SendAccepted
<1>4. CASE P!SendRefused \/ P!SendGivenUp \/ P!MarkSucceeds \/ P!MarkFails
  BY <1>0, <1>4
     DEF P!SendRefused, P!SendGivenUp, P!MarkSucceeds, P!MarkFails,
         P!OfferFailed
<1>5. CASE P!ReturnPass
  BY <1>0, <1>5 DEF P!ReturnPass, P!ForgetPass
<1> QED
  BY <1>0, <1>1, <1>2, <1>3, <1>4, <1>5 DEF P!PassStep

\* What main sees of any step.
LEMMA StepSeen ==
  ASSUME Interval > 0, WorkerTypeOK, EnabledInv, [Next]_vars
  PROVE  [Crash \/ Restart \/ L!GoroutineStep \/ L!Signal]_(L!vars)
<1> USE DEF WorkerTypeOK, Seen, L!vars, L!schemaVars
<1>1. CASE FirstCycle
  BY <1>1 DEF FirstCycle, C!BeginCollect, publisherVars
<1>2. CASE SelectTick
  BY <1>2
     DEF SelectTick, C!BeginCollect, publisherVars, L!GoroutineStep, L!Tick
<1>3. CASE Collecting
  BY <1>3, CollectStepWrites DEF Collecting, publisherVars
<1>4. CASE BeginPublish
  BY <1>4 DEF BeginPublish, P!BeginPass
<1>5. CASE SkipPublish
  BY <1>5 DEF SkipPublish, CycleOver, L!GoroutineStep, L!CycleEnds
<1>6. CASE Publishing
  BY <1>6, PassSeen
<1>7. CASE CyclePanics
  BY <1>7
     DEF CyclePanics, CycleOver, C!Panic, P!Panic, L!GoroutineStep,
         L!CycleEnds, L!CyclePanics
<1>8. CASE NewTicker \/ Tick \/ NextDay \/ UNCHANGED vars
  BY <1>8
     DEF NewTicker, Tick, NextDay, C!NextDay, vars, publisherVars
<1>9. CASE SelectDone
  BY <1>9 DEF SelectDone, P!Stop, L!GoroutineStep, L!WorkerStops
<1>10. CASE Cancel
  BY <1>10 DEF Cancel, P!Cancel, P!passVars, L!Signal
<1>11. CASE \E k \in Keys : LatePost(k)
  BY <1>11 DEF LatePost, P!LatePost, P!passVars
<1> QED
  BY <1>1, <1>2, <1>3, <1>4, <1>5, <1>6, <1>7, <1>8, <1>9, <1>10, <1>11
     DEF Next, WorkerStep

\* The goroutine main waits for before it closes the pool is this worker: whatever
\* it collects, sends or panics in, it is in doubt only within a cycle that may
\* send, and over only after a signal and the end of a cycle (main.go:115 and 162,
\* worker.go:31).
THEOREM WorkerImplementsGoroutine ==
  ASSUME Interval > 0
  PROVE  Spec => ImplementsGoroutine
<1>1. Init => EnabledInv /\ Seen = "busy" /\ ctx = "live"
  BY DEF Init, P!Init, EnabledInv, Seen
<1>2. WorkerInv /\ EnabledInv /\ [Next]_vars => EnabledInv'
  BY StepPublishes, EnabledKept
<1>3. WorkerInv /\ EnabledInv /\ [Next]_vars =>
        [Crash \/ Restart \/ L!GoroutineStep \/ L!Signal]_(L!vars)
  BY StepSeen DEF WorkerInv
<1> QED
  BY <1>1, <1>2, <1>3, Worked, PTL DEF Spec, ImplementsGoroutine
=============================================================================
