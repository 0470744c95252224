-------------------------- MODULE CollectorProofs --------------------------
(***************************************************************************)
(* What module Collector promises, for every set of routes, every window   *)
(* and every calendar.                                                     *)
(***************************************************************************)
EXTENDS Collector, FlightOfferRepoProofs

-----------------------------------------------------------------------------
(* Places in the two nested loops.                                         *)

\* A place in m blocks of size places each is in one of the blocks.
LEMMA PlaceInBlocks ==
  ASSUME NEW m \in Nat, NEW size \in Nat \ {0}, NEW x \in 0..(m * size - 1)
  PROVE  /\ x \div size \in 0..(m - 1)
         /\ x % size \in 0..(size - 1)
<1> DEFINE q == x \div size
           r == x % size
<1>1. x \in Nat /\ m * size \in Nat /\ x < m * size
  OBVIOUS
<1>2. q \in Nat /\ r \in 0..(size - 1) /\ x = size * q + r
  BY <1>1
<1> HIDE DEF q, r
<1>3. ASSUME q >= m PROVE FALSE
  <2>1. size * q >= size * m
    BY <1>2, <1>3
  <2> QED
    BY <1>1, <1>2, <2>1
<1> QED
  BY <1>2, <1>3 DEF q, r

\* The place of entry b of block a, and back.
LEMMA BlockOfPlace ==
  ASSUME NEW m \in Nat, NEW size \in Nat \ {0},
         NEW a \in 0..(m - 1), NEW b \in 0..(size - 1)
  PROVE  /\ a * size + b \in 0..(m * size - 1)
         /\ (a * size + b) \div size = a
         /\ (a * size + b) % size = b
<1> DEFINE x == a * size + b
           q == x \div size
           r == x % size
<1>1. x \in Nat
  OBVIOUS
<1>2. q \in Nat /\ r \in 0..(size - 1) /\ x = size * q + r
  <2> HIDE DEF x
  <2> QED
    BY <1>1
<1>3. a * size + b = size * q + r
  BY <1>2
<1> HIDE DEF x, q, r
<1>4. (a - q) * size = r - b
  BY <1>2, <1>3
<1>5. ASSUME a > q PROVE FALSE
  <2>1. (a - q) * size >= size
    BY <1>2, <1>5
  <2> QED
    BY <1>2, <1>4, <2>1
<1>6. ASSUME q > a PROVE FALSE
  <2>1. (q - a) * size >= size
    BY <1>2, <1>6
  <2>2. (q - a) * size = b - r
    BY <1>2, <1>4
  <2> QED
    BY <1>2, <2>1, <2>2
<1>7. a = q /\ b = r
  <2>1. a = q
    BY <1>2, <1>5, <1>6
  <2> QED
    BY <1>2, <1>3, <2>1
<1>8. x < m * size
  <2>1. (m - a) * size >= size
    OBVIOUS
  <2>2. (m - a) * size = m * size - a * size
    OBVIOUS
  <2>3. m * size \in Nat /\ a * size \in Nat
    OBVIOUS
  <2> QED
    BY <2>1, <2>2, <2>3 DEF x
<1> QED
  BY <1>1, <1>7, <1>8 DEF x, q, r

\* The window has a length.
LEMMA WindowInNat == Window \in Nat
BY CollectorAssumption DEF Window

\* Every route leads from one of the codes to another.
LEMMA RoutesTyped ==
  /\ Len(Origins) * Len(Destinations) \in Nat
  /\ Len(Routes) = 2 * (Len(Origins) * Len(Destinations))
  /\ DOMAIN Routes = 1..Len(Routes)
  /\ \A n \in DOMAIN Routes : Routes[n].from \in Codes /\ Routes[n].to \in Codes
<1> DEFINE pairs == Len(Origins) * Len(Destinations)
<1>1. Len(Origins) \in Nat /\ Len(Destinations) \in Nat
  BY CollectorAssumption
<1>2. pairs \in Nat /\ 2 * Len(Origins) * Len(Destinations) = 2 * pairs
  BY <1>1
<1>3. DOMAIN Routes = 1..(2 * pairs) /\ Len(Routes) = 2 * pairs
  <2> HIDE DEF pairs
  <2> QED
    BY <1>2 DEF Routes
<1>4. ASSUME NEW n \in DOMAIN Routes
      PROVE  Routes[n].from \in Codes /\ Routes[n].to \in Codes
  <2> DEFINE pair == (n - 1) \div 2
             o == Origins[(pair \div Len(Destinations)) + 1]
             d == Destinations[(pair % Len(Destinations)) + 1]
  <2>1. n \in 1..(2 * pairs)
    BY <1>3
  <2>2. pair \in 0..(pairs - 1)
    <3> HIDE DEF pairs
    <3> QED
      BY <1>2, <2>1
  <2>3. Len(Destinations) \in Nat \ {0}
    <3>1. CASE Len(Destinations) = 0
      BY <1>1, <2>1, <3>1
    <3> QED
      BY <1>1, <3>1
  <2>4. /\ pair \div Len(Destinations) \in 0..(Len(Origins) - 1)
        /\ pair % Len(Destinations) \in 0..(Len(Destinations) - 1)
    <3> HIDE DEF pair
    <3> QED
      BY <1>1, <2>2, <2>3, PlaceInBlocks
  <2>5. o \in Codes /\ d \in Codes
    <3> HIDE DEF pair
    <3>1. /\ (pair \div Len(Destinations)) + 1 \in DOMAIN Origins
          /\ (pair % Len(Destinations)) + 1 \in DOMAIN Destinations
      BY <1>1, <2>3, <2>4, CollectorAssumption
    <3> QED
      BY <3>1 DEF Codes
  <2>6. Routes[n] = IF n % 2 = 1 THEN [from |-> o, to |-> d]
                                 ELSE [from |-> d, to |-> o]
    BY <1>3, <2>1 DEF Routes
  <2> HIDE DEF o, d
  <2> QED
    BY <2>5, <2>6
<1> QED
  BY <1>2, <1>3, <1>4

\* A pass asks for every route on every date of its window ...
LEMMA QueriesTyped ==
  ASSUME NEW day \in 0..MaxDay
  PROVE  /\ Len(Queries(day)) = Len(Routes) * (Window + 1)
         /\ Len(Queries(day)) \in Nat
         /\ DOMAIN Queries(day) = 1..Len(Queries(day))
         /\ \A n \in DOMAIN Queries(day) :
              /\ Queries(day)[n] \in Query
              /\ KeyOf(Queries(day)[n]) \in Keys
<1> DEFINE size == Window + 1
           places == Len(Routes) * size
           dates == UpcomingDates(day)
<1>1. Window \in Nat /\ size \in Nat \ {0} /\ day \in Nat /\ MaxDay \in Nat
  BY WindowInNat, CollectorAssumption
<1>2. Len(Routes) \in Nat
  BY RoutesTyped
<1>3. places \in Nat
  <2> HIDE DEF size
  <2> QED
    BY <1>1, <1>2
<1>4. /\ Len(dates) = size /\ DOMAIN dates = 1..size
      /\ \A i \in 1..size : dates[i] = day + i - 1
  BY <1>1 DEF UpcomingDates
<1> HIDE DEF size, dates
<1>5. /\ Queries(day) = [n \in 1..places |->
           LET r == Routes[((n - 1) \div size) + 1]
           IN  [from |-> r.from, to |-> r.to,
                date |-> dates[((n - 1) % size) + 1]]]
  BY <1>4 DEF Queries, dates
<1>6. Len(Queries(day)) = places /\ DOMAIN Queries(day) = 1..places
  <2> HIDE DEF places
  <2> QED
    BY <1>3, <1>5
<1>7. ASSUME NEW n \in DOMAIN Queries(day)
      PROVE  Queries(day)[n] \in Query /\ KeyOf(Queries(day)[n]) \in Keys
  <2> DEFINE a == (n - 1) \div size
             b == (n - 1) % size
             r == Routes[a + 1]
  <2>1. n \in 1..places
    BY <1>6
  <2>2. n - 1 \in 0..(places - 1)
    <3> HIDE DEF places
    <3> QED
      BY <1>3, <2>1
  <2>3. a \in 0..(Len(Routes) - 1) /\ b \in 0..(size - 1)
    BY <1>1, <1>2, <2>2, PlaceInBlocks
  <2>4. Queries(day)[n] = [from |-> r.from, to |-> r.to, date |-> dates[b + 1]]
    BY <1>5, <2>1
  <2> HIDE DEF a, b
  <2>5. a + 1 \in DOMAIN Routes
    BY <1>2, <2>3, RoutesTyped
  <2>6. dates[b + 1] = day + b /\ day + b \in 0..(MaxDay + Window)
    BY <1>1, <1>4, <2>3 DEF size
  <2>7. r.from \in Codes /\ r.to \in Codes
    BY <2>5, RoutesTyped
  <2>8. KeyOf([from |-> r.from, to |-> r.to, date |-> day + b]) \in Keys
    BY <2>5, <2>6, KeysAssumption
  <2> HIDE DEF r
  <2>9. Queries(day)[n] \in Query
    BY <1>1, <2>4, <2>6, <2>7 DEF Query
  <2> QED
    BY <2>4, <2>6, <2>8, <2>9
<1> QED
  BY <1>3, <1>6, <1>7 DEF size

\* ... and leaves none out, in either direction.
LEMMA RoutesComplete ==
  ASSUME NEW i \in DOMAIN Origins, NEW j \in DOMAIN Destinations
  PROVE  \E n, m \in DOMAIN Routes :
           /\ Routes[n] = [from |-> Origins[i], to |-> Destinations[j]]
           /\ Routes[m] = [from |-> Destinations[j], to |-> Origins[i]]
<1> DEFINE os == Len(Origins)
           ds == Len(Destinations)
           a == i - 1
           b == j - 1
<1>1. os \in Nat /\ ds \in Nat \ {0}
  BY CollectorAssumption
<1>2. /\ a \in 0..(os - 1) /\ i = a + 1
      /\ b \in 0..(ds - 1) /\ j = b + 1
  BY CollectorAssumption
<1> HIDE DEF a, b
<1> DEFINE pairs == os * ds
           pair == a * ds + b
<1>3. pair \in 0..(pairs - 1) /\ pair \div ds = a /\ pair % ds = b
  <2> HIDE DEF os, ds
  <2> QED
    BY <1>1, <1>2, BlockOfPlace
<1>4. pairs \in Nat /\ DOMAIN Routes = 1..(2 * pairs)
  BY RoutesTyped
<1>5. DOMAIN Routes = 1..(2 * Len(Origins) * Len(Destinations))
  BY DEF Routes
<1> HIDE DEF pairs, pair
<1>6. ASSUME NEW n \in DOMAIN Routes, (n - 1) \div 2 = pair
      PROVE  Routes[n] = IF n % 2 = 1
                         THEN [from |-> Origins[i], to |-> Destinations[j]]
                         ELSE [from |-> Destinations[j], to |-> Origins[i]]
  BY <1>2, <1>3, <1>5, <1>6 DEF Routes
<1>7. /\ 2 * pair + 1 \in DOMAIN Routes
      /\ ((2 * pair + 1) - 1) \div 2 = pair /\ (2 * pair + 1) % 2 = 1
  BY <1>3, <1>4
<1>8. /\ 2 * pair + 2 \in DOMAIN Routes
      /\ ((2 * pair + 2) - 1) \div 2 = pair /\ (2 * pair + 2) % 2 = 0
  BY <1>3, <1>4
<1>9. Routes[2 * pair + 1] = [from |-> Origins[i], to |-> Destinations[j]]
  BY <1>6, <1>7
<1>10. Routes[2 * pair + 2] = [from |-> Destinations[j], to |-> Origins[i]]
  BY <1>6, <1>8
<1> QED
  BY <1>7, <1>8, <1>9, <1>10

\* A route is asked for on every date of the window.
LEMMA DatesComplete ==
  ASSUME NEW day \in 0..MaxDay, NEW n \in DOMAIN Routes, NEW d \in 0..Window
  PROVE  \E p \in DOMAIN Queries(day) :
           Queries(day)[p] = [from |-> Routes[n].from, to |-> Routes[n].to,
                              date |-> day + d]
<1> DEFINE size == Window + 1
           rs == Len(Routes)
           dates == UpcomingDates(day)
<1>1. Window \in Nat /\ size \in Nat \ {0} /\ day \in Nat
  BY WindowInNat, CollectorAssumption
<1>2. rs \in Nat /\ d \in 0..(size - 1)
  BY <1>1, RoutesTyped
<1>3. Len(dates) = size /\ dates[d + 1] = day + d
  BY <1>1, <1>2 DEF UpcomingDates
<1> HIDE DEF size, dates
<1> DEFINE a == n - 1
<1>4. a \in 0..(rs - 1) /\ n = a + 1
  BY <1>2, RoutesTyped
<1> HIDE DEF a
<1> DEFINE places == rs * size
           place == a * size + d
<1>5. place \in 0..(places - 1) /\ place \div size = a /\ place % size = d
  <2> HIDE DEF rs
  <2> QED
    BY <1>1, <1>2, <1>4, BlockOfPlace
<1>6. places \in Nat /\ DOMAIN Queries(day) = 1..places
  <2>1. places \in Nat
    BY <1>1, <1>2
  <2> QED
    BY <2>1, QueriesTyped DEF size
<1>7. Queries(day) = [m \in 1..places |->
         LET r == Routes[((m - 1) \div size) + 1]
         IN  [from |-> r.from, to |-> r.to,
              date |-> dates[((m - 1) % size) + 1]]]
  BY <1>3 DEF Queries, dates
<1> HIDE DEF places, place
<1>8. place + 1 \in 1..places /\ (place + 1) - 1 = place
  BY <1>5, <1>6
<1>9. Queries(day)[place + 1] = [from |-> Routes[n].from, to |-> Routes[n].to,
                                 date |-> day + d]
  BY <1>3, <1>4, <1>5, <1>7, <1>8
<1> QED
  BY <1>6, <1>8, <1>9

-----------------------------------------------------------------------------
(* The inductive invariant.                                                *)

\* The pass takes the queries of its window in their order: those that are left
\* are the last ones, and it has come to all the others.
ProgressInv ==
  cpc # "idle" =>
    LET past == Len(Queries(since)) - Len(todo)
    IN  /\ past \in Nat
        /\ \A i \in DOMAIN todo : todo[i] = Queries(since)[past + i]
        /\ \A i \in 1..past : Queries(since)[i] \in asked

\* Where the pass is, and what it holds there.
PassInv ==
  /\ cpc = "idle" => /\ todo = <<>> /\ cres = NoRoutes /\ cerr = "nil"
                     /\ asked = {} /\ heard = <<>>
  /\ cpc \in {"fetch", "store", "stored"} => todo # <<>> /\ Head(todo) \in asked
  /\ cpc # "done" => cerr # "cancelled"
  /\ cpc = "done" /\ cerr # "cancelled" => todo = <<>>

\* What is being stored is the answer to the query the pass is at, and once it
\* is committed the table has the price of its last offer.
BatchInv ==
  /\ cpc \notin {"store", "stored"} => batch = <<>>
  /\ cpc \in {"store", "stored"} =>
       /\ batch # <<>>
       /\ \A i \in DOMAIN batch : batch[i].key = KeyOf(Head(todo))
  /\ cpc = "stored" =>
       /\ KeyOf(Head(todo)) \in DOMAIN offers
       /\ offers[KeyOf(Head(todo))].price = batch[Len(batch)].price

\* The calendar is bounded, and no pass began later than today.
CalendarInv == today \in 0..MaxDay /\ since \in 0..today

CollectInv ==
  /\ CollectorTypeOK /\ CalendarInv
  /\ ProgressInv /\ PassInv /\ BatchInv
  /\ RoutesAccounted /\ HeardIsStored

-----------------------------------------------------------------------------
(* The steps.                                                              *)

\* The query a pass is at is one of its window, and its row has a key.
LEMMA HeadTyped ==
  ASSUME CollectInv, cpc \in {"fetch", "store", "stored"}
  PROVE  /\ todo # <<>>
         /\ Head(todo) \in Query
         /\ KeyOf(Head(todo)) \in Keys
<1>1. todo # <<>> /\ todo \in Seq(Query)
  BY DEF CollectInv, PassInv, CollectorTypeOK
<1>2. since \in 0..MaxDay
  BY CollectorAssumption DEF CollectInv, CalendarInv
<1> DEFINE all == Queries(since)
           past == Len(all) - Len(todo)
<1>3. past \in Nat /\ todo[1] = all[past + 1]
  BY <1>1 DEF CollectInv, ProgressInv
<1>4. Len(all) \in Nat /\ DOMAIN all = 1..Len(all)
  BY <1>2, QueriesTyped
<1>5. past + 1 \in DOMAIN all
  <2> HIDE DEF all
  <2> QED
    BY <1>1, <1>3, <1>4
<1>6. KeyOf(all[past + 1]) \in Keys
  BY <1>2, <1>5, QueriesTyped
<1> QED
  BY <1>1, <1>3, <1>6

\* On to the next query: the one before it is behind the pass.
LEMMA NextQueryKeeps ==
  ASSUME CollectInv, cpc \in {"fetch", "store", "stored"}, NextQuery,
         cerr' \in {"nil", "routes"}
  PROVE  /\ CalendarInv' /\ ProgressInv' /\ PassInv' /\ BatchInv'
         /\ todo' \in Seq(Query) /\ Len(todo) = Len(todo') + 1
         /\ ctx' \in {"live", "cancelled", "dead"} /\ asked' \subseteq Query
         /\ batch' = <<>> /\ cpc' = "sleep" /\ since' = since /\ today' \in Nat
<1>1. todo # <<>> /\ todo \in Seq(Query)
  BY HeadTyped DEF CollectInv, CollectorTypeOK
<1>2. /\ todo' \in Seq(Query)
      /\ Len(todo') = Len(todo) - 1
      /\ \A i \in DOMAIN todo' : todo'[i] = todo[i + 1]
      /\ \A i \in DOMAIN todo' : i + 1 \in DOMAIN todo
  BY <1>1 DEF NextQuery
<1>3. since \in 0..MaxDay /\ since' = since /\ asked' = asked /\ cpc' = "sleep"
  BY CollectorAssumption DEF CollectInv, CalendarInv, NextQuery
<1> DEFINE all == Queries(since)
           past == Len(all) - Len(todo)
           next == Len(all) - Len(todo')
<1>4. Len(all) \in Nat
  BY <1>3, QueriesTyped
<1>5. /\ past \in Nat
      /\ \A i \in DOMAIN todo : todo[i] = all[past + i]
      /\ \A i \in 1..past : all[i] \in asked
  BY DEF CollectInv, ProgressInv
<1>6. all[past + 1] \in asked
  BY <1>1, <1>5 DEF CollectInv, PassInv
<1> HIDE DEF all
<1>7. next = past + 1
  BY <1>1, <1>2, <1>4
<1> HIDE DEF past, next
<1>8. /\ next \in Nat
      /\ \A i \in DOMAIN todo' : todo'[i] = all[next + i]
      /\ \A i \in 1..next : all[i] \in asked'
  <2>1. ASSUME NEW i \in DOMAIN todo'
        PROVE  todo'[i] = all[next + i]
    <3>1. i \in Nat /\ past + (i + 1) = next + i
      BY <1>2, <1>5, <1>7
    <3> QED
      BY <1>2, <1>5, <3>1
  <2>2. ASSUME NEW i \in 1..next
        PROVE  all[i] \in asked
    BY <1>5, <1>6, <1>7
  <2> QED
    BY <1>3, <1>5, <1>7, <2>1, <2>2
<1>9. ProgressInv'
  BY <1>3, <1>8 DEF ProgressInv, all, next
<1>10. PassInv' /\ BatchInv'
  BY DEF NextQuery, PassInv, BatchInv
<1> QED
  BY <1>1, <1>2, <1>9, <1>10
     DEF NextQuery, CollectInv, CollectorTypeOK, CalendarInv

\* A pass that ends leaves nothing behind but the table.
LEMMA ForgetKeeps ==
  ASSUME CollectInv, ForgetPass, UNCHANGED <<offers, since, today, now>>,
         ctx' \in {"live", "cancelled", "dead"}, misses' \in Nat
  PROVE  CollectInv'
<1>1. CollectorTypeOK'
  BY DEF CollectInv, CollectorTypeOK, ForgetPass, NoRoutes
<1>2. CalendarInv' /\ ProgressInv' /\ PassInv' /\ BatchInv' /\ RoutesAccounted'
  BY DEF CollectInv, CalendarInv, ProgressInv, PassInv, BatchInv,
         RoutesAccounted, ForgetPass
<1>3. HeardIsStored'
  BY DEF HeardIsStored, ForgetPass
<1> QED
  BY <1>1, <1>2, <1>3 DEF CollectInv

\* Failures are counted upwards.
LEMMA MissTyped ==
  ASSUME CollectInv, Miss \/ CallFails
  PROVE  misses' \in Nat
BY DEF Miss, CallFails, CollectInv, CollectorTypeOK

\* A pass begins with all the queries of today's window.
LEMMA BeginKeeps ==
  ASSUME CollectInv, BeginCollect
  PROVE  CollectInv'
<1>1. today \in 0..MaxDay /\ today \in Nat
  BY CollectorAssumption DEF CollectInv, CalendarInv
<1>2. /\ since' = today /\ todo' = Queries(today) /\ cpc' = "sleep"
      /\ UNCHANGED <<offers, ctx, batch, cres, cerr, today, now, misses, asked,
                     heard>>
      /\ batch = <<>> /\ cres = NoRoutes /\ cerr = "nil" /\ heard = <<>>
  BY DEF BeginCollect, CollectInv, PassInv, BatchInv
<1> DEFINE all == Queries(today)
<1>3. /\ Len(all) \in Nat /\ DOMAIN all = 1..Len(all)
      /\ \A n \in DOMAIN all : all[n] \in Query
      /\ all \in Seq(Query)
  <2>1. Len(all) \in Nat /\ DOMAIN all = 1..Len(all)
    BY <1>1, QueriesTyped
  <2>2. \A n \in DOMAIN all : all[n] \in Query
    BY <1>1, QueriesTyped
  <2>3. all = [n \in DOMAIN all |-> all[n]]
    BY DEF Queries
  <2> HIDE DEF all
  <2> QED
    BY <2>1, <2>2, <2>3
<1> HIDE DEF all
<1>4. CollectorTypeOK'
  BY <1>1, <1>2, <1>3 DEF all, CollectInv, CollectorTypeOK
<1>5. CalendarInv' /\ PassInv' /\ BatchInv'
  BY <1>1, <1>2 DEF CalendarInv, PassInv, BatchInv
<1>6. ProgressInv'
  <2>1. since' = today /\ todo' = all /\ Queries(since)' = all
    BY <1>2 DEF all
  <2> QED
    BY <1>3, <2>1 DEF ProgressInv
<1>7. RoutesAccounted'
  <2>1. since' = today /\ todo' = all /\ Queries(since)' = all
    BY <1>2 DEF all
  <2>2. cres' = [ok |-> 0, empty |-> 0, failed |-> 0]
    BY <1>2 DEF NoRoutes
  <2> QED
    BY <1>3, <2>1, <2>2 DEF RoutesAccounted
<1>8. HeardIsStored'
  BY <1>2 DEF HeardIsStored
<1> QED
  BY <1>4, <1>5, <1>6, <1>7, <1>8 DEF CollectInv

\* Between two queries.
LEMMA SleepKeeps ==
  ASSUME CollectInv, SleepOver \/ SleepCancelled \/ RoutesDone
  PROVE  CollectInv'
<1>1. /\ UNCHANGED <<offers, ctx, since, todo, batch, cres, today, now, misses,
                     heard>>
      /\ cpc = "sleep" /\ cpc' \in {"fetch", "done"}
      /\ cerr' \in {"nil", "routes", "cancelled"}
  BY DEF SleepOver, SleepCancelled, RoutesDone, CollectInv, CollectorTypeOK
<1>2. asked \subseteq asked' /\ asked' \subseteq Query
  BY DEF SleepOver, SleepCancelled, RoutesDone, CollectInv, CollectorTypeOK
<1>3. CollectorTypeOK'
  BY <1>1, <1>2 DEF CollectInv, CollectorTypeOK
<1>4. PassInv'
  BY <1>1 DEF SleepOver, SleepCancelled, RoutesDone, CollectInv, PassInv
<1>5. CalendarInv' /\ BatchInv' /\ HeardIsStored'
  BY <1>1 DEF CollectInv, CalendarInv, BatchInv, HeardIsStored
<1>6. RoutesAccounted'
  BY <1>1 DEF CollectInv, RoutesAccounted
<1>7. ProgressInv'
  <2>1. Queries(since)' = Queries(since) /\ todo' = todo
    BY <1>1
  <2> HIDE DEF Queries
  <2> QED
    BY <1>1, <1>2, <2>1 DEF CollectInv, ProgressInv
<1> QED
  BY <1>3, <1>4, <1>5, <1>6, <1>7 DEF CollectInv

\* An answer with offers: all of them are on the key of the query.
LEMMA AnswerKeeps ==
  ASSUME CollectInv, FetchAnswered
  PROVE  CollectInv'
<1>1. PICK prices \in PriceLists :
        batch' = [i \in DOMAIN prices |->
                    [key |-> KeyOf(Head(todo)), price |-> prices[i]]]
  BY DEF FetchAnswered
<1>2. /\ UNCHANGED <<offers, ctx, since, todo, cres, cerr, today, now, misses,
                     asked, heard>>
      /\ cpc = "fetch" /\ cpc' = "store"
  BY DEF FetchAnswered
<1>3. KeyOf(Head(todo)) \in Keys
  BY <1>2, HeadTyped
<1>4. prices \in Seq(Prices) /\ prices # <<>>
  BY CollectorAssumption
<1>5. /\ batch' \in Seq(Quote) /\ batch' # <<>>
      /\ \A i \in DOMAIN batch' : batch'[i].key = KeyOf(Head(todo))
  <2> DEFINE k == KeyOf(Head(todo))
  <2> HIDE DEF k
  <2>1. batch' = [i \in DOMAIN prices |-> [key |-> k, price |-> prices[i]]]
    BY <1>1 DEF k
  <2>2. k \in Keys
    BY <1>3 DEF k
  <2>3. DOMAIN prices = 1..Len(prices) /\ Len(prices) \in Nat \ {0}
    BY <1>4
  <2>4. \A i \in DOMAIN prices : [key |-> k, price |-> prices[i]] \in Quote
    BY <1>4, <2>2 DEF Quote
  <2>5. batch' \in Seq(Quote) /\ DOMAIN batch' # {}
    BY <2>1, <2>3, <2>4
  <2>6. \A i \in DOMAIN batch' : batch'[i].key = k
    BY <2>1
  <2> QED
    BY <2>5, <2>6 DEF k
<1>6. CollectorTypeOK'
  BY <1>2, <1>5 DEF CollectInv, CollectorTypeOK
<1>7. BatchInv'
  BY <1>2, <1>5 DEF BatchInv
<1>8. PassInv' /\ CalendarInv' /\ RoutesAccounted'
  BY <1>2 DEF CollectInv, PassInv, CalendarInv, RoutesAccounted
<1>9. ProgressInv'
  <2>1. Queries(since)' = Queries(since) /\ todo' = todo /\ asked' = asked
    BY <1>2
  <2> QED
    BY <1>2, <2>1 DEF CollectInv, ProgressInv
<1>10. HeardIsStored'
  <2>1. batch = <<>>
    BY <1>2 DEF CollectInv, BatchInv
  <2>2. BatchKeys(batch) = {}
    BY <2>1 DEF BatchKeys
  <2> QED
    BY <1>2, <2>2 DEF CollectInv, HeardIsStored
<1> QED
  BY <1>6, <1>7, <1>8, <1>9, <1>10 DEF CollectInv

\* The commit: of the statements on the key of the query the last one stays.
LEMMA CommitKeeps ==
  ASSUME CollectInv, StoreCommits
  PROVE  CollectInv'
<1> DEFINE k == KeyOf(Head(todo))
<1>1. /\ UNCHANGED <<ctx, since, todo, batch, cres, cerr, today, misses, asked,
                     heard>>
      /\ cpc = "store" /\ cpc' = "stored" /\ now' = now + 1
      /\ UpsertMany(batch, now')
  BY DEF StoreCommits
<1>2. /\ batch \in Seq(Quote) /\ batch # <<>>
      /\ \A i \in DOMAIN batch : batch[i].key = k
      /\ DOMAIN offers \subseteq Keys /\ offers \in [DOMAIN offers -> Row]
      /\ now' \in Nat
  BY <1>1 DEF CollectInv, BatchInv, CollectorTypeOK
<1>3. DOMAIN offers' \subseteq Keys /\ offers' \in [DOMAIN offers' -> Row]
  BY <1>1, <1>2, UpsertKeepsMarks
<1> HIDE DEF k
<1>4. BatchKeys(batch) = {k}
  <2>1. 1 \in DOMAIN batch
    BY <1>2
  <2> QED
    BY <1>2, <2>1 DEF BatchKeys
<1>5. Surviving(batch, k) = Len(batch)
  <2> DEFINE last(i) == /\ batch[i].key = k
                        /\ \A j \in DOMAIN batch : batch[j].key = k => j <= i
  <2>1. /\ DOMAIN batch = 1..Len(batch) /\ Len(batch) \in Nat
        /\ Len(batch) \in DOMAIN batch
    BY <1>2
  <2>2. last(Len(batch))
    BY <1>2, <2>1
  <2>3. ASSUME NEW i \in DOMAIN batch, last(i)
        PROVE  i = Len(batch)
    BY <1>2, <2>1, <2>3
  <2>4. Surviving(batch, k) = CHOOSE i \in DOMAIN batch : last(i)
    BY DEF Surviving
  <2> HIDE DEF last
  <2> QED
    BY <2>1, <2>2, <2>3, <2>4
<1>6. k \in DOMAIN offers' /\ offers'[k].price = batch[Len(batch)].price
  BY <1>1, <1>4, <1>5 DEF UpsertMany
<1>7. \A l \in DOMAIN offers \ {k} :
        l \in DOMAIN offers' /\ offers'[l] = offers[l]
  BY <1>1, <1>4 DEF UpsertMany
<1>8. CollectorTypeOK'
  BY <1>1, <1>2, <1>3 DEF CollectInv, CollectorTypeOK
<1>9. BatchInv'
  BY <1>1, <1>2, <1>6 DEF BatchInv, k
<1>10. PassInv' /\ CalendarInv' /\ RoutesAccounted'
  BY <1>1 DEF CollectInv, PassInv, CalendarInv, RoutesAccounted
<1>11. ProgressInv'
  <2>1. Queries(since)' = Queries(since) /\ todo' = todo /\ asked' = asked
    BY <1>1
  <2> QED
    BY <1>1, <2>1 DEF CollectInv, ProgressInv
<1>12. HeardIsStored'
  BY <1>1, <1>4, <1>7 DEF CollectInv, HeardIsStored
<1> QED
  BY <1>8, <1>9, <1>10, <1>11, <1>12 DEF CollectInv

\* A query ends in one of three ways, and each is counted once.
LEMMA CountKeeps ==
  ASSUME CollectInv, cpc \in {"fetch", "store", "stored"}, NextQuery,
         cerr' \in {"nil", "routes"},
         \/ cres' = [cres EXCEPT !.ok = @ + 1]
         \/ cres' = [cres EXCEPT !.empty = @ + 1]
         \/ cres' = [cres EXCEPT !.failed = @ + 1]
  PROVE  cres' \in [ok : Nat, empty : Nat, failed : Nat] /\ RoutesAccounted'
<1>1. cres \in [ok : Nat, empty : Nat, failed : Nat]
  BY DEF CollectInv, CollectorTypeOK
<1>2. /\ cres' \in [ok : Nat, empty : Nat, failed : Nat]
      /\ cres'.ok + cres'.empty + cres'.failed =
           cres.ok + cres.empty + cres.failed + 1
  BY <1>1
<1>3. /\ todo' \in Seq(Query) /\ Len(todo) = Len(todo') + 1
      /\ since' = since /\ cpc' = "sleep"
  BY NextQueryKeeps
<1>4. cres.ok + cres.empty + cres.failed + Len(todo) = Len(Queries(since))
  BY DEF CollectInv, RoutesAccounted
<1>5. Len(todo') \in Nat
  BY <1>3
<1>6. cres'.ok + cres'.empty + cres'.failed + Len(todo') = Len(Queries(since))
  <2> DEFINE total == Len(Queries(since))
             left == Len(todo')
             counted == cres.ok + cres.empty + cres.failed
  <2>1. counted \in Nat /\ left \in Nat
    BY <1>1, <1>5
  <2>2. counted + (left + 1) = total
    BY <1>3, <1>4
  <2> HIDE DEF total, left, counted
  <2>3. (counted + 1) + left = total
    BY <2>1, <2>2
  <2> QED
    BY <1>2, <2>3 DEF total, left, counted
<1>7. Queries(since)' = Queries(since)
  BY <1>3
<1> HIDE DEF Queries
<1> QED
  BY <1>2, <1>6, <1>7 DEF RoutesAccounted

\* The steps that end a query.
LEMMA RouteEndKeeps ==
  ASSUME CollectInv, FetchEmpty \/ FetchFails \/ StoreSucceeds \/ StoreFails
  PROVE  CollectInv'
<1> DEFINE k == KeyOf(Head(todo))
<1>1. /\ cpc \in {"fetch", "store", "stored"} /\ NextQuery
      /\ UNCHANGED <<offers, now>>
  BY DEF FetchEmpty, FetchFails, StoreSucceeds, StoreFails, RouteFailed
<1>2. cerr' \in {"nil", "routes"}
  <2>1. cerr \in {"nil", "routes"}
    BY <1>1 DEF CollectInv, PassInv, CollectorTypeOK
  <2> QED
    BY <2>1 DEF FetchEmpty, FetchFails, StoreSucceeds, StoreFails, RouteFailed
<1>3. cres' \in [ok : Nat, empty : Nat, failed : Nat] /\ RoutesAccounted'
  BY <1>1, <1>2, CountKeeps
     DEF FetchEmpty, FetchFails, StoreSucceeds, StoreFails, RouteFailed
<1>4. misses' \in Nat
  BY MissTyped DEF FetchEmpty, FetchFails, StoreSucceeds, StoreFails,
                   CollectInv, CollectorTypeOK
<1>5. /\ CalendarInv' /\ ProgressInv' /\ PassInv' /\ BatchInv'
      /\ todo' \in Seq(Query) /\ batch' = <<>> /\ cpc' = "sleep"
      /\ ctx' \in {"live", "cancelled", "dead"} /\ asked' \subseteq Query
      /\ since' = since /\ today' \in Nat
  BY <1>1, <1>2, NextQueryKeeps
<1>6. BatchKeys(batch') = {}
  BY <1>5 DEF BatchKeys
<1>7. /\ DOMAIN heard' \subseteq Keys
      /\ \A l \in DOMAIN heard' :
           l \in DOMAIN offers /\ offers[l].price = heard'[l].last
  <2>0. /\ DOMAIN heard \subseteq Keys /\ k \in Keys
        /\ \A l \in DOMAIN heard \ BatchKeys(batch) :
             l \in DOMAIN offers /\ offers[l].price = heard[l].last
    BY <1>1, HeadTyped DEF CollectInv, CollectorTypeOK, HeardIsStored
  <2>1. CASE FetchEmpty \/ FetchFails
    <3>1. batch = <<>> /\ heard' = heard
      BY <2>1 DEF FetchEmpty, FetchFails, CollectInv, BatchInv
    <3>2. BatchKeys(batch) = {}
      BY <3>1 DEF BatchKeys
    <3> QED
      BY <2>0, <3>1, <3>2
  <2>2. CASE StoreSucceeds \/ StoreFails
    <3>1. BatchKeys(batch) \subseteq {k}
      BY <2>2 DEF StoreSucceeds, StoreFails, CollectInv, BatchInv, BatchKeys
    <3>2. CASE StoreSucceeds
      <4>1. /\ DOMAIN heard' = DOMAIN heard \cup {k}
            /\ heard'[k].last = batch[Len(batch)].price
            /\ \A l \in DOMAIN heard \ {k} : heard'[l] = heard[l]
        BY <3>2 DEF StoreSucceeds, Hear
      <4>2. k \in DOMAIN offers /\ offers[k].price = batch[Len(batch)].price
        BY <3>2 DEF StoreSucceeds, CollectInv, BatchInv
      <4> HIDE DEF k
      <4> QED
        BY <2>0, <3>1, <4>1, <4>2
    <3>3. CASE StoreFails
      <4>1. /\ DOMAIN heard' = DOMAIN heard \ {k}
            /\ \A l \in DOMAIN heard \ {k} : heard'[l] = heard[l]
        BY <3>3 DEF StoreFails
      <4> HIDE DEF k
      <4> QED
        BY <2>0, <3>1, <4>1
    <3> QED
      BY <2>2, <3>2, <3>3
  <2> QED
    BY <2>1, <2>2
<1>8. HeardIsStored'
  BY <1>1, <1>6, <1>7 DEF HeardIsStored
<1>9. CollectorTypeOK'
  BY <1>1, <1>2, <1>3, <1>4, <1>5, <1>7 DEF CollectInv, CollectorTypeOK
<1> QED
  BY <1>3, <1>5, <1>8, <1>9 DEF CollectInv

\* Nothing is collected yet.
LEMMA InitCollected == Init => CollectInv
<1> SUFFICES ASSUME Init PROVE CollectInv
  OBVIOUS
<1>1. CollectorTypeOK
  BY DEF Init, InitCollector, CollectorTypeOK, NoRoutes
<1>2. CalendarInv /\ ProgressInv /\ PassInv /\ BatchInv /\ RoutesAccounted
  BY CollectorAssumption
     DEF Init, InitCollector, CalendarInv, ProgressInv, PassInv, BatchInv,
         RoutesAccounted
<1>3. HeardIsStored
  BY DEF Init, InitCollector, HeardIsStored
<1> QED
  BY <1>1, <1>2, <1>3 DEF CollectInv

\* Steps of the surroundings that leave the pass alone.
LEMMA SurroundingsKeep ==
  ASSUME CollectInv, NextDay \/ Cancel \/ Stop \/ Restart \/ UNCHANGED vars
  PROVE  CollectInv'
<1>1. UNCHANGED <<offers, passVars, now>>
  BY DEF NextDay, Cancel, Stop, Restart, vars
<1>2. /\ misses' \in Nat /\ ctx' \in {"live", "cancelled", "dead"}
  BY MissTyped
     DEF NextDay, Cancel, Stop, Restart, vars, CollectInv, CollectorTypeOK
<1>3. today' \in 0..MaxDay /\ since' \in 0..today' /\ today' \in Nat
  <2>1. /\ today \in 0..MaxDay /\ since \in 0..today /\ MaxDay \in Nat
        /\ since' = since
    BY <1>1, CollectorAssumption DEF CollectInv, CalendarInv, passVars
  <2>2. today' = today \/ (today < MaxDay /\ today' = today + 1)
    BY DEF NextDay, Cancel, Stop, Restart, vars
  <2> QED
    BY <2>1, <2>2
<1>4. CollectorTypeOK'
  BY <1>1, <1>2, <1>3 DEF CollectInv, CollectorTypeOK, passVars
<1>5. CalendarInv' /\ PassInv' /\ BatchInv' /\ RoutesAccounted'
  BY <1>1, <1>3
     DEF CollectInv, CalendarInv, PassInv, BatchInv, RoutesAccounted, passVars
<1>6. ProgressInv'
  <2>1. Queries(since)' = Queries(since) /\ UNCHANGED <<cpc, todo, asked>>
    BY <1>1 DEF passVars
  <2> QED
    BY <2>1 DEF CollectInv, ProgressInv
<1>7. HeardIsStored'
  BY <1>1 DEF CollectInv, HeardIsStored, passVars
<1> QED
  BY <1>4, <1>5, <1>6, <1>7 DEF CollectInv

\* No step breaks the invariant.
LEMMA StepCollected ==
  ASSUME CollectInv, [Next]_vars
  PROVE  CollectInv'
<1>1. CASE BeginCollect
  BY <1>1, BeginKeeps
<1>2. CASE CollectStep
  <2>1. CASE SleepOver \/ SleepCancelled \/ RoutesDone
    BY <2>1, SleepKeeps
  <2>2. CASE FetchAnswered
    BY <2>2, AnswerKeeps
  <2>3. CASE StoreCommits
    BY <2>3, CommitKeeps
  <2>4. CASE FetchEmpty \/ FetchFails \/ StoreSucceeds \/ StoreFails
    BY <2>4, RouteEndKeeps
  <2>5. CASE ReturnCollect
    BY <2>5, ForgetKeeps DEF ReturnCollect, CollectInv, CollectorTypeOK
  <2> QED
    BY <1>2, <2>1, <2>2, <2>3, <2>4, <2>5 DEF CollectStep
<1>3. CASE Panic \/ Crash
  BY <1>3, MissTyped, ForgetKeeps DEF Panic, Crash, CollectInv, CollectorTypeOK
<1>4. CASE NextDay \/ Cancel \/ Stop \/ Restart \/ UNCHANGED vars
  BY <1>4, SurroundingsKeep
<1> QED
  BY <1>1, <1>2, <1>3, <1>4 DEF Next

\* The inductive invariant holds of every behaviour of CollectOnce.
LEMMA Collected == Spec => []CollectInv
BY InitCollected, StepCollected, PTL DEF Spec

-----------------------------------------------------------------------------
(* The theorems.                                                           *)

\* The variables range over what they are meant to.
THEOREM CollectorTypeCorrect == Spec => []CollectorTypeOK
<1>1. CollectInv => CollectorTypeOK
  BY DEF CollectInv
<1> QED
  BY <1>1, Collected, PTL

\* Every query of a pass is counted exactly once, whatever fails
\* (collector.go:123, :131, :137, :146).
THEOREM RoutesCounted == Spec => []RoutesAccounted
<1>1. CollectInv => RoutesAccounted
  BY DEF CollectInv
<1> QED
  BY <1>1, Collected, PTL

\* What a pass has heard and stored it finds stored (collector.go:137).
THEOREM HeardStaysStored == Spec => []HeardIsStored
<1>1. CollectInv => HeardIsStored
  BY DEF CollectInv
<1> QED
  BY <1>1, Collected, PTL

\* A pass that is over and was not cancelled has come to every route, in both
\* directions, on every date of the window it began with (collector.go:106-109).
LEMMA DoneMeansAll ==
  ASSUME CollectInv
  PROVE  AllRoutesAsked
<1> SUFFICES ASSUME cpc = "done", cerr # "cancelled",
                    NEW i \in DOMAIN Origins, NEW j \in DOMAIN Destinations,
                    NEW d \in 0..Window
             PROVE  /\ [from |-> Origins[i], to |-> Destinations[j],
                        date |-> since + d] \in asked
                    /\ [from |-> Destinations[j], to |-> Origins[i],
                        date |-> since + d] \in asked
  BY DEF AllRoutesAsked
<1>1. since \in 0..MaxDay /\ todo = <<>>
  BY CollectorAssumption DEF CollectInv, CalendarInv, PassInv
<1> DEFINE all == Queries(since)
<1>2. Len(all) \in Nat /\ DOMAIN all = 1..Len(all)
  BY <1>1, QueriesTyped
<1>3. \A p \in DOMAIN all : all[p] \in asked
  <2>1. Len(all) - Len(todo) = Len(all)
    BY <1>1, <1>2
  <2>2. \A p \in 1..(Len(all) - Len(todo)) : all[p] \in asked
    BY DEF CollectInv, ProgressInv
  <2> HIDE DEF all
  <2> QED
    BY <1>2, <2>1, <2>2
<1>4. PICK n \in DOMAIN Routes, m \in DOMAIN Routes :
        /\ Routes[n] = [from |-> Origins[i], to |-> Destinations[j]]
        /\ Routes[m] = [from |-> Destinations[j], to |-> Origins[i]]
  BY RoutesComplete
<1>5. PICK p \in DOMAIN all : all[p] = [from |-> Routes[n].from,
                                       to |-> Routes[n].to, date |-> since + d]
  BY <1>1, DatesComplete
<1>6. PICK q \in DOMAIN all : all[q] = [from |-> Routes[m].from,
                                       to |-> Routes[m].to, date |-> since + d]
  BY <1>1, DatesComplete
<1> HIDE DEF all
<1>7. /\ Routes[n].from = Origins[i] /\ Routes[n].to = Destinations[j]
      /\ Routes[m].from = Destinations[j] /\ Routes[m].to = Origins[i]
  BY <1>4
<1> QED
  BY <1>3, <1>5, <1>6, <1>7

\* No route, direction or date is left out, whatever failed on the way.
THEOREM NoRouteLeftOut == Spec => []AllRoutesAsked
<1>1. CollectInv => AllRoutesAsked
  BY DoneMeansAll
<1> QED
  BY <1>1, Collected, PTL

=============================================================================
