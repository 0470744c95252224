-------------------------- MODULE PublisherProofs --------------------------
(***************************************************************************)
(* Theorems of module Publisher, for every value of its constants.         *)
(***************************************************************************)
EXTENDS Publisher, FlightOfferRepoProofs

-----------------------------------------------------------------------------
(* The table.                                                              *)

\* The rows ListUnpublished selects are those owed to the channel.
LEMMA EligibleIsDue ==
  ASSUME offers \in [DOMAIN offers -> Row]
  PROVE  Eligible(MaxPrice) = Due
BY PublisherAssumption, RepoAssumption DEF Eligible, Due, IsPublished, Row

-----------------------------------------------------------------------------
(* Types.                                                                  *)

\* ForgetPass leaves the variables of a pass as Init has them.
LEMMA ForgetPassTyped ==
  ASSUME ForgetPass
  PROVE  /\ pc' = "idle" /\ fresh' = {} /\ attempted' = {} /\ err' = "nil"
         /\ cur' = NoOffer
         /\ res' \in [fetched : Nat, published : Nat, failed : Nat]
         /\ InHand' = {}
BY DEF ForgetPass, NoResult, InHand

\* The copies taken of a page are offers.
LEMMA FreshOffersTyped ==
  ASSUME TypeOK, NEW page \in UnpublishedPages(MaxPrice, BatchSize)
  PROVE  FreshOffers(page) \subseteq OfferCopy
BY DEF TypeOK, UnpublishedPages, Eligible, FreshOffers, Copy, OfferCopy, Row

\* The offer in hand is an offer, its id a key.
LEMMA HandTyped ==
  ASSUME TypeOK, pc \in {"pause", "send", "await", "mark"}
  PROVE  cur \in OfferCopy /\ cur.id \in Keys
BY DEF TypeOK, InHand, OfferCopy

\* The table stays a table when a mark is written or is in doubt.
LEMMA MarkTyped ==
  ASSUME TypeOK, NEW k \in Keys, MarkPublished(k) \/ UNCHANGED offers
  PROVE  /\ DOMAIN offers' \subseteq Keys
         /\ offers' \in [DOMAIN offers' -> Row]
<1>1. CASE UNCHANGED offers
  BY <1>1 DEF TypeOK
<1>2. CASE MarkPublished(k) /\ k \in DOMAIN offers
  BY <1>2, MarkKeepsRows DEF TypeOK
<1>3. CASE MarkPublished(k) /\ k \notin DOMAIN offers
  BY <1>3 DEF TypeOK, MarkPublished
<1> QED
  BY <1>1, <1>2, <1>3

\* Every variable keeps its type: in particular the partial function offers
\* stays a table of rows under batches, marks, crashes and restarts.
THEOREM TypeCorrect == Spec => []TypeOK
<1>1. Init => TypeOK
  BY PublisherAssumption
     DEF Init, TypeOK, InHand, NoResult, LegacyRow, Row
<1>2. TypeOK /\ [Next]_vars => TypeOK'
  <2> SUFFICES ASSUME TypeOK, [Next]_vars
               PROVE  TypeOK'
    OBVIOUS
  <2>1. CASE BeginPass
    BY <2>1 DEF BeginPass, TypeOK, InHand, chanVars
  <2>2. CASE ListUnpublished
    <3>1. fresh' \subseteq OfferCopy
      BY <2>2, FreshOffersTyped DEF ListUnpublished
    <3>2. pc' \in {"done", "next"}
      BY <2>2 DEF ListUnpublished
    <3> QED
      BY <2>2, <3>1, <3>2 DEF ListUnpublished, TypeOK, InHand, chanVars
  <2>3. CASE ListFails
    BY <2>3 DEF ListFails, CallFails, Fault, TypeOK, InHand, chanVars
  <2>4. CASE Pick
    BY <2>4 DEF Pick, TypeOK, InHand, OfferCopy, chanVars
  <2>5. CASE PageDone \/ PauseOver \/ PauseCancelled
    BY <2>5 DEF PageDone, PauseOver, PauseCancelled, TypeOK, InHand, chanVars
  <2>6. CASE SendRequest \/ SendCancelled
    <3>1. res' \in [fetched : Nat, published : Nat, failed : Nat]
      <4>1. res \in [fetched : Nat, published : Nat, failed : Nat]
        BY DEF TypeOK
      <4>2. CASE SendRequest
        BY <4>1, <4>2 DEF SendRequest
      <4>3. CASE SendCancelled
        <5>1. res' = [fetched   |-> res.fetched + 1,
                      published |-> res.published,
                      failed    |-> res.failed + 1]
          BY <4>1, <4>3 DEF SendCancelled
        <5> QED
          BY <4>1, <5>1
      <4> QED
        BY <2>6, <4>2, <4>3
    <3>2. pc = "send" /\ pc' \in {"await", "next"} /\ err' \in {err, "offers"}
      BY <2>6 DEF SendRequest, SendCancelled
    <3>3. UNCHANGED <<offers, ctx, fresh, attempted, cur, now, faults, chanVars>>
      BY <2>6 DEF SendRequest, SendCancelled
    <3> QED
      BY <3>1, <3>2, <3>3 DEF TypeOK, InHand, chanVars
  <2>7. CASE SendAccepted
    BY <2>7, HandTyped DEF SendAccepted, TypeOK, InHand
  <2>8. CASE SendRefused
    BY <2>8 DEF SendRefused, OfferFailed, Fault, TypeOK, InHand, chanVars
  <2>9. CASE SendGivenUp
    BY <2>9, HandTyped
       DEF SendGivenUp, CallFails, OfferFailed, Fault, TypeOK, InHand
  <2>10. CASE MarkSucceeds
    BY <2>10, HandTyped, MarkTyped DEF MarkSucceeds, TypeOK, InHand, chanVars
  <2>11. CASE MarkFails
    BY <2>11, HandTyped, MarkTyped
       DEF MarkFails, MarkInDoubt, CallFails, OfferFailed, Fault, TypeOK, InHand
  <2>12. CASE ReturnPass
    BY <2>12, ForgetPassTyped DEF ReturnPass, TypeOK, chanVars
  <2>13. CASE Panic
    BY <2>13, ForgetPassTyped, HandTyped DEF Panic, Fault, TypeOK
  <2>14. CASE Collect
    <3>1. PICK batch \in Batches : UpsertMany(batch, now')
      BY <2>14 DEF Collect
    <3>2. batch \in Seq(Quote) /\ now' \in Nat
      BY <2>14, PublisherAssumption DEF Collect, TypeOK
    <3>3. /\ DOMAIN offers' \subseteq Keys
          /\ offers' \in [DOMAIN offers' -> Row]
      BY <3>1, <3>2, UpsertKeepsMarks DEF TypeOK
    <3> QED
      BY <2>14, <3>2, <3>3 DEF Collect, TypeOK, InHand, passVars, chanVars
  <2>15. CASE \E k \in Keys : LatePost(k)
    BY <2>15 DEF LatePost, TypeOK, InHand, passVars
  <2>16. CASE Cancel \/ Stop \/ Restart
    BY <2>16 DEF Cancel, Stop, Restart, Fault, TypeOK, InHand, passVars, chanVars
  <2>17. CASE Crash
    BY <2>17, ForgetPassTyped, HandTyped, MarkTyped
       DEF Crash, Orphaned, MarkInDoubt, Fault, TypeOK, chanVars
  <2>18. CASE UNCHANGED vars
    BY <2>18 DEF vars, TypeOK, InHand, passVars, chanVars
  <2> QED
    BY <2>1, <2>2, <2>3, <2>4, <2>5, <2>6, <2>7, <2>8, <2>9, <2>10, <2>11,
       <2>12, <2>13, <2>14, <2>15, <2>16, <2>17, <2>18 DEF Next, PassStep
<1> QED
  BY <1>1, <1>2, PTL DEF Spec

-----------------------------------------------------------------------------
(* The inductive invariant.  It holds in layers, each inductive given the  *)
(* ones before it.                                                         *)

HandStates == {"pause", "send", "await", "mark"}

\* Between two passes nothing of a pass is left.
IdleIsClean == pc = "idle" => fresh = {} /\ attempted = {} /\ err = "nil"

\* An offer is attempted once it is in hand, and none of the page before that.
AttemptedOnce ==
  /\ \A c \in fresh : c.id \notin attempted
  /\ pc \in HandStates => cur.id \in attempted

\* First layer: the page in memory and the table agree.
PageInv == IdleIsClean /\ AttemptedOnce /\ PageCurrent

\* Second layer: an offer marked, or about to be, has been posted; ...
Posted ==
  /\ AtLeastOnce
  /\ pc = "mark" => posted[cur.id] >= 1

\* ... and its messages are at most one more than its attempts in doubt, the
\* one more only when it is marked or about to be.
Accounted ==
  \A k \in Keys :
    posted[k] + wire[k] <=
      excused[k] + IF IsPublished(k) \/ (pc = "mark" /\ cur.id = k) THEN 1 ELSE 0

\* Third layer: a pass without an error has published all it attempted.
Settled ==
  err = "nil" =>
    \A k \in attempted : IsPublished(k) \/ (pc \in HandStates /\ cur.id = k)

-----------------------------------------------------------------------------
(* First layer.                                                            *)

\* A page that only shrinks over an unchanged table stays current.
LEMMA PageKept ==
  ASSUME PageCurrent, UNCHANGED offers,
         fresh' \cup InHand' \subseteq fresh \cup InHand
  PROVE  PageCurrent'
BY DEF PageCurrent, Due, IsPublished, Copy

\* Writing the mark of the offer in hand disturbs no other offer of the page.
LEMMA PageAfterMark ==
  ASSUME TypeOK, PageInv, pc = "mark",
         MarkPublished(cur.id) \/ UNCHANGED offers,
         fresh' \subseteq fresh, InHand' = {}
  PROVE  PageCurrent'
<1>1. CASE UNCHANGED offers
  BY <1>1, PageKept DEF PageInv
<1>2. CASE MarkPublished(cur.id)
  <2>1. cur.id \in DOMAIN offers
    BY DEF PageInv, PageCurrent, InHand, Due
  <2>2. /\ DOMAIN offers' = DOMAIN offers
        /\ \A l \in DOMAIN offers : l # cur.id => offers'[l] = offers[l]
    BY <1>2, <2>1, MarkKeepsRows DEF TypeOK
  <2>3. \A c \in fresh : c.id # cur.id
    BY DEF PageInv, AttemptedOnce, HandStates
  <2> QED
    BY <2>2, <2>3 DEF PageInv, PageCurrent, Due, IsPublished, Copy
<1> QED
  BY <1>1, <1>2

\* A page just listed is current, and none of it was attempted.
LEMMA PageListed ==
  ASSUME TypeOK, PageInv, ListUnpublished
  PROVE  PageInv'
<1>1. PICK page \in UnpublishedPages(MaxPrice, BatchSize) :
        fresh' = FreshOffers(page)
  BY DEF ListUnpublished
<1>2. page \subseteq Due
  BY EligibleIsDue DEF UnpublishedPages, TypeOK
<1>3. pc' \in {"done", "next"} /\ UNCHANGED <<offers, attempted>> /\ InHand' = {}
  BY DEF ListUnpublished, InHand
<1>4. \A c \in fresh' : c.id \in page \ attempted /\ c = Copy(c.id)
  BY <1>1 DEF FreshOffers, Copy
<1>5. PageCurrent'
  BY <1>2, <1>3, <1>4 DEF PageCurrent, Due, IsPublished, Copy
<1>6. AttemptedOnce'
  BY <1>3, <1>4 DEF AttemptedOnce, HandStates
<1> QED
  BY <1>3, <1>5, <1>6 DEF PageInv, IdleIsClean

\* Taking an offer in hand takes every copy of it off the page.
LEMMA PagePicked ==
  ASSUME TypeOK, PageInv, Pick
  PROVE  PageInv'
<1>1. PICK c \in fresh : cur' = c /\ fresh' = fresh \ {c}
                         /\ attempted' = attempted \cup {c.id}
  BY DEF Pick
<1>2. pc' \in {"pause", "send"} /\ UNCHANGED offers /\ InHand' = {c}
  BY <1>1 DEF Pick, InHand
<1>3. PageCurrent'
  BY <1>1, <1>2, PageKept DEF PageInv
<1>4. \A d \in fresh' : d.id # c.id
  BY <1>1 DEF PageInv, PageCurrent
<1>5. AttemptedOnce'
  BY <1>1, <1>2, <1>4 DEF PageInv, AttemptedOnce, HandStates
<1> QED
  BY <1>2, <1>3, <1>5 DEF PageInv, IdleIsClean

\* The page read once stays right while its messages go out one by one.
THEOREM PageCorrect == Spec => []PageInv
<1>1. Init => PageInv
  BY DEF Init, PageInv, IdleIsClean, AttemptedOnce, PageCurrent, HandStates,
         InHand
<1>2. TypeOK /\ PageInv /\ [Next]_vars => PageInv'
  <2> SUFFICES ASSUME TypeOK, PageInv, [Next]_vars
               PROVE  PageInv'
    OBVIOUS
  <2> USE DEF PageInv, IdleIsClean, AttemptedOnce, HandStates, InHand
  <2>1. CASE BeginPass
    BY <2>1, PageKept DEF BeginPass
  <2>2. CASE ListUnpublished \/ Pick
    BY <2>2, PageListed, PagePicked
  <2>3. CASE ListFails
    BY <2>3, PageKept DEF ListFails
  <2>4. CASE PageDone \/ PauseOver \/ PauseCancelled
    BY <2>4, PageKept DEF PageDone, PauseOver, PauseCancelled
  <2>5. CASE SendRequest \/ SendCancelled
    BY <2>5, PageKept DEF SendRequest, SendCancelled
  <2>6. CASE SendAccepted \/ SendRefused \/ SendGivenUp
    BY <2>6, PageKept DEF SendAccepted, SendRefused, SendGivenUp, OfferFailed
  <2>7. CASE MarkSucceeds \/ MarkFails
    BY <2>7, PageAfterMark
       DEF MarkSucceeds, MarkFails, MarkInDoubt, OfferFailed
  <2>8. CASE ReturnPass \/ Panic \/ Crash
    BY <2>8, ForgetPassTyped
       DEF ReturnPass, Panic, Crash, PageCurrent
  <2>9. CASE Collect
    BY <2>9 DEF Collect, passVars, PageCurrent
  <2>10. CASE \E k \in Keys : LatePost(k)
    BY <2>10, PageKept DEF LatePost, passVars
  <2>11. CASE Cancel \/ Stop \/ Restart
    BY <2>11, PageKept DEF Cancel, Stop, Restart, passVars
  <2>12. CASE UNCHANGED vars
    BY <2>12, PageKept DEF vars, passVars
  <2> QED
    BY <2>1, <2>2, <2>3, <2>4, <2>5, <2>6, <2>7, <2>8, <2>9, <2>10, <2>11,
       <2>12 DEF Next, PassStep
<1> QED
  BY <1>1, <1>2, TypeCorrect, PTL DEF Spec

\* The invariant the runs check, from the layer.
THEOREM PageStaysCurrent == Spec => []PageCurrent
<1>1. PageInv => PageCurrent
  BY DEF PageInv
<1> QED
  BY <1>1, PageCorrect, PTL

-----------------------------------------------------------------------------
(* Marks and messages.                                                     *)

\* Only a pass about to record an offer marks it, and nothing unmarks one.
LEMMA MarksGrow ==
  ASSUME TypeOK, PageInv, [Next]_vars
  PROVE  \A k \in Keys :
           /\ IsPublished(k) => IsPublished(k)'
           /\ IsPublished(k)' => IsPublished(k) \/ (pc = "mark" /\ cur.id = k)
<1>1. CASE pc = "mark" /\ (MarkPublished(cur.id) \/ UNCHANGED offers)
  <2>1. cur.id \in DOMAIN offers
    BY <1>1 DEF PageInv, PageCurrent, InHand, Due
  <2>2. CASE MarkPublished(cur.id)
    BY <1>1, <2>1, <2>2, MarkKeepsRows DEF TypeOK
  <2>3. CASE UNCHANGED offers
    BY <2>3 DEF IsPublished
  <2> QED
    BY <1>1, <2>2, <2>3
<1>2. CASE Collect
  <2>1. PICK batch \in Batches : UpsertMany(batch, now')
    BY <1>2 DEF Collect
  <2>2. batch \in Seq(Quote) /\ now' \in Nat
    BY <1>2, PublisherAssumption DEF Collect, TypeOK
  <2> QED
    BY <2>1, <2>2, UpsertKeepsMarks DEF TypeOK
<1>3. CASE UNCHANGED offers
  BY <1>3 DEF IsPublished
<1>4. \/ pc = "mark" /\ (MarkPublished(cur.id) \/ UNCHANGED offers)
      \/ Collect
      \/ UNCHANGED offers
  BY DEF Next, PassStep, vars, BeginPass, ListUnpublished, ListFails, Pick,
         PageDone, PauseOver, PauseCancelled, SendRequest, SendCancelled,
         SendAccepted, SendRefused, SendGivenUp, MarkSucceeds, MarkFails,
         MarkInDoubt, ReturnPass, Panic, LatePost, Cancel, Stop, Crash,
         Orphaned, Restart
<1> QED
  BY <1>1, <1>2, <1>3, <1>4

\* The offer being sent is still due, hence not marked.
LEMMA HandIsDue ==
  ASSUME PageInv, pc \in HandStates
  PROVE  cur.id \in DOMAIN offers /\ ~ IsPublished(cur.id)
BY DEF PageInv, PageCurrent, HandStates, InHand, Due

\* Offers already published are never published again: the mark is not taken
\* back, and no request is made for an offer that has it.
THEOREM PublishedOnceRecorded == Spec => NeverRepublished
<1>1. TypeOK /\ PageInv /\ [Next]_vars =>
        [\A k \in Keys : IsPublished(k) =>
           /\ IsPublished(k)'
           /\ ~ (pc = "send" /\ pc' = "await" /\ cur.id = k)]_vars
  BY MarksGrow, HandIsDue DEF HandStates
<1> QED
  BY <1>1, TypeCorrect, PageCorrect, PTL DEF Spec, NeverRepublished

\* Second layer.
DeliveryInv == Posted /\ Accounted

\* A step that leaves the channel alone, and neither comes to the recording of
\* an offer nor leaves it, cannot break the accounts.
LEMMA QuietStep ==
  ASSUME TypeOK, PageInv, DeliveryInv, [Next]_vars, UNCHANGED chanVars,
         \/ pc # "mark" /\ pc' # "mark"
         \/ UNCHANGED <<pc, cur>>
  PROVE  DeliveryInv'
<1>1. Posted'
  BY MarksGrow, HandTyped DEF DeliveryInv, Posted, AtLeastOnce, chanVars
<1>2. Accounted'
  <2> USE DEF Accounted
  <2>1. TAKE k \in Keys
  <2>2. posted[k] + wire[k] <=
          excused[k] + IF IsPublished(k) \/ (pc = "mark" /\ cur.id = k) THEN 1 ELSE 0
    BY DEF DeliveryInv
  <2>3. /\ posted[k] \in Nat /\ wire[k] \in Nat /\ excused[k] \in Nat
        /\ posted' = posted /\ wire' = wire /\ excused' = excused
    BY DEF TypeOK, chanVars
  <2>4. IsPublished(k) => IsPublished(k)'
    BY MarksGrow
  <2> QED
    BY <2>2, <2>3, <2>4
<1> QED
  BY <1>1, <1>2 DEF DeliveryInv

\* An accepted message is posted, of an offer that was not marked.
LEMMA AcceptedStep ==
  ASSUME TypeOK, PageInv, DeliveryInv, SendAccepted
  PROVE  DeliveryInv'
<1>1. cur.id \in Keys /\ ~ IsPublished(cur.id)
  BY HandTyped, HandIsDue DEF SendAccepted, HandStates
<1>2. /\ posted' = [posted EXCEPT ![cur.id] = @ + 1]
      /\ UNCHANGED <<offers, cur, wire, excused>>
      /\ pc = "await" /\ pc' = "mark"
  BY DEF SendAccepted
<1>3. \A k \in Keys : IsPublished(k)' <=> IsPublished(k)
  BY <1>2 DEF IsPublished
<1>4. Posted'
  BY <1>1, <1>2, <1>3 DEF DeliveryInv, Posted, AtLeastOnce, TypeOK
<1>5. Accounted'
  <2> USE DEF Accounted
  <2>1. TAKE k \in Keys
  <2>2. posted[k] + wire[k] <= excused[k] + IF IsPublished(k) THEN 1 ELSE 0
    BY <1>2 DEF DeliveryInv
  <2>3. posted[k] \in Nat /\ wire[k] \in Nat /\ excused[k] \in Nat
    BY DEF TypeOK
  <2>4. posted'[k] = IF k = cur.id THEN posted[k] + 1 ELSE posted[k]
    BY <1>2 DEF TypeOK
  <2> QED
    BY <1>1, <1>2, <1>3, <2>2, <2>3, <2>4
<1> QED
  BY <1>4, <1>5 DEF DeliveryInv

\* A request left in doubt may still be posted once: it is on the wire, and
\* excused.
LEMMA InDoubtStep ==
  ASSUME TypeOK, PageInv, DeliveryInv, pc = "await", pc' # "mark",
         UNCHANGED <<offers, posted>>,
         wire' = [wire EXCEPT ![cur.id] = @ + 1],
         excused' = [excused EXCEPT ![cur.id] = @ + 1]
  PROVE  DeliveryInv'
<1>1. \A k \in Keys : IsPublished(k)' <=> IsPublished(k)
  BY DEF IsPublished
<1>2. Posted'
  BY <1>1 DEF DeliveryInv, Posted, AtLeastOnce
<1>3. Accounted'
  <2> USE DEF Accounted
  <2>1. TAKE k \in Keys
  <2>2. posted[k] + wire[k] <= excused[k] + IF IsPublished(k) THEN 1 ELSE 0
    BY DEF DeliveryInv
  <2>3. posted[k] \in Nat /\ wire[k] \in Nat /\ excused[k] \in Nat
    BY DEF TypeOK
  <2>4. /\ wire'[k] = IF k = cur.id THEN wire[k] + 1 ELSE wire[k]
        /\ excused'[k] = IF k = cur.id THEN excused[k] + 1 ELSE excused[k]
    BY DEF TypeOK
  <2> QED
    BY <1>1, <2>2, <2>3, <2>4
<1> QED
  BY <1>2, <1>3 DEF DeliveryInv

\* An accepted offer ends up marked, or excused.
LEMMA RecordStep ==
  ASSUME TypeOK, PageInv, DeliveryInv, pc = "mark", pc' # "mark",
         UNCHANGED <<posted, wire>>,
         \/ MarkPublished(cur.id) /\ UNCHANGED excused
         \/ /\ excused' = [excused EXCEPT ![cur.id] = @ + 1]
            /\ UNCHANGED offers
  PROVE  DeliveryInv'
<1>1. cur.id \in Keys /\ cur.id \in DOMAIN offers
  BY HandTyped, HandIsDue DEF HandStates
<1>2. \A k \in Keys : IsPublished(k)' <=>
        IsPublished(k) \/ (k = cur.id /\ MarkPublished(cur.id))
  <2>1. CASE MarkPublished(cur.id)
    BY <1>1, <2>1, MarkKeepsRows DEF TypeOK
  <2>2. CASE ~ MarkPublished(cur.id)
    BY <2>2 DEF IsPublished
  <2> QED
    BY <2>1, <2>2
<1>3. Posted'
  BY <1>2 DEF DeliveryInv, Posted, AtLeastOnce
<1>4. Accounted'
  <2> USE DEF Accounted
  <2>1. TAKE k \in Keys
  <2>2. posted[k] + wire[k] <=
          excused[k] + IF IsPublished(k) \/ cur.id = k THEN 1 ELSE 0
    BY DEF DeliveryInv
  <2>3. posted[k] \in Nat /\ wire[k] \in Nat /\ excused[k] \in Nat
    BY DEF TypeOK
  <2>4. \/ MarkPublished(cur.id) /\ excused'[k] = excused[k]
        \/ excused'[k] = IF k = cur.id THEN excused[k] + 1 ELSE excused[k]
    BY DEF TypeOK
  <2> QED
    BY <1>2, <2>2, <2>3, <2>4
<1> QED
  BY <1>3, <1>4 DEF DeliveryInv

\* Telegram posts late what was on the wire.
LEMMA LateStep ==
  ASSUME TypeOK, PageInv, DeliveryInv, NEW l \in Keys, LatePost(l)
  PROVE  DeliveryInv'
<1>1. /\ wire[l] > 0
      /\ wire' = [wire EXCEPT ![l] = @ - 1]
      /\ posted' = [posted EXCEPT ![l] = @ + 1]
      /\ UNCHANGED <<offers, pc, cur, excused>>
  BY DEF LatePost, passVars
<1>2. \A k \in Keys : IsPublished(k)' <=> IsPublished(k)
  BY <1>1 DEF IsPublished
<1>3. \A k \in Keys :
        /\ posted[k] \in Nat /\ wire[k] \in Nat /\ excused[k] \in Nat
        /\ posted'[k] = IF k = l THEN posted[k] + 1 ELSE posted[k]
        /\ wire'[k] = IF k = l THEN wire[k] - 1 ELSE wire[k]
  BY <1>1 DEF TypeOK
<1>4. Posted'
  BY <1>1, <1>2, <1>3, HandTyped DEF DeliveryInv, Posted, AtLeastOnce
<1>5. Accounted'
  <2> USE DEF Accounted
  <2>1. TAKE k \in Keys
  <2>2. posted[k] + wire[k] <=
          excused[k] + IF IsPublished(k) \/ (pc = "mark" /\ cur.id = k) THEN 1 ELSE 0
    BY DEF DeliveryInv
  <2> QED
    BY <1>1, <1>2, <1>3, <2>2
<1> QED
  BY <1>4, <1>5 DEF DeliveryInv

\* Marks and messages agree, whatever fails, crashes or comes late.
THEOREM DeliveryCorrect == Spec => []DeliveryInv
<1>1. Init => DeliveryInv
  BY DEF Init, DeliveryInv, Posted, AtLeastOnce, Accounted, IsPublished,
         LegacyRow
<1>2. TypeOK /\ PageInv /\ DeliveryInv /\ [Next]_vars => DeliveryInv'
  <2> SUFFICES ASSUME TypeOK, PageInv, DeliveryInv, [Next]_vars
               PROVE  DeliveryInv'
    OBVIOUS
  <2>1. CASE BeginPass \/ ListUnpublished \/ ListFails
    BY <2>1, QuietStep DEF BeginPass, ListUnpublished, ListFails
  <2>2. CASE Pick \/ PageDone \/ PauseOver \/ PauseCancelled
    BY <2>2, QuietStep DEF Pick, PageDone, PauseOver, PauseCancelled, chanVars
  <2>3. CASE SendRequest \/ SendCancelled \/ SendRefused
    BY <2>3, QuietStep
       DEF SendRequest, SendCancelled, SendRefused, OfferFailed
  <2>4. CASE SendAccepted
    BY <2>4, AcceptedStep
  <2>5. CASE SendGivenUp
    BY <2>5, InDoubtStep DEF SendGivenUp, OfferFailed
  <2>6. CASE MarkSucceeds
    BY <2>6, RecordStep DEF MarkSucceeds, chanVars
  <2>7. CASE MarkFails
    BY <2>7, RecordStep DEF MarkFails, MarkInDoubt, OfferFailed
  <2>8. CASE ReturnPass
    BY <2>8, QuietStep, ForgetPassTyped DEF ReturnPass
  <2>9. CASE Panic
    <3>1. CASE pc = "mark"
      BY <2>9, <3>1, RecordStep, ForgetPassTyped DEF Panic
    <3>2. CASE pc # "mark"
      BY <2>9, <3>2, QuietStep, ForgetPassTyped DEF Panic, chanVars
    <3> QED
      BY <3>1, <3>2
  <2>10. CASE Collect
    BY <2>10, QuietStep DEF Collect, passVars
  <2>11. CASE \E k \in Keys : LatePost(k)
    BY <2>11, LateStep
  <2>12. CASE Cancel \/ Stop \/ Restart
    BY <2>12, QuietStep DEF Cancel, Stop, Restart, passVars
  <2>13. CASE Crash
    <3>1. CASE pc = "await"
      BY <2>13, <3>1, InDoubtStep, ForgetPassTyped DEF Crash, Orphaned
    <3>2. CASE pc = "mark"
      BY <2>13, <3>2, RecordStep, ForgetPassTyped
         DEF Crash, Orphaned, MarkInDoubt
    <3>3. CASE pc \notin {"await", "mark"}
      BY <2>13, <3>3, QuietStep, ForgetPassTyped DEF Crash, Orphaned
    <3> QED
      BY <3>1, <3>2, <3>3
  <2>14. CASE UNCHANGED vars
    BY <2>14, QuietStep DEF vars, passVars
  <2> QED
    BY <2>1, <2>2, <2>3, <2>4, <2>5, <2>6, <2>7, <2>8, <2>9, <2>10, <2>11,
       <2>12, <2>13, <2>14 DEF Next, PassStep
<1> QED
  BY <1>1, <1>2, TypeCorrect, PageCorrect, PTL DEF Spec

\* An offer recorded as published has been posted.
THEOREM DeliveredAtLeastOnce == Spec => []AtLeastOnce
<1>1. DeliveryInv => AtLeastOnce
  BY DEF DeliveryInv, Posted
<1> QED
  BY <1>1, DeliveryCorrect, PTL

\* Every duplicate is excused by an attempt left in doubt.
THEOREM DuplicatesAreExcused == Spec => []DuplicatesExcused
<1>1. TypeOK /\ DeliveryInv => DuplicatesExcused
  <2> SUFFICES ASSUME TypeOK, DeliveryInv, NEW k \in Keys
               PROVE  posted[k] + wire[k] <= excused[k] + 1
    BY DEF DuplicatesExcused
  <2>1. posted[k] \in Nat /\ wire[k] \in Nat /\ excused[k] \in Nat
    BY DEF TypeOK
  <2> QED
    BY <2>1 DEF DeliveryInv, Accounted
<1> QED
  BY <1>1, TypeCorrect, DeliveryCorrect, PTL

-----------------------------------------------------------------------------
(* What a pass that returns no error has done.                             *)

\* Third layer.
PassInv == Settled /\ CleanReturn

\* A listing with nothing fresh, when all attempted offers are published, has
\* found nothing: its page is empty, and an empty page is all there is.
LEMMA EmptyListing ==
  ASSUME TypeOK, PageInv, PassInv, ListUnpublished, err = "nil", pc' = "done"
  PROVE  Due' = {}
<1>1. PICK page \in UnpublishedPages(MaxPrice, BatchSize) :
        /\ fresh' = FreshOffers(page)
        /\ pc' = IF fresh' = {} THEN "done" ELSE "next"
  BY DEF ListUnpublished
<1>2. page \subseteq attempted
  BY <1>1 DEF FreshOffers
<1>3. page \subseteq Due
  BY EligibleIsDue DEF UnpublishedPages, TypeOK
<1>4. \A k \in attempted : IsPublished(k)
  BY DEF PassInv, Settled, HandStates, ListUnpublished
<1>5. page = {}
  BY <1>2, <1>3, <1>4 DEF Due
<1>6. Cardinality(page) # EffectiveLimit(BatchSize)
  BY <1>5, FS_EmptySet, EffectiveLimitPositive, PublisherAssumption
<1>7. Due = {}
  BY <1>5, <1>6, EligibleIsDue DEF UnpublishedPages, TypeOK
<1>8. UNCHANGED offers
  BY DEF ListUnpublished
<1> QED
  BY <1>7, <1>8 DEF Due, IsPublished

\* A step of the pass that keeps the offer in hand, and no error, keeps what
\* the pass has settled.
LEMMA SettledKept ==
  ASSUME TypeOK, PageInv, PassInv, [Next]_vars, pc' # "done",
         UNCHANGED <<attempted, err>>,
         \/ pc \notin HandStates
         \/ pc' \in HandStates /\ UNCHANGED cur
  PROVE  PassInv'
<1>1. \A k \in Keys : IsPublished(k) => IsPublished(k)'
  BY MarksGrow
<1> QED
  BY <1>1 DEF PassInv, Settled, CleanReturn, TypeOK

\* A pass that returns no error leaves nothing to publish.
THEOREM PassCorrect == Spec => []PassInv
<1>1. Init => PassInv
  BY DEF Init, PassInv, Settled, CleanReturn
<1>2. TypeOK /\ PageInv /\ PassInv /\ [Next]_vars => PassInv'
  <2> SUFFICES ASSUME TypeOK, PageInv, PassInv, [Next]_vars
               PROVE  PassInv'
    OBVIOUS
  <2>1. CASE err' # "nil"
    BY <2>1 DEF PassInv, Settled, CleanReturn
  <2>2. CASE BeginPass \/ PageDone
    BY <2>2, SettledKept DEF BeginPass, PageDone, HandStates
  <2>3. CASE ListUnpublished
    <3>1. CASE pc' = "done" /\ err = "nil"
      <4>1. UNCHANGED <<offers, attempted, err>> /\ pc = "list"
        BY <2>3 DEF ListUnpublished
      <4> QED
        BY <2>3, <3>1, <4>1, EmptyListing
           DEF PassInv, Settled, CleanReturn, HandStates, IsPublished
    <3>2. CASE pc' # "done"
      BY <2>3, <3>2, SettledKept DEF ListUnpublished, HandStates
    <3>3. CASE err # "nil"
      BY <2>1, <2>3, <3>3 DEF ListUnpublished
    <3> QED
      BY <3>1, <3>2, <3>3
  <2>4. CASE Pick
    <3>1. PICK c \in fresh : cur' = c /\ attempted' = attempted \cup {c.id}
      BY <2>4 DEF Pick
    <3>2. /\ pc = "next" /\ pc' \in {"pause", "send"}
          /\ UNCHANGED <<offers, err>>
      BY <2>4 DEF Pick
    <3> QED
      BY <3>1, <3>2
         DEF PassInv, Settled, CleanReturn, HandStates, IsPublished
  <2>5. CASE PauseOver \/ SendRequest \/ SendAccepted
    BY <2>5, SettledKept DEF PauseOver, SendRequest, SendAccepted, HandStates
  <2>6. CASE MarkSucceeds
    <3>1. \A k \in Keys : IsPublished(k)' <=> IsPublished(k) \/ k = cur.id
      BY <2>6, HandIsDue, MarkKeepsRows DEF MarkSucceeds, TypeOK, HandStates
    <3>2. /\ pc = "mark" /\ pc' = "next"
          /\ UNCHANGED <<attempted, err>>
      BY <2>6 DEF MarkSucceeds
    <3> QED
      BY <3>1, <3>2 DEF PassInv, Settled, CleanReturn, HandStates, TypeOK
  <2>7. CASE ReturnPass \/ Panic \/ Crash
    BY <2>7, ForgetPassTyped
       DEF ReturnPass, Panic, Crash, PassInv, Settled, CleanReturn
  <2>8. CASE Collect
    BY <2>8, SettledKept DEF Collect, passVars, HandStates
  <2>9. CASE \E k \in Keys : LatePost(k)
    BY <2>9
       DEF LatePost, passVars, PassInv, Settled, CleanReturn, HandStates,
           IsPublished, Due
  <2>10. CASE Cancel \/ Stop \/ Restart \/ UNCHANGED vars
    BY <2>10
       DEF Cancel, Stop, Restart, vars, passVars, PassInv, Settled,
           CleanReturn, HandStates, IsPublished, Due
  <2>11. CASE \/ ListFails \/ PauseCancelled \/ SendCancelled \/ SendRefused
              \/ SendGivenUp \/ MarkFails
    BY <2>1, <2>11
       DEF ListFails, PauseCancelled, SendCancelled, SendRefused, SendGivenUp,
           MarkFails, OfferFailed
  <2> QED
    BY <2>2, <2>3, <2>4, <2>5, <2>6, <2>7, <2>8, <2>9, <2>10, <2>11
       DEF Next, PassStep
<1> QED
  BY <1>1, <1>2, TypeCorrect, PageCorrect, PTL DEF Spec

\* PublishPending returns no error only when nothing is left to publish.
THEOREM ReturnsClean == Spec => []CleanReturn
<1>1. PassInv => CleanReturn
  BY DEF PassInv
<1> QED
  BY <1>1, PassCorrect, PTL

-----------------------------------------------------------------------------
(* What a pass has counted and what it has reached.                        *)

\* Fourth layer: the attempted map is finite and counted, and what a pass ends
\* with is what its last listing left.
CountInv ==
  /\ IsFiniteSet(attempted)
  /\ ResultAccounting
  /\ err = "cancelled" => pc = "done"
  /\ DrainedUnlessBlocked

\* A listing with nothing fresh has all that is due before it, or a full page
\* of what the pass has attempted.
LEMMA LastListing ==
  ASSUME TypeOK, IsFiniteSet(attempted), ListUnpublished, pc' = "done"
  PROVE  DrainedUnlessBlocked'
<1>1. PICK page \in UnpublishedPages(MaxPrice, BatchSize) :
        /\ fresh' = FreshOffers(page)
        /\ pc' = IF fresh' = {} THEN "done" ELSE "next"
  BY DEF ListUnpublished
<1>2. page \subseteq attempted
  BY <1>1 DEF FreshOffers
<1>3. page \subseteq Due
  BY EligibleIsDue DEF UnpublishedPages, TypeOK
<1>4. CASE page = Eligible(MaxPrice)
  <2>1. Due \subseteq attempted
    BY <1>2, <1>4, EligibleIsDue DEF TypeOK
  <2> QED
    BY <2>1 DEF ListUnpublished, DrainedUnlessBlocked, Due, IsPublished
<1>5. CASE Cardinality(page) = EffectiveLimit(BatchSize)
  <2>1. IsFiniteSet(Due \cap attempted)
    BY FS_Subset
  <2>2. Cardinality(page) <= Cardinality(Due \cap attempted)
    BY <1>2, <1>3, <2>1, FS_Subset
  <2>3. EffectiveLimit(BatchSize) \in Nat /\ Cardinality(Due \cap attempted) \in Nat
    BY <2>1, FS_CardinalityType, EffectiveLimitPositive, PublisherAssumption
  <2>4. Cardinality(Due \cap attempted) >= EffectiveLimit(BatchSize)
    BY <1>5, <2>2, <2>3
  <2>5. UNCHANGED <<Due, attempted>>
    BY DEF ListUnpublished, Due, IsPublished
  <2> QED
    BY <2>4, <2>5 DEF DrainedUnlessBlocked
<1> QED
  BY <1>1, <1>4, <1>5 DEF UnpublishedPages

\* A step of the surroundings that leaves pass and table alone.
LEMMA CountKept ==
  ASSUME CountInv, UNCHANGED <<offers, pc, attempted, res, err>>
  PROVE  CountInv'
BY DEF CountInv, ResultAccounting, DrainedUnlessBlocked, Due, IsPublished

\* A pass forgotten has counted nothing.
LEMMA CountForgotten ==
  ASSUME ForgetPass
  PROVE  CountInv'
BY FS_EmptySet
   DEF ForgetPass, NoResult, CountInv, ResultAccounting, DrainedUnlessBlocked

\* A pass counts what it attempts, and reaches all that is due unless blocked.
THEOREM CountCorrect == Spec => []CountInv
<1>1. Init => CountInv
  BY FS_EmptySet
     DEF Init, NoResult, CountInv, ResultAccounting, DrainedUnlessBlocked
<1>2. TypeOK /\ PageInv /\ CountInv /\ [Next]_vars => CountInv'
  <2> SUFFICES ASSUME TypeOK, PageInv, CountInv, [Next]_vars
               PROVE  CountInv'
    OBVIOUS
  <2>0. Cardinality(attempted) \in Nat
    BY FS_CardinalityType DEF CountInv
  <2>1. CASE BeginPass \/ PageDone \/ PauseOver
    BY <2>1
       DEF BeginPass, PageDone, PauseOver, CountInv, ResultAccounting,
           DrainedUnlessBlocked
  <2>2. CASE ListUnpublished
    <3>1. /\ pc = "list" /\ pc' \in {"next", "done"}
          /\ UNCHANGED <<attempted, res, err>>
      BY <2>2 DEF ListUnpublished
    <3>2. DrainedUnlessBlocked'
      <4>1. CASE pc' = "done"
        BY <2>2, <4>1, LastListing DEF CountInv
      <4>2. CASE pc' = "next"
        BY <4>2 DEF DrainedUnlessBlocked
      <4> QED
        BY <3>1, <4>1, <4>2
    <3> QED
      BY <3>1, <3>2 DEF CountInv, ResultAccounting
  <2>3. CASE ListFails \/ PauseCancelled
    BY <2>3
       DEF ListFails, PauseCancelled, CountInv, ResultAccounting,
           DrainedUnlessBlocked
  <2>4. CASE Pick
    <3>1. PICK c \in fresh : attempted' = attempted \cup {c.id}
      BY <2>4 DEF Pick
    <3>2. c.id \notin attempted
      BY <3>1 DEF PageInv, AttemptedOnce
    <3>3. /\ IsFiniteSet(attempted')
          /\ Cardinality(attempted') = Cardinality(attempted) + 1
      BY <3>1, <3>2, FS_AddElement DEF CountInv
    <3>4. /\ pc = "next" /\ pc' \in {"pause", "send"}
          /\ UNCHANGED <<res, err>>
      BY <2>4 DEF Pick
    <3> QED
      BY <2>0, <3>3, <3>4
         DEF CountInv, ResultAccounting, DrainedUnlessBlocked, TypeOK
  <2>5. CASE SendRequest
    BY <2>0, <2>5
       DEF SendRequest, CountInv, ResultAccounting, DrainedUnlessBlocked, TypeOK
  <2>6. CASE SendCancelled
    BY <2>0, <2>6
       DEF SendCancelled, CountInv, ResultAccounting, DrainedUnlessBlocked,
           TypeOK
  <2>7. CASE SendAccepted
    BY <2>0, <2>7
       DEF SendAccepted, CountInv, ResultAccounting, DrainedUnlessBlocked, TypeOK
  <2>8. CASE SendRefused \/ SendGivenUp \/ MarkFails
    <3>1. pc \in {"await", "mark"} /\ OfferFailed
      BY <2>8 DEF SendRefused, SendGivenUp, MarkFails
    <3> QED
      BY <2>0, <3>1
         DEF OfferFailed, CountInv, ResultAccounting, DrainedUnlessBlocked,
             TypeOK
  <2>9. CASE MarkSucceeds
    BY <2>0, <2>9
       DEF MarkSucceeds, CountInv, ResultAccounting, DrainedUnlessBlocked, TypeOK
  <2>10. CASE ReturnPass \/ Panic \/ Crash
    BY <2>10, CountForgotten DEF ReturnPass, Panic, Crash
  <2>11. CASE Collect
    BY <2>11
       DEF Collect, passVars, CountInv, ResultAccounting, DrainedUnlessBlocked
  <2>12. CASE \E k \in Keys : LatePost(k)
    BY <2>12, CountKept DEF LatePost, passVars
  <2>13. CASE Cancel \/ Stop \/ Restart \/ UNCHANGED vars
    BY <2>13, CountKept DEF Cancel, Stop, Restart, vars, passVars
  <2> QED
    BY <2>1, <2>2, <2>3, <2>4, <2>5, <2>6, <2>7, <2>8, <2>9, <2>10, <2>11,
       <2>12, <2>13 DEF Next, PassStep
<1> QED
  BY <1>1, <1>2, TypeCorrect, PageCorrect, PTL DEF Spec

\* Every offer attempted in a pass is counted once in its PublishResult.
THEOREM CountsAreRight == Spec => []ResultAccounting
<1>1. CountInv => ResultAccounting
  BY DEF CountInv
<1> QED
  BY <1>1, CountCorrect, PTL

\* A pass reaches all that is due, unless a page of failures blocks it.
THEOREM DrainsUnlessBlocked == Spec => []DrainedUnlessBlocked
<1>1. CountInv => DrainedUnlessBlocked
  BY DEF CountInv
<1> QED
  BY <1>1, CountCorrect, PTL

-----------------------------------------------------------------------------
(* The pass implements at-least-once delivery: the state of Delivery that a *)
(* state of Publisher stands for, and the steps.                            *)

Recorded == {k \in Keys : IsPublished(k)}
Asked ==
  [k \in Keys |-> wire[k] + IF pc = "await" /\ cur.id = k THEN 1 ELSE 0]

\* A step that changes no offer, no message and no request outstanding.
LEMMA StutterStep ==
  ASSUME UNCHANGED <<offers, posted, wire>>,
         \/ pc # "await" /\ pc' # "await"
         \/ UNCHANGED <<pc, cur>>
  PROVE  UNCHANGED D!vars
<1>1. UNCHANGED <<Asked, Recorded>>
  BY DEF Asked, Recorded, IsPublished
<1> QED
  BY <1>1 DEF D!vars, Asked, Recorded

\* A request given up, by the client or by its death, stays outstanding.
LEMMA GivenUpStep ==
  ASSUME TypeOK, pc = "await", pc' # "await", UNCHANGED <<offers, posted>>,
         wire' = [wire EXCEPT ![cur.id] = @ + 1]
  PROVE  UNCHANGED D!vars
<1>1. \A k \in Keys :
        wire'[k] = wire[k] + IF cur.id = k THEN 1 ELSE 0
  BY DEF TypeOK
<1>2. UNCHANGED <<Asked, Recorded>>
  BY <1>1 DEF Asked, Recorded, IsPublished, TypeOK
<1> QED
  BY <1>2 DEF D!vars, Asked, Recorded

\* Writing the mark, or failing to, is a Record or nothing.
LEMMA RecordOrStutter ==
  ASSUME TypeOK, PageInv, DeliveryInv, pc = "mark", pc' # "await",
         UNCHANGED <<posted, wire>>,
         MarkPublished(cur.id) \/ UNCHANGED offers
  PROVE  D!Next \/ UNCHANGED D!vars
<1>1. CASE UNCHANGED offers
  BY <1>1, StutterStep
<1>2. CASE MarkPublished(cur.id)
  <2>1. cur.id \in Keys /\ cur.id \in DOMAIN offers /\ posted[cur.id] > 0
    BY HandTyped, HandIsDue DEF HandStates, DeliveryInv, Posted, TypeOK
  <2>2. DOMAIN offers' = DOMAIN offers
    BY <1>2, <2>1, MarkKeepsRows DEF TypeOK
  <2>3. Recorded' = Recorded \cup {cur.id}
    BY <1>2, <2>1, MarkKeepsRows DEF Recorded, TypeOK
  <2>4. UNCHANGED Asked
    BY DEF Asked
  <2>5. D!Record(cur.id)
    BY <2>1, <2>2, <2>3, <2>4 DEF D!Record, Asked, Recorded
  <2> QED
    BY <2>1, <2>5 DEF D!Next
<1> QED
  BY <1>1, <1>2

\* Making a request is an Ask for an offer not recorded.
LEMMA RequestIsAsk ==
  ASSUME TypeOK, PageInv, SendRequest
  PROVE  D!Next
<1>1. cur.id \in Keys /\ cur.id \in DOMAIN offers \ Recorded
  BY HandTyped, HandIsDue DEF SendRequest, HandStates, Recorded
<1>2. /\ pc = "send" /\ pc' = "await"
      /\ UNCHANGED <<offers, cur, posted, wire>>
  BY DEF SendRequest, chanVars
<1>3. Asked' = [Asked EXCEPT ![cur.id] = @ + 1] /\ UNCHANGED Recorded
  BY <1>1, <1>2 DEF Asked, Recorded, IsPublished, TypeOK
<1>4. PICK k \in Keys : k = cur.id
  BY <1>1
<1>5. D!Ask(k)
  BY <1>1, <1>2, <1>3, <1>4 DEF D!Ask, Asked, Recorded
<1> QED
  BY <1>5 DEF D!Next

\* The answers of Telegram are a Post and a Refuse of what was asked.
LEMMA AnswerIsPostOrRefuse ==
  ASSUME TypeOK, SendAccepted \/ SendRefused
  PROVE  D!Next
<1>1. pc = "await" /\ pc' # "await" /\ UNCHANGED <<offers, wire>>
  BY DEF SendAccepted, SendRefused, OfferFailed, chanVars
<1>2. PICK k \in Keys : k = cur.id
  BY <1>1, HandTyped
<1>3. /\ Asked[k] > 0
      /\ Asked' = [Asked EXCEPT ![k] = @ - 1]
      /\ UNCHANGED Recorded
  BY <1>1, <1>2 DEF Asked, Recorded, IsPublished, TypeOK
<1>4. CASE SendAccepted
  <2>1. D!Post(k)
    BY <1>1, <1>2, <1>3, <1>4 DEF SendAccepted, D!Post, Asked, Recorded
  <2> QED
    BY <2>1 DEF D!Next
<1>5. CASE SendRefused
  <2>1. D!Refuse(k)
    BY <1>1, <1>3, <1>5 DEF SendRefused, chanVars, D!Refuse, Asked, Recorded
  <2> QED
    BY <2>1 DEF D!Next
<1> QED
  BY <1>4, <1>5

\* A request posted late is a Post of what was asked.
LEMMA LatePostIsPost ==
  ASSUME TypeOK, NEW k \in Keys, LatePost(k)
  PROVE  D!Next
<1>1. /\ wire[k] > 0
      /\ wire' = [wire EXCEPT ![k] = @ - 1]
      /\ posted' = [posted EXCEPT ![k] = @ + 1]
      /\ UNCHANGED <<offers, pc, cur>>
  BY DEF LatePost, passVars
<1>2. Asked[k] > 0 /\ UNCHANGED Recorded
  BY <1>1 DEF Asked, Recorded, IsPublished, TypeOK
<1>3. Asked' = [Asked EXCEPT ![k] = @ - 1]
  <2>1. ASSUME NEW l \in Keys
        PROVE  Asked'[l] = [Asked EXCEPT ![k] = @ - 1][l]
    BY <1>1 DEF Asked, TypeOK
  <2> QED
    BY <2>1 DEF Asked
<1>4. D!Post(k)
  BY <1>1, <1>2, <1>3 DEF D!Post, Asked, Recorded
<1> QED
  BY <1>4 DEF D!Next

\* A collection teaches offers and changes no mark.
LEMMA CollectIsLearn ==
  ASSUME TypeOK, Collect
  PROVE  D!Next
<1>1. PICK batch \in Batches : UpsertMany(batch, now')
  BY DEF Collect
<1>2. batch \in Seq(Quote) /\ now' \in Nat
  BY PublisherAssumption DEF Collect, TypeOK
<1>3. /\ DOMAIN offers' \subseteq Keys
      /\ \A k \in Keys : IsPublished(k)' <=> IsPublished(k)
  BY <1>1, <1>2, UpsertKeepsMarks DEF TypeOK
<1>4. DOMAIN offers' = DOMAIN offers \cup BatchKeys(batch)
  BY <1>1 DEF UpsertMany
<1>5. BatchKeys(batch) \in SUBSET Keys
  BY <1>3, <1>4
<1>6. UNCHANGED <<Asked, Recorded, posted>>
  BY <1>3 DEF Collect, passVars, chanVars, Asked, Recorded
<1>7. D!Learn
  BY <1>4, <1>5, <1>6 DEF D!Learn, Asked, Recorded
<1> QED
  BY <1>7 DEF D!Next

\* Every step of the publisher, of its failures and of its surroundings is a
\* step of the abstract delivery or no step of it.
THEOREM PublisherImplementsDelivery == Spec => ImplementsDelivery
<1>1. Init => D!Init
  <2> SUFFICES ASSUME Init
               PROVE  D!Init
    OBVIOUS
  <2>1. DOMAIN offers \in SUBSET Keys /\ \A k \in Keys : ~ IsPublished(k)
    BY DEF Init, LegacyRow, IsPublished
  <2> QED
    BY <2>1 DEF Init, D!Init
<1>2. TypeOK /\ PageInv /\ DeliveryInv /\ [Next]_vars => [D!Next]_(D!vars)
  <2> SUFFICES ASSUME TypeOK, PageInv, DeliveryInv, [Next]_vars
               PROVE  D!Next \/ UNCHANGED D!vars
    OBVIOUS
  <2>1. CASE BeginPass \/ ListUnpublished \/ ListFails
    BY <2>1, StutterStep DEF BeginPass, ListUnpublished, ListFails, chanVars
  <2>2. CASE Pick \/ PageDone \/ PauseOver \/ PauseCancelled \/ SendCancelled
    BY <2>2, StutterStep
       DEF Pick, PageDone, PauseOver, PauseCancelled, SendCancelled, chanVars
  <2>3. CASE SendRequest
    BY <2>3, RequestIsAsk
  <2>4. CASE SendAccepted \/ SendRefused
    BY <2>4, AnswerIsPostOrRefuse
  <2>5. CASE SendGivenUp
    BY <2>5, GivenUpStep DEF SendGivenUp, OfferFailed
  <2>6. CASE MarkSucceeds \/ MarkFails
    BY <2>6, RecordOrStutter
       DEF MarkSucceeds, MarkFails, MarkInDoubt, OfferFailed, chanVars
  <2>7. CASE ReturnPass \/ Panic
    BY <2>7, StutterStep, ForgetPassTyped DEF ReturnPass, Panic, chanVars
  <2>8. CASE Collect
    BY <2>8, CollectIsLearn
  <2>9. CASE \E k \in Keys : LatePost(k)
    BY <2>9, LatePostIsPost
  <2>10. CASE Cancel \/ Stop \/ Restart
    BY <2>10, StutterStep DEF Cancel, Stop, Restart, passVars, chanVars
  <2>11. CASE Crash
    <3>1. CASE pc = "await"
      BY <2>11, <3>1, GivenUpStep, ForgetPassTyped DEF Crash, Orphaned
    <3>2. CASE pc = "mark"
      BY <2>11, <3>2, RecordOrStutter, ForgetPassTyped
         DEF Crash, Orphaned, MarkInDoubt
    <3>3. CASE pc \notin {"await", "mark"}
      BY <2>11, <3>3, StutterStep, ForgetPassTyped
         DEF Crash, Orphaned, chanVars
    <3> QED
      BY <3>1, <3>2, <3>3
  <2>12. CASE UNCHANGED vars
    BY <2>12, StutterStep DEF vars, passVars, chanVars
  <2> QED
    BY <2>1, <2>2, <2>3, <2>4, <2>5, <2>6, <2>7, <2>8, <2>9, <2>10, <2>11,
       <2>12 DEF Next, PassStep
<1> QED
  BY <1>1, <1>2, TypeCorrect, PageCorrect, DeliveryCorrect, PTL
     DEF Spec, ImplementsDelivery, D!Spec

=============================================================================
