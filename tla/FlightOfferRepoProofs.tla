----------------------- MODULE FlightOfferRepoProofs -----------------------
(***************************************************************************)
(* Facts about the statements of module FlightOfferRepo, for every table   *)
(* and every value of the constants; the proofs of the components that run *)
(* the statements rest on them.                                            *)
(***************************************************************************)
EXTENDS FlightOfferRepo, FiniteSetTheorems, WellFoundedInduction, TLAPS

-----------------------------------------------------------------------------
(* Upserts and marks.                                                      *)

\* The limit a query uses is positive, whatever WORKER_PUBLISH_BATCH is.
LEMMA EffectiveLimitPositive ==
  ASSUME NEW n \in Int
  PROVE  EffectiveLimit(n) \in Nat \ {0}
BY RepoAssumption DEF EffectiveLimit

\* A nonempty set of positions has a last one: of the intervals from one of
\* them to the end, the smallest starts there.
LEMMA LastPosition ==
  ASSUME NEW n \in Nat, NEW S \in SUBSET (1..n), S # {}
  PROVE  \E i \in S : \A j \in S : j <= i
<1> DEFINE T == {i..n : i \in S}
<1>1. IsWellFoundedOn(StrictSubsetOrdering(1..n), FiniteSubsetsOf(1..n))
  BY FS_StrictSubsetOrderingWellFounded
<1>2. T \subseteq FiniteSubsetsOf(1..n)
  BY FS_Interval, FS_Subset DEF FiniteSubsetsOf
<1>3. T # {}
  OBVIOUS
<1>4. PICK x \in T : \A y \in T : ~ (<<y, x>> \in StrictSubsetOrdering(1..n))
  BY <1>1, <1>2, <1>3, WFMin
<1>5. PICK i \in S : x = i..n
  OBVIOUS
<1>6. ASSUME NEW j \in S, i < j
      PROVE  FALSE
  <2>1. j..n \in T
    OBVIOUS
  <2>2. j..n \subseteq i..n /\ j..n # i..n
    BY <1>6
  <2>3. <<j..n, i..n>> \in StrictSubsetOrdering(1..n)
    BY <2>2 DEF StrictSubsetOrdering
  <2> QED
    BY <1>4, <1>5, <2>1, <2>3
<1> QED
  BY <1>6

\* Every key of a batch has a statement that runs last.
LEMMA SurvivingExists ==
  ASSUME NEW batch \in Seq(Quote), NEW k \in BatchKeys(batch)
  PROVE  /\ Surviving(batch, k) \in DOMAIN batch
         /\ batch[Surviving(batch, k)] \in Quote
<1> DEFINE S == {i \in DOMAIN batch : batch[i].key = k}
<1>1. Len(batch) \in Nat /\ S \in SUBSET (1..Len(batch)) /\ S # {}
  BY DEF BatchKeys
<1>2. \E i \in S : \A j \in S : j <= i
  BY <1>1, LastPosition
<1>3. \E i \in DOMAIN batch :
        /\ batch[i].key = k
        /\ \A j \in DOMAIN batch : batch[j].key = k => j <= i
  BY <1>2
<1>4. Surviving(batch, k) \in DOMAIN batch
  BY <1>3 DEF Surviving
<1> QED
  BY <1>4

\* An upsert leaves a table, keeps every mark and sets none.
LEMMA UpsertKeepsMarks ==
  ASSUME NEW batch \in Seq(Quote), NEW at \in Nat, UpsertMany(batch, at),
         DOMAIN offers \subseteq Keys, offers \in [DOMAIN offers -> Row]
  PROVE  /\ DOMAIN offers' \subseteq Keys
         /\ offers' \in [DOMAIN offers' -> Row]
         /\ \A k \in Keys : IsPublished(k)' <=> IsPublished(k)
<1>0. \A i \in DOMAIN batch : batch[i] \in Quote
  OBVIOUS
<1>1. BatchKeys(batch) \subseteq Keys
  BY <1>0 DEF BatchKeys, Quote
<1>2. \A k \in BatchKeys(batch) : batch[Surviving(batch, k)].price \in Prices
  BY SurvivingExists DEF Quote
<1>3. \A k : PublishedAfterUpsert(k) \in {"null", "false", "true"}
  BY DEF PublishedAfterUpsert, Row
<1>4. DOMAIN offers' = DOMAIN offers \cup BatchKeys(batch)
  BY DEF UpsertMany
<1>5. \A k \in DOMAIN offers' :
        offers'[k] = IF k \in BatchKeys(batch)
                     THEN [price       |-> batch[Surviving(batch, k)].price,
                           collectedAt |-> at,
                           published   |-> PublishedAfterUpsert(k)]
                     ELSE offers[k]
  BY DEF UpsertMany
<1>6. \A k \in DOMAIN offers' : offers'[k] \in Row
  <2>1. TAKE k \in DOMAIN offers'
  <2>2. CASE k \in BatchKeys(batch)
    BY <1>2, <1>3, <1>5, <2>2 DEF Row
  <2>3. CASE k \notin BatchKeys(batch)
    BY <1>4, <1>5, <2>3
  <2> QED
    BY <2>2, <2>3
<1>7. offers' = [k \in DOMAIN offers' |-> offers'[k]]
  BY <1>4 DEF UpsertMany
<1>8. \A k \in Keys : IsPublished(k)' <=> IsPublished(k)
  <2>1. TAKE k \in Keys
  <2>2. CASE k \in BatchKeys(batch)
    <3>0. k \in DOMAIN offers'
      BY <1>4, <2>2
    <3>1. offers'[k].published = PublishedAfterUpsert(k)
      <4>1. offers'[k] = [price       |-> batch[Surviving(batch, k)].price,
                          collectedAt |-> at,
                          published   |-> PublishedAfterUpsert(k)]
        BY <1>5, <2>2, <3>0
      <4> QED
        BY <4>1
    <3>2. PublishedAfterUpsert(k) = "true" <=> IsPublished(k)
      BY DEF PublishedAfterUpsert, IsPublished
    <3> QED
      BY <3>0, <3>1, <3>2 DEF IsPublished
  <2>3. CASE k \notin BatchKeys(batch)
    BY <1>4, <1>5, <2>3 DEF IsPublished
  <2> QED
    BY <2>2, <2>3
<1> QED
  BY <1>1, <1>4, <1>6, <1>7, <1>8

\* Recording an offer touches its mark and nothing else.
LEMMA MarkKeepsRows ==
  ASSUME NEW k \in DOMAIN offers, MarkPublished(k),
         offers \in [DOMAIN offers -> Row]
  PROVE  /\ DOMAIN offers' = DOMAIN offers
         /\ offers' \in [DOMAIN offers' -> Row]
         /\ \A l \in Keys : IsPublished(l)' <=> IsPublished(l) \/ l = k
         /\ \A l \in DOMAIN offers : l # k => offers'[l] = offers[l]
BY DEF MarkPublished, IsPublished, Row

\* A batch is finite, and so are its keys.
LEMMA BatchKeysFinite ==
  ASSUME NEW batch \in Seq(Quote)
  PROVE  IsFiniteSet(BatchKeys(batch))
<1> DEFINE key == [i \in DOMAIN batch |-> batch[i].key]
<1>1. DOMAIN batch = 1..Len(batch) /\ Len(batch) \in Nat
  OBVIOUS
<1>2. key \in Surjection(DOMAIN batch, BatchKeys(batch))
  BY DEF Surjection, BatchKeys
<1> QED
  BY <1>1, <1>2, FS_Interval, FS_Surjection

-----------------------------------------------------------------------------
(* Pages.                                                                  *)

\* What GET /api/offers may show of a table: all that matches, or as much as
\* the limit allows and then nothing that departs before what it leaves out.
LEMMA ListedPageComplete ==
  ASSUME IsFiniteSet(DOMAIN offers),
         \A k \in DOMAIN offers : k.date \in Nat,
         NEW origin, NEW destination, NEW limit \in Int,
         NEW page \in ListedPages(origin, destination, limit)
  PROVE  /\ page \subseteq DOMAIN offers
         /\ Cardinality(page) <= EffectiveLimit(limit)
         /\ \/ page = Matching(origin, destination)
            \/ /\ Cardinality(page) = EffectiveLimit(limit)
               /\ \A k \in Matching(origin, destination) \ page, l \in page :
                    k.date >= l.date
<1>1. Matching(origin, destination) \subseteq DOMAIN offers
  BY DEF Matching
<1>2. page \subseteq DOMAIN offers
  BY <1>1 DEF ListedPages
<1>3. Cardinality(page) \in Nat
  BY <1>2, FS_Subset, FS_CardinalityType
<1>4. EffectiveLimit(limit) \in Nat
  BY EffectiveLimitPositive
<1>5. \/ Cardinality(page) = EffectiveLimit(limit)
      \/ /\ page = Matching(origin, destination)
         /\ Cardinality(page) < EffectiveLimit(limit)
  BY DEF ListedPages
<1>6. ASSUME NEW k \in Matching(origin, destination) \ page, NEW l \in page
      PROVE  k.date >= l.date
  <2>1. ~ Sooner(k, l)
    BY DEF ListedPages
  <2>2. k.date \in Nat /\ l.date \in Nat
    BY <1>1, <1>2
  <2> QED
    BY <2>1, <2>2 DEF Sooner
<1> QED
  BY <1>2, <1>3, <1>4, <1>5, <1>6

=============================================================================
