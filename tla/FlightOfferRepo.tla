-------------------------- MODULE FlightOfferRepo --------------------------
(***************************************************************************)
(* The flight_offers table and the statements that                         *)
(* internal/repository/postgres/flight_offer_repo.go runs on it.           *)
(*                                                                         *)
(* A key is one value of the unique index (origin, destination,            *)
(* departure_date, one_way).  Rows are never deleted, so the key also      *)
(* stands for the bigserial id of its row.                                 *)
(***************************************************************************)
EXTENDS Integers, FiniteSets, Sequences

CONSTANTS
  Keys,              \* values of the unique index
  Prices,            \* prices the provider may quote
  DefaultOfferLimit, \* defaultOfferLimit: page size used when none is asked for
  MaxOfferLimit      \* maxOfferLimit: largest page

ASSUME RepoAssumption ==
  /\ Prices \subseteq Nat
  /\ DefaultOfferLimit \in Nat \ {0}
  /\ MaxOfferLimit \in Nat \ {0}

VARIABLE offers      \* the stored rows: a function from the stored keys

-----------------------------------------------------------------------------
\* "null" is a row written before migration 3 added the nullable column.
Row == [price : Prices, collectedAt : Nat, published : {"null", "false", "true"}]

\* What the collector hands over: domain.FlightOffer cut down to key and price.
Quote == [key : Keys, price : Prices]

\* A table left behind by a release without the published column.
LegacyRow == [price : Prices, collectedAt : {0}, published : {"null"}]

IsPublished(k) == k \in DOMAIN offers /\ offers[k].published = "true"

-----------------------------------------------------------------------------
\* Fault variant: the upsert overwrites published too.
PublishedOverwritten(k) == "false"

(* INSERT ... ON CONFLICT DO UPDATE: published is only set by the insert.   *)
PublishedAfterUpsert(k) ==
  IF k \in DOMAIN offers THEN offers[k].published ELSE "false"

BatchKeys(batch) == {batch[i].key : i \in DOMAIN batch}

\* Fault variant: ON CONFLICT DO NOTHING, the first statement on a key stays.
SurvivingFirst(batch, k) ==
  CHOOSE i \in DOMAIN batch :
    /\ batch[i].key = k
    /\ \A j \in DOMAIN batch : batch[j].key = k => i <= j

\* The statements of a batch run in order: the last one on a key stays.
Surviving(batch, k) ==
  CHOOSE i \in DOMAIN batch :
    /\ batch[i].key = k
    /\ \A j \in DOMAIN batch : batch[j].key = k => j <= i

\* Fault variant: a collection replaces what the one before it stored.
UpsertReplacing(batch, at) ==
  offers' = [k \in BatchKeys(batch) |->
               [price       |-> batch[Surviving(batch, k)].price,
                collectedAt |-> at,
                published   |-> PublishedAfterUpsert(k)]]

\* One pgx batch is one implicit transaction; all its offers carry the same
\* collected_at.
UpsertMany(batch, at) ==
  offers' = [k \in DOMAIN offers \cup BatchKeys(batch) |->
               IF k \in BatchKeys(batch)
               THEN [price       |-> batch[Surviving(batch, k)].price,
                     collectedAt |-> at,
                     published   |-> PublishedAfterUpsert(k)]
               ELSE offers[k]]

-----------------------------------------------------------------------------
\* The limit a query really uses.
EffectiveLimit(limit) ==
  LET asked == IF limit <= 0 THEN DefaultOfferLimit ELSE limit
  IN  IF asked > MaxOfferLimit THEN MaxOfferLimit ELSE asked

\* Fault variant: the query forgets the published column.
EligibleAny(maxPrice) ==
  {k \in DOMAIN offers : maxPrice <= 0 \/ offers[k].price <= maxPrice}

\* Fault variant: published = false, which no NULL satisfies.
EligibleNotNull(maxPrice) ==
  {k \in EligibleAny(maxPrice) : offers[k].published = "false"}

\* WHERE published IS NOT TRUE AND ($1 = 0 OR price <= $1)
Eligible(maxPrice) ==
  {k \in DOMAIN offers :
     /\ offers[k].published # "true"
     /\ maxPrice <= 0 \/ offers[k].price <= maxPrice}

\* ORDER BY collected_at, price; rows equal in both come in any order.
Older(a, b) ==
  \/ a.collectedAt < b.collectedAt
  \/ a.collectedAt = b.collectedAt /\ a.price < b.price

\* The key sets LIMIT $2 may cut out of the eligible rows.
UnpublishedPages(maxPrice, limit) ==
  {page \in SUBSET Eligible(maxPrice) :
     /\ \/ page = Eligible(maxPrice)
        \/ Cardinality(page) = EffectiveLimit(limit)
     /\ Cardinality(page) <= EffectiveLimit(limit)
     /\ \A k \in page, l \in Eligible(maxPrice) \ page :
          ~ Older(offers[l], offers[k])}

\* An offer as ListUnpublished returns it: a copy of its row.
Copy(k) == [id |-> k, price |-> offers[k].price,
            collectedAt |-> offers[k].collectedAt]

OfferCopy == [id : Keys, price : Prices, collectedAt : Nat]

\* WHERE ($1 = '' OR origin = $1) AND ($2 = '' OR destination = $2)
Matching(origin, destination) ==
  {k \in DOMAIN offers : /\ origin \in {"", k.origin}
                         /\ destination \in {"", k.destination}}

\* ORDER BY departure_date, price
Sooner(k, l) ==
  \/ k.date < l.date
  \/ k.date = l.date /\ offers[k].price < offers[l].price

\* The key sets List may return: LIMIT $3 of the rows that match.
ListedPages(origin, destination, limit) ==
  LET rows == Matching(origin, destination)
      size == EffectiveLimit(limit)
  IN  {page \in SUBSET rows :
         /\ \/ Cardinality(page) = size
            \/ page = rows /\ Cardinality(page) < size
         /\ \A k \in page, l \in rows \ page : ~ Sooner(l, k)}

\* UPDATE flight_offers SET published = true WHERE id = $1
MarkPublished(k) == offers' = [offers EXCEPT ![k].published = "true"]

=============================================================================
