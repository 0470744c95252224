------------------------------ MODULE DataFlow ------------------------------
(***************************************************************************)
(* What becomes of the values the program is given.  The environment is    *)
(* loaded into settings, which decide what runs and what the channel is    *)
(* told at the start; an answer of the prices API becomes a row, and the   *)
(* row a message of the channel and an answer of GET /api/offers.          *)
(*                                                                         *)
(* Each step is one conversion after the other of one value.  Who calls    *)
(* when, and what fails, is in Publisher, Collector, HttpApi, Lifecycle.   *)
(***************************************************************************)
EXTENDS Config, Formatting

CONSTANTS
  Environments, \* what the service may be started with
  Answers,      \* what the prices API may answer: a currency and one entry
  Zones         \* the offset of the server's time zone, in hours

\* What a parser makes of a text, <<>> where there is none or it is refused.
IsReading(r) == r = <<>> \/ r = <<r[1]>>

\* A time as the API writes it is a wall clock and its offset, in hours.  A bare
\* date is midnight in UTC.
IsTime(r) ==
  IsReading(r) /\ (r # <<>> => r[1].wall \in Nat /\ r[1].offset \in Int)

\* A link is its parts: "base" is the site's address, "other" another site's,
\* and neither stands but at the beginning.
IsLink(link) ==
  link \in Seq(STRING) /\ \A j \in 2..Len(link) : link[j] \notin {"base", "other"}

ASSUME DataFlowAssumption ==
  /\ Zones \subseteq Int
  /\ \A e \in Environments :
       /\ DOMAIN e \subseteq Variables
       /\ \A v \in DOMAIN e :
            /\ IsReading(e[v])
            /\ v \in DOMAIN Durations /\ e[v] # <<>> => e[v][1] \in Int
            /\ v \in DOMAIN Ints /\ e[v] # <<>> => e[v][1] \in Int64
            /\ v \in DOMAIN Bools /\ e[v] # <<>> => e[v][1] \in BOOLEAN
            /\ v \in DOMAIN Lists /\ e[v] # <<>> => e[v][1] \in Seq(DOMAIN Upper)
  /\ \A a \in Answers :
       /\ IsTime(a.departureAt) /\ IsTime(a.returnAt) /\ IsLink(a.link)
       /\ a.price \in Int64

VARIABLES
  up,       \* "off", "exited" on what it was given, "up"
  env,      \* the environment it was started with, none while it is off
  zone,     \* the server's time zone
  settings, \* per variable of the environment, its setting
  timeouts, \* of the clients
  intro,    \* the announcement the channel was sent, <<>> for none
  note,     \* "sent" once it was sent what a client of POST /api/notify wrote
  heard,    \* the last answer that had an offer, <<>> before
  row,      \* the row it left, <<>> before
  message,  \* the row's message, <<>> before
  dto       \* the row in an answer to GET /api/offers, <<>> before

shownVars == <<message, dto>>
startVars == <<up, env, zone, settings, timeouts, intro>>
vars == <<startVars, note, heard, row, shownVars>>

-----------------------------------------------------------------------------
(* Times and links.                                                        *)

DayLength == 24

\* parseTime
ParseTime(text) == [instant |-> text.wall - text.offset, offset |-> text.offset]

\* Format("2006-01-02") and Format("02.01.2006"), the layout aside.
Day(t) == (t.instant + t.offset) \div DayLength

\* A timestamptz is an instant, and is read in the server's zone.
ReadBack(instant) == [instant |-> instant, offset |-> zone]

IsAbsolute(link) == link # <<>> /\ link[1] \in {"base", "other"}

AbsoluteLink(link) ==
  IF link = <<>> \/ IsAbsolute(link) THEN link ELSE <<"base">> \o link

\* Fault variant: links are completed whether they need it or not.
FullLinkAlways(link) == <<"base">> \o link

FullLink(link) ==
  IF link = <<>> \/ IsAbsolute(link) THEN link ELSE <<"base">> \o link

-----------------------------------------------------------------------------
(* From the environment to what runs.                                      *)

\* Fault variant: a timeout below zero, with which a client waits for ever,
\* is taken as it is.
ClientTimeoutUnlessZero(d, default) == IF d = 0 THEN default ELSE d

\* NewClient, of both clients.
ClientTimeout(d, default) == IF d <= 0 THEN default ELSE d

\* Fault variant: a bot without a channel is enabled.
TelegramEnabledByToken(s) ==
  s.TELEGRAM_ENABLED /\ s.TELEGRAM_BOT_TOKEN # ""

TelegramEnabled(s) ==
  s.TELEGRAM_ENABLED /\ s.TELEGRAM_BOT_TOKEN # "" /\ s.TELEGRAM_CHANNEL_ID # ""

WorkerEnabled(s) == s.WORKER_ENABLED /\ s.AVIASALES_TOKEN # ""

FormatAnnounceMessage(s) ==
  [direct   |-> s.WORKER_DIRECT,
   limit    |-> IF s.WORKER_MAX_PRICE > 0
                THEN <<FormatPrice(s.WORKER_MAX_PRICE, "RUB")>> ELSE <<>>,
   from     |-> JoinNames(s.WORKER_ORIGINS),
   to       |-> JoinNames(s.WORKER_DESTINATIONS),
   interval |-> HumanizeInterval(s.WORKER_INTERVAL)]

Init ==
  /\ up = "off"
  /\ env = [v \in {} |-> <<>>]
  /\ zone \in Zones
  /\ settings = Defaults
  /\ timeouts = [telegram |-> 0, prices |-> 0]
  /\ intro = <<>> /\ note = "none"
  /\ heard = <<>> /\ row = <<>>
  /\ message = <<>> /\ dto = <<>>

\* The pool is not created with less than one connection.
StartFails ==
  /\ up = "off"
  /\ \E e \in Environments :
       /\ IF Refused(e) THEN TRUE ELSE Load(e).POSTGRES_MAX_CONNS < 1
       /\ env' = e
  /\ up' = "exited"
  /\ UNCHANGED <<zone, settings, timeouts, intro, note, heard, row, shownVars>>

\* The announcement may fail, which is only logged.
Start ==
  /\ up = "off"
  /\ \E e \in Environments :
       LET s == Load(e) IN
       /\ ~ Refused(e)
       /\ s.POSTGRES_MAX_CONNS >= 1
       /\ env' = e
       /\ settings' = s
       /\ timeouts' = [telegram |-> ClientTimeout(s.TELEGRAM_HTTP_TIMEOUT, 10000),
                       prices   |-> ClientTimeout(s.AVIASALES_HTTP_TIMEOUT, 30000)]
       /\ \/ intro' = <<>>
          \/ /\ WorkerEnabled(s) /\ TelegramEnabled(s)
             /\ intro' = <<FormatAnnounceMessage(s)>>
  /\ up' = "up"
  /\ UNCHANGED <<zone, note, heard, row, shownVars>>

\* The process ends; the table stays.
Stop ==
  /\ up # "off"
  /\ up' = "off"
  /\ env' = [v \in {} |-> <<>>]
  /\ settings' = Defaults
  /\ timeouts' = [telegram |-> 0, prices |-> 0]
  /\ intro' = <<>> /\ note' = "none"
  /\ message' = <<>> /\ dto' = <<>>
  /\ UNCHANGED <<zone, heard, row>>

-----------------------------------------------------------------------------
(* From the prices API to the channel and the HTTP client.                 *)

\* Fault variant: the date is that of the departure in UTC.
DepartureDateInUTC(t) == t.instant \div DayLength

DepartureDate(t) == Day(t)

\* transform and the columns of its offer, which has a departure.
Transform(a) ==
  LET departure == ParseTime(a.departureAt[1]) IN
  [departureAt   |-> departure.instant,
   departureDate |-> DepartureDate(departure),
   returnAt      |-> [i \in DOMAIN a.returnAt |-> ParseTime(a.returnAt[i]).instant],
   price         |-> a.price,
   currency      |-> Upper[IF a.currency = "" THEN settings.AVIASALES_CURRENCY
                           ELSE a.currency],
   origin        |-> a.origin,
   destination   |-> a.destination,
   transfers     |-> a.transfers,
   link          |-> AbsoluteLink(a.link),
   oneWay        |-> settings.WORKER_ONE_WAY]

\* A pass of the collector.  Of an offer whose departure cannot be read nothing
\* is left; another overwrites the row.
Collect ==
  /\ up = "up"
  /\ WorkerEnabled(settings)
  /\ \E a \in Answers :
       /\ a.departureAt # <<>>
       /\ heard' = <<a>>
       /\ row' = <<Transform(a)>>
  /\ message' = <<>> /\ dto' = <<>>
  /\ UNCHANGED <<startVars, note>>

FormatOfferMessage(o) ==
  [from   |-> AirportName(o.origin),
   to     |-> AirportName(o.destination),
   price  |-> FormatPrice(o.price, o.currency),
   oneWay |-> o.oneWay,
   date   |-> Day(ReadBack(o.departureAt)),
   stops  |-> TransfersText(o.transfers),
   link   |-> o.link]

\* ListUnpublished
WithinCap(o) ==
  settings.WORKER_MAX_PRICE <= 0 \/ o.price <= settings.WORKER_MAX_PRICE

\* A pass of the publisher, whether or not the service announced itself.
Publish ==
  /\ up = "up"
  /\ WorkerEnabled(settings) /\ TelegramEnabled(settings)
  /\ row # <<>>
  /\ WithinCap(row[1])
  /\ message' = <<FormatOfferMessage(row[1])>>
  /\ UNCHANGED <<startVars, note, heard, row, dto>>

\* Format(time.RFC3339): a wall clock and its offset.
RFC3339(t) == [wall |-> t.instant + t.offset, offset |-> t.offset]

ToOfferDTO(o) ==
  [departureAt   |-> RFC3339(ReadBack(o.departureAt)),
   departureDate |-> o.departureDate,
   returnAt      |-> [i \in DOMAIN o.returnAt |-> RFC3339(ReadBack(o.returnAt[i]))],
   price         |-> o.price,
   currency      |-> o.currency,
   link          |-> FullLink(o.link)]

\* GET /api/offers needs neither worker nor channel.
ListOffers ==
  /\ up = "up"
  /\ row # <<>>
  /\ dto' = <<ToOfferDTO(row[1])>>
  /\ UNCHANGED <<startVars, note, heard, row, message>>

\* POST /api/notify needs a channel, and no worker.
Send ==
  /\ up = "up"
  /\ TelegramEnabled(settings)
  /\ note' = "sent"
  /\ UNCHANGED <<startVars, heard, row, shownVars>>

Next == StartFails \/ Start \/ Stop \/ Collect \/ Publish \/ ListOffers \/ Send

Spec == Init /\ [][Next]_vars

-----------------------------------------------------------------------------
(* Properties.                                                             *)

FlowTypeOK ==
  /\ up \in {"off", "exited", "up"}
  /\ DOMAIN env \subseteq DOMAIN Defaults
  /\ zone \in Zones
  /\ DOMAIN settings = DOMAIN Defaults
  /\ \A v \in DOMAIN Lists : settings[v] \in Seq(Codes)
  /\ \A v \in DOMAIN Bools : settings[v] \in BOOLEAN
  /\ \A v \in DOMAIN Durations \cup DOMAIN Ints : settings[v] \in Int
  /\ timeouts \in [telegram : Int, prices : Int]
  /\ note \in {"none", "sent"}
  /\ \A s \in {intro, heard, row, message, dto} : Len(s) \in 0..1

\* A service that runs, runs on what it was told: nothing it could not read, and
\* nothing left unset, becomes zero or something else without a word
\* (config.go:107).  Lists may lose blanks, and a number of connections the bits
\* beyond an int32.
LoadedAsSaid ==
  up = "up" =>
    /\ \A v \in DOMAIN env : env[v] # <<>>
    /\ \A v \in DOMAIN Defaults \ DOMAIN Lists :
         IF v \notin DOMAIN env THEN settings[v] = Defaults[v]
         ELSE \/ settings[v] = env[v][1]
              \/ v = "POSTGRES_MAX_CONNS" /\ env[v][1] \notin Int32
    /\ settings.POSTGRES_MAX_CONNS >= 1

\* The environment names all that is needed, and switches nothing off.
Allowed(needed, switches) ==
  /\ needed \subseteq DOMAIN env
  /\ \A v \in switches \cap DOMAIN env : env[v] = <<TRUE>>

\* The channel is told nothing, whoever asks for it, by a service that was not
\* given a bot and a channel, or was told to be silent; and no announcement and no
\* offer, though an earlier run left one in the table, by one that was given no
\* token for the prices or was told not to collect (main.go:58 and 85,
\* notify_handler.go:42).
SilentUnlessConfigured ==
  /\ note = "sent" \/ intro # <<>> \/ message # <<>> =>
       Allowed({"TELEGRAM_BOT_TOKEN", "TELEGRAM_CHANNEL_ID"}, {"TELEGRAM_ENABLED"})
  /\ intro # <<>> \/ message # <<>> =>
       Allowed({"AVIASALES_TOKEN"}, {"WORKER_ENABLED"})

\* Whatever the environment says, no call to Telegram or to the prices API waits
\* for ever: a timeout of zero or less would be none (both NewClient).
CallsBounded == up = "up" => timeouts.telegram > 0 /\ timeouts.prices > 0

\* The form of a Russian noun after n, from the grammar: one 1, 21, 101; few
\* 2, 34; many 5, 11, 112, 20.
RussianForm(n) ==
  LET unit == n % 10
  IN  IF (n \div 10) % 10 = 1 \/ unit \notin 1..4 THEN "many"
      ELSE IF unit = 1 THEN "one" ELSE "few"

\* How often, exactly, in a correct phrase.
IntervalTold(m) ==
  /\ m.interval.count * m.interval.unit = settings.WORKER_INTERVAL
  /\ m.interval.unit # 1 => m.interval.form = RussianForm(m.interval.count)

\* Each city of the codes once.
CitiesTold(names, codes) ==
  /\ IsInjective(names)
  /\ Len(names) = Cardinality({AirportName(codes[j]) : j \in DOMAIN codes})

\* Up to which price: no message in the currency of the announced limit, the
\* rouble, goes over it.  Nothing is promised of another currency, whose prices
\* are compared with the same number.
CapKept ==
  \A i \in DOMAIN intro : \A l \in DOMAIN intro[i].limit, j \in DOMAIN message :
    message[j].price.currency = intro[i].limit[l].currency =>
      row[1].price <= settings.WORKER_MAX_PRICE

\* The announcement says what the worker will do: how often, between which
\* cities, and up to which price in roubles (publisher.go:237, 251, 266, 281).
AnnouncementExact ==
  /\ \A i \in DOMAIN intro :
       /\ IntervalTold(intro[i])
       /\ CitiesTold(intro[i].from, settings.WORKER_ORIGINS)
       /\ CitiesTold(intro[i].to, settings.WORKER_DESTINATIONS)
  /\ CapKept

\* The number digits show, read from the left.
NumberOf(digits) ==
  LET read[n \in 0..Len(digits)] ==
        IF n = 0 THEN 0 ELSE 10 * read[n - 1] + digits[n]
  IN  read[Len(digits)]

\* The number an amount shows.
Read(amount) ==
  (IF amount.neg THEN -1 ELSE 1) * NumberOf(FlattenSeq(amount.groups))

\* A reader of an amount reads n: groups of three digits after a first one that
\* may be shorter and does not begin with a zero.
Reads(amount, n) ==
  /\ \A i \in DOMAIN amount.groups :
       /\ Len(amount.groups[i]) \in (IF i = 1 THEN 1..3 ELSE {3})
       /\ \A j \in DOMAIN amount.groups[i] : amount.groups[i][j] \in 0..9
  /\ n # 0 => amount.groups[1][1] # 0
  /\ Read(amount) = n

\* Who is shown the price of the row in this currency: the one the answer named,
\* where it named one.
CurrencyTold(currency) ==
  /\ currency = row[1].currency
  /\ heard[1].currency # "" => currency = Upper[heard[1].currency]

\* Every amount the channel is shown, in a message or as the announced limit, is
\* the one stored or set, but for the smallest of an int64, which no one pays;
\* and channel and API show the price in the same currency, the one the prices API
\* named (publisher.go:211, travelpayouts/client.go:173, offers_handler.go:101).
AmountsReadBack ==
  /\ \A i \in DOMAIN message :
       /\ row[1].price # MinInt => Reads(message[i].price.amount, row[1].price)
       /\ CurrencyTold(message[i].price.currency)
  /\ \A i \in DOMAIN dto :
       dto[i].price = row[1].price /\ CurrencyTold(dto[i].currency)
  /\ \A i \in DOMAIN intro : \A l \in DOMAIN intro[i].limit :
       Reads(intro[i].limit[l].amount, settings.WORKER_MAX_PRICE)

\* The date stored is the day on the clock of the airport, whatever the server's
\* zone.  An answer to GET /api/offers has that date and the same instants; the
\* day of a message is at most one off where the two clocks are no more than a
\* day apart, and right on a server in the airport's zone
\* (travelpayouts/client.go:194, publisher.go:162).
DayKept ==
  \A i \in DOMAIN heard :
    LET departure == heard[i].departureAt[1]
        local == departure.wall \div DayLength
        ahead == zone - departure.offset
        Same(shown, said) == shown.wall - shown.offset = said.wall - said.offset
    IN  /\ row[1].departureDate = local
        /\ \A j \in DOMAIN message :
             /\ ahead \in -DayLength..DayLength =>
                  message[j].date \in (local - 1)..(local + 1)
             /\ ahead = 0 => message[j].date = local
        /\ \A j \in DOMAIN dto :
             /\ dto[j].departureDate = local
             /\ Same(dto[j].departureAt, departure)
             /\ DOMAIN dto[j].returnAt = DOMAIN heard[i].returnAt
             /\ \A l \in DOMAIN dto[j].returnAt :
                  Same(dto[j].returnAt[l], heard[i].returnAt[l])

\* The site of a link, the provider's where it names none, and the path there.
Site(link) == IF IsAbsolute(link) THEN link[1] ELSE "base"
Path(link) == IF IsAbsolute(link) THEN Tail(link) ELSE link

\* A link is completed once, though the client of the prices API and the handler
\* both complete it: it leads to the site and the path that were heard, there is
\* none where there was none, and the channel and the API show the same
\* (travelpayouts/client.go:236, offers_handler.go:119).
LinksOpen ==
  /\ \A shown \in {message, dto} : \A i \in DOMAIN shown :
       LET link == shown[i].link
           said == heard[1].link
       IN  IF said = <<>> THEN link = <<>>
           ELSE /\ IsAbsolute(link)
                /\ Site(link) = Site(said)
                /\ Path(link) = Path(said)
  /\ \A i \in DOMAIN message, j \in DOMAIN dto : message[i].link = dto[j].link

\* "FlightOffer is a single cached flight price for a route on a given departure
\* date" (domain/flight.go:13): the message of an offer is dated that date.
MessageTellsDate ==
  \A i \in DOMAIN message : message[i].date = row[1].departureDate
=============================================================================
