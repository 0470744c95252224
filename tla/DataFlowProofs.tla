--------------------------- MODULE DataFlowProofs ---------------------------
(***************************************************************************)
(* What module DataFlow promises, for every environment the service may be *)
(* started with, every answer of the prices API and every time zone.       *)
(***************************************************************************)
EXTENDS DataFlow, FormattingProofs

-----------------------------------------------------------------------------
(* The settings.                                                           *)

\* The names of the variables, kind by kind.
LEMMA Kinds ==
  /\ DOMAIN Durations = {"HTTP_READ_TIMEOUT", "HTTP_WRITE_TIMEOUT",
                         "HTTP_IDLE_TIMEOUT", "AVIASALES_HTTP_TIMEOUT",
                         "WORKER_INTERVAL", "WORKER_REQUEST_DELAY",
                         "WORKER_PUBLISH_DELAY", "TELEGRAM_HTTP_TIMEOUT"}
  /\ DOMAIN Ints = {"POSTGRES_MAX_CONNS", "WORKER_MONTHS_AHEAD",
                    "WORKER_PUBLISH_BATCH", "WORKER_MAX_PRICE"}
  /\ DOMAIN Bools = {"WORKER_ENABLED", "WORKER_ONE_WAY", "WORKER_DIRECT",
                     "TELEGRAM_ENABLED", "TELEGRAM_DISABLE_WEB_PAGE_PREVIEW"}
  /\ DOMAIN Lists = {"WORKER_ORIGINS", "WORKER_DESTINATIONS"}
  /\ DOMAIN Texts = {"AVIASALES_TOKEN", "AVIASALES_CURRENCY",
                     "TELEGRAM_BOT_TOKEN", "TELEGRAM_CHANNEL_ID",
                     "POSTGRES_USER", "POSTGRES_PASSWORD"}
<1>1. DOMAIN Durations = {"HTTP_READ_TIMEOUT", "HTTP_WRITE_TIMEOUT",
                         "HTTP_IDLE_TIMEOUT", "AVIASALES_HTTP_TIMEOUT",
                         "WORKER_INTERVAL", "WORKER_REQUEST_DELAY",
                         "WORKER_PUBLISH_DELAY", "TELEGRAM_HTTP_TIMEOUT"}
  BY DEF Durations
<1>2. DOMAIN Ints = {"POSTGRES_MAX_CONNS", "WORKER_MONTHS_AHEAD",
                    "WORKER_PUBLISH_BATCH", "WORKER_MAX_PRICE"}
  BY DEF Ints
<1>3. DOMAIN Bools = {"WORKER_ENABLED", "WORKER_ONE_WAY", "WORKER_DIRECT",
                     "TELEGRAM_ENABLED", "TELEGRAM_DISABLE_WEB_PAGE_PREVIEW"}
  BY DEF Bools
<1>4. DOMAIN Lists = {"WORKER_ORIGINS", "WORKER_DESTINATIONS"}
  BY DEF Lists
<1>5. DOMAIN Texts = {"AVIASALES_TOKEN", "AVIASALES_CURRENCY",
                     "TELEGRAM_BOT_TOKEN", "TELEGRAM_CHANNEL_ID",
                     "POSTGRES_USER", "POSTGRES_PASSWORD"}
  BY DEF Texts
<1> QED
  BY <1>1, <1>2, <1>3, <1>4, <1>5

\* No variable is of two kinds.
LEMMA KindsDisjoint ==
  /\ DOMAIN Durations \cap DOMAIN Ints = {}
  /\ (DOMAIN Durations \cup DOMAIN Ints) \cap DOMAIN Bools = {}
  /\ (DOMAIN Durations \cup DOMAIN Ints \cup DOMAIN Bools)
       \cap DOMAIN Lists = {}
  /\ (DOMAIN Durations \cup DOMAIN Ints \cup DOMAIN Bools \cup DOMAIN Lists)
       \cap DOMAIN Texts = {}
BY Kinds

\* Every variable has a default of its kind, and the tokens none that is not
\* empty.
LEMMA DefaultsTyped ==
  /\ DOMAIN Defaults = Variables
  /\ \A v \in DOMAIN Lists : Defaults[v] = Lists[v]
  /\ \A v \in DOMAIN Durations \cup DOMAIN Ints : Defaults[v] \in Int
  /\ \A v \in DOMAIN Bools : Defaults[v] = TRUE
  /\ \A v \in DOMAIN Texts : Defaults[v] = Texts[v]
<1>1. DOMAIN Defaults = Variables
  BY DEF Defaults
<1>2. \A v \in DOMAIN Durations : Defaults[v] = Durations[v]
  BY KindsDisjoint DEF Defaults, Variables
<1>3. \A v \in DOMAIN Ints : Defaults[v] = Ints[v]
  BY KindsDisjoint DEF Defaults, Variables
<1>4. \A v \in DOMAIN Bools : Defaults[v] = Bools[v]
  BY KindsDisjoint DEF Defaults, Variables
<1>5. \A v \in DOMAIN Texts : Defaults[v] = Texts[v]
  BY KindsDisjoint DEF Defaults, Variables
<1>6. \A v \in DOMAIN Durations : Durations[v] \in Int
  BY DEF Durations
<1>7. \A v \in DOMAIN Ints : Ints[v] \in Int
  BY DEF Ints
<1>8. \A v \in DOMAIN Bools : Bools[v] = TRUE
  BY DEF Bools
<1>9. \A v \in DOMAIN Lists : Defaults[v] = Lists[v]
  BY KindsDisjoint DEF Defaults, Variables
<1> QED
  BY <1>1, <1>2, <1>3, <1>4, <1>5, <1>6, <1>7, <1>8, <1>9

\* The default codes are texts that are used, in upper case.
LEMMA DefaultLists ==
  ASSUME NEW v \in DOMAIN Lists
  PROVE  Lists[v] \in Seq(DOMAIN Upper) /\ Lists[v] \in Seq(Codes)
<1>1. \A code \in {"OVB", "CXR", "DAD"} : code \in DOMAIN Upper \cap Codes
  <2>1. ASSUME NEW code \in {"OVB", "CXR", "DAD"}
        PROVE  code \in DOMAIN Upper /\ Upper[code] = code /\ code # ""
    BY ConfigAssumption
  <2> QED
    BY <2>1 DEF Codes
<1>2. ASSUME NEW D, "OVB" \in D, "CXR" \in D, "DAD" \in D
      PROVE  Lists[v] \in Seq(D)
  <2>1. <<"OVB">> \in Seq(D) /\ <<"CXR", "DAD">> \in Seq(D)
    BY <1>2
  <2>2. Lists[v] \in {<<"OVB">>, <<"CXR", "DAD">>}
    BY DEF Lists
  <2> QED
    BY <2>1, <2>2
<1> QED
  BY <1>1, <1>2

\* A list keeps its codes and loses its blanks (config.go:267).
LEMMA ParseCSVTyped ==
  ASSUME NEW items \in Seq(DOMAIN Upper)
  PROVE  ParseCSV(items) \in Seq(Codes)
<1> DEFINE N == Len(items)
           V == Seq(Codes)
           none == <<>>
           next(s, n) == IF Upper[items[n]] = "" THEN s
                         ELSE Append(s, Upper[items[n]])
           round == [n \in 1..N |-> [s \in V |-> next(s, n)]]
           out == CHOOSE f : f = [n \in 0..N |->
                                    IF n = 0 THEN <<>> ELSE next(f[n - 1], n)]
<1>1. N \in Nat /\ \A n \in 1..N : items[n] \in DOMAIN Upper
  OBVIOUS
<1>2. ParseCSV(items) = out[N]
  BY DEF ParseCSV
<1> HIDE DEF N
<1>3. \A n \in 1..N : Upper[items[n]] # "" => Upper[items[n]] \in Codes
  BY <1>1 DEF Codes
<1>4. \A s \in V, n \in 1..N : next(s, n) \in V
  <2>1. ASSUME NEW s \in V, NEW n \in 1..N
        PROVE  next(s, n) \in V
    <3> DEFINE code == Upper[items[n]]
    <3>1. code # "" => code \in Codes
      BY <1>3
    <3> HIDE DEF code
    <3>2. code \in Codes => Append(s, code) \in V
      OBVIOUS
    <3> HIDE DEF V
    <3> QED
      BY <3>1, <3>2 DEF code
  <2> QED
    BY <2>1
<1>5. none \in V
  OBVIOUS
<1> HIDE DEF V, none, next
<1>6. round \in Rounds(N, V) /\ \A n \in 1..N, s \in V : round[n][s] = next(s, n)
  BY <1>4 DEF Rounds
<1> HIDE DEF round
<1>7. \E f : f = [n \in 0..N |-> IF n = 0 THEN <<>> ELSE next(f[n - 1], n)]
  <2>1. PICK f : IsLoop(f, N, V, none, round)
    BY <1>1, <1>5, <1>6, LoopExists
  <2>2. \A n \in 0..N : f[n] = IF n = 0 THEN none ELSE next(f[n - 1], n)
    BY <1>1, <1>6, <2>1 DEF IsLoop
  <2>3. f = [n \in 0..N |-> IF n = 0 THEN none ELSE next(f[n - 1], n)]
    BY <2>1, <2>2 DEF IsLoop
  <2> QED
    BY <2>3 DEF none
<1>8. out = [n \in 0..N |-> IF n = 0 THEN <<>> ELSE next(out[n - 1], n)]
  BY <1>7
<1> HIDE DEF out
<1>9. out[0] = none /\ \A n \in 1..N : out[n] = next(out[n - 1], n)
  BY <1>1, <1>8 DEF none
<1> DEFINE S == {n \in 0..N : out[n] \in V}
<1>10. 0 \in S
  BY <1>1, <1>5, <1>9
<1>11. ASSUME NEW n \in 0..(N - 1), n \in S
       PROVE  n + 1 \in S
  <2>1. n + 1 \in 1..N /\ n + 1 \in 0..N /\ (n + 1) - 1 = n
    BY <1>1
  <2>2. out[n + 1] = next(out[n], n + 1)
    BY <1>9, <2>1
  <2> QED
    BY <1>4, <1>11, <2>1, <2>2
<1> HIDE DEF S
<1>12. \A n \in 0..N : n \in S
  BY <1>1, <1>10, <1>11, InductionUpTo
<1>13. N \in S
  BY <1>1, <1>12
<1> QED
  BY <1>2, <1>13 DEF S, V

\* An int32 is not narrowed.
LEMMA NarrowKeeps ==
  ASSUME NEW n \in Int32
  PROVE  Narrow(n) = n
<1> DEFINE M == MaxInt32 + 1
<1>1. M \in Nat \ {0} /\ n \in -M..(M - 1)
  BY ConfigAssumption DEF Int32
<1>2. Narrow(n) = ((n + M) % (2 * M)) - M
  BY DEF Narrow
<1> HIDE DEF M
<1> QED
  BY <1>1, <1>2

\* An int32 is what narrowing leaves.
LEMMA NarrowInt ==
  ASSUME NEW n \in Int
  PROVE  Narrow(n) \in Int
<1> DEFINE M == MaxInt32 + 1
<1>1. M \in Nat \ {0}
  BY ConfigAssumption
<1>2. Narrow(n) = ((n + M) % (2 * M)) - M
  BY DEF Narrow
<1> HIDE DEF M
<1> QED
  BY <1>1, <1>2

\* What an environment that is not refused says is read, and what is loaded of
\* it is that, but for lists and an int32 that overflows.
LEMMA LoadedValue ==
  ASSUME NEW e \in Environments, ~ Refused(e),
         NEW v \in Variables \ DOMAIN Lists
  PROVE  /\ v \notin DOMAIN e => Load(e)[v] = Defaults[v]
         /\ v \in DOMAIN e =>
              /\ e[v] # <<>>
              /\ \/ Load(e)[v] = e[v][1]
                 \/ v = "POSTGRES_MAX_CONNS" /\ e[v][1] \notin Int32
<1> DEFINE value == Parsed(e, v)[1]
<1>1. DOMAIN Defaults = Variables
  BY DefaultsTyped
<1>2. Load(e)[v] = IF v = "POSTGRES_MAX_CONNS" THEN Narrow(value) ELSE value
  BY <1>1 DEF Load
<1>3. Parsed(e, v) # <<>>
  BY <1>1 DEF Refused
<1>4. CASE v \notin DOMAIN e
  <2>1. value = Defaults[v]
    BY <1>4 DEF Parsed
  <2>2. CASE v = "POSTGRES_MAX_CONNS"
    <3>1. v \in DOMAIN Ints /\ Ints[v] = 10
      BY <2>2 DEF Ints
    <3>2. Defaults[v] = 10
      BY <3>1, KindsDisjoint DEF Defaults, Variables
    <3>3. 10 \in Int32
      BY <3>1, ConfigAssumption, <2>2 DEF Int32
    <3>4. Narrow(value) = value
      BY <2>1, <3>2, <3>3, NarrowKeeps
    <3> QED
      BY <1>2, <1>4, <2>1, <2>2, <3>4
  <2> QED
    BY <1>2, <1>4, <2>1, <2>2
<1>5. CASE v \in DOMAIN e
  <2>1. e[v] # <<>> /\ value = e[v][1]
    BY <1>3, <1>5 DEF Parsed
  <2>2. Narrow(value) = value \/ value \notin Int32
    <3> HIDE DEF value
    <3> QED
      BY NarrowKeeps
  <2> QED
    BY <1>2, <1>5, <2>1, <2>2
<1> QED
  BY <1>4, <1>5

-----------------------------------------------------------------------------
(* The inductive invariant.                                                *)

\* What is loaded is from the environment the service was started with.
SettingsInv ==
  /\ zone \in Zones
  /\ up \in {"off", "exited", "up"}
  /\ env \in Environments \/ env = [v \in {} |-> <<>>]
  /\ up # "up" =>
       settings = Defaults /\ timeouts = [telegram |-> 0, prices |-> 0]
  /\ up = "up" =>
       /\ env \in Environments
       /\ ~ Refused(env)
       /\ settings = Load(env)
       /\ settings.POSTGRES_MAX_CONNS >= 1
       /\ timeouts =
            [telegram |-> ClientTimeout(settings.TELEGRAM_HTTP_TIMEOUT, 10000),
             prices   |-> ClientTimeout(settings.AVIASALES_HTTP_TIMEOUT, 30000)]
       /\ intro # <<>> =>
            /\ intro = <<FormatAnnounceMessage(settings)>>
            /\ WorkerEnabled(settings) /\ TelegramEnabled(settings)

\* Nobody has seen anything of a service that does not run.
QuietInv ==
  /\ note \in {"none", "sent"}
  /\ up # "up" => intro = <<>> /\ note = "none" /\ message = <<>> /\ dto = <<>>

\* The row is what became of the last answer that had an offer.  The settings it
\* was stored under may be others than today's.
RowInv ==
  /\ heard = <<>> => message = <<>> /\ dto = <<>>
  /\ heard = <<>> <=> row = <<>>
  /\ heard # <<>> =>
       LET a == heard[1]
           departure == ParseTime(a.departureAt[1])
           o == row[1]
       IN  /\ a \in Answers
           /\ heard = <<a>>
           /\ row = <<o>>
           /\ a.departureAt # <<>>
           /\ o.departureAt = departure.instant
           /\ o.departureDate = DepartureDate(departure)
           /\ o.returnAt =
                [i \in DOMAIN a.returnAt |-> ParseTime(a.returnAt[i]).instant]
           /\ o.link = AbsoluteLink(a.link)
           /\ o.price = a.price
           /\ a.currency # "" => o.currency = Upper[a.currency]

\* What is shown is shown of the row, and in the channel only under a cap that
\* allows it.
ShownInv ==
  /\ message # <<>> =>
       /\ message = <<FormatOfferMessage(row[1])>>
       /\ WorkerEnabled(settings) /\ TelegramEnabled(settings)
       /\ WithinCap(row[1])
  /\ dto # <<>> => dto = <<ToOfferDTO(row[1])>>
  /\ note = "sent" => TelegramEnabled(settings)

FlowInv == SettingsInv /\ QuietInv /\ RowInv /\ ShownInv

\* Nothing is loaded, heard or shown yet.
LEMMA InitFlows == Init => FlowInv
BY DEF Init, FlowInv, SettingsInv, QuietInv, RowInv, ShownInv

\* Starting and stopping change the settings, and show nothing of the row.
LEMMA StartKeeps ==
  ASSUME FlowInv, StartFails \/ Start \/ Stop
  PROVE  FlowInv'
<1>1. UNCHANGED <<zone, heard, row>> /\ message' = <<>> /\ dto' = <<>>
  BY DEF StartFails, Start, Stop, FlowInv, QuietInv, shownVars
<1>2. note' = "none"
  BY DEF StartFails, Start, Stop, FlowInv, QuietInv
<1>3. RowInv' /\ ShownInv'
  BY <1>1, <1>2 DEF FlowInv, RowInv, ShownInv
<1>4. SettingsInv' /\ QuietInv'
  <2>1. CASE StartFails \/ Stop
    BY <1>1, <1>2, <2>1
       DEF StartFails, Stop, FlowInv, SettingsInv, QuietInv
  <2>2. CASE Start
    BY <1>1, <1>2, <2>2 DEF Start, FlowInv, SettingsInv, QuietInv
  <2> QED
    BY <2>1, <2>2
<1> QED
  BY <1>3, <1>4 DEF FlowInv

\* An answer replaces the row, and what was shown of it is forgotten.
LEMMA CollectKeeps ==
  ASSUME FlowInv, Collect
  PROVE  FlowInv'
<1>1. PICK a \in Answers : /\ a.departureAt # <<>>
                           /\ heard' = <<a>>
                           /\ row' = <<Transform(a)>>
  BY DEF Collect
<1>2. message' = <<>> /\ dto' = <<>> /\ UNCHANGED <<startVars, note>>
  BY DEF Collect
<1>3. heard'[1] = a /\ row'[1] = Transform(a) /\ heard' # <<>> /\ row' # <<>>
  BY <1>1
<1>4. RowInv'
  <2> DEFINE o == Transform(a)
             departure == ParseTime(a.departureAt[1])
  <2>1. /\ o.departureAt = departure.instant
        /\ o.departureDate = DepartureDate(departure)
        /\ o.returnAt =
             [i \in DOMAIN a.returnAt |-> ParseTime(a.returnAt[i]).instant]
        /\ o.link = AbsoluteLink(a.link)
        /\ o.price = a.price
        /\ a.currency # "" => o.currency = Upper[a.currency]
    BY DEF Transform
  <2> HIDE DEF o
  <2> QED
    BY <1>1, <1>2, <1>3, <2>1 DEF RowInv, o
<1>5. ShownInv'
  <2>1. settings' = settings
    BY <1>2 DEF startVars
  <2>2. TelegramEnabled(settings)' <=> TelegramEnabled(settings)
    BY <2>1
  <2> QED
    BY <1>2, <2>2 DEF FlowInv, ShownInv
<1>6. SettingsInv' /\ QuietInv'
  BY <1>2 DEF FlowInv, SettingsInv, QuietInv, startVars
<1> QED
  BY <1>4, <1>5, <1>6 DEF FlowInv

\* Showing the row, or telling the channel something else, leaves the row and
\* the settings alone.
LEMMA ShowKeeps ==
  ASSUME FlowInv, Publish \/ ListOffers \/ Send \/ UNCHANGED vars
  PROVE  FlowInv'
<1>1. UNCHANGED <<startVars, heard, row>>
  BY DEF Publish, ListOffers, Send, vars
<1>2. /\ \/ message' = message
         \/ /\ message' = <<FormatOfferMessage(row[1])>> /\ row # <<>>
            /\ WorkerEnabled(settings) /\ TelegramEnabled(settings)
            /\ WithinCap(row[1]) /\ up = "up"
      /\ \/ dto' = dto
         \/ dto' = <<ToOfferDTO(row[1])>> /\ row # <<>> /\ up = "up"
      /\ \/ note' = note
         \/ note' = "sent" /\ TelegramEnabled(settings) /\ up = "up"
  BY DEF Publish, ListOffers, Send, vars, shownVars
<1>3. SettingsInv' /\ QuietInv'
  BY <1>1, <1>2 DEF FlowInv, SettingsInv, QuietInv, startVars
<1>4. RowInv'
  BY <1>1, <1>2 DEF FlowInv, RowInv
<1>5. FormatOfferMessage(row[1])' = FormatOfferMessage(row[1])
  BY <1>1 DEF FormatOfferMessage, ReadBack, startVars
<1>6. ToOfferDTO(row[1])' = ToOfferDTO(row[1])
  BY <1>1 DEF ToOfferDTO, ReadBack, startVars
<1>7. ShownInv'
  <2>1. settings' = settings /\ row' = row
    BY <1>1 DEF startVars
  <2>2. message' # <<>> =>
          /\ message' = <<FormatOfferMessage(row[1])>>
          /\ WorkerEnabled(settings) /\ TelegramEnabled(settings)
          /\ WithinCap(row[1])
    BY <1>2 DEF FlowInv, ShownInv
  <2>3. dto' # <<>> => dto' = <<ToOfferDTO(row[1])>>
    BY <1>2 DEF FlowInv, ShownInv
  <2>4. note' = "sent" => TelegramEnabled(settings)
    BY <1>2 DEF FlowInv, ShownInv
  <2>5. /\ WorkerEnabled(settings)' <=> WorkerEnabled(settings)
        /\ TelegramEnabled(settings)' <=> TelegramEnabled(settings)
        /\ WithinCap(row[1])' <=> WithinCap(row[1])
    BY <2>1 DEF WithinCap
  <2> QED
    BY <1>5, <1>6, <2>2, <2>3, <2>4, <2>5 DEF ShownInv
<1> QED
  BY <1>3, <1>4, <1>7 DEF FlowInv

\* The inductive invariant holds of every run of the service.
LEMMA Flows == Spec => []FlowInv
<1>1. FlowInv /\ [Next]_vars => FlowInv'
  BY StartKeeps, CollectKeeps, ShowKeeps DEF Next
<1> QED
  BY <1>1, InitFlows, PTL DEF Spec

-----------------------------------------------------------------------------
(* What the service was told.                                              *)

\* A service that runs, runs on what its environment says: nothing that cannot
\* be read, and nothing unset, becomes something else without a word
\* (config.go:107), but for a number of connections beyond an int32.
THEOREM SettingsAsSaid == Spec => []LoadedAsSaid
<1>1. ASSUME FlowInv, up = "up" PROVE LoadedAsSaid
  <2>1. /\ env \in Environments /\ ~ Refused(env) /\ settings = Load(env)
        /\ settings.POSTGRES_MAX_CONNS >= 1
    BY <1>1 DEF FlowInv, SettingsInv
  <2>2. DOMAIN env \subseteq Variables
    BY <2>1, DataFlowAssumption
  <2>3. \A v \in DOMAIN env : env[v] # <<>>
    <3>1. \A v \in DOMAIN env : Parsed(env, v) # <<>>
      BY <2>1, <2>2, DefaultsTyped DEF Refused
    <3> QED
      BY <3>1 DEF Parsed
  <2>4. \A v \in DOMAIN Defaults \ DOMAIN Lists :
          IF v \notin DOMAIN env THEN settings[v] = Defaults[v]
          ELSE \/ settings[v] = env[v][1]
               \/ v = "POSTGRES_MAX_CONNS" /\ env[v][1] \notin Int32
    BY <2>1, DefaultsTyped, LoadedValue
  <2> QED
    BY <2>1, <2>3, <2>4 DEF LoadedAsSaid
<1>2. FlowInv => LoadedAsSaid
  BY <1>1 DEF LoadedAsSaid
<1> QED
  BY <1>2, Flows, PTL

\* An int64 is a number.
LEMMA Int64Int == Int64 \subseteq Int
BY DigitsEnough DEF Int64

\* The settings of a service that runs are of their kinds.
LEMMA SettingsTyped ==
  ASSUME FlowInv, up = "up"
  PROVE  /\ \A v \in DOMAIN Durations \cup DOMAIN Ints : settings[v] \in Int
         /\ \A v \in DOMAIN Bools : settings[v] \in BOOLEAN
<1>1. env \in Environments /\ ~ Refused(env) /\ settings = Load(env)
  BY DEF FlowInv, SettingsInv
<1>2. DOMAIN Defaults = Variables
  BY DefaultsTyped
<1>3. ASSUME NEW v \in DOMAIN Durations \cup DOMAIN Ints
      PROVE  settings[v] \in Int
  <2>1. v \in Variables \ DOMAIN Lists
    BY KindsDisjoint DEF Variables
  <2>2. Parsed(env, v) # <<>>
    BY <1>1, <1>2, <2>1 DEF Refused
  <2>3. Parsed(env, v)[1] \in Int
    BY <1>1, <2>2, DefaultsTyped, DataFlowAssumption, Int64Int DEF Parsed
  <2>4. settings[v] \in {Parsed(env, v)[1], Narrow(Parsed(env, v)[1])}
    BY <1>1, <1>2, <2>1 DEF Load
  <2> QED
    BY <2>3, <2>4, NarrowInt
<1>4. ASSUME NEW v \in DOMAIN Bools
      PROVE  settings[v] \in BOOLEAN
  <2>1. v \in Variables \ DOMAIN Lists
    BY KindsDisjoint DEF Variables
  <2>2. Parsed(env, v) # <<>>
    BY <1>1, <1>2, <2>1 DEF Refused
  <2>3. Parsed(env, v)[1] \in BOOLEAN
    BY <1>1, <2>2, DefaultsTyped, DataFlowAssumption DEF Parsed
  <2>4. v # "POSTGRES_MAX_CONNS"
    BY KindsDisjoint, Kinds
  <2>5. settings[v] = Parsed(env, v)[1]
    BY <1>1, <1>2, <2>1, <2>4 DEF Load
  <2> QED
    BY <2>3, <2>5
<1> QED
  BY <1>3, <1>4

\* So are those it starts from and is left with.
LEMMA SettingsAlwaysTyped ==
  ASSUME FlowInv
  PROVE  /\ DOMAIN settings = DOMAIN Defaults
         /\ \A v \in DOMAIN Lists : settings[v] \in Seq(Codes)
         /\ \A v \in DOMAIN Bools : settings[v] \in BOOLEAN
         /\ \A v \in DOMAIN Durations \cup DOMAIN Ints : settings[v] \in Int
<1>1. CASE up # "up"
  <2>1. settings = Defaults
    BY <1>1 DEF FlowInv, SettingsInv
  <2>2. \A v \in DOMAIN Lists : Defaults[v] \in Seq(Codes)
    BY DefaultsTyped, DefaultLists
  <2> QED
    BY <2>1, <2>2, DefaultsTyped
<1>2. CASE up = "up"
  <2>1. env \in Environments /\ ~ Refused(env) /\ settings = Load(env)
    BY <1>2 DEF FlowInv, SettingsInv
  <2>2. ASSUME NEW v \in DOMAIN Lists
        PROVE  settings[v] \in Seq(Codes)
    <3>1. v \in DOMAIN Defaults
      BY DefaultsTyped DEF Variables
    <3>2. Parsed(env, v) # <<>>
      BY <2>1, <3>1 DEF Refused
    <3> DEFINE items == Parsed(env, v)[1]
    <3>3. items \in Seq(DOMAIN Upper)
      <4>1. CASE v \in DOMAIN env
        BY <2>1, <3>2, <4>1, DataFlowAssumption DEF Parsed
      <4>2. CASE v \notin DOMAIN env
        BY <4>2, DefaultsTyped, DefaultLists DEF Parsed
      <4> QED
        BY <4>1, <4>2
    <3>4. settings[v] = ParseCSV(items)
      <4>1. v # "POSTGRES_MAX_CONNS"
        BY Kinds
      <4> QED
        BY <2>1, <3>1, <4>1 DEF Load
    <3> HIDE DEF items
    <3> QED
      BY <3>3, <3>4, ParseCSVTyped
  <2>3. DOMAIN settings = DOMAIN Defaults
    BY <2>1 DEF Load
  <2> QED
    BY <1>2, <2>2, <2>3, SettingsTyped
<1> QED
  BY <1>1, <1>2

\* Nothing is ever of another kind than it should be, and nothing is told, heard
\* or shown but one value at a time; a list holds codes in upper case, no blank.
THEOREM FlowTypesCorrect == Spec => []FlowTypeOK
<1>1. ASSUME FlowInv PROVE FlowTypeOK
  <2>1. /\ up \in {"off", "exited", "up"} /\ zone \in Zones
        /\ env \in Environments \/ env = [v \in {} |-> <<>>]
    BY <1>1 DEF FlowInv, SettingsInv
  <2>2. DOMAIN env \subseteq DOMAIN Defaults
    BY <2>1, DefaultsTyped, DataFlowAssumption
  <2>3. timeouts \in [telegram : Int, prices : Int]
    <3>1. CASE up = "up"
      <4>1. /\ settings.TELEGRAM_HTTP_TIMEOUT \in Int
            /\ settings.AVIASALES_HTTP_TIMEOUT \in Int
        BY <1>1, <3>1, SettingsTyped, Kinds
      <4> DEFINE x == ClientTimeout(settings.TELEGRAM_HTTP_TIMEOUT, 10000)
                 y == ClientTimeout(settings.AVIASALES_HTTP_TIMEOUT, 30000)
      <4>2. x \in Int /\ y \in Int
        BY <4>1 DEF ClientTimeout
      <4>3. timeouts = [telegram |-> x, prices |-> y]
        BY <1>1, <3>1 DEF FlowInv, SettingsInv
      <4> HIDE DEF x, y
      <4> QED
        BY <4>2, <4>3
    <3>2. CASE up # "up"
      BY <1>1, <3>2 DEF FlowInv, SettingsInv
    <3> QED
      BY <3>1, <3>2
  <2>4. \A s \in {intro, heard, row, message, dto} : s = <<>> \/ s = <<s[1]>>
    <3>1. intro = <<>> \/ intro = <<intro[1]>>
      BY <1>1 DEF FlowInv, SettingsInv, QuietInv
    <3>2. /\ heard = <<>> \/ heard = <<heard[1]>>
          /\ row = <<>> \/ row = <<row[1]>>
      BY <1>1 DEF FlowInv, RowInv
    <3>3. /\ message = <<>> \/ message = <<message[1]>>
          /\ dto = <<>> \/ dto = <<dto[1]>>
      BY <1>1 DEF FlowInv, ShownInv
    <3> QED
      BY <3>1, <3>2, <3>3
  <2>5. \A s \in {intro, heard, row, message, dto} : Len(s) \in 0..1
    <3>1. \A x : Len(<<x>>) = 1
      OBVIOUS
    <3> QED
      BY <2>4, <3>1
  <2> QED
    BY <1>1, <2>1, <2>2, <2>3, <2>5, SettingsAlwaysTyped
       DEF FlowTypeOK, FlowInv, QuietInv
<1>2. FlowInv => FlowTypeOK
  BY <1>1
<1> QED
  BY <1>2, Flows, PTL

\* Whatever the environment says, no call waits for ever (both NewClient).
THEOREM TimeoutsPositive == Spec => []CallsBounded
<1>1. ASSUME FlowInv, up = "up"
      PROVE  timeouts.telegram > 0 /\ timeouts.prices > 0
  <2>1. /\ settings.TELEGRAM_HTTP_TIMEOUT \in Int
        /\ settings.AVIASALES_HTTP_TIMEOUT \in Int
    BY <1>1, SettingsTyped, Kinds
  <2>2. timeouts =
          [telegram |-> ClientTimeout(settings.TELEGRAM_HTTP_TIMEOUT, 10000),
           prices   |-> ClientTimeout(settings.AVIASALES_HTTP_TIMEOUT, 30000)]
    BY <1>1 DEF FlowInv, SettingsInv
  <2>3. \A d \in Int, default \in Nat \ {0} : ClientTimeout(d, default) > 0
    BY DEF ClientTimeout
  <2> QED
    BY <2>1, <2>2, <2>3
<1>2. FlowInv => CallsBounded
  BY <1>1 DEF CallsBounded
<1> QED
  BY <1>2, Flows, PTL

\* What a service that runs was started with.
LEMMA LoadedUp ==
  ASSUME FlowInv, up = "up"
  PROVE  env \in Environments /\ ~ Refused(env) /\ settings = Load(env)
BY DEF FlowInv, SettingsInv

\* What is not empty though its default is was set by the environment.
LEMMA SetByEnvironment ==
  ASSUME FlowInv, up = "up",
         NEW v \in {"AVIASALES_TOKEN", "TELEGRAM_BOT_TOKEN", "TELEGRAM_CHANNEL_ID"},
         settings[v] # ""
  PROVE  v \in DOMAIN env
<1>1. env \in Environments /\ ~ Refused(env) /\ settings = Load(env)
  BY LoadedUp
<1>2. v \in DOMAIN Texts /\ Texts[v] = ""
  <2>1. /\ Texts.AVIASALES_TOKEN = "" /\ Texts.TELEGRAM_BOT_TOKEN = ""
        /\ Texts.TELEGRAM_CHANNEL_ID = ""
    BY DEF Texts
  <2> QED
    BY <2>1, Kinds
<1>3. v \in Variables \ DOMAIN Lists /\ Defaults[v] = ""
  BY <1>2, KindsDisjoint, DefaultsTyped DEF Variables
<1> QED
  BY <1>1, <1>3, LoadedValue

\* What is on though the environment speaks of it was switched on by it.
LEMMA SwitchedOn ==
  ASSUME FlowInv, up = "up",
         NEW v \in {"WORKER_ENABLED", "TELEGRAM_ENABLED"} \cap DOMAIN env,
         settings[v]
  PROVE  env[v] = <<TRUE>>
<1>1. env \in Environments /\ ~ Refused(env) /\ settings = Load(env)
  BY LoadedUp
<1>2. v \in DOMAIN Bools
  BY Kinds
<1>3. v \in Variables \ DOMAIN Lists /\ v # "POSTGRES_MAX_CONNS"
  BY <1>2, KindsDisjoint, Kinds DEF Variables
<1>4. settings[v] = env[v][1] /\ env[v] # <<>>
  BY <1>1, <1>3, LoadedValue
<1>5. env[v] = <<env[v][1]>> /\ env[v][1] \in BOOLEAN
  BY <1>1, <1>2, <1>4, DataFlowAssumption DEF IsReading
<1>6. env[v][1] = TRUE
  BY <1>4, <1>5
<1> QED
  BY <1>5, <1>6

\* The channel is told nothing, whether the worker or a client of POST
\* /api/notify asks for it, without a bot, a channel and their switch, and nothing
\* of prices without a token for them and the worker's switch (main.go:58 and 85,
\* notify_handler.go:42).
THEOREM SilenceCorrect == Spec => []SilentUnlessConfigured
<1>1. ASSUME FlowInv, note = "sent" \/ intro # <<>> \/ message # <<>>
      PROVE  up = "up" /\ TelegramEnabled(settings)
  BY <1>1 DEF FlowInv, SettingsInv, QuietInv, ShownInv
<1>2. ASSUME FlowInv, intro # <<>> \/ message # <<>>
      PROVE  up = "up" /\ WorkerEnabled(settings)
  BY <1>2 DEF FlowInv, SettingsInv, QuietInv, ShownInv
<1>3. ASSUME FlowInv, up = "up", TelegramEnabled(settings)
      PROVE  Allowed({"TELEGRAM_BOT_TOKEN", "TELEGRAM_CHANNEL_ID"},
                     {"TELEGRAM_ENABLED"})
  <2>1. /\ settings["TELEGRAM_ENABLED"]
        /\ settings["TELEGRAM_BOT_TOKEN"] # ""
        /\ settings["TELEGRAM_CHANNEL_ID"] # ""
    BY <1>3 DEF TelegramEnabled
  <2>2. "TELEGRAM_BOT_TOKEN" \in DOMAIN env /\ "TELEGRAM_CHANNEL_ID" \in DOMAIN env
    BY <1>3, <2>1, SetByEnvironment
  <2>3. "TELEGRAM_ENABLED" \in DOMAIN env => env["TELEGRAM_ENABLED"] = <<TRUE>>
    BY <1>3, <2>1, SwitchedOn
  <2> QED
    BY <2>2, <2>3 DEF Allowed
<1>4. ASSUME FlowInv, up = "up", WorkerEnabled(settings)
      PROVE  Allowed({"AVIASALES_TOKEN"}, {"WORKER_ENABLED"})
  <2>1. settings["WORKER_ENABLED"] /\ settings["AVIASALES_TOKEN"] # ""
    BY <1>4 DEF WorkerEnabled
  <2>2. "AVIASALES_TOKEN" \in DOMAIN env
    BY <1>4, <2>1, SetByEnvironment
  <2>3. "WORKER_ENABLED" \in DOMAIN env => env["WORKER_ENABLED"] = <<TRUE>>
    BY <1>4, <2>1, SwitchedOn
  <2> QED
    BY <2>2, <2>3 DEF Allowed
<1>5. FlowInv => SilentUnlessConfigured
  BY <1>1, <1>2, <1>3, <1>4 DEF SilentUnlessConfigured
<1> QED
  BY <1>5, Flows, PTL

-----------------------------------------------------------------------------
(* What became of an answer.                                               *)

\* The date stored is the day on the airport's clock, an answer of the API has
\* that date and the same instants, and a message is dated as exactly as the two
\* clocks allow (travelpayouts/client.go:194, publisher.go:162).
THEOREM DayCorrect == Spec => []DayKept
<1>1. ASSUME FlowInv, heard # <<>>
      PROVE  LET departure == heard[1].departureAt[1]
                 local == departure.wall \div DayLength
                 ahead == zone - departure.offset
                 Same(shown, said) ==
                   shown.wall - shown.offset = said.wall - said.offset
             IN  /\ row[1].departureDate = local
                 /\ message # <<>> =>
                      /\ ahead \in -DayLength..DayLength =>
                           message[1].date \in (local - 1)..(local + 1)
                      /\ ahead = 0 => message[1].date = local
                 /\ dto # <<>> =>
                      /\ dto[1].departureDate = local
                      /\ Same(dto[1].departureAt, departure)
                      /\ DOMAIN dto[1].returnAt = DOMAIN heard[1].returnAt
                      /\ \A l \in DOMAIN dto[1].returnAt :
                           Same(dto[1].returnAt[l], heard[1].returnAt[l])
  <2> DEFINE a == heard[1]
             departure == a.departureAt[1]
             o == row[1]
  <2>1. /\ a \in Answers /\ a.departureAt # <<>>
        /\ o.departureAt = ParseTime(departure).instant
        /\ o.departureDate = DepartureDate(ParseTime(departure))
        /\ o.returnAt =
             [i \in DOMAIN a.returnAt |-> ParseTime(a.returnAt[i]).instant]
    BY <1>1 DEF FlowInv, RowInv
  <2>2. IsTime(a.departureAt) /\ IsTime(a.returnAt)
    BY <2>1, DataFlowAssumption
  <2>3. departure.wall \in Nat /\ departure.offset \in Int /\ zone \in Int
    BY <1>1, <2>1, <2>2, DataFlowAssumption DEF IsTime, FlowInv, SettingsInv
  <2>4. o.departureAt = departure.wall - departure.offset
    BY <2>1 DEF ParseTime
  <2>5. o.departureDate = departure.wall \div DayLength
    <3>1. o.departureDate = (departure.wall - departure.offset
                               + departure.offset) \div DayLength
      BY <2>1 DEF DepartureDate, Day, ParseTime
    <3> HIDE DEF departure
    <3>2. departure.wall - departure.offset + departure.offset = departure.wall
      BY <2>3
    <3> QED
      BY <3>1, <3>2
  <2>6. ASSUME message # <<>>
        PROVE  message[1].date =
                 (departure.wall - departure.offset + zone) \div DayLength
    <3>1. message = <<FormatOfferMessage(o)>>
      BY <1>1, <2>6 DEF FlowInv, ShownInv
    <3>2. message[1].date = Day(ReadBack(o.departureAt))
      BY <3>1 DEF FormatOfferMessage
    <3> QED
      BY <2>4, <3>2 DEF Day, ReadBack
  <2>7. ASSUME dto # <<>>
        PROVE  /\ dto[1].departureDate = o.departureDate
               /\ dto[1].departureAt = RFC3339(ReadBack(o.departureAt))
               /\ dto[1].returnAt = [i \in DOMAIN o.returnAt |->
                                       RFC3339(ReadBack(o.returnAt[i]))]
    <3>1. dto = <<ToOfferDTO(o)>>
      BY <1>1, <2>7 DEF FlowInv, ShownInv
    <3> QED
      BY <3>1 DEF ToOfferDTO
  <2>8. \A n \in Int : LET t == RFC3339(ReadBack(n)) IN t.wall - t.offset = n
    BY <2>3 DEF RFC3339, ReadBack
  <2>9. ASSUME NEW l \in DOMAIN a.returnAt
        PROVE  /\ o.returnAt[l] = a.returnAt[l].wall - a.returnAt[l].offset
               /\ o.returnAt[l] \in Int
    <3>1. a.returnAt = <<a.returnAt[1]>> /\ l = 1
      BY <2>2, <2>9 DEF IsTime, IsReading
    <3>2. a.returnAt[1].wall \in Nat /\ a.returnAt[1].offset \in Int
      BY <2>2, <2>9 DEF IsTime
    <3> QED
      BY <2>1, <3>1, <3>2 DEF ParseTime
  <2> HIDE DEF a, o, departure
  <2>10. message # <<>> =>
           /\ zone - departure.offset \in -DayLength..DayLength =>
                message[1].date \in (departure.wall \div DayLength - 1)..
                                      (departure.wall \div DayLength + 1)
           /\ zone - departure.offset = 0 =>
                message[1].date = departure.wall \div DayLength
    <3>1. ASSUME message # <<>>
          PROVE  message[1].date =
                   (departure.wall + (zone - departure.offset)) \div DayLength
      BY <2>3, <2>6, <3>1 DEF DayLength
    <3> DEFINE w == departure.wall
               d == zone - departure.offset
    <3>2. w \in Nat /\ d \in Int
      BY <2>3
    <3> HIDE DEF w, d
    <3>3. /\ d \in -24..24 =>
               (w + d) \div 24 \in (w \div 24 - 1)..(w \div 24 + 1)
          /\ d = 0 => (w + d) \div 24 = w \div 24
      BY <3>2
    <3> QED
      BY <3>1, <3>3 DEF DayLength, w, d
  <2>11. dto # <<>> =>
           /\ dto[1].departureAt.wall - dto[1].departureAt.offset =
                departure.wall - departure.offset
           /\ DOMAIN dto[1].returnAt = DOMAIN a.returnAt
           /\ \A l \in DOMAIN dto[1].returnAt :
                dto[1].returnAt[l].wall - dto[1].returnAt[l].offset =
                  a.returnAt[l].wall - a.returnAt[l].offset
    <3>1. HAVE dto # <<>>
    <3>2. dto[1].departureAt.wall - dto[1].departureAt.offset
            = departure.wall - departure.offset
      BY <2>3, <2>4, <2>7, <2>8, <3>1
    <3>3. DOMAIN dto[1].returnAt = DOMAIN a.returnAt
      BY <2>1, <2>7, <3>1
    <3>4. ASSUME NEW l \in DOMAIN a.returnAt
          PROVE  dto[1].returnAt[l].wall - dto[1].returnAt[l].offset
                   = a.returnAt[l].wall - a.returnAt[l].offset
      <4>1. dto[1].returnAt[l] = RFC3339(ReadBack(o.returnAt[l]))
        BY <2>1, <2>7, <3>1
      <4>2. o.returnAt[l] \in Int
        BY <2>9
      <4>3. dto[1].returnAt[l].wall - dto[1].returnAt[l].offset = o.returnAt[l]
        BY <2>8, <4>1, <4>2
      <4> QED
        BY <2>9, <4>3
    <3> QED
      BY <3>2, <3>3, <3>4
  <2> QED
    BY <2>5, <2>7, <2>10, <2>11 DEF a, o, departure
<1>2. FlowInv => /\ heard # <<>> => DOMAIN heard = {1}
                 /\ message # <<>> => DOMAIN message = {1}
                 /\ dto # <<>> => DOMAIN dto = {1}
  <2>1. \A x : DOMAIN <<x>> = {1}
    OBVIOUS
  <2>2. FlowInv => /\ heard # <<>> => heard = <<heard[1]>>
                   /\ message # <<>> => message = <<FormatOfferMessage(row[1])>>
                   /\ dto # <<>> => dto = <<ToOfferDTO(row[1])>>
    BY DEF FlowInv, RowInv, ShownInv
  <2> QED
    BY <2>1, <2>2
<1>3. FlowInv => DayKept
  BY <1>1, <1>2 DEF DayKept
<1> QED
  BY <1>3, Flows, PTL

\* Completing a link twice is completing it once, and changes neither where it
\* leads nor the path there.
LEMMA LinkCompleted ==
  ASSUME NEW link, IsLink(link)
  PROVE  LET full == AbsoluteLink(link) IN
         /\ FullLink(full) = full
         /\ link = <<>> => full = <<>>
         /\ link # <<>> => /\ IsAbsolute(full)
                           /\ Site(full) = Site(link)
                           /\ Path(full) = Path(link)
<1> DEFINE Parts == STRING \cup {"base"}
<1>1. link \in Seq(Parts)
  BY DEF IsLink
<1>2. "base" \in Parts
  OBVIOUS
<1> HIDE DEF Parts
<1>3. CASE link = <<>>
  <2>1. AbsoluteLink(link) = <<>>
    BY <1>3 DEF AbsoluteLink
  <2>2. FullLink(<<>>) = <<>>
    BY DEF FullLink
  <2> QED
    BY <1>3, <2>1, <2>2
<1>4. CASE link # <<>> /\ IsAbsolute(link)
  <2>1. AbsoluteLink(link) = link /\ FullLink(link) = link
    BY <1>4 DEF AbsoluteLink, FullLink
  <2> QED
    BY <1>4, <2>1
<1>5. CASE link # <<>> /\ ~ IsAbsolute(link)
  <2> DEFINE full == <<"base">> \o link
  <2>1. AbsoluteLink(link) = full
    BY <1>5 DEF AbsoluteLink
  <2>2. full # <<>> /\ full[1] = "base" /\ Tail(full) = link
    <3>1. <<"base">> \in Seq(Parts) /\ Len(<<"base">>) = 1
      BY <1>2
    <3>2. full \in Seq(Parts) /\ Len(full) = Len(link) + 1
      BY <1>1, <3>1
    <3>3. full[1] = "base" /\ full # <<>>
      BY <1>1, <3>1, <3>2
    <3>4. Tail(full) = link
      <4>1. Tail(full) \in Seq(Parts) /\ Len(Tail(full)) = Len(link)
        BY <1>1, <3>2, <3>3
      <4>2. \A j \in 1..Len(link) : Tail(full)[j] = link[j]
        BY <1>1, <3>1, <3>2
      <4> QED
        BY <1>1, <4>1, <4>2
    <3> QED
      BY <3>3, <3>4
  <2> HIDE DEF full
  <2>3. IsAbsolute(full)
    BY <2>2 DEF IsAbsolute
  <2>4. FullLink(full) = full
    BY <2>3 DEF FullLink
  <2>5. Site(full) = Site(link) /\ Path(full) = Path(link)
    BY <1>5, <2>2, <2>3 DEF Site, Path
  <2> QED
    BY <1>5, <2>1, <2>3, <2>4, <2>5
<1> QED
  BY <1>3, <1>4, <1>5

\* The channel and the API show one link: to the site and the path that the
\* prices API named, complete, and none where it named none
\* (travelpayouts/client.go:236, offers_handler.go:119).
THEOREM LinksCorrect == Spec => []LinksOpen
<1>1. ASSUME FlowInv, NEW shown \in {message, dto}, shown # <<>>
      PROVE  /\ DOMAIN shown = {1}
             /\ shown[1].link = AbsoluteLink(heard[1].link)
             /\ IsLink(heard[1].link)
  <2>1. heard # <<>>
    BY <1>1 DEF FlowInv, RowInv
  <2>2. heard[1] \in Answers /\ row[1].link = AbsoluteLink(heard[1].link)
    BY <1>1, <2>1 DEF FlowInv, RowInv
  <2>3. IsLink(heard[1].link)
    BY <2>2, DataFlowAssumption
  <2>4. /\ DOMAIN shown = {1}
        /\ shown[1].link \in {row[1].link, FullLink(row[1].link)}
    BY <1>1 DEF FlowInv, ShownInv, FormatOfferMessage, ToOfferDTO
  <2> QED
    BY <2>2, <2>3, <2>4, LinkCompleted
<1>2. ASSUME FlowInv, NEW shown \in {message, dto}, NEW i \in DOMAIN shown
      PROVE  LET link == shown[i].link
                 said == heard[1].link
             IN  IF said = <<>> THEN link = <<>>
                 ELSE /\ IsAbsolute(link)
                      /\ Site(link) = Site(said)
                      /\ Path(link) = Path(said)
  <2>1. shown # <<>>
    BY <1>2
  <2>2. i = 1 /\ shown[i].link = AbsoluteLink(heard[1].link) /\ IsLink(heard[1].link)
    BY <1>1, <1>2, <2>1
  <2> QED
    BY <2>2, LinkCompleted
<1>3. ASSUME FlowInv, NEW i \in DOMAIN message, NEW j \in DOMAIN dto
      PROVE  message[i].link = dto[j].link
  <2>1. message # <<>> /\ dto # <<>>
    BY <1>3
  <2>2. /\ i = 1 /\ message[1].link = AbsoluteLink(heard[1].link)
        /\ j = 1 /\ dto[1].link = AbsoluteLink(heard[1].link)
    BY <1>1, <1>3, <2>1
  <2> QED
    BY <2>2
<1>4. FlowInv => LinksOpen
  BY <1>2, <1>3 DEF LinksOpen
<1> QED
  BY <1>4, Flows, PTL

-----------------------------------------------------------------------------
(* What the announcement says.                                             *)

\* The forms of a noun after any number are those of the grammar
\* (publisher.go:292).
LEMMA PluralCorrect ==
  ASSUME NEW n \in Int
  PROVE  Plural(n) = RussianForm(n)
<1>1. n % 100 \in 10..19 <=> (n \div 10) % 10 = 1
  OBVIOUS
<1>2. (n % 100) % 10 = n % 10
  OBVIOUS
<1>3. n % 100 \in 0..99 /\ n % 10 \in 0..9
  OBVIOUS
<1>4. n % 100 \in 11..14 <=> (n \div 10) % 10 = 1 /\ n % 10 \in 1..4
  BY <1>1, <1>2, <1>3
<1> QED
  BY <1>3, <1>4 DEF Plural, RussianForm

\* The interval is told exactly, in a correct phrase, whatever it is
\* (publisher.go:281): in hours or minutes only if it is a whole number of them.
LEMMA HumanizeCorrect ==
  ASSUME NEW d \in Int
  PROVE  LET told == HumanizeInterval(d) IN
         /\ told.count * told.unit = d
         /\ told.unit # 1 => told.form = RussianForm(told.count)
<1>1. Hour = 3600000 /\ Minute = 60000
  BY DEF Hour, Minute
<1>2. CASE d >= Hour /\ d % Hour = 0
  <2>1. HumanizeInterval(d) = Counted(d \div Hour, Hour)
    BY <1>2 DEF HumanizeInterval
  <2>2. d \div Hour \in Int /\ (d \div Hour) * Hour = d
    BY <1>1, <1>2
  <2> QED
    BY <2>1, <2>2, PluralCorrect DEF Counted
<1>3. CASE ~ (d >= Hour /\ d % Hour = 0) /\ d >= Minute /\ d % Minute = 0
  <2>1. HumanizeInterval(d) = Counted(d \div Minute, Minute)
    BY <1>3 DEF HumanizeInterval
  <2>2. d \div Minute \in Int /\ (d \div Minute) * Minute = d
    BY <1>1, <1>3
  <2> QED
    BY <2>1, <2>2, PluralCorrect DEF Counted
<1>4. CASE /\ ~ (d >= Hour /\ d % Hour = 0)
           /\ ~ (d >= Minute /\ d % Minute = 0)
  <2>1. HumanizeInterval(d) = [count |-> d, unit |-> 1, form |-> "raw"]
    BY <1>4 DEF HumanizeInterval
  <2> QED
    BY <2>1
<1> QED
  BY <1>2, <1>3, <1>4

\* The announcement says what the worker will do: how often, in words that come
\* to it exactly, between which cities, each named once, and up to which price in
\* roubles, which no message in roubles exceeds (publisher.go:237, 251, 266, 281).
THEOREM AnnouncementCorrect == Spec => []AnnouncementExact
<1>1. ASSUME FlowInv, intro # <<>>
      PROVE  /\ up = "up"
             /\ intro = <<FormatAnnounceMessage(settings)>>
  BY <1>1 DEF FlowInv, SettingsInv, QuietInv
<1>2. ASSUME FlowInv, NEW i \in DOMAIN intro PROVE IntervalTold(intro[i])
  <2>1. intro # <<>>
    BY <1>2
  <2>2. i = 1 /\ intro[i] = FormatAnnounceMessage(settings)
    BY <1>1, <1>2, <2>1
  <2>3. settings.WORKER_INTERVAL \in Int
    BY <1>1, <1>2, <2>1, SettingsTyped, Kinds
  <2>4. intro[i].interval = HumanizeInterval(settings.WORKER_INTERVAL)
    BY <2>2 DEF FormatAnnounceMessage
  <2> QED
    BY <2>3, <2>4, HumanizeCorrect DEF IntervalTold
<1>3. ASSUME FlowInv PROVE CapKept
  <2>1. SUFFICES ASSUME NEW i \in DOMAIN intro, NEW l \in DOMAIN intro[i].limit,
                        NEW j \in DOMAIN message
                 PROVE  row[1].price <= settings.WORKER_MAX_PRICE
    BY DEF CapKept
  <2>2. intro # <<>> /\ message # <<>>
    BY <2>1
  <2>3. settings.WORKER_MAX_PRICE \in Int
    BY <1>1, <1>3, <2>2, SettingsTyped, Kinds
  <2>4. intro[i] = FormatAnnounceMessage(settings)
    BY <1>1, <1>3, <2>2, <2>1
  <2>5. settings.WORKER_MAX_PRICE > 0
    BY <2>1, <2>4 DEF FormatAnnounceMessage
  <2>6. WithinCap(row[1])
    BY <1>3, <2>2 DEF FlowInv, ShownInv
  <2> QED
    BY <2>3, <2>5, <2>6 DEF WithinCap
<1>4. ASSUME FlowInv, NEW i \in DOMAIN intro
      PROVE  /\ CitiesTold(intro[i].from, settings.WORKER_ORIGINS)
             /\ CitiesTold(intro[i].to, settings.WORKER_DESTINATIONS)
  <2>1. intro # <<>>
    BY <1>4
  <2>2. intro[i] = FormatAnnounceMessage(settings)
    BY <1>1, <1>4, <2>1
  <2>3. /\ settings.WORKER_ORIGINS \in Seq(Codes)
        /\ settings.WORKER_DESTINATIONS \in Seq(Codes)
    BY <1>4, SettingsAlwaysTyped, Kinds
  <2>4. ASSUME NEW codes, codes \in Seq(Codes)
        PROVE  CitiesTold(JoinNames(codes), codes)
    BY <2>4, JoinNamesCorrect DEF CitiesTold
  <2> QED
    BY <2>2, <2>3, <2>4 DEF FormatAnnounceMessage
<1>5. FlowInv => AnnouncementExact
  BY <1>2, <1>3, <1>4 DEF AnnouncementExact
<1> QED
  BY <1>5, Flows, PTL

-----------------------------------------------------------------------------
(* What amounts show.                                                      *)

\* The digits of a number are read as that number.
LEMMA DigitsRead ==
  ASSUME NEW m \in Nat, m < Power(10)[IntBits]
  PROVE  NumberOf(FormatInt(m)) = m
<1> DEFINE digits == FormatInt(m)
           l == Len(digits)
           ten == Power(10)
           next(v, n) == 10 * v + digits[n]
           V == Int
           round == [n \in 1..l |-> [v \in V |-> next(v, n)]]
           read == CHOOSE f : f = [n \in 0..l |->
                                     IF n = 0 THEN 0 ELSE next(f[n - 1], n)]
<1>1. /\ digits \in Seq(Digit) /\ l \in 1..IntBits /\ m < ten[l]
      /\ \A i \in 1..l : digits[i] = (m \div ten[l - i]) % 10
  BY FormatIntCorrect
<1>2. IntBits \in Nat
  BY FormattingAssumption
<1>3. /\ ten[0] = 1 /\ \A n \in 0..IntBits : ten[n] \in Nat \ {0}
      /\ \A n \in 1..IntBits : ten[n] = 10 * ten[n - 1]
  BY PowerCorrect
<1>4. NumberOf(digits) = read[l]
  BY DEF NumberOf
<1>5. \A i \in 1..l : digits[i] \in Int
  <2> HIDE DEF digits
  <2>1. \A i \in 1..l : digits[i] \in Digit
    <3> HIDE DEF Digit
    <3> QED
      BY <1>1
  <2> QED
    BY <2>1 DEF Digit
<1> HIDE DEF digits, l, ten
<1>0. l \in Nat
  BY <1>1, <1>2
<1>6. 0 \in V /\ \A v \in V, n \in 1..l : next(v, n) \in V
  BY <1>5
<1> HIDE DEF V
<1>7. round \in Rounds(l, V) /\ \A n \in 1..l, v \in V : round[n][v] = next(v, n)
  BY <1>6 DEF Rounds
<1> HIDE DEF round, next
<1>8. \E f : f = [n \in 0..l |-> IF n = 0 THEN 0 ELSE next(f[n - 1], n)]
  <2>1. PICK f : IsLoop(f, l, V, 0, round)
    BY <1>0, <1>6, <1>7, LoopExists
  <2>2. \A n \in 0..l : f[n] = IF n = 0 THEN 0 ELSE next(f[n - 1], n)
    BY <1>0, <1>7, <2>1 DEF IsLoop
  <2>3. f = [n \in 0..l |-> IF n = 0 THEN 0 ELSE next(f[n - 1], n)]
    BY <2>1, <2>2 DEF IsLoop
  <2> QED
    BY <2>3
<1>9. read = [n \in 0..l |-> IF n = 0 THEN 0 ELSE next(read[n - 1], n)]
  BY <1>8
<1> HIDE DEF read
<1>10. read[0] = 0 /\ \A n \in 1..l : read[n] = next(read[n - 1], n)
  BY <1>1, <1>9
<1> DEFINE S == {n \in 0..l : read[n] = m \div ten[l - n]}
<1>11. 0 \in S
  <2> DEFINE p == ten[l]
  <2>1. p \in Nat \ {0} /\ m < p /\ l - 0 = l
    BY <1>1, <1>2, <1>3
  <2> HIDE DEF p
  <2>2. m \div p = 0
    BY <2>1
  <2> QED
    BY <1>1, <1>10, <2>1, <2>2 DEF p
<1>12. ASSUME NEW n \in 0..(l - 1), n \in S
       PROVE  n + 1 \in S
  <2> DEFINE p == ten[l - (n + 1)]
  <2>1. /\ n + 1 \in 1..l /\ n + 1 \in 0..l /\ (n + 1) - 1 = n
        /\ l - n \in 1..IntBits /\ (l - n) - 1 = l - (n + 1)
        /\ l - (n + 1) \in 0..IntBits
    BY <1>1, <1>2
  <2>2. p \in Nat \ {0} /\ ten[l - n] = 10 * p
    BY <1>3, <2>1
  <2>3. read[n + 1] = 10 * read[n] + digits[n + 1]
    BY <1>10, <2>1 DEF next
  <2>4. read[n] = m \div (10 * p)
    BY <1>12, <2>2
  <2>5. digits[n + 1] = (m \div p) % 10
    BY <1>1, <2>1
  <2> HIDE DEF p
  <2>6. read[n + 1] = m \div p
    BY <2>2, <2>3, <2>4, <2>5, DigitStep
  <2> QED
    BY <2>1, <2>6 DEF p
<1> HIDE DEF S
<1>13. \A n \in 0..l : n \in S
  BY <1>0, <1>11, <1>12, InductionUpTo
<1>14. l \in S
  BY <1>0, <1>13
<1>15. read[l] = m \div ten[0]
  <2>1. l - l = 0
    BY <1>1
  <2> QED
    BY <1>14, <2>1 DEF S
<1> QED
  BY <1>3, <1>4, <1>15 DEF digits

\* A reader of the groups of a number reads the number.
LEMMA GroupsRead ==
  ASSUME NEW m \in Nat, m < Power(10)[IntBits], NEW neg \in BOOLEAN
  PROVE  LET amount == [neg |-> neg, groups |-> Groups(FormatInt(m))]
         IN  Reads(amount, IF neg THEN -m ELSE m)
<1> DEFINE digits == FormatInt(m)
           l == Len(digits)
           groups == Groups(digits)
           amount == [neg |-> neg, groups |-> groups]
<1>1. /\ digits \in Seq(Digit) /\ l \in Nat \ {0} /\ digits # <<>>
      /\ m # 0 => digits[1] # 0
  <2>1. /\ digits \in Seq(Digit) /\ l \in 1..IntBits
        /\ m # 0 => digits[1] # 0
    BY FormatIntCorrect
  <2>2. IntBits \in Nat
    BY FormattingAssumption
  <2> HIDE DEF digits
  <2> QED
    BY <2>1, <2>2
<1> HIDE DEF digits
<1>2. /\ groups \in Seq(Seq(Digit)) /\ Len(groups) = GroupCount(l)
      /\ groups[1] = SubSeq(digits, 1, GroupEnd(l, 1))
      /\ \A i \in 2..Len(groups) :
           groups[i] = SubSeq(digits, GroupEnd(l, i - 1) + 1, GroupEnd(l, i))
  BY <1>1, GroupsCorrect
<1>3. FlattenSeq(groups) = digits
  BY <1>1, GroupsFlatten
<1> HIDE DEF groups
<1>4. /\ GroupCount(l) \in Nat \ {0} /\ GroupEnd(l, 1) \in 1..3
      /\ \A i \in 1..GroupCount(l) : GroupEnd(l, i) \in 1..l
      /\ \A i \in Int : GroupEnd(l, i + 1) = GroupEnd(l, i) + 3
  BY <1>1, GroupsAdjacent
<1>5. \A a, b \in 1..l : a <= b =>
        /\ Len(SubSeq(digits, a, b)) = b - a + 1
        /\ SubSeq(digits, a, b)[1] = digits[a]
  <2>1. ASSUME NEW a \in 1..l, NEW b \in 1..l, a <= b
        PROVE  /\ Len(SubSeq(digits, a, b)) = b - a + 1
               /\ SubSeq(digits, a, b)[1] = digits[a]
    BY <1>1, <2>1
  <2> QED
    BY <2>1
<1>6. Len(groups[1]) \in 1..3 /\ groups[1][1] = digits[1]
  <2> DEFINE b == GroupEnd(l, 1)
  <2>1. 1 \in 1..GroupCount(l)
    BY <1>4
  <2>2. b \in 1..l /\ b \in 1..3
    BY <1>4, <2>1
  <2>3. groups[1] = SubSeq(digits, 1, b)
    BY <1>2
  <2> HIDE DEF b, l
  <2>4. 1 \in 1..l /\ 1 <= b
    BY <1>1, <2>2
  <2>5. Len(groups[1]) = b - 1 + 1 /\ groups[1][1] = digits[1]
    BY <1>5, <2>2, <2>3, <2>4
  <2> QED
    BY <2>2, <2>5
<1>7. ASSUME NEW i \in 2..Len(groups)
      PROVE  Len(groups[i]) = 3
  <2>1. i - 1 \in Int /\ (i - 1) + 1 = i /\ i \in 1..GroupCount(l)
        /\ i - 1 \in 1..GroupCount(l)
    BY <1>2, <1>4
  <2>2. GroupEnd(l, i) = GroupEnd(l, i - 1) + 3
    BY <1>4, <2>1
  <2> DEFINE a == GroupEnd(l, i - 1) + 1
             b == GroupEnd(l, i)
  <2>3. a \in 1..l /\ b \in 1..l /\ b = a + 2
    <3> DEFINE e == GroupEnd(l, i - 1)
    <3>1. e \in 1..l /\ b \in 1..l /\ b = e + 3
      BY <1>4, <2>1, <2>2
    <3>2. a = e + 1 /\ l \in Nat
      BY <1>1
    <3> HIDE DEF a, e, b, l
    <3> QED
      BY <3>1, <3>2
  <2>4. groups[i] = SubSeq(digits, a, b)
    BY <1>2
  <2> HIDE DEF a, b
  <2> QED
    BY <1>5, <2>3, <2>4
<1>8. ASSUME NEW i \in DOMAIN groups
      PROVE  /\ Len(groups[i]) \in (IF i = 1 THEN 1..3 ELSE {3})
             /\ \A j \in DOMAIN groups[i] : groups[i][j] \in 0..9
  <2>1. i \in 1..Len(groups) /\ groups[i] \in Seq(Digit)
    BY <1>2
  <2>2. i = 1 \/ i \in 2..Len(groups)
    BY <1>2, <1>4, <2>1
  <2>3. \A j \in DOMAIN groups[i] : groups[i][j] \in 0..9
    <3>1. \A s \in Seq(Digit) : \A j \in DOMAIN s : s[j] \in Digit
      OBVIOUS
    <3> QED
      BY <2>1, <3>1 DEF Digit
  <2> QED
    BY <1>6, <1>7, <2>2, <2>3
<1>9. Read(amount) = IF neg THEN -m ELSE m
  <2>1. NumberOf(digits) = m
    BY DigitsRead DEF digits
  <2> QED
    BY <1>3, <2>1 DEF Read
<1>10. (IF neg THEN -m ELSE m) # 0 => groups[1][1] # 0
  BY <1>1, <1>6
<1> QED
  BY <1>8, <1>9, <1>10 DEF Reads, groups, digits

\* An amount is read as what it is of, whatever its sign, but for the number that
\* has no negation (publisher.go:214).
LEMMA AmountCorrect ==
  ASSUME NEW n \in Int64, n # MinInt
  PROVE  Reads(GroupThousands(n), n)
<1>1. /\ n \in Int /\ Magnitude(n) \in Nat
      /\ Magnitude(n) < Power(10)[IntBits]
  BY DigitsEnough, Int64Int
<1> DEFINE m == Magnitude(n)
           neg == n < 0
<1>2. m = IF n < 0 THEN Negate(n) ELSE n
  BY <1>1 DEF Magnitude, Negate
<1>3. n = IF neg THEN -m ELSE m
  BY <1>1 DEF Magnitude
<1>4. GroupThousands(n) = [neg |-> neg, groups |-> Groups(FormatInt(m))]
  BY <1>2 DEF GroupThousands
<1>5. neg \in BOOLEAN
  OBVIOUS
<1> HIDE DEF m, neg
<1> QED
  BY <1>1, <1>3, <1>4, <1>5, GroupsRead DEF m

\* Every amount the channel is shown, in a message or as the announced limit, is
\* the one stored or set, but for the smallest of an int64, and channel and API
\* show the price in the currency the prices API named (publisher.go:211,
\* travelpayouts/client.go:173, offers_handler.go:101).
THEOREM AmountsCorrect == Spec => []AmountsReadBack
<1>1. ASSUME FlowInv, NEW i \in DOMAIN message, row[1].price # MinInt
      PROVE  Reads(message[i].price.amount, row[1].price)
  <2>1. message # <<>> /\ message = <<FormatOfferMessage(row[1])>>
    BY <1>1 DEF FlowInv, ShownInv
  <2>2. message[i].price.amount = GroupThousands(row[1].price)
    BY <2>1 DEF FormatOfferMessage, FormatPrice
  <2>3. heard[1] \in Answers /\ row[1].price = heard[1].price
    BY <1>1, <2>1 DEF FlowInv, RowInv
  <2>4. row[1].price \in Int64
    BY <2>3, DataFlowAssumption
  <2> QED
    BY <1>1, <2>2, <2>4, AmountCorrect
<1>2. ASSUME FlowInv, NEW i \in DOMAIN intro, NEW j \in DOMAIN intro[i].limit
      PROVE  Reads(intro[i].limit[j].amount, settings.WORKER_MAX_PRICE)
  <2> DEFINE cap == settings.WORKER_MAX_PRICE
  <2>1. up = "up" /\ intro = <<FormatAnnounceMessage(settings)>>
    BY <1>2 DEF FlowInv, SettingsInv, QuietInv
  <2>2. i = 1 /\ intro[i].limit = IF cap > 0 THEN <<FormatPrice(cap, "RUB")>> ELSE <<>>
    BY <2>1 DEF FormatAnnounceMessage
  <2>3. cap > 0 /\ intro[i].limit[j].amount = GroupThousands(cap)
    BY <1>2, <2>2 DEF FormatPrice
  <2>4. cap \in Int64
    <3>1. env \in Environments /\ ~ Refused(env) /\ settings = Load(env)
      BY <1>2, <2>1 DEF FlowInv, SettingsInv
    <3>2. /\ "WORKER_MAX_PRICE" \in Variables \ DOMAIN Lists
          /\ "WORKER_MAX_PRICE" \in DOMAIN Ints
      BY Kinds DEF Variables
    <3>3. cap = Defaults.WORKER_MAX_PRICE
          \/ /\ "WORKER_MAX_PRICE" \in DOMAIN env
             /\ env.WORKER_MAX_PRICE # <<>> /\ cap = env.WORKER_MAX_PRICE[1]
      BY <3>1, <3>2, LoadedValue
    <3>4. Defaults.WORKER_MAX_PRICE = 0
      <4>1. "WORKER_MAX_PRICE" \notin DOMAIN Durations
        BY Kinds
      <4>2. Defaults["WORKER_MAX_PRICE"] = Ints["WORKER_MAX_PRICE"]
        BY <3>2, <4>1, KindsDisjoint DEF Defaults
      <4>3. Ints["WORKER_MAX_PRICE"] = 0
        BY DEF Ints
      <4> QED
        BY <4>2, <4>3
    <3> QED
      BY <2>3, <3>1, <3>2, <3>3, <3>4, DataFlowAssumption
  <2>5. cap # MinInt
    <3> HIDE DEF cap
    <3>1. cap \in Int
      BY <2>4, Int64Int
    <3> QED
      BY <2>3, <3>1, DigitsEnough
  <2> HIDE DEF cap
  <2> QED
    BY <2>3, <2>4, <2>5, AmountCorrect DEF cap
<1>3. ASSUME FlowInv, heard # <<>> PROVE CurrencyTold(row[1].currency)
  BY <1>3 DEF FlowInv, RowInv, CurrencyTold
<1>4. ASSUME FlowInv, NEW i \in DOMAIN message
      PROVE  CurrencyTold(message[i].price.currency)
  <2>1. message # <<>>
    BY <1>4
  <2>2. message = <<FormatOfferMessage(row[1])>> /\ heard # <<>>
    <3>1. message = <<FormatOfferMessage(row[1])>>
      BY <1>4, <2>1 DEF FlowInv, ShownInv
    <3>2. heard # <<>>
      BY <1>4, <2>1 DEF FlowInv, RowInv
    <3> QED
      BY <3>1, <3>2
  <2>3. message[i].price.currency = row[1].currency
    BY <1>4, <2>2 DEF FormatOfferMessage, FormatPrice
  <2> QED
    BY <1>3, <1>4, <2>2, <2>3
<1>5. ASSUME FlowInv, NEW i \in DOMAIN dto
      PROVE  dto[i].price = row[1].price /\ CurrencyTold(dto[i].currency)
  <2>1. dto # <<>>
    BY <1>5
  <2>2. dto = <<ToOfferDTO(row[1])>> /\ heard # <<>>
    <3>1. dto = <<ToOfferDTO(row[1])>>
      BY <1>5, <2>1 DEF FlowInv, ShownInv
    <3>2. heard # <<>>
      BY <1>5, <2>1 DEF FlowInv, RowInv
    <3> QED
      BY <3>1, <3>2
  <2>3. dto[i].price = row[1].price /\ dto[i].currency = row[1].currency
    BY <1>5, <2>2 DEF ToOfferDTO
  <2> QED
    BY <1>3, <1>5, <2>2, <2>3
<1>6. FlowInv => AmountsReadBack
  BY <1>1, <1>2, <1>4, <1>5 DEF AmountsReadBack
<1> QED
  BY <1>6, Flows, PTL
=============================================================================
