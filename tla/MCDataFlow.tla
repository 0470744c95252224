----------------------------- MODULE MCDataFlow -----------------------------
(* DataFlow from a working environment, and all that differ from it in one  *)
(* or two variables.                                                        *)
EXTENDS DataFlow

MCUpper ==
  [t \in {"ovb", " OVB", "OVB"} |-> "OVB"]
    @@ [t \in {"cxr", "CXR"} |-> "CXR"]
    @@ [t \in {"nha", "NHA"} |-> "NHA"]
    @@ [t \in {"DAD"} |-> "DAD"]
    @@ [t \in {"rub", "RUB"} |-> "RUB"]
    @@ [t \in {"usd", "USD"} |-> "USD"]
    @@ [t \in {" "} |-> ""]

\* Two airports of one city, and one whose city is not known.
MCAirportNames == [CXR |-> "Nha Trang", NHA |-> "Nha Trang", OVB |-> "Novosibirsk"]

Working ==
  [v \in {"POSTGRES_USER", "POSTGRES_PASSWORD", "AVIASALES_TOKEN",
          "TELEGRAM_BOT_TOKEN", "TELEGRAM_CHANNEL_ID"} |-> <<"set">>]

\* A duration at, below and beyond the boundaries; a text that is none.
DurationTexts ==
  {<<>>} \cup {<<d>> : d \in {-1, 0, 200, Minute, 90000, 5 * Minute, 11 * Minute,
                              21 * Minute, 60 * Minute, 112 * Minute, 2 * Hour,
                              21 * Hour}}

\* What overflows an int32 is among them, above and below.
IntTexts == {<<>>} \cup {<<n>> : n \in {-1, 0, 1, 999, 1000, 5 + 2 * (MaxInt32 + 1),
                              5 - 2 * (MaxInt32 + 1)}}

TextsOf(v) ==
  CASE v = "WORKER_INTERVAL" -> DurationTexts
    [] v \in {"TELEGRAM_HTTP_TIMEOUT", "AVIASALES_HTTP_TIMEOUT"} ->
         {<<>>, <<-1>>, <<0>>, <<200>>}
    [] v \in {"POSTGRES_MAX_CONNS", "WORKER_MAX_PRICE"} -> IntTexts
    [] v \in DOMAIN Bools -> {<<>>, <<TRUE>>, <<FALSE>>}
    [] v \in DOMAIN Lists ->
         {<<<<"ovb", " ">>>>, <<<<" OVB", "OVB">>>>, <<<<"cxr", "nha">>>>, <<<<" ">>>>}
    [] v = "AVIASALES_CURRENCY" -> {<<"usd">>}
    [] v \in DOMAIN Durations -> {<<>>, <<0>>}
    [] v \in DOMAIN Ints -> {<<>>, <<0>>}
    [] OTHER -> {<<"set">>}

Without(e, v) == [w \in DOMAIN e \ {v} |-> e[w]]

MCEnvironments ==
  {Working}
    \cup {Without(Working, v) : v \in DOMAIN Working}
    \cup UNION {{(v :> t) @@ Working : t \in TextsOf(v)} : v \in DOMAIN Defaults}

Offer ==
  [currency |-> "", origin |-> "OVB", destination |-> "CXR", price |-> 12345,
   transfers |-> 0, departureAt |-> <<[wall |-> 240, offset |-> 0]>>,
   returnAt |-> <<>>, link |-> <<"path">>]

\* Around midnight, in Novosibirsk, in New York, and as a bare date in UTC.
Departures ==
  {<<[wall |-> w, offset |-> o]>> : w \in {239, 240, 246, 247}, o \in {-5, 7}}
    \cup {<<>>, <<[wall |-> 240, offset |-> 0]>>}

\* Amounts at the group boundaries and at the ends of an int64.
Amounts == {MinInt, -1000, 0, 999, 1000, 1000000, -(MinInt + 1)}

MCAnswers ==
  {[Offer EXCEPT !.departureAt = t] : t \in Departures}
    \cup {[Offer EXCEPT !.returnAt = <<[wall |-> 300, offset |-> 7]>>]}
    \cup {[Offer EXCEPT !.price = n] : n \in Amounts}
    \cup {[Offer EXCEPT !.link = l] :
            l \in {<<>>, <<"base", "path">>, <<"other", "path">>}}
    \cup {[Offer EXCEPT !.currency = "rub", !.transfers = 2]}
=============================================================================
