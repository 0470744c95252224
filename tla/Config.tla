------------------------------- MODULE Config -------------------------------
(***************************************************************************)
(* internal/config/config.go: Load, from the environment to the settings.  *)
(*                                                                         *)
(* An environment is a function on the variables that are set and not      *)
(* empty.  Its values are what the parser of the variable makes of the     *)
(* text: <<v>>, or <<>> where it refuses the text.  Durations are in       *)
(* milliseconds.  Of the texts only those are here that decide something.  *)
(***************************************************************************)
EXTENDS Integers, Sequences

CONSTANTS
  MaxInt32,  \* the largest int32
  Upper      \* the texts used, to upper case; trimmed, so a blank one to ""

\* The defaults.
Durations ==
  [HTTP_READ_TIMEOUT      |-> 15000,
   HTTP_WRITE_TIMEOUT     |-> 30000,
   HTTP_IDLE_TIMEOUT      |-> 60000,
   AVIASALES_HTTP_TIMEOUT |-> 30000,
   WORKER_INTERVAL        |-> 300000,
   WORKER_REQUEST_DELAY   |-> 200,
   WORKER_PUBLISH_DELAY   |-> 3000,
   TELEGRAM_HTTP_TIMEOUT  |-> 10000]

Ints ==
  [POSTGRES_MAX_CONNS   |-> 10,
   WORKER_MONTHS_AHEAD  |-> 3,
   WORKER_PUBLISH_BATCH |-> 10,
   WORKER_MAX_PRICE     |-> 0]

Bools ==
  [v \in {"WORKER_ENABLED", "WORKER_ONE_WAY", "WORKER_DIRECT",
          "TELEGRAM_ENABLED", "TELEGRAM_DISABLE_WEB_PAGE_PREVIEW"} |-> TRUE]

Lists ==
  [WORKER_ORIGINS      |-> <<"OVB">>,
   WORKER_DESTINATIONS |-> <<"CXR", "DAD">>]

Texts ==
  [AVIASALES_TOKEN     |-> "",
   AVIASALES_CURRENCY  |-> "rub",
   TELEGRAM_BOT_TOKEN  |-> "",
   TELEGRAM_CHANNEL_ID |-> "",
   POSTGRES_USER       |-> "",
   POSTGRES_PASSWORD   |-> ""]

\* The default number of connections is an int32, the default codes are trimmed
\* and in upper case.
ASSUME ConfigAssumption ==
  /\ MaxInt32 \in Nat /\ Ints.POSTGRES_MAX_CONNS <= MaxInt32
  /\ \A code \in {"OVB", "CXR", "DAD"} : code \in DOMAIN Upper /\ Upper[code] = code

Variables ==
  DOMAIN Durations \cup DOMAIN Ints \cup DOMAIN Bools \cup DOMAIN Lists
    \cup DOMAIN Texts

Defaults ==
  [v \in Variables |->
     CASE v \in DOMAIN Durations -> Durations[v]
       [] v \in DOMAIN Ints -> Ints[v]
       [] v \in DOMAIN Bools -> Bools[v]
       [] v \in DOMAIN Lists -> Lists[v]
       [] v \in DOMAIN Texts -> Texts[v]]

-----------------------------------------------------------------------------
\* Fault variant: a text that cannot be parsed counts as unset.
ParsedLeniently(env, v) ==
  IF v \in DOMAIN env /\ env[v] # <<>> THEN env[v] ELSE <<Defaults[v]>>

\* getEnv and the parsers: the default of what is unset or empty.
Parsed(env, v) == IF v \in DOMAIN env THEN env[v] ELSE <<Defaults[v]>>

Int32 == -(MaxInt32 + 1)..MaxInt32

\* int32(n): the bits beyond are lost.
Narrow(n) == ((n + (MaxInt32 + 1)) % (2 * (MaxInt32 + 1))) - (MaxInt32 + 1)

\* Fault variant: blank items stay.
ParseCSVBlanks(items) == [i \in DOMAIN items |-> Upper[items[i]]]

\* out is what is appended of the first n items.
ParseCSV(items) ==
  LET out[n \in 0..Len(items)] ==
        IF n = 0 THEN <<>>
        ELSE IF Upper[items[n]] = "" THEN out[n - 1]
             ELSE Append(out[n - 1], Upper[items[n]])
  IN  out[Len(items)]

\* What a list holds: texts in upper case, none blank.
Codes == {Upper[text] : text \in DOMAIN Upper} \ {""}

Refused(env) ==
  \/ \E v \in DOMAIN Defaults : Parsed(env, v) = <<>>
  \/ {"POSTGRES_USER", "POSTGRES_PASSWORD"} \ DOMAIN env # {}

\* The settings of an environment that is not refused.
Load(env) ==
  [v \in DOMAIN Defaults |->
     LET value == Parsed(env, v)[1]
     IN  CASE v \in DOMAIN Lists -> ParseCSV(value)
           [] v = "POSTGRES_MAX_CONNS" -> Narrow(value)
           [] OTHER -> value]
=============================================================================
