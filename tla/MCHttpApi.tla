----------------------------- MODULE MCHttpApi -----------------------------
(* HttpApi with two clients and two routes: what the constants stand for.   *)
EXTENDS HttpApi, TLC

CONSTANTS mow, aer, c1, c2

MCClients == {c1, c2}

MCKeys ==
  {[origin |-> mow, destination |-> aer, date |-> 1],
   [origin |-> aer, destination |-> mow, date |-> 2]}

\* One row of everything; one origin, without a limit.
First == [origin |-> "", destination |-> "", limit |-> <<1>>]
FromMow == [origin |-> " mow", destination |-> "", limit |-> <<>>]

MCFilters == {First, FromMow}

MCUpper == (" mow" :> mow) @@ ("" :> "")

\* One client lists and posts a message, the other lists and asks for health:
\* every two handlers that share something meet.
MCAsks ==
  (c1 :> {[kind |-> "offers", filter |-> First]}
           \cup {[kind |-> k, filter |-> First] : k \in {"text", "invalid"}})
  @@
  (c2 :> {[kind |-> "offers", filter |-> FromMow]}
           \cup {[kind |-> k, filter |-> FromMow] : k \in {"ping", "preflight"}})

\* A collection stores one route: the second may come while a request that found
\* the first is on its way.
MCBatches == {<<[key |-> k, price |-> 1]>> : k \in MCKeys}
=============================================================================
