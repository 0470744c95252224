------------------------------ MODULE MCWorker ------------------------------
(* Worker on one route there and back: what the constants stand for.        *)
EXTENDS Worker, TLC

CONSTANTS
  mow,  \* the origin
  aer   \* the destination

MCOrigins == <<mow>>
MCDestinations == <<aer>>
MCCityOf == (mow :> mow) @@ (aer :> aer)

MCKeys ==
  {[origin |-> mow, destination |-> aer, date |-> d] : d \in 0..MaxDay}
    \cup {[origin |-> aer, destination |-> mow, date |-> d] : d \in 0..MaxDay}

MCPriceLists == {<<1>>, <<1, 2>>}

MCOnePrice == {<<1>>}

\* What those answers come to as batches.
MCBatches ==
  {[i \in DOMAIN prices |-> [key |-> k, price |-> prices[i]]] :
     k \in Keys, prices \in PriceLists}

\* The way there is refused every time, the way back never.
MCRejected == {k \in MCKeys : k.origin = mow}
=============================================================================
