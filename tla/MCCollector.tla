---------------------------- MODULE MCCollector ----------------------------
(* Collector on two routes: what the constants stand for in TLC's runs.     *)
EXTENDS Collector, TLC

CONSTANTS
  mow,       \* an origin
  cxr, nha   \* an airport and its city, both listed as destinations

MCOrigins == <<mow>>
MCDestinations == <<cxr, nha>>
MCCityOf == (mow :> mow) @@ (cxr :> nha) @@ (nha :> nha)

MCKeys == [origin : {mow, nha}, destination : {mow, nha}, date : 0..3]

\* Sorted by price, as the API is asked to.
MCPriceLists == {<<1>>, <<2>>, <<1, 2>>}
=============================================================================
