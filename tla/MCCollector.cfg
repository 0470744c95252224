\* A collection: three codes, two days, failures at any point; and its end.
SPECIFICATION FairSpec
CONSTANTS
  mow = mow
  cxr = cxr
  nha = nha
  Keys <- MCKeys
  Prices = {1, 2}
  DefaultOfferLimit = 1
  MaxOfferLimit = 2
  Origins <- MCOrigins
  Destinations <- MCDestinations
  CityOf <- MCCityOf
  WindowDays = 1
  PriceLists <- MCPriceLists
  RequestDelay = 1
  MaxDay = 1
  MaxNow = 2
  MaxMisses = 2
INVARIANTS
  CollectorTypeOK
  AllRoutesAsked
  RoutesAccounted
  HeardIsStored
PROPERTIES
  CollectTerminates
