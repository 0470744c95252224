\* The announcement promises the best prices: the table keeps the last ones.
SPECIFICATION Spec
CONSTANTS
  mow = mow
  cxr = cxr
  nha = nha
  Keys <- MCKeys
  Prices = {1, 2}
  DefaultOfferLimit = 1
  MaxOfferLimit = 2
  Origins <- MCOrigins
  Destinations <- MCDestinations
  CityOf <- MCCityOf
  WindowDays = 1
  PriceLists <- MCPriceLists
  RequestDelay = 1
  MaxDay = 1
  MaxNow = 2
  MaxMisses = 0
INVARIANTS
  BestPriceStays
