\* The worker stops when told to; until then it cycles on and publishes, though
\* one offer is refused every time.
SPECIFICATION FairSpec
CONSTANTS
  mow = mow
  aer = aer
  NoOffer = NoOffer
  Keys <- MCKeys
  Prices = {1, 2}
  DefaultOfferLimit = 2
  MaxOfferLimit = 2
  Origins <- MCOrigins
  Destinations <- MCDestinations
  CityOf <- MCCityOf
  WindowDays = 0
  PriceLists <- MCPriceLists
  RequestDelay = 1
  MaxDay = 0
  MaxMisses = 1
  Batches <- MCBatches
  Rejected <- MCRejected
  BatchSize = 0
  MaxPrice = 1
  PublishDelay = 1
  TelegramEnabled = TRUE
  MaxFaults = 1
  MaxNow = 1
  Interval = 1
PROPERTIES
  StopsWhenCancelled
  CycleFollowsCycle
  PassTerminates
  EveryOfferPublished
