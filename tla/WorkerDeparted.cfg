\* Offers left from an earlier day are published after their departure.
SPECIFICATION Spec
CONSTANTS
  mow = mow
  aer = aer
  NoOffer = NoOffer
  Keys <- MCKeys
  Prices = {1, 2}
  DefaultOfferLimit = 1
  MaxOfferLimit = 2
  Origins <- MCOrigins
  Destinations <- MCDestinations
  CityOf <- MCCityOf
  WindowDays = 0
  PriceLists <- MCPriceLists
  RequestDelay = 1
  MaxDay = 1
  MaxMisses = 0
  Batches <- MCBatches
  Rejected = {}
  BatchSize = 1
  MaxPrice = 1
  PublishDelay = 1
  TelegramEnabled = TRUE
  MaxFaults = 1
  MaxNow = 2
  Interval = 1
INVARIANTS
  NoDepartedOffer
