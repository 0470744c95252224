\* The worker's cycles: collecting, publishing, stopping, crashing.
SPECIFICATION Spec
CONSTANTS
  mow = mow
  aer = aer
  NoOffer = NoOffer
  Keys <- MCKeys
  Prices = {1}
  DefaultOfferLimit = 1
  MaxOfferLimit = 2
  Origins <- MCOrigins
  Destinations <- MCDestinations
  CityOf <- MCCityOf
  WindowDays = 0
  PriceLists <- MCOnePrice
  RequestDelay = 1
  MaxDay = 1
  MaxMisses = 1
  Batches <- MCBatches
  Rejected = {}
  BatchSize = 1
  MaxPrice = 1
  PublishDelay = 1
  TelegramEnabled = TRUE
  MaxFaults = 1
  MaxNow = 1
  Interval = 1
INVARIANTS
  WorkerTypeOK
PROPERTIES
  ImplementsPublisher
