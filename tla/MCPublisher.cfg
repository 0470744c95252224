\* Safety of a pass: three offers, pages of two, failures at any point.
SPECIFICATION Spec
CONSTANTS
  k1 = k1
  k2 = k2
  k3 = k3
  NoOffer = NoOffer
  Keys <- MCKeys
  Prices = {1, 2}
  DefaultOfferLimit = 1
  MaxOfferLimit = 2
  Batches <- MCBatches
  Rejected = {}
  BatchSize = 5
  MaxPrice = 1
  PublishDelay = 3
  TelegramEnabled = TRUE
  MaxNow = 1
  MaxFaults = 2
INVARIANTS
  TypeOK
  AtLeastOnce
  DuplicatesExcused
  PageCurrent
  CleanReturn
  ResultAccounting
  DrainedUnlessBlocked
PROPERTIES
  NeverRepublished
  ImplementsDelivery
