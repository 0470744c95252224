\* A page full of failures: the rest of the backlog waits for another pass.
SPECIFICATION Spec
CONSTANTS
  k1 = k1
  k2 = k2
  k3 = k3
  NoOffer = NoOffer
  Keys <- MCKeys
  Prices = {1}
  DefaultOfferLimit = 2
  MaxOfferLimit = 2
  Batches <- MCBatches
  Rejected = {}
  BatchSize = 2
  MaxPrice = 0
  PublishDelay = 1
  TelegramEnabled = TRUE
  MaxNow = 1
  MaxFaults = 2
INVARIANTS
  FullyDrained
