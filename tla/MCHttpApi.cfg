\* Two clients and the worker on one connection.
SPECIFICATION FairSpec
CONSTANTS
  mow = mow
  aer = aer
  c1 = c1
  c2 = c2
  NoRequest = NoRequest
  Clients <- MCClients
  Keys <- MCKeys
  Prices = {1}
  DefaultOfferLimit = 2
  MaxOfferLimit = 2
  Filters <- MCFilters
  Upper <- MCUpper
  Asks <- MCAsks
  Batches <- MCBatches
  MaxConns = 1
  TelegramEnabled = TRUE
  MaxTries = 2
  MaxNow = 2
  MaxFaults = 1
INVARIANTS
  HttpTypeOK
  ConnsAccounted
  LeavesNothingOut
  RetriesAccounted
PROPERTIES
  SentMeansPosted
  EveryRequestEnds
  ContextFrees
  WorkerServed
