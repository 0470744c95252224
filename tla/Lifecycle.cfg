\* The process: two requests, three migrations, two faults, signals and kills.
SPECIFICATION FairSpec
CONSTANTS
  Requests = {r1, r2}
  WorkerEnabled = TRUE
  TelegramEnabled = TRUE
  Latest = 3
  MaxFaults = 2
INVARIANTS
  LifecycleTypeOK
  NothingOnClosedPool
  SchemaInPlace
PROPERTIES
  SignalEndsProcess
