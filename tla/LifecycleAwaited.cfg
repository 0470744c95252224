\* A request that outlasts the shutdown timeout: the worker is not waited for.
SPECIFICATION Spec
CONSTANTS
  Requests = {r1}
  WorkerEnabled = TRUE
  TelegramEnabled = TRUE
  Latest = 1
  MaxFaults = 0
INVARIANTS
  WorkerAwaited
