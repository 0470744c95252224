\* A server in UTC, as in the container, and departures in Novosibirsk.
SPECIFICATION Spec
CONSTANTS
  MaxInt32 = 2047
  IntBits = 21
  Upper <- MCUpper
  AirportNames <- MCAirportNames
  Environments <- MCEnvironments
  Answers <- MCAnswers
  Zones = {0}
INVARIANTS
  MessageTellsDate
