\* Environments one variable away from a working one; servers in UTC and at +7.
SPECIFICATION Spec
CONSTANTS
  MaxInt32 = 2047
  IntBits = 21
  Upper <- MCUpper
  AirportNames <- MCAirportNames
  Environments <- MCEnvironments
  Answers <- MCAnswers
  Zones = {0, 7}
INVARIANTS
  FlowTypeOK
  LoadedAsSaid
  SilentUnlessConfigured
  CallsBounded
  AnnouncementExact
  AmountsReadBack
  DayKept
  LinksOpen
