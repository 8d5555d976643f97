SPECIFICATION FairSpec
CONSTANTS
  Requests = {r1, r2}
  Zones = {freporte, qeynos}
  None = None
  MaxZoneThreads = 2
  MaxSignals = 2
  MaxFailures = 1
INVARIANT ClientsHaveOneOwner
INVARIANT HandedToItsZone
INVARIANT StoppedInOrder
PROPERTY RequestsEnd
PROPERTY ShutdownEnds
CHECK_DEADLOCK FALSE
