SPECIFICATION FairSpec
CONSTANTS
  Ips = {ip1, ip2}
  Homes = {ip1}
  Ports = {p1}
  Stubs = {s1, s2}
  Clients = {c1}
  Names = {n1}
  None = None
  Sweep = Sweep
  CampTimers = {t1}
  MaxPutOff = 7
  SweepPeriod = 2
  WaitTimeout = 1
  CampPeriod = 3
  MaxConnects = 2
  MaxPackets = 2
  MaxFailures = 1
INVARIANTS StubsLive PlaysItsOwn
PROPERTIES ExpiredAreSwept
CHECK_DEADLOCK FALSE
