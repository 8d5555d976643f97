SPECIFICATION FairSpec
CONSTANTS
  Objects = {o1, o2}
  Accounts = {a1}
  Ips = {i1}
  Keys = {k1}
  Names = {n1}
  None = None
  Timeout = 1
  MaxTime = 3
  MaxSessions = 2
  MaxGrants = 1
  MaxLogins = 2
  MaxRequests = 2
  MaxFailures = 1
INVARIANTS TypeOK ActsOnGrants ListedAreLive
PROPERTIES NoneExpiredEarly WaitersEnd
CHECK_DEADLOCK FALSE
