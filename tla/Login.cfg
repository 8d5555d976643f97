SPECIFICATION FairSpec
CONSTANTS
  Objects = {o1, o2}
  Names = {n1, n2}
  Passwords = {p1, p2}
  None = None
  MaxSessions = 2
  MaxAttempts = 3
  MaxFailures = 1
  ReuseWhileQueried = FALSE
INVARIANTS TypeOK SessionsAreProven LoginAuthsAreProven AttemptsHaveOneQuery
PROPERTIES AttemptsEnd
CHECK_DEADLOCK FALSE
