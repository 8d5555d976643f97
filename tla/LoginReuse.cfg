SPECIFICATION Spec
CONSTANTS
  Objects = {o1}
  Names = {n1, n2}
  Passwords = {p1, p2}
  None = None
  MaxSessions = 2
  MaxAttempts = 3
  MaxFailures = 1
  ReuseWhileQueried = TRUE
INVARIANTS AnswersMeetTheirClient
CHECK_DEADLOCK FALSE
