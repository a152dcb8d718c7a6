SPECIFICATION Spec
CONSTANTS
  Users = {u1, u2}
  Emails = {e1}
  Usernames = {n1}
  Passwords = {p1, p2}
  MaxCodes = 2
  Null = Null
  Handlers = {h1, h2}
  Workloads <- ResetWorkloads
  MayFail = FALSE
  SessionTTL = 2
  ResetTTL = 1
  MaxTime = 2
  MaxSessions = 2
SYMMETRY Symmetry
PROPERTIES CodesAreSingleUse
CHECK_DEADLOCK FALSE
