SPECIFICATION Spec
CONSTANTS
  c1 = c1
  c2 = c2
  good = good
  wrong = wrong
  Absent = Absent
  Conns = {c1, c2}
  Creds = {good, wrong}
  Scripts <- SomeScripts
  HelloLen = 1
  AuthLen = 1
  RequestLen = 1
  ReplyLen = 2
  MaxConnections = 1
  MaxAddrs = 1
  MaxAdmin = 1
  Env <- ResetFaults
CHECK_DEADLOCK FALSE
INVARIANT CurrentCounts
PROPERTY ImplementsProxy
