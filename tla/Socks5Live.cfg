SPECIFICATION FairSpec
CONSTANTS
  c1 = c1
  c2 = c2
  good = good
  wrong = wrong
  Absent = Absent
  Conns = {c1}
  Creds = {good, wrong}
  Scripts <- EveryScript
  HelloLen = 2
  AuthLen = 2
  RequestLen = 2
  ReplyLen = 2
  MaxConnections = 1
  MaxAddrs = 2
  MaxAdmin = 1
  Env <- ResetFaults
CHECK_DEADLOCK FALSE
PROPERTY RequestAnswered
