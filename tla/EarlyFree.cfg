SPECIFICATION Spec
CONSTANTS
  c1 = c1
  c2 = c2
  good = good
  wrong = wrong
  Absent = Absent
  Conns = {c1}
  Creds = {good, wrong}
  Scripts <- DomainScript
  HelloLen = 2
  AuthLen = 2
  RequestLen = 2
  ReplyLen = 2
  MaxConnections = 1
  MaxAddrs = 2
  MaxAdmin = 0
  Env <- NoFaults
CHECK_DEADLOCK FALSE
INVARIANT ToFreeIsLastOwner
