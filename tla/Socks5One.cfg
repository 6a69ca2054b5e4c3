SPECIFICATION Spec
CONSTANTS
  c1 = c1
  c2 = c2
  good = good
  wrong = wrong
  Absent = Absent
  Conns = {c1}
  Creds = {good, wrong}
  Scripts <- EveryScript
  HelloLen = 2
  AuthLen = 2
  RequestLen = 2
  ReplyLen = 2
  MaxConnections = 1
  MaxAddrs = 3
  MaxAdmin = 2
  Env <- AllFaults
CHECK_DEADLOCK FALSE
INVARIANTS
  TypeOK
  EventHasHandler
  ResolverAlone
  RequestNeedsAuth
  SuccessIsTrue
  NoDangling
  Reclaimed
