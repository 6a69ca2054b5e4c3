SPECIFICATION Spec
CONSTANTS
  Kinds = {"admin_connect", "admin_get", "admin_put", "admin_edit",
           "admin_configbuff", "admin_configstatus", "admin_delete",
           "hello", "auth", "request"}
  Base = 16
  ArraySize = 2
  Ipv4Len = 2
  Ipv6Len = 3
  Alphabet <- SmallAlphabet
  MaxFed = 9
  Unread = 2
INVARIANTS
  TypeOK
  VerdictOfGrammar
  PayloadsKept
  SizeReadBack
  ReplyEchoes
CHECK_DEADLOCK FALSE
