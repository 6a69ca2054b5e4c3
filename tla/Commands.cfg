SPECIFICATION Spec
CONSTANTS
  Kinds = {"request"}
  Base = 16
  ArraySize = 2
  Ipv4Len = 2
  Ipv6Len = 3
  Alphabet <- SmallAlphabet
  MaxFed = 9
  Unread = 2
INVARIANTS
  DeclaredCommands
CHECK_DEADLOCK FALSE
