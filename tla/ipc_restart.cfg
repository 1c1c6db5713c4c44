SPECIFICATION Spec
CONSTANTS
  Clients = {c1, c2}
  Sockets = {a}
  Fds = {n1}
  Buffer = 1
  MaxUnread = 1
  Polite = TRUE
  None = None
  Platforms = {"unix"}
  MaxStarts = 2
  MaxSends = 0
INVARIANT ManagedPolled
CHECK_DEADLOCK FALSE
