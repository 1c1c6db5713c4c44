SPECIFICATION Spec
CONSTANTS
  Clients = {c1, c2}
  Sockets = {a, b}
  Fds = {n1, n2}
  Buffer = 1
  MaxUnread = 1
  Polite = FALSE
  None = None
  Platforms = {"unix"}
  MaxStarts = 2
  MaxSends = 2
INVARIANTS
  TypeOK
  RightSocket
  EventsManaged
  StaysListed
  InOrder
  NothingMissed
SYMMETRY Symmetry
CHECK_DEADLOCK FALSE
