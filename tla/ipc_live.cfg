SPECIFICATION FairSpec
CONSTANTS
  Clients = {c1, c2}
  Sockets = {a}
  Fds = {n1, n2}
  Buffer = 1
  MaxUnread = 1
  Polite = TRUE
  None = None
  Platforms = {"unix", "windows"}
  MaxStarts = 1
  MaxSends = 1
PROPERTIES
  Accepted
  Heard
  Unlisted
  QueueDrains
CHECK_DEADLOCK FALSE
