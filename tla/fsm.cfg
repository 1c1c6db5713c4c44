SPECIFICATION FairSpec
CONSTANTS
  off = off warm = warm ready = ready on = on go = go halt = halt
  None = None AnyEvent = AnyEvent
  Callers = {c1, c2}
  States = {off, warm, ready, on}
  Events = {go, halt}
  Params = {p1, p2, p3}
  Table <- Chain
  FirstState = off
  MaxWrites = 3
INVARIANTS
  ParamOwnedOrDeleted
  NothingStranded
PROPERTIES
  RunsToCompletion
  FireEventReturns
CHECK_DEADLOCK FALSE
