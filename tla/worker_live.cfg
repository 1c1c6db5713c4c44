SPECIFICATION FairSpec
CONSTANTS
  w1 = w1 w2 = w2 m1 = m1 m2 = m2 m3 = m3
  oneShot1 = oneShot1 cyclic1 = cyclic1 cyclic2 = cyclic2 oneShot0 = oneShot0
  None = None
  Threads = {w1, w2}
  Clients = {c1, c2}
  Messages = {m1, m2}
  Timers = {cyclic1}
  TimerId <- MCTimerId
  Cyclic <- MCCyclic
  MaxStops = 1
  MayDetach = FALSE
INVARIANT SingleDispatcher
PROPERTIES
  MailboxSpec
  MessagesHandled
  JoinReturns
  CyclicFires
CHECK_DEADLOCK FALSE
