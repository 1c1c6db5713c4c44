SPECIFICATION Spec
CONSTANTS
  w1 = w1 w2 = w2 m1 = m1 m2 = m2 m3 = m3
  oneShot1 = oneShot1 cyclic1 = cyclic1 cyclic2 = cyclic2 oneShot0 = oneShot0
  None = None
  Threads = {w1}
  Clients = {c1}
  Messages = {}
  Timers = {oneShot1, cyclic1}
  TimerId <- MCTimerId
  Cyclic <- MCCyclic
  MaxStops = 0
  MayDetach = FALSE
INVARIANT NoEarlyCallback
CHECK_DEADLOCK FALSE
