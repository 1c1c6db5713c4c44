SPECIFICATION FairSpec
CONSTANT Threads = {t1, t2}
INVARIANTS
  RunningCoversThread
  SingleShotOnce
  LateOnce
PROPERTIES
  ComesToRest
