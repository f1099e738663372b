\* Two threads in a row; after the second start the owner may hang in join().
SPECIFICATION FairSpec
CONSTANTS
  Task = {t1, t2, t3, t4}
  Poster = {p1, p2}
  Stop = Stop
  NoTask = NoTask
  Nobody = Nobody
  MaxStarts = 2
INVARIANTS
  TypeOK
  NothingRunsBehindStop
  NoLostWakeup
  Quiescent
  ExitHookAfterTasks
PROPERTIES
  NoAcceptAfterDetach
  Implements
  EveryTaskSettles
  StartReturns
  FirstStopReturns
CHECK_DEADLOCK FALSE
