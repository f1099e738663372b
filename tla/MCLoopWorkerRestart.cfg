SPECIFICATION FairSpec
CONSTANTS
  Task = {t1}
  Poster = {p1}
  Stop = Stop
  NoTask = NoTask
  Nobody = Nobody
  MaxStarts = 2
PROPERTIES
  StopReturns
CHECK_DEADLOCK FALSE
