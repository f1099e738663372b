\* Two loops and room for a connection each; uv_poll_start does not fail.
SPECIFICATION FairSpec
CONSTANTS
  a = a
  b = b
  j1 = j1
  j2 = j2
  j3 = j3
  Loop <- MCLoop
  Job <- MCJob
  Home <- MCHome
  Client = {c1, c2}
  NoJob = NoJob
  NoLoop = NoLoop
  MinSize = 1
  MaxSize = 2
  Faults = {"open", "send", "lost", "late", "queue", "async"}
  May = {}
INVARIANTS
  TypeOK
  OneUse
  CleanReuse
  WorkCounted
  PointersHold
PROPERTIES
  Implements
  EveryJobSettles
