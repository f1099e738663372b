\* close() on another thread while a loop opens a connection.
SPECIFICATION Spec
CONSTANTS
  a = a
  b = b
  j1 = j1
  j2 = j2
  j3 = j3
  Loop <- MCLoop
  Job <- MCJob
  Home <- MCHome
  Client = {c1, c2}
  NoJob = NoJob
  NoLoop = NoLoop
  MinSize = 1
  MaxSize = 2
  Faults = {"open", "send", "lost", "late", "queue", "async"}
  May = {"closeOpening"}
INVARIANTS
  ThreadSafe
