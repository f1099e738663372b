SPECIFICATION Spec
CONSTANTS
  User = {u1, u2}
  Job = {}
  Client = {c1, c2}
  Nobody = Nobody
  NoClient = NoClient
  MinSize = 0
  MaxSize = 1
  Patience = {"forever"}
  Faults = {"open"}
  SharedInit = FALSE
  MaxInits = 1
INVARIANTS
  NoLostWakeup
