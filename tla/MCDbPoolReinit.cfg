SPECIFICATION Spec
CONSTANTS
  User = {u1, u2}
  Job = {}
  Client = {c1, c2, c3}
  Nobody = Nobody
  NoClient = NoClient
  MinSize = 1
  MaxSize = 2
  Patience = {"try"}
  Faults = {}
  SharedInit = TRUE
  MaxInits = 2
INVARIANTS
  OnlyCurrentUrl
