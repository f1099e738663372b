SPECIFICATION FairSpec
CONSTANTS
  User = {u1, u2, u3}
  Job = {j1}
  Client = {c1, c2, c3}
  Nobody = Nobody
  NoClient = NoClient
  MinSize = 1
  MaxSize = 2
  Patience = {"try", "forever"}
  Faults = {"spurious"}
  SharedInit = FALSE
  MaxInits = 2
INVARIANTS
  Cap
  OnlyCurrentUrl
  NothingOutlivesClose
  NoLostWakeup
PROPERTIES
  PoolServes
