SPECIFICATION FairSpec
CONSTANTS
  User = {u1, u2}
  Job = {j1}
  Client = {c1, c2, c3}
  Nobody = Nobody
  NoClient = NoClient
  MinSize = 1
  MaxSize = 2
  Patience = {"try", "timed", "forever"}
  Faults = {"open", "ping", "queue"}
  SharedInit = TRUE
  MaxInits = 2
INVARIANTS
  TypeOK
  OnePlace
  Reservations
  NoJobOutlivesPool
PROPERTIES
  Implements
  DestroyReturns
