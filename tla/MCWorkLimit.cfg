SPECIFICATION FairSpec
CONSTANTS
  Transfer = {f1, f2}
  Job = {j1, j2}
  NoTransfer = NoTransfer
  Limits = {1, 2}
  MaxChanges = 1
INVARIANTS
  TypeOK
  NoSlotLeak
  ReleaseSeesWaiters
PROPERTIES
  WaiterIsCalled
  DispatchEnds
CHECK_DEADLOCK FALSE
