SPECIFICATION Spec
CONSTANTS
  Transfer = {f1}
  Job = {j1}
  NoTransfer = NoTransfer
  Limits = {1}
  MaxChanges = 0
INVARIANTS
  NoStrandedWaiter
CHECK_DEADLOCK FALSE
