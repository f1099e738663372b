\* One work loop and one connection; on_close may take the client over.
SPECIFICATION Spec
CONSTANTS
  w1 = w1
  w2 = w2
  c1 = c1
  c2 = c2
  Worker = {w1}
  Conn = {c1}
  Acceptor = Acceptor
  NoWorker = NoWorker
  May = {"takeInside"}
  MaxSweeps = 0
INVARIANTS
  TakenIsLeftAlone
