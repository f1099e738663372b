\* Two work loops and two connections; none of the cases of May.
SPECIFICATION Spec
CONSTANTS
  w1 = w1
  w2 = w2
  c1 = c1
  c2 = c2
  Worker <- MCWorker
  Conn <- MCConn
  Acceptor = Acceptor
  NoWorker = NoWorker
  May = {}
  MaxSweeps = 1
SYMMETRY Symmetric
INVARIANTS
  SocketClosedOnce
  OneOwner
  WayOut
  
  NothingLeft
  FailedListenCleansUp
  TypeOK
