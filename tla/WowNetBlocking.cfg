SPECIFICATION FairSpec
CONSTANTS
  c1 = c1
  c2 = c2
  c3 = c3
  Conns = {c1}
  Streams = {c1}
  NoConn = NoConn
  NumWorkers = 1
  MaxConnects = 1
  NonBlocking = FALSE
PROPERTY LockIsReleased
