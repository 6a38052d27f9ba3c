SPECIFICATION ConnectedSpec
CONSTANTS
  c1 = c1
  c2 = c2
  c3 = c3
  Conns = {c1, c2, c3}
  Streams = {c1, c2, c3}
  NoConn = NoConn
  NumWorkers = 2
  MaxConnects = 1
  NonBlocking = TRUE
INVARIANT NeverAssignedTwice
