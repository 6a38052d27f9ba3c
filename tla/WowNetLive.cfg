SPECIFICATION PausingSpec
CONSTANTS
  c1 = c1
  c2 = c2
  c3 = c3
  Conns = {c1}
  Streams = {}
  NoConn = NoConn
  NumWorkers = 2
  MaxConnects = 2
  NonBlocking = TRUE
INVARIANT CountsExact
PROPERTIES DisconnectCompletes LockIsReleased
