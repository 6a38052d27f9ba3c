SPECIFICATION MCSpec
ACTION_CONSTRAINTS SecondIsLate OneConnects OneDisconnects
CONSTANTS
  c1 = c1
  c2 = c2
  c3 = c3
  Conns = {c1, c2}
  Streams = {c1}
  NoConn = NoConn
  NumWorkers = 2
  MaxConnects = 1
  NonBlocking = TRUE
INVARIANTS TypeOK CountsExact NoLostWakeup SettledConsistent AssertionsHold OneWorkerPerConnection
PROPERTY StreamsStopOnDisconnect
