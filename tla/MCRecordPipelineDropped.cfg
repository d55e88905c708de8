CONSTANTS
  c1 = c1
  c2 = c2
  Conns <- TwoConns
  MaxExchanges = 1
  MaxTime = 4
  Pipelining = FALSE
  Lag = 0
  MaxLost = 0
  Delay = 1
  MinLatency = 2
SPECIFICATION Spec
INVARIANT NoRecordDropped
CHECK_DEADLOCK FALSE
