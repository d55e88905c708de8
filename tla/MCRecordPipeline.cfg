CONSTANTS
  c1 = c1
  c2 = c2
  Conns <- TwoConns
  MaxExchanges = 2
  MaxTime = 4
  Pipelining = TRUE
  Lag = 2
  MaxLost = 1
  Delay = 1
  MinLatency = 0
SPECIFICATION FairSpec
INVARIANTS MessagesUsedOnce ParsedPairsAreMatched OnlyOvertakenAreDropped
PROPERTY RecordsLeave
CHECK_DEADLOCK FALSE
