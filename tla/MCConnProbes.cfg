CONSTANTS
    t1 = t1
    t2 = t2
    f1 = f1
    f2 = f2
    Threads <- TwoThreads
    Fds <- TwoFds
    Addrs <- TwoAddrs
    Loopback <- BothEnds
    Filters <- TwoFilters
    MaxConns = 3
    MaxPending = 1
SYMMETRY Symmetry
SPECIFICATION Spec
PROPERTY EntriesHaveSockets
INVARIANTS PacketsReachTheirConnection DataReachesItsConnection ClosedOnlyAfterClose LeftClean WantedPortsOnly
CHECK_DEADLOCK FALSE
