CONSTANTS
    f1 = f1
    f2 = f2
    a1 = a1
    a2 = a2
    a3 = a3
    Fds <- OneFd
    Addrs <- TwoAddrs
    Kinds = {"syscall", "ssl"}
    Wanted = {"http"}
    Unwanted = {"mysql"}
    Delay = 0
    ConnLag = 3
    CloseWait = 1
    AddressReuse = FALSE
    MaxConns = 2
    MaxData = 2
    MaxTime = 5
SPECIFICATION FairSpec
INVARIANT AppliedInOrder
PROPERTY TablesDrain
CHECK_DEADLOCK FALSE
