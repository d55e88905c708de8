CONSTANTS
    f1 = f1
    f2 = f2
    a1 = a1
    a2 = a2
    a3 = a3
    Fds <- TwoFds
    Addrs <- ThreeAddrs
    Kinds = {"syscall", "kern"}
    Wanted = {"http"}
    Unwanted = {"mysql"}
    Delay = 1
    ConnLag = 2
    CloseWait = 1
    AddressReuse = TRUE
    MaxConns = 3
    MaxData = 2
    MaxTime = 5
SYMMETRY Symmetry
SPECIFICATION Spec
INVARIANTS TraceStateReachesKernel AppliedToItsConnection ClosedOnlyAfterClose KeysMatchTracked
PROPERTIES WantedDataIsKept
CHECK_DEADLOCK FALSE
