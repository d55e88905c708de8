CONSTANTS
    t1 = t1
    t2 = t2
    Threads <- TwoThreads
    Traffic <- AllTraffic
    Cipher <- ClientHello
    Wanted = {"http", "kafka", "redis"}
    Traced = "unset"
    MaxCalls = 3
SYMMETRY Symmetry
SPECIFICATION Spec
INVARIANTS SeqIsPosition TlsRange InferredIsSpoken KnownIsReported HeaderBelongsToBody NoCiphertext StateMatchesProtocol
CHECK_DEADLOCK FALSE
