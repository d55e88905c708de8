CONSTANTS
    t1 = t1
    t2 = t2
    Threads <- TwoThreads
    Traffic <- KafkaOnly
    Cipher <- ClientHello
    Wanted = {"http", "kafka", "redis"}
    Traced = "unset"
    MaxCalls = 3
SYMMETRY Symmetry
SPECIFICATION Spec
INVARIANTS HeaderBelongs
CHECK_DEADLOCK FALSE
