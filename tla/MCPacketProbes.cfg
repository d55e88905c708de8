SPECIFICATION Spec
CONSTANTS
    SeqSpace = 8
    Handshakes <- TwoHandshakes
    MaxConns = 2
    MaxNatConns = 1
    MaxBytes = 2
    Lens = {1}
    MaxWire = 1
    MaxFirsts = 1
INVARIANTS NumbersAgree TrackedIsNumbered FirstPacketIsFirst
CHECK_DEADLOCK FALSE
