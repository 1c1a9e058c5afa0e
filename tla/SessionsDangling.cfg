CONSTANTS
    Node = {n1, n2}
    Data = {d1, d2}
    HandshakeAge = 0
    SessionIdle = 1
    ConnectionIdle = 0
    ReconnectDelay = 1
    MaxAttempts = 1
    TargetPeers = 1
    Skew = {0, 1}
    None = None
    MaxKeys = 2
    MaxSent = 2
    MaxTime = 1
SPECIFICATION Spec
INVARIANT ConnectionHasSession
CHECK_DEADLOCK FALSE
