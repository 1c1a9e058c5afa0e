CONSTANTS
    Node = {n1, n2}
    Msg = {m1, m2}
    Fanout = 1
    MaxHops = 3
    MaxAge = 1
    SeenTTL = 1
    MaxSeen = 1
    NotSent = NotSent
    MaxTime = 3
    Target = {t1, t2}
    Worker = {w1, w2}
    None = None
    \* As many slots as workers, one of which may stop for each target.
    Priority = {1, 2}
    MaxConcurrent = 2
    MaxRetries = 1
    ReplicationMaxAge = 2
    NanosPerSecond = 1000
    MaxJobs = 2
    MaxRequests = 3
    MaxLost = 1
    ReplicationMaxTime = 1
SPECIFICATION OverlaySpec
INVARIANTS DedupSound QueueSound
PROPERTIES GossipDiesOut 
CHECK_DEADLOCK FALSE
