CONSTANTS
    Node = {n1, n2}
    Payload = {p1}
    Writers = {n1, n2}
    Peer = {q1, q2, q3}
    Seed = {q1}
    Host = {r1, r2}
    Content = {c1, c2}
    Address = {a1, a2}
    None = None
    EpochLength = 1
    MaxFutureSkew = 0
    CheckpointInterval = 1
    StaleThreshold = 0
    MaxTime = 1
    MaxRecords = 2
    MaxRequests = 1
    \* Three ledgers of at most two events.
    MaxEvents = 2
    \* A request and its answer, before and after a peer went stale.
    Stale = 0
    Fresh = 0
    DiscoveryMaxTime = 1
    MaxSent = 2
    \* Entries that are refreshed, expire and come back.
    EntryTTL = 1
    TableMaxTime = 3
    \* Two connections that share a limit of about one message a tick.
    Limits = {2, 3}
    Bytes = 2
    ConnectionMaxTime = 3
SPECIFICATION SyncSpec
PROPERTIES BridgedLogs
INVARIANTS SyncSound   IndexBacked 
CHECK_DEADLOCK FALSE
SYMMETRY Symmetry
