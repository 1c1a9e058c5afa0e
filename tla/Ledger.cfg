CONSTANTS
    Node = {n1, n2}
    Payload = {p1, p2}
    Self = self
    ZeroPayload = zp
    TornPayload = tp
    Hash = {h1, h2}
    Script = {h2}
    Caller = {r1}
    Writer = {w1, w2}
    NoHash = NoHash
    EpochLength = 2
    MaxFutureSkew = 1
    MaxTime = 2
    MaxCounter = 2
    MaxPublished = 3
    \* One node, its clock in one epoch.
    FileMaxTime = 1
    \* A cache of one entry for two contents, one of which sanitising changes.
    Size <- UnitSize
    MaxItems = 1
    MaxBytes = 4
    ContentMaxTime = 3
    MaxCalls = 3
    MaxPuts = 2
SPECIFICATION LedgerSpec
INVARIANTS ChainIntact PrefixAgreement CopiesFaithful NoFutureEvents FileSound 
PROPERTY ImplementsReplicatedLog
SYMMETRY Symmetry
CHECK_DEADLOCK FALSE
