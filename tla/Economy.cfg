CONSTANTS
    Node = {n1, n2}
    KeyType = {k1}
    Thread = {t1, t2}
    KeyCount = {2}
    MaxVouch = 1
    MaxKeys = 4
    MaxPapers = 2
    Earner = {e1}
    Voucher = {v1, v2}
    Peer = {q1, q2, q3}
    None = None
    \* Two epochs; a request of 8 is beyond the limit but does not wrap.
    Batch = {200}
    IssuanceKeyCount = {1, 2, 8}
    EpochLength = 2
    Month = 2
    ActiveFor = 1
    InactiveFor = 1
    MinScore = 100
    MaxPerEpoch = 3
    Wrap = 16
    MaxCount = 200
    IssuanceMaxTime = 3
    \* One good deed is enough to vouch, one bad one to lose it all.
    Action = {"HOST_THING", "NETWORK_VIOLATION"}
    Delta = {20}
    Requirement = 1
    MaxVouches = 1
    Floor = 0
    Ceiling = 1
    MaxImpact = 50
    ValidFor = 1
    MaxRecords = 2
    MaxAttestations = 1
    ReputationMaxTime = 1
    \* Weights of 1 and 1/2, that decay below both thresholds.
    Unit = 16
    Weight = {8, 16}
    Trusting = 4
    Weak = 4
    HalfLife = 16
    MaxHops = 2
SPECIFICATION EconomySpec
CHECK_DEADLOCK FALSE
SYMMETRY Symmetry
INVARIANTS KeysConserved IndexAgrees IssuanceSound  
