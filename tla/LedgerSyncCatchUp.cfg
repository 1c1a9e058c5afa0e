CONSTANTS
    Node = {n1, n2}
    Payload = {p1}
    Writers = {n1}
    EpochLength = 1
    MaxFutureSkew = 0
    CheckpointInterval = 1
    StaleThreshold = 0
    MaxTime = 1
    MaxRecords = 2
    MaxRequests = 0
SPECIFICATION FairSpec
PROPERTY CatchUp
CHECK_DEADLOCK FALSE
