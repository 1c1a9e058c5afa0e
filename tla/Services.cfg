CONSTANTS
    Node = {n1}
    KeyType = {"NODE"}
    Policy <- NodePolicy
    ThingIdle = 1
    ThingAge = 2
    MinHosts = 2
    ForgetAfter = 2
    None = None
    MaxActions = 1
    MaxHosts = 2
    MaxTime = 4
    Thread = {t1, t2}
    Client = {c1}
    Nobody = Nobody
    Relay = {r1, r2}
    Content = {c1}
    ClientId = {i1, i2}
    Event = {e1, e2}
    \* Two threads, one request more than sessions and than the limits allow.
    Minute = 1
    Hour = 2
    PerMinute = 2
    PerHour = 2
    MaxSessions = 2
    GatewayMaxRequests = 3
    GatewayMaxTime = 2
    \* One connection more than may be open.
    MaxConnections = 2
    MaxPerClient = 1
    MaxObjects = 3
    MaxCount = 4
    \* One request, with a hop limit of none and one above the maximum.
    HopLimit = {0, 3}
    MaxHopLimit = 2
    Path <- Paths
    Timeout = 1
    RouterMaxRequests = 1
    RouterMaxTime = 3
SPECIFICATION ServicesSpec
CONSTRAINT NodesOrThing
INVARIANTS  ClientRateHolds CountCoversSubscribers 
PROPERTIES CallersServed AnsweredUnlessBlocked
CHECK_DEADLOCK FALSE
