CONSTANTS
    Node = {n1, n2}
    Party = {m1, m2, m3}
    DefaultMax = 2
    Net = {w1}
    Thing = {t1}
    Kinds = {"NODE_JOINED", "NODE_LEFT", "KEY_ISSUED", "KEY_REVOKED", "NETWORK_CREATED", "NETWORK_MEMBER_ADDED", "NETWORK_MEMBER_REMOVED", "THING_REPLICATED", "THING_REMOVED", "REPUTATION_UPDATED"}
    Counts = {1}
    InactivityThreshold = 0
    StaleThreshold = 0
    None = None
    MaxTime = 1
    MaxLog = 3
    \* Sizes at which one member more or less changes the target.
    Quorum <- LowQuorums
    DefaultTarget = 1
    SmallNetwork = 1
    MediumNetwork = 2
    MemberTimeout = 1
    ValidFor = 0
    MaxLetters = 2
    MembershipMaxTime = 1
    \* Two ids, and networks that change between a save and the next.
    RegistryThing = {"thing"}
    State = {"early", "late"}
    NewState = "new"
    MaxNetworks = 2
    MaxCounter = 2
SPECIFICATION NetworksSpec
INVARIANTS  RolesSound 
PROPERTY AdjustKeepsMinimum
SYMMETRY Symmetry
CHECK_DEADLOCK FALSE
