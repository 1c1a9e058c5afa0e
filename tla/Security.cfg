CONSTANTS
    Node = {n1, n2}
    Data = {d1, d2}
    HandshakeAge = 0
    SessionIdle = 1
    ConnectionIdle = 0
    ReconnectDelay = 1
    MaxAttempts = 1
    TargetPeers = 1
    Skew = {0, 1}
    None = None
    MaxKeys = 2
    MaxSent = 2
    MaxTime = 1
    Peer = {q1, q2}
    Holder = {h1}
    Address = {a1}
    Account = {u1}
    Caller = {c1, c2, c3}
    Context = {x1}
    SigningKey = {k1, k2}
    NoContext = NoContext
    NoKey = NoKey
    NoRevocation = NoRevocation
    First = s1
    Second = s2
    Third = s3
    Network = {w1}
    NoNetwork = NoNetwork
    \* More callers than an address may have, and time to be unblocked.
    MaxPerIp = 1
    BlockTime = 2
    CleanupEvery = 2
    MaxCount = 3
    GuardMaxTime = 3
    \* An hour, the time an entry goes stale and a few ticks more.
    Minute = 2
    Hour = 8
    Stale = 9
    PerMinute = 2
    PerHour = 2
    Burst = 3
    LimiterMaxTime = 13
    \* Three nodes and two kinds of activity.
    Nodes <- Three
    Activity = {"a", "b"}
    MaxLog = 4
    \* Balances and scores below and above what the gates ask for.
    KeyType = {"IDENTITY", "NODE", "NETWORK", "SERVICE", "ROUTING"}
    Balance = {0, 3}
    Score = {0, 100}
    AccessTokenLife = 1
    MaxTokens = 1
    AccessMaxTime = 1
    \* Tokens that outlive their revocation by nothing, by one tick or more.
    TokensTokenLife = 3
    TokensRevocationLife = 3
    TokensSkew = 0
    TokensRecent = 0
    MaxPerNode = 1
    TokensMaxRevocations = 2
    TokensMaxTime = 4
    \* Two revocations, one of which may replace what the other revoked.
    KeysRevocationLife = 2
    KeysSkew = 0
    KeysRecent = 0
    KeysMaxRevocations = 2
    KeysMaxTime = 2
SPECIFICATION SecuritySpec
INVARIANTS ChannelSound  RateHolds GroupsSound  RefusedUntilExpiry 
PROPERTY ActiveSessionKept
SYMMETRY Symmetry
CHECK_DEADLOCK FALSE
