CONSTANTS
    Node = {n1, n2}
    SigningKey = {k1, k2}
    NoKey = NoKey
    NoRevocation = NoRevocation
    RevocationLife = 2
    Skew = 0
    Recent = 0
    MaxRevocations = 2
    MaxTime = 2
SPECIFICATION Spec
INVARIANT RotationPropagates
CHECK_DEADLOCK FALSE
