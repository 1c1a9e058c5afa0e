CONSTANTS
    Node = {n1, n2, n3}
    MaxEvents = 2
SPECIFICATION Spec
INVARIANT QuorumIsMajority
CHECK_DEADLOCK FALSE
