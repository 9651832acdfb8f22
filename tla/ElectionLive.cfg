SPECIFICATION FairSpec
CONSTANTS
    Node = {n1, n2, n3, n4}
    None = None
    MaxTerm = 1
    Fighter = {n1}
    MaxSleeping = 1
    Restarter = {}
    MaxInc = 1
    MaxFaults = 0
    VoteLimit = 20
    VoteDrop = 10
PROPERTIES
    LeaderEmerges
CHECK_DEADLOCK FALSE
