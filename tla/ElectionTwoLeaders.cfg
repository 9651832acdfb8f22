SPECIFICATION Spec
CONSTANTS
    Node = {n1, n2, n3}
    None = None
    MaxTerm = 2
    Fighter = {n1, n2}
    MaxSleeping = 1
    Restarter = {}
    MaxInc = 1
    MaxFaults = 1
    VoteLimit = 20
    VoteDrop = 10
INVARIANT OneLeaderPerTerm
CHECK_DEADLOCK FALSE
SYMMETRY Symmetry
