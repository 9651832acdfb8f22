SPECIFICATION Spec
CONSTANTS
    Node = {n1, n2, n3}
    None = None
    MaxTerm = 1
    Fighter = {n1, n2}
    MaxSleeping = 1
    Restarter = {n3}
    MaxInc = 2
    MaxFaults = 0
    VoteLimit = 20
    VoteDrop = 10
INVARIANTS
    VoteInv
SYMMETRY Symmetry
CHECK_DEADLOCK FALSE
