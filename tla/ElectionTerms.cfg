SPECIFICATION Spec
CONSTANTS
    Node = {n1, n2, n3}
    None = None
    MaxTerm = 2
    Fighter = {n1, n2}
    MaxSleeping = 1
    Restarter = {}
    MaxInc = 1
    MaxFaults = 0
    VoteLimit = 1
    VoteDrop = 1
SYMMETRY Symmetry
INVARIANTS
    OneWinnerPerTerm
    OwnTermIsHighest
CHECK_DEADLOCK FALSE
