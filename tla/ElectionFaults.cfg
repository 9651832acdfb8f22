SPECIFICATION Spec
CONSTANTS
    Node = {n1, n2, n3}
    None = None
    MaxTerm = 1
    Fighter = {n1, n2}
    MaxSleeping = 1
    Restarter = {}
    MaxInc = 1
    MaxFaults = 1
    VoteLimit = 20
    VoteDrop = 10
SYMMETRY Symmetry
INVARIANTS
    
    OneWinnerPerTerm
    LeaderWonVotes
PROPERTIES
    LeadsOnlyAfterFight
CHECK_DEADLOCK FALSE
