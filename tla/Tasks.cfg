SPECIFICATION UnitSpec
CONSTANTS
    Nil = Nil
    \* rounds
    parallelism = 1
    Caller <- Pushers
    Task <- RoundTask
    ID <- Zero
    RetryLimit <- JobRetries
    Failing <- FirstJob
    Panicking = {}
    Me = Me
    Peer = {p}
    MaxFuncs = 1
    MaxRound = 1
    i1 = i1  i2 = i2
    Ip = {i1, i2}
    CutLists <- Long
    Threshold = 1
    \* second worker
    b0 = b0  b1 = b1  b2 = b2
    Putter = {e1, e2}
INVARIANTS
    RoundsSound
    WorkerSound
    SecondSound

    
    
\* Nobody need call anything: the units may come to rest.
CHECK_DEADLOCK FALSE
