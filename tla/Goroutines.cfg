SPECIFICATION UnitSpec
CONSTANTS
    Nil = Nil
    \* goroutine pool
    Caller = {c1, c2}
    Job = {j1, j2, j3}
    ExitJob = {j3}
    Task = {o1, o2}
    Worker = {w1, w2, w3}
    MaxCap = 1
    ScaleThreshold = 1
    \* single-flight group
    Key = {k1}
    Proc = {p1, p2}
    MaxCalls = 2
    Outcome = {"return", "panic", "goexit"}
INVARIANTS
    NoStrandedTask
    CapBound
    PoolInv
PROPERTIES
    FIFO
    EveryTaskRuns
    WorkersLeave
    FlightEnds
