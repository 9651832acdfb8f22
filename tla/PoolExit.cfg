SPECIFICATION Spec
CONSTANTS
    Caller = {c1}
    Job = {j1, j2}
    ExitJob = {j1}
    Task = {o1, o2}
    Worker = {w1, w2}
    Nil = Nil
    MaxCap = 1
    ScaleThreshold = 1
INVARIANT WorkerCountIsRunning
