SPECIFICATION UnitSpec
CONSTANTS
    Nil = Nil
    \* linked list
    Node = {n1, n2, n3}
    nil = nil
    Value = {a, nil}
    Inserter = {g}
    \* ordered set
    Item = {it1, it2}
    Items <- ItemLists
    User = {u, v}
    MaxIndex = 4
    \* timing wheel
    MaxTasks = 3
    defaultBucketLength = 3
    Ahead <- TimesAhead
    MaxTime = 6
    MaxOvertaken = 1
    \* single flight
    Key = {k1}
    Proc = {p1, p2, p3}
    MaxCalls = 2
SYMMETRY Symmetry
INVARIANTS
    ListSound
    SetSound
    WheelSound
    OnTime
    FlightSound
PROPERTY
    IsSequence
\* The bounds on time, keys and executions end the behaviours.
CHECK_DEADLOCK FALSE
