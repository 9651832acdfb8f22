SPECIFICATION UnitSpec
CONSTANTS
    Nil = Nil
    \* role and events
    Handler = {h1}
    Fighter = {f1}
    Event = {e1}
    EventCap = 1
    MaxOps = 2
    \* requests
    Node = {n1, n2}
    MaxCalls = 2
    MaxHeartbeats = 1
    \* connection
    Connector = {c1, c2}
    MaxFail = 2
    \* acceptor
    Session = {s1, s2, s3}
    \* reading
    ByteBase = 2
    MaxMessages = 2
    ReadSize = 6
    SessionId <- TwoBytes
    Message <- Messages
INVARIANTS
    RolesAgree
    CrashNeedsOverlap
    GaugeSound
    Complete
    ConnectionSound
    SessionsSound
    StreamSound
PROPERTIES
    EventEnds
    WaitEnds
    ReplacedUnlessOverlap
    Reaped
    IsChannel
    AllHandled
\* Nobody need start, dial, write or close anything.
CHECK_DEADLOCK FALSE
