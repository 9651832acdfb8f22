------------------------------ MODULE Connection ------------------------------
(***************************************************************************)
(* How a cluster member holds its connection to one other node             *)
(* (src/cluster/contact.go holdConnection, connectToNode, genNodeHandler,  *)
(* heartbeat; service.go Close; src/nio/client.go Connect and Close): the  *)
(* goroutines that create, use and close connectors, and the callbacks     *)
(* that run in goroutines of their own after a connector was closed.       *)
(* What the callbacks do to the election is in Election.                   *)
(***************************************************************************)
EXTENDS Integers, FiniteSets

CONSTANTS
    Connector,      \* connector objects; one that nobody refers to is used again
    MaxFail,        \* bound: how often connections fail or time out
    Nil

VARIABLES
    status,         \* cluster.status: "open" or "closed"
    nodeConnector,  \* targetNode.nodeConnector
    alive,          \* whether nodesAlive holds the node
    heard,          \* whether targetNode.hbTime is set
    conns,          \* conns[c]: link, socket.closed and whether readIo runs
    called, halfway,\* OnSessionClosed goroutines of c: not started, between their writes
    hold,           \* holdConnection: where it is, and with which connector
    hb,             \* heartbeat: "idle" or "close" (has found a timeout)
    closing,        \* Close: "no", "check", "close", "nil", "done" or "panic"
    fails,
    overlap         \* history: a close and a connect have overlapped

vars == <<status, nodeConnector, alive, heard, conns, called, halfway, hold, hb, closing, fails, overlap>>

NewConnector == [link |-> "none", closed |-> FALSE, reading |-> FALSE]
Connecting == hold.at \in {"sync", "store"}
Sleeping == [at |-> "sleep", c |-> Nil]

\* No variable and no goroutine refers to c any more.
Unreferenced(c) ==
    /\ c # nodeConnector /\ c # hold.c /\ ~conns[c].reading
    /\ called[c] = 0 /\ halfway[c] = 0

\* SocketConnector.Close: the flag, a goroutine for the callback, the connection.
Close(c) ==
    /\ conns' = [conns EXCEPT ![c].closed = TRUE, ![c].link = "closed"]
    /\ called' = [called EXCEPT ![c] = @ + 1]

-------------------------------------------------------------------------------
(* holdConnection and connectToNode *)

\* A node without connector is dialled; a dial that fails changes nothing.
HoldDials(c) ==
    /\ hold.at = "sleep" /\ status = "open" /\ nodeConnector = Nil /\ Unreferenced(c)
    /\ conns' = [conns EXCEPT ![c] = [NewConnector EXCEPT !.link = "open"]]
    /\ hold' = [at |-> "sync", c |-> c]
    /\ overlap' = (overlap \/ \E d \in Connector : halfway[d] > 0)
    /\ UNCHANGED <<status, nodeConnector, alive, heard, called, halfway, hb, closing, fails>>

HoldEnds ==
    /\ hold.at = "sleep" /\ status = "closed"
    /\ hold' = [at |-> "end", c |-> Nil]
    /\ UNCHANGED <<status, nodeConnector, alive, heard, conns, called, halfway, hb, closing, fails, overlap>>

\* Connect, after syncSessionId: OnSessionConnected, then readIo is started.
Synced ==
    /\ hold.at = "sync"
    /\ alive' = TRUE
    /\ conns' = [conns EXCEPT ![hold.c].reading = TRUE]
    /\ hold' = [hold EXCEPT !.at = "store"]
    /\ UNCHANGED <<status, nodeConnector, heard, called, halfway, hb, closing, fails, overlap>>

SyncFails ==
    /\ hold.at = "sync" /\ conns[hold.c].link # "open"
    /\ conns' = [conns EXCEPT ![hold.c].link = "closed"]
    /\ hold' = Sleeping
    /\ UNCHANGED <<status, nodeConnector, alive, heard, called, halfway, hb, closing, fails, overlap>>

\* connectToNode stores the connector whatever happened to it since.
Store ==
    /\ hold.at = "store"
    /\ heard' = FALSE
    /\ nodeConnector' = hold.c
    /\ hold' = Sleeping
    /\ overlap' = (overlap \/ status = "closed")
    /\ UNCHANGED <<status, alive, conns, called, halfway, hb, closing, fails>>

-------------------------------------------------------------------------------
(* The connection, readIo and the callback *)

PeerFails(c) ==
    /\ conns[c].link = "open" /\ fails < MaxFail
    /\ conns' = [conns EXCEPT ![c].link = "eof"]
    /\ fails' = fails + 1
    /\ UNCHANGED <<status, nodeConnector, alive, heard, called, halfway, hold, hb, closing, overlap>>

\* readIo sees socket.closed at the top of its loop.
ReaderReturns(c) ==
    /\ conns[c].reading /\ conns[c].closed
    /\ conns' = [conns EXCEPT ![c].reading = FALSE]
    /\ UNCHANGED <<status, nodeConnector, alive, heard, called, halfway, hold, hb, closing, fails, overlap>>

\* readIo is in conn.Read, which fails: session.Close, also of a connector that
\* somebody else has just closed.
ReaderCloses(c) ==
    /\ conns[c].reading /\ conns[c].link # "open"
    /\ conns' = [conns EXCEPT ![c] = [link |-> "closed", closed |-> TRUE, reading |-> FALSE]]
    /\ called' = [called EXCEPT ![c] = @ + 1]
    /\ UNCHANGED <<status, nodeConnector, alive, heard, halfway, hold, hb, closing, fails, overlap>>

\* The connector of the node is not cleared.
FaultyOnSessionClosed(c) ==
    /\ called[c] > 0
    /\ called' = [called EXCEPT ![c] = @ - 1]
    /\ halfway' = [halfway EXCEPT ![c] = @ + 1]
    /\ overlap' = (overlap \/ Connecting \/ nodeConnector \notin {c, Nil})
    /\ UNCHANGED <<status, nodeConnector, alive, heard, conns, hold, hb, closing, fails>>

\* OnSessionClosed clears the connector of the node, whichever it is by then.
OnSessionClosed(c) ==
    /\ called[c] > 0
    /\ called' = [called EXCEPT ![c] = @ - 1]
    /\ halfway' = [halfway EXCEPT ![c] = @ + 1]
    /\ nodeConnector' = Nil
    /\ overlap' = (overlap \/ Connecting \/ nodeConnector \notin {c, Nil})
    /\ UNCHANGED <<status, alive, heard, conns, hold, hb, closing, fails>>

\* Its second write: nodesAlive.Delete.
Offline(c) ==
    /\ halfway[c] > 0
    /\ halfway' = [halfway EXCEPT ![c] = @ - 1]
    /\ alive' = FALSE
    /\ overlap' = (overlap \/ Connecting)
    /\ UNCHANGED <<status, nodeConnector, heard, conns, called, hold, hb, closing, fails>>

-------------------------------------------------------------------------------
(* heartbeat and Close *)

\* A message of the node: updateHbTime.
Hears ==
    /\ status = "open" /\ ~heard
    /\ heard' = TRUE
    /\ UNCHANGED <<status, nodeConnector, alive, conns, called, halfway, hold, hb, closing, fails, overlap>>

\* node.nodeConnector != nil && node.isTimeOut(...): never before a message.
\* Timeouts of an open connection are bounded, of a dead one to one at a time.
TimeOut ==
    /\ hb = "idle" /\ status = "open" /\ nodeConnector # Nil /\ heard
    /\ hb' = "close"
    /\ \/ conns[nodeConnector].link = "open" /\ fails < MaxFail /\ fails' = fails + 1
       \/ conns[nodeConnector].link # "open" /\ called[nodeConnector] = 0 /\ UNCHANGED fails
    /\ UNCHANGED <<status, nodeConnector, alive, heard, conns, called, halfway, hold, closing, overlap>>

\* node.nodeConnector.Close(): on nil it panics, which heartbeat recovers.
HbCloses ==
    /\ hb = "close" /\ hb' = "idle"
    /\ IF nodeConnector = Nil THEN UNCHANGED <<conns, called>> ELSE Close(nodeConnector)
    /\ UNCHANGED <<status, nodeConnector, alive, heard, halfway, hold, closing, fails, overlap>>

\* Cluster.Close: the status, then for the node a check, Close and nil.
StartClose ==
    /\ closing = "no"
    /\ status' = "closed" /\ closing' = "check"
    /\ UNCHANGED <<nodeConnector, alive, heard, conns, called, halfway, hold, hb, fails, overlap>>

CloseChecks ==
    /\ closing = "check"
    /\ closing' = IF nodeConnector = Nil THEN "done" ELSE "close"
    /\ overlap' = (overlap \/ Connecting)
    /\ UNCHANGED <<status, nodeConnector, alive, heard, conns, called, halfway, hold, hb, fails>>

CloseCloses ==
    /\ closing = "close"
    /\ IF nodeConnector = Nil
       THEN closing' = "panic" /\ UNCHANGED <<conns, called>>
       ELSE closing' = "nil" /\ Close(nodeConnector)
    /\ UNCHANGED <<status, nodeConnector, alive, heard, halfway, hold, hb, fails, overlap>>

CloseClears ==
    /\ closing = "nil"
    /\ nodeConnector' = Nil /\ closing' = "done"
    /\ UNCHANGED <<status, alive, heard, conns, called, halfway, hold, hb, fails, overlap>>

-------------------------------------------------------------------------------
Init ==
    /\ status = "open" /\ nodeConnector = Nil /\ alive = FALSE /\ heard = FALSE
    /\ conns = [c \in Connector |-> NewConnector]
    /\ called = [c \in Connector |-> 0] /\ halfway = [c \in Connector |-> 0]
    /\ hold = Sleeping /\ hb = "idle" /\ closing = "no" /\ fails = 0 /\ overlap = FALSE

Holding == (\E c \in Connector : HoldDials(c)) \/ HoldEnds \/ Synced \/ SyncFails \/ Store
Reader(c) == ReaderReturns(c) \/ ReaderCloses(c)
Callback(c) == OnSessionClosed(c) \/ Offline(c)
Closing == CloseChecks \/ CloseCloses \/ CloseClears

Next ==
    \/ Holding \/ Closing \/ StartClose
    \/ Hears \/ TimeOut \/ HbCloses
    \/ \E c \in Connector : PeerFails(c) \/ Reader(c) \/ Callback(c)

Spec == Init /\ [][Next]_vars

-------------------------------------------------------------------------------
(* Properties *)

\* The types of the variables; a connector has at most three callbacks: its
\* reader, the heartbeat and Close may each have closed it once.
TypeOK ==
    /\ status \in {"open", "closed"} /\ nodeConnector \in Connector \cup {Nil}
    /\ alive \in BOOLEAN /\ heard \in BOOLEAN /\ overlap \in BOOLEAN
    /\ conns \in [Connector -> [link : {"none", "open", "eof", "closed"},
                                closed : BOOLEAN, reading : BOOLEAN]]
    /\ called \in [Connector -> 0 .. 3] /\ halfway \in [Connector -> 0 .. 3]
    /\ hold.at \in {"sleep", "sync", "store", "end"} /\ hb \in {"idle", "close"}
    /\ closing \in {"no", "check", "close", "nil", "done", "panic"}

\* No goroutine is between two of its writes.
Quiet ==
    /\ ~Connecting /\ closing \notin {"close", "nil"}
    /\ \A c \in Connector : called[c] = 0 /\ halfway[c] = 0

\* While no close overlaps a connect, a node counts as alive exactly while its
\* connector is set, however often it was closed from both sides.
AliveAgrees == Quiet /\ ~overlap => (alive <=> nodeConnector # Nil)

\* While no close overlaps a connect, no open connection is forgotten: it is
\* the node's connector, or there is none after Close.
NoLeak ==
    ~overlap /\ ~Connecting =>
        \A c \in Connector : conns[c].link = "open" => c = nodeConnector

Connected == nodeConnector # Nil /\ conns[nodeConnector].link = "open"

\* A lost connection is replaced unless a close has overlapped a connect.
ReplacedUnlessOverlap == (status = "open") ~> (Connected \/ overlap \/ status = "closed")

===============================================================================
