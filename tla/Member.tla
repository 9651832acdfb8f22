-------------------------------- MODULE Member --------------------------------
(***************************************************************************)
(* The goroutines of one cluster member below and beside the election: the *)
(* role fields and role events (Role), and what links it to the others:    *)
(* requests with replies, the connection to one other node and the         *)
(* acceptor.  Each works on fields of its own.                             *)
(***************************************************************************)
EXTENDS Role

CONSTANTS
    Node, MaxCalls, MaxHeartbeats,  \* requests
    Connector, MaxFail,             \* connection
    Session                         \* acceptor

ASSUME MemberAssumption ==
    MaxCalls \in Nat /\ Nil \notin Connector

VARIABLES
    waitAt, call, unsent, senderNodeMap, sendAndWaitChan, reply, nodeMsgList, sentTo, timedOut,
    open, nodeConnector, alive, heard, conns, called, halfway, hold, hb, shutting, fails, overlap,
    closed, listening, loop, sessionId, sessions, sess, told, added

Wait == INSTANCE SendAndWait WITH at <- waitAt
Conn == INSTANCE Connection WITH status <- open, closing <- shutting
Accept == INSTANCE Acceptor

waitVars == <<waitAt, call, unsent, senderNodeMap, sendAndWaitChan, reply, nodeMsgList, sentTo, timedOut>>
connVars == <<open, nodeConnector, alive, heard, conns, called, halfway, hold, hb, shutting, fails, overlap>>
acceptVars == <<closed, listening, loop, sessionId, sessions, sess, told, added>>

-------------------------------------------------------------------------------
\* In an open cluster whose updates of the gauge do not overlap, once all
\* goroutines are done the gauge shows a leader exactly if the node is one.
GaugeSound == TypeOK /\ GaugeSerial

\* sendAndWait without a timeout has a reply to this very request from every
\* node it reached, whatever late replies arrive meanwhile.
Complete == Wait!TypeOK /\ Wait!Complete

\* While no close overlaps a connect, a node counts as alive exactly while its
\* connector is set, and no open connection is forgotten.
ConnectionSound == Conn!TypeOK /\ Conn!AliveAgrees /\ Conn!NoLeak

\* Every session the acceptor reads is found under its id, and the handler is told
\* of the end of every session added before Close.
SessionsSound == Accept!TypeOK /\ Accept!FoundById /\ Accept!Told

===============================================================================
