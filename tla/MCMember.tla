------------------------------- MODULE MCMember -------------------------------
(***************************************************************************)
(* The goroutines of one cluster member, with the reading of one           *)
(* connection, for TLC.                                                    *)
(*                                                                         *)
(* Each works on fields of its own: unit chooses the one that runs, and    *)
(* the others stay in their initial state.                                 *)
(***************************************************************************)
EXTENDS Member, ReadIo

VARIABLE unit

\* Bytes are 0 and 1, so that a length carries.
TwoBytes == <<1, 0>>
Messages == {<<1, <<>>>>, <<0, <<1, 0>>>>}

UnitInit ==
    /\ unit \in {"role", "wait", "connection", "acceptor", "read"}
    /\ Init /\ Wait!Init /\ Conn!Init /\ Accept!Init /\ ReadInit
    /\ unit # "read" => ~ordered /\ ~isClient

UnitNext ==
    /\ \/ unit = "role" /\ Next /\ UNCHANGED <<waitVars, connVars, acceptVars, readVars>>
       \/ unit = "wait" /\ Wait!Next /\ UNCHANGED <<vars, connVars, acceptVars, readVars>>
       \/ unit = "connection" /\ Conn!Next /\ UNCHANGED <<vars, waitVars, acceptVars, readVars>>
       \/ unit = "acceptor" /\ Accept!Next /\ UNCHANGED <<vars, waitVars, connVars, readVars>>
       \/ unit = "read" /\ ReadNext /\ UNCHANGED <<vars, waitVars, connVars, acceptVars>>
    /\ UNCHANGED unit

\* The caller of sendAndWait runs, its timer fires, and a handler that was
\* started goes on; no reply need arrive.
WaitFairness ==
    /\ WF_waitVars(unit = "wait" /\ Wait!Sending)
    /\ WF_waitVars(unit = "wait" /\ Wait!TimeOut)
    /\ WF_waitVars(unit = "wait" /\ Wait!Leaving)
    /\ \A q \in Wait!Request : WF_waitVars(unit = "wait" /\ Wait!Send(q))

\* All goroutines of the connection run, dialling succeeds at last as failures
\* end, and a node that was heard of times out on a dead connection; nobody need
\* fail, be heard of or be closed.
ConnFairness ==
    /\ WF_connVars(unit = "connection" /\ Conn!Holding)
    /\ WF_connVars(unit = "connection" /\ Conn!TimeOut /\ fails' = fails)
    /\ WF_connVars(unit = "connection" /\ Conn!HbCloses)
    /\ WF_connVars(unit = "connection" /\ Conn!Closing)
    /\ \A c \in Connector :
          /\ WF_connVars(unit = "connection" /\ Conn!Reader(c))
          /\ WF_connVars(unit = "connection" /\ Conn!OnSessionClosed(c))
          /\ WF_connVars(unit = "connection" /\ Conn!Offline(c))

\* The accept loop and the goroutines that read run; Accept need not fail.
AcceptFairness ==
    /\ WF_acceptVars(unit = "acceptor" /\ Accept!Accepting)
    /\ \A s \in Session : WF_acceptVars(unit = "acceptor" /\ Accept!Reader(s))

\* The reading goroutine and those of the handler run; a read of an open
\* connection need not fail.
ReadFairness ==
    /\ WF_readState(unit = "read" /\ Handling)
    /\ WF_readState(unit = "read" /\ Reading /\ (conn = "open" => failTimes' <= failTimes))

\* Role!Fairness asks nothing of a node on which nothing was called.
UnitSpec ==
    /\ UnitInit /\ [][UnitNext]_<<vars, waitVars, connVars, acceptVars, readVars, unit>>
    /\ Fairness /\ WaitFairness /\ ConnFairness /\ AcceptFairness /\ ReadFairness

-------------------------------------------------------------------------------
\* sendAndWait returns, with its timeout at the latest, and a handler that blocks
\* on its channel ends.
WaitEnds == Wait!Returns /\ Wait!BlockedEnd

\* holdConnection replaces a lost connection unless a close overlaps a connect.
ReplacedUnlessOverlap == unit = "connection" => Conn!ReplacedUnlessOverlap

\* A session whose client is gone is closed and leaves the acceptor's map.
Reaped == Accept!Reaped

===============================================================================
