----------------------------- MODULE SendAndWait -----------------------------
(***************************************************************************)
(* The request and wait of a cluster member (src/cluster/contact.go        *)
(* sendAndWait) against the goroutines that handle replies: they test and  *)
(* read the field sendAndWaitChan in two steps and block in between on an  *)
(* unbuffered channel.  fightElection makes one call at a time.  What the  *)
(* replies mean for the election is in Election.                           *)
(***************************************************************************)
EXTENDS Integers, FiniteSets

CONSTANTS
    Node,           \* the other nodes
    MaxCalls,       \* bound: calls of sendAndWait
    MaxHeartbeats,  \* bound: replies to heartbeats
    Nil

VARIABLES
    at,             \* "idle", "send", "select", "clear" or "close"
    call,           \* number of calls so far: ReqId and channel of the latest
    unsent,         \* nodes the Range has still to visit
    senderNodeMap,  \* the entries NodeId.ReqId that are waited for
    sendAndWaitChan,\* the field: a channel or Nil
    reply,          \* reply[<<n, r>>]: the reply of n to request r, and its handler
    nodeMsgList,    \* the replies of the latest call
    sentTo,         \* history: nodes the latest call reached
    timedOut        \* history: the latest call ended by its timeout

vars == <<at, call, unsent, senderNodeMap, sendAndWaitChan, reply, nodeMsgList, sentTo, timedOut>>
waiting == <<at, call, unsent, senderNodeMap, sendAndWaitChan, nodeMsgList, sentTo, timedOut>>

\* Request 0 stands for the heartbeats, whose replies carry no ReqId.
Request == Node \X (0 .. MaxCalls)
Moves(q, l) == reply' = [reply EXCEPT ![q] = [at |-> l, chan |-> Nil]]

-------------------------------------------------------------------------------
(* sendAndWait *)

Call ==
    /\ at = "idle" /\ call < MaxCalls
    /\ call' = call + 1
    /\ sendAndWaitChan' = call'
    /\ at' = "send" /\ unsent' = Node
    /\ UNCHANGED <<senderNodeMap, reply, nodeMsgList, sentTo, timedOut>>

\* SendMessage to the next node of the Range succeeds or fails; it is skipped
\* like a failure when it has no connector.
SendTo(n) ==
    /\ at = "send" /\ n \in unsent
    /\ unsent' = unsent \ {n}
    /\ at' = IF unsent' = {} THEN "select" ELSE "send"
    /\ \/ /\ senderNodeMap' = senderNodeMap \cup {<<n, call>>}
          /\ sentTo' = sentTo \cup {n}
          /\ Moves(<<n, call>>, "asked")
       \/ UNCHANGED <<senderNodeMap, sentTo, reply>>
    /\ UNCHANGED <<call, sendAndWaitChan, nodeMsgList, timedOut>>

\* Entries are deleted by node alone.
FaultyAnswered(q) == {e \in senderNodeMap : e[1] # q[1]}

\* delete(senderNodeMap, nodeMsg.NodeId+"."+nodeMsg.ReqId)
Answered(q) == senderNodeMap \ {q}

\* The select receives from a handler that is blocked on the channel.
Take(q) ==
    /\ at = "select" /\ reply[q] = [at |-> "block", chan |-> call]
    /\ nodeMsgList' = nodeMsgList \cup {q}
    /\ senderNodeMap' = Answered(q)
    /\ at' = IF senderNodeMap' = {} THEN "clear" ELSE "select"
    /\ Moves(q, "done")
    /\ UNCHANGED <<call, unsent, sendAndWaitChan, sentTo, timedOut>>

TimeOut ==
    /\ at = "select"
    /\ at' = "clear" /\ timedOut' = TRUE
    /\ UNCHANGED <<call, unsent, senderNodeMap, sendAndWaitChan, reply, nodeMsgList, sentTo>>

\* cluster.sendAndWaitChan = nil
Clear ==
    /\ at = "clear"
    /\ at' = "close" /\ sendAndWaitChan' = Nil
    /\ UNCHANGED <<call, unsent, senderNodeMap, reply, nodeMsgList, sentTo, timedOut>>

\* The channel is not closed.
FaultyCloseChan ==
    /\ at = "close" /\ at' = "idle"
    /\ senderNodeMap' = {} /\ nodeMsgList' = {} /\ sentTo' = {} /\ timedOut' = FALSE
    /\ UNCHANGED <<call, unsent, sendAndWaitChan, reply>>

\* The deferred close and the return: handlers blocked on the channel panic,
\* which OnError recovers; the local variables are gone.
CloseChan ==
    /\ at = "close" /\ at' = "idle"
    /\ reply' = [q \in Request |-> IF reply[q] = [at |-> "block", chan |-> call]
                                   THEN [at |-> "done", chan |-> Nil] ELSE reply[q]]
    /\ senderNodeMap' = {} /\ nodeMsgList' = {} /\ sentTo' = {} /\ timedOut' = FALSE
    /\ UNCHANGED <<call, unsent, sendAndWaitChan>>

-------------------------------------------------------------------------------
(* The replies: at any time later, or never *)

Heartbeat(n) ==
    /\ reply[<<n, 0>>].at = "none"
    /\ Cardinality({m \in Node : reply[<<m, 0>>].at # "none"}) < MaxHeartbeats
    /\ Moves(<<n, 0>>, "asked")
    /\ UNCHANGED waiting

\* The handler gets the reply and tests the field.
Handle(q) ==
    /\ reply[q].at = "asked"
    /\ Moves(q, IF sendAndWaitChan = Nil THEN "done" ELSE "tested")
    /\ UNCHANGED waiting

\* It reads the field again and sends: on nil it blocks for ever, on a closed
\* channel it panics and is done.
Send(q) ==
    /\ reply[q].at = "tested"
    /\ reply' = [reply EXCEPT ![q] = IF sendAndWaitChan = Nil THEN [at |-> "stuck", chan |-> Nil]
                                     ELSE [at |-> "block", chan |-> sendAndWaitChan]]
    /\ UNCHANGED waiting

-------------------------------------------------------------------------------
Init ==
    /\ at = "idle" /\ call = 0 /\ unsent = {} /\ senderNodeMap = {} /\ sendAndWaitChan = Nil
    /\ reply = [q \in Request |-> [at |-> "none", chan |-> Nil]]
    /\ nodeMsgList = {} /\ sentTo = {} /\ timedOut = FALSE

Sending == \E n \in Node : SendTo(n)
Selecting == TimeOut \/ \E q \in Request : Take(q)
Leaving == Clear \/ CloseChan

Next ==
    \/ Call \/ Sending \/ Selecting \/ Leaving
    \/ \E n \in Node : Heartbeat(n)
    \/ \E q \in Request : Handle(q) \/ Send(q)

Spec == Init /\ [][Next]_vars

-------------------------------------------------------------------------------
(* Properties *)

\* The types of the variables; the field holds the channel of the running call.
TypeOK ==
    /\ at \in {"idle", "send", "select", "clear", "close"} /\ call \in 0 .. MaxCalls
    /\ unsent \subseteq Node /\ sentTo \subseteq Node
    /\ senderNodeMap \subseteq Request /\ nodeMsgList \subseteq Request
    /\ sendAndWaitChan = IF at \in {"idle", "close"} THEN Nil ELSE call
    /\ \A q \in Request : reply[q].at \in {"none", "asked", "tested", "block", "stuck", "done"}

\* A call that did not time out has a reply to this very request from every
\* node it reached, whatever late replies to earlier requests and heartbeats
\* arrived meanwhile; they may be in the list besides.
Complete ==
    at \in {"clear", "close"} /\ ~timedOut => \A n \in sentTo : <<n, call>> \in nodeMsgList

\* sendAndWait returns, with its timeout at the latest.
Returns == (at # "idle") ~> (at = "idle")

\* A handler that blocks on a channel ends, as its reply is taken or the channel
\* is closed at the end of the call: as calls are finitely many, there is always
\* a later state in which no handler blocks.
BlockedEnd == []<>(\A q \in Request : reply[q].at # "block")

===============================================================================
