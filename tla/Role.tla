--------------------------------- MODULE Role ---------------------------------
(***************************************************************************)
(* The role fields of a cluster member, field by field, and what follows   *)
(* a change of them: signLeader, releaseLeader, createEvent, StartUp and   *)
(* Close (src/cluster/service.go), updateMetrics (metrics.go) and the      *)
(* steps of fightElection that touch them (contact.go).  signLeader holds  *)
(* cluster.mu, the others do not.  Which leader is signed or released when *)
(* is decided by terms in Election; here every order is possible.          *)
(***************************************************************************)
EXTENDS Integers

CONSTANTS
    Handler,        \* goroutines of the messages and of the heartbeat
    Fighter,        \* goroutines of fightElection
    Event,          \* goroutines of createEvent; bound: how many at a time
    EventCap,       \* capacity of the events channel: 20
    MaxOps,         \* bound: number of role changes and fights
    Nil

\* fightElection runs in goroutines of its own.
ASSUME RoleAssumption ==
    /\ EventCap \in Nat \ {0} /\ MaxOps \in Nat /\ Nil \notin {"me", "other"}
    /\ Handler \cap Fighter = {}

VARIABLES
    status,         \* "none", "follower", "candidate", "leader" or "closed"
    nodeLeader,     \* Nil, "me" or "other"
    mu,             \* who holds cluster.mu, or Nil
    fighting,
    at,             \* at[p]: where the goroutine p is
    new,            \* new[p]: the leader it is about to write
    ev,             \* ev[r]: where r is in createEvent
    value,          \* value[r]: what it is about to set the gauge to
    queued,         \* number of events in the channel
    channel,        \* "open" or "closed"
    events,         \* whether the field cluster.events still holds the channel
    starting,       \* StartUp: "no", "event" or "done"
    closing,        \* Close: "no", "event", "field" or "done"
    gauge,          \* cluster_status: 1, 0 or -1
    crashed,        \* a panic nobody recovers has ended the process
    ops,
    \* history, read by no action
    raced,          \* two role changes have overlapped
    overtaken,      \* Close began during an event, or a role change followed it
    mixed           \* two goroutines were about to set the gauge at once

history == <<raced, overtaken, mixed>>
chanVars == <<queued, channel, events>>
roleVars == <<status, nodeLeader, mu, fighting, at, new, ops>>
lifeVars == <<starting, closing, crashed>>
outVars == <<ev, value, chanVars, lifeVars, gauge>>
vars == <<roleVars, outVars, history>>

Proc == Handler \cup Fighter
\* Everything that runs createEvent: StartUp, Close and fightElection call it
\* themselves, signLeader and releaseLeader start a goroutine for it.
Runner == Event \cup Fighter \cup {"StartUp", "Close"}

\* p is between the reads or the writes of a role change.
Changing(p) == at[p] \in {"status", "candidate", "leader", "role"}
Notes(p) == raced' = (raced \/ \E q \in Proc \ {p} : Changing(q))

Puts(p, l, n) == at' = [at EXCEPT ![p] = l] /\ new' = [new EXCEPT ![p] = n]
Goes(p, l) == at' = [at EXCEPT ![p] = l] /\ UNCHANGED new
Calls(r) == ev' = [ev EXCEPT ![r] = "check"] /\ UNCHANGED value
\* go cluster.createEvent(...)
Spawns == \E e \in Event : ev[e] = "idle" /\ Calls(e)

-------------------------------------------------------------------------------
(* StartUp of a cluster; a single node signs itself *)

StartUp ==
    /\ starting = "no" /\ starting' = "event"
    /\ Calls("StartUp")
    /\ UNCHANGED <<roleVars, chanVars, closing, crashed, gauge, history>>

Started ==
    /\ starting = "event" /\ ev["StartUp"] = "idle" /\ mu = Nil
    /\ starting' = "done"
    /\ status' = IF status = "none" THEN "follower" ELSE status
    /\ UNCHANGED <<nodeLeader, mu, fighting, at, new, ops, ev, value, chanVars>>
    /\ UNCHANGED <<closing, crashed, gauge, history>>

-------------------------------------------------------------------------------
(* signLeader and releaseLeader *)

Begins(p) ==
    /\ starting = "done" /\ at[p] = "idle" /\ ops < MaxOps
    /\ ops' = ops + 1

\* signLeader gets the lock; the same leader is not written again.
Locks(p, leader) ==
    /\ mu = Nil /\ nodeLeader # leader
    /\ mu' = p
    /\ Puts(p, "leader", leader)
    /\ Notes(p)

\* A handler signs another node.
Sign(p) ==
    /\ Begins(p) /\ Locks(p, "other")
    /\ UNCHANGED <<status, nodeLeader, fighting, outVars, overtaken, mixed>>

\* A handler or the heartbeat has found a leader to release; no lock is taken.
Release(p) ==
    /\ Begins(p) /\ (status = "leader" \/ nodeLeader # Nil)
    /\ Puts(p, "leader", Nil)
    /\ Notes(p)
    /\ UNCHANGED <<status, nodeLeader, mu, fighting, outVars, overtaken, mixed>>

\* The first write of both.
WriteLeader(p) ==
    /\ at[p] = "leader"
    /\ nodeLeader' = new[p]
    /\ Goes(p, "role")
    /\ Notes(p)
    /\ UNCHANGED <<status, mu, fighting, ops, outVars, overtaken, mixed>>

\* releaseLeader leaves the status.
FaultyRoleOf(leader) ==
    CASE leader = "me" -> "leader" [] leader = Nil -> status [] OTHER -> "follower"

RoleOf(leader) == IF leader = "me" THEN "leader" ELSE "follower"

\* A release creates no event.
FaultyTells(p) == IF new[p] = Nil THEN UNCHANGED <<ev, value>> ELSE Spawns

Tells(p) == Spawns

\* The second write, the goroutine for the event, and the unlock of signLeader.
WriteRole(p) ==
    /\ at[p] = "role"
    /\ status' = RoleOf(new[p])
    /\ Tells(p)
    /\ mu' = IF mu = p THEN Nil ELSE mu
    /\ Puts(p, IF p \in Fighter THEN "return" ELSE "idle", Nil)
    /\ Notes(p)
    /\ overtaken' = (overtaken \/ closing # "no")
    /\ UNCHANGED <<nodeLeader, fighting, ops, chanVars, lifeVars, gauge, mixed>>

-------------------------------------------------------------------------------
(* fightElection *)

Fight(p) ==
    /\ Begins(p)
    /\ Goes(p, "start") /\ Calls(p)
    /\ UNCHANGED <<status, nodeLeader, mu, fighting, chanVars, lifeVars, gauge, history>>

\* After its first event: nothing to fight for, or another fight goes on;
\* otherwise the flag is taken.
Enter(p) ==
    /\ at[p] = "start" /\ ev[p] = "idle"
    /\ IF status \in {"closed", "leader"} \/ nodeLeader # Nil \/ fighting
         THEN Goes(p, "finish") /\ Calls(p) /\ UNCHANGED fighting
         ELSE Goes(p, "check") /\ fighting' = TRUE /\ UNCHANGED <<ev, value>>
    /\ UNCHANGED <<status, nodeLeader, mu, ops, chanVars, lifeVars, gauge, history>>

\* setTerm fails, or a leader is known by now, or the status is looked at.
Check(p) ==
    /\ at[p] = "check"
    /\ Goes(p, "return") \/ (nodeLeader = Nil /\ Goes(p, "status"))
    /\ UNCHANGED <<status, nodeLeader, mu, fighting, ops, outVars, history>>

ReadStatus(p) ==
    /\ at[p] = "status"
    /\ \/ status = "follower" /\ Goes(p, "candidate")
       \/ status = "candidate" /\ Goes(p, "vote")
       \/ status \notin {"follower", "candidate"} /\ Goes(p, "return")
    /\ Notes(p)
    /\ UNCHANGED <<status, nodeLeader, mu, fighting, ops, outVars, overtaken, mixed>>

Candidate(p) ==
    /\ at[p] = "candidate"
    /\ status' = "candidate"
    /\ Goes(p, "vote")
    /\ Notes(p)
    /\ overtaken' = (overtaken \/ closing # "no")
    /\ UNCHANGED <<nodeLeader, mu, fighting, ops, outVars, mixed>>

\* The votes: lost, or won and the node signs itself.
Vote(p) ==
    /\ at[p] = "vote"
    /\ \/ Goes(p, "return") /\ UNCHANGED <<mu, raced>>
       \/ Locks(p, "me")
    /\ UNCHANGED <<status, nodeLeader, fighting, ops, outVars, overtaken, mixed>>

\* The deferred calls: the flag, then the last event.
Return(p) ==
    /\ at[p] = "return"
    /\ fighting' = FALSE
    /\ Goes(p, "finish") /\ Calls(p)
    /\ UNCHANGED <<status, nodeLeader, mu, ops, chanVars, lifeVars, gauge, history>>

Finish(p) ==
    /\ at[p] = "finish" /\ ev[p] = "idle"
    /\ Goes(p, "idle")
    /\ UNCHANGED <<status, nodeLeader, mu, fighting, ops, outVars, history>>

-------------------------------------------------------------------------------
(* createEvent and updateMetrics *)

Steps(r, l) == ev' = [ev EXCEPT ![r] = l] /\ UNCHANGED value

\* The test of the status is missing.
FaultyCheckClosed(r) ==
    /\ ev[r] = "check"
    /\ Steps(r, "field")
    /\ UNCHANGED <<roleVars, chanVars, lifeVars, gauge, history>>

\* A closed cluster creates no events.
CheckClosed(r) ==
    /\ ev[r] = "check"
    /\ Steps(r, IF status = "closed" THEN "idle" ELSE "field")
    /\ UNCHANGED <<roleVars, chanVars, lifeVars, gauge, history>>

\* The select evaluates the channel; the nil channel takes the default.
ReadField(r) ==
    /\ ev[r] = "field"
    /\ Steps(r, IF events THEN "send" ELSE "metrics")
    /\ UNCHANGED <<roleVars, chanVars, lifeVars, gauge, history>>

\* A send that waits for room.
FaultySend(r) ==
    /\ ev[r] = "send" /\ channel = "open" /\ queued < EventCap
    /\ queued' = queued + 1
    /\ Steps(r, "metrics")
    /\ UNCHANGED <<roleVars, channel, events, lifeVars, gauge, history>>

Room == queued < EventCap

\* On a closed channel the send panics; a full one takes the default.
Send(r) ==
    /\ ev[r] = "send"
    /\ crashed' = (channel = "closed")
    /\ queued' = IF channel = "open" /\ Room THEN queued + 1 ELSE queued
    /\ Steps(r, "metrics")
    /\ UNCHANGED <<roleVars, channel, events, starting, closing, gauge, history>>

\* isReady and IsLeader, then 1, 0 or -1.
Shown ==
    IF status \in {"leader", "candidate", "follower"} /\ ~fighting
      THEN IF status = "leader" THEN 1 ELSE 0
      ELSE -1

ReadMetrics(r) ==
    /\ ev[r] = "metrics"
    /\ ev' = [ev EXCEPT ![r] = "gauge"] /\ value' = [value EXCEPT ![r] = Shown]
    /\ mixed' = (mixed \/ \E o \in Runner : ev[o] = "gauge")
    /\ UNCHANGED <<roleVars, chanVars, lifeVars, gauge, raced, overtaken>>

SetGauge(r) ==
    /\ ev[r] = "gauge"
    /\ gauge' = value[r]
    /\ ev' = [ev EXCEPT ![r] = "idle"] /\ value' = [value EXCEPT ![r] = 0]
    /\ UNCHANGED <<roleVars, chanVars, lifeVars, history>>

\* The owner of the cluster receives an event.
Receive ==
    /\ queued > 0
    /\ queued' = queued - 1
    /\ UNCHANGED <<roleVars, ev, value, channel, events, lifeVars, gauge, history>>

-------------------------------------------------------------------------------
(* Close *)

\* The status, and only then the event of Close.
Close ==
    /\ closing = "no" /\ closing' = "event"
    /\ status' = "closed"
    /\ Calls("Close")
    /\ overtaken' = (overtaken \/ \E r \in Runner : ev[r] # "idle")
    /\ UNCHANGED <<nodeLeader, mu, fighting, at, new, ops, chanVars>>
    /\ UNCHANGED <<starting, crashed, gauge, raced, mixed>>

CloseChannel ==
    /\ closing = "event" /\ ev["Close"] = "idle"
    /\ channel' = "closed" /\ closing' = "field"
    /\ UNCHANGED <<roleVars, ev, value, queued, events, starting, crashed, gauge, history>>

ClearField ==
    /\ closing = "field"
    /\ events' = FALSE /\ closing' = "done"
    /\ UNCHANGED <<roleVars, ev, value, queued, channel, starting, crashed, gauge, history>>

-------------------------------------------------------------------------------
\* Create has put its own event into the channel; there is no gauge yet.
Init ==
    /\ status = "none" /\ nodeLeader = Nil /\ mu = Nil /\ fighting = FALSE
    /\ at = [p \in Proc |-> "idle"] /\ new = [p \in Proc |-> Nil] /\ ops = 0
    /\ ev = [r \in Runner |-> "idle"] /\ value = [r \in Runner |-> 0]
    /\ queued = 1 /\ channel = "open" /\ events = TRUE
    /\ starting = "no" /\ closing = "no" /\ crashed = FALSE /\ gauge = -1
    /\ raced = FALSE /\ overtaken = FALSE /\ mixed = FALSE

ProcStep(p) ==
    /\ ~crashed
    /\ \/ WriteLeader(p) \/ WriteRole(p) \/ Enter(p) \/ Check(p) \/ ReadStatus(p)
       \/ Candidate(p) \/ Vote(p) \/ Return(p) \/ Finish(p)
EventStep(r) ==
    /\ ~crashed
    /\ CheckClosed(r) \/ ReadField(r) \/ Send(r) \/ ReadMetrics(r) \/ SetGauge(r)
CloseStep == ~crashed /\ (CloseChannel \/ ClearField)
Begin ==
    /\ ~crashed
    /\ \/ StartUp \/ Started \/ Close \/ Receive
       \/ \E p \in Handler : Sign(p) \/ Release(p)
       \/ \E p \in Fighter : Fight(p)

Next ==
    \/ Begin \/ CloseStep
    \/ \E p \in Proc : ProcStep(p)
    \/ \E r \in Runner : EventStep(r)

Spec == Init /\ [][Next]_vars

\* A goroutine under way goes on; nobody need call anything or receive events.
Fairness ==
    /\ WF_vars(CloseStep)
    /\ \A p \in Proc : WF_vars(ProcStep(p))
    /\ \A r \in Runner : WF_vars(EventStep(r))

-------------------------------------------------------------------------------
(* Properties *)

\* The types of the variables; the events channel holds at most its capacity.
TypeOK ==
    /\ status \in {"none", "follower", "candidate", "leader", "closed"}
    /\ nodeLeader \in {Nil, "me", "other"} /\ mu \in Proc \cup {Nil}
    /\ fighting \in BOOLEAN /\ ops \in 0 .. MaxOps
    /\ queued \in 0 .. EventCap /\ channel \in {"open", "closed"} /\ gauge \in -1 .. 1
    /\ events \in BOOLEAN /\ crashed \in BOOLEAN

\* As long as role changes do not overlap, the two fields agree between them,
\* before, during and after a Close: exactly a leader has itself as nodeLeader,
\* and a node with another leader is a follower.  releaseLeader without the lock
\* and the step of fightElection to candidate are what can overlap.
RolesAgree ==
    ~raced /\ status # "closed" /\ (\A p \in Proc : ~Changing(p)) =>
        /\ status = "leader" <=> nodeLeader = "me"
        /\ nodeLeader = "other" => status = "follower"

\* createEvent panics on the channel that Close has closed only if Close
\* overtook an event under way or a role change reset the closed status; calls
\* that begin later, as those of fights that are still running, do no harm.
CrashNeedsOverlap == crashed => overtaken

Quiet ==
    /\ ~crashed /\ closing \in {"no", "done"}
    /\ \A p \in Proc : at[p] = "idle"
    /\ \A r \in Runner : ev[r] = "idle"

\* In an open cluster whose updates of the gauge do not overlap, once all
\* goroutines are done the gauge shows a leader exactly if the node is one: every
\* role change is followed by an update, after the end of the fight it is part of.
GaugeSerial == Quiet /\ closing = "no" /\ ~mixed => (gauge = 1 <=> status = "leader")

\* createEvent never blocks, although nobody need receive from the channel: as
\* calls are finitely many, there is always a later state with no event under way.
EventEnds == []<>(crashed \/ \A r \in Runner : ev[r] = "idle")

===============================================================================
