-------------------------------- MODULE Rounds --------------------------------
(***************************************************************************)
(* The scheduled rounds of one process: the scheduler                      *)
(* (src/task/scheduler.go) and the node allocator                          *)
(* (src/task/node/allocator.go) over the worker, and the jobs the cluster  *)
(* carries for them (src/cluster/publish.go).  The other nodes are the     *)
(* environment: they come, go and publish jobs of their own.               *)
(*                                                                         *)
(* A job published to the own node hands its handler the Go value; a job   *)
(* from another node hands it what encoding/json makes of it, generic maps *)
(* and slices, which no handler's type assertion accepts.                  *)
(*                                                                         *)
(* What runs under one lock without blocking is one step; the scheduler's  *)
(* lock mu is a variable because RoundDone can block on roundDoneChan      *)
(* while it holds it.                                                      *)
(***************************************************************************)
EXTENDS Worker

CONSTANTS
    Me, Peer,       \* the own node, the other nodes
    MaxFuncs,       \* bound: registered TaskBuildFuncs
    MaxRound,       \* bound: clock values used as round numbers
    Ip,             \* ips of jobs that cut in
    CutLists,       \* lists of different ips a caller may cut in with
    Threshold       \* usingClusterThreshold

ASSUME RoundsAssumption ==
    /\ Me \notin Peer /\ MaxFuncs \in Nat /\ MaxRound \in Nat \ {0} /\ Threshold \in Nat \ {0}
    /\ CutLists \subseteq Seq(Ip)
    /\ \A l \in CutLists : l # <<>> /\ \A i, j \in DOMAIN l : l[i] = l[j] => i = j

VARIABLES
    \* Scheduler
    mu,             \* who holds Scheduler.mu over a blocking send, or Nil
    round,          \* round[name] of the allocator, 0 when there is none
    flag,           \* roundDoneFlag[name]: "absent", "open" (false) or "done" (true)
    loop,           \* the loop of Start: "off", "loop", "new" (in startNewRound), "end"
    all,            \* the goroutine of startAll: "off", "ready" or "end"
    stop,           \* the call of Stop: "no", "send", "sent"
    \* Allocator
    registered,     \* StartAfterInjected has registered the callbacks
    funcs,          \* len(TaskBuildFuncs)
    cutFuncs,       \* len(CutInLineFuncs), 0 or 1
    part,           \* NodePartition: Nil, or its names and the own partition's fields
    build,          \* roundRun: the build functions still to call, lowest first
    rd,             \* rd[p]: where caller p of RoundDone is
    \* cluster
    jobs,           \* goroutines of pushTask that have not called the handler yet
    alive,          \* nodesAlive
    cut             \* history: ips that were cut in, each once (bound)

schedVars == <<mu, round, flag, loop, all, stop>>
allocVars == <<registered, funcs, cutFuncs, part, build>>
clusterVars == <<jobs, alive>>
vars == <<workerVars, schedVars, allocVars, rd, clusterVars, cut>>

IpTask(r, f) == <<"job", r, f>>            \* the task a build function makes for the own ip
BatchDone(r, f) == <<"done", r, f>>     \* batchDoneTask
CutTask(ip) == <<"cut", ip>>

RoundTask ==
    {IpTask(r, f) : r \in 1 .. MaxRound, f \in 1 .. MaxFuncs}
      \cup {BatchDone(r, f) : r \in 1 .. MaxRound, f \in 1 .. MaxFuncs}
      \cup {CutTask(ip) : ip \in Ip}

\* Goroutines of pushTask that call Worker.Put: one per roundRun, two for cut-ins.
Runner(r) == <<"run", r>>
Cutters == {<<"cut", 1>>, <<"cut", 2>>}
Pushers == {Runner(r) : r \in 1 .. MaxRound} \cup Cutters

\* The callers of RoundDone: worker goroutines and the timeout of each round.
Timer(r) == <<-1, r>>
Timers == {Timer(r) : r \in 1 .. MaxRound}
Stopper == <<-1, 0>>

\* The worker serves these tasks and callers.
ASSUME TasksAssumption == RoundTask \subseteq Task /\ Pushers \subseteq Caller

\* eachPartitionNodes is n / n = 1, so every partition has ceil(1 / 1000) batches.
BatchCount == 1

-------------------------------------------------------------------------------
(* Registration *)

StartAfterInjected ==
    /\ ~registered
    /\ registered' = (funcs > 0)                    \* prevCheck
    /\ registered' # registered
    /\ UNCHANGED <<workerVars, schedVars, funcs, cutFuncs, part, build, rd, clusterVars, cut>>

RegistryTaskBuild ==
    /\ funcs < MaxFuncs
    /\ funcs' = funcs + 1
    /\ UNCHANGED <<workerVars, schedVars, registered, cutFuncs, part, build, rd, clusterVars, cut>>

RegistryCutInLineTaskBuild ==
    /\ cutFuncs = 0
    /\ cutFuncs' = 1
    /\ UNCHANGED <<workerVars, schedVars, registered, funcs, part, build, rd, clusterVars, cut>>

-------------------------------------------------------------------------------
(* Cluster jobs *)

\* A job on its way to its handler; its Go type survives only within the
\* process (typed).
JobOf(name, typed, data) == <<name, typed, data>>

\* PublishJob, pushTask: the own entry becomes a goroutine, if the function is
\* registered; the others become messages to the peers.
Publish(before, name, data) ==
    jobs' = IF registered THEN before \cup {JobOf(name, TRUE, data)} ELSE before

\* msgSPublishJob of a peer: decoded, then pushTask; at most one waits (bound).
PeerJob(name) ==
    /\ alive # {} /\ registered /\ \A j \in jobs : j[2]
    /\ jobs' = jobs \cup {JobOf(name, FALSE, <<>>)}
    /\ UNCHANGED <<workerVars, schedVars, allocVars, rd, alive, cut>>

\* The election and contact handlers add and remove alive nodes.
AliveChange(p) ==
    /\ alive' = IF p \in alive THEN alive \ {p} ELSE alive \cup {p}
    /\ UNCHANGED <<workerVars, schedVars, allocVars, rd, jobs, cut>>

-------------------------------------------------------------------------------
(* Scheduler *)

\* StartAlloc: one partition per alive node, published to all of them; a
\* deferred call starts the round's timeout.
StartAlloc(r) ==
    /\ rd' = [rd EXCEPT ![Timer(r)] = "wait"]
    /\ Publish(jobs, "SyncPartition",
               [names |-> alive \cup {Me}, Round |-> r, FinBatchCount |-> 0, done |-> {}])

\* Start: the loop begins, startAll has a goroutine of its own.
Start ==
    /\ loop = "off"                                 \* !isRunning
    /\ loop' = "loop" /\ all' = "ready"
    /\ UNCHANGED <<workerVars, mu, round, flag, stop, allocVars, rd, clusterVars, cut>>

Stop ==
    /\ stop = "no" /\ stop' = "send"
    /\ UNCHANGED <<workerVars, mu, round, flag, loop, all, allocVars, rd, clusterVars, cut>>

\* startAll that opens the round-done flag as startNewRound does.
FaultystartAll ==
    /\ all = "ready" /\ mu = Nil
    /\ all' = "end"
    /\ IF registered THEN round' = 1 /\ flag' = "open" /\ StartAlloc(1)
                     ELSE UNCHANGED <<round, flag, rd, jobs>>
    /\ UNCHANGED <<workerVars, mu, loop, stop, allocVars, alive, cut>>

\* Under mu: the round number is stored and the callback called; roundDoneFlag
\* gets no entry.
startAll ==
    /\ all = "ready" /\ mu = Nil
    /\ all' = "end"
    /\ IF registered THEN round' = 1 /\ StartAlloc(1) ELSE UNCHANGED <<round, rd, jobs>>
    /\ UNCHANGED <<workerVars, mu, flag, loop, stop, allocVars, alive, cut>>

\* callRoundDone goes on to send into cancelRoundTimeout, which is nil: for ever.
AfterRoundDone(p) == IF p \in Timers THEN "end" ELSE "cancel"

\* Under mu: the next round with the flag open.  Seconds may not have advanced.
startNewRound ==
    /\ mu = Nil
    /\ \E r \in round .. MaxRound : round' = r /\ flag' = "open" /\ StartAlloc(r)
    /\ loop' = "loop" /\ UNCHANGED <<mu, stop>>

\* The select of Start's loop, and the startNewRound it leads to.  A sender of
\* roundDoneChan releases mu when its event is received.
Loop ==
    /\ CASE loop = "new" -> startNewRound
         [] loop = "loop" ->
              /\ \E p \in {q \in DOMAIN rd : rd[q] = "send"}
                            \cup {q \in {Stopper} : stop = "send"} :
                    IF p = Stopper
                    THEN loop' = "end" /\ stop' = "sent" /\ UNCHANGED <<mu, rd>>
                    ELSE /\ loop' = "new" /\ mu' = Nil /\ stop' = stop
                         /\ rd' = [rd EXCEPT ![p] = AfterRoundDone(p)]
              /\ UNCHANGED <<round, flag, jobs>>
         [] OTHER -> FALSE
    /\ UNCHANGED <<workerVars, all, allocVars, alive, cut>>

\* The round a caller of RoundDone reports.
Reported(p) == IF p \in Timers THEN p[2] ELSE holds[p][2]

\* RoundDone: ignored unless the flag exists, is open and the round is the
\* current one; otherwise the event is sent with mu held.
RoundDone(p) ==
    /\ rd[p] = "lock" /\ mu = Nil
    /\ IF flag = "open" /\ round = Reported(p)
       THEN flag' = "done" /\ mu' = p /\ rd' = [rd EXCEPT ![p] = "send"]
       ELSE rd' = [rd EXCEPT ![p] = AfterRoundDone(p)] /\ UNCHANGED <<flag, mu>>
    /\ UNCHANGED <<workerVars, round, loop, all, stop, allocVars, clusterVars, cut>>

\* roundDoneTimeout: five seconds have passed (its cancel channel is nil).
TimeOut(r) ==
    /\ rd[Timer(r)] = "wait"
    /\ rd' = [rd EXCEPT ![Timer(r)] = "lock"]
    /\ UNCHANGED <<workerVars, schedVars, allocVars, clusterVars, cut>>

-------------------------------------------------------------------------------
(* Allocator *)

\* syncPartitions and roundRun up to its loop: one batch, over the own ip, for
\* every build function registered by now.
syncPartitions(j) ==
    /\ j \in jobs /\ j[1] = "SyncPartition"
    /\ jobs' = jobs \ {j}
    /\ IF j[2]
       THEN /\ part' = j[3]
            /\ build' = [build EXCEPT ![j[3].Round] = 1 .. funcs]
       ELSE UNCHANGED <<part, build>>
    /\ UNCHANGED <<workerVars, schedVars, registered, funcs, cutFuncs, rd, alive, cut>>

\* The batchDone task put before the tasks of the batch.
FaultyroundRun(r, ok) ==
    /\ build[r] # {} /\ put[Runner(r)] = <<>>
    /\ LET f == CHOOSE x \in build[r] : \A y \in build[r] : x <= y IN
       /\ build' = [build EXCEPT ![r] = @ \ {f}]
       /\ IF ok THEN Put(Runner(r), <<BatchDone(r, f), IpTask(r, f)>>) ELSE UNCHANGED workerVars
    /\ UNCHANGED <<schedVars, registered, funcs, cutFuncs, part, rd, clusterVars, cut>>

\* An iteration of roundRun's inner loop: the tasks of a build function and a
\* batchDone task after them; a function that fails is passed over.
roundRun(r, ok) ==
    /\ build[r] # {} /\ put[Runner(r)] = <<>>
    /\ LET f == CHOOSE x \in build[r] : \A y \in build[r] : x <= y IN
       /\ build' = [build EXCEPT ![r] = @ \ {f}]
       /\ IF ok THEN Put(Runner(r), <<IpTask(r, f), BatchDone(r, f)>>) ELSE UNCHANGED workerVars
    /\ UNCHANGED <<schedVars, registered, funcs, cutFuncs, part, rd, clusterVars, cut>>

\* partitionDone, first part: the finished batch is counted under the lock.
partitionDone(g) ==
    /\ at[g] = "exec" /\ holds[g][1] = "done" /\ rd[g] = "no"
    /\ part' = [part EXCEPT !.FinBatchCount = @ + 1,
                            !.done = IF part.FinBatchCount + 1 < BatchCount THEN @ ELSE @ \cup {Me}]
    /\ rd' = [rd EXCEPT ![g] = IF Me \in part'.done THEN "decide" ELSE "no"]
    /\ IF Me \in part'.done THEN UNCHANGED workerVars ELSE Finish(g)
    /\ UNCHANGED <<schedVars, registered, funcs, cutFuncs, build, clusterVars, cut>>

\* Second part: with every other alive node's partition done the round is done,
\* otherwise the own partition is published.
decide(g) ==
    /\ rd[g] = "decide"
    /\ IF (part.names \cap alive) \subseteq part.done
       THEN rd' = [rd EXCEPT ![g] = "lock"] /\ UNCHANGED <<workerVars, jobs>>
       ELSE /\ Publish(jobs, "SyncPartitionDone", Me)
            /\ rd' = [rd EXCEPT ![g] = "no"]
            /\ Finish(g)
    /\ UNCHANGED <<schedVars, allocVars, alive, cut>>

\* RoundDone of the received partition is copied; the own one was done already.
syncPartitionDone(j) ==
    /\ j \in jobs /\ j[1] = "SyncPartitionDone"
    /\ jobs' = jobs \ {j}
    /\ part' = IF j[2] THEN [part EXCEPT !.done = @ \cup {j[3]}] ELSE part
    /\ UNCHANGED <<workerVars, schedVars, registered, funcs, cutFuncs, build, rd, alive, cut>>

\* Another goroutine of the process cuts in with a list of ips.
CutIn(list) ==
    /\ registered /\ cutFuncs > 0
    /\ \A i \in DOMAIN list : list[i] \notin cut
    /\ Publish(jobs, "ManualCutInLine", list)
    /\ cut' = cut \cup {list[i] : i \in DOMAIN list}
    /\ UNCHANGED <<workerVars, schedVars, allocVars, rd, alive>>

\* The batches of a list above the threshold; the last one ends one early.
batchData(list) ==
    LET batch == (Len(list) + Threshold - 1) \div Threshold
    IN [i \in 1 .. batch |-> SubSeq(list, (i - 1) * Threshold + 1,
                                    IF i = batch THEN Len(list) - 1 ELSE i * Threshold)]

\* cutInLine of a short list: its tasks are put.  Of a long one: one batch per
\* alive node, this node first; with fewer batches than nodes the loop ends in
\* a panic that pushTask recovers.
cutInLine(j, c) ==
    /\ j \in jobs /\ j[1] = "ManualCutInLine" /\ j[2]
    /\ IF Len(j[3]) <= Threshold
       THEN /\ jobs' = jobs \ {j}
            /\ Put(c, [i \in DOMAIN j[3] |-> CutTask(j[3][i])])
       ELSE /\ Publish(jobs \ {j}, "ManualCutInLine", batchData(j[3])[1])
            /\ UNCHANGED workerVars
    /\ UNCHANGED <<schedVars, allocVars, rd, alive, cut>>

\* cutInLine of a peer's batch: not a []string any more.
cutInRefused(j) ==
    /\ j \in jobs /\ j[1] = "ManualCutInLine" /\ ~j[2]
    /\ jobs' = jobs \ {j}
    /\ UNCHANGED <<workerVars, schedVars, allocVars, rd, alive, cut>>

\* The worker's steps for tasks other than batchDone.
TaskReturns(g) ==
    /\ holds[g] # Nil /\ holds[g][1] # "done"
    /\ Finish(g)
    /\ UNCHANGED <<schedVars, allocVars, rd, clusterVars, cut>>

WorkerMoves ==
    /\ \/ \E c \in Caller, g \in Goroutine : Hand(c, g)
       \/ \E g \in Goroutine : Fail(g)
       \/ \E g, h \in Goroutine : Retry(g, h)
    /\ UNCHANGED <<schedVars, allocVars, rd, clusterVars, cut>>

-------------------------------------------------------------------------------
newScheduler ==
    /\ mu = Nil /\ round = 0 /\ flag = "absent" /\ loop = "off" /\ all = "off" /\ stop = "no"

newAllocator ==
    /\ registered = FALSE /\ funcs = 0 /\ cutFuncs = 0 /\ part = Nil
    /\ build = [r \in 1 .. MaxRound |-> {}]
    /\ rd = [p \in Goroutine \cup Timers |-> "no"]

Init ==
    /\ WorkerInit /\ newScheduler /\ newAllocator
    /\ jobs = {} /\ alive \in SUBSET Peer
    /\ cut = {}

\* Goroutines that only need the scheduler of the Go runtime to go on.
Step ==
    \/ startAll \/ Loop \/ WorkerMoves
    \/ \E p \in Goroutine \cup Timers : RoundDone(p)
    \/ \E r \in 1 .. MaxRound : TimeOut(r) \/ \E ok \in BOOLEAN : roundRun(r, ok)
    \/ \E g \in Goroutine : partitionDone(g) \/ decide(g) \/ TaskReturns(g)
    \/ \E j \in jobs : syncPartitions(j) \/ syncPartitionDone(j) \/ cutInRefused(j)
    \/ \E j \in jobs, c \in Cutters : cutInLine(j, c)

\* What the program's user and the other nodes do.
Outside ==
    \/ RegistryTaskBuild \/ RegistryCutInLineTaskBuild \/ StartAfterInjected \/ Start \/ Stop
    \/ \E name \in {"SyncPartition", "SyncPartitionDone", "ManualCutInLine"} : PeerJob(name)
    \/ \E p \in Peer : AliveChange(p)
    \/ \E list \in CutLists : CutIn(list)

Next == Step \/ Outside

Spec == Init /\ [][Next]_vars

\* The worker's steps that leave the rest alone.
Alone(A) == A /\ UNCHANGED <<schedVars, allocVars, rd, clusterVars, cut>>

\* Every goroutine that can go on does; nothing is asked of the outside.
Fairness ==
    /\ WF_vars(startAll) /\ WF_vars(Loop)
    /\ \A r \in 1 .. MaxRound :
          WF_vars(TimeOut(r) \/ RoundDone(Timer(r))) /\ WF_vars(\E ok \in BOOLEAN : roundRun(r, ok))
    /\ \A g \in Goroutine :
          WF_vars(\/ partitionDone(g) \/ decide(g) \/ RoundDone(g) \/ TaskReturns(g)
                  \/ Alone(\E h \in Goroutine : Retry(g, h)))
    /\ \A c \in Caller : WF_vars(Alone(\E g \in Goroutine : Hand(c, g)))
    /\ WF_vars(\E j \in jobs : syncPartitions(j))
    /\ WF_vars(\E j \in jobs, c \in Cutters : cutInLine(j, c))

-------------------------------------------------------------------------------
(* Properties *)

\* The types of the variables.
TypeOK ==
    /\ WorkerTypeOK
    /\ mu \in {Nil} \cup Goroutine \cup Timers /\ round \in 0 .. MaxRound
    /\ flag \in {"absent", "open", "done"} /\ loop \in {"off", "loop", "new", "end"}
    /\ all \in {"off", "ready", "end"} /\ stop \in {"no", "send", "sent"}
    /\ registered \in BOOLEAN /\ funcs \in 0 .. MaxFuncs /\ cutFuncs \in {0, 1}
    /\ part # Nil => part.names \subseteq Peer \cup {Me} /\ part.done \subseteq part.names
    /\ build \in [1 .. MaxRound -> SUBSET (1 .. MaxFuncs)]
    /\ rd \in [Goroutine \cup Timers -> {"no", "wait", "decide", "lock", "send", "cancel", "end"}]
    /\ alive \subseteq Peer

\* A batchDone task runs only after the tasks of its build function have been
\* started: Put hands them over in order, so what a partition that is done can
\* still miss is the end of tasks, not their beginning.
DoneAfterStarted ==
    \A g \in Goroutine, r \in 1 .. MaxRound, f \in 1 .. MaxFuncs :
        holds[g] = BatchDone(r, f) => runs[IpTask(r, f)] > 0

\* The safety of the rounds, and their types.
RoundsSound == TypeOK /\ DoneAfterStarted

\* A call of RoundDone returns: the timeout and a worker's report never wait
\* for ever on Scheduler.mu or for the loop to receive, not even after Stop.
RoundDoneReturns ==
    \A p \in Goroutine \cup Timers : (rd[p] = "lock") ~> (rd[p] \notin {"lock", "send"})

\* The worker has no goroutine left to receive a task: each blocks for ever on
\* cancelRoundTimeout, or waits to send a failed task back to the others.
NobodyReceives == \A g \in Goroutine : rd[g] = "cancel" \/ at[g] = "retry"

\* The head of a list that was cut in is executed here, also when the list is cut
\* into batches, unless callRoundDone and retries have blocked all goroutines of
\* the worker; one that is blocked leaves the other.
CutInRuns ==
    \A list \in CutLists : (list[1] \in cut) ~> (runs[CutTask(list[1])] > 0 \/ NobodyReceives)

\* What the rounds promise in the end: RoundDone returns and what cuts in runs.
RoundsServe == RoundDoneReturns /\ CutInRuns

===============================================================================
