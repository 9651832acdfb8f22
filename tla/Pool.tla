--------------------------------- MODULE Pool ---------------------------------
(***************************************************************************)
(* The goroutine pool of package gopool (src/gopool/pool.go, worker.go).   *)
(*                                                                         *)
(* Callers of CtxGo and worker goroutines share a linked list of task      *)
(* objects under taskLock, and counters that are read without it.  A       *)
(* critical section, an atomic load or an atomic add is one step.  Task    *)
(* objects are recycled through a sync.Pool, modelled as a set.            *)
(***************************************************************************)
EXTENDS Integers, Sequences, FiniteSets

CONSTANTS
    Caller,          \* goroutines that call CtxGo
    Job,             \* the functions they hand over, one per call
    ExitJob,         \* the functions that end in runtime.Goexit
    Task,            \* task objects
    Worker,          \* bound: worker goroutines at one time
    Nil,             \* the nil pointer, no function
    MaxCap,          \* bound: highest capacity
    ScaleThreshold   \* config.ScaleThreshold

ASSUME PoolAssumption ==
    /\ IsFiniteSet(Caller) /\ IsFiniteSet(Worker) /\ Caller # {}
    /\ Nil \notin Task /\ Nil \notin Job /\ ExitJob \subseteq Job
    /\ MaxCap \in Nat \ {0} /\ ScaleThreshold \in Int

VARIABLES
    taskHead, taskTail,  \* the ends of the task list
    next, f,             \* fields of the task objects
    free,                \* task objects in taskPool, or not allocated yet
    taskCount, workerCount, cap,
    pc,                  \* pc[c]: where caller c is in CtxGo
    t,                   \* t[c]: its task object
    seen,                \* seen[c]: the workerCount it has loaded
    wpc,                 \* wpc[w]: "none" no such goroutine, "loop", "run", "gone"
    wt,                  \* wt[w]: the task worker w runs
    todo,                \* functions not handed over yet
    \* history, read by no action
    queue,               \* the task objects in the list, oldest first
    done                 \* functions that have ended

listVars   == <<taskHead, taskTail, next, queue>>
callerVars == <<pc, t, seen>>
vars == <<listVars, f, free, taskCount, workerCount, cap, callerVars, wpc, wt, todo, done>>

Pc == {"idle", "lock", "count", "load", "workers", "cap", "zero", "incr"}

Goto(c, l) == pc' = [pc EXCEPT ![c] = l]

-------------------------------------------------------------------------------
(* CtxGo *)

\* The function not stored in the recycled object.
FaultyGet(c, j, o) ==
    /\ pc[c] = "idle" /\ j \in todo /\ o \in free
    /\ todo' = todo \ {j}
    /\ free' = free \ {o}
    /\ t' = [t EXCEPT ![c] = o]
    /\ Goto(c, "lock")
    /\ UNCHANGED <<listVars, f, taskCount, workerCount, cap, seen, wpc, wt, done>>

\* taskPool.Get and the assignment of the fields.
Get(c, j, o) ==
    /\ pc[c] = "idle" /\ j \in todo /\ o \in free
    /\ todo' = todo \ {j}
    /\ free' = free \ {o}
    /\ f' = [f EXCEPT ![o] = j]
    /\ t' = [t EXCEPT ![c] = o]
    /\ Goto(c, "lock")
    /\ UNCHANGED <<listVars, taskCount, workerCount, cap, seen, wpc, wt, done>>

\* The critical section: append the task to the list.
Enqueue(c) ==
    /\ pc[c] = "lock"
    /\ IF taskHead = Nil
       THEN taskHead' = t[c] /\ UNCHANGED next
       ELSE next' = [next EXCEPT ![taskTail] = t[c]] /\ UNCHANGED taskHead
    /\ taskTail' = t[c]
    /\ queue' = Append(queue, t[c])
    /\ t' = [t EXCEPT ![c] = Nil]
    /\ Goto(c, "count")
    /\ UNCHANGED <<f, free, taskCount, workerCount, cap, seen, wpc, wt, todo, done>>

\* atomic.AddInt32(&p.taskCount, 1), after the unlock.
Count(c) ==
    /\ pc[c] = "count"
    /\ taskCount' = taskCount + 1
    /\ Goto(c, "load")
    /\ UNCHANGED <<listVars, f, free, workerCount, cap, t, seen, wpc, wt, todo, done>>

\* taskCount >= ScaleThreshold
LoadTaskCount(c) ==
    /\ pc[c] = "load"
    /\ Goto(c, IF taskCount >= ScaleThreshold THEN "workers" ELSE "zero")
    /\ UNCHANGED <<listVars, f, free, taskCount, workerCount, cap, t, seen, wpc, wt, todo, done>>

\* WorkerCount() < cap: two loads.
LoadWorkerCount(c) ==
    /\ pc[c] = "workers"
    /\ seen' = [seen EXCEPT ![c] = workerCount]
    /\ Goto(c, "cap")
    /\ UNCHANGED <<listVars, f, free, taskCount, workerCount, cap, t, wpc, wt, todo, done>>

\* A capacity compared with <= instead of <.
FaultyLoadCap(c) ==
    /\ pc[c] = "cap"
    /\ Goto(c, IF seen[c] <= cap THEN "incr" ELSE "zero")
    /\ seen' = [seen EXCEPT ![c] = 0]
    /\ UNCHANGED <<listVars, f, free, taskCount, workerCount, cap, t, wpc, wt, todo, done>>

LoadCap(c) ==
    /\ pc[c] = "cap"
    /\ Goto(c, IF seen[c] < cap THEN "incr" ELSE "zero")
    /\ seen' = [seen EXCEPT ![c] = 0]
    /\ UNCHANGED <<listVars, f, free, taskCount, workerCount, cap, t, wpc, wt, todo, done>>

\* The call returns without looking whether any worker is left.
FaultyZero(c) ==
    /\ pc[c] = "zero"
    /\ Goto(c, "idle")
    /\ UNCHANGED <<listVars, f, free, taskCount, workerCount, cap, t, seen, wpc, wt, todo, done>>

\* p.WorkerCount() == 0
Zero(c) ==
    /\ pc[c] = "zero"
    /\ Goto(c, IF workerCount = 0 THEN "incr" ELSE "idle")
    /\ UNCHANGED <<listVars, f, free, taskCount, workerCount, cap, t, seen, wpc, wt, todo, done>>

\* incrWorkerCount, and a worker goroutine is started.
Incr(c, w) ==
    /\ pc[c] = "incr" /\ wpc[w] = "none"
    /\ workerCount' = workerCount + 1
    /\ wpc' = [wpc EXCEPT ![w] = "loop"]
    /\ Goto(c, "idle")
    /\ UNCHANGED <<listVars, f, free, taskCount, cap, t, seen, wt, todo, done>>

SetCap(n) ==
    /\ cap' = n
    /\ UNCHANGED <<listVars, f, free, taskCount, workerCount, callerVars, wpc, wt, todo, done>>

-------------------------------------------------------------------------------
(* worker.run *)

\* The critical section: take the oldest task.
Take(w) ==
    /\ wpc[w] = "loop" /\ taskHead # Nil
    /\ wt' = [wt EXCEPT ![w] = taskHead]
    /\ taskHead' = next[taskHead]
    /\ queue' = Tail(queue)
    /\ taskCount' = taskCount - 1
    /\ wpc' = [wpc EXCEPT ![w] = "run"]
    /\ UNCHANGED <<taskTail, next, f, free, workerCount, cap, callerVars, todo, done>>

\* A worker with nothing to do that does not return.
FaultyStop(w) == wpc[w] = "loop" /\ taskHead = Nil /\ UNCHANGED vars

\* The critical section, nothing to do: decWorkerCount under the lock, and return.
Stop(w) ==
    /\ wpc[w] = "loop" /\ taskHead = Nil
    /\ workerCount' = workerCount - 1
    /\ wpc' = [wpc EXCEPT ![w] = "none"]
    /\ UNCHANGED <<listVars, f, free, taskCount, cap, callerVars, wt, todo, done>>

\* A task recycled with its old successor.
FaultyFinish(w) ==
    /\ wpc[w] = "run" /\ f[wt[w]] \notin ExitJob
    /\ done' = done \cup {f[wt[w]]}
    /\ f' = [f EXCEPT ![wt[w]] = Nil]
    /\ free' = free \cup {wt[w]}
    /\ wpc' = [wpc EXCEPT ![w] = "loop"]
    /\ wt' = [wt EXCEPT ![w] = Nil]
    /\ UNCHANGED <<taskHead, taskTail, next, queue, taskCount, workerCount, cap, callerVars, todo>>

\* The function returns or panics (the panic is recovered); the task is zeroed
\* and recycled.
Finish(w) ==
    /\ wpc[w] = "run" /\ f[wt[w]] \notin ExitJob
    /\ done' = done \cup {f[wt[w]]}
    /\ next' = [next EXCEPT ![wt[w]] = Nil]
    /\ f' = [f EXCEPT ![wt[w]] = Nil]
    /\ free' = free \cup {wt[w]}
    /\ wpc' = [wpc EXCEPT ![w] = "loop"]
    /\ wt' = [wt EXCEPT ![w] = Nil]
    /\ UNCHANGED <<taskHead, taskTail, queue, taskCount, workerCount, cap, callerVars, todo>>

\* The function calls runtime.Goexit: nothing is recovered, and the goroutine ends.
Goexit(w) ==
    /\ wpc[w] = "run" /\ f[wt[w]] \in ExitJob
    /\ done' = done \cup {f[wt[w]]}
    /\ wpc' = [wpc EXCEPT ![w] = "gone"]
    /\ UNCHANGED <<listVars, f, free, taskCount, workerCount, cap, callerVars, wt, todo>>

-------------------------------------------------------------------------------
Init ==
    /\ taskHead = Nil /\ taskTail = Nil /\ queue = <<>>
    /\ next = [o \in Task |-> Nil] /\ f = [o \in Task |-> Nil]
    /\ free = Task
    /\ taskCount = 0 /\ workerCount = 0 /\ cap \in 0..MaxCap
    /\ pc = [c \in Caller |-> "idle"] /\ t = [c \in Caller |-> Nil]
    /\ seen = [c \in Caller |-> 0]
    /\ wpc = [w \in Worker |-> "none"] /\ wt = [w \in Worker |-> Nil]
    /\ todo = Job /\ done = {}

CtxGo(c) ==
    \/ \E j \in todo, o \in free : Get(c, j, o)
    \/ Enqueue(c) \/ Count(c) \/ LoadTaskCount(c) \/ LoadWorkerCount(c) \/ LoadCap(c)
    \/ Zero(c) \/ \E w \in Worker : Incr(c, w)

run(w) == Take(w) \/ Stop(w) \/ Finish(w) \/ Goexit(w)

Next ==
    \/ \E c \in Caller : CtxGo(c)
    \/ \E w \in Worker : run(w)
    \/ \E n \in 0..MaxCap : SetCap(n)

Spec == Init /\ [][Next]_vars

\* The Go scheduler runs every call of CtxGo and every worker; the functions end.
Fairness ==
    /\ \A c \in Caller : WF_vars(pc[c] # "idle" /\ CtxGo(c))
    /\ \A w \in Worker : WF_vars(run(w))

FairSpec == Spec /\ Fairness

-------------------------------------------------------------------------------
(* Properties *)

\* Every variable keeps its type: the pointers of the task list and the counters.
TypeOK ==
    /\ taskHead \in Task \cup {Nil} /\ taskTail \in Task \cup {Nil}
    /\ next \in [Task -> Task \cup {Nil}] /\ f \in [Task -> Job \cup {Nil}]
    /\ free \subseteq Task /\ queue \in Seq(Task)
    /\ taskCount \in Int /\ workerCount \in Int /\ cap \in 0..MaxCap
    /\ pc \in [Caller -> Pc] /\ t \in [Caller -> Task \cup {Nil}]
    /\ seen \in [Caller -> Int]
    /\ wpc \in [Worker -> {"none", "loop", "run", "gone"}]
    /\ wt \in [Worker -> Task \cup {Nil}]
    /\ todo \subseteq Job /\ done \subseteq Job

Queued == {queue[i] : i \in DOMAIN queue}
Filling == {c \in Caller : pc[c] = "lock"}
Busy == {w \in Worker : wpc[w] \in {"run", "gone"}}
Alive == {w \in Worker : wpc[w] \in {"loop", "run"}}
Scaling == {c \in Caller : pc[c] \in {"count", "load", "workers", "cap", "zero", "incr"}}

\* The head, next and tail pointers that CtxGo and the workers rewrite form the
\* list of queued tasks, ended by nil.
ListOK ==
    /\ taskHead = IF queue = <<>> THEN Nil ELSE queue[1]
    /\ \A i \in 1..Len(queue) : next[queue[i]] = IF i = Len(queue) THEN Nil ELSE queue[i + 1]
    /\ queue # <<>> => taskTail = queue[Len(queue)]

\* A recycled task object is never in use: each belongs to taskPool, to one caller
\* filling it in, to one place of the list or to one worker.
OneOwner ==
    /\ \A i, j \in 1..Len(queue) : queue[i] = queue[j] => i = j
    /\ \A c, d \in Filling : t[c] = t[d] => c = d
    /\ \A v, w \in Busy : wt[v] = wt[w] => v = w
    /\ \A c \in Filling : t[c] \notin free \cup Queued \cup {wt[w] : w \in Busy}
    /\ \A w \in Busy : wt[w] \notin free \cup Queued
    /\ free \cap Queued = {}

\* taskCount, which CtxGo adds to after it has unlocked the list, lags behind the
\* list by exactly the callers between the two; it may be negative meanwhile.
CountLags == taskCount = Len(queue) - Cardinality({c \in Caller : pc[c] = "count"})

\* While no function has called Goexit, a waiting task has a worker that will
\* look at the list again, or a caller that is still to decide about a new worker.
NoStrandedTask ==
    queue # <<>> /\ (\A w \in Worker : wpc[w] # "gone") => Alive # {} \/ Scaling # {}

\* The check of the capacity and the increment are separate: callers can overshoot
\* the capacity, but only by one worker for each other caller.
CapBound == workerCount <= MaxCap + Cardinality(Caller) - 1

\* The functions of the queued tasks and of the tasks the workers run.
Waiting == [i \in 1..Len(queue) |-> f[queue[i]]]
Started == {f[wt[w]] : w \in {v \in Worker : wpc[v] = "run"}}

TQ == INSTANCE TaskQueue WITH waiting <- Waiting, running <- Started, finished <- done

\* CtxGo and the workers implement the FIFO queue of TaskQueue: every function is
\* started once, in the order of the critical sections, by the worker that has its task.
FIFO == TQ!Spec

Gone == {w \in Worker : wpc[w] = "gone"}

\* Every function handed to CtxGo is run in the end, whatever the capacity, unless
\* one of them has called Goexit: then no worker may be started for the others.
EveryTaskRuns == \A j \in Job : j \notin todo ~> (j \in done \/ Gone # {})

\* When nothing is left to run the pool gives its goroutines back and counts them
\* down to 0, but for those that ended in Goexit, which stay counted for ever.
WorkersLeave == <>[](workerCount = Cardinality(Gone))

-------------------------------------------------------------------------------
(* The inductive invariant behind the safety properties *)

\* The tasks whose function has not ended.
Running == {w \in Worker : wpc[w] = "run"}
InUse == {t[c] : c \in Filling} \cup Queued \cup {wt[w] : w \in Running}

\* Tasks in use carry different functions, each handed over and not yet ended.
JobInv ==
    /\ \A c \in Filling : t[c] \in Task
    /\ \A w \in Busy : wt[w] \in Task
    /\ \A o \in InUse : f[o] \in Job \ (todo \cup done)
    /\ \A o, p \in InUse : f[o] = f[p] => o = p
    /\ todo \cap done = {}

\* A task that is not in the list yet has no successor.
Cleared == \A o \in free \cup {t[c] : c \in Filling} : next[o] = Nil

WorkersCounted == workerCount = Cardinality({w \in Worker : wpc[w] # "none"})

Covered == queue # <<>> => workerCount > 0 \/ Scaling # {}

\* Callers that have found room for a worker, or will once they load the capacity.
Promised == {c \in Caller : pc[c] = "incr" \/ (pc[c] = "cap" /\ seen[c] < MaxCap)}
CapInv == workerCount + Cardinality(Promised) <= MaxCap + Cardinality(Caller) - 1

\* The inductive invariant: from it follow CountLags, NoStrandedTask, CapBound and FIFO.
PoolInv ==
    /\ TypeOK /\ ListOK /\ OneOwner /\ Cleared /\ JobInv
    /\ CountLags /\ WorkersCounted /\ Covered /\ CapInv

-------------------------------------------------------------------------------
(* What the comments of the package say *)

\* gopool.go, line 29: "WorkerCount returns the number of global default pool's
\* running workers".
WorkerCountIsRunning == workerCount = Cardinality(Alive)

===============================================================================
