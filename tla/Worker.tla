-------------------------------- MODULE Worker --------------------------------
(***************************************************************************)
(* The task worker of package task (src/task/worker.go).                   *)
(*                                                                         *)
(* Each bucket is an unbuffered channel served by two goroutines.  Put     *)
(* hands its tasks over one by one; a task that fails and may be retried   *)
(* is sent back into the bucket by the goroutine that ran it, which        *)
(* receives nothing meanwhile.  A send and the receive it meets are one    *)
(* step.                                                                   *)
(***************************************************************************)
EXTENDS Integers, Sequences, FiniteSets

CONSTANTS
    parallelism,    \* number of buckets
    Caller,         \* goroutines that call Put
    Task,           \* task objects
    ID,             \* ID[t]: its number
    Failing,        \* the tasks whose function may return an error
    Panicking,      \* the tasks whose function may panic
    RetryLimit,     \* RetryLimit[t]; NeedRetry is RetryLimit[t] > 0
    Nil             \* no task

ASSUME WorkerAssumption ==
    /\ parallelism \in Nat \ {0}
    /\ ID \in [Task -> Nat] /\ RetryLimit \in [Task -> Nat]
    /\ Failing \subseteq Task /\ Panicking \subseteq Task /\ IsFiniteSet(Panicking)
    /\ Nil \notin Task

VARIABLES
    at,             \* at[g]: "select", "exec", "retry" (sending a task back) or "end"
    holds,          \* holds[g]: the task the goroutine executes or sends back
    put,            \* put[c]: the tasks a call of Put still has to hand over
    RetryTimes,     \* RetryTimes[t]
    tokens,         \* tokens a call of Done still has to send, -1 before the call
    \* history, read by no action
    runs,           \* runs[t]: how often t.F was called
    given           \* tasks given to Put

workerVars == <<at, holds, put, RetryTimes, tokens, runs, given>>

\* Start: two goroutines for every bucket.
Goroutine == (0 .. parallelism - 1) \X {1, 2}

\* One bucket too many.
Faultybucket(t) == ID[t] % (parallelism + 1)

\* pos := t.ID % len(w.buckets)
bucket(t) == ID[t] % parallelism

\* Goroutine g goes on to l with task t.
Moves(g, l, t) ==
    /\ at' = [at EXCEPT ![g] = l]
    /\ holds' = [holds EXCEPT ![g] = t]

\* The goroutine receives t and calls t.F.
Receives(g, t) == at[g] = "select" /\ g[1] = bucket(t)

-------------------------------------------------------------------------------
(* Put, Done *)

\* A call of Put with a list of tasks that were not given before.
Put(c, list) ==
    /\ put[c] = <<>>
    /\ put' = [put EXCEPT ![c] = list]
    /\ given' = given \cup {list[i] : i \in DOMAIN list}
    /\ UNCHANGED <<at, holds, RetryTimes, tokens, runs>>

\* w.buckets[pos] <- t of Put meets the receive of goroutine g.
Hand(c, g) ==
    /\ put[c] # <<>>
    /\ LET t == Head(put[c]) IN
       /\ Receives(g, t)
       /\ Moves(g, "exec", t)
       /\ runs' = [runs EXCEPT ![t] = @ + 1]
    /\ put' = [put EXCEPT ![c] = Tail(@)]
    /\ UNCHANGED <<RetryTimes, tokens, given>>

Done ==
    /\ tokens = -1
    /\ tokens' = parallelism
    /\ UNCHANGED <<at, holds, put, RetryTimes, runs, given>>

\* w.done <- struct{}{} meets the receive of goroutine g, which returns.
Take(g) ==
    /\ at[g] = "select" /\ tokens > 0
    /\ Moves(g, "end", Nil)
    /\ tokens' = tokens - 1
    /\ UNCHANGED <<put, RetryTimes, runs, given>>

-------------------------------------------------------------------------------
(* The goroutines of Start *)

\* err != nil && task.NeedRetry && task.RetryTimes < task.RetryLimit
Retries(t) == t \in Failing /\ RetryLimit[t] > 0 /\ RetryTimes[t] < RetryLimit[t]

\* t.F returns nil, or an error that is not retried.
Finish(g) ==
    /\ at[g] = "exec"
    /\ Moves(g, "select", Nil)
    /\ UNCHANGED <<put, RetryTimes, tokens, runs, given>>

\* t.F fails: the goroutine goes on to send the task into its own bucket.
Fail(g) ==
    /\ at[g] = "exec" /\ Retries(holds[g])
    /\ RetryTimes' = [RetryTimes EXCEPT ![holds[g]] = @ + 1]
    /\ Moves(g, "retry", holds[g])
    /\ UNCHANGED <<put, tokens, runs, given>>

\* The sender goes on sending.
FaultyRetry(g, h) ==
    /\ at[g] = "retry" /\ Receives(h, holds[g])
    /\ Moves(h, "exec", holds[g])
    /\ runs' = [runs EXCEPT ![holds[g]] = @ + 1]
    /\ UNCHANGED <<put, RetryTimes, tokens, given>>

\* w.buckets[index] <- task of g meets the receive of the other goroutine h.
Retry(g, h) ==
    /\ at[g] = "retry" /\ Receives(h, holds[g])
    /\ at' = [at EXCEPT ![g] = "select", ![h] = "exec"]
    /\ holds' = [holds EXCEPT ![g] = Nil, ![h] = holds[g]]
    /\ runs' = [runs EXCEPT ![holds[g]] = @ + 1]
    /\ UNCHANGED <<put, RetryTimes, tokens, given>>

\* t.F panics: recovered outside the loop, so the goroutine ends.
Panic(g) ==
    /\ at[g] = "exec" /\ holds[g] \in Panicking
    /\ Moves(g, "end", Nil)
    /\ UNCHANGED <<put, RetryTimes, tokens, runs, given>>

-------------------------------------------------------------------------------
WorkerInit ==
    /\ at = [g \in Goroutine |-> "select"]
    /\ holds = [g \in Goroutine |-> Nil]
    /\ put = [c \in Caller |-> <<>>]
    /\ RetryTimes = [t \in Task |-> 0]
    /\ tokens = -1
    /\ runs = [t \in Task |-> 0]
    /\ given = {}

\* The steps that need no new call from outside.
WorkerStep ==
    \/ \E c \in Caller, g \in Goroutine : Hand(c, g)
    \/ \E g \in Goroutine : Take(g) \/ Finish(g) \/ Fail(g) \/ Panic(g)
    \/ \E g, h \in Goroutine : Retry(g, h)

\* A list that may be given to Put: different tasks, none given before.
Fresh(list) ==
    /\ \A i \in DOMAIN list : list[i] \notin given
    /\ \A i, j \in DOMAIN list : list[i] = list[j] => i = j

\* A worker whose callers give it any lists of new tasks.
WorkerNext ==
    \/ \E c \in Caller, list \in Seq(Task) : Fresh(list) /\ Put(c, list)
    \/ Done \/ WorkerStep

WorkerSpec == WorkerInit /\ [][WorkerNext]_workerVars

\* A goroutine that can go on does so and a task function returns; nobody is
\* obliged to call Put or Done.  Tasks are finitely many, so weak fairness is
\* enough for a sender that competes with others for a receiver.
WorkerFairness ==
    /\ \A c \in Caller : WF_workerVars(\E g \in Goroutine : Hand(c, g))
    /\ \A g \in Goroutine :
          WF_workerVars(Finish(g) \/ Fail(g) \/ Panic(g) \/ \E h \in Goroutine : Retry(g, h))
    /\ WF_workerVars(\E g \in Goroutine : Take(g))

-------------------------------------------------------------------------------
(* Properties *)

\* The types of the variables.
WorkerTypeOK ==
    /\ at \in [Goroutine -> {"select", "exec", "retry", "end"}]
    /\ holds \in [Goroutine -> Task \cup {Nil}]
    /\ put \in [Caller -> Seq(Task)]
    /\ RetryTimes \in [Task -> Nat] /\ runs \in [Task -> Nat]
    /\ tokens \in -1 .. parallelism /\ given \subseteq Task

\* A task is in one place: waiting in the list of one Put, or held by one
\* goroutine, never by the sender and the receiver of a retry at once; so no
\* task object is executed by two goroutines (RetryTimes is not locked).
OneHolder ==
    \A t \in Task :
        /\ \A g, h \in Goroutine : holds[g] = t /\ holds[h] = t => g = h
        /\ \A c, d \in Caller : \A i \in DOMAIN put[c], j \in DOMAIN put[d] :
              put[c][i] = t /\ put[d][j] = t => c = d /\ i = j
        /\ \A g \in Goroutine, c \in Caller : \A i \in DOMAIN put[c] :
              ~(holds[g] = t /\ put[c][i] = t)

\* A task is executed at most once more than its RetryLimit, whichever
\* goroutines run it and however the retries and new tasks interleave.
RunBound == \A t \in Task : runs[t] <= RetryLimit[t] + 1

\* Done ends as many goroutines as there are buckets and a panic ends one more:
\* at least the others stay, though not necessarily one in each bucket.
OthersStay ==
    Cardinality({g \in Goroutine : at[g] = "end"}) <= parallelism + Cardinality(Panicking)

\* The safety of a worker: the three together, and the types.
WorkerSound == WorkerTypeOK /\ OneHolder /\ RunBound /\ OthersStay

\* The goroutines of bucket b that have not ended all wait to send a task back
\* into it: nobody receives from it again.
Jammed(b) ==
    LET Left == {g \in Goroutine : g[1] = b /\ at[g] # "end"} IN
    Left # {} /\ \A g \in Left : at[g] = "retry"

\* While nobody calls Done, Put returns: every task of its list finds a
\* goroutine of its bucket, of which the second one is there for the case that
\* the first is held too long (worker.go:69); only retries that jam the bucket
\* keep Put waiting.
PutReturns ==
    \A c \in Caller : (put[c] # <<>>) ~>
        (put[c] = <<>> \/ tokens # -1 \/ Jammed(bucket(Head(put[c]))))

\* Done returns: there are always goroutines left to take its tokens, also when
\* a token ended the only goroutine that could have taken over a retried task;
\* only two goroutines of a bucket that retry at the same time can prevent it.
DoneReturns ==
    (tokens > 0) ~> (tokens = 0 \/ \E b \in 0 .. parallelism - 1 :
                                     \A g \in Goroutine : g[1] = b => at[g] = "retry")

===============================================================================
