------------------------------- MODULE MCTasks --------------------------------
(***************************************************************************)
(* Package task for TLC: the rounds with the default worker, which has one *)
(* bucket, and a worker of its own with two buckets, callers of Put and    *)
(* Done, and tasks that fail or panic.                                     *)
(*                                                                         *)
(* The two workers share no state: unit chooses whether the rounds or the  *)
(* second worker run, and the other stays in its initial state.            *)
(***************************************************************************)
EXTENDS Rounds, TLC

CONSTANTS
    i1, i2,             \* ips that cut in
    b0, b1, b2, Putter  \* the second worker: its tasks and callers of Put

VARIABLES at2, holds2, put2, RetryTimes2, tokens2, runs2, given2, unit

Zero == [t \in Task |-> 0]
JobRetries == [t \in Task |-> IF t \in Failing THEN 1 ELSE 0]
FirstJob == {IpTask(1, 1)}
Long == {<<i1, i2>>}

Task2 == {b0, b1, b2}

Second == INSTANCE Worker WITH
    parallelism <- 2, Caller <- Putter, Task <- Task2,
    ID <- b0 :> 0 @@ b1 :> 1 @@ b2 :> 2,
    Failing <- Task2, Panicking <- {b1}, RetryLimit <- [t \in Task2 |-> 2],
    at <- at2, holds <- holds2, put <- put2, RetryTimes <- RetryTimes2,
    tokens <- tokens2, runs <- runs2, given <- given2

vars2 == <<at2, holds2, put2, RetryTimes2, tokens2, runs2, given2>>

\* A call of Put with one or two new tasks.
PutCall ==
    \E c \in Putter : \E n \in 1 .. 2 : \E list \in [1 .. n -> Task2] :
        Second!Fresh(list) /\ Second!Put(c, list)

UnitInit ==
    /\ unit \in {"rounds", "worker"} /\ (unit # "rounds" => alive = {})
    /\ Init /\ Second!WorkerInit

UnitNext ==
    /\ \/ unit = "rounds" /\ Next /\ UNCHANGED vars2
       \/ unit = "worker" /\ (PutCall \/ Second!Done \/ Second!WorkerStep) /\ UNCHANGED vars
    /\ UNCHANGED unit

\* The fairness of each unit: in the one that does not run nothing is in progress.
UnitSpec ==
    /\ UnitInit /\ [][UnitNext]_<<vars, vars2, unit>>
    /\ Fairness /\ Second!WorkerFairness

-------------------------------------------------------------------------------
\* WorkerSound of the second worker: a task waits in one list or is held by one
\* goroutine, also while it is sent back to be retried, and is executed at most
\* once more than its RetryLimit; Done and panics leave the other goroutines.
SecondSound == Second!WorkerSound

\* While nobody calls Done, Put returns but for a bucket jammed by retries; Done
\* returns, as its tokens find goroutines to take them.
WorkerServes == Second!PutReturns /\ Second!DoneReturns

===============================================================================
