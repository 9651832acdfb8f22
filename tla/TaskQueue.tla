------------------------------ MODULE TaskQueue ------------------------------
(***************************************************************************)
(* What package gopool promises about the functions handed to Go and CtxGo *)
(* (src/gopool/pool.go): each waits in a FIFO queue, is started once, and  *)
(* ends.                                                                   *)
(***************************************************************************)
EXTENDS Sequences, FiniteSets

CONSTANT Job      \* the functions handed to the pool, one per call

VARIABLES
    waiting,      \* functions in the queue, oldest first
    running,      \* functions being run
    finished      \* functions that have ended

Accepted == {waiting[i] : i \in DOMAIN waiting} \cup running \cup finished

Submit(j) ==
    /\ j \notin Accepted
    /\ waiting' = Append(waiting, j)
    /\ UNCHANGED <<running, finished>>

Start ==
    /\ waiting # <<>>
    /\ running' = running \cup {Head(waiting)}
    /\ waiting' = Tail(waiting)
    /\ UNCHANGED finished

Finish(j) ==
    /\ j \in running
    /\ running' = running \ {j}
    /\ finished' = finished \cup {j}
    /\ UNCHANGED waiting

Init == waiting = <<>> /\ running = {} /\ finished = {}

Next == Start \/ \E j \in Job : Submit(j) \/ Finish(j)

Spec == Init /\ [][Next]_<<waiting, running, finished>>

===============================================================================
