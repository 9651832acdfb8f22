------------------------------ MODULE PoolProofs ------------------------------
(***************************************************************************)
(* Proofs about the goroutine pool: PoolInv is inductive, and from it      *)
(* follow the safety properties and the refinement of TaskQueue, for any   *)
(* number of callers, functions, tasks and workers, any capacity and any   *)
(* threshold.                                                              *)
(***************************************************************************)
EXTENDS Pool, FiniteSetTheorems, TLAPS

-------------------------------------------------------------------------------
(* Sequences and finite sets *)

\* What a worker leaves of the queue.
LEMMA TailFacts ==
  ASSUME NEW S, NEW q \in Seq(S), q # <<>>
  PROVE  /\ Tail(q) \in Seq(S) /\ Len(q) \in Nat \ {0}
         /\ Len(Tail(q)) = Len(q) - 1
         /\ \A i \in 1..(Len(q) - 1) : Tail(q)[i] = q[i + 1]
  OBVIOUS

\* What a caller makes of the queue.
LEMMA AppendFacts ==
  ASSUME NEW S, NEW q \in Seq(S), NEW e \in S
  PROVE  /\ Append(q, e) \in Seq(S) /\ Len(q) \in Nat
         /\ Len(Append(q, e)) = Len(q) + 1
         /\ \A i \in 1..Len(q) : Append(q, e)[i] = q[i]
         /\ Append(q, e)[Len(q) + 1] = e
  OBVIOUS

\* The queued tasks after an append and after a removal.
LEMMA QueuedFacts ==
  ASSUME NEW q \in Seq(Task)
  PROVE  /\ \A e \in Task : {Append(q, e)[i] : i \in DOMAIN Append(q, e)}
                              = {q[i] : i \in DOMAIN q} \cup {e}
         /\ q # <<>> => {Tail(q)[i] : i \in DOMAIN Tail(q)} \subseteq {q[i] : i \in DOMAIN q}
         /\ {q[i] : i \in DOMAIN q} \subseteq Task
  <1>1. \A e \in Task : {Append(q, e)[i] : i \in DOMAIN Append(q, e)}
                          = {q[i] : i \in DOMAIN q} \cup {e}
    <2> SUFFICES ASSUME NEW e \in Task
                 PROVE  {Append(q, e)[i] : i \in DOMAIN Append(q, e)}
                          = {q[i] : i \in DOMAIN q} \cup {e}
      BY Zenon
    <2>1. DOMAIN Append(q, e) = 1..(Len(q) + 1) /\ DOMAIN q = 1..Len(q) /\ Len(q) \in Nat
      OBVIOUS
    <2> QED
      BY <2>1, AppendFacts
  <1>2. ASSUME q # <<>>
        PROVE  {Tail(q)[i] : i \in DOMAIN Tail(q)} \subseteq {q[i] : i \in DOMAIN q}
    <2>1. /\ DOMAIN Tail(q) = 1..(Len(q) - 1) /\ DOMAIN q = 1..Len(q)
          /\ Len(q) \in Nat \ {0}
      BY <1>2
    <2>2. \A i \in 1..(Len(q) - 1) : i + 1 \in 1..Len(q) /\ Tail(q)[i] = q[i + 1]
      BY <1>2, <2>1, TailFacts
    <2> QED
      BY <2>1, <2>2, Zenon
  <1>3. {q[i] : i \in DOMAIN q} \subseteq Task
    OBVIOUS
  <1> QED
    BY <1>1, <1>2, <1>3, Zenon

\* A caller or a worker that joins or leaves a set of them.
LEMMA Joins ==
  ASSUME NEW T, IsFiniteSet(T), NEW S, NEW R, NEW x, S \subseteq T, x \notin S,
         R = S \cup {x}
  PROVE  Cardinality(R) = Cardinality(S) + 1 /\ Cardinality(S) \in Nat
  <1>1. IsFiniteSet(S)
    BY FS_Subset, Zenon
  <1> QED
    BY <1>1, FS_AddElement, FS_CardinalityType, Zenon

\* A set of callers has at most as many members as there are callers.
LEMMA AtMost ==
  ASSUME NEW T, IsFiniteSet(T), NEW S, S \subseteq T
  PROVE  /\ Cardinality(S) <= Cardinality(T)
         /\ Cardinality(S) \in Nat /\ Cardinality(T) \in Nat
  BY FS_Subset, FS_CardinalityType, Zenon

-------------------------------------------------------------------------------
(* Types *)

\* A new pool has its types.
LEMMA InitType == Init => TypeOK
  BY PoolAssumption DEF Init, TypeOK, Pc

\* A step of Go keeps the types.
LEMMA CallerType ==
  ASSUME PoolInv, NEW c \in Caller, CtxGo(c)
  PROVE  TypeOK'
  <1> USE PoolAssumption DEF TypeOK, listVars, Goto
  <1>0. TypeOK /\ (pc[c] = "lock" => t[c] \in Task)
    BY Zenon DEF PoolInv, JobInv, Filling
  <1>1. CASE \E j \in todo, o \in free : Get(c, j, o)
    BY <1>0, <1>1 DEF Get, Pc
  <1>2. CASE Enqueue(c)
    <2>1. queue' \in Seq(Task)
      BY <1>0, <1>2, AppendFacts, Zenon DEF Enqueue
    <2> QED
      BY <1>0, <1>2, <2>1, Zenon DEF Enqueue, Pc
  <1>3. CASE Count(c)
    BY <1>0, <1>3 DEF Count, Pc
  <1>4. CASE LoadTaskCount(c)
    BY <1>0, <1>4, Zenon DEF LoadTaskCount, Pc
  <1>5. CASE LoadWorkerCount(c)
    BY <1>0, <1>5, Zenon DEF LoadWorkerCount, Pc
  <1>6. CASE LoadCap(c)
    BY <1>0, <1>6 DEF LoadCap, Pc
  <1>7. CASE Zero(c)
    BY <1>0, <1>7, Zenon DEF Zero, Pc
  <1>8. CASE \E w \in Worker : Incr(c, w)
    BY <1>0, <1>8 DEF Incr, Pc
  <1> QED
    BY <1>1, <1>2, <1>3, <1>4, <1>5, <1>6, <1>7, <1>8, Zenon DEF CtxGo

\* A step of a worker keeps the types.
LEMMA WorkerType ==
  ASSUME PoolInv, NEW w \in Worker, run(w)
  PROVE  TypeOK'
  <1> USE PoolAssumption DEF TypeOK, listVars, callerVars
  <1>0. /\ TypeOK /\ (wpc[w] = "run" => wt[w] \in Task /\ f[wt[w]] \in Job)
        /\ taskHead # Nil => queue # <<>>
    BY Zenon DEF PoolInv, JobInv, ListOK, Busy, InUse, Running
  <1>1. CASE Take(w)
    <2>1. queue' \in Seq(Task)
      BY <1>0, <1>1, TailFacts, Zenon DEF Take
    <2> QED
      BY <1>0, <1>1, <2>1 DEF Take
  <1>2. CASE Stop(w)
    BY <1>0, <1>2 DEF Stop
  <1>3. CASE Finish(w)
    BY <1>0, <1>3, Zenon DEF Finish
  <1>4. CASE Goexit(w)
    BY <1>0, <1>4, Zenon DEF Goexit
  <1> QED
    BY <1>1, <1>2, <1>3, <1>4, Zenon DEF run

\* Every step keeps the types.
LEMMA NextType == PoolInv /\ [Next]_vars => TypeOK'
  <1>1. ASSUME PoolInv, NEW n \in 0..MaxCap, SetCap(n) PROVE TypeOK'
    BY <1>1, Zenon DEF SetCap, PoolInv, TypeOK, listVars, callerVars
  <1>2. PoolInv /\ UNCHANGED vars => TypeOK'
    BY Zenon DEF vars, PoolInv, TypeOK, listVars, callerVars
  <1> QED
    BY <1>1, <1>2, CallerType, WorkerType, Zenon DEF Next

-------------------------------------------------------------------------------
(* The counters *)

\* taskCount and the list.
LEMMA CountStep == PoolInv /\ [Next]_vars => CountLags'
  <1> SUFFICES ASSUME PoolInv, [Next]_vars PROVE CountLags'
    BY Zenon
  <1> DEFINE C == {c \in Caller : pc[c] = "count"}
  <1>0. /\ TypeOK /\ IsFiniteSet(Caller) /\ queue \in Seq(Task) /\ Len(queue) \in Nat
        /\ taskCount = Len(queue) - Cardinality(C) /\ taskCount \in Int
        /\ Cardinality(C) \in Nat
    BY PoolAssumption, AtMost DEF PoolInv, TypeOK, CountLags
  <1>a. ASSUME C' = C, UNCHANGED <<queue, taskCount>> PROVE CountLags'
    BY <1>0, <1>a, Zenon DEF CountLags
  <1>1. ASSUME NEW c \in Caller, Enqueue(c) PROVE CountLags'
    <2>1. C' = C \cup {c} /\ c \notin C
      BY <1>0, <1>1, Zenon DEF Enqueue, Goto, TypeOK
    <2>2. Cardinality(C') = Cardinality(C) + 1
      BY <1>0, <2>1, Joins, Zenon
    <2>3. Len(queue') = Len(queue) + 1
      <3>1. t[c] \in Task
        BY <1>1, Zenon DEF Enqueue, PoolInv, JobInv, Filling
      <3> QED
        BY <1>0, <1>1, <3>1, AppendFacts, Zenon DEF Enqueue
    <2> QED
      BY <1>0, <1>1, <2>2, <2>3 DEF CountLags, Enqueue
  <1>2. ASSUME NEW c \in Caller, Count(c) PROVE CountLags'
    <2>1. C = C' \cup {c} /\ c \notin C' /\ C' \subseteq Caller
      BY <1>0, <1>2, Zenon DEF Count, Goto, TypeOK
    <2>2. Cardinality(C) = Cardinality(C') + 1 /\ Cardinality(C') \in Nat
      BY <1>0, <2>1, Joins, SMTT(30)
    <2> QED
      BY <1>0, <1>2, <2>2 DEF CountLags, Count, listVars
  <1>3. ASSUME NEW w \in Worker, Take(w) PROVE CountLags'
    <2>1. queue # <<>> /\ Len(queue') = Len(queue) - 1
      BY <1>0, <1>3, TailFacts, Zenon DEF Take, PoolInv, ListOK
    <2> QED
      BY <1>0, <1>3, <2>1 DEF CountLags, Take, callerVars
  <1>4. ASSUME NEW c \in Caller,
               \/ \E j \in todo, o \in free : Get(c, j, o)
               \/ LoadTaskCount(c) \/ LoadWorkerCount(c) \/ LoadCap(c) \/ Zero(c)
               \/ \E w \in Worker : Incr(c, w)
        PROVE  CountLags'
    <2>1. UNCHANGED <<queue, taskCount>>
      BY <1>4, Zenon DEF Get, LoadTaskCount, LoadWorkerCount, LoadCap, Zero, Incr, listVars
    <2>2. pc[c] # "count" /\ \E l \in Pc \ {"count"} : pc' = [pc EXCEPT ![c] = l]
      BY <1>4, Zenon DEF Get, LoadTaskCount, LoadWorkerCount, LoadCap, Zero, Incr, Goto, Pc
    <2>3. C' = C
      BY <1>0, <2>2, Zenon DEF TypeOK
    <2> QED
      BY <1>a, <2>1, <2>3, Zenon
  <1>5. ASSUME NEW w \in Worker, Stop(w) \/ Finish(w) \/ Goexit(w) PROVE CountLags'
    BY <1>a, <1>5, Zenon DEF Stop, Finish, Goexit, listVars, callerVars
  <1>6. ASSUME NEW n \in 0..MaxCap, SetCap(n) PROVE CountLags'
    BY <1>a, <1>6, Zenon DEF SetCap, listVars, callerVars
  <1>7. ASSUME UNCHANGED vars PROVE CountLags'
    BY <1>a, <1>7, Zenon DEF vars, listVars, callerVars
  <1> QED
    BY <1>1, <1>2, <1>3, <1>4, <1>5, <1>6, <1>7, Zenon DEF Next, CtxGo, run

\* workerCount and the worker goroutines.
LEMMA WorkersStep == PoolInv /\ [Next]_vars => WorkersCounted'
  <1> SUFFICES ASSUME PoolInv, [Next]_vars PROVE WorkersCounted'
    BY Zenon
  <1> DEFINE W == {w \in Worker : wpc[w] # "none"}
  <1>0. /\ TypeOK /\ IsFiniteSet(Worker) /\ workerCount = Cardinality(W)
        /\ Cardinality(W) \in Nat
    BY PoolAssumption, AtMost, Zenon DEF PoolInv, WorkersCounted
  <1>a. ASSUME W' = W, workerCount' = workerCount PROVE WorkersCounted'
    BY <1>0, <1>a DEF WorkersCounted
  <1>1. ASSUME NEW c \in Caller, NEW w \in Worker, Incr(c, w) PROVE WorkersCounted'
    <2>1. W' = W \cup {w} /\ w \notin W
      BY <1>0, <1>1, Zenon DEF Incr, TypeOK
    <2>2. Cardinality(W') = Cardinality(W) + 1
      BY <1>0, <2>1, Joins, Zenon
    <2> QED
      BY <1>0, <1>1, <2>2, Zenon DEF WorkersCounted, Incr
  <1>2. ASSUME NEW w \in Worker, Stop(w) PROVE WorkersCounted'
    <2>1. W = W' \cup {w} /\ w \notin W' /\ W' \subseteq Worker
      BY <1>0, <1>2, Zenon DEF Stop, TypeOK
    <2>2. Cardinality(W) = Cardinality(W') + 1 /\ Cardinality(W') \in Nat
      BY <1>0, <2>1, Joins, Zenon
    <2> QED
      BY <1>0, <1>2, <2>2 DEF WorkersCounted, Stop
  <1>3. ASSUME NEW w \in Worker, Take(w) \/ Finish(w) \/ Goexit(w) PROVE WorkersCounted'
    <2>1. /\ workerCount' = workerCount /\ wpc[w] # "none"
          /\ \E l \in {"loop", "run", "gone"} : wpc' = [wpc EXCEPT ![w] = l]
      BY <1>3, Zenon DEF Take, Finish, Goexit
    <2>2. W' = W
      BY <1>0, <2>1, Zenon DEF TypeOK
    <2> QED
      BY <1>a, <2>1, <2>2, Zenon
  <1>4. ASSUME NEW c \in Caller,
               \/ \E j \in todo, o \in free : Get(c, j, o)
               \/ Enqueue(c) \/ Count(c) \/ LoadTaskCount(c) \/ LoadWorkerCount(c)
               \/ LoadCap(c) \/ Zero(c)
        PROVE  WorkersCounted'
    BY <1>a, <1>4, Zenon DEF Get, Enqueue, Count, LoadTaskCount, LoadWorkerCount, LoadCap, Zero
  <1>5. ASSUME (\E n \in 0..MaxCap : SetCap(n)) \/ UNCHANGED vars PROVE WorkersCounted'
    BY <1>a, <1>5, Zenon DEF SetCap, vars
  <1> QED
    BY <1>1, <1>2, <1>3, <1>4, <1>5, Zenon DEF Next, CtxGo, run

\* A waiting task keeps a worker or a caller that has not decided yet: a caller goes
\* away only when it has seen a worker, a worker only when nothing waits.
LEMMA CoveredStep == PoolInv /\ [Next]_vars => Covered'
  <1> SUFFICES ASSUME PoolInv, [Next]_vars PROVE Covered'
    BY Zenon
  <1>0. /\ TypeOK /\ Covered /\ workerCount \in Nat
        /\ \A w \in Worker : wpc[w] # "none" => workerCount > 0
    <2>1. workerCount = Cardinality({w \in Worker : wpc[w] # "none"}) /\ IsFiniteSet(Worker)
      BY PoolAssumption, Zenon DEF PoolInv, WorkersCounted
    <2>2. IsFiniteSet({w \in Worker : wpc[w] # "none"})
      BY <2>1, FS_Subset, Zenon
    <2>3. workerCount \in Nat
      BY <2>1, <2>2, FS_CardinalityType, Zenon
    <2>4. workerCount = 0 => {w \in Worker : wpc[w] # "none"} = {}
      BY <2>1, <2>2, FS_EmptySet, Zenon
    <2> QED
      BY <2>3, <2>4 DEF PoolInv
  <1>1. ASSUME NEW c \in Caller,
               Enqueue(c) \/ Count(c) \/ LoadTaskCount(c) \/ LoadWorkerCount(c) \/ LoadCap(c)
        PROVE  Covered'
    <2>1. pc'[c] \in {"count", "load", "workers", "cap", "zero", "incr"}
      BY <1>0, <1>1, Zenon
         DEF Enqueue, Count, LoadTaskCount, LoadWorkerCount, LoadCap, Goto, TypeOK
    <2> QED
      BY <2>1, Zenon DEF Covered, Scaling
  <1>2. ASSUME NEW c \in Caller, Zero(c) PROVE Covered'
    <2>1. CASE workerCount = 0
      BY <1>0, <1>2, <2>1, Zenon DEF Covered, Scaling, Zero, Goto, TypeOK
    <2>2. CASE workerCount # 0
      BY <1>0, <1>2, <2>2 DEF Covered, Zero
    <2> QED
      BY <2>1, <2>2, Zenon
  <1>3. ASSUME NEW c \in Caller, NEW w \in Worker, Incr(c, w) PROVE Covered'
    BY <1>0, <1>3 DEF Covered, Incr
  <1>4. ASSUME NEW c \in Caller, NEW j \in todo, NEW o \in free, Get(c, j, o) PROVE Covered'
    <2>1. queue' = queue /\ workerCount' = workerCount
      BY <1>4, Zenon DEF Get, listVars
    <2>2. Scaling' = Scaling
      BY <1>0, <1>4, Zenon DEF Get, Goto, Scaling, TypeOK
    <2> QED
      BY <1>0, <2>1, <2>2, Zenon DEF Covered
  <1>5. ASSUME NEW w \in Worker, Take(w) \/ Finish(w) \/ Goexit(w) PROVE Covered'
    <2>1. wpc[w] # "none" /\ workerCount' = workerCount
      BY <1>5, Zenon DEF Take, Finish, Goexit
    <2> QED
      BY <1>0, <2>1, Zenon DEF Covered
  <1>6. ASSUME NEW w \in Worker, Stop(w) PROVE Covered'
    <2>1. queue = <<>> /\ queue' = queue
      BY <1>6, PoolAssumption DEF Stop, listVars, PoolInv, ListOK, TypeOK
    <2> QED
      BY <2>1, Zenon DEF Covered
  <1>7. ASSUME (\E n \in 0..MaxCap : SetCap(n)) \/ UNCHANGED vars PROVE Covered'
    BY <1>0, <1>7, Zenon DEF SetCap, vars, listVars, callerVars, Covered, Scaling
  <1> QED
    BY <1>1, <1>2, <1>3, <1>4, <1>5, <1>6, <1>7, Zenon DEF Next, CtxGo, run

\* A caller that finds room adds at most itself to the callers that found some before.
LEMMA CapStep == PoolInv /\ [Next]_vars => CapInv'
  <1> SUFFICES ASSUME PoolInv, [Next]_vars PROVE CapInv'
    BY Zenon
  <1> DEFINE N == Cardinality(Caller)
  <1>0. /\ TypeOK /\ workerCount \in Int /\ MaxCap \in Nat \ {0} /\ IsFiniteSet(Caller)
        /\ Promised \subseteq Caller /\ Promised' \subseteq Caller
        /\ workerCount + Cardinality(Promised) <= MaxCap + N - 1
        /\ Cardinality(Promised) \in Nat /\ N \in Nat
        /\ Cardinality(Promised') \in Nat /\ Cardinality(Promised') <= N
    <2>1. Promised \subseteq Caller /\ Promised' \subseteq Caller /\ IsFiniteSet(Caller)
      BY PoolAssumption, Zenon DEF Promised
    <2> QED
      BY <2>1, PoolAssumption, AtMost, Zenon DEF PoolInv, TypeOK, CapInv
  <1>a. ASSUME Promised' \subseteq Promised, workerCount' \in Int, workerCount' <= workerCount
        PROVE  CapInv'
    <2>1. Cardinality(Promised') <= Cardinality(Promised)
      <3>1. IsFiniteSet(Promised)
        BY <1>0, FS_Subset, Zenon
      <3> QED
        BY <1>a, <3>1, FS_Subset, Zenon
    <2> QED
      BY <1>0, <1>a, <2>1 DEF CapInv
  <1>b. ASSUME workerCount' = workerCount, workerCount < MaxCap PROVE CapInv'
    BY <1>0, <1>b DEF CapInv
  <1>1. ASSUME NEW c \in Caller, LoadWorkerCount(c) PROVE CapInv'
    <2>1. workerCount' = workerCount
      BY <1>1, Zenon DEF LoadWorkerCount
    <2>2. CASE workerCount < MaxCap
      BY <1>b, <2>1, <2>2, Zenon
    <2>3. CASE workerCount >= MaxCap
      <3>1. Promised' \subseteq Promised
        BY <1>0, <1>1, <2>3 DEF Promised, LoadWorkerCount, Goto, TypeOK
      <3> QED
        BY <1>0, <1>a, <2>1, <3>1
    <2> QED
      BY <1>0, <2>2, <2>3
  <1>2. ASSUME NEW c \in Caller, Zero(c) PROVE CapInv'
    <2>1. workerCount' = workerCount
      BY <1>2, Zenon DEF Zero
    <2>2. CASE workerCount = 0
      BY <1>0, <1>b, <2>1, <2>2
    <2>3. CASE workerCount # 0
      <3>1. Promised' \subseteq Promised
        BY <1>0, <1>2, <2>3, Zenon DEF Promised, Zero, Goto, TypeOK
      <3> QED
        BY <1>0, <1>a, <2>1, <3>1
    <2> QED
      BY <2>2, <2>3, Zenon
  <1>3. ASSUME NEW c \in Caller, LoadCap(c) PROVE CapInv'
    <2>1. Promised' \subseteq Promised
      BY <1>0, <1>3 DEF Promised, LoadCap, Goto, TypeOK
    <2> QED
      BY <1>0, <1>3, <1>a, <2>1 DEF LoadCap
  <1>4. ASSUME NEW c \in Caller, NEW w \in Worker, Incr(c, w) PROVE CapInv'
    <2>1. Promised = Promised' \cup {c} /\ c \notin Promised'
      BY <1>0, <1>4, Zenon DEF Promised, Incr, Goto, TypeOK
    <2>2. Cardinality(Promised) = Cardinality(Promised') + 1
      BY <1>0, <2>1, Joins, Zenon
    <2> QED
      BY <1>0, <1>4, <2>2 DEF CapInv, Incr
  <1>5. ASSUME NEW c \in Caller,
               \/ \E j \in todo, o \in free : Get(c, j, o)
               \/ Enqueue(c) \/ Count(c) \/ LoadTaskCount(c)
        PROVE  CapInv'
    <2>1. /\ workerCount' = workerCount /\ seen' = seen
          /\ \E l \in Pc \ {"cap", "incr"} : pc' = [pc EXCEPT ![c] = l]
      BY <1>5, Zenon DEF Get, Enqueue, Count, LoadTaskCount, Goto, Pc
    <2>2. Promised' \subseteq Promised
      BY <1>0, <2>1, Zenon DEF Promised, TypeOK
    <2> QED
      BY <1>0, <1>a, <2>1, <2>2
  <1>6. ASSUME NEW w \in Worker, run(w) PROVE CapInv'
    <2>1. /\ UNCHANGED callerVars
          /\ workerCount' \in {workerCount, workerCount - 1}
      BY <1>6, Zenon DEF run, Take, Stop, Finish, Goexit
    <2> QED
      BY <1>0, <1>a, <2>1 DEF Promised, callerVars
  <1>7. ASSUME (\E n \in 0..MaxCap : SetCap(n)) \/ UNCHANGED vars PROVE CapInv'
    <2>1. UNCHANGED callerVars /\ workerCount' = workerCount
      BY <1>7, Zenon DEF SetCap, vars
    <2> QED
      BY <1>0, <1>a, <2>1 DEF Promised, callerVars
  <1> QED
    BY <1>1, <1>2, <1>3, <1>4, <1>5, <1>6, <1>7, Zenon DEF Next, CtxGo

-------------------------------------------------------------------------------
(* The task list and the owners of the task objects *)

\* The list after a caller's step.
LEMMA EnqueueList ==
  ASSUME PoolInv, NEW c \in Caller, Enqueue(c)
  PROVE  ListOK'
  <1> DEFINE n == Len(queue)
             e == t[c]
  <1>0. /\ queue \in Seq(Task) /\ n \in Nat /\ e \in Task /\ next \in [Task -> Task \cup {Nil}]
        /\ next[e] = Nil /\ Nil \notin Task
        /\ \A i \in 1..n : queue[i] # e /\ queue[i] \in Task
        /\ \A i, j \in 1..n : queue[i] = queue[j] => i = j
    BY PoolAssumption
       DEF PoolInv, TypeOK, JobInv, OneOwner, Cleared, Filling, Queued, Enqueue
  <1>1. /\ Len(queue') = n + 1 /\ queue' # <<>>
        /\ \A i \in 1..n : queue'[i] = queue[i]
        /\ queue'[n + 1] = e /\ taskTail' = e
    BY <1>0, AppendFacts DEF Enqueue
  <1>2. CASE queue = <<>>
    <2>1. taskHead' = e /\ next' = next /\ n = 0
      BY <1>2, <1>0, Zenon DEF Enqueue, PoolInv, ListOK
    <2> QED
      BY <1>0, <1>1, <2>1 DEF ListOK
  <1>3. CASE queue # <<>>
    <2>1. n > 0 /\ taskTail = queue[n] /\ taskHead = queue[1] /\ taskHead # Nil
      BY <1>3, <1>0 DEF PoolInv, ListOK
    <2>2. taskHead' = taskHead /\ next' = [next EXCEPT ![queue[n]] = e]
      BY <2>1, Zenon DEF Enqueue
    <2>3. \A i \in 1..n : next'[queue[i]] = IF i = n THEN e ELSE queue[i + 1]
      BY <1>0, <2>1, <2>2 DEF PoolInv, ListOK
    <2>4. next'[e] = Nil
      BY <1>0, <2>1, <2>2
    <2> QED
      BY <1>0, <1>1, <2>1, <2>2, <2>3, <2>4 DEF ListOK
  <1> QED
    BY <1>2, <1>3, Zenon

\* The task taken off the head leaves a well linked list.
LEMMA TakeList ==
  ASSUME PoolInv, NEW w \in Worker, Take(w)
  PROVE  ListOK'
  <1> DEFINE n == Len(queue)
  <1>0. queue # <<>> /\ queue \in Seq(Task) /\ n \in Nat \ {0} /\ taskHead = queue[1]
    BY TailFacts, Zenon DEF PoolInv, TypeOK, ListOK, Take
  <1>1. /\ Len(queue') = n - 1 /\ queue' \in Seq(Task)
        /\ \A i \in 1..(n - 1) : queue'[i] = queue[i + 1]
    BY <1>0, TailFacts, Zenon DEF Take
  <1>2. /\ taskHead' = next[queue[1]] /\ taskTail' = taskTail /\ next' = next
    BY <1>0, Zenon DEF Take
  <1>3. /\ \A i \in 1..n : next[queue[i]] = IF i = n THEN Nil ELSE queue[i + 1]
        /\ taskTail = queue[n]
    BY <1>0, Zenon DEF PoolInv, ListOK
  <1>4. queue' = <<>> <=> n = 1
    BY <1>0, <1>1
  <1>5. taskHead' = IF queue' = <<>> THEN Nil ELSE queue'[1]
    BY <1>0, <1>1, <1>2, <1>3, <1>4
  <1>6. queue' # <<>> => taskTail' = queue'[Len(queue')]
    BY <1>0, <1>1, <1>2, <1>3, <1>4
  <1>7. \A i \in 1..Len(queue') :
          next'[queue'[i]] = IF i = Len(queue') THEN Nil ELSE queue'[i + 1]
    BY <1>0, <1>1, <1>2, <1>3
  <1> QED
    BY <1>5, <1>6, <1>7, Zenon DEF ListOK

\* Every step keeps the list of tasks linked.
LEMMA ListStep == PoolInv /\ [Next]_vars => ListOK'
  <1> SUFFICES ASSUME PoolInv, [Next]_vars PROVE ListOK'
    BY Zenon
  <1>1. UNCHANGED listVars => ListOK'
    BY Zenon DEF listVars, PoolInv, ListOK
  <1>2. ASSUME NEW w \in Worker, Finish(w) PROVE ListOK'
    <2>1. /\ queue \in Seq(Task) /\ next \in [Task -> Task \cup {Nil}] /\ Len(queue) \in Nat
          /\ \A i \in 1..Len(queue) : queue[i] \in Task /\ queue[i] # wt[w]
      BY <1>2 DEF Finish, PoolInv, TypeOK, OneOwner, Busy, Queued
    <2>2. /\ UNCHANGED <<taskHead, taskTail, queue>>
          /\ next' = [next EXCEPT ![wt[w]] = Nil]
      BY <1>2, Zenon DEF Finish
    <2>3. \A i \in 1..Len(queue) : next'[queue[i]] = next[queue[i]]
      BY <2>1, <2>2, SMTT(30)
    <2> QED
      BY <2>2, <2>3, Zenon DEF PoolInv, ListOK
  <1>3. ASSUME NEW c \in Caller,
               \/ \E j \in todo, o \in free : Get(c, j, o)
               \/ Count(c) \/ LoadTaskCount(c) \/ LoadWorkerCount(c) \/ LoadCap(c) \/ Zero(c)
               \/ \E w \in Worker : Incr(c, w)
        PROVE  UNCHANGED listVars
    BY <1>3, Zenon DEF Get, Count, LoadTaskCount, LoadWorkerCount, LoadCap, Zero, Incr
  <1>4. ASSUME \/ \E w \in Worker : Stop(w) \/ Goexit(w)
               \/ \E n \in 0..MaxCap : SetCap(n)
               \/ UNCHANGED vars
        PROVE  UNCHANGED listVars
    BY <1>4, Zenon DEF Stop, Goexit, SetCap, vars
  <1> QED
    BY <1>1, <1>2, <1>3, <1>4, EnqueueList, TakeList, Zenon DEF Next, CtxGo, run

\* The queued tasks after a worker has taken one.
LEMMA TakeQueued ==
  ASSUME PoolInv, NEW w \in Worker, Take(w)
  PROVE  /\ taskHead \in Queued /\ Queued' \subseteq Queued /\ taskHead \notin Queued'
         /\ \A i, j \in 1..Len(queue') : queue'[i] = queue'[j] => i = j
  <1>0. /\ queue # <<>> /\ queue \in Seq(Task) /\ Len(queue) \in Nat \ {0}
        /\ taskHead = queue[1] /\ queue' = Tail(queue)
        /\ \A i, j \in 1..Len(queue) : queue[i] = queue[j] => i = j
    BY TailFacts, Zenon DEF PoolInv, TypeOK, ListOK, OneOwner, Take
  <1>1. /\ DOMAIN queue = 1..Len(queue) /\ DOMAIN queue' = 1..(Len(queue) - 1)
        /\ Len(queue') = Len(queue) - 1
        /\ \A i \in 1..(Len(queue) - 1) : queue'[i] = queue[i + 1]
    BY <1>0, TailFacts
  <1>2. Queued' \subseteq Queued
    BY <1>0, QueuedFacts, Zenon DEF Queued
  <1>3. taskHead \in Queued
    BY <1>0, <1>1 DEF Queued
  <1>4. taskHead \notin Queued'
    <2>1. \A i \in 1..(Len(queue) - 1) : queue'[i] # queue[1]
      BY <1>0, <1>1
    <2> QED
      BY <1>0, <1>1, <2>1, Zenon DEF Queued
  <1>5. \A i, j \in 1..Len(queue') : queue'[i] = queue'[j] => i = j
    BY <1>0, <1>1
  <1> QED
    BY <1>2, <1>3, <1>4, <1>5, Zenon

\* The queued tasks after a caller has added one.
LEMMA EnqueueQueued ==
  ASSUME PoolInv, NEW c \in Caller, Enqueue(c)
  PROVE  /\ t[c] \in Task /\ Queued' = Queued \cup {t[c]} /\ t[c] \notin Queued
         /\ \A i, j \in 1..Len(queue') : queue'[i] = queue'[j] => i = j
  <1>0. /\ queue \in Seq(Task) /\ Len(queue) \in Nat /\ t[c] \in Task
        /\ queue' = Append(queue, t[c]) /\ t[c] \notin Queued
        /\ \A i, j \in 1..Len(queue) : queue[i] = queue[j] => i = j
    BY DEF PoolInv, TypeOK, OneOwner, JobInv, Filling, Enqueue
  <1>1. Queued' = Queued \cup {t[c]}
    BY <1>0, QueuedFacts DEF Queued
  <1>2. \A i \in 1..Len(queue) : queue[i] # t[c]
    BY <1>0 DEF Queued
  <1>3. /\ Len(queue') = Len(queue) + 1 /\ queue'[Len(queue) + 1] = t[c]
        /\ \A i \in 1..Len(queue) : queue'[i] = queue[i]
    BY <1>0, AppendFacts
  <1>4. \A i, j \in 1..Len(queue') : queue'[i] = queue'[j] => i = j
    BY <1>0, <1>2, <1>3
  <1> QED
    BY <1>0, <1>1, <1>4, Zenon

-------------------------------------------------------------------------------
(* The tasks *)

\* Who holds a task: Get, Enqueue, Take and Finish pass it on, nothing else does.
LEMMA OwnerStep == PoolInv /\ [Next]_vars => OneOwner' /\ Cleared'
  <1> SUFFICES ASSUME PoolInv, [Next]_vars PROVE OneOwner' /\ Cleared'
    BY Zenon
  <1>0. TypeOK /\ OneOwner /\ Cleared /\ JobInv /\ Queued \subseteq Task
    BY QueuedFacts, Zenon DEF PoolInv, TypeOK, Queued
  <1>a. ASSUME UNCHANGED <<queue, next, free>>, Filling' = Filling, Busy' = Busy,
               \A c \in Filling : t'[c] = t[c], \A w \in Busy : wt'[w] = wt[w]
        PROVE  OneOwner' /\ Cleared'
    BY <1>0, <1>a DEF OneOwner, Cleared, Queued
  <1>1. ASSUME NEW c \in Caller, NEW j \in todo, NEW o \in free, Get(c, j, o)
        PROVE  OneOwner' /\ Cleared'
    <2>1. /\ Filling' = Filling \cup {c} /\ c \notin Filling
          /\ t'[c] = o /\ \A d \in Filling : t'[d] = t[d]
      BY <1>0, <1>1, Zenon DEF Get, Goto, Filling, TypeOK
    <2>2. UNCHANGED <<queue, next, wpc, wt>> /\ free' = free \ {o}
      BY <1>1, Zenon DEF Get, listVars
    <2>3. UNCHANGED <<Queued, Busy>>
      BY <2>2, Zenon DEF Queued, Busy
    <2>4. OneOwner'
      BY <1>0, <2>1, <2>2, <2>3 DEF OneOwner
    <2>5. Cleared'
      BY <1>0, <2>1, <2>2 DEF Cleared
    <2> QED
      BY <2>4, <2>5, Zenon
  <1>2. ASSUME NEW c \in Caller, Enqueue(c) PROVE OneOwner' /\ Cleared'
    <2>1. /\ Filling = Filling' \cup {c} /\ c \notin Filling'
          /\ \A d \in Filling' : t'[d] = t[d]
      BY <1>0, <1>2, Zenon DEF Enqueue, Goto, Filling, TypeOK
    <2>2. UNCHANGED <<free, Busy, wt>>
      BY <1>2, Zenon DEF Enqueue, Busy
    <2>3. OneOwner'
      <3>1. /\ Queued' = Queued \cup {t[c]} /\ t[c] \notin Queued
            /\ \A i, j \in 1..Len(queue') : queue'[i] = queue'[j] => i = j
        BY <1>2, EnqueueQueued, Zenon
      <3>2. /\ \A d, e \in Filling : t[d] = t[e] => d = e
            /\ \A d \in Filling : t[d] \notin free \cup Queued /\ \A w \in Busy : t[d] # wt[w]
            /\ \A v, w \in Busy : wt[v] = wt[w] => v = w
            /\ \A w \in Busy : wt[w] \notin free \cup Queued
            /\ free \cap Queued = {}
        BY <1>0 DEF OneOwner
      <3>3. \A d \in Filling' : t'[d] # t[c] /\ t'[d] \notin free \cup Queued /\ \A w \in Busy : t'[d] # wt[w]
        BY <2>1, <3>2, Zenon
      <3>4. \A d, e \in Filling' : t'[d] = t'[e] => d = e
        BY <2>1, <3>2, Zenon
      <3>5. free' \cap Queued' = {} /\ \A w \in Busy : wt[w] \notin free' \cup Queued'
        BY <2>1, <2>2, <3>1, <3>2
      <3>6. \A d \in Filling' : t'[d] \notin free' \cup Queued' \cup {wt'[w] : w \in Busy'}
        BY <2>2, <3>1, <3>3, Zenon
      <3> QED
        BY <2>2, <3>1, <3>2, <3>4, <3>5, <3>6, Zenon DEF OneOwner
    <2>4. \A o \in Task : next'[o] = next[o] \/ o \in Queued
      <3>1. queue # <<>> => taskTail \in Queued
        BY <1>0 DEF PoolInv, ListOK, Queued, TypeOK
      <3>2. taskHead # Nil => queue # <<>>
        BY Zenon DEF PoolInv, ListOK
      <3> QED
        BY <1>0, <1>2, <3>1, <3>2, Zenon DEF Enqueue, TypeOK
    <2>5. Cleared'
      BY <1>0, <2>1, <2>2, <2>4 DEF Cleared, OneOwner, TypeOK, JobInv
    <2> QED
      BY <2>3, <2>5, Zenon
  <1>3. ASSUME NEW w \in Worker, Take(w) PROVE OneOwner' /\ Cleared'
    <2>1. /\ Busy' = Busy \cup {w} /\ w \notin Busy
          /\ wt'[w] = taskHead /\ \A v \in Busy : wt'[v] = wt[v]
      BY <1>0, <1>3, Zenon DEF Take, Busy, TypeOK
    <2>2. UNCHANGED <<free, Filling, t, next>>
      BY <1>3, Zenon DEF Take, Filling, callerVars
    <2>3. OneOwner'
      <3>1. /\ taskHead \in Queued /\ Queued' \subseteq Queued /\ taskHead \notin Queued'
            /\ \A i, j \in 1..Len(queue') : queue'[i] = queue'[j] => i = j
        BY <1>3, TakeQueued, Zenon
      <3>2. /\ \A c, d \in Filling : t[c] = t[d] => c = d
            /\ \A c \in Filling : t[c] \notin free \cup Queued /\ \A v \in Busy : t[c] # wt[v]
            /\ \A v \in Busy : wt[v] \notin free \cup Queued
            /\ free \cap Queued = {}
        BY <1>0 DEF OneOwner
      <3>3. \A v \in Busy' : (v = w /\ wt'[v] = taskHead) \/ (v \in Busy /\ wt'[v] = wt[v])
        BY <2>1, Zenon
      <3>4. \A u, v \in Busy' : wt'[u] = wt'[v] => u = v
        BY <1>0, <2>1, <3>1, <3>2, <3>3 DEF OneOwner
      <3>5. \A v \in Busy' : wt'[v] \notin free \cup Queued' /\ \A c \in Filling : t[c] # wt'[v]
        BY <3>1, <3>2, <3>3, Zenon
      <3>6. \A c \in Filling' : t'[c] \notin free' \cup Queued' \cup {wt'[v] : v \in Busy'}
        BY <2>2, <3>1, <3>2, <3>5, Zenon
      <3> QED
        BY <2>2, <3>1, <3>2, <3>4, <3>5, <3>6, Zenon DEF OneOwner
    <2>4. Cleared'
      BY <1>0, <2>2, Zenon DEF Cleared
    <2> QED
      BY <2>3, <2>4, Zenon
  <1>4. ASSUME NEW w \in Worker, Finish(w) PROVE OneOwner' /\ Cleared'
    <2>1. /\ Busy = Busy' \cup {w} /\ w \notin Busy'
          /\ \A v \in Busy' : wt'[v] = wt[v]
      BY <1>0, <1>4, Zenon DEF Finish, Busy, TypeOK
    <2>2. /\ UNCHANGED <<Filling, t, queue, Queued>> /\ free' = free \cup {wt[w]}
          /\ next' = [next EXCEPT ![wt[w]] = Nil]
      BY <1>4, Zenon DEF Finish, Filling, callerVars, Queued
    <2>3. OneOwner'
      BY <1>0, <2>1, <2>2 DEF OneOwner
    <2>4. Cleared'
      BY <1>0, <2>1, <2>2 DEF Cleared, TypeOK, JobInv
    <2> QED
      BY <2>3, <2>4, Zenon
  <1>5. ASSUME NEW w \in Worker, Stop(w) \/ Goexit(w) PROVE OneOwner' /\ Cleared'
    <2>1. UNCHANGED <<queue, next, free, t, wt, Filling>>
      BY <1>5, Zenon DEF Stop, Goexit, listVars, callerVars, Filling
    <2>2. Busy' = Busy
      BY <1>0, <1>5, Zenon DEF Stop, Goexit, Busy, TypeOK
    <2> QED
      BY <1>a, <2>1, <2>2, Zenon
  <1>6. ASSUME NEW c \in Caller,
               \/ Count(c) \/ LoadTaskCount(c) \/ LoadWorkerCount(c) \/ LoadCap(c) \/ Zero(c)
               \/ \E w \in Worker : Incr(c, w)
        PROVE  OneOwner' /\ Cleared'
    <2>1. UNCHANGED <<queue, next, free, t, wt>>
      BY <1>6, Zenon DEF Count, LoadTaskCount, LoadWorkerCount, LoadCap, Zero, Incr, listVars
    <2>2. pc[c] # "lock" /\ \E l \in Pc \ {"lock"} : pc' = [pc EXCEPT ![c] = l]
      BY <1>6, Zenon DEF Count, LoadTaskCount, LoadWorkerCount, LoadCap, Zero, Incr, Goto, Pc
    <2>3. Filling' = Filling
      BY <1>0, <2>2, Zenon DEF Filling, TypeOK
    <2>4. Busy' = Busy
      BY <1>0, <1>6, Zenon
         DEF Count, LoadTaskCount, LoadWorkerCount, LoadCap, Zero, Incr, Busy, TypeOK
    <2> QED
      BY <1>a, <2>1, <2>3, <2>4, Zenon
  <1>7. ASSUME (\E n \in 0..MaxCap : SetCap(n)) \/ UNCHANGED vars PROVE OneOwner' /\ Cleared'
    <2>1. UNCHANGED <<queue, next, free, t, wt, Filling, Busy>>
      BY <1>7, Zenon DEF SetCap, vars, listVars, callerVars, Filling, Busy
    <2> QED
      BY <1>a, <2>1, Zenon
  <1> QED
    BY <1>1, <1>2, <1>3, <1>4, <1>5, <1>6, <1>7, Zenon DEF Next, CtxGo, run

\* The functions of the tasks in use.
LEMMA JobStep == PoolInv /\ [Next]_vars => JobInv'
  <1> SUFFICES ASSUME PoolInv, [Next]_vars PROVE JobInv'
    BY Zenon
  <1>0. /\ TypeOK /\ OneOwner /\ JobInv /\ Queued \subseteq Task /\ InUse \subseteq Task
        /\ Running \subseteq Busy
    <2>1. Queued \subseteq Task /\ Running \subseteq Busy
      BY QueuedFacts, Zenon DEF PoolInv, TypeOK, Queued, Running, Busy
    <2> QED
      BY <2>1, Zenon DEF PoolInv, JobInv, InUse
  <1>a. ASSUME Filling' \subseteq Filling, \A c \in Filling' : t'[c] = t[c],
               Busy' \subseteq Busy, \A w \in Busy' : wt'[w] = wt[w],
               InUse' \subseteq InUse, UNCHANGED <<f, todo, done>>
        PROVE  JobInv'
    BY <1>0, <1>a DEF JobInv
  <1>1. ASSUME NEW c \in Caller, NEW j \in todo, NEW o \in free, Get(c, j, o) PROVE JobInv'
    <2>1. /\ Filling' = Filling \cup {c} /\ c \notin Filling
          /\ t'[c] = o /\ \A d \in Filling : t'[d] = t[d]
      BY <1>0, <1>1, Zenon DEF Get, Goto, Filling, TypeOK
    <2>2. UNCHANGED <<wt, Queued, Busy, Running, done>> /\ todo' = todo \ {j} /\ j \in Job
          /\ o \in Task /\ f' = [f EXCEPT ![o] = j] /\ f \in [Task -> Job \cup {Nil}]
      BY <1>0, <1>1, Zenon DEF Get, listVars, Queued, Busy, Running, TypeOK
    <2>3. InUse' = InUse \cup {o} /\ o \notin InUse
      BY <1>0, <1>1, <2>1, <2>2 DEF InUse, OneOwner
    <2>4. f'[o] = j /\ \A p \in InUse : f'[p] = f[p]
      BY <1>0, <2>2, <2>3, Zenon
    <2>5. j \notin done
      BY <1>0, <1>1, Zenon DEF JobInv
    <2> QED
      BY <1>0, <2>1, <2>2, <2>3, <2>4, <2>5 DEF JobInv
  <1>2. ASSUME NEW c \in Caller, Enqueue(c) PROVE JobInv'
    <2>1. /\ Filling = Filling' \cup {c} /\ c \notin Filling'
          /\ \A d \in Filling' : t'[d] = t[d]
      BY <1>0, <1>2, Zenon DEF Enqueue, Goto, Filling, TypeOK
    <2>2. UNCHANGED <<f, todo, done, Busy, Running, wt>>
      BY <1>2, Zenon DEF Enqueue, Busy, Running
    <2>3. InUse' \subseteq InUse
      BY <1>2, <2>1, <2>2, EnqueueQueued DEF InUse
    <2> QED
      BY <1>a, <2>1, <2>2, <2>3, Zenon
  <1>3. ASSUME NEW w \in Worker, Take(w) PROVE JobInv'
    <2>1. /\ Busy' = Busy \cup {w} /\ Running' = Running \cup {w} /\ w \notin Busy
          /\ wt'[w] = taskHead /\ \A v \in Busy : wt'[v] = wt[v]
      BY <1>0, <1>3, Zenon DEF Take, Busy, Running, TypeOK
    <2>2. UNCHANGED <<Filling, t, f, todo, done>>
      BY <1>3, Zenon DEF Take, Filling, callerVars
    <2>3. InUse' \subseteq InUse
      BY <1>0, <1>3, <2>1, <2>2, TakeQueued, Zenon DEF InUse
    <2> QED
      BY <1>0, <1>3, <2>1, <2>2, <2>3, TakeQueued, Zenon DEF JobInv
  <1>4. ASSUME NEW w \in Worker, Finish(w) \/ Goexit(w) PROVE JobInv'
    <2>1. /\ Running = Running' \cup {w} /\ w \notin Running' /\ Busy' \subseteq Busy
          /\ w \in Busy /\ \A v \in Busy' : wt'[v] = wt[v]
      BY <1>0, <1>4 DEF Finish, Goexit, Busy, Running, TypeOK
    <2>2. /\ UNCHANGED <<Filling, t, Queued, todo>> /\ done' = done \cup {f[wt[w]]}
          /\ f' = f \/ f' = [f EXCEPT ![wt[w]] = Nil]
      BY <1>4 DEF Finish, Goexit, Filling, callerVars, Queued, listVars
    <2>3. InUse' \subseteq InUse /\ wt[w] \notin InUse' /\ wt[w] \in InUse
      <3>1. \A v \in Running' : wt'[v] = wt[v] /\ v \in Running /\ wt[v] # wt[w]
        <4>1. Running' \subseteq Busy'
          BY Zenon DEF Running, Busy
        <4> QED
          BY <1>0, <2>1, <4>1, Zenon DEF OneOwner
      <3> QED
        BY <1>0, <2>1, <2>2, <3>1 DEF InUse, OneOwner
    <2>4. \A o \in InUse' : f'[o] = f[o] /\ f[o] # f[wt[w]]
      <3>1. f \in [Task -> Job \cup {Nil}]
        BY <1>0, Zenon DEF TypeOK
      <3> QED
        BY <1>0, <2>2, <2>3, <3>1, Zenon DEF JobInv
    <2> QED
      BY <1>0, <2>1, <2>2, <2>3, <2>4, Zenon DEF JobInv
  <1>5. ASSUME NEW c \in Caller,
               \/ Count(c) \/ LoadTaskCount(c) \/ LoadWorkerCount(c) \/ LoadCap(c) \/ Zero(c)
               \/ \E w \in Worker : Incr(c, w)
        PROVE  JobInv'
    <2>1. UNCHANGED <<Queued, t, wt, f, todo, done>>
      BY <1>5, Zenon
         DEF Count, LoadTaskCount, LoadWorkerCount, LoadCap, Zero, Incr, listVars, Queued
    <2>2. pc[c] # "lock" /\ \E l \in Pc \ {"lock"} : pc' = [pc EXCEPT ![c] = l]
      BY <1>5, Zenon DEF Count, LoadTaskCount, LoadWorkerCount, LoadCap, Zero, Incr, Goto, Pc
    <2>3. Filling' = Filling
      BY <1>0, <2>2, Zenon DEF Filling, TypeOK
    <2>4. Busy' = Busy /\ Running' = Running
      BY <1>0, <1>5, Zenon
         DEF Count, LoadTaskCount, LoadWorkerCount, LoadCap, Zero, Incr, Busy, Running, TypeOK
    <2> QED
      BY <1>a, <2>1, <2>3, <2>4, Zenon DEF InUse
  <1>6. ASSUME \/ \E w \in Worker : Stop(w)
               \/ \E n \in 0..MaxCap : SetCap(n)
               \/ UNCHANGED vars
        PROVE  JobInv'
    <2>1. UNCHANGED <<Queued, t, wt, f, todo, done, Filling>>
      BY <1>6, Zenon DEF Stop, SetCap, vars, listVars, callerVars, Queued, Filling
    <2>2. Busy' = Busy /\ Running' = Running
      BY <1>0, <1>6, Zenon DEF Stop, SetCap, vars, Busy, Running, TypeOK
    <2> QED
      BY <1>a, <2>1, <2>2, Zenon DEF InUse
  <1> QED
    BY <1>1, <1>2, <1>3, <1>4, <1>5, <1>6, Zenon DEF Next, CtxGo, run

-------------------------------------------------------------------------------
(* The invariant and what follows from it *)

\* A new pool satisfies the invariant.
LEMMA InitInv == Init => PoolInv
  <1> SUFFICES ASSUME Init PROVE PoolInv
    BY Zenon
  <1> USE PoolAssumption
  <1>1. TypeOK
    BY InitType, Zenon
  <1>2. queue = <<>> /\ Queued = {} /\ Filling = {} /\ Busy = {} /\ Running = {} /\ InUse = {}
    BY DEF Init, Queued, Filling, Busy, Running, InUse
  <1>3. ListOK /\ OneOwner /\ Cleared /\ JobInv /\ Covered
    BY <1>2 DEF Init, ListOK, OneOwner, Cleared, JobInv, Covered
  <1>4. CountLags
    <2>1. {c \in Caller : pc[c] = "count"} = {}
      BY Zenon DEF Init
    <2>2. Cardinality({c \in Caller : pc[c] = "count"}) = 0
      BY <2>1, FS_EmptySet, Zenon
    <2>3. taskCount = 0 /\ Len(queue) = 0
      BY Zenon DEF Init
    <2> QED
      BY <2>2, <2>3 DEF CountLags
  <1>5. WorkersCounted
    <2>1. {w \in Worker : wpc[w] # "none"} = {}
      BY Zenon DEF Init
    <2> QED
      BY <2>1, FS_EmptySet, Zenon DEF Init, WorkersCounted
  <1>6. CapInv
    <2>1. Promised = {}
      BY Zenon DEF Init, Promised
    <2>2. Cardinality(Caller) \in Nat /\ Cardinality(Caller) # 0
      BY FS_CardinalityType, FS_EmptySet, Zenon
    <2> QED
      BY <2>1, <2>2, FS_EmptySet DEF Init, CapInv
  <1> QED
    BY <1>1, <1>3, <1>4, <1>5, <1>6, Zenon DEF PoolInv

\* The invariant of the goroutine pool holds in every state, for any number of
\* callers, workers and tasks, any threshold and any capacities set by SetCap.
THEOREM PoolInvariant == Spec => []PoolInv
  <1>1. Init => PoolInv
    BY InitInv, Zenon
  <1>2. PoolInv /\ [Next]_vars => PoolInv'
    <2> SUFFICES ASSUME PoolInv, [Next]_vars PROVE PoolInv'
      BY Zenon
    <2>1. TypeOK' /\ ListOK' /\ OneOwner' /\ Cleared' /\ JobInv'
      BY NextType, ListStep, OwnerStep, JobStep, Zenon
    <2>2. CountLags' /\ WorkersCounted' /\ Covered' /\ CapInv'
      BY CountStep, WorkersStep, CoveredStep, CapStep, Zenon
    <2> QED
      BY <2>1, <2>2, Zenon DEF PoolInv
  <1> QED
    BY <1>1, <1>2, PTL DEF Spec

\* The pointers, counters and tasks of the pool keep their types.
THEOREM TypeSafe == Spec => []TypeOK
  <1>1. PoolInv => TypeOK
    BY Zenon DEF PoolInv
  <1> QED
    BY <1>1, PoolInvariant, PTL

\* The pointers CtxGo and the workers rewrite always form the list of queued tasks.
THEOREM ListSafe == Spec => []ListOK
  <1>1. PoolInv => ListOK
    BY Zenon DEF PoolInv
  <1> QED
    BY <1>1, PoolInvariant, PTL

\* A recycled task object is never in two hands: callers, list, workers, taskPool.
THEOREM OwnerSafe == Spec => []OneOwner
  <1>1. PoolInv => OneOwner
    BY Zenon DEF PoolInv
  <1> QED
    BY <1>1, PoolInvariant, PTL

\* The unlocked counter lags behind the list by exactly the callers between the
\* unlock and the add.
THEOREM CountSafe == Spec => []CountLags
  <1>1. PoolInv => CountLags
    BY Zenon DEF PoolInv
  <1> QED
    BY <1>1, PoolInvariant, PTL

\* CtxGo may decide on loads that are out of date, and still no task is left in
\* the list without a worker to take it, as long as no function calls Goexit.
THEOREM NoTaskStranded == Spec => []NoStrandedTask
  <1>1. PoolInv => NoStrandedTask
    <2> SUFFICES ASSUME PoolInv, queue # <<>>, \A w \in Worker : wpc[w] # "gone", Scaling = {}
                 PROVE  Alive # {}
      BY Zenon DEF NoStrandedTask
    <2>1. Cardinality({w \in Worker : wpc[w] # "none"}) > 0
      BY Zenon DEF PoolInv, Covered, WorkersCounted
    <2>2. {w \in Worker : wpc[w] # "none"} # {}
      BY <2>1, FS_EmptySet
    <2> QED
      BY <2>2, Zenon DEF PoolInv, TypeOK, Alive
  <1> QED
    BY <1>1, PoolInvariant, PTL

\* Racing callers overshoot the capacity by at most one worker for each other caller.
THEOREM CapBounded == Spec => []CapBound
  <1>1. PoolInv => CapBound
    <2> SUFFICES ASSUME PoolInv PROVE CapBound
      BY Zenon
    <2>1. Promised \subseteq Caller
      BY Zenon DEF Promised
    <2>2. Cardinality(Promised) \in Nat /\ Cardinality(Caller) \in Nat
      BY <2>1, PoolAssumption, FS_Subset, FS_CardinalityType, Zenon
    <2>3. workerCount \in Int /\ MaxCap \in Nat
      BY PoolAssumption, Zenon DEF PoolInv, TypeOK
    <2> QED
      BY <2>2, <2>3 DEF PoolInv, CapInv, CapBound
  <1> QED
    BY <1>1, PoolInvariant, PTL

-------------------------------------------------------------------------------
(* The pool implements the FIFO queue *)

\* The jobs under way are those of the running workers.
LEMMA StartedIs == Started = {f[wt[w]] : w \in Running}
  BY Zenon DEF Started, Running

\* Nothing the queue shows changes.
LEMMA Stutter ==
  ASSUME PoolInv, UNCHANGED <<queue, wt, Running, done>>, \A o \in InUse : f'[o] = f[o]
  PROVE  UNCHANGED <<Waiting, Started, done>>
  <1>1. queue \in Seq(Task) /\ \A i \in 1..Len(queue) : queue[i] \in InUse
    BY DEF PoolInv, TypeOK, InUse, Queued
  <1>2. \A w \in Running : wt[w] \in InUse
    BY Zenon DEF InUse
  <1>3. Waiting' = Waiting
    BY <1>1, Zenon DEF Waiting
  <1>4. Started' = Started
    BY <1>2, Zenon DEF Started, Running
  <1> QED
    BY <1>3, <1>4, Zenon

\* Linking a task behind the tail is the submission of its job.
LEMMA EnqueueSubmits ==
  ASSUME PoolInv, PoolInv', NEW c \in Caller, Enqueue(c)
  PROVE  TQ!Submit(f[t[c]]) /\ f[t[c]] \in Job
  <1>0. /\ queue \in Seq(Task) /\ t[c] \in Task /\ c \in Filling /\ t[c] \in InUse
        /\ queue' = Append(queue, t[c])
    BY Zenon DEF Enqueue, PoolInv, TypeOK, JobInv, Filling, InUse
  <1>1. UNCHANGED <<f, wt, wpc, done>>
    BY Zenon DEF Enqueue
  <1>2. Waiting' = Append(Waiting, f[t[c]])
    BY <1>0, <1>1 DEF Waiting
  <1>3. f[t[c]] \in Job \ done
    BY <1>0, Zenon DEF PoolInv, JobInv
  <1>4. f[t[c]] \notin {Waiting[i] : i \in DOMAIN Waiting}
    <2> SUFFICES ASSUME NEW i \in 1..Len(queue), f[t[c]] = f[queue[i]] PROVE FALSE
      BY Zenon DEF Waiting
    <2>1. queue[i] \in InUse /\ queue[i] \in Queued
      BY <1>0 DEF InUse, Queued
    <2> QED
      BY <1>0, <2>1, Zenon DEF PoolInv, JobInv, OneOwner
  <1>5. f[t[c]] \notin Started
    <2> SUFFICES ASSUME NEW w \in Running, f[t[c]] = f[wt[w]] PROVE FALSE
      BY StartedIs, Zenon
    <2>1. wt[w] \in InUse /\ w \in Busy
      BY Zenon DEF InUse, Running, Busy
    <2> QED
      BY <1>0, <2>1 DEF PoolInv, JobInv, OneOwner
  <1>6. UNCHANGED Started
    BY <1>1, Zenon DEF Started
  <1> QED
    BY <1>1, <1>2, <1>3, <1>4, <1>5, <1>6, Zenon DEF TQ!Submit, TQ!Accepted

\* Taking the head starts the oldest job.
LEMMA TakeStarts ==
  ASSUME PoolInv, NEW w \in Worker, Take(w)
  PROVE  TQ!Start
  <1>0. /\ queue \in Seq(Task) /\ queue # <<>> /\ taskHead = queue[1]
        /\ queue' = Tail(queue)
    BY Zenon DEF Take, PoolInv, TypeOK, ListOK
  <1>1. UNCHANGED <<f, done>>
    BY Zenon DEF Take
  <1>2. Waiting # <<>> /\ Head(Waiting) = f[taskHead] /\ Waiting' = Tail(Waiting)
    BY <1>0, <1>1 DEF Waiting
  <1>3. /\ Running' = Running \cup {w} /\ w \notin Running
        /\ wt'[w] = taskHead /\ \A v \in Running : wt'[v] = wt[v]
    BY Zenon DEF Take, Running, PoolInv, TypeOK
  <1>4. Started' = Started \cup {f[taskHead]}
    BY <1>1, <1>3, StartedIs DEF Started, Running
  <1> QED
    BY <1>1, <1>2, <1>4, Zenon DEF TQ!Start

\* The return of the function, and its Goexit, end the job.
LEMMA RunEnds ==
  ASSUME PoolInv, NEW w \in Worker, Finish(w) \/ Goexit(w)
  PROVE  TQ!Finish(f[wt[w]]) /\ f[wt[w]] \in Job
  <1>0. /\ w \in Running /\ wt[w] \in InUse /\ wt[w] \in Task /\ w \in Busy
        /\ queue \in Seq(Task) /\ f \in [Task -> Job \cup {Nil}]
        /\ InUse \subseteq Task
    <2>1. w \in Running /\ w \in Busy
      BY Zenon DEF Finish, Goexit, Running, Busy
    <2>2. Queued \subseteq Task /\ Running \subseteq Busy
      BY QueuedFacts, Zenon DEF PoolInv, TypeOK, Queued, Running, Busy
    <2> QED
      BY <2>1, <2>2 DEF PoolInv, TypeOK, JobInv, InUse
  <1>1. /\ UNCHANGED queue /\ done' = done \cup {f[wt[w]]}
        /\ f' = f \/ f' = [f EXCEPT ![wt[w]] = Nil]
    BY Zenon DEF Finish, Goexit, listVars
  <1>2. /\ Running' = Running \ {w} /\ \A v \in Running' : wt'[v] = wt[v]
    BY Zenon DEF Finish, Goexit, Running, PoolInv, TypeOK
  <1>3. \A o \in InUse : o # wt[w] => f'[o] = f[o] /\ f[o] # f[wt[w]]
    BY <1>0, <1>1, Zenon DEF PoolInv, JobInv
  <1>4. Waiting' = Waiting
    <2>1. \A i \in 1..Len(queue) : queue[i] \in InUse /\ queue[i] # wt[w]
      BY <1>0 DEF InUse, Queued, PoolInv, OneOwner
    <2> QED
      <3>1. \A i \in 1..Len(queue) : f'[queue[i]] = f[queue[i]]
        BY <1>3, <2>1, Zenon
      <3>2. queue' = queue
        BY <1>1, Zenon
      <3> QED
        BY <3>1, <3>2, Zenon DEF Waiting
  <1>5. \A v \in Running' : /\ v \in Running /\ wt[v] \in InUse /\ wt[v] # wt[w]
                            /\ f'[wt'[v]] = f[wt[v]] /\ f[wt[v]] # f[wt[w]]
    <2> SUFFICES ASSUME NEW v \in Running'
                 PROVE  /\ v \in Running /\ wt[v] \in InUse /\ wt[v] # wt[w]
                        /\ f'[wt'[v]] = f[wt[v]] /\ f[wt[v]] # f[wt[w]]
      BY Zenon
    <2>1. v \in Running /\ v # w /\ v \in Busy /\ wt[v] \in InUse
      BY <1>2, Zenon DEF Running, Busy, InUse
    <2>2. wt[v] # wt[w]
      BY <1>0, <2>1, Zenon DEF PoolInv, OneOwner
    <2> QED
      BY <1>2, <1>3, <2>1, <2>2, Zenon
  <1>6. Started' = {f'[wt'[v]] : v \in Running'}
    BY Zenon DEF Started, Running
  <1>7. Started' = Started \ {f[wt[w]]} /\ f[wt[w]] \in Started
    BY <1>0, <1>2, <1>5, <1>6, StartedIs
  <1>8. f[wt[w]] \in Job
    BY <1>0, Zenon DEF PoolInv, JobInv
  <1> QED
    BY <1>1, <1>4, <1>7, <1>8, Zenon DEF TQ!Finish

\* Every step of the pool is a step of the queue, or changes nothing it shows.
LEMMA StepRefines ==
  PoolInv /\ PoolInv' /\ [Next]_vars => [TQ!Next]_<<Waiting, Started, done>>
  <1> SUFFICES ASSUME PoolInv, PoolInv', [Next]_vars
               PROVE  TQ!Next \/ UNCHANGED <<Waiting, Started, done>>
    BY Zenon
  <1>1. ASSUME NEW c \in Caller, NEW j \in todo, NEW o \in free, Get(c, j, o)
        PROVE  UNCHANGED <<Waiting, Started, done>>
    <2>1. UNCHANGED <<queue, wt, Running, done>> /\ f' = [f EXCEPT ![o] = j]
      BY <1>1, Zenon DEF Get, listVars, Running
    <2>2. o \notin InUse /\ InUse \subseteq Task /\ f \in [Task -> Job \cup {Nil}]
      <3>1. Queued \subseteq Task /\ Running \subseteq Busy
        BY QueuedFacts, Zenon DEF PoolInv, TypeOK, Queued, Running, Busy
      <3> QED
        BY <3>1, SMTT(30) DEF PoolInv, TypeOK, JobInv, OneOwner, InUse
    <2>3. \A p \in InUse : f'[p] = f[p]
      BY <2>1, <2>2, Zenon
    <2> QED
      BY <2>1, <2>3, Stutter, Zenon
  <1>2. ASSUME NEW c \in Caller, Enqueue(c) PROVE TQ!Next
    BY <1>2, EnqueueSubmits, Zenon DEF TQ!Next
  <1>3. ASSUME NEW w \in Worker, Take(w) PROVE TQ!Next
    BY <1>3, TakeStarts, Zenon DEF TQ!Next
  <1>4. ASSUME NEW w \in Worker, Finish(w) \/ Goexit(w) PROVE TQ!Next
    BY <1>4, RunEnds, Zenon DEF TQ!Next
  <1>5. ASSUME NEW c \in Caller,
               \/ Count(c) \/ LoadTaskCount(c) \/ LoadWorkerCount(c) \/ LoadCap(c) \/ Zero(c)
               \/ \E w \in Worker : Incr(c, w)
        PROVE  UNCHANGED <<Waiting, Started, done>>
    <2>1. UNCHANGED <<queue, wt, f, done>>
      BY <1>5, Zenon DEF Count, LoadTaskCount, LoadWorkerCount, LoadCap, Zero, Incr, listVars
    <2>2. UNCHANGED Running
      BY <1>5, Zenon DEF Count, LoadTaskCount, LoadWorkerCount, LoadCap, Zero, Incr, Running,
                  PoolInv, TypeOK
    <2> QED
      BY <2>1, <2>2, Stutter, Zenon
  <1>6. ASSUME \/ \E w \in Worker : Stop(w)
               \/ \E n \in 0..MaxCap : SetCap(n)
               \/ UNCHANGED vars
        PROVE  UNCHANGED <<Waiting, Started, done>>
    <2>1. UNCHANGED <<queue, wt, f, done>>
      BY <1>6, Zenon DEF Stop, SetCap, vars, listVars
    <2>2. UNCHANGED Running
      BY <1>6, Zenon DEF Stop, SetCap, vars, Running, PoolInv, TypeOK
    <2> QED
      BY <2>1, <2>2, Stutter, Zenon
  <1> QED
    BY <1>1, <1>2, <1>3, <1>4, <1>5, <1>6, Zenon DEF Next, CtxGo, run

\* The linked list, the counters and the recycled tasks of the pool implement the
\* FIFO queue: each function handed to CtxGo starts once, oldest first, and ends once.
THEOREM PoolIsFIFO == Spec => FIFO
  <1>1. Init => TQ!Init
    <2> SUFFICES ASSUME Init PROVE TQ!Init
      BY Zenon
    <2>1. queue = <<>> /\ done = {} /\ Running = {}
      BY Zenon DEF Init, Running
    <2>2. Waiting = <<>>
      BY <2>1 DEF Waiting
    <2>3. Started = {}
      BY <2>1, StartedIs, Zenon
    <2> QED
      BY <2>1, <2>2, <2>3, Zenon DEF TQ!Init
  <1> QED
    BY <1>1, StepRefines, PoolInvariant, PTL DEF Spec, FIFO, TQ!Spec

===============================================================================
