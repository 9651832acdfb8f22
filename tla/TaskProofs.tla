------------------------------ MODULE TaskProofs ------------------------------
(***************************************************************************)
(* Proofs about the worker and the rounds of package task, for any number  *)
(* of buckets, callers, tasks, build functions, nodes and ips.             *)
(***************************************************************************)
EXTENDS Rounds, FiniteSetTheorems, WellFoundedInduction, TLAPS

-------------------------------------------------------------------------------
(* The least number of a set *)

Below == {ss \in Nat \X Nat : ss[1] < ss[2]}

\* A set of natural numbers that is not empty has a least element.
LEMMA Least ==
    ASSUME NEW S \in SUBSET Nat, S # {}
    PROVE  \E x \in S : \A y \in S : x <= y
<1>1. IsWellFoundedOn(Below, Nat)
  BY Zenon, NatLessThanWellFounded DEF OpToRel, Below
<1>2. \A x, y \in Nat : <<x, y>> \in Below <=> x < y
  BY Zenon DEF Below
<1>3. \E x \in S : \A y \in S : ~(<<y, x>> \in Below)
  BY <1>1, WFMin, Zenon
<1>4. PICK x \in S : \A y \in S : ~(<<y, x>> \in Below)
  BY <1>3, Zenon
<1>5. \A y \in S : ~(y < x) /\ x \in Nat /\ y \in Nat
  BY <1>2, <1>4, Zenon
<1>6. \A y \in S : x <= y
  BY <1>5
<1> QED
  BY <1>6, Zenon

-------------------------------------------------------------------------------
(* The worker *)

Waiting(t) == \E c \in Caller : \E i \in DOMAIN put[c] : put[c][i] = t
Held(t) == \E g \in Goroutine : holds[g] = t

\* A goroutine has a task exactly while it executes it or sends it back.
HoldInv == \A g \in Goroutine : at[g] \in {"select", "end"} <=> holds[g] = Nil

\* A task was given before it waits or is held, and has not run before it is
\* handed over; it runs once for every retry and once more.
RunInv ==
    /\ \A t \in Task :
          /\ Waiting(t) \/ Held(t) => t \in given
          /\ Waiting(t) \/ t \notin given => runs[t] = 0
          /\ RetryTimes[t] <= RetryLimit[t] /\ runs[t] <= RetryTimes[t] + 1
    /\ \A g \in Goroutine : at[g] = "retry" => runs[holds[g]] <= RetryTimes[holds[g]]

Ended == {g \in Goroutine : at[g] = "end"}

\* The tasks that may still panic.
Unspent == {t \in Panicking : t \notin given \/ Waiting(t) \/ Held(t)}

\* Every goroutine that ended has used up a token or a task that may panic.
SpentInv ==
    /\ tokens = -1 => Cardinality(Ended) + Cardinality(Unspent) <= Cardinality(Panicking)
    /\ tokens # -1 =>
         Cardinality(Ended) + Cardinality(Unspent) + tokens <= parallelism + Cardinality(Panicking)

WorkerInv == WorkerTypeOK /\ HoldInv /\ OneHolder /\ RunInv /\ SpentInv

\* Goroutines are finitely many.
LEMMA FiniteGoroutines == IsFiniteSet(Goroutine)
<1>1. IsFiniteSet(0 .. parallelism - 1)
  BY FS_Interval, WorkerAssumption
<1>2. IsFiniteSet({1, 2})
  <2>1. IsFiniteSet({1}) /\ {1} \cup {2} = {1, 2}
    BY FS_Singleton, Zenon
  <2> QED
    BY <2>1, FS_AddElement, Zenon
<1> QED
  BY <1>1, <1>2, FS_Product, Zenon DEF Goroutine

\* The sets that are counted are finite.
LEMMA Counted ==
    ASSUME NEW E \in SUBSET Goroutine, NEW U \in SUBSET Panicking
    PROVE  /\ IsFiniteSet(E) /\ Cardinality(E) \in Nat
           /\ IsFiniteSet(U) /\ Cardinality(U) \in Nat /\ Cardinality(U) <= Cardinality(Panicking)
           /\ Cardinality(Panicking) \in Nat
<1>1. IsFiniteSet(E) /\ IsFiniteSet(U)
  BY FiniteGoroutines, FS_Subset, WorkerAssumption, Zenon
<1>2. Cardinality(U) <= Cardinality(Panicking)
  BY FS_Subset, WorkerAssumption, Zenon
<1> QED
  BY <1>1, <1>2, FS_CardinalityType, WorkerAssumption, Zenon

\* Nothing has run or ended before the first call of Put.
LEMMA WorkerInitial == WorkerInit => WorkerInv
<1> SUFFICES ASSUME WorkerInit PROVE WorkerInv
  BY Zenon
<1> USE WorkerAssumption
<1>1. WorkerTypeOK
  BY DEF WorkerInit, WorkerTypeOK
<1>2. HoldInv
  BY Zenon DEF WorkerInit, HoldInv
<1>3. OneHolder
  BY DEF WorkerInit, OneHolder
<1>4. RunInv
  BY DEF WorkerInit, RunInv, Waiting, Held
<1>5. SpentInv
  <2>1. Ended = {}
    BY Zenon DEF WorkerInit, Ended
  <2>2. Unspent \in SUBSET Panicking
    BY Zenon DEF Unspent
  <2>3. Cardinality(Ended) = 0
    BY <2>1, FS_EmptySet, Zenon
  <2>4. Cardinality(Unspent) <= Cardinality(Panicking) /\ Cardinality(Unspent) \in Nat
    BY <2>1, <2>2, Counted, Zenon
  <2> QED
    BY <2>3, <2>4 DEF WorkerInit, SpentInv
<1> QED
  BY <1>1, <1>2, <1>3, <1>4, <1>5, Zenon DEF WorkerInv

\* A step that ends no goroutine and brings no task back to those that may panic
\* spends nothing.
LEMMA NothingSpent ==
    ASSUME SpentInv, tokens' = tokens, Ended' \subseteq Ended, Unspent' \subseteq Unspent,
           tokens \in Int
    PROVE  SpentInv'
<1>1. Ended \in SUBSET Goroutine /\ Unspent \in SUBSET Panicking
  BY Zenon DEF Ended, Unspent
<1>2. Cardinality(Ended') <= Cardinality(Ended) /\ Cardinality(Unspent') <= Cardinality(Unspent)
  BY <1>1, Counted, FS_Subset, Zenon
<1>3. Ended' \in SUBSET Goroutine /\ Unspent' \in SUBSET Panicking
  BY <1>1, Zenon
<1> QED
  BY <1>1, <1>2, <1>3, Counted, WorkerAssumption DEF SpentInv

-------------------------------------------------------------------------------
(* The steps of the worker *)

\* Put takes over a list of new tasks.
LEMMA PutKeeps ==
    ASSUME WorkerInv, NEW c \in Caller, NEW list \in Seq(Task), Fresh(list), Put(c, list)
    PROVE  WorkerInv'
<1> USE DEF WorkerInv
<1>1. WorkerTypeOK'
  BY DEF WorkerTypeOK, Put
<1>2. HoldInv'
  BY Zenon DEF HoldInv, Put
<1>3. put' = [put EXCEPT ![c] = list] /\ put[c] = <<>> /\ put \in [Caller -> Seq(Task)]
  BY Zenon DEF Put, WorkerTypeOK
<1>4. \A d \in Caller : (d = c => put'[d] = list) /\ (d # c => put'[d] = put[d])
  BY <1>3, Zenon
<1>5. \A t \in Task : Waiting(t)' <=> Waiting(t) \/ \E i \in DOMAIN list : list[i] = t
  BY <1>3, <1>4 DEF Waiting
<1>6. \A t \in Task : Held(t)' <=> Held(t)
  BY Zenon DEF Held, Put
<1>7. OneHolder'
  <2>1. \A d \in Caller : d # c => \A i \in DOMAIN put[d] : put[d][i] \in Task /\ put[d][i] \in given
    BY <1>3 DEF RunInv, Waiting
  <2>2. \A g \in Goroutine : holds[g] \in Task => holds[g] \in given
    BY Zenon DEF RunInv, Held
  <2>3. UNCHANGED holds
    BY Zenon DEF Put
  <2> QED
    BY <1>4, <2>1, <2>2, <2>3 DEF OneHolder, Fresh
<1>8. RunInv'
  BY <1>5, <1>6 DEF RunInv, Put, Fresh
<1>9. SpentInv'
  <2>1. Ended' = Ended /\ tokens' = tokens /\ tokens \in Int
    BY WorkerAssumption DEF Ended, Put, WorkerTypeOK
  <2>2. Unspent' \subseteq Unspent
    BY <1>5, <1>6, WorkerAssumption DEF Unspent, Put, Fresh
  <2> QED
    BY <2>1, <2>2, NothingSpent, Zenon
<1> QED
  BY <1>1, <1>2, <1>7, <1>8, <1>9, Zenon

\* A task goes from a caller of Put to a goroutine.
LEMMA HandKeeps ==
    ASSUME WorkerInv, NEW c \in Caller, NEW g \in Goroutine, Hand(c, g)
    PROVE  WorkerInv'
<1> USE DEF WorkerInv
<1> DEFINE t == Head(put[c])
<1>1. put \in [Caller -> Seq(Task)] /\ put[c] # <<>> /\ put[c] \in Seq(Task) /\ t \in Task
  BY DEF Hand, WorkerTypeOK
<1>2. /\ put' = [put EXCEPT ![c] = Tail(put[c])]
      /\ at' = [at EXCEPT ![g] = "exec"] /\ holds' = [holds EXCEPT ![g] = t]
      /\ runs' = [runs EXCEPT ![t] = @ + 1] /\ at[g] = "select"
      /\ UNCHANGED <<RetryTimes, tokens, given>>
  BY Zenon DEF Hand, Moves, Receives
<1>3. WorkerTypeOK'
  BY <1>1, <1>2 DEF WorkerTypeOK
<1>4. HoldInv'
  BY <1>1, <1>2, WorkerAssumption, Zenon DEF HoldInv, WorkerTypeOK
<1>5. put[c][1] = t /\ 1 \in DOMAIN put[c]
  BY <1>1
<1>6. \A d \in Caller : \A i \in DOMAIN put'[d] :
         \/ d # c /\ i \in DOMAIN put[d] /\ put'[d][i] = put[d][i]
         \/ d = c /\ (i + 1) \in DOMAIN put[d] /\ put'[d][i] = put[d][i + 1] /\ i \in Nat /\ i > 0
  BY <1>1, <1>2
<1>7. Waiting(t) /\ ~Held(t)
  BY <1>1, <1>5 DEF Waiting, Held, OneHolder
<1>8. \A d \in Caller : \A i \in DOMAIN put'[d] : put'[d][i] # t
  BY <1>1, <1>5, <1>6 DEF OneHolder
<1>9. OneHolder'
  <2>1. \A u \in Task : \A h, k \in Goroutine : holds'[h] = u /\ holds'[k] = u => h = k
    BY <1>2, <1>7, Zenon DEF OneHolder, Held, WorkerTypeOK
  <2>2. \A u \in Task : \A d, e \in Caller : \A i \in DOMAIN put'[d], j \in DOMAIN put'[e] :
              put'[d][i] = u /\ put'[e][j] = u => d = e /\ i = j
    BY <1>6 DEF OneHolder
  <2>3. \A u \in Task : \A h \in Goroutine, d \in Caller : \A i \in DOMAIN put'[d] :
              ~(holds'[h] = u /\ put'[d][i] = u)
    BY <1>2, <1>6, <1>8 DEF OneHolder, WorkerTypeOK
  <2> QED
    BY <2>1, <2>2, <2>3, Zenon DEF OneHolder
<1>10. \A u \in Task : Waiting(u)' => Waiting(u) /\ u # t
  BY <1>6, <1>8, Zenon DEF Waiting
<1>11. \A u \in Task : Held(u)' <=> Held(u) \/ u = t
  BY <1>2, <1>4, <1>7, WorkerAssumption, Zenon DEF Held, WorkerTypeOK, HoldInv
<1>12. RunInv'
  <2>1. t \in given /\ runs[t] = 0 /\ runs \in [Task -> Nat] /\ RetryTimes \in [Task -> Nat]
    BY <1>1, <1>7, Zenon DEF RunInv, WorkerTypeOK
  <2>2. \A u \in Task : (u = t => runs'[u] = 1) /\ (u # t => runs'[u] = runs[u])
    BY <1>1, <1>2, <2>1
  <2>3. \A u \in Task : Waiting(u)' \/ Held(u)' => u \in given'
    BY <1>2, <1>10, <1>11, <2>1, Zenon DEF RunInv
  <2>4. \A u \in Task : Waiting(u)' \/ u \notin given' => runs'[u] = 0
    BY <1>2, <1>10, <2>1, <2>2, Zenon DEF RunInv
  <2>5. \A u \in Task : RetryTimes'[u] <= RetryLimit[u] /\ runs'[u] <= RetryTimes'[u] + 1
    BY <1>2, <2>1, <2>2 DEF RunInv
  <2>6. \A h \in Goroutine : at'[h] = "retry" => runs'[holds'[h]] <= RetryTimes'[holds'[h]]
    <3> SUFFICES ASSUME NEW h \in Goroutine, at'[h] = "retry"
                 PROVE  runs'[holds'[h]] <= RetryTimes'[holds'[h]]
      BY Zenon
    <3>1. h # g /\ at[h] = "retry" /\ holds'[h] = holds[h]
      BY <1>2, Zenon DEF WorkerTypeOK
    <3>2. holds[h] # t
      BY <1>7, Zenon DEF Held
    <3> QED
      BY <1>1, <1>2, <3>1, <3>2 DEF RunInv, WorkerTypeOK
  <2> QED
    BY <2>3, <2>4, <2>5, <2>6, Zenon DEF RunInv
<1>13. SpentInv'
  <2>1. Ended' \subseteq Ended /\ tokens' = tokens /\ tokens \in Int
    BY <1>2, WorkerAssumption DEF Ended, WorkerTypeOK
  <2>2. Unspent' \subseteq Unspent
    BY <1>2, <1>7, <1>10, <1>11, WorkerAssumption, Zenon DEF Unspent
  <2> QED
    BY <2>1, <2>2, NothingSpent, Zenon
<1> QED
  BY <1>3, <1>4, <1>9, <1>12, <1>13, Zenon

\* What a goroutine that leaves its task or moves on with it does.
LEMMA MovesEffect ==
    ASSUME WorkerTypeOK, NEW g \in Goroutine, NEW l, NEW t, Moves(g, l, t)
    PROVE  /\ at'[g] = l /\ holds'[g] = t
           /\ \A h \in Goroutine : h # g => at'[h] = at[h] /\ holds'[h] = holds[h]
BY Zenon DEF Moves, WorkerTypeOK

\* A goroutine that drops its task, if it has one: nothing else of the worker
\* changes, and the count of those that end is left open.
LEMMA DropKeeps ==
    ASSUME WorkerInv, NEW g \in Goroutine, NEW l \in {"select", "end"}, Moves(g, l, Nil),
           UNCHANGED <<put, RetryTimes, runs, given>>, tokens' \in -1 .. parallelism
    PROVE  /\ WorkerTypeOK' /\ HoldInv' /\ OneHolder' /\ RunInv'
           /\ Unspent' \subseteq Unspent /\ holds[g] \notin Unspent'
<1> USE DEF WorkerInv
<1>1. /\ at'[g] = l /\ holds'[g] = Nil
      /\ \A h \in Goroutine : h # g => at'[h] = at[h] /\ holds'[h] = holds[h]
  BY MovesEffect, Zenon
<1>2. WorkerTypeOK'
  BY Zenon DEF WorkerTypeOK, Moves
<1>3. HoldInv'
  BY <1>1, Zenon DEF HoldInv
<1>4. OneHolder'
  BY <1>1, WorkerAssumption DEF OneHolder
<1>5. \A t \in Task : (Waiting(t)' <=> Waiting(t)) /\ (Held(t)' => Held(t) /\ t # holds[g])
  BY <1>1, WorkerAssumption DEF Waiting, Held, OneHolder
<1>6. RunInv'
  <2>1. \A h \in Goroutine : at'[h] = "retry" => runs'[holds'[h]] <= RetryTimes'[holds'[h]]
    BY <1>1, Zenon DEF RunInv
  <2> QED
    BY <1>5, <2>1, Zenon DEF RunInv
<1>7. Unspent' \subseteq Unspent
  BY <1>5, WorkerAssumption, Zenon DEF Unspent
<1>8. holds[g] \notin Unspent'
  <2> SUFFICES ASSUME holds[g] \in Panicking PROVE holds[g] \notin Unspent'
    BY Zenon DEF Unspent
  <2>1. holds[g] \in Task /\ Held(holds[g])
    BY WorkerAssumption, Zenon DEF Held
  <2>2. holds[g] \in given /\ ~Waiting(holds[g])
    BY <2>1, Zenon DEF RunInv, OneHolder, Waiting
  <2> QED
    BY <1>5, <2>1, <2>2, Zenon DEF Unspent
<1> QED
  BY <1>2, <1>3, <1>4, <1>6, <1>7, <1>8, Zenon

\* A task that returns leaves its goroutine ready for the next.
LEMMA FinishKeeps ==
    ASSUME WorkerInv, NEW g \in Goroutine, Finish(g)
    PROVE  WorkerInv'
<1>1. Moves(g, "select", Nil) /\ UNCHANGED <<put, RetryTimes, tokens, runs, given>>
  BY Zenon DEF Finish
<1>2. WorkerTypeOK /\ tokens \in -1 .. parallelism
  BY Zenon DEF WorkerInv, WorkerTypeOK
<1>3. /\ WorkerTypeOK' /\ HoldInv' /\ OneHolder' /\ RunInv'
      /\ Unspent' \subseteq Unspent
  BY <1>1, <1>2, DropKeeps, Zenon
<1>4. Ended' \subseteq Ended
  BY <1>1, <1>2, MovesEffect, Zenon DEF Ended
<1>5. SpentInv'
  BY <1>1, <1>2, <1>3, <1>4, NothingSpent DEF WorkerInv
<1> QED
  BY <1>3, <1>5, Zenon DEF WorkerInv

\* One goroutine more has ended.
LEMMA OneEnds ==
    ASSUME WorkerTypeOK, NEW g \in Goroutine, at[g] # "end", Moves(g, "end", Nil)
    PROVE  Cardinality(Ended') = Cardinality(Ended) + 1
<1>1. Ended' = Ended \cup {g} /\ g \notin Ended
  BY MovesEffect, Zenon DEF Ended
<1>2. IsFiniteSet(Ended)
  BY FiniteGoroutines, FS_Subset, Zenon DEF Ended
<1> QED
  BY <1>1, <1>2, FS_AddElement, Zenon

\* A goroutine that takes a token of Done ends and uses it up.
LEMMA TakeKeeps ==
    ASSUME WorkerInv, NEW g \in Goroutine, Take(g)
    PROVE  WorkerInv'
<1>1. /\ Moves(g, "end", Nil) /\ UNCHANGED <<put, RetryTimes, runs, given>>
      /\ at[g] = "select" /\ tokens > 0 /\ tokens' = tokens - 1
  BY Zenon DEF Take
<1>2. WorkerTypeOK /\ tokens \in -1 .. parallelism
  BY Zenon DEF WorkerInv, WorkerTypeOK
<1>3. tokens' \in 0 .. parallelism
  BY <1>1, <1>2, WorkerAssumption
<1>4. tokens' \in -1 .. parallelism
  BY <1>3, WorkerAssumption
<1>5. /\ WorkerTypeOK' /\ HoldInv' /\ OneHolder' /\ RunInv'
      /\ Unspent' \subseteq Unspent
  BY <1>1, <1>4, DropKeeps, Zenon
<1>6. Cardinality(Ended') = Cardinality(Ended) + 1
  BY <1>1, <1>2, OneEnds, Zenon
<1>7. Ended \in SUBSET Goroutine /\ Unspent \in SUBSET Panicking /\ Unspent' \in SUBSET Panicking
  BY <1>5, Zenon DEF Ended, Unspent
<1>8. /\ Cardinality(Unspent') <= Cardinality(Unspent) /\ Cardinality(Unspent') \in Nat
      /\ Cardinality(Unspent) \in Nat /\ Cardinality(Ended) \in Nat /\ Cardinality(Panicking) \in Nat
  BY <1>5, <1>7, Counted, FS_Subset, Zenon
<1>9. SpentInv'
  BY <1>1, <1>2, <1>3, <1>6, <1>8, WorkerAssumption DEF SpentInv, WorkerInv
<1> QED
  BY <1>5, <1>9, Zenon DEF WorkerInv

\* A goroutine that a panic ends uses up the task.
LEMMA PanicKeeps ==
    ASSUME WorkerInv, NEW g \in Goroutine, Panic(g)
    PROVE  WorkerInv'
<1>1. /\ Moves(g, "end", Nil) /\ UNCHANGED <<put, RetryTimes, tokens, runs, given>>
      /\ at[g] = "exec" /\ holds[g] \in Panicking
  BY Zenon DEF Panic
<1>2. WorkerTypeOK /\ tokens \in -1 .. parallelism
  BY Zenon DEF WorkerInv, WorkerTypeOK
<1>3. /\ WorkerTypeOK' /\ HoldInv' /\ OneHolder' /\ RunInv'
      /\ Unspent' \subseteq Unspent /\ holds[g] \notin Unspent'
  BY <1>1, <1>2, DropKeeps, Zenon
<1>4. holds[g] \in Unspent
  BY <1>1, Zenon DEF Unspent, Held
<1>5. Cardinality(Ended') = Cardinality(Ended) + 1
  BY <1>1, <1>2, OneEnds, Zenon
<1>6. Ended \in SUBSET Goroutine /\ Unspent \in SUBSET Panicking
  BY Zenon DEF Ended, Unspent
<1>7. Unspent' \subseteq Unspent \ {holds[g]}
  BY <1>3, Zenon
<1>8. /\ IsFiniteSet(Unspent) /\ Cardinality(Unspent) \in Nat /\ Cardinality(Ended) \in Nat
      /\ Cardinality(Panicking) \in Nat
  BY <1>6, Counted, Zenon
<1>9. IsFiniteSet(Unspent \ {holds[g]}) /\ Cardinality(Unspent \ {holds[g]}) = Cardinality(Unspent) - 1
  BY <1>4, <1>8, FS_RemoveElement, Zenon
<1>10. Cardinality(Unspent') <= Cardinality(Unspent) - 1 /\ Cardinality(Unspent') \in Nat
  BY <1>7, <1>9, FS_Subset, FS_CardinalityType
<1>11. SpentInv'
  BY <1>1, <1>2, <1>5, <1>8, <1>10, WorkerAssumption DEF SpentInv, WorkerInv
<1> QED
  BY <1>3, <1>11, Zenon DEF WorkerInv

\* A task that fails is counted before it is sent back.
LEMMA FailKeeps ==
    ASSUME WorkerInv, NEW g \in Goroutine, Fail(g)
    PROVE  WorkerInv'
<1> USE DEF WorkerInv
<1> DEFINE t == holds[g]
<1>1. /\ at[g] = "exec" /\ Retries(t) /\ Moves(g, "retry", t)
      /\ RetryTimes' = [RetryTimes EXCEPT ![t] = @ + 1]
      /\ UNCHANGED <<put, tokens, runs, given>>
  BY Zenon DEF Fail
<1>2. t \in Task /\ RetryTimes[t] < RetryLimit[t] /\ t # Nil
  BY <1>1, WorkerAssumption, Zenon DEF Retries
<1>3. /\ at'[g] = "retry" /\ holds'[g] = t
      /\ \A h \in Goroutine : h # g => at'[h] = at[h] /\ holds'[h] = holds[h]
  BY <1>1, MovesEffect, Zenon
<1>4. \A h \in Goroutine : holds'[h] = holds[h]
  BY <1>3, Zenon
<1>5. WorkerTypeOK'
  BY <1>1, <1>2 DEF WorkerTypeOK, Moves
<1>6. HoldInv'
  BY <1>2, <1>3, Zenon DEF HoldInv
<1>7. OneHolder'
  BY <1>1, <1>4 DEF OneHolder
<1>8. \A u \in Task : (Waiting(u)' <=> Waiting(u)) /\ (Held(u)' <=> Held(u))
  BY <1>1, <1>4, Zenon DEF Waiting, Held
<1>9. RunInv'
  <2>1. \A u \in Task : (u = t => RetryTimes'[u] = RetryTimes[u] + 1) /\ (u # t => RetryTimes'[u] = RetryTimes[u])
    BY <1>1, <1>2, Zenon DEF WorkerTypeOK
  <2>2. runs \in [Task -> Nat] /\ RetryTimes \in [Task -> Nat] /\ RetryLimit \in [Task -> Nat]
    BY WorkerAssumption, Zenon DEF WorkerTypeOK
  <2>3. \A u \in Task : RetryTimes'[u] <= RetryLimit[u] /\ runs'[u] <= RetryTimes'[u] + 1
    BY <1>1, <1>2, <2>1, <2>2 DEF RunInv
  <2>4. \A h \in Goroutine : at'[h] = "retry" => runs'[holds'[h]] <= RetryTimes'[holds'[h]]
    <3> SUFFICES ASSUME NEW h \in Goroutine, at'[h] = "retry"
                 PROVE  runs[holds[h]] <= RetryTimes'[holds[h]]
      BY <1>1, <1>4, Zenon
    <3>1. CASE h = g
      BY <1>2, <2>1, <2>2, <3>1, Zenon DEF RunInv
    <3>2. CASE h # g
      <4>1. at[h] = "retry" /\ holds[h] \in Task
        BY <1>3, <3>2, Zenon DEF HoldInv, WorkerTypeOK
      <4> QED
        BY <2>1, <2>2, <4>1, Zenon DEF RunInv
    <3> QED
      BY <3>1, <3>2, Zenon
  <2> QED
    BY <1>1, <1>8, <2>3, <2>4, Zenon DEF RunInv
<1>10. SpentInv'
  <2>1. Ended' \subseteq Ended /\ tokens \in Int
    BY <1>3, WorkerAssumption DEF Ended, WorkerTypeOK
  <2>2. Unspent' \subseteq Unspent
    BY <1>1, <1>8, WorkerAssumption, Zenon DEF Unspent
  <2> QED
    BY <1>1, <2>1, <2>2, NothingSpent, Zenon
<1> QED
  BY <1>5, <1>6, <1>7, <1>9, <1>10, Zenon

\* A task that is sent back goes from one goroutine to another.
LEMMA RetryKeeps ==
    ASSUME WorkerInv, NEW g \in Goroutine, NEW h \in Goroutine, Retry(g, h)
    PROVE  WorkerInv'
<1> USE DEF WorkerInv
<1> DEFINE t == holds[g]
<1>1. /\ at[g] = "retry" /\ at[h] = "select"
      /\ at' = [at EXCEPT ![g] = "select", ![h] = "exec"]
      /\ holds' = [holds EXCEPT ![g] = Nil, ![h] = t]
      /\ runs' = [runs EXCEPT ![t] = @ + 1]
      /\ UNCHANGED <<put, RetryTimes, tokens, given>>
  BY Zenon DEF Retry, Receives
<1>2. t \in Task /\ t # Nil /\ g # h /\ holds[h] = Nil
  BY <1>1, WorkerAssumption, Zenon DEF HoldInv, WorkerTypeOK
<1>3. /\ at'[g] = "select" /\ holds'[g] = Nil /\ at'[h] = "exec" /\ holds'[h] = t
      /\ \A k \in Goroutine : k # g /\ k # h => at'[k] = at[k] /\ holds'[k] = holds[k]
  BY <1>1, <1>2, Zenon DEF WorkerTypeOK
<1>4. WorkerTypeOK'
  <2>1. at' \in [Goroutine -> {"select", "exec", "retry", "end"}]
    BY <1>1, Zenon DEF WorkerTypeOK
  <2>2. holds' \in [Goroutine -> Task \cup {Nil}]
    BY <1>1, <1>2, Zenon DEF WorkerTypeOK
  <2>3. runs' \in [Task -> Nat]
    BY <1>1, <1>2 DEF WorkerTypeOK
  <2> QED
    BY <1>1, <2>1, <2>2, <2>3, Zenon DEF WorkerTypeOK
<1>5. HoldInv'
  BY <1>2, <1>3, Zenon DEF HoldInv
<1>6. \A k \in Goroutine : holds[k] = t => k = g
  BY <1>2, Zenon DEF OneHolder
<1>7. OneHolder'
  <2>1. \A u \in Task : \A i, j \in Goroutine : holds'[i] = u /\ holds'[j] = u => i = j
    BY <1>2, <1>3, <1>6, WorkerAssumption DEF OneHolder
  <2>2. \A u \in Task : \A k \in Goroutine, d \in Caller : \A i \in DOMAIN put[d] :
              ~(holds'[k] = u /\ put[d][i] = u)
    BY <1>2, <1>3, WorkerAssumption DEF OneHolder
  <2>3. \A u \in Task : \A c, d \in Caller : \A i \in DOMAIN put'[c], j \in DOMAIN put'[d] :
              put'[c][i] = u /\ put'[d][j] = u => c = d /\ i = j
    BY <1>1 DEF OneHolder
  <2>4. put' = put
    BY <1>1, Zenon
  <2> QED
    BY <2>1, <2>2, <2>3, <2>4 DEF OneHolder
<1>8. \A u \in Task : (Waiting(u)' <=> Waiting(u)) /\ (Held(u)' <=> Held(u))
  <2>1. \A u \in Task : Waiting(u)' <=> Waiting(u)
    BY <1>1, Zenon DEF Waiting
  <2>2. \A u \in Task : Held(u)' <=> Held(u)
    BY <1>2, <1>3, WorkerAssumption, Zenon DEF Held
  <2> QED
    BY <2>1, <2>2, Zenon
<1>9. RunInv'
  <2>1. runs \in [Task -> Nat] /\ RetryTimes \in [Task -> Nat]
    BY Zenon DEF WorkerTypeOK
  <2>2. \A u \in Task : (u = t => runs'[u] = runs[u] + 1) /\ (u # t => runs'[u] = runs[u])
    BY <1>1, <1>2, <2>1, Zenon
  <2>3. Held(t) /\ ~Waiting(t) /\ t \in given /\ runs[t] <= RetryTimes[t]
    BY <1>1, <1>2, Zenon DEF RunInv, Held, Waiting, OneHolder
  <2>4. \A u \in Task : Waiting(u)' \/ u \notin given' => runs'[u] = 0
    BY <1>1, <1>8, <2>2, <2>3, Zenon DEF RunInv
  <2>5. \A u \in Task : RetryTimes'[u] <= RetryLimit[u] /\ runs'[u] <= RetryTimes'[u] + 1
    BY <1>1, <2>1, <2>2, <2>3 DEF RunInv
  <2>6. \A k \in Goroutine : at'[k] = "retry" => runs'[holds'[k]] <= RetryTimes'[holds'[k]]
    <3> SUFFICES ASSUME NEW k \in Goroutine, at'[k] = "retry"
                 PROVE  runs'[holds'[k]] <= RetryTimes'[holds'[k]]
      BY Zenon
    <3>1. k # g /\ k # h /\ at[k] = "retry" /\ holds'[k] = holds[k]
      BY <1>3, Zenon
    <3>2. holds[k] \in Task /\ holds[k] # t
      BY <1>6, <3>1, Zenon DEF HoldInv, WorkerTypeOK
    <3> QED
      BY <1>1, <2>2, <3>1, <3>2, Zenon DEF RunInv
  <2>7. \A u \in Task : Waiting(u)' \/ Held(u)' => u \in given'
    BY <1>1, <1>8, Zenon DEF RunInv
  <2> QED
    BY <2>4, <2>5, <2>6, <2>7, Zenon DEF RunInv
<1>10. SpentInv'
  <2>1. Ended' \subseteq Ended
    BY <1>3, Zenon DEF Ended
  <2>0. tokens \in Int
    BY WorkerAssumption DEF WorkerTypeOK
  <2>2. Unspent' \subseteq Unspent
    BY <1>1, <1>8, WorkerAssumption, Zenon DEF Unspent
  <2> QED
    BY <1>1, <2>0, <2>1, <2>2, NothingSpent, Zenon
<1> QED
  BY <1>4, <1>5, <1>7, <1>9, <1>10, Zenon

\* A call of Done has as many tokens to send as there are buckets.
LEMMA DoneKeeps == WorkerInv /\ Done => WorkerInv'
<1> SUFFICES ASSUME WorkerInv, Done PROVE WorkerInv'
  BY Zenon
<1> USE DEF WorkerInv, Done
<1>1. WorkerTypeOK' /\ HoldInv' /\ OneHolder'
  BY WorkerAssumption DEF WorkerTypeOK, HoldInv, OneHolder
<1>2. RunInv'
  BY Zenon DEF RunInv, Waiting, Held
<1>3. SpentInv'
  <2>1. Ended' = Ended /\ Unspent' = Unspent
    BY Zenon DEF Ended, Unspent, Waiting, Held
  <2>2. /\ Cardinality(Ended) \in Nat /\ Cardinality(Unspent) \in Nat /\ Cardinality(Panicking) \in Nat
    BY Counted, Zenon DEF Ended, Unspent
  <2> QED
    BY <2>1, <2>2, WorkerAssumption DEF SpentInv
<1> QED
  BY <1>1, <1>2, <1>3, Zenon

\* Whoever does not touch the worker keeps its invariant.
LEMMA WorkerRests == WorkerInv /\ UNCHANGED workerVars => WorkerInv'
<1> SUFFICES ASSUME WorkerInv, UNCHANGED workerVars PROVE WorkerInv'
  BY Zenon
<1> USE DEF WorkerInv, workerVars
<1>1. WorkerTypeOK' /\ HoldInv' /\ OneHolder'
  BY DEF WorkerTypeOK, HoldInv, OneHolder
<1>2. RunInv'
  BY Zenon DEF RunInv, Waiting, Held
<1>3. Ended' = Ended /\ Unspent' = Unspent
  BY Zenon DEF Ended, Unspent, Waiting, Held
<1>4. SpentInv'
  BY <1>3, Zenon DEF SpentInv
<1> QED
  BY <1>1, <1>2, <1>4, Zenon

\* Every step of a worker keeps the invariant.
LEMMA WorkerKeeps == WorkerInv /\ [WorkerNext]_workerVars => WorkerInv'
<1> SUFFICES ASSUME WorkerInv, [WorkerNext]_workerVars PROVE WorkerInv'
  BY Zenon
<1>1. CASE \E c \in Caller, list \in Seq(Task) : Fresh(list) /\ Put(c, list)
  BY <1>1, PutKeeps, Zenon
<1>2. CASE Done
  BY <1>2, DoneKeeps, Zenon
<1>3. CASE WorkerStep
  BY <1>3, HandKeeps, TakeKeeps, FinishKeeps, FailKeeps, PanicKeeps, RetryKeeps, Zenon DEF WorkerStep
<1>4. CASE UNCHANGED workerVars
  BY <1>4, WorkerRests, Zenon
<1> QED
  BY <1>1, <1>2, <1>3, <1>4, Zenon DEF WorkerNext

\* The invariant says what the worker promises.
LEMMA WorkerInvSound == WorkerInv => WorkerSound
<1> SUFFICES ASSUME WorkerInv PROVE WorkerSound
  BY Zenon
<1> USE DEF WorkerInv
<1>1. RunBound
  <2> SUFFICES ASSUME NEW t \in Task PROVE runs[t] <= RetryLimit[t] + 1
    BY Zenon DEF RunBound
  <2>1. runs[t] \in Nat /\ RetryTimes[t] \in Nat /\ RetryLimit[t] \in Nat
    BY WorkerAssumption, Zenon DEF WorkerTypeOK
  <2> QED
    BY <2>1 DEF RunInv
<1>2. OthersStay
  <2>1. /\ Cardinality(Ended) \in Nat /\ Cardinality(Unspent) \in Nat /\ Cardinality(Panicking) \in Nat
    BY Counted, Zenon DEF Ended, Unspent
  <2>2. tokens \in -1 .. parallelism
    BY Zenon DEF WorkerTypeOK
  <2>3. Cardinality(Ended) <= parallelism + Cardinality(Panicking)
    BY <2>1, <2>2, WorkerAssumption DEF SpentInv
  <2> QED
    BY <2>3, Zenon DEF OthersStay, Ended
<1> QED
  BY <1>1, <1>2, Zenon DEF WorkerSound

\* A worker of any size, whatever lists of new tasks its callers give it: a task
\* waits in one list or is held by one goroutine, it is executed at most once more
\* than its RetryLimit, and Done and panics leave the other goroutines running
\* (Worker.Start, Put and Done).
THEOREM WorkerSafe == WorkerSpec => []WorkerSound
<1>1. WorkerSpec => []WorkerInv
  BY WorkerInitial, WorkerKeeps, PTL DEF WorkerSpec
<1> QED
  BY <1>1, WorkerInvSound, PTL

-------------------------------------------------------------------------------
(* The rounds *)

\* The partitions of a round that was started here.
Parts ==
    {q \in [names : SUBSET (Peer \cup {Me}), Round : {1}, FinBatchCount : Nat,
            done : SUBSET (Peer \cup {Me})] :
        Me \in q.names /\ q.done \subseteq q.names}

\* A job that keeps its Go type.
Typed(j, name) == j[1] = name /\ j[2]

\* No task of a build function was given to the worker, and none will be.
NothingBuilt ==
    /\ \A r \in 1 .. MaxRound : build[r] = {}
    /\ \A t \in given : t[1] = "cut"

\* RoundDone never finds an open flag: nobody sends while holding mu, and the loop
\* never starts a round.
SilentInv ==
    /\ mu = Nil /\ flag = "absent" /\ loop # "new"
    /\ \A p \in Goroutine \cup Timers : rd[p] # "send"

\* The first round is the only one, and it is built once: a task that is to be built was
\* not given to the worker before.
OnceInv ==
    /\ given \subseteq RoundTask /\ (loop = "off" => all = "off")
    /\ all # "end" => NothingBuilt /\ \A j \in jobs : ~Typed(j, "SyncPartition")
    /\ \A j \in jobs : Typed(j, "SyncPartition") =>
          /\ NothingBuilt /\ j[3] \in Parts
          /\ \A k \in jobs : Typed(k, "SyncPartition") => k = j
    /\ \A r \in 1 .. MaxRound : \A f \in build[r] :
          IpTask(r, f) \notin given /\ BatchDone(r, f) \notin given

\* A list that cuts in has different ips, none of which is in another list or
\* was given to the worker before.
CutInv ==
    /\ \A j \in jobs : Typed(j, "ManualCutInLine") =>
          /\ j[3] \in Seq(Ip)
          /\ \A i, k \in DOMAIN j[3] : j[3][i] = j[3][k] => i = k
          /\ \A i \in DOMAIN j[3] : j[3][i] \in cut /\ CutTask(j[3][i]) \notin given
    /\ \A j, k \in jobs : Typed(j, "ManualCutInLine") /\ Typed(k, "ManualCutInLine") /\ j # k =>
          \A i \in DOMAIN j[3], l \in DOMAIN k[3] : j[3][i] # k[3][l]
    /\ \A ip \in Ip : CutTask(ip) \in given => ip \in cut

\* The partition is there before anything that refers to it.
PartInv ==
    /\ part = Nil \/ part \in Parts
    /\ \/ part \in Parts
       \/ /\ \A t \in given : t[1] # "done"
          /\ \A r \in 1 .. MaxRound : build[r] = {}
          /\ \A j \in jobs : ~Typed(j, "SyncPartitionDone")
          /\ \A g \in Goroutine : rd[g] # "decide"
    /\ \A j \in jobs : Typed(j, "SyncPartitionDone") => j[3] = Me

\* A batchDone task that still waits to be handed over is behind the task of its
\* build function, or that one was started.
OrderInv ==
    \A c \in Caller : \A i \in DOMAIN put[c] : \A r \in 1 .. MaxRound, f \in 1 .. MaxFuncs :
        put[c][i] = BatchDone(r, f) =>
            runs[IpTask(r, f)] > 0 \/ \E k \in 1 .. i - 1 : put[c][k] = IpTask(r, f)

\* The types of the fields that no other conjunct fixes.
FieldsOK ==
    /\ round \in 0 .. MaxRound /\ loop \in {"off", "loop", "new", "end"}
    /\ all \in {"off", "ready", "end"} /\ stop \in {"no", "send", "sent"}
    /\ registered \in BOOLEAN /\ funcs \in 0 .. MaxFuncs /\ cutFuncs \in {0, 1}
    /\ build \in [1 .. MaxRound -> SUBSET (1 .. MaxFuncs)]
    /\ rd \in [Goroutine \cup Timers -> {"no", "wait", "decide", "lock", "send", "cancel", "end"}]
    /\ alive \subseteq Peer

RoundsInv ==
    /\ WorkerInv /\ FieldsOK /\ SilentInv /\ OnceInv /\ CutInv /\ PartInv
    /\ OrderInv /\ DoneAfterStarted

\* The invariant says what the rounds promise.
LEMMA RoundsInvSound == RoundsInv => RoundsSound /\ WorkerSound
<1> SUFFICES ASSUME RoundsInv PROVE TypeOK
  BY WorkerInvSound, Zenon DEF RoundsInv, RoundsSound
<1>1. part # Nil => part.names \subseteq Peer \cup {Me} /\ part.done \subseteq part.names
  BY Zenon DEF RoundsInv, PartInv, Parts
<1> QED
  BY <1>1, Zenon DEF RoundsInv, TypeOK, WorkerInv, FieldsOK, SilentInv

\* Initially nothing was given, published or started.
LEMMA RoundsInitial == Init => RoundsInv
<1> SUFFICES ASSUME Init PROVE RoundsInv
  BY Zenon
<1> USE DEF Init, WorkerInit, newScheduler, newAllocator
<1>1. WorkerInv
  BY WorkerInitial, Zenon
<1>2. FieldsOK
  <2>1. round \in 0 .. MaxRound /\ funcs \in 0 .. MaxFuncs
    BY RoundsAssumption
  <2>2. build \in [1 .. MaxRound -> SUBSET (1 .. MaxFuncs)]
    BY Zenon
  <2>3. rd \in [Goroutine \cup Timers -> {"no", "wait", "decide", "lock", "send", "cancel", "end"}]
    BY Zenon
  <2> QED
    BY <2>1, <2>2, <2>3, Zenon DEF FieldsOK
<1>3. SilentInv
  BY Zenon DEF SilentInv
<1>4. OnceInv
  BY Zenon DEF OnceInv, NothingBuilt
<1>5. CutInv
  BY Zenon DEF CutInv
<1>6. PartInv
  BY Zenon DEF PartInv
<1>7. OrderInv
  BY DEF OrderInv
<1>8. DoneAfterStarted
  <2>1. \A r \in 1 .. MaxRound, f \in 1 .. MaxFuncs : BatchDone(r, f) \in Task
    BY TasksAssumption DEF RoundTask
  <2> QED
    BY <2>1, WorkerAssumption, Zenon DEF DoneAfterStarted
<1> QED
  BY <1>1, <1>2, <1>3, <1>4, <1>5, <1>6, <1>7, <1>8, Zenon DEF RoundsInv

\* A step that leaves the worker, the partition and what is to be built alone and
\* publishes no job of its own.
Rests ==
    /\ UNCHANGED <<workerVars, part, build, cut>>
    /\ \A j \in jobs' : j \in jobs \/ ~j[2]
    /\ (all' # "end" => all # "end") /\ (loop' = "off" => loop = "off" /\ all' = all)
    /\ \A g \in Goroutine : rd'[g] = "decide" => rd[g] = "decide"

\* Such a step keeps what is said of tasks, jobs and the partition.
LEMMA RestsKeeps ==
    ASSUME RoundsInv, Rests
    PROVE  WorkerInv' /\ OnceInv' /\ CutInv' /\ PartInv' /\ OrderInv' /\ DoneAfterStarted'
<1> USE DEF RoundsInv
<1>1. WorkerInv'
  BY WorkerRests, Zenon DEF Rests
<1>2. /\ put' = put /\ holds' = holds /\ runs' = runs /\ given' = given
      /\ part' = part /\ build' = build /\ cut' = cut
  BY Zenon DEF Rests, workerVars
<1>3. OnceInv'
  <2>1. NothingBuilt' <=> NothingBuilt
    BY <1>2, Zenon DEF NothingBuilt
  <2>2. \A j \in jobs' : Typed(j, "SyncPartition") => j \in jobs
    BY Zenon DEF Typed, Rests
  <2>3. (all' # "end" => all # "end") /\ (loop' = "off" => all' = "off")
    BY Zenon DEF Rests, OnceInv
  <2> QED
    BY <1>2, <2>1, <2>2, <2>3, Zenon DEF OnceInv
<1>4. CutInv'
  BY <1>2, Zenon DEF CutInv, Typed, Rests
<1>5. PartInv'
  BY <1>2, Zenon DEF PartInv, Typed, Rests
<1>6. OrderInv'
  BY <1>2, Zenon DEF OrderInv
<1>7. DoneAfterStarted'
  BY <1>2, Zenon DEF DoneAfterStarted
<1> QED
  BY <1>1, <1>3, <1>4, <1>5, <1>6, <1>7, Zenon

\* The steps that rest: they only have to keep the types and the silence.
LEMMA Resting ==
    ASSUME RoundsInv, Rests, FieldsOK', SilentInv'
    PROVE  RoundsInv'
BY RestsKeeps, Zenon DEF RoundsInv

\* What the registrations, Start, Stop, the peers and the timers do.
LEMMA OutsideRests ==
    ASSUME RoundsInv,
           \/ StartAfterInjected \/ RegistryTaskBuild \/ RegistryCutInLineTaskBuild
           \/ Start \/ Stop
           \/ \E name \in {"SyncPartition", "SyncPartitionDone", "ManualCutInLine"} : PeerJob(name)
           \/ \E p \in Peer : AliveChange(p)
    PROVE  RoundsInv'
<1> USE DEF RoundsInv
<1>1. CASE StartAfterInjected
  <2> USE <1>1 DEF StartAfterInjected, schedVars, clusterVars
  <2>1. registered' = TRUE \/ registered' = FALSE
    OBVIOUS
  <2>2. FieldsOK'
    BY <2>1, Zenon DEF FieldsOK
  <2> QED
    BY <2>2, Resting, Zenon DEF Rests, SilentInv
<1>2. CASE RegistryTaskBuild
  <2> USE <1>2 DEF RegistryTaskBuild, schedVars, clusterVars
  <2>1. FieldsOK'
    BY RoundsAssumption DEF FieldsOK
  <2> QED
    BY <2>1, Resting, Zenon DEF Rests, SilentInv
<1>3. CASE RegistryCutInLineTaskBuild
  <2> USE <1>3 DEF RegistryCutInLineTaskBuild, schedVars, clusterVars
  <2>1. FieldsOK'
    BY Zenon DEF FieldsOK
  <2> QED
    BY <2>1, Resting, Zenon DEF Rests, SilentInv
<1>4. CASE Start
  <2> USE <1>4 DEF Start, allocVars, clusterVars
  <2>1. FieldsOK'
    BY Zenon DEF FieldsOK
  <2>2. Rests
    BY Zenon DEF Rests, OnceInv
  <2> QED
    BY <2>1, <2>2, Resting, Zenon DEF SilentInv
<1>5. CASE Stop
  <2> USE <1>5 DEF Stop, allocVars, clusterVars
  <2>1. FieldsOK'
    BY Zenon DEF FieldsOK
  <2> QED
    BY <2>1, Resting, Zenon DEF Rests, SilentInv
<1>6. ASSUME NEW name, PeerJob(name)
      PROVE  RoundsInv'
  <2> USE <1>6 DEF PeerJob, schedVars, allocVars
  <2>1. FieldsOK'
    BY Zenon DEF FieldsOK
  <2>2. \A j \in jobs' : j \in jobs \/ ~j[2]
    <3> DEFINE n == JobOf(name, FALSE, <<>>)
    <3>1. n[2] = FALSE
      BY Zenon DEF JobOf
    <3> HIDE DEF n
    <3>2. \A j \in jobs' : j \in jobs \/ j = n
      BY Zenon DEF n
    <3> QED
      BY Zenon, <3>1, <3>2
  <2> QED
    BY <2>1, <2>2, Resting, Zenon DEF Rests, SilentInv
<1>7. ASSUME NEW p \in Peer, AliveChange(p)
      PROVE  RoundsInv'
  <2> USE <1>7 DEF AliveChange, schedVars, allocVars
  <2>1. FieldsOK'
    BY Zenon DEF FieldsOK
  <2> QED
    BY <2>1, Resting, Zenon DEF Rests, SilentInv
<1> QED
  BY <1>1, <1>2, <1>3, <1>4, <1>5, <1>6, <1>7, Zenon

\* Stop is all the loop ever receives.
LEMMA LoopKeeps == RoundsInv /\ Loop => RoundsInv'
<1> SUFFICES ASSUME RoundsInv, Loop PROVE RoundsInv'
  BY Zenon
<1> USE DEF RoundsInv
<1>1. loop = "loop" /\ loop # "new"
  BY Zenon DEF Loop, SilentInv
<1>2. DOMAIN rd = Goroutine \cup Timers
  BY Zenon DEF FieldsOK
<1>3. /\ loop' = "end" /\ stop' = "sent"
      /\ UNCHANGED <<mu, rd, round, flag, jobs, workerVars, all, allocVars, alive, cut>>
  BY <1>1, <1>2, Zenon DEF Loop, SilentInv
<1>4. FieldsOK'
  BY <1>3, Zenon DEF FieldsOK, allocVars
<1> QED
  BY <1>3, <1>4, Resting, Zenon DEF Rests, SilentInv, allocVars

\* The flag has no entry, so RoundDone ignores every report.
LEMMA RoundDoneKeeps ==
    ASSUME RoundsInv, NEW p \in Goroutine \cup Timers, RoundDone(p)
    PROVE  RoundsInv'
<1> USE DEF RoundsInv
<1>1. /\ rd' = [rd EXCEPT ![p] = AfterRoundDone(p)]
      /\ UNCHANGED <<flag, mu, workerVars, round, loop, all, stop, allocVars, clusterVars, cut>>
  BY Zenon DEF RoundDone, SilentInv
<1>2. AfterRoundDone(p) \in {"end", "cancel"}
  BY Zenon DEF AfterRoundDone
<1>3. FieldsOK'
  BY <1>1, <1>2, Zenon DEF FieldsOK, allocVars, clusterVars
<1>4. \A q \in Goroutine \cup Timers : rd'[q] = rd[q] \/ rd'[q] \in {"end", "cancel"}
  BY <1>1, <1>2, Zenon DEF FieldsOK
<1>5. SilentInv'
  BY <1>1, <1>4, Zenon DEF SilentInv
<1> QED
  BY <1>1, <1>3, <1>4, <1>5, Resting, Zenon DEF Rests, allocVars, clusterVars

\* The timeout of a round only goes on to RoundDone.
LEMMA TimeOutKeeps ==
    ASSUME RoundsInv, NEW r \in 1 .. MaxRound, TimeOut(r)
    PROVE  RoundsInv'
<1> USE DEF RoundsInv
<1>1. /\ rd' = [rd EXCEPT ![Timer(r)] = "lock"]
      /\ UNCHANGED <<workerVars, schedVars, allocVars, clusterVars, cut>>
  BY Zenon DEF TimeOut
<1>2. FieldsOK'
  BY <1>1, Zenon DEF FieldsOK, schedVars, allocVars, clusterVars
<1>3. \A q \in Goroutine \cup Timers : rd'[q] = rd[q] \/ rd'[q] = "lock"
  BY <1>1, Zenon DEF FieldsOK
<1>4. SilentInv'
  BY <1>1, <1>3, Zenon DEF SilentInv, schedVars
<1> QED
  BY <1>1, <1>2, <1>3, <1>4, Resting, Zenon DEF Rests, schedVars, allocVars, clusterVars

\* A peer's batch of ips is dropped.
LEMMA CutInRefusedKeeps ==
    ASSUME RoundsInv, NEW j, cutInRefused(j)
    PROVE  RoundsInv'
<1> USE DEF RoundsInv, cutInRefused, schedVars, allocVars
<1>1. FieldsOK'
  BY Zenon DEF FieldsOK
<1> QED
  BY <1>1, Resting, Zenon DEF Rests, SilentInv

\* A job of the own node.
Own(j, name, data) == j[1] = name /\ j[2] = TRUE /\ j[3] = data

\* What is published to the own node, if anything.
LEMMA Published ==
    ASSUME NEW before, NEW name, NEW data, Publish(before, name, data)
    PROVE  \A j \in jobs' : j \in before \/ Own(j, name, data)
<1>1. \A j \in jobs' : j \in before \/ j = JobOf(name, TRUE, data)
  BY Zenon DEF Publish
<1>2. \A j : j = JobOf(name, TRUE, data) => Own(j, name, data)
  BY DEF JobOf, Own
<1> QED
  BY <1>1, <1>2, Zenon

\* startAll publishes the partition of the first round; nothing was built before.
LEMMA StartAllKeeps == RoundsInv /\ startAll => RoundsInv'
<1> SUFFICES ASSUME RoundsInv, startAll PROVE RoundsInv'
  BY Zenon
<1> USE DEF RoundsInv
<1>1. /\ all = "ready" /\ all' = "end"
      /\ UNCHANGED <<workerVars, mu, flag, loop, stop, allocVars, alive, cut>>
      /\ registered \/ UNCHANGED <<round, rd, jobs>>
      /\ registered => round' = 1 /\ StartAlloc(1)
  BY Zenon DEF startAll
<1>2. CASE ~registered
  <2>1. FieldsOK'
    BY <1>1, <1>2, Zenon DEF FieldsOK, allocVars
  <2>2. loop # "off"
    BY <1>1, Zenon DEF OnceInv
  <2> QED
    BY <1>1, <1>2, <2>1, <2>2, Resting, Zenon DEF Rests, SilentInv, allocVars
<1>3. CASE registered
  <2> DEFINE q == [names |-> alive \cup {Me}, Round |-> 1, FinBatchCount |-> 0, done |-> {}]
  <2>1. round' = 1 /\ rd' = [rd EXCEPT ![Timer(1)] = "wait"] /\ Publish(jobs, "SyncPartition", q)
    BY <1>1, <1>3, Zenon DEF StartAlloc
  <2>2. q \in Parts
    BY Zenon DEF Parts, FieldsOK
  <2> HIDE DEF q
  <2>3. \A j \in jobs' : j \in jobs \/ Own(j, "SyncPartition", q)
    BY <2>1, Published, Zenon
  <2>4. \A p \in Goroutine \cup Timers : rd'[p] = rd[p] \/ rd'[p] = "wait"
    BY <2>1, Zenon DEF FieldsOK
  <2>5. WorkerInv'
    BY <1>1, WorkerRests, Zenon
  <2>6. FieldsOK'
    <3>1. rd' \in [Goroutine \cup Timers -> {"no", "wait", "decide", "lock", "send", "cancel", "end"}]
      BY <2>1, Zenon DEF FieldsOK
    <3>2. round' \in 0 .. MaxRound
      BY <2>1, RoundsAssumption
    <3> QED
      BY <1>1, <3>1, <3>2, Zenon DEF FieldsOK, allocVars
  <2>7. SilentInv'
    BY <1>1, <2>4, Zenon DEF SilentInv
  <2>8. NothingBuilt /\ NothingBuilt' /\ (\A j \in jobs : ~Typed(j, "SyncPartition")) /\ loop # "off"
    BY <1>1, Zenon DEF OnceInv, NothingBuilt, allocVars, workerVars
  <2>9. \A j, k \in jobs' : Typed(j, "SyncPartition") /\ Typed(k, "SyncPartition") => j = k /\ j[3] = q
    <3>1. \A j \in jobs' : Typed(j, "SyncPartition") => j = JobOf("SyncPartition", TRUE, q)
      BY <2>1, <2>8, Zenon DEF Publish
    <3>2. JobOf("SyncPartition", TRUE, q)[3] = q
      BY Zenon DEF JobOf
    <3> QED
      BY <3>1, <3>2, Zenon
  <2>10. OnceInv'
    BY <1>1, <2>2, <2>8, <2>9, Zenon DEF OnceInv, NothingBuilt, allocVars, workerVars
  <2>11. CutInv'
    BY <1>1, <2>3, Zenon DEF CutInv, Typed, Own, workerVars
  <2>12. PartInv'
    BY <1>1, <2>3, <2>4, Zenon DEF PartInv, Typed, Own, workerVars, allocVars
  <2>13. OrderInv' /\ DoneAfterStarted'
    BY <1>1 DEF OrderInv, DoneAfterStarted, workerVars
  <2> QED
    BY <2>5, <2>6, <2>7, <2>10, <2>11, <2>12, <2>13, Zenon
<1> QED
  BY <1>2, <1>3, Zenon

\* A partition is built once: its job is the only one.
LEMMA SyncPartitionsKeeps ==
    ASSUME RoundsInv, NEW j, syncPartitions(j)
    PROVE  RoundsInv'
<1> USE DEF RoundsInv
<1>1. /\ j \in jobs /\ j[1] = "SyncPartition" /\ jobs' = jobs \ {j}
      /\ j[2] => part' = j[3] /\ build' = [build EXCEPT ![j[3].Round] = 1 .. funcs]
      /\ ~j[2] => UNCHANGED <<part, build>>
      /\ UNCHANGED <<workerVars, schedVars, registered, funcs, cutFuncs, rd, alive, cut>>
  BY Zenon DEF syncPartitions
<1>2. CASE ~j[2]
  <2>1. FieldsOK'
    BY <1>1, <1>2, Zenon DEF FieldsOK, schedVars
  <2> QED
    BY <1>1, <1>2, <2>1, Resting, Zenon DEF Rests, SilentInv, schedVars
<1>3. CASE j[2]
  <2>1. Typed(j, "SyncPartition")
    BY <1>1, <1>3, Zenon DEF Typed
  <2>2. NothingBuilt /\ j[3] \in Parts /\ \A k \in jobs' : ~Typed(k, "SyncPartition")
    BY <1>1, <2>1, Zenon DEF OnceInv
  <2>3. part' \in Parts /\ build' = [build EXCEPT ![1] = 1 .. funcs] /\ 1 \in 1 .. MaxRound
    BY <1>1, <1>3, <2>2, RoundsAssumption DEF Parts
  <2>4. WorkerInv'
    BY <1>1, WorkerRests, Zenon
  <2>5. FieldsOK'
    BY <1>1, <2>3, RoundsAssumption DEF FieldsOK, schedVars
  <2>6. SilentInv'
    BY <1>1, Zenon DEF SilentInv, schedVars
  <2>7. \A t \in given : t[1] = "cut"
    BY <2>2, Zenon DEF NothingBuilt
  <2>8. \A r, f : IpTask(r, f) \notin given /\ BatchDone(r, f) \notin given
    BY <2>7, Zenon DEF IpTask, BatchDone
  <2>9. all = "end"
    BY <1>1, <2>1, Zenon DEF OnceInv
  <2>10. OnceInv'
    BY <1>1, <2>2, <2>8, <2>9, Zenon DEF OnceInv, schedVars, workerVars
  <2>11. CutInv'
    BY <1>1 DEF CutInv, workerVars
  <2>12. PartInv'
    BY <1>1, <2>3, Zenon DEF PartInv
  <2>13. OrderInv' /\ DoneAfterStarted'
    BY <1>1 DEF OrderInv, DoneAfterStarted, workerVars
  <2> QED
    BY <2>4, <2>5, <2>6, <2>10, <2>11, <2>12, <2>13, Zenon
<1> QED
  BY <1>2, <1>3, Zenon

\* A new list given to Put by a step of the rounds.
LEMMA PutIsWorkers ==
    ASSUME NEW c \in Caller, NEW list \in Seq(Task), Fresh(list), Put(c, list)
    PROVE  WorkerNext
BY Zenon DEF WorkerNext

\* The tasks of the rounds are told apart by kind, round and build function.
LEMMA TasksDiffer ==
    ASSUME NEW r, NEW f, NEW q, NEW h, NEW ip
    PROVE  /\ IpTask(r, f) # BatchDone(q, h) /\ IpTask(r, f) # CutTask(ip) /\ BatchDone(r, f) # CutTask(ip)
           /\ IpTask(r, f) = IpTask(q, h) => r = q /\ f = h
           /\ BatchDone(r, f) = BatchDone(q, h) => r = q /\ f = h
           /\ IpTask(r, f)[1] = "job" /\ BatchDone(r, f)[1] = "done" /\ CutTask(ip)[1] = "cut"
<1>1. IpTask(r, f)[1] = "job" /\ BatchDone(r, f)[1] = "done" /\ CutTask(ip)[1] = "cut"
  BY Zenon DEF IpTask, BatchDone, CutTask
<1>2. BatchDone(q, h)[1] = "done"
  BY Zenon DEF BatchDone
<1>3. IpTask(r, f) = IpTask(q, h) => r = q /\ f = h
  BY Zenon DEF IpTask
<1>4. BatchDone(r, f) = BatchDone(q, h) => r = q /\ f = h
  BY Zenon DEF BatchDone
<1> QED
  BY <1>1, <1>2, <1>3, <1>4, Zenon

\* A batch of a build function: its task, then batchDone.
LEMMA RoundRunKeeps ==
    ASSUME RoundsInv, NEW r \in 1 .. MaxRound, NEW ok \in BOOLEAN, roundRun(r, ok)
    PROVE  RoundsInv' /\ [WorkerNext]_workerVars
<1> USE DEF RoundsInv
<1> DEFINE f == CHOOSE x \in build[r] : \A y \in build[r] : x <= y
           list == <<IpTask(r, f), BatchDone(r, f)>>
<1>1. /\ build[r] # {} /\ put[Runner(r)] = <<>> /\ build' = [build EXCEPT ![r] = @ \ {f}]
      /\ ok => Put(Runner(r), list)
      /\ ~ok => UNCHANGED workerVars
      /\ UNCHANGED <<schedVars, registered, funcs, cutFuncs, part, rd, clusterVars, cut>>
  BY Zenon DEF roundRun
<1>2. build[r] \subseteq 1 .. MaxFuncs
  BY Zenon DEF FieldsOK
<1>3. f \in build[r]
  <2>1. \E x \in build[r] : \A y \in build[r] : x <= y
    BY <1>1, <1>2, Least
  <2> QED
    BY <2>1, Zenon
<1>4. f \in 1 .. MaxFuncs
  BY <1>2, <1>3, Zenon
<1> HIDE DEF f
<1>5. /\ \A q \in 1 .. MaxRound : q # r => build'[q] = build[q]
      /\ build'[r] = build[r] \ {f}
  BY <1>1, Zenon DEF FieldsOK
<1>6. FieldsOK'
  <2>1. build' \in [1 .. MaxRound -> SUBSET (1 .. MaxFuncs)]
    BY <1>1, Zenon DEF FieldsOK
  <2> QED
    BY <1>1, <2>1, Zenon DEF FieldsOK, schedVars, clusterVars
<1>7. SilentInv'
  BY <1>1, Zenon DEF SilentInv, schedVars
<1>8. all = "end" /\ (\A j \in jobs : ~Typed(j, "SyncPartition")) /\ part \in Parts
  BY <1>1, Zenon DEF OnceInv, NothingBuilt, PartInv
<1>9. IpTask(r, f) \in RoundTask /\ BatchDone(r, f) \in RoundTask /\ Runner(r) \in Caller
  BY <1>4, TasksAssumption DEF RoundTask, Pushers
<1>10. IpTask(r, f) \in Task /\ BatchDone(r, f) \in Task
  BY <1>9, TasksAssumption, Zenon
<1>11. IpTask(r, f) \notin given /\ BatchDone(r, f) \notin given
  BY <1>3, Zenon DEF OnceInv
<1>12. CASE ~ok
  <2>1. WorkerInv'
    BY <1>1, <1>12, WorkerRests, Zenon
  <2>2. OnceInv'
    BY <1>1, <1>5, <1>8, <1>12, Zenon DEF OnceInv, schedVars, clusterVars, workerVars
  <2>3. CutInv'
    BY <1>1, <1>12, Zenon DEF CutInv, clusterVars, workerVars
  <2>4. PartInv'
    BY <1>1, <1>8, <1>12, Zenon DEF PartInv, clusterVars, workerVars
  <2>5. OrderInv' /\ DoneAfterStarted'
    BY <1>1, <1>12 DEF OrderInv, DoneAfterStarted, workerVars
  <2> QED
    BY <1>1, <1>6, <1>7, <1>12, <2>1, <2>2, <2>3, <2>4, <2>5, Zenon
<1>13. CASE ok
  <2>1. /\ put' = [put EXCEPT ![Runner(r)] = list]
        /\ given' = given \cup {list[i] : i \in DOMAIN list}
        /\ UNCHANGED <<at, holds, RetryTimes, tokens, runs>>
    BY <1>1, <1>13, Zenon DEF Put
  <2>2. list \in Seq(Task) /\ DOMAIN list = {1, 2} /\ list[1] = IpTask(r, f) /\ list[2] = BatchDone(r, f)
    BY <1>10
  <2>3. Fresh(list)
    BY <1>11, <2>2, TasksDiffer DEF Fresh
  <2>4. WorkerInv' /\ WorkerNext
    BY <1>1, <1>9, <1>13, <2>2, <2>3, PutKeeps, PutIsWorkers, Zenon
  <2>5. given' = given \cup {IpTask(r, f), BatchDone(r, f)}
    BY <2>1, <2>2, Zenon
  <2> HIDE DEF list
  <2>6. OnceInv'
    <3>1. \A q \in 1 .. MaxRound : \A h \in build'[q] :
             IpTask(q, h) \notin given' /\ BatchDone(q, h) \notin given'
      BY <1>5, <2>5, TasksDiffer DEF OnceInv
    <3>2. given' \subseteq RoundTask
      BY <1>9, <2>5, Zenon DEF OnceInv
    <3> QED
      BY <1>1, <1>8, <3>1, <3>2, Zenon DEF OnceInv, schedVars, clusterVars
  <2>7. CutInv'
    <3>1. \A ip : CutTask(ip) \in given' <=> CutTask(ip) \in given
      BY <2>5, TasksDiffer
    <3> QED
      BY <1>1, <3>1, Zenon DEF CutInv, clusterVars
  <2>8. PartInv'
    BY <1>1, <1>8, Zenon DEF PartInv, clusterVars
  <2>9. OrderInv'
    <3> SUFFICES ASSUME NEW c \in Caller, NEW i \in DOMAIN put'[c],
                        NEW q \in 1 .. MaxRound, NEW h \in 1 .. MaxFuncs, put'[c][i] = BatchDone(q, h)
                 PROVE  runs[IpTask(q, h)] > 0 \/ \E k \in 1 .. i - 1 : put'[c][k] = IpTask(q, h)
      BY <2>1 DEF OrderInv
    <3>1. CASE c = Runner(r)
      <4>1. put'[c] = list
        BY <1>9, <2>1, <3>1, Zenon DEF WorkerInv, WorkerTypeOK
      <4>2. i = 2 /\ q = r /\ h = f
        BY <2>2, <4>1, TasksDiffer
      <4>3. 1 \in 1 .. i - 1 /\ put'[c][1] = IpTask(q, h)
        BY <2>2, <4>1, <4>2
      <4> QED
        BY <4>3, Zenon
    <3>2. CASE c # Runner(r)
      <4>1. put'[c] = put[c]
        BY <2>1, <3>2, Zenon DEF WorkerInv, WorkerTypeOK
      <4> QED
        BY <4>1 DEF OrderInv
    <3> QED
      BY <3>1, <3>2, Zenon
  <2>10. DoneAfterStarted'
    BY <2>1, Zenon DEF DoneAfterStarted
  <2> QED
    BY <1>6, <1>7, <2>4, <2>6, <2>7, <2>8, <2>9, <2>10, Zenon
<1> QED
  BY <1>12, <1>13, Zenon

\* A task that returns, whichever it is.
LEMMA FinishOrder ==
    ASSUME RoundsInv, NEW g \in Goroutine, Finish(g)
    PROVE  WorkerInv' /\ OrderInv' /\ DoneAfterStarted' /\ WorkerNext /\ given' = given
<1> USE DEF RoundsInv
<1>1. WorkerInv' /\ WorkerNext
  BY FinishKeeps, Zenon DEF WorkerNext, WorkerStep
<1>2. Moves(g, "select", Nil) /\ put' = put /\ runs' = runs /\ given' = given
  BY Zenon DEF Finish
<1>3. OrderInv'
  BY <1>2, Zenon DEF OrderInv
<1>4. \A h \in Goroutine : holds'[h] = holds[h] \/ holds'[h] = Nil
  BY <1>2, MovesEffect, Zenon DEF WorkerInv
<1>5. \A r \in 1 .. MaxRound, f \in 1 .. MaxFuncs : BatchDone(r, f) # Nil
  BY TasksAssumption, WorkerAssumption DEF RoundTask
<1>6. DoneAfterStarted'
  BY <1>2, <1>4, <1>5, Zenon DEF DoneAfterStarted
<1> QED
  BY <1>1, <1>2, <1>3, <1>6, Zenon

\* What depends on the worker's tasks only through those that were given.
LEMMA GivenRests ==
    ASSUME RoundsInv, UNCHANGED <<given, schedVars, allocVars, rd, clusterVars, cut>>
    PROVE  FieldsOK' /\ SilentInv' /\ OnceInv' /\ CutInv' /\ PartInv'
<1> USE DEF RoundsInv, schedVars, allocVars, clusterVars
<1>1. FieldsOK'
  BY Zenon DEF FieldsOK
<1>2. SilentInv'
  BY Zenon DEF SilentInv
<1>3. OnceInv'
  BY Zenon DEF OnceInv, NothingBuilt
<1>4. CutInv'
  BY Zenon DEF CutInv
<1>5. PartInv'
  BY Zenon DEF PartInv
<1> QED
  BY <1>1, <1>2, <1>3, <1>4, <1>5, Zenon

\* A task other than batchDone returns.
LEMMA TaskReturnsKeeps ==
    ASSUME RoundsInv, NEW g \in Goroutine, TaskReturns(g)
    PROVE  RoundsInv' /\ WorkerNext
BY FinishOrder, GivenRests, Zenon DEF TaskReturns, RoundsInv

\* A finished batch is counted in the partition it belongs to.
LEMMA PartitionDoneKeeps ==
    ASSUME RoundsInv, NEW g \in Goroutine, partitionDone(g)
    PROVE  RoundsInv' /\ [WorkerNext]_workerVars
<1> USE DEF RoundsInv
<1>1. at[g] = "exec" /\ holds[g][1] = "done"
  BY Zenon DEF partitionDone
<1>2. holds[g] \in Task /\ holds[g] \in given
  BY <1>1 DEF WorkerInv, WorkerTypeOK, HoldInv, RunInv, Held
<1>3. part \in Parts
  BY <1>1, <1>2, Zenon DEF PartInv
<1>4. /\ part.FinBatchCount \in Nat /\ part.done \subseteq part.names /\ Me \in part.names
      /\ part.names \subseteq Peer \cup {Me} /\ part.Round = 1
      /\ part = [names |-> part.names, Round |-> part.Round, FinBatchCount |-> part.FinBatchCount,
                 done |-> part.done]
  BY <1>3, Zenon DEF Parts
<1>5. ~(part.FinBatchCount + 1 < BatchCount)
  BY <1>4 DEF BatchCount
<1>6. part' = [part EXCEPT !.FinBatchCount = @ + 1, !.done = @ \cup {Me}]
  BY <1>5, Zenon DEF partitionDone
<1>7. part' = [names |-> part.names, Round |-> part.Round, FinBatchCount |-> part.FinBatchCount + 1,
               done |-> part.done \cup {Me}]
  BY <1>4, <1>6, Zenon
<1>8. part' \in Parts /\ Me \in part'.done
  BY <1>4, <1>7 DEF Parts
<1>9. /\ rd' = [rd EXCEPT ![g] = "decide"]
      /\ UNCHANGED <<workerVars, schedVars, registered, funcs, cutFuncs, build, clusterVars, cut>>
  BY <1>8, Zenon DEF partitionDone
<1>10. FieldsOK'
  BY <1>9, Zenon DEF FieldsOK, schedVars, clusterVars
<1>11. SilentInv'
  BY <1>9, Zenon DEF SilentInv, FieldsOK, schedVars
<1>12. WorkerInv'
  BY <1>9, WorkerRests, Zenon
<1>13. OnceInv'
  BY <1>9, Zenon DEF OnceInv, NothingBuilt, schedVars, clusterVars, workerVars
<1>14. CutInv'
  BY <1>9, Zenon DEF CutInv, clusterVars, workerVars
<1>15. PartInv'
  BY <1>8, <1>9, Zenon DEF PartInv, clusterVars
<1>16. OrderInv' /\ DoneAfterStarted'
  BY <1>9 DEF OrderInv, DoneAfterStarted, workerVars
<1> QED
  BY <1>9, <1>10, <1>11, <1>12, <1>13, <1>14, <1>15, <1>16, Zenon

\* The own partition is done: the round is, or the other nodes are told.
LEMMA DecideKeeps ==
    ASSUME RoundsInv, NEW g \in Goroutine, decide(g)
    PROVE  RoundsInv' /\ [WorkerNext]_workerVars
<1> USE DEF RoundsInv
<1>1. /\ rd[g] = "decide" /\ UNCHANGED <<schedVars, allocVars, alive, cut>>
      /\ \/ rd' = [rd EXCEPT ![g] = "lock"] /\ UNCHANGED <<workerVars, jobs>>
         \/ /\ rd' = [rd EXCEPT ![g] = "no"] /\ Finish(g)
            /\ Publish(jobs, "SyncPartitionDone", Me)
  BY Zenon DEF decide
<1>2. part \in Parts
  BY <1>1, Zenon DEF PartInv
<1>3. FieldsOK'
  BY <1>1, Zenon DEF FieldsOK, schedVars, allocVars
<1>4. SilentInv'
  BY <1>1, Zenon DEF SilentInv, FieldsOK, schedVars
<1>5. CASE rd' = [rd EXCEPT ![g] = "lock"] /\ UNCHANGED <<workerVars, jobs>>
  <2>1. WorkerInv'
    BY <1>5, WorkerRests, Zenon
  <2>2. OnceInv'
    BY <1>1, <1>5, Zenon DEF OnceInv, NothingBuilt, schedVars, allocVars, workerVars
  <2>3. CutInv'
    BY <1>1, <1>5, Zenon DEF CutInv, workerVars
  <2>4. PartInv'
    BY <1>1, <1>2, <1>5, Zenon DEF PartInv, allocVars
  <2>5. OrderInv' /\ DoneAfterStarted'
    BY <1>5 DEF OrderInv, DoneAfterStarted, workerVars
  <2> QED
    BY <1>3, <1>4, <1>5, <2>1, <2>2, <2>3, <2>4, <2>5, Zenon
<1>6. CASE Finish(g) /\ Publish(jobs, "SyncPartitionDone", Me)
  <2>1. WorkerInv' /\ OrderInv' /\ DoneAfterStarted' /\ WorkerNext /\ given' = given
    BY <1>6, FinishOrder, Zenon
  <2>2. \A j \in jobs' : j \in jobs \/ Own(j, "SyncPartitionDone", Me)
    BY <1>6, Published, Zenon
  <2>3. OnceInv'
    <3>1. \A j \in jobs' : Typed(j, "SyncPartition") => j \in jobs
      BY <2>2, Zenon DEF Typed, Own
    <3>2. NothingBuilt' <=> NothingBuilt
      BY <1>1, <2>1, Zenon DEF NothingBuilt, allocVars
    <3> QED
      BY <1>1, <2>1, <3>1, <3>2, Zenon DEF OnceInv, schedVars, allocVars
  <2>4. CutInv'
    <3>1. \A j \in jobs' : Typed(j, "ManualCutInLine") => j \in jobs
      BY <2>2, Zenon DEF Typed, Own
    <3> QED
      BY <1>1, <2>1, <3>1, Zenon DEF CutInv
  <2>5. PartInv'
    <3>1. \A j \in jobs' : Typed(j, "SyncPartitionDone") => j[3] = Me
      BY <2>2, Zenon DEF PartInv, Own
    <3> QED
      BY <1>1, <1>2, <3>1, Zenon DEF PartInv, allocVars
  <2> QED
    BY <1>3, <1>4, <2>1, <2>3, <2>4, <2>5, Zenon
<1> QED
  BY <1>1, <1>5, <1>6, Zenon

\* The own partition is reported done once more.
LEMMA SyncPartitionDoneKeeps ==
    ASSUME RoundsInv, NEW j, syncPartitionDone(j)
    PROVE  RoundsInv'
<1> USE DEF RoundsInv
<1>1. /\ j \in jobs /\ j[1] = "SyncPartitionDone" /\ jobs' = jobs \ {j}
      /\ part' = IF j[2] THEN [part EXCEPT !.done = @ \cup {j[3]}] ELSE part
      /\ UNCHANGED <<workerVars, schedVars, registered, funcs, cutFuncs, build, rd, alive, cut>>
  BY Zenon DEF syncPartitionDone
<1>2. part' = part \/ (part \in Parts /\ part' \in Parts)
  <2> SUFFICES ASSUME j[2] PROVE part \in Parts /\ part' \in Parts
    BY <1>1, Zenon
  <2>1. part \in Parts /\ j[3] = Me
    BY <1>1, Zenon DEF PartInv, Typed
  <2>2. /\ part.FinBatchCount \in Nat /\ part.done \subseteq part.names /\ Me \in part.names
        /\ part.names \subseteq Peer \cup {Me} /\ part.Round = 1
        /\ part = [names |-> part.names, Round |-> part.Round, FinBatchCount |-> part.FinBatchCount,
                   done |-> part.done]
    BY <2>1, Zenon DEF Parts
  <2>3. part' = [part EXCEPT !.done = @ \cup {Me}]
    BY <1>1, <2>1, Zenon
  <2>4. part' = [names |-> part.names, Round |-> part.Round, FinBatchCount |-> part.FinBatchCount,
                 done |-> part.done \cup {Me}]
    BY <2>2, <2>3, Zenon
  <2>5. part' \in Parts
    BY <2>2, <2>4, Zenon DEF Parts
  <2> QED
    BY <2>1, <2>5, Zenon
<1>3. FieldsOK'
  BY <1>1, Zenon DEF FieldsOK, schedVars
<1>4. SilentInv'
  BY <1>1, Zenon DEF SilentInv, schedVars
<1>5. WorkerInv'
  BY <1>1, WorkerRests, Zenon
<1>6. OnceInv'
  BY <1>1, Zenon DEF OnceInv, NothingBuilt, schedVars, workerVars
<1>7. CutInv'
  BY <1>1 DEF CutInv, workerVars
<1>8. PartInv'
  BY <1>1, <1>2, Zenon DEF PartInv, workerVars
<1>9. OrderInv' /\ DoneAfterStarted'
  BY <1>1 DEF OrderInv, DoneAfterStarted, workerVars
<1> QED
  BY <1>3, <1>4, <1>5, <1>6, <1>7, <1>8, <1>9, Zenon

\* A list that cuts in has ips that never cut in before.
LEMMA CutInKeeps ==
    ASSUME RoundsInv, NEW list \in CutLists, CutIn(list)
    PROVE  RoundsInv'
<1> USE DEF RoundsInv
<1>1. /\ \A i \in DOMAIN list : list[i] \notin cut
      /\ Publish(jobs, "ManualCutInLine", list)
      /\ cut' = cut \cup {list[i] : i \in DOMAIN list}
      /\ UNCHANGED <<workerVars, schedVars, allocVars, rd, alive>>
  BY Zenon DEF CutIn
<1>2. list \in Seq(Ip) /\ \A i, k \in DOMAIN list : list[i] = list[k] => i = k
  BY RoundsAssumption, Zenon
<1>3. \A j \in jobs' : j \in jobs \/ Own(j, "ManualCutInLine", list)
  BY <1>1, Published, Zenon
<1>4. FieldsOK'
  BY <1>1, Zenon DEF FieldsOK, schedVars, allocVars
<1>5. SilentInv'
  BY <1>1, Zenon DEF SilentInv, schedVars
<1>6. WorkerInv'
  BY <1>1, WorkerRests, Zenon
<1>7. OnceInv'
  <2>1. \A j \in jobs' : Typed(j, "SyncPartition") => j \in jobs
    BY <1>3, Zenon DEF Typed, Own
  <2>2. NothingBuilt' <=> NothingBuilt
    BY <1>1, Zenon DEF NothingBuilt, allocVars, workerVars
  <2> QED
    BY <1>1, <2>1, <2>2, Zenon DEF OnceInv, schedVars, allocVars, workerVars
<1>8. CutInv'
  <2>1. given' = given
    BY <1>1, Zenon DEF workerVars
  <2>2. \A i \in DOMAIN list : list[i] \in Ip /\ list[i] \in cut' /\ CutTask(list[i]) \notin given'
    BY <1>1, <1>2, <2>1 DEF CutInv
  <2>3. \A j \in jobs : Typed(j, "ManualCutInLine") =>
           \A i \in DOMAIN j[3] : j[3][i] \in cut /\ \A l \in DOMAIN list : j[3][i] # list[l]
    BY <1>1, Zenon DEF CutInv
  <2>4. \A j \in jobs' : Typed(j, "ManualCutInLine") =>
           /\ j[3] \in Seq(Ip)
           /\ \A i, k \in DOMAIN j[3] : j[3][i] = j[3][k] => i = k
           /\ \A i \in DOMAIN j[3] : j[3][i] \in cut' /\ CutTask(j[3][i]) \notin given'
    BY <1>1, <1>2, <1>3, <2>1, <2>2, Zenon DEF CutInv, Own
  <2>5. \A j, k \in jobs' : Typed(j, "ManualCutInLine") /\ Typed(k, "ManualCutInLine") /\ j # k =>
           \A i \in DOMAIN j[3], l \in DOMAIN k[3] : j[3][i] # k[3][l]
    <3> SUFFICES ASSUME NEW j \in jobs', NEW k \in jobs', j # k,
                        Typed(j, "ManualCutInLine"), Typed(k, "ManualCutInLine"),
                        NEW i \in DOMAIN j[3], NEW l \in DOMAIN k[3]
                 PROVE  j[3][i] # k[3][l]
      BY Zenon
    <3>1. CASE j \in jobs /\ k \in jobs
      BY <3>1, Zenon DEF CutInv
    <3>2. CASE j \in jobs /\ k \notin jobs
      BY <1>3, <2>3, <3>2, Zenon DEF Own
    <3>3. CASE j \notin jobs /\ k \in jobs
      BY <1>3, <2>3, <3>3 DEF Own
    <3>4. CASE j \notin jobs /\ k \notin jobs
      <4>1. j = JobOf("ManualCutInLine", TRUE, list) /\ k = JobOf("ManualCutInLine", TRUE, list)
        BY <1>1, <3>4, Zenon DEF Publish
      <4> QED
        BY <4>1, Zenon
    <3> QED
      BY <3>1, <3>2, <3>3, <3>4, Zenon
  <2>6. \A ip \in Ip : CutTask(ip) \in given' => ip \in cut'
    BY <1>1, <2>1, Zenon DEF CutInv
  <2> QED
    BY <2>4, <2>5, <2>6, Zenon DEF CutInv
<1>9. PartInv'
  <2>1. \A j \in jobs' : Typed(j, "SyncPartitionDone") => j \in jobs
    BY <1>3, Zenon DEF Typed, Own
  <2> QED
    BY <1>1, <2>1, Zenon DEF PartInv, allocVars, workerVars
<1>10. OrderInv' /\ DoneAfterStarted'
  BY <1>1 DEF OrderInv, DoneAfterStarted, workerVars
<1> QED
  BY <1>4, <1>5, <1>6, <1>7, <1>8, <1>9, <1>10, Zenon

\* The batch of a long list that stays at this node is a beginning of the list.
LEMMA FirstBatch ==
    ASSUME NEW list \in Seq(Ip), Len(list) > Threshold
    PROVE  \E m \in 0 .. Len(list) : batchData(list)[1] = SubSeq(list, 1, m)
<1> DEFINE n == (Len(list) + Threshold - 1) \div Threshold
<1>1. Threshold \in Nat /\ Threshold > 0 /\ Len(list) \in Nat
  BY RoundsAssumption
<1>2. n \in Int /\ n >= 1
  BY <1>1
<1>3. 1 \in 1 .. n /\ (1 - 1) * Threshold + 1 = 1 /\ 1 * Threshold = Threshold
  BY <1>1, <1>2
<1>4. batchData(list)[1] = SubSeq(list, 1, IF 1 = n THEN Len(list) - 1 ELSE Threshold)
  BY <1>3, Zenon DEF batchData
<1>5. (IF 1 = n THEN Len(list) - 1 ELSE Threshold) \in 0 .. Len(list)
  BY <1>1
<1> QED
  BY <1>4, <1>5, Zenon

\* A short list that cuts in becomes new tasks of the worker.
LEMMA CutPutKeeps ==
    ASSUME RoundsInv, NEW j \in jobs, NEW c \in Caller, Typed(j, "ManualCutInLine"),
           jobs' = jobs \ {j}, Put(c, [i \in DOMAIN j[3] |-> CutTask(j[3][i])]),
           UNCHANGED <<schedVars, allocVars, rd, alive, cut>>
    PROVE  RoundsInv' /\ WorkerNext
<1> USE DEF RoundsInv
<1> DEFINE list == [i \in DOMAIN j[3] |-> CutTask(j[3][i])]
<1>1. /\ j[3] \in Seq(Ip)
      /\ \A i, k \in DOMAIN j[3] : j[3][i] = j[3][k] => i = k
      /\ \A i \in DOMAIN j[3] : j[3][i] \in cut /\ CutTask(j[3][i]) \notin given
  BY Zenon DEF CutInv
<1>2. \A ip \in Ip : CutTask(ip) \in RoundTask /\ CutTask(ip) \in Task
  BY TasksAssumption DEF RoundTask
<1>3. \A i \in DOMAIN j[3] : j[3][i] \in Ip
  BY <1>1
<1>4. \A a, b : CutTask(a) = CutTask(b) => a = b
  BY Zenon DEF CutTask
<1>5. list \in Seq(Task)
  <2>1. DOMAIN j[3] = 1 .. Len(j[3]) /\ Len(j[3]) \in Nat
    BY <1>1
  <2>2. list \in [1 .. Len(j[3]) -> Task]
    BY <1>2, <1>3, <2>1, Zenon
  <2> QED
    BY <2>1, <2>2
<1>6. DOMAIN list = DOMAIN j[3] /\ \A i \in DOMAIN j[3] : list[i] = CutTask(j[3][i])
  BY Zenon
<1>7. Put(c, list)
  BY Zenon
<1> HIDE DEF list
<1>8. Fresh(list)
  BY <1>1, <1>4, <1>6 DEF Fresh
<1>9. WorkerInv' /\ WorkerNext
  BY <1>5, <1>7, <1>8, PutKeeps, PutIsWorkers, Zenon
<1>10. /\ put' = [put EXCEPT ![c] = list] /\ UNCHANGED <<holds, runs>>
       /\ given' = given \cup {CutTask(j[3][i]) : i \in DOMAIN j[3]}
  <2>1. {list[i] : i \in DOMAIN list} = {CutTask(j[3][i]) : i \in DOMAIN j[3]}
    BY <1>6, Zenon
  <2>2. /\ put' = [put EXCEPT ![c] = list] /\ UNCHANGED <<holds, runs>>
        /\ given' = given \cup {list[i] : i \in DOMAIN list}
    BY <1>7, Zenon DEF Put
  <2> QED
    BY <2>1, <2>2, Zenon
<1>11. \A t \in given' : t \in given \/ (t \in RoundTask /\ t[1] = "cut" /\ \E i \in DOMAIN j[3] : t = CutTask(j[3][i]))
  BY <1>2, <1>3, <1>10, TasksDiffer
<1>12. FieldsOK'
  BY Zenon DEF FieldsOK, schedVars, allocVars
<1>13. SilentInv'
  BY Zenon DEF SilentInv, schedVars
<1>14. OnceInv'
  <2>1. NothingBuilt => NothingBuilt'
    BY <1>11, Zenon DEF NothingBuilt, allocVars
  <2>2. \A r \in 1 .. MaxRound : \A f \in build'[r] :
           IpTask(r, f) \notin given' /\ BatchDone(r, f) \notin given'
    BY <1>10, TasksDiffer DEF OnceInv, allocVars
  <2>3. given' \subseteq RoundTask
    BY <1>11, Zenon DEF OnceInv
  <2> QED
    BY <2>1, <2>2, <2>3, Zenon DEF OnceInv, schedVars
<1>15. CutInv'
  <2>1. \A k \in jobs' : Typed(k, "ManualCutInLine") =>
           \A l \in DOMAIN k[3] : k[3][l] \in cut' /\ CutTask(k[3][l]) \notin given'
    BY <1>4, <1>10, Zenon DEF CutInv
  <2>2. \A ip \in Ip : CutTask(ip) \in given' => ip \in cut'
    BY <1>1, <1>4, <1>10 DEF CutInv
  <2> QED
    BY <2>1, <2>2 DEF CutInv
<1>16. PartInv'
  BY <1>11, Zenon DEF PartInv, allocVars
<1>17. OrderInv'
  <2>1. \A d \in Caller : put'[d] = put[d] \/ put'[d] = list
    BY <1>10, Zenon DEF WorkerInv, WorkerTypeOK
  <2>2. \A i \in DOMAIN list : \A r, f : list[i] # BatchDone(r, f)
    BY <1>6, TasksDiffer
  <2> QED
    BY <1>10, <2>1, <2>2 DEF OrderInv
<1>18. DoneAfterStarted'
  BY <1>10, Zenon DEF DoneAfterStarted
<1> QED
  BY <1>9, <1>12, <1>13, <1>14, <1>15, <1>16, <1>17, <1>18, Zenon

\* A long list that cuts in becomes the job of its first batch.
LEMMA CutBatchKeeps ==
    ASSUME RoundsInv, NEW j \in jobs, Typed(j, "ManualCutInLine"), Len(j[3]) > Threshold,
           Publish(jobs \ {j}, "ManualCutInLine", batchData(j[3])[1]),
           UNCHANGED <<workerVars, schedVars, allocVars, rd, alive, cut>>
    PROVE  RoundsInv'
<1> USE DEF RoundsInv
<1> DEFINE list == batchData(j[3])[1]
<1>1. /\ j[3] \in Seq(Ip)
      /\ \A i, k \in DOMAIN j[3] : j[3][i] = j[3][k] => i = k
      /\ \A i \in DOMAIN j[3] : j[3][i] \in cut /\ CutTask(j[3][i]) \notin given
  BY Zenon DEF CutInv
<1>2. PICK m \in 0 .. Len(j[3]) : list = SubSeq(j[3], 1, m)
  BY <1>1, FirstBatch, Zenon
<1>3. /\ list \in Seq(Ip)
      /\ \A i \in DOMAIN list : i \in DOMAIN j[3] /\ list[i] = j[3][i]
  BY <1>1, <1>2
<1>4. Publish(jobs \ {j}, "ManualCutInLine", list)
  BY Zenon
<1> HIDE DEF list
<1>5. \A k \in jobs' : k \in jobs \ {j} \/ Own(k, "ManualCutInLine", list)
  BY <1>4, Published, Zenon
<1>6. FieldsOK'
  BY Zenon DEF FieldsOK, schedVars, allocVars
<1>7. SilentInv'
  BY Zenon DEF SilentInv, schedVars
<1>8. WorkerInv'
  BY WorkerRests, Zenon
<1>9. OnceInv'
  <2>1. \A k \in jobs' : Typed(k, "SyncPartition") => k \in jobs
    BY <1>5, Zenon DEF Typed, Own
  <2>2. NothingBuilt' <=> NothingBuilt
    BY Zenon DEF NothingBuilt, allocVars, workerVars
  <2> QED
    BY <2>1, <2>2, Zenon DEF OnceInv, schedVars, allocVars, workerVars
<1>10. CutInv'
  <2>1. given' = given /\ cut' = cut
    BY Zenon DEF workerVars
  <2>2. \A k \in jobs : Typed(k, "ManualCutInLine") /\ k # j =>
           \A i \in DOMAIN k[3] : \A l \in DOMAIN list : k[3][i] # list[l]
    BY <1>3 DEF CutInv
  <2>3. \A k \in jobs' : Typed(k, "ManualCutInLine") =>
           /\ k[3] \in Seq(Ip)
           /\ \A i, l \in DOMAIN k[3] : k[3][i] = k[3][l] => i = l
           /\ \A i \in DOMAIN k[3] : k[3][i] \in cut' /\ CutTask(k[3][i]) \notin given'
    <3> SUFFICES ASSUME NEW k \in jobs', Typed(k, "ManualCutInLine")
                 PROVE  /\ k[3] \in Seq(Ip)
                        /\ \A i, l \in DOMAIN k[3] : k[3][i] = k[3][l] => i = l
                        /\ \A i \in DOMAIN k[3] : k[3][i] \in cut' /\ CutTask(k[3][i]) \notin given'
      BY Zenon
    <3>1. CASE k \in jobs
      BY <2>1, <3>1, Zenon DEF CutInv
    <3>2. CASE k \notin jobs
      <4>1. k[3] = list
        BY <1>5, <3>2, Zenon DEF Own
      <4> QED
        BY <1>1, <1>3, <2>1, <4>1, Zenon
    <3> QED
      BY <3>1, <3>2, Zenon
  <2>4. \A k, q \in jobs' : Typed(k, "ManualCutInLine") /\ Typed(q, "ManualCutInLine") /\ k # q =>
           \A i \in DOMAIN k[3], l \in DOMAIN q[3] : k[3][i] # q[3][l]
    <3> SUFFICES ASSUME NEW k \in jobs', NEW q \in jobs', k # q,
                        Typed(k, "ManualCutInLine"), Typed(q, "ManualCutInLine"),
                        NEW i \in DOMAIN k[3], NEW l \in DOMAIN q[3]
                 PROVE  k[3][i] # q[3][l]
      BY Zenon
    <3>1. CASE k \in jobs \ {j} /\ q \in jobs \ {j}
      BY <3>1, Zenon DEF CutInv
    <3>2. CASE k \in jobs \ {j} /\ q \notin jobs \ {j}
      BY <1>5, <2>2, <3>2 DEF Own
    <3>3. CASE k \notin jobs \ {j} /\ q \in jobs \ {j}
      BY <1>5, <2>2, <3>3 DEF Own
    <3>4. CASE k \notin jobs \ {j} /\ q \notin jobs \ {j}
      <4>1. k = JobOf("ManualCutInLine", TRUE, list) /\ q = JobOf("ManualCutInLine", TRUE, list)
        BY <1>4, <3>4, Zenon DEF Publish
      <4> QED
        BY <4>1, Zenon
    <3> QED
      BY <3>1, <3>2, <3>3, <3>4, Zenon
  <2>5. \A ip \in Ip : CutTask(ip) \in given' => ip \in cut'
    BY <2>1, Zenon DEF CutInv
  <2> QED
    BY <2>3, <2>4, <2>5, Zenon DEF CutInv
<1>11. PartInv'
  <2>1. \A k \in jobs' : Typed(k, "SyncPartitionDone") => k \in jobs
    BY <1>5, Zenon DEF Typed, Own
  <2> QED
    BY <2>1, Zenon DEF PartInv, allocVars, workerVars
<1>12. OrderInv' /\ DoneAfterStarted'
  BY DEF OrderInv, DoneAfterStarted, workerVars
<1> QED
  BY <1>6, <1>7, <1>8, <1>9, <1>10, <1>11, <1>12, Zenon

\* A list that cuts in is put or cut into batches.
LEMMA CutInLineKeeps ==
    ASSUME RoundsInv, NEW j, NEW c \in Cutters, cutInLine(j, c)
    PROVE  RoundsInv' /\ [WorkerNext]_workerVars
<1>1. c \in Caller
  BY TasksAssumption, Zenon DEF Pushers
<1>2. j \in jobs /\ Typed(j, "ManualCutInLine") /\ UNCHANGED <<schedVars, allocVars, rd, alive, cut>>
  BY Zenon DEF cutInLine, Typed
<1>3. CASE Len(j[3]) <= Threshold
  <2>1. jobs' = jobs \ {j} /\ Put(c, [i \in DOMAIN j[3] |-> CutTask(j[3][i])])
    BY <1>3, Zenon DEF cutInLine
  <2> QED
    BY <1>1, <1>2, <2>1, CutPutKeeps, Zenon
<1>4. CASE ~(Len(j[3]) <= Threshold)
  <2>1. Publish(jobs \ {j}, "ManualCutInLine", batchData(j[3])[1]) /\ UNCHANGED workerVars
    BY <1>4, Zenon DEF cutInLine
  <2>2. j[3] \in Seq(Ip)
    BY <1>2, Zenon DEF RoundsInv, CutInv
  <2>3. Len(j[3]) > Threshold
    BY <1>4, <2>2, RoundsAssumption
  <2> QED
    BY <1>2, <2>1, <2>3, CutBatchKeeps, Zenon
<1> QED
  BY <1>3, <1>4, Zenon

\* A task that is handed over was started, so what waits behind it may follow.
LEMMA HandOrder ==
    ASSUME RoundsInv, NEW c \in Caller, NEW g \in Goroutine, Hand(c, g)
    PROVE  OrderInv' /\ DoneAfterStarted'
<1> USE DEF RoundsInv
<1> DEFINE t == Head(put[c])
<1>1. /\ put \in [Caller -> Seq(Task)] /\ put[c] # <<>> /\ put[c] \in Seq(Task)
      /\ runs \in [Task -> Nat] /\ holds \in [Goroutine -> Task \cup {Nil}]
  BY Zenon DEF Hand, WorkerInv, WorkerTypeOK
<1>2. /\ put' = [put EXCEPT ![c] = Tail(put[c])] /\ holds' = [holds EXCEPT ![g] = t]
      /\ runs' = [runs EXCEPT ![t] = @ + 1]
  BY Zenon DEF Hand, Moves
<1>3. t \in Task /\ put[c][1] = t /\ 1 \in DOMAIN put[c]
  BY <1>1
<1>4. runs'[t] > 0 /\ \A u \in Task : runs[u] > 0 => runs'[u] > 0
  BY <1>1, <1>2, <1>3
<1> HIDE DEF t
<1>5. \A r \in 1 .. MaxRound, f \in 1 .. MaxFuncs : IpTask(r, f) \in Task
  BY TasksAssumption DEF RoundTask
<1>6. DoneAfterStarted'
  <2> SUFFICES ASSUME NEW h \in Goroutine, NEW r \in 1 .. MaxRound, NEW f \in 1 .. MaxFuncs,
                      holds'[h] = BatchDone(r, f)
               PROVE  runs'[IpTask(r, f)] > 0
    BY Zenon DEF DoneAfterStarted
  <2>1. CASE h = g
    <3>1. put[c][1] = BatchDone(r, f)
      BY <1>1, <1>2, <1>3, <2>1, Zenon
    <3>2. runs[IpTask(r, f)] > 0
      BY <1>3, <3>1 DEF OrderInv
    <3> QED
      BY <1>4, <1>5, <3>2, Zenon
  <2>2. CASE h # g
    BY <1>1, <1>2, <1>4, <1>5, <2>2, Zenon DEF DoneAfterStarted
  <2> QED
    BY <2>1, <2>2, Zenon
<1>7. OrderInv'
  <2> SUFFICES ASSUME NEW d \in Caller, NEW i \in DOMAIN put'[d],
                      NEW r \in 1 .. MaxRound, NEW f \in 1 .. MaxFuncs, put'[d][i] = BatchDone(r, f)
               PROVE  runs'[IpTask(r, f)] > 0 \/ \E k \in 1 .. i - 1 : put'[d][k] = IpTask(r, f)
    BY Zenon DEF OrderInv
  <2>1. CASE d # c
    <3>1. put'[d] = put[d]
      BY <1>1, <1>2, <2>1, Zenon
    <3>2. runs[IpTask(r, f)] > 0 \/ \E k \in 1 .. i - 1 : put[d][k] = IpTask(r, f)
      BY <3>1 DEF OrderInv
    <3> QED
      BY <1>4, <1>5, <3>1, <3>2, Zenon
  <2>2. CASE d = c
    <3>1. put'[d] = Tail(put[c])
      BY <1>1, <1>2, <2>2, Zenon
    <3>2. i \in 1 .. Len(put[c]) - 1 /\ put[c][i + 1] = BatchDone(r, f)
      BY <1>1, <3>1
    <3>3. i + 1 \in DOMAIN put[c]
      BY <1>1, <3>2
    <3>4. runs[IpTask(r, f)] > 0 \/ \E k \in 1 .. (i + 1) - 1 : put[c][k] = IpTask(r, f)
      BY <3>2, <3>3, Zenon DEF OrderInv
    <3>5. CASE runs[IpTask(r, f)] > 0
      BY <1>4, <1>5, <3>5, Zenon
    <3>6. ASSUME NEW k \in 1 .. (i + 1) - 1, put[c][k] = IpTask(r, f)
          PROVE  runs'[IpTask(r, f)] > 0 \/ \E l \in 1 .. i - 1 : put'[d][l] = IpTask(r, f)
      <4>1. CASE k = 1
        BY <1>3, <1>4, <3>6, <4>1, Zenon
      <4>2. CASE k # 1
        <5>1. k - 1 \in 1 .. i - 1 /\ k - 1 \in 1 .. Len(put[c]) - 1
          BY <3>2, <4>2
        <5>2. put'[d][k - 1] = put[c][(k - 1) + 1]
          BY <1>1, <3>1, <5>1
        <5>3. (k - 1) + 1 = k
          OBVIOUS
        <5> QED
          BY <3>6, <5>1, <5>2, <5>3, Zenon
      <4> QED
        BY <4>1, <4>2, Zenon
    <3> QED
      BY <3>4, <3>5, <3>6, Zenon
  <2> QED
    BY <2>1, <2>2, Zenon
<1> QED
  BY <1>6, <1>7, Zenon

\* A task that fails or is retried was started before.
LEMMA RetryOrder ==
    ASSUME RoundsInv, NEW g \in Goroutine, NEW h \in Goroutine, Fail(g) \/ Retry(g, h)
    PROVE  OrderInv' /\ DoneAfterStarted'
<1> USE DEF RoundsInv
<1>1. runs \in [Task -> Nat] /\ holds \in [Goroutine -> Task \cup {Nil}]
  BY Zenon DEF WorkerInv, WorkerTypeOK
<1>2. put' = put /\ \A k \in Goroutine : holds'[k] \in {holds[k], holds[g], Nil}
  BY <1>1, Zenon DEF Fail, Retry, Moves
<1>3. \A u \in Task : runs[u] > 0 => runs'[u] > 0
  BY <1>1 DEF Fail, Retry
<1>4. \A r \in 1 .. MaxRound, f \in 1 .. MaxFuncs :
         IpTask(r, f) \in Task /\ BatchDone(r, f) \in Task /\ BatchDone(r, f) # Nil
  BY TasksAssumption, WorkerAssumption DEF RoundTask
<1>5. OrderInv'
  BY <1>2, <1>3, <1>4, Zenon DEF OrderInv
<1>6. DoneAfterStarted'
  BY <1>2, <1>3, <1>4, Zenon DEF DoneAfterStarted
<1> QED
  BY <1>5, <1>6, Zenon

\* The worker moves on by itself.
LEMMA WorkerMovesKeeps == RoundsInv /\ WorkerMoves => RoundsInv' /\ WorkerNext
<1> SUFFICES ASSUME RoundsInv, WorkerMoves PROVE RoundsInv' /\ WorkerNext
  BY Zenon
<1>1. WorkerNext
  BY Zenon DEF WorkerMoves, WorkerNext, WorkerStep
<1>2. WorkerInv'
  BY <1>1, WorkerKeeps, Zenon DEF RoundsInv
<1>3. given' = given /\ UNCHANGED <<schedVars, allocVars, rd, clusterVars, cut>>
  BY Zenon DEF WorkerMoves, Hand, Fail, Retry
<1>4. FieldsOK' /\ SilentInv' /\ OnceInv' /\ CutInv' /\ PartInv'
  BY <1>3, GivenRests, Zenon
<1>5. OrderInv' /\ DoneAfterStarted'
  BY HandOrder, RetryOrder, Zenon DEF WorkerMoves
<1> QED
  BY <1>1, <1>2, <1>4, <1>5, Zenon DEF RoundsInv

-------------------------------------------------------------------------------
(* The result *)

\* Every step keeps the invariant, and does to the worker what the worker's own
\* specification allows.
LEMMA RoundsStep == RoundsInv /\ [Next]_vars => RoundsInv' /\ [WorkerNext]_workerVars
<1> SUFFICES ASSUME RoundsInv, [Next]_vars PROVE RoundsInv' /\ [WorkerNext]_workerVars
  BY Zenon
<1>1. CASE UNCHANGED vars
  <2>1. given' = given /\ UNCHANGED <<workerVars, schedVars, allocVars, rd, clusterVars, cut>>
    BY <1>1, Zenon DEF vars, workerVars
  <2>2. FieldsOK' /\ SilentInv' /\ OnceInv' /\ CutInv' /\ PartInv'
    BY <2>1, GivenRests, Zenon
  <2>3. WorkerInv' /\ OrderInv' /\ DoneAfterStarted'
    BY <2>1, WorkerRests DEF RoundsInv, OrderInv, DoneAfterStarted, workerVars
  <2> QED
    BY <2>1, <2>2, <2>3, Zenon DEF RoundsInv
<1>2. CASE Outside
  <2>1. CASE \E list \in CutLists : CutIn(list)
    BY <2>1, CutInKeeps, Zenon DEF CutIn
  <2>2. CASE ~\E list \in CutLists : CutIn(list)
    <3>1. RoundsInv'
      BY <1>2, <2>2, OutsideRests, Zenon DEF Outside
    <3>2. UNCHANGED workerVars
      BY <1>2, <2>2, Zenon DEF Outside, StartAfterInjected, RegistryTaskBuild, RegistryCutInLineTaskBuild,
                        Start, Stop, PeerJob, AliveChange
    <3> QED
      BY <3>1, <3>2, Zenon
  <2> QED
    BY <2>1, <2>2, Zenon
<1>3. CASE startAll \/ Loop
  BY <1>3, StartAllKeeps, LoopKeeps, Zenon DEF startAll, Loop
<1>4. CASE WorkerMoves
  BY <1>4, WorkerMovesKeeps, Zenon
<1>5. CASE \E p \in Goroutine \cup Timers : RoundDone(p)
  BY <1>5, RoundDoneKeeps, Zenon DEF RoundDone
<1>6. CASE \E r \in 1 .. MaxRound : TimeOut(r) \/ \E ok \in BOOLEAN : roundRun(r, ok)
  BY <1>6, TimeOutKeeps, RoundRunKeeps, Zenon DEF TimeOut
<1>7. CASE \E g \in Goroutine : partitionDone(g) \/ decide(g) \/ TaskReturns(g)
  BY <1>7, PartitionDoneKeeps, DecideKeeps, TaskReturnsKeeps, Zenon
<1>8. CASE \E j \in jobs : syncPartitions(j) \/ syncPartitionDone(j) \/ cutInRefused(j)
  BY <1>8, SyncPartitionsKeeps, SyncPartitionDoneKeeps, CutInRefusedKeeps, Zenon
     DEF syncPartitions, syncPartitionDone, cutInRefused
<1>9. CASE \E j \in jobs, c \in Cutters : cutInLine(j, c)
  BY <1>9, CutInLineKeeps, Zenon
<1> QED
  BY <1>1, <1>2, <1>3, <1>4, <1>5, <1>6, <1>7, <1>8, <1>9, Zenon DEF Next, Step

\* The rounds of any number of nodes, build functions and ips: a batchDone task
\* (batchDoneTask of roundRun) runs only after the task of its build function
\* was started, in whatever order goroutines, retries, peers and cut-ins go on.
THEOREM RoundsSafe == Spec => []RoundsSound
<1>1. Spec => []RoundsInv
  BY RoundsInitial, RoundsStep, PTL DEF Spec
<1> QED
  BY <1>1, RoundsInvSound, PTL

\* The rounds use the worker as it wants to be used: every Put of roundRun and
\* cutInLine brings only new task objects, so the rounds implement the worker
\* with arbitrary callers.
THEOREM RoundsImplementWorker == Spec => WorkerSpec
<1>1. Spec => []RoundsInv
  BY RoundsInitial, RoundsStep, PTL DEF Spec
<1>2. Init => WorkerInit
  BY Zenon DEF Init
<1> QED
  BY <1>1, <1>2, RoundsStep, PTL DEF Spec, WorkerSpec

\* So the worker of the rounds keeps its promises: no task object is executed by
\* two goroutines, and none more often than its RetryLimit allows.
THEOREM RoundsWorkerSafe == Spec => []WorkerSound
BY RoundsImplementWorker, WorkerSafe, PTL

===============================================================================
