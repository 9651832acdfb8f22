----------------------------- MODULE WheelProofs ------------------------------
(***************************************************************************)
(* Proofs about the timing wheel, for every length of the wheel, any       *)
(* number of tasks and any times: what a tick and an AddOnce do to the     *)
(* buckets, however their steps interleave; its buckets are sorted, a task *)
(* is started once, and it is started on time.                             *)
(***************************************************************************)
EXTENDS TimingWheel, TLAPS

(* The timing wheel: types *)

Slots == 0 .. L - 1
Nodes == [tier : Int, tasks : SUBSET Task]
NodeSeq == Seq(Nodes)
WalkRec == [at : {"walk"}, task : Task, tier : Int, index : Slots, popped : NodeSeq]

\* The tasks in the nodes of a bucket.
Holds(b) == {t \in Task : \E n \in DOMAIN b : t \in b[n].tasks}

\* The timestamp of a bucket in a tier.
At(tier, i) == tier * L + i

\* What the call in progress has read, by the place it has come to.
AddOK ==
    /\ add.at \in {"none", "remain", "tier", "index", "walk"}
    /\ add = NoAdd <=> add.at = "none"
    /\ add.at # "none" => add.task \in Task
    /\ add.at = "remain" => add.time \in Int
    /\ add.at \in {"tier", "index"} => add.remain \in Int
    /\ add.at = "index" => add.tier \in Int
    /\ add.at = "walk" => add \in WalkRec

WheelOK ==
    /\ current \in [timestamp : 0 .. MaxTime, tier : Nat, index : 0 .. L]
    /\ tick \in [at : {"sleep", "index", "tier", "zero", "run"}, i : Slots]
    /\ buckets \in [Slots -> NodeSeq]
    /\ AddOK
    /\ panic \in BOOLEAN /\ overtaken \subseteq Task
    /\ due \in [Task -> Int] /\ slot \in [Task -> Int] /\ ran \in [Task -> Seq(Int)]

\* What the timestamp, the index and the loop variable of the ticking goroutine
\* have to do with each other between any two writes of a tick.
TimeInv ==
    /\ current.index = L <=> tick.at \in {"tier", "zero"}
    /\ tick.at = "index" => current.timestamp = At(current.tier, current.index) + 1
    /\ tick.at = "zero" =>
          current.timestamp = At(current.tier, current.index) - L
    /\ tick.at \notin {"index", "zero"} => current.timestamp = At(current.tier, current.index)
    /\ tick.at \in {"sleep", "index"} => tick.i = current.index
    /\ tick.at \notin {"sleep", "index"} =>
          tick.i = IF current.index = 0 THEN L - 1 ELSE current.index - 1

Rising(s) == \A n, o \in DOMAIN s : n < o => s[n].tier < s[o].tier

\* The buckets are sorted, and so is the list that AddOnce walks: the nodes
\* popped since it read the head, then what the bucket holds.
RisingInv ==
    /\ \A i \in Slots : Rising(buckets[i])
    /\ add.at = "walk" =>
          /\ Rising(add.popped)
          /\ \A n \in DOMAIN add.popped, o \in DOMAIN buckets[add.index] :
                add.popped[n].tier < buckets[add.index][o].tier
          /\ add.popped # <<>> \/ buckets[add.index] # <<>>

\* No task is in two nodes of a list.
Spread(b) ==
    \A n, o \in DOMAIN b : \A t \in Task : t \in b[n].tasks /\ t \in b[o].tasks => n = o

\* A task waits in one place at most; one that was started, that is still on
\* its way through AddOnce or that was not added waits nowhere.
OnceInv ==
    /\ \A i \in Slots : Spread(buckets[i])
    /\ \A i, j \in Slots : \A t \in Task :
          t \in Holds(buckets[i]) /\ t \in Holds(buckets[j]) => i = j
    /\ \A t \in Task :
          /\ Len(ran[t]) <= 1
          /\ ran[t] # <<>> => \A i \in Slots : t \notin Holds(buckets[i])
          /\ due[t] = -1 => ran[t] = <<>> /\ \A i \in Slots : t \notin Holds(buckets[i])
    /\ add.at # "none" =>
          /\ due[add.task] # -1 /\ ran[add.task] = <<>>
          /\ \A i \in Slots : add.task \notin Holds(buckets[i])

\* The bucket chosen for a task, known once AddOnce has it.
SlotInv ==
    /\ \A t \in Task : due[t] = -1 => slot[t] = -1
    /\ ~panic /\ add.at \in {"remain", "tier", "index"} => slot[add.task] = -1
    /\ add.at = "walk" => slot[add.task] = add.index

WheelInv == WheelOK /\ TimeInv /\ RisingInv /\ OnceInv /\ SlotInv

\* The timestamp of a bucket moves with its index and, by the length of the wheel,
\* with its tier.
LEMMA AtFacts ==
    ASSUME NEW t \in Int, NEW i \in Int
    PROVE  /\ At(t, i) \in Int
           /\ \A k \in Int : At(t, i + k) = At(t, i) + k
           /\ At(t + 1, i) = At(t, i) + L
BY WheelAssumption DEF L, At

\* Tiers of one bucket are at least a turn of the wheel apart.
LEMMA AtLess ==
    ASSUME NEW t \in Int, NEW u \in Int, NEW i \in Slots, t < u
    PROVE  At(t, i) + L <= At(u, i)
<1>1. i \in Int /\ L \in Nat \ {0}
  BY WheelAssumption DEF L, Slots
<1>2. t * L + L <= u * L
  BY <1>1
<1> QED BY <1>1, <1>2 DEF At

\* Two buckets never stand for the same timestamp, in any tiers.
LEMMA AtApart ==
    ASSUME NEW t \in Int, NEW u \in Int, NEW i \in Slots, NEW j \in Slots, i # j
    PROVE  At(t, i) # At(u, j)
<1> DEFINE l == L
<1>1. i \in 0 .. l - 1 /\ j \in 0 .. l - 1 /\ l \in Nat \ {0}
  BY WheelAssumption, Zenon DEF L, Slots
<1>2. t * l \in Int /\ u * l \in Int
  BY <1>1
<1>3. t < u => t * l + l <= u * l
  BY <1>1
<1>4. u < t => u * l + l <= t * l
  BY <1>1
<1> HIDE DEF l
<1>5. t < u \/ u < t \/ t = u
  OBVIOUS
<1>6. t * l + i # u * l + j
  BY <1>1, <1>2, <1>3, <1>4, <1>5
<1> QED BY <1>6 DEF At, l

\* Going r ahead is going r / L tiers and r % L buckets ahead, the arithmetic of
\* AddOnce.
LEMMA AtQuot ==
    ASSUME NEW t \in Int, NEW i \in Int, NEW r \in Nat
    PROVE  /\ At(t + (r \div L), i + (r % L)) = At(t, i) + r
           /\ r \div L \in Nat /\ r % L \in Slots
<1> DEFINE l == L
<1>1. l \in Nat \ {0}
  BY WheelAssumption, Zenon DEF L
<1>2. r = l * (r \div l) + (r % l) /\ r \div l \in Nat /\ r % l \in 0 .. l - 1
  BY <1>1
<1> DEFINE q == r \div l
           m1 == r % l
<1> SUFFICES At(t + q, i + m1) = At(t, i) + r /\ q \in Nat /\ m1 \in Slots
  BY Zenon
<1>3. r = l * q + m1 /\ q \in Nat /\ m1 \in 0 .. l - 1
  BY <1>2, Zenon
<1> HIDE DEF l, q, m1
<1>4. (t + q) * l = t * l + l * q /\ t * l \in Int /\ l * q \in Int
  BY <1>1, <1>3
<1>5. (t + q) * l + (i + m1) = t * l + i + r
  BY <1>3, <1>4
<1>6. At(t + q, i + m1) = (t + q) * l + (i + m1) /\ At(t, i) = t * l + i
  BY Zenon DEF At, l
<1>7. At(t + q, i + m1) = At(t, i) + r
  BY <1>5, <1>6, Zenon
<1>8. q \in Nat /\ m1 \in Slots
  BY <1>3, Zenon DEF l, Slots
<1> QED BY <1>7, <1>8

(* Lists of nodes *)

\* popHead: what is left of a bucket is sorted and holds the other tasks.
LEMMA TailNodes ==
    ASSUME NEW b \in NodeSeq, b # <<>>, Rising(b), Spread(b)
    PROVE  /\ b[1] \in Nodes /\ Tail(b) \in NodeSeq
           /\ Rising(Tail(b)) /\ Spread(Tail(b))
           /\ Holds(Tail(b)) = Holds(b) \ b[1].tasks /\ b[1].tasks \subseteq Holds(b)
           /\ \A n \in DOMAIN Tail(b) : n + 1 \in DOMAIN b /\ Tail(b)[n] = b[n + 1] /\ b[1].tier < b[n + 1].tier
<1>1. Len(b) \in Nat \ {0} /\ DOMAIN b = 1 .. Len(b) /\ 1 \in DOMAIN b
  BY DEF NodeSeq
<1>2. Tail(b) \in NodeSeq /\ Len(Tail(b)) = Len(b) - 1 /\ DOMAIN Tail(b) = 1 .. Len(b) - 1
  BY <1>1 DEF NodeSeq
<1>3. \A n \in DOMAIN Tail(b) : n \in Int /\ n + 1 \in DOMAIN b /\ Tail(b)[n] = b[n + 1] /\ 1 < n + 1
  BY <1>1, <1>2 DEF NodeSeq
<1>4. \A n \in DOMAIN b : n # 1 => n - 1 \in DOMAIN Tail(b) /\ (n - 1) + 1 = n
  BY <1>1, <1>2
<1>5. \A n \in DOMAIN b : b[n] \in Nodes
  BY <1>1 DEF NodeSeq
<1>6. \A n \in DOMAIN Tail(b) : b[1].tier < b[n + 1].tier
  BY <1>1, <1>3, Zenon DEF Rising
<1>7. Rising(Tail(b))
  <2> SUFFICES ASSUME NEW n \in DOMAIN Tail(b), NEW o \in DOMAIN Tail(b), n < o
               PROVE  Tail(b)[n].tier < Tail(b)[o].tier
    BY Zenon DEF Rising
  <2>1. n + 1 < o + 1
    BY <1>3
  <2> QED BY <1>3, <2>1 DEF Rising
<1>8. Spread(Tail(b))
  <2> SUFFICES ASSUME NEW n \in DOMAIN Tail(b), NEW o \in DOMAIN Tail(b), NEW t \in Task,
                      t \in Tail(b)[n].tasks, t \in Tail(b)[o].tasks
               PROVE  n = o
    BY Zenon DEF Spread
  <2>1. n + 1 = o + 1
    BY <1>3, Zenon DEF Spread
  <2> QED BY <1>3, <2>1
<1>9. b[1].tasks \subseteq Holds(b)
  BY <1>1, <1>5, Zenon DEF Holds, Nodes
<1>10. Holds(Tail(b)) \subseteq Holds(b) \ b[1].tasks
  <2> SUFFICES ASSUME NEW t \in Task, NEW n \in DOMAIN Tail(b), t \in Tail(b)[n].tasks
               PROVE  t \in Holds(b) /\ t \notin b[1].tasks
    BY Zenon DEF Holds
  <2>1. t \in b[n + 1].tasks /\ n + 1 \in DOMAIN b /\ n + 1 # 1
    BY <1>3
  <2> QED BY <1>1, <2>1 DEF Holds, Spread
<1>11. Holds(b) \ b[1].tasks \subseteq Holds(Tail(b))
  <2> SUFFICES ASSUME NEW t \in Task, NEW n \in DOMAIN b, t \in b[n].tasks, t \notin b[1].tasks
               PROVE  t \in Holds(Tail(b))
    BY Zenon DEF Holds
  <2>1. n - 1 \in DOMAIN Tail(b) /\ (n - 1) + 1 = n
    BY <1>4, Zenon
  <2>2. t \in Tail(b)[n - 1].tasks
    BY <1>3, <2>1, Zenon
  <2> QED BY <2>1, <2>2 DEF Holds
<1> QED BY <1>1, <1>2, <1>3, <1>5, <1>6, <1>7, <1>8, <1>9, <1>10, <1>11

\* A bucket that was empty, with the node of one task.
LEMMA OneNode ==
    ASSUME NEW k \in Int, NEW t \in Task
    PROVE  LET b == <<[tier |-> k, tasks |-> {t}]>> IN
           /\ b \in NodeSeq /\ Rising(b) /\ Spread(b) /\ Holds(b) = {t} /\ b # <<>>
           /\ \A n \in DOMAIN b : b[n].tier = k
<1> DEFINE b == <<[tier |-> k, tasks |-> {t}]>>
<1>1. b \in NodeSeq /\ b # <<>>
  BY DEF NodeSeq, Nodes
<1>2. DOMAIN b = {1} /\ b[1].tier = k /\ b[1].tasks = {t}
  OBVIOUS
<1> HIDE DEF b
<1>3. Rising(b) /\ Spread(b) /\ Holds(b) = {t}
  BY <1>2 DEF Rising, Spread, Holds
<1> QED BY <1>1, <1>2, <1>3 DEF b

\* Every node of c is one of b, or the node of tier k that the task t is in.
Joins(b, c, k, t) ==
    \A n \in DOMAIN c :
        \/ \E o \in DOMAIN b : c[n] = b[o]
        \/ /\ c[n].tier = k
           /\ \A u \in c[n].tasks : u # t => \E o \in DOMAIN b : b[o].tier = k /\ u \in b[o].tasks

\* What AddOnce does to a bucket: a task joins the node of its tier, or gets a
\* node of its own between its neighbours.
LEMMA InsertNode ==
    ASSUME NEW b \in NodeSeq, NEW p \in DOMAIN b, NEW k \in Int, NEW t \in Task,
           Rising(b), Spread(b), t \notin Holds(b),
           b[p].tier <= k, p < Len(b) => k < b[p + 1].tier
    PROVE  LET c == Inserted(b, p, k, t) IN
           /\ c \in NodeSeq /\ Rising(c) /\ Spread(c)
           /\ Holds(c) = Holds(b) \cup {t} /\ c # <<>>
           /\ Joins(b, c, k, t)
<1> DEFINE c == Inserted(b, p, k, t)
<1>0. Len(b) \in Nat /\ DOMAIN b = 1 .. Len(b) /\ p \in 1 .. Len(b) /\ \A n \in DOMAIN b : b[n] \in Nodes
  BY DEF NodeSeq
<1>00. \A n \in DOMAIN b : b[n].tier \in Int
  BY <1>0, Zenon DEF Nodes
<1>0a. \A n \in DOMAIN b : t \notin b[n].tasks
  BY Zenon DEF Holds
<1>0b. \A n \in DOMAIN b : (n <= p => b[n].tier <= b[p].tier) /\ (n < p => b[n].tier < b[p].tier)
  BY <1>0, <1>00 DEF Rising
<1>0c. \A n \in DOMAIN b : p < n => k < b[n].tier
  <2> SUFFICES ASSUME NEW n \in DOMAIN b, p < n PROVE k < b[n].tier
    BY Zenon
  <2>1. p + 1 \in DOMAIN b /\ k < b[p + 1].tier /\ b[p + 1].tier \in Int /\ b[n].tier \in Int
    BY <1>0, <1>00
  <2>2. n = p + 1 \/ b[p + 1].tier < b[n].tier
    BY <1>0, <2>1 DEF Rising
  <2> QED BY <2>1, <2>2
<1>1. CASE b[p].tier = k
  <2>1. c = [b EXCEPT ![p].tasks = @ \cup {t}]
    BY <1>1, Zenon DEF Inserted
  <2>2. c \in NodeSeq /\ DOMAIN c = DOMAIN b
    BY <1>0, <2>1 DEF NodeSeq, Nodes
  <2>3. c[p].tier = k /\ c[p].tasks = b[p].tasks \cup {t}
    BY <1>0, <1>1, <2>1
  <2>4. \A n \in DOMAIN b : n # p => c[n] = b[n]
    BY <2>1, Zenon
  <2>5. Rising(c)
    BY <1>1, <2>2, <2>3, <2>4 DEF Rising
  <2>6. Spread(c)
    BY <1>0a, <2>2, <2>3, <2>4 DEF Spread
  <2>7. Holds(c) = Holds(b) \cup {t}
    BY <2>2, <2>3, <2>4, Zenon DEF Holds
  <2>8. c # <<>>
    BY <1>0, <2>2
  <2>9. \A u \in c[p].tasks : u # t => \E o \in DOMAIN b : b[o].tier = k /\ u \in b[o].tasks
    BY <1>1, <2>3, Zenon
  <2> HIDE DEF c
  <2>10. \A n \in DOMAIN c : n # p => \E o \in DOMAIN b : c[n] = b[o]
    BY <2>2, <2>4, Zenon
  <2>11. Joins(b, c, k, t)
    BY <2>2, <2>3, <2>9, <2>10, Zenon DEF Joins
  <2> QED BY <2>2, <2>5, <2>6, <2>7, <2>8, <2>11 DEF c
<1>2. CASE b[p].tier # k
  <2> DEFINE new == [tier |-> k, tasks |-> {t}]
  <2>1. c = [n \in 1 .. Len(b) + 1 |-> IF n <= p THEN b[n] ELSE IF n = p + 1 THEN new ELSE b[n - 1]]
    BY <1>2, Zenon DEF Inserted
  <2>2. new \in Nodes /\ new.tier = k /\ new.tasks = {t}
    BY Zenon DEF Nodes
  <2> HIDE DEF c, new
  <2>3. DOMAIN c = 1 .. Len(b) + 1
    BY <2>1, Zenon
  <2>4. \A n \in DOMAIN c :
           /\ n \in Int
           /\ n <= p => n \in DOMAIN b /\ c[n] = b[n]
           /\ n = p + 1 => c[n] = new
           /\ n > p + 1 => n - 1 \in DOMAIN b /\ p < n - 1 /\ c[n] = b[n - 1]
           /\ n <= p \/ n = p + 1 \/ n > p + 1
    BY <1>0, <2>1
  <2>5. \A n \in DOMAIN c : c[n] \in Nodes
    BY <1>0, <2>2, <2>4, Zenon
  <2>6. c \in NodeSeq /\ c # <<>>
    <3>1. Len(b) + 1 \in Nat /\ c = [n \in 1 .. Len(b) + 1 |-> c[n]]
      BY <1>0, <2>1
    <3>2. c \in Seq(Nodes)
      BY <2>3, <2>5, <3>1
    <3>3. c # <<>>
      BY <1>0, <2>3
    <3> QED BY <3>2, <3>3 DEF NodeSeq
  <2>7. Rising(c)
    <3> SUFFICES ASSUME NEW n \in DOMAIN c, NEW o \in DOMAIN c, n < o PROVE c[n].tier < c[o].tier
      BY Zenon DEF Rising
    <3>0. b[p].tier < k /\ p \in Int /\ n \in Int /\ o \in Int
      BY <1>0, <1>00, <1>2, <2>4
    <3>1. CASE o <= p
      BY <1>0, <2>4, <3>0, <3>1 DEF Rising
    <3>2. CASE o = p + 1
      <4>1. n \in DOMAIN b /\ c[n] = b[n] /\ n <= p
        BY <2>4, <3>0, <3>2
      <4>2. b[n].tier <= b[p].tier /\ b[n].tier \in Int /\ b[p].tier \in Int
        BY <1>0, <1>00, <1>0b, <4>1, Zenon
      <4> QED BY <2>2, <2>4, <3>0, <3>2, <4>1, <4>2
    <3>3. CASE o > p + 1
      <4>1. o - 1 \in DOMAIN b /\ p < o - 1 /\ c[o] = b[o - 1] /\ k < b[o - 1].tier
        BY <1>0c, <2>4, <3>3, Zenon
      <4>2. CASE n <= p
        <5>1. n \in DOMAIN b /\ c[n] = b[n] /\ n < o - 1
          BY <2>4, <3>0, <4>1, <4>2
        <5> QED BY <4>1, <5>1 DEF Rising
      <4>3. CASE n = p + 1
        BY <2>2, <2>4, <4>1, <4>3, Zenon
      <4>4. CASE n > p + 1
        <5>1. n - 1 \in DOMAIN b /\ c[n] = b[n - 1] /\ n - 1 < o - 1
          BY <2>4, <3>0, <4>4
        <5> QED BY <4>1, <5>1 DEF Rising
      <4> QED BY <2>4, <4>2, <4>3, <4>4
    <3> QED BY <2>4, <3>1, <3>2, <3>3
  <2>8. \A n \in DOMAIN c : n # p + 1 =>
           \E o \in DOMAIN b : c[n] = b[o] /\ o = IF n <= p THEN n ELSE n - 1
    BY <2>4, Zenon
  <2>9. Spread(c)
    <3> SUFFICES ASSUME NEW n \in DOMAIN c, NEW o \in DOMAIN c, NEW u \in Task,
                        u \in c[n].tasks, u \in c[o].tasks
                 PROVE  n = o
      BY Zenon DEF Spread
    <3>1. n \in Int /\ o \in Int /\ p \in Int
      BY <1>0, <2>4
    <3>2. CASE u = t
      BY <1>0a, <2>2, <2>8, <3>2, Zenon
    <3>3. CASE u # t
      <4>1. n # p + 1 /\ o # p + 1
        BY <2>2, <2>4, <3>3
      <4>2. PICK x \in DOMAIN b : c[n] = b[x] /\ x = IF n <= p THEN n ELSE n - 1
        BY <2>8, <4>1, Zenon
      <4>3. PICK y \in DOMAIN b : c[o] = b[y] /\ y = IF o <= p THEN o ELSE o - 1
        BY <2>8, <4>1, Zenon
      <4>4. x = y
        BY <4>2, <4>3, Zenon DEF Spread
      <4> QED BY <3>1, <4>1, <4>2, <4>3, <4>4
    <3> QED BY <3>2, <3>3
  <2>10. p + 1 \in DOMAIN c
    BY <1>0, <2>3
  <2>11. Holds(c) \subseteq Holds(b) \cup {t}
    BY <2>2, <2>4, <2>8, Zenon DEF Holds
  <2>12. \A o \in DOMAIN b : \E n \in DOMAIN c : c[n] = b[o]
    <3> TAKE o \in DOMAIN b
    <3>1. CASE o <= p
      <4>1. o \in DOMAIN c /\ c[o] = b[o]
        BY <1>0, <2>3, <2>4, <3>1
      <4> QED BY <4>1
    <3>2. CASE ~(o <= p)
      <4>1. o + 1 \in DOMAIN c /\ o + 1 > p + 1 /\ (o + 1) - 1 = o
        BY <1>0, <2>3, <3>2
      <4>2. c[o + 1] = b[o]
        BY <2>4, <4>1, Zenon
      <4> QED BY <4>1, <4>2
    <3> QED BY <3>1, <3>2
  <2>13. Holds(b) \cup {t} \subseteq Holds(c)
    <3>1. t \in Holds(c)
      BY <2>2, <2>4, <2>10, Zenon DEF Holds
    <3>2. Holds(b) \subseteq Holds(c)
      BY <2>12, Zenon DEF Holds
    <3> QED BY <3>1, <3>2
  <2>14. \A n \in DOMAIN c :
            (\E o \in DOMAIN b : c[n] = b[o]) \/ (c[n].tier = k /\ \A u \in c[n].tasks : u = t)
    BY <2>2, <2>4, <2>8, Zenon
  <2>15. Joins(b, c, k, t)
    BY <2>14, Zenon DEF Joins
  <2> QED BY <2>6, <2>7, <2>9, <2>11, <2>13, <2>15 DEF c
<1> QED BY <1>1, <1>2

\* The nodes of the buckets.
LEMMA BucketNodes ==
    ASSUME WheelOK, NEW i \in Slots, NEW n \in DOMAIN buckets[i]
    PROVE  buckets[i][n] \in Nodes /\ buckets[i][n].tier \in Int /\ buckets[i][n].tasks \subseteq Task
<1>1. buckets[i] \in NodeSeq
  BY Zenon DEF WheelOK
<1>2. buckets[i][n] \in Nodes
  BY <1>1 DEF NodeSeq
<1> QED BY <1>2 DEF Nodes

(* Steps of the wheel *)

\* The wheel that New makes satisfies the invariant.
LEMMA WheelInit == Init => WheelInv
<1> SUFFICES ASSUME Init PROVE WheelInv
  BY Zenon
<1> USE DEF Init, L, Task, NoAdd
<1>0. L \in Nat \ {0} /\ MaxTime \in Nat
  BY WheelAssumption, Zenon DEF L
<1>1. <<>> \in NodeSeq /\ Rising(<<>>) /\ Spread(<<>>) /\ Holds(<<>>) = {}
  BY DEF NodeSeq, Rising, Spread, Holds
<1>2. add = NoAdd /\ add.at = "none"
  BY Zenon
<1>3. AddOK
  BY <1>2, Zenon DEF AddOK
<1>4. WheelOK
  <2>1. current \in [timestamp : 0 .. MaxTime, tier : Nat, index : 0 .. L]
    BY <1>0
  <2>2. tick \in [at : {"sleep", "index", "tier", "zero", "run"}, i : Slots]
    BY <1>0 DEF Slots
  <2>3. buckets \in [Slots -> NodeSeq]
    BY <1>1, Zenon DEF Slots
  <2>4. due \in [Task -> Int] /\ slot \in [Task -> Int] /\ ran \in [Task -> Seq(Int)]
    BY DEF Task
  <2> QED BY <1>3, <2>1, <2>2, <2>3, <2>4 DEF WheelOK
<1>5. At(0, 0) = 0
  BY <1>0 DEF At
<1>6. TimeInv
  BY <1>0, <1>5, Zenon DEF TimeInv
<1>7. \A i \in Slots : buckets[i] = <<>>
  BY Zenon DEF Slots
<1>8. RisingInv
  BY <1>1, <1>2, <1>7, Zenon DEF RisingInv
<1>9. \A t \in Task : ran[t] = <<>> /\ Len(ran[t]) = 0 /\ slot[t] = -1
  BY Zenon DEF Task
<1>10. OnceInv
  <2>1. \A i \in Slots : Spread(buckets[i]) /\ Holds(buckets[i]) = {}
    BY <1>1, <1>7, Zenon
  <2>2. \A t \in Task : Len(ran[t]) <= 1
    <3> TAKE t \in Task
    <3>1. Len(ran[t]) = 0
      BY <1>9, Zenon
    <3> QED BY <3>1
  <2> QED BY <1>2, <1>9, <2>1, <2>2 DEF OnceInv
<1>11. SlotInv
  BY <1>2, <1>9, Zenon DEF SlotInv
<1> QED BY <1>4, <1>6, <1>8, <1>10, <1>11 DEF WheelInv

\* A tick marks the task of the call it falls into.
LEMMA TicksAdds ==
    ASSUME WheelInv, Ticks
    PROVE  /\ overtaken' \subseteq Task /\ overtaken \subseteq overtaken'
           /\ add.at # "none" => add.task \in overtaken'
BY Zenon DEF WheelInv, WheelOK, AddOK, Ticks

\* The writes of Incr and TierIncr leave the buckets and the call alone.
LEMMA IncrKeeps ==
    ASSUME WheelInv, IncrTime \/ IncrIndex \/ TierIncr
    PROVE  WheelInv'
<1>0. /\ Ticks
      /\ buckets' = buckets /\ add' = add /\ panic' = panic
      /\ due' = due /\ slot' = slot /\ ran' = ran
  BY Zenon DEF IncrTime, IncrIndex, TierIncr, history
<1>1. RisingInv' /\ OnceInv' /\ SlotInv'
  BY <1>0, Zenon DEF WheelInv, RisingInv, OnceInv, SlotInv
<1>2. AddOK'
  BY <1>0, Zenon DEF WheelInv, WheelOK, AddOK
<1>3. overtaken' \subseteq Task
  BY <1>0, TicksAdds, Zenon
<1>4. /\ current \in [timestamp : 0 .. MaxTime, tier : Nat, index : 0 .. L]
      /\ tick \in [at : {"sleep", "index", "tier", "zero", "run"}, i : Slots]
  BY Zenon DEF WheelInv, WheelOK
<1>5. L \in Nat \ {0} /\ MaxTime \in Nat
  BY WheelAssumption, Zenon DEF L
<1>6. /\ current' \in [timestamp : 0 .. MaxTime, tier : Nat, index : 0 .. L]
      /\ tick' \in [at : {"sleep", "index", "tier", "zero", "run"}, i : Slots]
      /\ TimeInv'
  <2> DEFINE T == current.timestamp
             k == current.tier
             x == current.index
  <2>0. T \in 0 .. MaxTime /\ k \in Nat /\ x \in 0 .. L
    BY <1>4, Zenon
  <2>00. At(k, x) \in Int /\ At(k, x + 1) = At(k, x) + 1 /\ At(k, 0) = At(k, x) - x
         /\ At(k + 1, x) = At(k, x) + L
    <3>1. k \in Int /\ x \in Int /\ k * L \in Int
      BY <2>0, <1>5
    <3>2. At(k, 0) = At(k, x) - x /\ At(k, x + 1) = At(k, x) + 1
      BY <3>1 DEF At
    <3>3. At(k, x) \in Int /\ At(k + 1, x) = At(k, x) + L
      BY <3>1, AtFacts, Zenon
    <3> QED BY <3>2, <3>3
  <2>1. CASE IncrTime
    <3>1. /\ tick.at = "sleep" /\ T < MaxTime
          /\ current'.timestamp = T + 1 /\ current'.tier = k /\ current'.index = x
          /\ current' = [current EXCEPT !.timestamp = T + 1]
          /\ tick' = [tick EXCEPT !.at = "index"] /\ tick'.at = "index" /\ tick'.i = tick.i
      BY <1>4, <2>1, Zenon DEF IncrTime
    <3>2. T + 1 \in 0 .. MaxTime
      BY <1>5, <2>0, <3>1
    <3>3. current' \in [timestamp : 0 .. MaxTime, tier : Nat, index : 0 .. L]
      BY <1>4, <3>1, <3>2, Zenon
    <3>4. tick' \in [at : {"sleep", "index", "tier", "zero", "run"}, i : Slots]
      BY <1>4, <3>1, Zenon
    <3>5. TimeInv'
      BY <2>0, <2>00, <3>1, Zenon DEF WheelInv, TimeInv
    <3> QED BY <3>3, <3>4, <3>5
  <2>2. CASE IncrIndex
    <3>1. /\ tick.at = "index"
          /\ current'.timestamp = T /\ current'.tier = k /\ current'.index = x + 1
          /\ current' = [current EXCEPT !.index = x + 1]
          /\ tick'.at = (IF x + 1 = L THEN "tier" ELSE "run") /\ tick'.i = tick.i
          /\ tick' = [tick EXCEPT !.at = IF x + 1 = L THEN "tier" ELSE "run"]
      BY <1>4, <2>2, Zenon DEF IncrIndex, L
    <3>2. x + 1 \in 0 .. L /\ x # L /\ x + 1 # 0
      BY <1>5, <2>0, <3>1 DEF WheelInv, TimeInv
    <3>3. current' \in [timestamp : 0 .. MaxTime, tier : Nat, index : 0 .. L]
      BY <1>4, <3>1, <3>2, Zenon
    <3>4. tick' \in [at : {"sleep", "index", "tier", "zero", "run"}, i : Slots]
      BY <1>4, <3>1, Zenon
    <3>5. T = At(k, x) + 1 /\ tick.i = x /\ (x + 1) - 1 = x
      BY <2>0, <3>1 DEF WheelInv, TimeInv
    <3>6. TimeInv'
      BY <2>0, <2>00, <3>1, <3>2, <3>5 DEF TimeInv
    <3> QED BY <3>3, <3>4, <3>6
  <2>3. CASE TierIncr /\ tick.at = "tier"
    <3>1. /\ current'.timestamp = T /\ current'.tier = k + 1 /\ current'.index = x
          /\ current' = [current EXCEPT !.tier = k + 1]
          /\ tick' = [tick EXCEPT !.at = "zero"] /\ tick'.at = "zero" /\ tick'.i = tick.i
      BY <1>4, <2>3, Zenon DEF TierIncr
    <3>2. k + 1 \in Nat
      BY <2>0
    <3>3. current' \in [timestamp : 0 .. MaxTime, tier : Nat, index : 0 .. L]
      BY <1>4, <3>1, <3>2, Zenon
    <3>4. tick' \in [at : {"sleep", "index", "tier", "zero", "run"}, i : Slots]
      BY <1>4, <3>1, Zenon
    <3>5. T = At(k, x) /\ x = L
          /\ tick.i = IF x = 0 THEN L - 1 ELSE x - 1
      BY <2>0, <2>3, Zenon DEF WheelInv, TimeInv
    <3>6. TimeInv'
      BY <1>5, <2>0, <2>00, <3>1, <3>2, <3>5 DEF TimeInv
    <3> QED BY <3>3, <3>4, <3>6
  <2>4. CASE TierIncr /\ tick.at = "zero"
    <3>1. /\ current'.timestamp = T /\ current'.tier = k /\ current'.index = 0
          /\ current' = [current EXCEPT !.index = 0]
          /\ tick' = [tick EXCEPT !.at = "run"] /\ tick'.at = "run" /\ tick'.i = tick.i
      BY <1>4, <2>4, Zenon DEF TierIncr
    <3>2. 0 \in 0 .. L /\ L # 0
      BY <1>5
    <3>3. current' \in [timestamp : 0 .. MaxTime, tier : Nat, index : 0 .. L]
      BY <1>4, <3>1, <3>2, Zenon
    <3>4. tick' \in [at : {"sleep", "index", "tier", "zero", "run"}, i : Slots]
      BY <1>4, <3>1, Zenon
    <3>5. T = At(k, x) - L /\ x = L
          /\ tick.i = L - 1
      BY <1>5, <2>0, <2>4, Zenon DEF WheelInv, TimeInv
    <3>6. TimeInv'
      BY <1>5, <2>0, <2>00, <3>1, <3>2, <3>5, Zenon DEF TimeInv
    <3> QED BY <3>3, <3>4, <3>6
  <2> QED BY <2>1, <2>2, <2>3, <2>4 DEF TierIncr
<1>7. WheelOK'
  BY <1>0, <1>2, <1>3, <1>6, Zenon DEF WheelInv, WheelOK
<1> QED BY <1>1, <1>6, <1>7 DEF WheelInv

\* The reads of AddOnce change nothing but the call; the call itself notes the
\* time the task is due.
LEMMA AddOnceKeeps ==
    ASSUME WheelInv, NEW t \in Task, NEW a \in Ahead, AddOnce(t, current.timestamp + a)
    PROVE  WheelInv'
<1> DEFINE ts == IF current.timestamp + a <= current.timestamp
                 THEN current.timestamp ELSE current.timestamp + a
<1>0. t \in Task /\ a \in Int /\ current.timestamp \in Nat
  BY WheelAssumption DEF L, Task, WheelInv, WheelOK
<1>1. ts \in Nat /\ ts # -1
  BY <1>0
<1>2. /\ ~panic /\ add = NoAdd /\ due[t] = -1
      /\ add' = [at |-> "remain", task |-> t, time |-> ts]
      /\ due' = [due EXCEPT ![t] = ts]
      /\ overtaken' = overtaken \cup IF tick.at = "sleep" THEN {} ELSE {t}
      /\ UNCHANGED <<current, buckets, tick, panic, slot, ran>>
  BY Zenon DEF AddOnce
<1> HIDE DEF ts
<1>3. add'.at = "remain" /\ add'.task = t /\ add'.time = ts
  BY <1>2, Zenon
<1>4. AddOK'
  BY <1>0, <1>1, <1>3 DEF AddOK, NoAdd
<1>5. due' \in [Task -> Int] /\ overtaken' \subseteq Task /\ due'[t] = ts
      /\ \A u \in Task : u # t => due'[u] = due[u]
  BY <1>0, <1>1, <1>2 DEF WheelInv, WheelOK
<1>6. WheelOK'
  BY <1>2, <1>4, <1>5, Zenon DEF WheelInv, WheelOK
<1>7. TimeInv' /\ RisingInv'
  BY <1>2, <1>3, Zenon DEF WheelInv, TimeInv, RisingInv
<1>8. OnceInv'
  BY <1>0, <1>1, <1>2, <1>3, <1>5, Zenon DEF WheelInv, OnceInv
<1>9. SlotInv'
  BY <1>0, <1>1, <1>2, <1>3, <1>5, Zenon DEF WheelInv, SlotInv
<1> QED BY <1>6, <1>7, <1>8, <1>9 DEF WheelInv

\* AddOnce reads the clock and the tier.
LEMMA ReadKeeps ==
    ASSUME WheelInv, Remain \/ TaskTier
    PROVE  WheelInv' /\ add'.task = add.task /\ add.at \in {"remain", "tier"} /\ add'.at \in {"tier", "index"}
<1>0. UNCHANGED <<current, buckets, tick, panic, due, slot, ran, overtaken>>
  BY Zenon DEF Remain, TaskTier, history
<1>1. AddOK /\ current.timestamp \in Int /\ current.tier \in Int /\ L \in Nat \ {0}
  BY WheelAssumption DEF L, WheelInv, WheelOK
<1>2. /\ AddOK' /\ add'.task = add.task
      /\ add.at \in {"remain", "tier"} /\ add'.at \in {"tier", "index"}
  <2>1. CASE Remain
    <3>1. add.at = "remain" /\ add.time - current.timestamp \in Int
      BY <1>1, <2>1 DEF Remain, AddOK
    <3>2. add'.at = "tier" /\ add'.task = add.task /\ add'.remain = add.time - current.timestamp
      BY <2>1, Zenon DEF Remain
    <3> QED BY <1>1, <3>1, <3>2 DEF AddOK, NoAdd
  <2>2. CASE TaskTier
    <3>1. add.at = "tier" /\ add.remain \in Int
      BY <1>1, <2>2, Zenon DEF TaskTier, AddOK
    <3>2. Quot(add.remain) \in Int
      BY <1>1, <3>1 DEF Quot, L
    <3>3. add'.at = "index" /\ add'.task = add.task /\ add'.remain = add.remain
          /\ add'.tier = current.tier + Quot(add.remain)
      BY <2>2, Zenon DEF TaskTier
    <3>4. add'.tier \in Int
      BY <1>1, <3>2, <3>3
    <3> QED BY <1>1, <3>1, <3>3, <3>4 DEF AddOK, NoAdd
  <2> QED BY <2>1, <2>2
<1>3. WheelOK'
  BY <1>0, <1>2, Zenon DEF WheelInv, WheelOK
<1>4. TimeInv' /\ RisingInv'
  BY <1>0, <1>2, Zenon DEF WheelInv, TimeInv, RisingInv
<1>5. OnceInv' /\ SlotInv'
  BY <1>0, <1>2, Zenon DEF WheelInv, OnceInv, SlotInv
<1> QED BY <1>2, <1>3, <1>4, <1>5 DEF WheelInv

\* The slot that BucketIndex computes is a bucket unless it is negative.
LEMMA SlotFacts ==
    ASSUME NEW k \in Int, NEW x \in 0 .. L, NEW r \in Int
    PROVE  LET s == Slot(k, x + Rem(r)) IN
           /\ s[1] \in Int /\ s[2] \in Int
           /\ ~(s[2] < 0) => s[2] \in Slots
           /\ r >= 0 => s[2] \in Slots /\ At(s[1], s[2]) = At(k, x + (r % L))
<1> DEFINE l == L
           y == x + Rem(r)
           s == Slot(k, y)
<1>1. l \in Nat \ {0} /\ x \in 0 .. l
  BY WheelAssumption, Zenon DEF L
<1>2. Rem(r) \in -(l - 1) .. l - 1 /\ (r >= 0 => Rem(r) = r % l /\ r % l \in 0 .. l - 1)
  <2>1. r >= 0 => r % l \in 0 .. l - 1
    BY <1>1
  <2>2. r < 0 => -r \in Nat /\ (-r) % l \in 0 .. l - 1
    BY <1>1
  <2>3. r >= 0 => Rem(r) = r % l
    BY DEF Rem, L
  <2>4. r < 0 => Rem(r) = -((-r) % l)
    BY Zenon DEF Rem, L
  <2>5. r < 0 => Rem(r) \in -(l - 1) .. l - 1
    BY <1>1, <2>2, <2>4
  <2>6. r >= 0 => Rem(r) \in -(l - 1) .. l - 1
    BY <1>1, <2>1, <2>3
  <2> QED BY <2>1, <2>3, <2>5, <2>6
<1>3. y \in Int /\ y < l + l
  BY <1>1, <1>2
<1> HIDE DEF y
<1>4. CASE y >= l
  <2>1. y - l \in 0 .. l - 1 /\ y = 1 * l + (y - l)
    BY <1>1, <1>3, <1>4
  <2>2. y % l = y - l
    <3>1. y % l \in 0 .. l - 1 /\ y = l * (y \div l) + (y % l) /\ y \div l \in Int
      BY <1>1, <1>3
    <3>2. y \div l = 1
      <4>1. l * (y \div l) \in Int /\ y % l \in Int
        BY <1>1, <3>1
      <4>2. y \div l >= 2 => l * (y \div l) >= l + l
        <5>1. \A q \in Int : 1 < q => 1 * l + l <= q * l
          BY <1>1
        <5>2. (y \div l) * l = l * (y \div l) /\ 1 * l = l
          BY <1>1, <3>1
        <5> QED BY <1>1, <3>1, <5>1, <5>2
      <4>3. y \div l <= 0 => l * (y \div l) <= 0
        BY <1>1, <3>1
      <4>4. ~(y \div l >= 2)
        BY <1>1, <1>3, <3>1, <4>1, <4>2
      <4>5. ~(y \div l <= 0)
        BY <1>1, <1>3, <1>4, <3>1, <4>1, <4>3
      <4> QED BY <3>1, <4>4, <4>5
    <3>3. l * 1 = l
      BY <1>1
    <3> QED BY <1>1, <1>3, <3>1, <3>2, <3>3
  <2>3. s[1] = k + 1 /\ s[2] = y - l
    BY <1>4, <2>2, Zenon DEF Slot, L
  <2>4. At(k + 1, y - l) = At(k, y)
    <3>1. y - l \in Int /\ (y - l) + l = y
      BY <1>1, <1>3
    <3>2. (k + 1) * l = k * l + l /\ k * l \in Int
      BY <1>1
    <3>3. At(k, y) = k * l + y /\ At(k + 1, y - l) = (k + 1) * l + (y - l)
      BY Zenon DEF At
    <3> QED BY <1>1, <1>3, <3>1, <3>2, <3>3
  <2> QED BY <1>1, <1>2, <1>3, <2>1, <2>3, <2>4 DEF Slots, y
<1>5. CASE ~(y >= l)
  <2>1. s[1] = k /\ s[2] = y
    BY <1>5, Zenon DEF Slot, L
  <2>2. y >= 0 => y \in Slots
    BY <1>1, <1>3, <1>5 DEF Slots
  <2>3. r >= 0 => y >= 0 /\ y = x + (r % l)
    BY <1>1, <1>2 DEF y
  <2>4. s[1] \in Int /\ s[2] \in Int
    BY <1>3, <2>1, Zenon
  <2>5. ~(s[2] < 0) => s[2] \in Slots
    BY <1>3, <2>1, <2>2
  <2>6. r >= 0 => s[2] \in Slots /\ At(s[1], s[2]) = At(k, x + (r % l))
    BY <2>1, <2>2, <2>3, Zenon
  <2> QED BY <2>4, <2>5, <2>6 DEF y
<1> QED BY <1>4, <1>5

\* The bucket is found: it is out of range, empty, or walked next.
LEMMA IndexCases ==
    ASSUME WheelInv, BucketIndex
    PROVE  \E k, i \in Int :
           /\ <<k, i>> = Slot(add.tier, current.index + Rem(add.remain))
           /\ UNCHANGED <<current, tick, due, ran, overtaken>>
           /\ slot' = [slot EXCEPT ![add.task] = i]
           /\ \/ /\ panic' = TRUE /\ i < 0 /\ UNCHANGED <<buckets, add>>
              \/ /\ panic' = panic /\ i \in Slots /\ buckets[i] = <<>>
                 /\ buckets' = [buckets EXCEPT ![i] = <<[tier |-> k, tasks |-> {add.task}]>>]
                 /\ add' = NoAdd
              \/ /\ panic' = panic /\ i \in Slots /\ buckets[i] # <<>>
                 /\ add' = [at |-> "walk", task |-> add.task, tier |-> k, index |-> i,
                            popped |-> <<>>]
                 /\ UNCHANGED buckets
<1> DEFINE s == Slot(add.tier, current.index + Rem(add.remain))
<1>1. add.at = "index" /\ add.tier \in Int /\ add.remain \in Int /\ current.index \in 0 .. L
  BY Zenon DEF WheelInv, WheelOK, AddOK, BucketIndex
<1>2. s[1] \in Int /\ s[2] \in Int /\ (~(s[2] < 0) => s[2] \in Slots)
  BY <1>1, SlotFacts, Zenon
<1>3. <<s[1], s[2]>> = s
  BY Zenon DEF Slot
<1>4. /\ slot' = [slot EXCEPT ![add.task] = s[2]]
      /\ \/ s[2] < 0 /\ panic' = TRUE /\ UNCHANGED <<buckets, add>>
         \/ /\ s[2] >= 0 /\ buckets[s[2]] = <<>>
            /\ buckets' = [buckets EXCEPT ![s[2]] = <<[tier |-> s[1], tasks |-> {add.task}]>>]
            /\ add' = NoAdd /\ panic' = panic
         \/ /\ s[2] >= 0 /\ buckets[s[2]] # <<>>
            /\ add' = [at |-> "walk", task |-> add.task, tier |-> s[1], index |-> s[2],
                       popped |-> <<>>]
            /\ UNCHANGED <<buckets, panic>>
      /\ UNCHANGED <<current, tick, due, ran, overtaken>>
  BY Zenon DEF BucketIndex
<1> HIDE DEF s
<1> s[1] \in Int /\ s[2] \in Int
  BY <1>2, Zenon
<1>6. s = Slot(add.tier, current.index + Rem(add.remain)) /\ (s[2] >= 0 => s[2] \in Slots)
  BY <1>2 DEF s
<1> WITNESS s[1] \in Int, s[2] \in Int
<1> QED BY <1>3, <1>4, <1>6

\* AddOnce puts the task into a bucket that had none of its tasks twice.
LEMMA PutOnce ==
    ASSUME WheelInv, add.at # "none", NEW i \in Slots, NEW b \in NodeSeq,
           Spread(b), Holds(b) = Holds(buckets[i]) \cup {add.task},
           buckets' = [buckets EXCEPT ![i] = b], add'.at = "none",
           UNCHANGED <<due, ran>>
    PROVE  OnceInv'
<1>0. add.task \in Task /\ buckets \in [Slots -> NodeSeq]
  BY Zenon DEF WheelInv, WheelOK, AddOK
<1>1. buckets'[i] = b /\ \A j \in Slots : j # i => buckets'[j] = buckets[j]
  BY <1>0, Zenon
<1>2. \A j \in Slots : Spread(buckets'[j])
  BY <1>1, Zenon DEF WheelInv, OnceInv
<1>3. \A j \in Slots : \A t \in Task : t # add.task => (t \in Holds(buckets'[j]) <=> t \in Holds(buckets[j]))
  BY <1>1, Zenon
<1>4. \A j \in Slots : add.task \in Holds(buckets'[j]) => j = i
  BY <1>1, Zenon DEF WheelInv, OnceInv
<1>5. \A j, k \in Slots : \A t \in Task :
        t \in Holds(buckets'[j]) /\ t \in Holds(buckets'[k]) => j = k
  BY <1>3, <1>4 DEF WheelInv, OnceInv
<1>6. \A t \in Task :
          /\ Len(ran'[t]) <= 1
          /\ ran'[t] # <<>> => \A j \in Slots : t \notin Holds(buckets'[j])
          /\ due'[t] = -1 => ran'[t] = <<>> /\ \A j \in Slots : t \notin Holds(buckets'[j])
  <2> TAKE t \in Task
  <2>1. CASE t = add.task
    BY <2>1, Zenon DEF WheelInv, OnceInv
  <2>2. CASE t # add.task
    BY <1>3, <2>2, Zenon DEF WheelInv, OnceInv
  <2> QED BY <2>1, <2>2
<1> QED BY <1>2, <1>5, <1>6 DEF OnceInv

\* AddOnce finds its bucket: it panics, fills an empty one or starts to walk.
LEMMA IndexStepKeeps ==
    ASSUME WheelInv, BucketIndex
    PROVE  WheelInv'
<1>1. PICK k, i \in Int :
           /\ <<k, i>> = Slot(add.tier, current.index + Rem(add.remain))
           /\ UNCHANGED <<current, tick, due, ran, overtaken>>
           /\ slot' = [slot EXCEPT ![add.task] = i]
           /\ \/ /\ panic' = TRUE /\ i < 0 /\ UNCHANGED <<buckets, add>>
              \/ /\ panic' = panic /\ i \in Slots /\ buckets[i] = <<>>
                 /\ buckets' = [buckets EXCEPT ![i] = <<[tier |-> k, tasks |-> {add.task}]>>]
                 /\ add' = NoAdd
              \/ /\ panic' = panic /\ i \in Slots /\ buckets[i] # <<>>
                 /\ add' = [at |-> "walk", task |-> add.task, tier |-> k, index |-> i,
                            popped |-> <<>>]
                 /\ UNCHANGED buckets
  BY IndexCases, Zenon
<1>2. add.at = "index" /\ add.task \in Task /\ due[add.task] # -1 /\ ~panic
  BY Zenon DEF WheelInv, WheelOK, AddOK, OnceInv, BucketIndex
<1>3. slot' \in [Task -> Int] /\ slot'[add.task] = i
      /\ \A t \in Task : t # add.task => slot'[t] = slot[t]
  BY <1>1, <1>2, Zenon DEF WheelInv, WheelOK
<1>4. TimeInv'
  BY <1>1, Zenon DEF WheelInv, TimeInv
<1>5. \A t \in Task : due'[t] = -1 => slot'[t] = -1
  BY <1>1, <1>2, <1>3, Zenon DEF WheelInv, SlotInv
<1>6. CASE panic' = TRUE /\ i < 0 /\ UNCHANGED <<buckets, add>>
  <2>1. AddOK'
    BY <1>6, Zenon DEF WheelInv, WheelOK, AddOK
  <2>2. WheelOK'
    BY <1>1, <1>3, <1>6, <2>1, Zenon DEF WheelInv, WheelOK
  <2>3. RisingInv' /\ OnceInv'
    BY <1>1, <1>6, Zenon DEF WheelInv, RisingInv, OnceInv
  <2>4. SlotInv'
    BY <1>2, <1>5, <1>6, Zenon DEF SlotInv
  <2> QED BY <1>4, <2>2, <2>3, <2>4 DEF WheelInv
<1>7. CASE panic' = panic /\ i \in Slots /\ buckets[i] = <<>>
           /\ buckets' = [buckets EXCEPT ![i] = <<[tier |-> k, tasks |-> {add.task}]>>]
           /\ add' = NoAdd
  <2> DEFINE b == <<[tier |-> k, tasks |-> {add.task}]>>
  <2>1. b \in NodeSeq /\ Rising(b) /\ Spread(b) /\ Holds(b) = {add.task}
    BY <1>2, OneNode, Zenon
  <2>2. Holds(buckets[i]) = {}
    BY <1>7 DEF Holds
  <2>3. buckets' = [buckets EXCEPT ![i] = b] /\ add'.at = "none"
    BY <1>7, Zenon DEF NoAdd
  <2> HIDE DEF b
  <2>4. buckets' \in [Slots -> NodeSeq] /\ \A j \in Slots : Rising(buckets'[j])
    BY <1>7, <2>1, <2>3 DEF WheelInv, WheelOK, RisingInv
  <2>5. AddOK'
    BY <1>7, <2>3, Zenon DEF AddOK
  <2>6. WheelOK'
    BY <1>1, <1>3, <1>7, <2>4, <2>5, Zenon DEF WheelInv, WheelOK
  <2>7. OnceInv'
    BY <1>1, <1>2, <1>7, <2>1, <2>2, <2>3, PutOnce, Zenon
  <2>8. RisingInv' /\ SlotInv'
    BY <1>5, <2>3, <2>4, Zenon DEF RisingInv, SlotInv
  <2> QED BY <1>4, <2>6, <2>7, <2>8 DEF WheelInv
<1>8. CASE panic' = panic /\ i \in Slots /\ buckets[i] # <<>>
           /\ add' = [at |-> "walk", task |-> add.task, tier |-> k, index |-> i, popped |-> <<>>]
           /\ UNCHANGED buckets
  <2>1. add'.at = "walk" /\ add'.task = add.task /\ add'.index = i /\ add'.popped = <<>>
    BY <1>8, Zenon
  <2>2. add' \in WalkRec
    BY <1>2, <1>8 DEF WalkRec, NodeSeq
  <2>3. AddOK'
    BY <1>2, <2>1, <2>2 DEF AddOK, NoAdd
  <2>4. WheelOK'
    BY <1>1, <1>3, <1>8, <2>3, Zenon DEF WheelInv, WheelOK
  <2>5. Rising(<<>>) /\ DOMAIN <<>> = {}
    BY DEF Rising
  <2>6. RisingInv'
    BY <1>8, <2>1, <2>5, Zenon DEF WheelInv, RisingInv
  <2>7. OnceInv' /\ SlotInv'
    BY <1>1, <1>2, <1>3, <1>5, <1>8, <2>1, Zenon DEF WheelInv, OnceInv, SlotInv
  <2> QED BY <1>4, <2>4, <2>6, <2>7 DEF WheelInv
<1> QED BY <1>1, <1>6, <1>7, <1>8

\* Where an element of the second of two sequences is in their concatenation.
LEMMA Joined ==
    ASSUME NEW S, NEW s \in Seq(S), NEW t \in Seq(S), NEW x \in 1 .. Len(t)
    PROVE  (s \o t)[x + Len(s)] = t[x]
<1>1. Len(s) \in Nat /\ Len(t) \in Nat /\ x + Len(s) \in 1 .. Len(s) + Len(t)
  OBVIOUS
<1>2. ~(x + Len(s) <= Len(s)) /\ (x + Len(s)) - Len(s) = x
  BY <1>1
<1> QED BY <1>1, <1>2

\* The walk fails at the head, ends at a node that was popped, or at one of the
\* bucket.
LEMMA WalkCases ==
    ASSUME WheelInv, Walk
    PROVE  /\ ~panic /\ add.at = "walk" /\ add \in WalkRec
           /\ UNCHANGED <<current, tick, due, slot, ran, overtaken>>
           /\ \/ panic' = TRUE /\ UNCHANGED <<buckets, add>>
              \/ /\ panic' = panic /\ add' = NoAdd
                 /\ \/ buckets' = buckets /\ add.popped # <<>>
                    \/ \E q \in DOMAIN buckets[add.index] :
                       /\ buckets[add.index][q].tier <= add.tier
                       /\ q < Len(buckets[add.index]) => add.tier < buckets[add.index][q + 1].tier
                       /\ buckets' = [buckets EXCEPT ![add.index] =
                             Inserted(buckets[add.index], q, add.tier, add.task)]
<1> DEFINE gone == Len(add.popped)
           b == buckets[add.index]
           list == add.popped \o b
<1>1. ~panic /\ add.at = "walk" /\ add \in WalkRec
  BY Zenon DEF WheelInv, WheelOK, AddOK, Walk
<1>2. UNCHANGED <<current, tick, due, slot, ran, overtaken>>
  BY Zenon DEF Walk, history
<1>3. add.popped \in NodeSeq /\ add.index \in Slots /\ b \in NodeSeq
  BY <1>1, Zenon DEF WheelInv, WheelOK, WalkRec
<1>4. \/ panic' = TRUE /\ UNCHANGED <<buckets, add>>
      \/ \E p \in DOMAIN list :
         /\ Breaks(list, add.tier, p)
         /\ buckets' = IF p <= gone THEN buckets
                       ELSE [buckets EXCEPT ![add.index] =
                               Inserted(@, p - gone, add.tier, add.task)]
         /\ add' = NoAdd
         /\ panic' = panic
  BY Zenon DEF Walk
<1>5. CASE panic' = TRUE /\ UNCHANGED <<buckets, add>>
  BY <1>1, <1>2, <1>5, Zenon
<1>6. ASSUME NEW p \in DOMAIN list,
             Breaks(list, add.tier, p),
             buckets' = IF p <= gone THEN buckets
                        ELSE [buckets EXCEPT ![add.index] =
                               Inserted(@, p - gone, add.tier, add.task)],
             add' = NoAdd, panic' = panic
      PROVE  \/ buckets' = buckets /\ add.popped # <<>>
             \/ \E q \in DOMAIN b :
                       /\ b[q].tier <= add.tier
                       /\ q < Len(b) => add.tier < b[q + 1].tier
                       /\ buckets' = [buckets EXCEPT ![add.index] =
                             Inserted(b, q, add.tier, add.task)]
  <2>1. /\ gone \in Nat /\ Len(b) \in Nat /\ DOMAIN b = 1 .. Len(b) /\ list \in NodeSeq
        /\ Len(list) = gone + Len(b) /\ DOMAIN list = 1 .. Len(list)
    BY <1>3 DEF NodeSeq
  <2>2. p \in 1 .. gone + Len(b)
    BY <2>1, <1>6, Zenon
  <2>3. CASE p <= gone
    BY <1>6, <2>1, <2>2, <2>3
  <2>5. \A x \in 1 .. Len(b) : list[x + gone] = b[x]
    BY <1>3, Joined DEF NodeSeq
  <2>4. CASE ~(p <= gone)
    <3> DEFINE q == p - gone
    <3>00. gone = Len(add.popped) /\ b = buckets[add.index]
      BY Zenon
    <3> HIDE DEF gone, list, b
    <3>0. p \in Int /\ gone \in Int /\ Len(b) \in Int
      BY <2>1, <2>2
    <3>1. q \in DOMAIN b /\ q + gone = p
      BY <2>1, <2>2, <2>4
    <3>2. list[p] = b[q] /\ (q < Len(b) => list[p + 1] = b[q + 1])
      <4>1. q \in 1 .. Len(b) /\ q + gone = p /\ (q + 1) + gone = p + 1
            /\ (q < Len(b) => q + 1 \in 1 .. Len(b))
        BY <2>1, <2>2, <2>4
      <4> HIDE DEF q
      <4> QED BY <2>5, <4>1
    <3>3. buckets' = [buckets EXCEPT ![add.index] = Inserted(b, q, add.tier, add.task)]
      BY <1>6, <2>4, <3>00, Zenon
    <3>4. b[q].tier <= add.tier
      BY <1>6, <3>2, Zenon DEF Breaks
    <3>5. q < Len(b) => p < Len(list)
      BY <2>1, <2>2, <3>0
    <3>6. q < Len(b) => add.tier < b[q + 1].tier
      BY <1>6, <3>2, <3>5, Zenon DEF Breaks
    <3> HIDE DEF q
    <3> QED BY <3>1, <3>3, <3>4, <3>6
  <2> QED BY <2>3, <2>4
<1> QED BY <1>1, <1>2, <1>4, <1>5, <1>6

\* AddOnce walks to its tier and joins a node or inserts one.
LEMMA WalkKeeps ==
    ASSUME WheelInv, Walk
    PROVE  WheelInv'
<1>1. ~panic /\ add.at = "walk" /\ add \in WalkRec
      /\ UNCHANGED <<current, tick, due, slot, ran, overtaken>>
  BY WalkCases, Zenon
<1>2. add.task \in Task /\ add.tier \in Int /\ add.index \in Slots /\ buckets[add.index] \in NodeSeq
      /\ buckets \in [Slots -> NodeSeq]
  BY <1>1, Zenon DEF WheelInv, WheelOK, WalkRec
<1>3. TimeInv'
  BY <1>1, Zenon DEF WheelInv, TimeInv
<1>4. CASE panic' = TRUE /\ UNCHANGED <<buckets, add>>
  <2>1. AddOK'
    BY <1>4, Zenon DEF WheelInv, WheelOK, AddOK
  <2>2. WheelOK'
    BY <1>1, <1>4, <2>1, Zenon DEF WheelInv, WheelOK
  <2>3. RisingInv' /\ OnceInv' /\ SlotInv'
    BY <1>1, <1>4, Zenon DEF WheelInv, RisingInv, OnceInv, SlotInv
  <2> QED BY <1>3, <2>2, <2>3 DEF WheelInv
<1>5. ASSUME panic' = panic, add' = NoAdd PROVE add'.at = "none" /\ AddOK' /\ SlotInv'
  <2>1. add'.at = "none"
    BY <1>5, Zenon DEF NoAdd
  <2> QED BY <1>1, <1>5, <2>1 DEF AddOK, WheelInv, SlotInv
<1>6. CASE panic' = panic /\ add' = NoAdd /\ buckets' = buckets
  <2>1. WheelOK'
    BY <1>1, <1>5, <1>6, Zenon DEF WheelInv, WheelOK
  <2>2. RisingInv' /\ OnceInv'
    BY <1>1, <1>5, <1>6, Zenon DEF WheelInv, RisingInv, OnceInv
  <2> QED BY <1>3, <1>5, <1>6, <2>1, <2>2 DEF WheelInv
<1>7. ASSUME NEW q \in DOMAIN buckets[add.index], panic' = panic, add' = NoAdd,
             buckets[add.index][q].tier <= add.tier,
             q < Len(buckets[add.index]) => add.tier < buckets[add.index][q + 1].tier,
             buckets' = [buckets EXCEPT ![add.index] =
                           Inserted(buckets[add.index], q, add.tier, add.task)]
      PROVE  WheelInv'
  <2> DEFINE i == add.index
             c == Inserted(buckets[i], q, add.tier, add.task)
  <2>1. Rising(buckets[i]) /\ Spread(buckets[i]) /\ add.task \notin Holds(buckets[i])
    BY <1>1, <1>2, Zenon DEF WheelInv, RisingInv, OnceInv
  <2>2. c \in NodeSeq /\ Rising(c) /\ Spread(c) /\ Holds(c) = Holds(buckets[i]) \cup {add.task}
    BY <1>2, <1>7, <2>1, InsertNode
  <2>3. buckets' = [buckets EXCEPT ![i] = c]
    BY <1>7, Zenon
  <2> HIDE DEF c
  <2>4. buckets' \in [Slots -> NodeSeq] /\ \A j \in Slots : Rising(buckets'[j])
    BY <1>2, <2>2, <2>3, Zenon DEF WheelInv, RisingInv
  <2>5. OnceInv'
    BY <1>1, <1>2, <1>5, <1>7, <2>2, <2>3, PutOnce, Zenon
  <2>6. WheelOK' /\ RisingInv'
    BY <1>1, <1>5, <1>7, <2>4, Zenon DEF WheelInv, WheelOK, RisingInv
  <2> QED BY <1>3, <1>5, <1>7, <2>5, <2>6 DEF WheelInv
<1> QED BY <1>4, <1>6, <1>7, WalkCases

\* The body of the loop: the bucket stays as it is, or its first node is taken
\* out and its tasks are started.
LEMMA RunCases ==
    ASSUME WheelInv, RunBucket
    PROVE  LET b == buckets[tick.i] IN
           /\ tick.at = "run" /\ Ticks /\ tick.i \in Slots /\ b \in NodeSeq
           /\ UNCHANGED <<current, panic, due, slot>>
           /\ tick' \in [at : {"sleep", "index", "tier", "zero", "run"}, i : Slots]
           /\ tick'.at = "sleep" /\ tick'.i = current.index
           /\ \/ /\ (b # <<>> => current.tier # b[1].tier)
                 /\ UNCHANGED <<buckets, ran, add>>
              \/ /\ b # <<>> /\ current.tier = b[1].tier
                 /\ buckets' = [buckets EXCEPT ![tick.i] = Tail(b)]
                 /\ ran' = [t \in Task |-> IF t \in b[1].tasks
                                            THEN Append(ran[t], current.timestamp) ELSE ran[t]]
                 /\ \/ /\ add.at = "walk" /\ add.index = tick.i
                       /\ add' = [add EXCEPT !.popped = Append(add.popped, b[1])]
                    \/ /\ add.at = "walk" => add.index # tick.i
                       /\ add' = add
<1> DEFINE b == buckets[tick.i]
           r == Runs(b)
<1>1. tick.at = "run" /\ Ticks /\ tick.i \in Slots /\ b \in NodeSeq
  BY Zenon DEF WheelInv, WheelOK, RunBucket
<1>2. /\ UNCHANGED <<current, panic, due, slot>>
      /\ tick' = [at |-> "sleep", i |-> (tick.i + 1) % L]
      /\ buckets' = [buckets EXCEPT ![tick.i] = r[2]]
      /\ ran' = [t \in Task |-> IF r[1] /\ t \in b[1].tasks
                                 THEN Append(ran[t], current.timestamp) ELSE ran[t]]
      /\ add' = IF r[1] /\ add.at = "walk" /\ add.index = tick.i
                THEN [add EXCEPT !.popped = Append(add.popped, b[1])] ELSE add
  BY Zenon DEF RunBucket, L, Task
<1>3. (tick.i + 1) % L = current.index /\ current.index \in Slots
  <2>1. /\ current.index # L /\ current.index \in 0 .. L
        /\ tick.i = IF current.index = 0 THEN L - 1 ELSE current.index - 1
    BY <1>1, Zenon DEF WheelInv, WheelOK, TimeInv
  <2>2. L \in Nat \ {0}
    BY WheelAssumption, Zenon DEF L
  <2>3. current.index = 0 => tick.i + 1 = L
    BY <2>1, <2>2
  <2>4. L % L = 0
    BY <2>2
  <2>5. current.index # 0 => tick.i + 1 = current.index /\ current.index \in 1 .. L - 1
    BY <2>1, <2>2
  <2>6. \A x \in 1 .. L - 1 : x % L = x
    BY <2>2
  <2>7. current.index \in Slots
    BY <2>1, <2>2 DEF Slots
  <2> QED BY <2>3, <2>4, <2>5, <2>6, <2>7
<1>4. /\ tick' \in [at : {"sleep", "index", "tier", "zero", "run"}, i : Slots]
      /\ tick'.at = "sleep" /\ tick'.i = current.index
  BY <1>2, <1>3, Zenon
<1>5. CASE b # <<>> /\ current.tier = b[1].tier
  <2>1. r[1] = TRUE /\ r[2] = Tail(b)
    BY <1>5, Zenon DEF Runs
  <2> HIDE DEF r, b
  <2>2. /\ buckets' = [buckets EXCEPT ![tick.i] = Tail(b)]
        /\ ran' = [t \in Task |-> IF t \in b[1].tasks
                                   THEN Append(ran[t], current.timestamp) ELSE ran[t]]
        /\ add' = IF add.at = "walk" /\ add.index = tick.i
                  THEN [add EXCEPT !.popped = Append(add.popped, b[1])] ELSE add
    BY <1>2, <2>1, Zenon
  <2> QED BY <1>1, <1>2, <1>4, <1>5, <2>2 DEF b
<1>6. CASE ~(b # <<>> /\ current.tier = b[1].tier)
  <2>1. r[1] = FALSE /\ r[2] = b
    BY <1>6, Zenon DEF Runs
  <2>2. buckets' = [buckets EXCEPT ![tick.i] = buckets[tick.i]] /\ add' = add
    BY <1>2, <2>1, Zenon
  <2>3. buckets' = buckets
    BY <2>2, Zenon DEF WheelInv, WheelOK
  <2>4. ran' = [t \in Task |-> ran[t]]
    BY <1>2, <2>1, Zenon
  <2>5. ran' = ran
    BY <2>4, Zenon DEF WheelInv, WheelOK
  <2> QED BY <1>1, <1>2, <1>4, <1>6, <2>2, <2>3, <2>5
<1> QED BY <1>5, <1>6

\* Popped tasks are out of the buckets before they are started.
LEMMA RunKeeps ==
    ASSUME WheelInv, RunBucket
    PROVE  WheelInv'
<1> DEFINE i == tick.i
           b == buckets[i]
<1>1. /\ tick.at = "run" /\ Ticks /\ i \in Slots /\ b \in NodeSeq
      /\ UNCHANGED <<current, panic, due, slot>>
      /\ tick' \in [at : {"sleep", "index", "tier", "zero", "run"}, i : Slots]
      /\ tick'.at = "sleep" /\ tick'.i = current.index
  BY RunCases, Zenon
<1>2. overtaken' \subseteq Task
  BY <1>1, TicksAdds, Zenon
<1>3. TimeInv'
  BY <1>1, Zenon DEF WheelInv, TimeInv
<1>4. CASE UNCHANGED <<buckets, ran, add>>
  <2>1. AddOK'
    BY <1>4, Zenon DEF WheelInv, WheelOK, AddOK
  <2>2. WheelOK'
    BY <1>1, <1>2, <1>4, <2>1, Zenon DEF WheelInv, WheelOK
  <2>3. RisingInv' /\ OnceInv' /\ SlotInv'
    BY <1>1, <1>4, Zenon DEF WheelInv, RisingInv, OnceInv, SlotInv
  <2> QED BY <1>3, <2>2, <2>3 DEF WheelInv
<1>5. ASSUME b # <<>>,
             buckets' = [buckets EXCEPT ![i] = Tail(b)],
             ran' = [t \in Task |-> IF t \in b[1].tasks
                                     THEN Append(ran[t], current.timestamp) ELSE ran[t]],
             \/ /\ add.at = "walk" /\ add.index = i
                /\ add' = [add EXCEPT !.popped = Append(add.popped, b[1])]
             \/ /\ add.at = "walk" => add.index # i
                /\ add' = add
      PROVE  WheelInv'
  <2>0. /\ buckets \in [Slots -> NodeSeq] /\ ran \in [Task -> Seq(Int)] /\ AddOK
        /\ current.timestamp \in Int
    BY DEF WheelInv, WheelOK
  <2>1. Rising(b) /\ Spread(b)
    BY <1>1, Zenon DEF WheelInv, RisingInv, OnceInv
  <2>2. /\ b[1] \in Nodes /\ Tail(b) \in NodeSeq
        /\ Rising(Tail(b)) /\ Spread(Tail(b))
        /\ Holds(Tail(b)) = Holds(b) \ b[1].tasks /\ b[1].tasks \subseteq Holds(b)
        /\ \A n \in DOMAIN Tail(b) :
              n + 1 \in DOMAIN b /\ Tail(b)[n] = b[n + 1] /\ b[1].tier < b[n + 1].tier
    BY <1>1, <1>5, <2>1, TailNodes, Zenon
  <2>3. 1 \in DOMAIN b
    BY <1>1, <1>5 DEF NodeSeq
  <2> DEFINE c == Tail(b)
             first == b[1]
  <2>4. buckets' = [buckets EXCEPT ![i] = c]
    BY <1>5, Zenon
  <2>5. buckets'[i] = c /\ \A j \in Slots : j # i => buckets'[j] = buckets[j]
    BY <1>1, <2>0, <2>4, Zenon
  <2>6. buckets' \in [Slots -> NodeSeq]
    BY <2>0, <2>2, <2>4, Zenon
  <2>7. ran' \in [Task -> Seq(Int)]
    BY <1>5, <2>0
  <2>8. \A t \in Task : (t \in first.tasks => ran'[t] = Append(ran[t], current.timestamp))
                         /\ (t \notin first.tasks => ran'[t] = ran[t])
    BY <1>5, Zenon
  <2>9. /\ AddOK' /\ add'.at = add.at /\ (add.at # "none" => add'.task = add.task)
        /\ (add.at = "walk" => add'.index = add.index)
    <3>1. CASE add' = add
      BY <2>0, <3>1, Zenon DEF AddOK
    <3>2. CASE add.at = "walk" /\ add' = [add EXCEPT !.popped = Append(add.popped, b[1])]
      <4>1. add \in WalkRec
        BY <2>0, <3>2, Zenon DEF AddOK
      <4>2. Append(add.popped, b[1]) \in NodeSeq
        BY <2>2, <4>1 DEF WalkRec, NodeSeq
      <4>3. add' \in WalkRec /\ add'.at = "walk" /\ add'.task = add.task /\ add'.index = add.index
        BY <3>2, <4>1, <4>2, Zenon DEF WalkRec
      <4>4. add'.task \in Task
        BY <4>3, Zenon DEF WalkRec
      <4> QED BY <3>2, <4>3, <4>4 DEF AddOK, NoAdd
    <3> QED BY <1>5, <3>1, <3>2
  <2>10. WheelOK'
    BY <1>1, <1>2, <2>6, <2>7, <2>9, Zenon DEF WheelInv, WheelOK
  <2>11. SlotInv'
    BY <1>1, <2>9, Zenon DEF WheelInv, SlotInv
  <2>12. RisingInv'
    <3>1. \A j \in Slots : Rising(buckets'[j])
      BY <2>2, <2>5, Zenon DEF WheelInv, RisingInv
    <3>2. CASE add.at = "walk" /\ add.index = i
      <4>1. add \in WalkRec /\ add' = [add EXCEPT !.popped = Append(add.popped, b[1])]
        BY <1>5, <2>0, <3>2, Zenon DEF AddOK
      <4>2. add.popped \in NodeSeq /\ add'.popped = Append(add.popped, first)
        BY <4>1, Zenon DEF WalkRec
      <4>3. /\ Rising(add.popped)
            /\ \A n \in DOMAIN add.popped, o \in DOMAIN b : add.popped[n].tier < b[o].tier
        BY <3>2, Zenon DEF WheelInv, RisingInv
      <4> DEFINE s == add.popped
                 s1 == Append(s, first)
      <4>4. /\ Len(s) \in Nat /\ DOMAIN s = 1 .. Len(s) /\ DOMAIN s1 = 1 .. Len(s) + 1
            /\ s1[Len(s) + 1] = first /\ \A n \in 1 .. Len(s) : s1[n] = s[n]
        BY <2>2, <4>2 DEF NodeSeq
      <4> HIDE DEF s, s1, first, c
      <4>5. \A n \in DOMAIN s1 : n \in Int /\ (n \in DOMAIN s \/ n = Len(s) + 1)
        BY <4>4
      <4>6. \A n \in DOMAIN s : s[n].tier < first.tier
        BY <2>3, <4>3, Zenon DEF s, first
      <4>7. Rising(s1)
        <5> SUFFICES ASSUME NEW n \in DOMAIN s1, NEW o \in DOMAIN s1, n < o
                     PROVE  s1[n].tier < s1[o].tier
          BY Zenon DEF Rising
        <5>1. CASE o \in DOMAIN s
          <6>1. n \in DOMAIN s
            BY <4>4, <4>5, <5>1
          <6> QED BY <4>3, <4>4, <5>1, <6>1 DEF Rising, s
        <5>2. CASE o = Len(s) + 1
          <6>1. n \in DOMAIN s
            BY <4>4, <4>5, <5>2
          <6> QED BY <4>4, <4>6, <5>2, <6>1
        <5> QED BY <4>5, <5>1, <5>2
      <4>8. \A n \in DOMAIN s1, o \in DOMAIN c : s1[n].tier < c[o].tier
        <5> TAKE n \in DOMAIN s1, o \in DOMAIN c
        <5>1. o + 1 \in DOMAIN b /\ c[o] = b[o + 1] /\ first.tier < b[o + 1].tier
          BY <2>2, Zenon DEF c, first
        <5>2. CASE n \in DOMAIN s
          BY <4>3, <4>4, <5>1, <5>2, Zenon DEF s
        <5>3. CASE n = Len(s) + 1
          BY <4>4, <5>1, <5>3, Zenon
        <5> QED BY <4>5, <5>2, <5>3
      <4>9. s1 # <<>>
        BY <4>4
      <4>10. add'.popped = s1 /\ buckets'[add'.index] = c
        BY <2>5, <2>9, <3>2, <4>2, Zenon DEF s1, s
      <4> QED BY <3>1, <4>7, <4>8, <4>9, <4>10 DEF RisingInv
    <3>3. CASE ~(add.at = "walk" /\ add.index = i)
      <4>1. add' = add
        BY <1>5, <3>3, Zenon
      <4>2. add.at = "walk" => add.index \in Slots /\ buckets'[add.index] = buckets[add.index]
        BY <2>0, <2>5, <3>3, Zenon DEF AddOK, WalkRec
      <4> QED BY <3>1, <4>1, <4>2 DEF WheelInv, RisingInv
    <3> QED BY <3>2, <3>3
  <2>13. OnceInv'
    <3> HIDE DEF c, first
    <3>0. Holds(c) = Holds(b) \ first.tasks /\ first.tasks \subseteq Holds(b) /\ Spread(c)
      BY <2>2, Zenon DEF c, first
    <3>1. \A j \in Slots : Spread(buckets'[j])
      BY <2>5, <3>0, Zenon DEF WheelInv, OnceInv
    <3>2. \A j \in Slots : Holds(buckets'[j]) \subseteq Holds(buckets[j])
      BY <2>5, <3>0, Zenon
    <3>3. \A j, k \in Slots : \A t \in Task :
             t \in Holds(buckets'[j]) /\ t \in Holds(buckets'[k]) => j = k
      BY <3>2, Zenon DEF WheelInv, OnceInv
    <3>4. \A t \in first.tasks : \A j \in Slots : t \notin Holds(buckets'[j])
      <4> TAKE t \in first.tasks
      <4> TAKE j \in Slots
      <4>1. t \in Task /\ t \in Holds(buckets[i])
        BY <3>0, Zenon DEF Holds
      <4>2. CASE j = i
        BY <2>5, <3>0, <4>2, Zenon
      <4>3. CASE j # i
        BY <1>1, <2>5, <4>1, <4>3, Zenon DEF WheelInv, OnceInv
      <4> QED BY <4>2, <4>3
    <3>5. \A t \in first.tasks : t \in Task /\ ran[t] = <<>> /\ due[t] # -1
                                 /\ (add.at # "none" => t # add.task)
      BY <1>1, <3>0 DEF WheelInv, OnceInv, Holds
    <3>6. \A t \in Task :
          /\ Len(ran'[t]) <= 1
          /\ ran'[t] # <<>> => \A j \in Slots : t \notin Holds(buckets'[j])
          /\ due'[t] = -1 => ran'[t] = <<>> /\ \A j \in Slots : t \notin Holds(buckets'[j])
      <4> TAKE t \in Task
      <4>1. CASE t \in first.tasks
        <5>1. ran'[t] = <<current.timestamp>>
          BY <2>0, <2>8, <3>5, <4>1
        <5>2. Len(ran'[t]) <= 1
          BY <5>1
        <5> QED BY <1>1, <3>4, <3>5, <4>1, <5>2
      <4>2. CASE t \notin first.tasks
        BY <1>1, <2>8, <3>2, <4>2, Zenon DEF WheelInv, OnceInv
      <4> QED BY <4>1, <4>2
    <3>7. add'.at # "none" =>
          /\ due'[add'.task] # -1 /\ ran'[add'.task] = <<>>
          /\ \A j \in Slots : add'.task \notin Holds(buckets'[j])
      BY <1>1, <2>0, <2>8, <2>9, <3>2, <3>5, Zenon DEF WheelInv, OnceInv, AddOK
    <3> QED BY <3>1, <3>3, <3>6, <3>7 DEF OnceInv
  <2> QED BY <1>3, <2>10, <2>11, <2>12, <2>13 DEF WheelInv
<1> QED BY <1>4, <1>5, RunCases

\* Every step keeps the invariant.
LEMMA WheelStep ==
    ASSUME WheelInv, Next
    PROVE  WheelInv'
BY IncrKeeps, AddOnceKeeps, ReadKeeps, IndexStepKeeps, WalkKeeps, RunKeeps, Zenon DEF Next

\* So does a step that leaves the wheel alone.
LEMMA WheelStutters ==
    ASSUME WheelInv, UNCHANGED vars
    PROVE  WheelInv'
BY Zenon DEF vars, WheelInv, WheelOK, AddOK, TimeInv, RisingInv, OnceInv, SlotInv

-------------------------------------------------------------------------------

(* The wheel is on time *)

\* No tick fell into the call so far.
Calm == add.at # "none" /\ add.task \notin overtaken

\* What such a call has read is still true.
CalmInv ==
    ~panic /\ Calm =>
        /\ tick.at = "sleep" /\ current.timestamp <= due[add.task]
        /\ add.at = "remain" => add.time = due[add.task]
        /\ add.at \in {"tier", "index"} => add.remain = due[add.task] - current.timestamp
        /\ add.at = "index" => add.tier = current.tier + (add.remain \div L)
        /\ add.at = "walk" => add.popped = <<>> /\ At(add.tier, add.index) = due[add.task]

\* The time from which on the nodes of a bucket are: one tick back for the
\* bucket whose tick has not come to it.
Passed(i) ==
    IF tick.at # "sleep" /\ i = tick.i THEN current.timestamp - 1 ELSE current.timestamp

\* No node of the bucket is over, each has the tasks of its time, and a task
\* that chose the bucket is in it until it is started, at its time.
Punctual(i) ==
    /\ \A n \in DOMAIN buckets[i] :
          /\ Passed(i) <= At(buckets[i][n].tier, i)
          /\ \A t \in buckets[i][n].tasks : slot[t] = i /\ due[t] = At(buckets[i][n].tier, i)
    /\ \A t \in Task : slot[t] = i =>
          /\ ran[t] # <<>> \/ t \in Holds(buckets[i]) \/ (add.at = "walk" /\ add.task = t)
          /\ \A n \in DOMAIN ran[t] : ran[t][n] = due[t] + 1

PunctualInv ==
    ~panic => \A i \in Slots : i # L - 1 /\ Clean(i) => Punctual(i)

OnTimeInv == WheelInv /\ CalmInv /\ PunctualInv

\* A new wheel is on time.
LEMMA OnTimeInit == Init => OnTimeInv
<1> SUFFICES ASSUME Init PROVE OnTimeInv
  BY Zenon
<1>1. WheelInv
  BY WheelInit, Zenon
<1>2. add.at = "none" /\ (\A i \in Slots : buckets[i] = <<>>) /\ \A t \in Task : slot[t] = -1
  BY Zenon DEF Init, NoAdd, L, Task, Slots
<1>3. \A i \in Slots : i # -1
  BY WheelAssumption DEF L, Slots
<1>4. CalmInv
  BY <1>2, Zenon DEF CalmInv, Calm
<1>5. PunctualInv
  BY <1>2, <1>3 DEF PunctualInv, Punctual
<1> QED BY <1>1, <1>4, <1>5 DEF OnTimeInv

\* A tick that falls into a call leaves no claim about it.
LEMMA TickedCalm ==
    ASSUME WheelInv, Ticks, add'.at = add.at, add.at # "none" => add'.task = add.task
    PROVE  CalmInv'
BY TicksAdds, Zenon DEF CalmInv, Calm

\* A bucket no overtaken call chose after a step was such a bucket before it.
LEMMA CleanBefore ==
    ASSUME NEW i, WheelInv, overtaken \subseteq overtaken', slot' = slot, Clean(i)'
    PROVE  Clean(i)
BY Zenon DEF Clean

\* The writes of a tick before it runs the bucket.
LEMMA IncrOnTime ==
    ASSUME OnTimeInv, IncrTime \/ IncrIndex \/ TierIncr
    PROVE  OnTimeInv'
<1>0. WheelInv /\ WheelInv'
  BY IncrKeeps, Zenon DEF OnTimeInv
<1>1. /\ Ticks
      /\ buckets' = buckets /\ add' = add /\ panic' = panic
      /\ due' = due /\ slot' = slot /\ ran' = ran
  BY Zenon DEF IncrTime, IncrIndex, TierIncr, history
<1>2. CalmInv'
  BY <1>0, <1>1, TickedCalm, Zenon
<1>3. PunctualInv'
  <2> SUFFICES ASSUME ~panic, NEW i \in Slots, i # L - 1, Clean(i)'
               PROVE  Punctual(i)'
    BY <1>1, Zenon DEF PunctualInv
  <2>1. Punctual(i)
    BY <1>0, <1>1, TicksAdds, CleanBefore, Zenon DEF OnTimeInv, PunctualInv
  <2>2. /\ current \in [timestamp : 0 .. MaxTime, tier : Nat, index : 0 .. L]
        /\ tick \in [at : {"sleep", "index", "tier", "zero", "run"}, i : Slots]
        /\ buckets[i] \in NodeSeq
    BY <1>0, Zenon DEF WheelInv, WheelOK
  <2>3. \A n \in DOMAIN buckets[i] : buckets[i][n].tier \in Int
    BY <1>0, BucketNodes, Zenon DEF WheelInv
  <2>4. \A n \in DOMAIN buckets[i] : Passed(i)' <= At(buckets[i][n].tier, i)
    <3> TAKE n \in DOMAIN buckets[i]
    <3> DEFINE k == buckets[i][n].tier
    <3>0. k \in Int /\ i \in Int /\ At(k, i) \in Int /\ Passed(i) <= At(k, i)
      <4>1. k \in Int /\ i \in Int
        BY <2>3, WheelAssumption DEF L, Slots
      <4>2. Passed(i) <= At(k, i)
        BY <2>1, Zenon DEF Punctual
      <4> HIDE DEF k
      <4>3. At(k, i) \in Int
        BY <4>1, AtFacts, Zenon
      <4> QED BY <4>1, <4>2, <4>3
    <3> HIDE DEF k
    <3>1. CASE IncrTime
      <4>1. /\ tick.at = "sleep" /\ tick'.at = "index" /\ tick'.i = tick.i
            /\ current'.timestamp = current.timestamp + 1
        BY <2>2, <3>1, Zenon DEF IncrTime
      <4>2. /\ tick.i = current.index /\ current.index \in Slots
            /\ current.timestamp = At(current.tier, current.index)
        BY <1>0, <2>2, <4>1, Zenon DEF WheelInv, TimeInv
      <4>3. current.timestamp \in Int /\ current.tier \in Int
        BY <2>2
      <4>4. current.timestamp <= At(k, i)
        BY <3>0, <4>1, Zenon DEF Passed
      <4>5. CASE i = tick.i
        BY <3>0, <4>1, <4>3, <4>4, <4>5 DEF Passed, k
      <4>6. CASE i # tick.i
        <5>1. At(k, i) # current.timestamp
          BY <3>0, <4>2, <4>3, <4>6, AtApart, Zenon
        <5>2. current.timestamp + 1 <= At(k, i)
          BY <3>0, <4>3, <4>4, <5>1
        <5> QED BY <4>1, <4>6, <5>2 DEF Passed, k
      <4> QED BY <4>5, <4>6
    <3>2. CASE IncrIndex \/ TierIncr
      <4>1. /\ tick.at # "sleep" /\ tick'.at # "sleep" /\ tick'.i = tick.i
            /\ current'.timestamp = current.timestamp
        BY <2>2, <3>2, Zenon DEF IncrIndex, TierIncr
      <4> QED BY <3>0, <4>1 DEF Passed, k
    <3> QED BY <3>1, <3>2
  <2> QED BY <1>1, <2>1, <2>4 DEF Punctual
<1> QED BY <1>0, <1>2, <1>3 DEF OnTimeInv

\* A call of AddOnce begins.
LEMMA AddOnceOnTime ==
    ASSUME OnTimeInv, NEW t \in Task, NEW a \in Ahead, AddOnce(t, current.timestamp + a)
    PROVE  OnTimeInv'
<1>0. WheelInv /\ WheelInv'
  BY AddOnceKeeps, Zenon DEF OnTimeInv
<1> DEFINE ts == IF current.timestamp + a <= current.timestamp
                 THEN current.timestamp ELSE current.timestamp + a
<1>1. t \in Task /\ a \in Int /\ current.timestamp \in Int
  BY <1>0, WheelAssumption DEF L, Task, WheelInv, WheelOK
<1>2. current.timestamp <= ts /\ ts \in Int
  BY <1>1
<1>3. /\ ~panic /\ add = NoAdd /\ due[t] = -1
      /\ add' = [at |-> "remain", task |-> t, time |-> ts]
      /\ due' = [due EXCEPT ![t] = ts]
      /\ overtaken' = overtaken \cup IF tick.at = "sleep" THEN {} ELSE {t}
      /\ UNCHANGED <<current, buckets, tick, panic, slot, ran>>
  BY Zenon DEF AddOnce
<1> HIDE DEF ts
<1>4. /\ add'.at = "remain" /\ add'.task = t /\ add'.time = ts /\ add.at = "none"
      /\ due'[t] = ts /\ \A u \in Task : u # t => due'[u] = due[u]
  BY <1>0, <1>1, <1>3, Zenon DEF WheelInv, WheelOK, NoAdd
<1>5. CalmInv'
  BY <1>2, <1>3, <1>4, Zenon DEF CalmInv, Calm
<1>6. PunctualInv'
  <2> SUFFICES ASSUME NEW i \in Slots, i # L - 1, Clean(i)'
               PROVE  Punctual(i)'
    BY Zenon DEF PunctualInv
  <2>1. Punctual(i)
    BY <1>0, <1>3, CleanBefore, Zenon DEF OnTimeInv, PunctualInv
  <2>2. slot[t] = -1 /\ t \notin Holds(buckets[i]) /\ i # -1
    BY <1>0, <1>1, <1>3, WheelAssumption DEF L, WheelInv, SlotInv, OnceInv, Slots
  <2>3. \A n \in DOMAIN buckets[i] : \A u \in buckets[i][n].tasks : u \in Task /\ u # t
    <3>1. \A n \in DOMAIN buckets[i] : buckets[i][n].tasks \subseteq Task
      BY <1>0, BucketNodes, Zenon DEF WheelInv
    <3> QED BY <2>2, <3>1 DEF Holds
  <2>4. Passed(i)' = Passed(i)
    BY <1>3, Zenon DEF Passed
  <2>5. \A n \in DOMAIN buckets'[i] :
          /\ Passed(i)' <= At(buckets'[i][n].tier, i)
          /\ \A u \in buckets'[i][n].tasks : slot'[u] = i /\ due'[u] = At(buckets'[i][n].tier, i)
    BY <1>3, <1>4, <2>1, <2>3, <2>4, Zenon DEF Punctual
  <2>6. \A u \in Task : slot'[u] = i =>
          /\ ran'[u] # <<>> \/ u \in Holds(buckets'[i]) \/ (add'.at = "walk" /\ add'.task = u)
          /\ \A n \in DOMAIN ran'[u] : ran'[u][n] = due'[u] + 1
    BY <1>3, <1>4, <2>1, <2>2, Zenon DEF Punctual
  <2> QED BY <2>5, <2>6 DEF Punctual
<1> QED BY <1>0, <1>5, <1>6 DEF OnTimeInv

\* AddOnce reads the clock and the tier.
LEMMA ReadOnTime ==
    ASSUME OnTimeInv, Remain \/ TaskTier
    PROVE  OnTimeInv'
<1>0. WheelInv /\ WheelInv' /\ add'.task = add.task
      /\ add.at \in {"remain", "tier"} /\ add'.at \in {"tier", "index"}
  BY ReadKeeps, Zenon DEF OnTimeInv
<1>1. UNCHANGED <<current, buckets, tick, panic, due, slot, ran, overtaken>>
  BY Zenon DEF Remain, TaskTier, history
<1>2. PunctualInv'
  <2>1. \A i \in Slots : Clean(i)' => Clean(i)
    BY <1>1, Zenon DEF Clean
  <2>2. \A i \in Slots : Punctual(i) => Punctual(i)'
    BY <1>0, <1>1, Zenon DEF Punctual, Passed
  <2> QED BY <1>1, <2>1, <2>2 DEF OnTimeInv, PunctualInv
<1>3. CalmInv'
  <2> SUFFICES ASSUME ~panic, Calm'
               PROVE  CalmInv'
    BY <1>1, Zenon DEF CalmInv
  <2>1. Calm
    BY <1>0, <1>1, Zenon DEF Calm
  <2>2. /\ current.timestamp \in Int /\ due[add.task] \in Int /\ due[add.task] - current.timestamp \in Nat
        /\ tick.at = "sleep" /\ current.timestamp <= due[add.task]
    BY <1>0, <2>1 DEF OnTimeInv, CalmInv, WheelInv, WheelOK, AddOK
  <2>3. CASE Remain
    <3>1. add.at = "remain" /\ add'.at = "tier" /\ add'.remain = add.time - current.timestamp
      BY <2>3, Zenon DEF Remain
    <3>2. add.time = due[add.task]
      BY <2>1, <3>1, Zenon DEF OnTimeInv, CalmInv
    <3> QED BY <1>0, <1>1, <2>2, <3>1, <3>2 DEF CalmInv
  <2>4. CASE TaskTier
    <3>1. add.at = "tier" /\ add'.at = "index" /\ add'.remain = add.remain
          /\ add'.tier = current.tier + Quot(add.remain)
      BY <2>4, Zenon DEF TaskTier
    <3>2. add.remain = due[add.task] - current.timestamp
      BY <2>1, <3>1, Zenon DEF OnTimeInv, CalmInv
    <3>3. add.remain \in Nat
      BY <2>2, <3>2, Zenon
    <3>4. Quot(add.remain) = add.remain \div L
      BY <3>3 DEF Quot, L
    <3> QED BY <1>0, <1>1, <2>2, <3>1, <3>2, <3>4 DEF CalmInv
  <2> QED BY <2>3, <2>4
<1> QED BY <1>0, <1>2, <1>3 DEF OnTimeInv

\* AddOnce in a calm call puts the task where its time is.
LEMMA PutOnTime ==
    ASSUME OnTimeInv, WheelInv', ~panic, panic' = panic, add.at \in {"index", "walk"}, add'.at = "none",
           UNCHANGED <<current, tick, due, ran, overtaken>>,
           NEW i \in Slots, NEW b \in NodeSeq, NEW k \in Int,
           slot[add.task] \in {-1, i}, slot' = [slot EXCEPT ![add.task] = i],
           buckets' = [buckets EXCEPT ![i] = b],
           \* only a call that was not calm may have lost its task
           Calm => At(k, i) = due[add.task] /\ tick.at = "sleep" /\ current.timestamp <= due[add.task],
           Calm => Holds(b) = Holds(buckets[i]) \cup {add.task},
           Joins(buckets[i], b, k, add.task)
    PROVE  OnTimeInv'
<1>0. /\ WheelInv /\ add.task \in Task /\ slot'[add.task] = i
      /\ \A t \in Task : t # add.task => slot'[t] = slot[t]
      /\ buckets'[i] = b /\ \A j \in Slots : j # i => buckets'[j] = buckets[j]
      /\ overtaken \subseteq Task
  BY Zenon DEF OnTimeInv, WheelInv, WheelOK, AddOK
<1>1. CalmInv'
  BY Zenon DEF CalmInv, Calm
<1>2. PunctualInv'
  <2> SUFFICES ASSUME NEW j \in Slots, j # L - 1, Clean(j)'
               PROVE  Punctual(j)'
    BY Zenon DEF PunctualInv
  <2>0. slot[add.task] = -1 \/ slot[add.task] = i
    BY Zenon
  <2>00. j # -1
    BY WheelAssumption DEF L, Slots
  <2>1. Clean(j)
    <3> SUFFICES ASSUME NEW t \in overtaken PROVE slot[t] # j
      BY Zenon DEF Clean
    <3>1. slot'[t] # j /\ t \in Task
      BY <1>0, Zenon DEF Clean
    <3> QED BY <1>0, <2>0, <2>00, <3>1
  <2>2. Punctual(j)
    BY <2>1, Zenon DEF OnTimeInv, PunctualInv
  <2>3. Passed(j)' = Passed(j)
    BY Zenon DEF Passed
  <2>4. \A o \in DOMAIN buckets[j] : \A u \in buckets[j][o].tasks : u \in Task /\ u # add.task
    <3>1. \A n \in DOMAIN buckets[j] : buckets[j][n].tasks \subseteq Task
      BY <1>0, BucketNodes, Zenon DEF WheelInv
    <3>2. add.task \notin Holds(buckets[j])
      BY <1>0, Zenon DEF WheelInv, OnceInv
    <3> QED BY <1>0, <3>1, <3>2 DEF Holds
  <2>5. CASE j # i
    <3>1. \A n \in DOMAIN buckets'[j] :
          /\ Passed(j)' <= At(buckets'[j][n].tier, j)
          /\ \A t \in buckets'[j][n].tasks : slot'[t] = j /\ due'[t] = At(buckets'[j][n].tier, j)
      BY <1>0, <2>2, <2>3, <2>4, <2>5 DEF Punctual
    <3>2. \A t \in Task : slot'[t] = j =>
          /\ ran'[t] # <<>> \/ t \in Holds(buckets'[j]) \/ (add'.at = "walk" /\ add'.task = t)
          /\ \A n \in DOMAIN ran'[t] : ran'[t][n] = due'[t] + 1
      BY <1>0, <2>2, <2>5, Zenon DEF Punctual
    <3> QED BY <3>1, <3>2 DEF Punctual
  <2>6. CASE j = i
    <3>1. Calm
      BY <1>0, <2>6, Zenon DEF Calm, Clean
    <3>2. At(k, i) = due[add.task] /\ Passed(i) <= At(k, i)
      BY <3>1, Zenon DEF Passed
    <3>3. Holds(b) = Holds(buckets[i]) \cup {add.task}
      BY <3>1, Zenon
    <3>4. ASSUME NEW n \in DOMAIN b
          PROVE  /\ Passed(i) <= At(b[n].tier, i)
                 /\ \A u \in b[n].tasks : slot'[u] = i /\ due[u] = At(b[n].tier, i)
      <4>1. CASE \E o \in DOMAIN buckets[i] : b[n] = buckets[i][o]
        BY <1>0, <2>2, <2>4, <2>6, <4>1 DEF Punctual
      <4>2. CASE b[n].tier = k /\ \A u \in b[n].tasks : u # add.task =>
                     \E o \in DOMAIN buckets[i] : buckets[i][o].tier = k /\ u \in buckets[i][o].tasks
        <5>1. ASSUME NEW u \in b[n].tasks PROVE slot'[u] = i /\ due[u] = At(k, i)
          <6>1. CASE u = add.task
            BY <1>0, <3>2, <6>1, Zenon
          <6>2. CASE u # add.task
            <7>1. PICK o \in DOMAIN buckets[i] : buckets[i][o].tier = k /\ u \in buckets[i][o].tasks
              BY <4>2, <6>2, Zenon
            <7>2. u \in Task /\ slot[u] = i /\ due[u] = At(k, i)
              BY <2>2, <2>4, <2>6, <7>1 DEF Punctual
            <7> QED BY <1>0, <6>2, <7>2
          <6> QED BY <6>1, <6>2
        <5> QED BY <3>2, <4>2, <5>1
      <4> QED BY <4>1, <4>2 DEF Joins
    <3>5. ASSUME NEW t \in Task, slot'[t] = i
          PROVE  /\ ran[t] # <<>> \/ t \in Holds(b)
                 /\ \A n \in DOMAIN ran[t] : ran[t][n] = due[t] + 1
      <4>1. CASE t = add.task
        <5>1. ran[t] = <<>>
          BY <1>0, <4>1, Zenon DEF WheelInv, OnceInv
        <5> QED BY <3>3, <4>1, <5>1
      <4>2. CASE t # add.task
        BY <1>0, <2>2, <2>6, <3>3, <3>5, <4>2 DEF Punctual
      <4> QED BY <4>1, <4>2
    <3> QED BY <1>0, <2>3, <2>6, <3>4, <3>5 DEF Punctual
  <2> QED BY <2>5, <2>6
<1> QED BY <1>1, <1>2 DEF OnTimeInv

\* AddOnce finds its bucket.
LEMMA IndexOnTime ==
    ASSUME OnTimeInv, BucketIndex
    PROVE  OnTimeInv'
<1>0. WheelInv /\ WheelInv'
  BY IndexStepKeeps, Zenon DEF OnTimeInv
<1>1. PICK k, i \in Int :
           /\ <<k, i>> = Slot(add.tier, current.index + Rem(add.remain))
           /\ UNCHANGED <<current, tick, due, ran, overtaken>>
           /\ slot' = [slot EXCEPT ![add.task] = i]
           /\ \/ /\ panic' = TRUE /\ i < 0 /\ UNCHANGED <<buckets, add>>
              \/ /\ panic' = panic /\ i \in Slots /\ buckets[i] = <<>>
                 /\ buckets' = [buckets EXCEPT ![i] = <<[tier |-> k, tasks |-> {add.task}]>>]
                 /\ add' = NoAdd
              \/ /\ panic' = panic /\ i \in Slots /\ buckets[i] # <<>>
                 /\ add' = [at |-> "walk", task |-> add.task, tier |-> k, index |-> i,
                            popped |-> <<>>]
                 /\ UNCHANGED buckets
  BY <1>0, IndexCases, Zenon
<1>2. ~panic /\ add.at = "index" /\ add.task \in Task /\ slot[add.task] = -1
  BY <1>0, Zenon DEF WheelInv, WheelOK, AddOK, SlotInv, BucketIndex
<1>3. Calm => At(k, i) = due[add.task] /\ tick.at = "sleep" /\ current.timestamp <= due[add.task]
  <2> SUFFICES ASSUME Calm
               PROVE  At(k, i) = due[add.task] /\ tick.at = "sleep" /\ current.timestamp <= due[add.task]
    BY Zenon
  <2> DEFINE T == current.timestamp
             c == current.tier
             x == current.index
             r == add.remain
             l == L
  <2>1. /\ tick.at = "sleep" /\ T <= due[add.task] /\ r = due[add.task] - T
        /\ add.tier = c + (r \div l)
    BY <1>2, Zenon DEF OnTimeInv, CalmInv
  <2>2. T \in Int /\ due[add.task] \in Int /\ c \in Int /\ x \in 0 .. l /\ x \in Int /\ add.tier \in Int
    BY <1>0, <1>2 DEF WheelInv, WheelOK, AddOK
  <2>3. r \in Nat /\ T + r = due[add.task]
    BY <2>1, <2>2
  <2>4. T = At(c, x)
    BY <1>0, <2>1, Zenon DEF WheelInv, TimeInv
  <2>5. At(k, i) = At(add.tier, x + (r % l))
    <3>1. Slot(add.tier, x + Rem(r))[1] = k /\ Slot(add.tier, x + Rem(r))[2] = i
      BY <1>1
    <3> QED BY <2>2, <2>3, <3>1, SlotFacts
  <2>6. At(c + (r \div l), x + (r % l)) = At(c, x) + r
    BY <2>2, <2>3, AtQuot, Zenon
  <2> QED BY <2>1, <2>3, <2>4, <2>5, <2>6
<1>4. CASE panic' = TRUE
  BY <1>0, <1>4, Zenon DEF OnTimeInv, CalmInv, PunctualInv
<1>5. CASE panic' = panic /\ i \in Slots /\ buckets[i] = <<>>
           /\ buckets' = [buckets EXCEPT ![i] = <<[tier |-> k, tasks |-> {add.task}]>>]
           /\ add' = NoAdd
  <2> DEFINE b == <<[tier |-> k, tasks |-> {add.task}]>>
  <2>1. b \in NodeSeq /\ Holds(b) = {add.task}
    BY <1>2, OneNode, Zenon
  <2>2. Holds(buckets[i]) = {} /\ add'.at = "none"
    BY <1>5 DEF Holds, NoAdd
  <2>3. \A n \in DOMAIN b : b[n].tier = k /\ \A u \in b[n].tasks : u = add.task
    OBVIOUS
  <2>4. buckets' = [buckets EXCEPT ![i] = b]
    BY <1>5, Zenon
  <2> HIDE DEF b
  <2>5. Joins(buckets[i], b, k, add.task)
    BY <2>3, Zenon DEF Joins
  <2>6. Holds(b) = Holds(buckets[i]) \cup {add.task}
    BY <2>1, <2>2, Zenon
  <2>7. slot[add.task] \in {-1, i} /\ add.at \in {"index", "walk"} /\ i \in Slots /\ panic' = panic
    BY <1>2, <1>5, Zenon
  <2> QED BY <1>0, <1>1, <1>2, <1>3, <2>1, <2>2, <2>4, <2>5, <2>6, <2>7, PutOnTime
<1>6. CASE panic' = panic /\ i \in Slots /\ buckets[i] # <<>>
           /\ add' = [at |-> "walk", task |-> add.task, tier |-> k, index |-> i, popped |-> <<>>]
           /\ UNCHANGED buckets
  <2>1. add'.at = "walk" /\ add'.task = add.task /\ add'.index = i /\ add'.popped = <<>> /\ add'.tier = k
    BY <1>6, Zenon
  <2>2. Calm' = Calm
    BY <1>1, <1>2, <2>1, Zenon DEF Calm
  <2>3. CalmInv'
    BY <1>1, <1>3, <2>1, <2>2, Zenon DEF CalmInv
  <2>4. slot'[add.task] = i /\ \A t \in Task : t # add.task => slot'[t] = slot[t]
    BY <1>0, <1>1, <1>2, Zenon DEF WheelInv, WheelOK
  <2>5. PunctualInv'
    <3> SUFFICES ASSUME NEW j \in Slots, j # L - 1, Clean(j)'
                 PROVE  Punctual(j)'
      BY Zenon DEF PunctualInv
    <3>1. j # -1 /\ overtaken \subseteq Task
      BY <1>0, WheelAssumption DEF L, Slots, WheelInv, WheelOK
    <3>2. Clean(j)
      BY <1>1, <1>2, <2>4, <3>1, Zenon DEF Clean
    <3>3. Punctual(j)
      BY <1>2, <3>2, Zenon DEF OnTimeInv, PunctualInv
    <3>4. Passed(j)' = Passed(j)
      BY <1>1, Zenon DEF Passed
    <3>5. \A o \in DOMAIN buckets[j] : \A u \in buckets[j][o].tasks : u \in Task /\ u # add.task
      <4>1. \A n \in DOMAIN buckets[j] : buckets[j][n].tasks \subseteq Task
        BY <1>0, BucketNodes, Zenon DEF WheelInv
      <4>2. add.task \notin Holds(buckets[j])
        BY <1>0, <1>2, Zenon DEF WheelInv, OnceInv
      <4> QED BY <1>2, <4>1, <4>2 DEF Holds
    <3>6. \A n \in DOMAIN buckets'[j] :
          /\ Passed(j)' <= At(buckets'[j][n].tier, j)
          /\ \A t \in buckets'[j][n].tasks : slot'[t] = j /\ due'[t] = At(buckets'[j][n].tier, j)
      BY <1>1, <1>6, <2>4, <3>3, <3>4, <3>5 DEF Punctual
    <3>7. ran[add.task] = <<>>
      BY <1>0, <1>2, Zenon DEF WheelInv, OnceInv
    <3>8. \A t \in Task : slot'[t] = j =>
          /\ ran'[t] # <<>> \/ t \in Holds(buckets'[j]) \/ (add'.at = "walk" /\ add'.task = t)
          /\ \A n \in DOMAIN ran'[t] : ran'[t][n] = due'[t] + 1
      BY <1>1, <1>2, <1>6, <2>1, <2>4, <3>3, <3>7 DEF Punctual
    <3> QED BY <3>6, <3>8 DEF Punctual
  <2> QED BY <1>0, <2>3, <2>5 DEF OnTimeInv
<1> QED BY <1>1, <1>4, <1>5, <1>6

\* AddOnce walks to its tier.
LEMMA WalkOnTime ==
    ASSUME OnTimeInv, Walk
    PROVE  OnTimeInv'
<1>0. WheelInv /\ WheelInv'
  BY WalkKeeps, Zenon DEF OnTimeInv
<1>1. ~panic /\ add.at = "walk" /\ add \in WalkRec
      /\ UNCHANGED <<current, tick, due, slot, ran, overtaken>>
  BY <1>0, WalkCases, Zenon
<1> DEFINE i == add.index
<1>2. /\ add.task \in Task /\ add.tier \in Int /\ i \in Slots /\ buckets \in [Slots -> NodeSeq]
      /\ buckets[i] \in NodeSeq
  BY <1>0, <1>1, Zenon DEF WheelInv, WheelOK, WalkRec
<1>3. slot[add.task] = i /\ slot' = [slot EXCEPT ![add.task] = i]
  BY <1>0, <1>1, Zenon DEF WheelInv, SlotInv, WheelOK
<1>4. Calm => /\ At(add.tier, i) = due[add.task] /\ tick.at = "sleep"
              /\ current.timestamp <= due[add.task] /\ add.popped = <<>>
  BY <1>1, Zenon DEF OnTimeInv, CalmInv
<1>5. CASE panic' = TRUE
  BY <1>0, <1>5, Zenon DEF OnTimeInv, CalmInv, PunctualInv
<1>6. CASE panic' = panic /\ add' = NoAdd /\ buckets' = buckets /\ add.popped # <<>>
  <2>1. buckets' = [buckets EXCEPT ![i] = buckets[i]] /\ add'.at = "none" /\ ~Calm
    BY <1>2, <1>4, <1>6, Zenon DEF NoAdd
  <2>2. Joins(buckets[i], buckets[i], add.tier, add.task)
    BY Zenon DEF Joins
  <2>3. slot[add.task] \in {-1, i} /\ add.at \in {"index", "walk"}
    BY <1>1, <1>3, Zenon
  <2> QED BY <1>0, <1>1, <1>2, <1>3, <1>6, <2>1, <2>2, <2>3, PutOnTime
<1>7. ASSUME NEW q \in DOMAIN buckets[i], panic' = panic, add' = NoAdd,
             buckets[i][q].tier <= add.tier,
             q < Len(buckets[i]) => add.tier < buckets[i][q + 1].tier,
             buckets' = [buckets EXCEPT ![i] = Inserted(buckets[i], q, add.tier, add.task)]
      PROVE  OnTimeInv'
  <2> DEFINE c == Inserted(buckets[i], q, add.tier, add.task)
  <2>1. Rising(buckets[i]) /\ Spread(buckets[i]) /\ add.task \notin Holds(buckets[i])
    BY <1>0, <1>1, <1>2, Zenon DEF WheelInv, RisingInv, OnceInv
  <2>2. /\ c \in NodeSeq /\ Holds(c) = Holds(buckets[i]) \cup {add.task}
        /\ Joins(buckets[i], c, add.tier, add.task)
    BY <1>2, <1>7, <2>1, InsertNode
  <2>3. buckets' = [buckets EXCEPT ![i] = c] /\ add'.at = "none"
    BY <1>7, Zenon DEF NoAdd
  <2> HIDE DEF c
  <2>4. slot[add.task] \in {-1, i} /\ add.at \in {"index", "walk"}
    BY <1>1, <1>3, Zenon
  <2> QED BY <1>0, <1>1, <1>2, <1>3, <1>4, <1>7, <2>2, <2>3, <2>4, PutOnTime
<1> QED BY <1>0, <1>5, <1>6, <1>7, WalkCases

\* A bucket is looked at in the one tick that leaves the time of its nodes in
\* this tier; the last bucket is looked at when the tier has changed already.
LEMMA RunOnTime ==
    ASSUME OnTimeInv, RunBucket
    PROVE  OnTimeInv'
<1> DEFINE i == tick.i
           b == buckets[i]
<1>0. WheelInv /\ WheelInv'
  BY RunKeeps, Zenon DEF OnTimeInv
<1>1. /\ tick.at = "run" /\ Ticks /\ i \in Slots /\ b \in NodeSeq
      /\ UNCHANGED <<current, panic, due, slot>> /\ tick'.at = "sleep"
      /\ \/ /\ (b # <<>> => current.tier # b[1].tier)
            /\ UNCHANGED <<buckets, ran, add>>
         \/ /\ b # <<>> /\ current.tier = b[1].tier
            /\ buckets' = [buckets EXCEPT ![i] = Tail(b)]
            /\ ran' = [t \in Task |-> IF t \in b[1].tasks
                                       THEN Append(ran[t], current.timestamp) ELSE ran[t]]
            /\ \/ add.at = "walk" /\ add' = [add EXCEPT !.popped = Append(add.popped, b[1])]
               \/ add' = add
  BY <1>0, RunCases, Zenon
<1>2. add'.at = add.at /\ (add.at # "none" => add'.task = add.task)
  <2>1. add.at = "walk" => add \in WalkRec
    BY <1>0, Zenon DEF WheelInv, WheelOK, AddOK
  <2>2. CASE add' = add
    BY <2>2, Zenon
  <2>3. CASE add.at = "walk" /\ add' = [add EXCEPT !.popped = Append(add.popped, b[1])]
    BY <2>1, <2>3, Zenon DEF WalkRec
  <2> QED BY <1>1, <2>2, <2>3
<1>3. CalmInv'
  BY <1>0, <1>1, <1>2, TickedCalm, Zenon
<1>4. /\ current.timestamp \in Int /\ current.tier \in Int /\ buckets \in [Slots -> NodeSeq]
      /\ current.timestamp = At(current.tier, current.index)
      /\ L \in Nat \ {0} /\ ran \in [Task -> Seq(Int)]
  BY <1>0, <1>1, WheelAssumption DEF L, WheelInv, WheelOK, TimeInv
<1>5. i # L - 1 => current.timestamp = At(current.tier, i) + 1 /\ At(current.tier, i) \in Int
  <2>1. i # L - 1 => i + 1 = current.index /\ i \in Int
    BY <1>0, <1>1, <1>4 DEF WheelInv, WheelOK, TimeInv, Slots
  <2>2. i # L - 1 => At(current.tier, i + 1) = At(current.tier, i) + 1 /\ At(current.tier, i) \in Int
    <3>1. current.tier * L \in Int
      BY <1>4
    <3> QED BY <1>4, <2>1, <3>1 DEF At
  <2> QED BY <1>4, <2>1, <2>2
<1>6. ASSUME NEW j \in Slots, NEW s \in NodeSeq
      PROVE  /\ \A n \in DOMAIN s : s[n].tier \in Int /\ At(s[n].tier, j) \in Int
             /\ s # <<>> => 1 \in DOMAIN s
             /\ DOMAIN s \subseteq Nat \ {0}
  <2>1. \A n \in DOMAIN s : s[n] \in Nodes
    BY DEF NodeSeq
  <2>2. \A n \in DOMAIN s : s[n].tier \in Int
    BY <2>1, Zenon DEF Nodes
  <2>3. j \in Int
    BY <1>4 DEF Slots
  <2>4. s # <<>> => 1 \in DOMAIN s
    BY DEF NodeSeq
  <2>5. DOMAIN s \subseteq Nat \ {0}
    BY DEF NodeSeq
  <2> QED BY <2>2, <2>3, <2>4, <2>5, AtFacts
<1>7. PunctualInv'
  <2> SUFFICES ASSUME ~panic, NEW j \in Slots, j # L - 1, Clean(j)'
               PROVE  Punctual(j)'
    BY <1>1, Zenon DEF PunctualInv
  <2>1. Punctual(j)
    BY <1>0, <1>1, TicksAdds, CleanBefore, Zenon DEF OnTimeInv, PunctualInv
  <2>2. Passed(j)' = current.timestamp
    BY <1>1, Zenon DEF Passed
  \* The other buckets.
  <2>3. CASE j # i
    <3>1. buckets'[j] = buckets[j]
      BY <1>1, <1>4, <2>3, Zenon
    <3>2. Passed(j) = current.timestamp
      BY <2>3, Zenon DEF Passed
    <3>3. ASSUME NEW t \in Task, slot[t] = j PROVE ran'[t] = ran[t]
      <4>1. CASE UNCHANGED ran
        BY <4>1, Zenon
      <4>2. CASE /\ b # <<>>
                 /\ ran' = [u \in Task |-> IF u \in b[1].tasks
                                       THEN Append(ran[u], current.timestamp) ELSE ran[u]]
        <5>1. t \notin b[1].tasks
          <6> SUFFICES ASSUME t \in b[1].tasks PROVE FALSE
            BY Zenon
          <6>1. t \in Holds(b) /\ 1 \in DOMAIN b
            BY <1>1, <1>6, <4>2, Zenon DEF Holds
          <6>2. ran[t] = <<>> /\ t \notin Holds(buckets[j])
            BY <1>0, <1>1, <2>3, <6>1, Zenon DEF WheelInv, OnceInv
          <6>3. add.at = "walk" => add.task # t
            BY <1>0, <1>1, <6>1 DEF WheelInv, OnceInv
          <6> QED BY <2>1, <3>3, <6>2, <6>3 DEF Punctual
        <5> QED BY <4>2, <5>1
      <4> QED BY <1>1, <4>1, <4>2
    <3> QED BY <1>1, <1>2, <2>1, <2>2, <3>1, <3>2, <3>3 DEF Punctual
  \* The bucket of the tick.
  <2>4. CASE j = i
    <3>1. current.timestamp = At(current.tier, i) + 1 /\ At(current.tier, i) \in Int
      BY <1>5, <2>4, Zenon
    <3>2. Passed(i) = At(current.tier, i)
      BY <1>1, <3>1 DEF Passed
    <3>3. ASSUME NEW k \in Int, At(current.tier, i) <= At(k, i) PROVE current.tier <= k
      <4>1. i \in Int /\ At(k, i) \in Int
        BY <1>1, <1>4, AtFacts DEF Slots
      <4>2. k < current.tier => At(k, i) + L <= At(current.tier, i)
        BY <1>1, <1>4, AtLess, Zenon
      <4> QED BY <1>4, <3>1, <3>3, <4>1, <4>2
    <3>4. ASSUME NEW k \in Int, current.tier < k PROVE current.timestamp <= At(k, i)
      <4>1. i \in Int /\ At(k, i) \in Int
        BY <1>1, <1>4, AtFacts DEF Slots
      <4>2. At(current.tier, i) + L <= At(k, i)
        BY <1>1, <1>4, <3>4, AtLess, Zenon
      <4> QED BY <1>4, <3>1, <4>1, <4>2
    <3>5. \A n \in DOMAIN b : b[n].tier \in Int /\ current.tier <= b[n].tier
      BY <1>1, <1>6, <2>1, <2>4, <3>2, <3>3 DEF Punctual
    <3>6. Rising(b) /\ Spread(b)
      BY <1>0, <1>1, Zenon DEF WheelInv, RisingInv, OnceInv
    <3>7. CASE (b # <<>> => current.tier # b[1].tier) /\ UNCHANGED <<buckets, ran, add>>
      <4>1. ASSUME NEW n \in DOMAIN b PROVE current.tier < b[n].tier
        <5>1. b # <<>> /\ 1 \in DOMAIN b /\ n \in Nat \ {0}
          BY <1>1, <1>6
        <5>2. b[1].tier \in Int /\ current.tier < b[1].tier /\ b[n].tier \in Int
          BY <1>4, <3>5, <3>7, <5>1
        <5>3. n = 1 \/ b[1].tier < b[n].tier
          BY <3>6, <5>1 DEF Rising
        <5> QED BY <1>4, <5>2, <5>3
      <4>2. \A n \in DOMAIN b : current.timestamp <= At(b[n].tier, i)
        BY <3>4, <3>5, <4>1, Zenon
      <4> QED BY <1>1, <2>1, <2>2, <2>4, <3>7, <4>2 DEF Punctual
    <3>8. ASSUME b # <<>>, current.tier = b[1].tier,
                 buckets' = [buckets EXCEPT ![i] = Tail(b)],
                 ran' = [t \in Task |-> IF t \in b[1].tasks
                                         THEN Append(ran[t], current.timestamp) ELSE ran[t]]
          PROVE  Punctual(j)'
      <4>1. /\ Tail(b) \in NodeSeq /\ Holds(Tail(b)) = Holds(b) \ b[1].tasks /\ b[1].tasks \subseteq Holds(b)
            /\ \A n \in DOMAIN Tail(b) :
                  n + 1 \in DOMAIN b /\ Tail(b)[n] = b[n + 1] /\ b[1].tier < b[n + 1].tier
        BY <1>1, <3>6, <3>8, TailNodes, Zenon
      <4> DEFINE c == Tail(b)
      <4>2. buckets'[i] = c
        BY <1>1, <1>4, <3>8, Zenon
      <4>3. 1 \in DOMAIN b /\ b[1].tasks \subseteq Task
        BY <1>1, <1>6, <3>8, <4>1, Zenon DEF Holds
      <4>4. \A t \in b[1].tasks : due[t] = At(current.tier, i)
        BY <2>1, <2>4, <3>8, <4>3, Zenon DEF Punctual
      <4> HIDE DEF c
      <4>5. ASSUME NEW n \in DOMAIN c
            PROVE  /\ current.timestamp <= At(c[n].tier, i)
                   /\ \A t \in c[n].tasks : slot[t] = i /\ due[t] = At(c[n].tier, i)
        <5>1. n + 1 \in DOMAIN b /\ c[n] = b[n + 1] /\ current.tier < b[n + 1].tier
          BY <3>8, <4>1, Zenon DEF c
        <5>2. current.timestamp <= At(c[n].tier, i)
          BY <3>4, <3>5, <5>1, Zenon
        <5> QED BY <2>1, <2>4, <5>1, <5>2 DEF Punctual
      <4>6. ASSUME NEW t \in Task, slot[t] = i
            PROVE  /\ ran'[t] # <<>> \/ t \in Holds(c) \/ (add'.at = "walk" /\ add'.task = t)
                   /\ \A n \in DOMAIN ran'[t] : ran'[t][n] = due[t] + 1
        <5>1. CASE t \in b[1].tasks
          <6>1. ran[t] = <<>>
            BY <1>0, <1>1, <4>1, <5>1, Zenon DEF WheelInv, OnceInv
          <6>2. ran'[t] = <<current.timestamp>>
            BY <1>4, <3>8, <5>1, <6>1
          <6>3. due[t] + 1 = current.timestamp
            BY <3>1, <4>4, <5>1, Zenon
          <6> QED BY <6>2, <6>3
        <5>2. CASE t \notin b[1].tasks
          <6>1. ran'[t] = ran[t] /\ (t \in Holds(b) => t \in Holds(c))
            BY <3>8, <4>1, <5>2, Zenon DEF c
          <6> QED BY <1>2, <2>1, <2>4, <4>6, <6>1 DEF Punctual
        <5> QED BY <5>1, <5>2
      <4> QED BY <1>1, <2>2, <2>4, <4>2, <4>5, <4>6 DEF Punctual
    <3> QED BY <1>1, <3>7, <3>8
  <2> QED BY <2>3, <2>4
<1> QED BY <1>0, <1>3, <1>7 DEF OnTimeInv

\* Every step keeps the wheel on time.
LEMMA OnTimeStep ==
    ASSUME OnTimeInv, Next
    PROVE  OnTimeInv'
BY IncrOnTime, AddOnceOnTime, ReadOnTime, IndexOnTime, WalkOnTime, RunOnTime, Zenon DEF Next

\* So does a step that leaves the wheel alone.
LEMMA OnTimeStutters ==
    ASSUME OnTimeInv, UNCHANGED vars
    PROVE  OnTimeInv'
<1>1. WheelInv'
  BY WheelStutters, Zenon DEF OnTimeInv
<1>2. CalmInv'
  BY Zenon DEF vars, OnTimeInv, CalmInv, Calm
<1>3. \A i : Passed(i)' = Passed(i) /\ Clean(i)' = Clean(i)
  BY Zenon DEF vars, Passed, Clean
<1>4. PunctualInv'
  BY <1>3 DEF vars, OnTimeInv, PunctualInv, Punctual
<1> QED BY <1>1, <1>2, <1>4 DEF OnTimeInv

\* The invariant implies what StartedOnce states.
LEMMA WheelMeans ==
    ASSUME WheelInv
    PROVE  TypeOK /\ Sorted /\ OnlyOnce
<1>1. WheelOK /\ AddOK
  BY Zenon DEF WheelInv, WheelOK
<1>2. \A i \in Slots : \A n \in DOMAIN buckets[i] : buckets[i][n].tasks \subseteq Task
  BY <1>1, BucketNodes, Zenon
<1>3. TypeOK
  BY <1>1, <1>2, Zenon DEF WheelOK, AddOK, TypeOK, L, Task, Slots
<1>4. Sorted
  BY Zenon DEF WheelInv, RisingInv, Rising, Sorted, L, Slots
<1>5. OnlyOnce
  <2> SUFFICES ASSUME NEW t \in Task
               PROVE  /\ Len(ran[t]) <= 1 /\ (ran[t] # <<>> => Waiting(t) = {})
                      /\ \A v, w \in Waiting(t) : v = w
    BY Zenon DEF OnlyOnce, Task
  <2>1. \A v \in Waiting(t) :
           /\ v[1] \in Slots /\ v[2] \in DOMAIN buckets[v[1]] /\ t \in buckets[v[1]][v[2]].tasks
           /\ t \in Holds(buckets[v[1]]) /\ v = <<v[1], v[2]>>
    BY DEF Waiting, L, Slots, Holds
  <2>2. ran[t] # <<>> => Waiting(t) = {}
    BY <2>1, Zenon DEF WheelInv, OnceInv
  <2>3. ASSUME NEW v \in Waiting(t), NEW w \in Waiting(t) PROVE v = w
    <3>1. v[1] = w[1]
      BY <2>1, Zenon DEF WheelInv, OnceInv
    <3>2. v[2] = w[2]
      BY <2>1, <3>1, Zenon DEF WheelInv, OnceInv, Spread
    <3> QED BY <2>1, <3>1, <3>2
  <2> QED BY <2>2, <2>3 DEF WheelInv, OnceInv
<1> QED BY <1>3, <1>4, <1>5

\* A wheel on time starts each task on time.
LEMMA OnTimeMeans ==
    ASSUME OnTimeInv
    PROVE  OnTime
<1> SUFFICES ASSUME NEW t \in Task, slot[t] \in 0 .. L - 2,
                    Clean(slot[t]), ~panic
             PROVE  /\ \A n \in DOMAIN ran[t] : ran[t][n] = due[t] + 1
                    /\ add = NoAdd /\ tick.at = "sleep" /\ current.timestamp > due[t] => ran[t] # <<>>
  BY Zenon DEF OnTime, L, Task
<1> DEFINE i == slot[t]
<1>1. i \in Slots /\ i # L - 1 /\ i \in Int
  BY WheelAssumption DEF L, Slots
<1>2. Punctual(i)
  BY <1>1, Zenon DEF OnTimeInv, PunctualInv
<1>3. \A n \in DOMAIN ran[t] : ran[t][n] = due[t] + 1
  BY <1>2, Zenon DEF Punctual
<1>4. ASSUME add = NoAdd, tick.at = "sleep", current.timestamp > due[t], ran[t] = <<>>
      PROVE  FALSE
  <2>1. add.at = "none" /\ buckets[i] \in NodeSeq /\ current.timestamp \in Int
    BY <1>1, <1>4 DEF OnTimeInv, WheelInv, WheelOK, AddOK
  <2>2. t \in Holds(buckets[i])
    BY <1>2, <1>4, <2>1, Zenon DEF Punctual
  <2>3. PICK n \in DOMAIN buckets[i] : t \in buckets[i][n].tasks
    BY <2>2, Zenon DEF Holds
  <2>4. current.timestamp <= At(buckets[i][n].tier, i) /\ due[t] = At(buckets[i][n].tier, i)
    BY <1>2, <1>4, <2>3, Zenon DEF Punctual, Passed
  <2>5. due[t] \in Int
    BY Zenon DEF OnTimeInv, WheelInv, WheelOK
  <2> QED BY <1>4, <2>1, <2>4, <2>5
<1> QED BY <1>3, <1>4

\* The timing wheel, whatever ticks fall into AddOnce: its buckets stay sorted
\* by tier with one node for each, and no task is started twice.
THEOREM StartedOnce == Spec => []WheelSound
<1>1. WheelInv /\ [Next]_vars => WheelInv'
  BY WheelStep, WheelStutters, Zenon
<1>2. WheelInv => WheelSound
  BY WheelMeans, Zenon DEF WheelSound
<1> QED BY <1>1, <1>2, WheelInit, PTL DEF Spec

\* A task whose AddOnce no tick overtook is started in the tick that leaves its
\* time and is not forgotten, unless it fell into the last bucket, whatever was
\* added before and after and whatever other buckets suffered.
THEOREM StartedOnTime == Spec => []OnTime
<1>1. OnTimeInv /\ [Next]_vars => OnTimeInv'
  BY OnTimeStep, OnTimeStutters, Zenon
<1>2. OnTimeInv => OnTime
  BY OnTimeMeans, Zenon
<1> QED BY <1>1, <1>2, OnTimeInit, PTL DEF Spec

===============================================================================
