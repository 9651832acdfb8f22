------------------------------ MODULE TimingWheel ------------------------------
(***************************************************************************)
(* The timing wheel (src/timing_wheel/timing_wheel.go): AddOnce in the      *)
(* goroutine of its caller against the ticking goroutine of Init.  Nothing *)
(* is locked: every read of current that a tick can precede is a step, and *)
(* so is every write of Incr.  Time is the wheel's own timestamp.          *)
(***************************************************************************)
EXTENDS Integers, Sequences, FiniteSets

CONSTANTS
    defaultBucketLength,
    MaxTasks,       \* bound: tasks added
    Ahead,          \* how far ahead of the wheel a task may be added
    MaxTime,        \* bound: last timestamp
    MaxOvertaken    \* bound: calls of AddOnce that a tick falls into

\* The wheel has a bucket, and times are whole numbers.
ASSUME WheelAssumption ==
    /\ defaultBucketLength \in Nat \ {0} /\ Ahead \subseteq Int
    /\ MaxTasks \in Nat /\ MaxTime \in Nat /\ MaxOvertaken \in Nat

VARIABLES
    current,        \* timestamp, tier and index
    buckets,        \* buckets[i]: the list of tierTask nodes
    tick,           \* where the ticking goroutine is, and its loop variable i
    add,            \* the call of AddOnce in progress
    panic,          \* AddOnce has panicked and the process is gone
    \* history, read by no action
    due,            \* due[t]: the timestamp it was added for, -1 before
    slot,           \* slot[t]: the bucket chosen for it
    ran,            \* ran[t]: the timestamps at which it was started
    overtaken       \* tasks in whose AddOnce a tick fell

vars == <<current, buckets, tick, add, panic, due, slot, ran, overtaken>>
history == <<due, slot, ran>>

L == defaultBucketLength
Task == 1 .. MaxTasks     \* in the order they are added
NoAdd == [at |-> "none"]

-------------------------------------------------------------------------------
(* The ticking goroutine *)

\* A tick that falls into an AddOnce is noted.
Ticks ==
    /\ ~panic
    /\ overtaken' = overtaken \cup IF add = NoAdd THEN {} ELSE {add.task}
    /\ Cardinality(overtaken') <= MaxOvertaken

\* Incr: the timestamp.
IncrTime ==
    /\ Ticks /\ tick.at = "sleep" /\ current.timestamp < MaxTime
    /\ current' = [current EXCEPT !.timestamp = @ + 1]
    /\ tick' = [tick EXCEPT !.at = "index"]
    /\ UNCHANGED <<buckets, add, panic, history>>

\* Incr: the index, and whether the turn is complete.
IncrIndex ==
    /\ Ticks /\ tick.at = "index"
    /\ current' = [current EXCEPT !.index = @ + 1]
    /\ tick' = [tick EXCEPT !.at = IF current'.index = L THEN "tier" ELSE "run"]
    /\ UNCHANGED <<buckets, add, panic, history>>

\* TierIncr: the tier, then the index.
TierIncr ==
    /\ Ticks /\ tick.at \in {"tier", "zero"}
    /\ IF tick.at = "tier" THEN current' = [current EXCEPT !.tier = @ + 1]
                           ELSE current' = [current EXCEPT !.index = 0]
    /\ tick' = [tick EXCEPT !.at = IF @ = "tier" THEN "zero" ELSE "run"]
    /\ UNCHANGED <<buckets, add, panic, history>>

\* A head of an earlier tier is run as well, but stays in the bucket.
FaultyRuns(list) == <<list # <<>> /\ current.tier >= list[1].tier, list>>

\* Whether the head of the bucket is run, and the bucket that remains.
Runs(list) ==
    IF list # <<>> /\ current.tier = list[1].tier THEN <<TRUE, Tail(list)>> ELSE <<FALSE, list>>

\* The body of the loop after Incr, and the sleep.
RunBucket ==
    /\ Ticks /\ tick.at = "run"
    /\ LET list == buckets[tick.i]
           r == Runs(list) IN
       /\ buckets' = [buckets EXCEPT ![tick.i] = r[2]]
       /\ ran' = [t \in Task |-> IF r[1] /\ t \in list[1].tasks
                                 THEN Append(ran[t], current.timestamp) ELSE ran[t]]
       /\ add' = IF r[1] /\ add.at = "walk" /\ add.index = tick.i
                 THEN [add EXCEPT !.popped = Append(@, list[1])] ELSE add
    /\ tick' = [at |-> "sleep", i |-> (tick.i + 1) % L]
    /\ UNCHANGED <<current, panic, due, slot>>

-------------------------------------------------------------------------------
(* AddOnce *)

\* The call: a time that is over becomes the current one.
AddOnce(t, timestamp) ==
    /\ ~panic /\ add = NoAdd
    /\ due[t] = -1 /\ \A u \in 1 .. t - 1 : due[u] # -1
    /\ LET ts == IF timestamp <= current.timestamp THEN current.timestamp ELSE timestamp IN
       /\ add' = [at |-> "remain", task |-> t, time |-> ts]
       /\ due' = [due EXCEPT ![t] = ts]
    /\ overtaken' = overtaken \cup IF tick.at = "sleep" THEN {} ELSE {t}
    /\ UNCHANGED <<current, buckets, tick, panic, slot, ran>>

\* taskRemainSec, from a second read of the timestamp; it may be -1.
Remain ==
    /\ ~panic /\ add.at = "remain"
    /\ add' = [at |-> "tier", task |-> add.task, remain |-> add.time - current.timestamp]
    /\ UNCHANGED <<current, buckets, tick, panic, history, overtaken>>

\* Go's / and % round towards zero.
Quot(a) == IF a < 0 THEN -((-a) \div L) ELSE a \div L
Rem(a) == IF a < 0 THEN -((-a) % L) ELSE a % L

TaskTier ==
    /\ ~panic /\ add.at = "tier"
    /\ add' = [at |-> "index", task |-> add.task, remain |-> add.remain,
               tier |-> current.tier + Quot(add.remain)]
    /\ UNCHANGED <<current, buckets, tick, panic, history, overtaken>>

\* The tier stays when the index passes the end of the wheel.
FaultySlot(tier, index) == IF index >= L THEN <<tier, index % L>> ELSE <<tier, index>>

\* The carry of the bucket index into the tier.
Slot(tier, index) == IF index >= L THEN <<tier + 1, index % L>> ELSE <<tier, index>>

\* taskBucketIndex and the head of that bucket: out of range it panics, an
\* empty bucket gets its first node, otherwise the list is walked.
BucketIndex ==
    /\ ~panic /\ add.at = "index"
    /\ LET s == Slot(add.tier, current.index + Rem(add.remain)) IN
       /\ slot' = [slot EXCEPT ![add.task] = s[2]]
       /\ \/ s[2] < 0 /\ panic' = TRUE /\ UNCHANGED <<buckets, add>>
          \/ /\ s[2] >= 0 /\ buckets[s[2]] = <<>>
             /\ buckets' = [buckets EXCEPT ![s[2]] = <<[tier |-> s[1], tasks |-> {add.task}]>>]
             /\ add' = NoAdd
             /\ UNCHANGED panic
          \/ /\ s[2] >= 0 /\ buckets[s[2]] # <<>>
             /\ add' = [at |-> "walk", task |-> add.task, tier |-> s[1], index |-> s[2],
                        popped |-> <<>>]
             /\ UNCHANGED <<buckets, panic>>
    /\ UNCHANGED <<current, tick, due, ran, overtaken>>

\* The loop breaks at node p, behind the head's test: a node of the same tier,
\* or the last one of a lower tier.
Breaks(list, tier, p) ==
    /\ list[p].tier <= tier
    /\ p < Len(list) => tier < list[p + 1].tier

\* The list with the task at p, as the loop leaves it.
Inserted(list, p, tier, t) ==
    IF list[p].tier = tier THEN [list EXCEPT ![p].tasks = @ \cup {t}]
    ELSE [n \in 1 .. Len(list) + 1 |->
            IF n <= p THEN list[n]
            ELSE IF n = p + 1 THEN [tier |-> tier, tasks |-> {t}] ELSE list[n - 1]]

\* The loop over the list.  A tier below the head's is to be linked to the
\* head's prev, which is nil.  A node that was popped in the meantime is still
\* what the pointer points to: what is added to it or behind it is lost.
Walk ==
    /\ ~panic /\ add.at = "walk"
    /\ LET gone == Len(add.popped)
           list == add.popped \o buckets[add.index] IN
       \/ /\ add.tier < list[1].tier
          /\ panic' = TRUE
          /\ UNCHANGED <<buckets, add>>
       \/ \E p \in DOMAIN list :
          /\ Breaks(list, add.tier, p)
          /\ buckets' = IF p <= gone THEN buckets
                        ELSE [buckets EXCEPT ![add.index] =
                                Inserted(@, p - gone, add.tier, add.task)]
          /\ add' = NoAdd
          /\ UNCHANGED panic
    /\ UNCHANGED <<current, tick, history, overtaken>>

-------------------------------------------------------------------------------
Init ==
    /\ current = [timestamp |-> 0, tier |-> 0, index |-> 0]
    /\ buckets = [i \in 0 .. L - 1 |-> <<>>]
    /\ tick = [at |-> "sleep", i |-> 0]
    /\ add = NoAdd /\ panic = FALSE
    /\ due = [t \in Task |-> -1]
    /\ slot = [t \in Task |-> -1]
    /\ ran = [t \in Task |-> <<>>]
    /\ overtaken = {}

Next ==
    \/ IncrTime \/ IncrIndex \/ TierIncr \/ RunBucket
    \/ \E t \in Task, a \in Ahead : AddOnce(t, current.timestamp + a)
    \/ Remain \/ TaskTier \/ BucketIndex \/ Walk

Spec == Init /\ [][Next]_vars

-------------------------------------------------------------------------------
(* Properties *)

\* The types of the variables.
TypeOK ==
    /\ current.timestamp \in 0 .. MaxTime /\ current.tier \in Nat /\ current.index \in 0 .. L
    /\ \A i \in 0 .. L - 1 : \A p \in DOMAIN buckets[i] : buckets[i][p].tasks \subseteq Task
    /\ tick.at \in {"sleep", "index", "tier", "zero", "run"} /\ tick.i \in 0 .. L - 1
    /\ add.at \in {"none", "remain", "tier", "index", "walk"} /\ panic \in BOOLEAN

\* Every bucket is ordered by tier with one node for each, whatever ticks fall
\* between the reads of AddOnce: only so does looking at the head suffice.
Sorted ==
    \A i \in 0 .. L - 1 : \A p, q \in DOMAIN buckets[i] :
        p < q => buckets[i][p].tier < buckets[i][q].tier

\* Where a task waits in the buckets.
Waiting(t) ==
    {w \in (0 .. L - 1) \X (1 .. MaxTasks) :
        w[2] \in DOMAIN buckets[w[1]] /\ t \in buckets[w[1]][w[2]].tasks}

\* A task is started at most once, and never waits for another start.
OnlyOnce ==
    \A t \in Task :
        /\ Len(ran[t]) <= 1 /\ (ran[t] # <<>> => Waiting(t) = {})
        /\ \A v, w \in Waiting(t) : v = w

\* Whatever ticks fall into AddOnce, the buckets of the timing wheel stay sorted
\* by tier with one node for each, and no task is started twice.
WheelSound == TypeOK /\ Sorted /\ OnlyOnce

\* No overtaken task was put into bucket i, where it might have come too late
\* and hold up the tasks behind it.
Clean(i) == \A t \in overtaken : slot[t] # i

\* A task whose AddOnce no tick overtook is started in the one tick that
\* leaves its time, not a turn of the wheel earlier or later, unless it fell
\* into the last bucket; its bucket is found with the index the wheel had.
OnTime ==
    \A t \in Task : slot[t] \in 0 .. L - 2 /\ Clean(slot[t]) /\ ~panic =>
        /\ \A n \in DOMAIN ran[t] : ran[t][n] = due[t] + 1
        /\ add = NoAdd /\ tick.at = "sleep" /\ current.timestamp > due[t] => ran[t] # <<>>

===============================================================================
