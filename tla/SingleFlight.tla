----------------------------- MODULE SingleFlight -----------------------------
(***************************************************************************)
(* Duplicate suppression of package concurrency                            *)
(* (src/concurrency/singlefilgt.go): Do, DoChan, doCall, Forget.           *)
(*                                                                         *)
(* A section under Group.mu is one step.  mu itself is a variable for the  *)
(* one case in which doCall keeps it: it makes a panic unrecoverable by    *)
(* panicking in a goroutine of its own and waits for the process to end.   *)
(***************************************************************************)
EXTENDS Integers

CONSTANTS
    Key, Proc,
    MaxCalls,       \* bound: number of executions
    Outcome,        \* how fn ends: "return", "panic" or "goexit"
    Nil

VARIABLES
    m,              \* Group.m: m[k] is the call in flight, or Nil
    calls,          \* the call objects
    caller,         \* caller[p]: what goroutine p does, and with which call
    held,           \* Group.mu is kept by a doCall that waits for the crash
    crashed,
    last            \* history: the answer p got last, with its call and shared

vars == <<m, calls, caller, held, crashed, last>>

Call == 1 .. MaxCalls     \* the call objects in the order of their allocation

Unused ==
    [st |-> "unused", key |-> Nil, by |-> Nil, dups |-> 0, chans |-> {}, err |-> "none",
     joined |-> {}, forgotten |-> FALSE]

\* joined and forgotten are history: the callers of this call, and whether
\* Forget has removed it.
NewCall(k, by, chans, p) ==
    [Unused EXCEPT !.st = "running", !.key = k, !.by = by, !.chans = chans, !.joined = {p}]

CanLock == ~crashed /\ ~held
Goes(p, at, c) == caller' = [caller EXCEPT ![p] = [at |-> at, call |-> c]]

-------------------------------------------------------------------------------
\* The duplicate waits on the call in flight, the original executes fn itself.
New(c) == calls[c] = Unused /\ \A d \in 1 .. c - 1 : calls[d] # Unused

Do(p, k) ==
    /\ CanLock /\ caller[p].at = "idle"
    /\ IF m[k] # Nil
       THEN /\ calls' = [calls EXCEPT ![m[k]].dups = @ + 1, ![m[k]].joined = @ \cup {p}]
            /\ Goes(p, "wait", m[k])
            /\ UNCHANGED m
       ELSE \E c \in Call :
            /\ New(c)
            /\ calls' = [calls EXCEPT ![c] = NewCall(k, p, {}, p)]
            /\ m' = [m EXCEPT ![k] = c]
            /\ Goes(p, "exec", c)
    /\ UNCHANGED <<held, crashed, last>>

\* The same with a channel of capacity 1; fn is executed by a new goroutine.
DoChan(p, k) ==
    /\ CanLock /\ caller[p].at = "idle"
    /\ IF m[k] # Nil
       THEN /\ calls' = [calls EXCEPT ![m[k]].dups = @ + 1, ![m[k]].chans = @ \cup {p},
                                      ![m[k]].joined = @ \cup {p}]
            /\ Goes(p, "chan", m[k])
            /\ UNCHANGED m
       ELSE \E c \in Call :
            /\ New(c)
            /\ calls' = [calls EXCEPT ![c] = NewCall(k, Nil, {p}, p)]
            /\ m' = [m EXCEPT ![k] = c]
            /\ Goes(p, "chan", c)
    /\ UNCHANGED <<held, crashed, last>>

\* The entry of the key is deleted, whichever call it is.
FaultyRemoved(c) == [m EXCEPT ![calls[c].key] = Nil]

\* if g.m[key] == c { delete(g.m, key) }
Removed(c) == [m EXCEPT ![calls[c].key] = IF @ = c THEN Nil ELSE @]

Answer(c, o) == [call |-> c, err |-> o, shared |-> calls[c].dups > 0]

\* What follows for a goroutine that saw c end this way: Do returns, panics
\* (its caller may recover) or ends the goroutine.
After(err) == IF err = "goexit" THEN "exited" ELSE "idle"

\* The outcome is stored and wg.Done releases the waiters.
Released(c, o) == [calls[c] EXCEPT !.st = "done", !.err = o]

\* Channels get a result only from an execution that DoChan started.
FaultyAnswered(c, o) ==
    IF calls[c].by = Nil THEN (IF o = "return" THEN calls[c].chans ELSE {}) ELSE {calls[c].by}

\* Who gets the outcome at once: the goroutine that executed fn, and after a
\* normal return the channels.
Answered(c, o) ==
    (IF o = "return" THEN calls[c].chans ELSE {}) \cup ({calls[c].by} \ {Nil})

\* fn ends and doCall's deferred function runs.  A panic with channels waiting
\* must not be recovered; otherwise it goes on in the goroutine that executed fn.
doCall(c, o) ==
    /\ CanLock /\ calls[c].st = "running"
    /\ calls' = [calls EXCEPT ![c] = Released(c, o)]
    /\ m' = Removed(c)
    /\ held' = (o = "panic" /\ calls[c].chans # {})
    /\ LET told == IF held' THEN {} ELSE Answered(c, o) IN
       /\ caller' = [p \in Proc |-> IF p \in told THEN [at |-> After(o), call |-> Nil] ELSE caller[p]]
       /\ last' = [p \in Proc |-> IF p \in told THEN Answer(c, o) ELSE last[p]]
    /\ UNCHANGED crashed

\* A duplicate returns from wg.Wait: the same value, panic or Goexit.
Woken(p) ==
    /\ ~crashed /\ caller[p].at = "wait"
    /\ LET c == caller[p].call IN
       /\ calls[c].st = "done"
       /\ Goes(p, After(calls[c].err), Nil)
       /\ last' = [last EXCEPT ![p] = [Answer(c, calls[c].err) EXCEPT !.shared = TRUE]]
    /\ UNCHANGED <<m, calls, held, crashed>>

\* The goroutine of "go panic(e)" runs.
Crash ==
    /\ held /\ ~crashed
    /\ crashed' = TRUE
    /\ UNCHANGED <<m, calls, caller, held, last>>

Forget(k) ==
    /\ CanLock /\ m[k] # Nil
    /\ m' = [m EXCEPT ![k] = Nil]
    /\ calls' = [calls EXCEPT ![m[k]].forgotten = TRUE]
    /\ UNCHANGED <<caller, held, crashed, last>>

-------------------------------------------------------------------------------
Init ==
    /\ m = [k \in Key |-> Nil]
    /\ calls = [c \in Call |-> Unused]
    /\ caller = [p \in Proc |-> [at |-> "idle", call |-> Nil]]
    /\ held = FALSE /\ crashed = FALSE
    /\ last = [p \in Proc |-> [call |-> Nil, err |-> "none", shared |-> FALSE]]

Next ==
    \/ \E p \in Proc, k \in Key : Do(p, k) \/ DoChan(p, k)
    \/ \E c \in Call, o \in Outcome : doCall(c, o)
    \/ \E p \in Proc : Woken(p)
    \/ \E k \in Key : Forget(k)
    \/ Crash

Spec == Init /\ [][Next]_vars

\* Every fn ends, a goroutine that is woken runs; nobody need call anything.
Fairness ==
    /\ WF_vars(Crash)
    /\ \A c \in Call : WF_vars(\E o \in Outcome : doCall(c, o))
    /\ \A p \in Proc : WF_vars(Woken(p))

-------------------------------------------------------------------------------
(* Properties *)

\* The types of the variables.
TypeOK ==
    /\ m \in [Key -> Call \cup {Nil}]
    /\ \A c \in Call :
          /\ calls[c].st \in {"unused", "running", "done"} /\ calls[c].dups \in Nat
          /\ calls[c].err \in Outcome \cup {"none"}
    /\ \A p \in Proc : caller[p].at \in {"idle", "exec", "wait", "chan", "exited"}
    /\ held \in BOOLEAN /\ crashed \in BOOLEAN

\* Only one execution is in flight for a key unless Forget was called for it,
\* and it can be joined until it ends; a forgotten execution that ends does not
\* remove the entry of its successor.
OneInFlight ==
    \A c \in Call : calls[c].st = "running" /\ ~calls[c].forgotten => m[calls[c].key] = c

\* shared tells whether the value was given to several callers, for the
\* original as for duplicates, through Do and DoChan alike.
SharedIsTrue ==
    \A p \in Proc : last[p].call # Nil =>
        last[p].shared = \E q, r \in calls[last[p].call].joined : q # r

\* Do returns, however fn ends.
DoReturns ==
    \A p \in Proc : (caller[p].at \in {"exec", "wait"}) ~> (caller[p].at \notin {"exec", "wait"} \/ crashed)

\* A caller of DoChan gets its result, or the process ends with the panic of
\* fn; only a Goexit of fn leaves the channel empty.
ChanAnswered ==
    \A p \in Proc : (caller[p].at = "chan")
       ~> (caller[p].at # "chan" \/ crashed \/ calls[caller[p].call].err = "goexit")

===============================================================================
