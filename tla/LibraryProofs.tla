----------------------------- MODULE LibraryProofs -----------------------------
(***************************************************************************)
(* Proofs about the single-flight group and the ordered set, for any       *)
(* number of goroutines, keys, items and calls.                            *)
(***************************************************************************)
EXTENDS Libraries, TLAPS

-------------------------------------------------------------------------------
(* The single-flight group *)

\* The types.
Outcome == {"return", "panic", "goexit"}
CallRec ==
    [st : {"unused", "running", "done"}, key : Key \cup {Nil}, by : Proc \cup {Nil}, dups : Nat,
     chans : SUBSET Proc, err : Outcome \cup {"none"}, joined : SUBSET Proc, forgotten : BOOLEAN]
CallerRec == [at : {"idle", "exec", "wait", "chan", "exited"}, call : Flight!Call \cup {Nil}]
AnswerRec == [call : Flight!Call \cup {Nil}, err : Outcome \cup {"none"}, shared : BOOLEAN]
FlightOK ==
    /\ m \in [Key -> Flight!Call \cup {Nil}]
    /\ calls \in [Flight!Call -> CallRec]
    /\ caller \in [Proc -> CallerRec]
    /\ held \in BOOLEAN /\ crashed \in BOOLEAN
    /\ last \in [Proc -> AnswerRec]

\* An entry of Group.m is a call of its key that has not ended.
EntryInv ==
    /\ \A k \in Key : m[k] # Nil => calls[m[k]].st = "running" /\ calls[m[k]].key = k
    /\ \A c \in Flight!Call : calls[c].st = "running" => calls[c].key \in Key

\* dups counts the callers behind the first.
Counted(r) ==
    /\ r.st = "unused" => r = Flight!Unused
    /\ r.st # "unused" => r.joined # {}
    /\ r.dups > 0 => \E q, o \in r.joined : q # o
    /\ r.dups = 0 => \A q, o \in r.joined : q = o
    /\ r.chans \subseteq r.joined /\ (r.by # Nil => r.by \in r.joined)
CountedInv == \A c \in Flight!Call : Counted(calls[c])

\* A goroutine that joins a call stays with it until it ends, and so joins it once.
JoinInv ==
    \A c \in Flight!Call, p \in Proc :
        calls[c].st = "running" /\ p \in calls[c].joined => caller[p].call = c

\* Who waits is a duplicate, and an answer comes from a call that has ended and
\* that nobody joins any more.
AnswerInv ==
    \A p \in Proc :
        /\ caller[p].at = "idle" => caller[p].call = Nil
        /\ caller[p].at = "wait" => caller[p].call # Nil /\ calls[caller[p].call].dups > 0
        /\ last[p].call # Nil =>
              /\ calls[last[p].call].st = "done"
              /\ last[p].shared <=> calls[last[p].call].dups > 0

FlightInv == FlightOK /\ EntryInv /\ CountedInv /\ JoinInv /\ AnswerInv /\ Flight!OneInFlight

\* No call is in flight at first.
LEMMA FlightInit == Flight!Init => FlightInv
<1> SUFFICES ASSUME Flight!Init PROVE FlightInv
  BY Zenon
<1>1. Nil \notin Flight!Call
  BY LibrariesAssumption DEF Flight!Call
<1>2. Flight!Unused \in CallRec
  BY Zenon DEF Flight!Unused, CallRec, Outcome
<1>3. FlightOK
  BY <1>2, Zenon DEF Flight!Init, FlightOK, CallerRec, AnswerRec
<1>4. Counted(Flight!Unused)
  BY DEF Counted, Flight!Unused
<1> QED
  BY <1>1, <1>3, <1>4, Zenon
  DEF Flight!Init, FlightInv, EntryInv, CountedInv, JoinInv, AnswerInv, Flight!OneInFlight, Flight!Unused

\* A call whose fields change keeps its type.
LEMMA CallPuts ==
    ASSUME NEW r \in CallRec
    PROVE  /\ \A v \in Nat : [r EXCEPT !.dups = v] \in CallRec
           /\ \A v \in SUBSET Proc : [r EXCEPT !.chans = v] \in CallRec
           /\ \A v \in SUBSET Proc : [r EXCEPT !.joined = v] \in CallRec
           /\ \A v \in BOOLEAN : [r EXCEPT !.forgotten = v] \in CallRec
           /\ \A v \in Outcome : [r EXCEPT !.st = "done", !.err = v] \in CallRec
<1>1. \A v \in Nat : [r EXCEPT !.dups = v] \in CallRec
  BY Zenon DEF CallRec
<1>2. \A v \in SUBSET Proc : [r EXCEPT !.chans = v] \in CallRec
  BY Zenon DEF CallRec
<1>3. \A v \in SUBSET Proc : [r EXCEPT !.joined = v] \in CallRec
  BY Zenon DEF CallRec
<1>4. \A v \in BOOLEAN : [r EXCEPT !.forgotten = v] \in CallRec
  BY Zenon DEF CallRec
<1>5. \A v \in Outcome : [r EXCEPT !.st = "done", !.err = v] \in CallRec
  BY Zenon DEF CallRec
<1> QED
  BY <1>1, <1>2, <1>3, <1>4, <1>5, Zenon

\* A goroutine that was idle joins the call in flight: Do, DoChan.
LEMMA JoinKeeps ==
    ASSUME FlightInv, NEW p \in Proc, NEW c \in Flight!Call, caller[p].at = "idle",
           calls[c].st = "running", UNCHANGED <<m, held, crashed, last>>,
           NEW a \in {"wait", "chan"}, Flight!Goes(p, a, c),
           NEW chans \in {calls[c].chans, calls[c].chans \cup {p}},
           NEW new \in CallRec, calls' = [calls EXCEPT ![c] = new],
           new.st = "running", new.key = calls[c].key, new.by = calls[c].by,
           new.dups = calls[c].dups + 1, new.chans = chans, new.joined = calls[c].joined \cup {p},
           new.forgotten = calls[c].forgotten
    PROVE  FlightInv'
<1>0. FlightOK /\ EntryInv /\ CountedInv /\ JoinInv /\ AnswerInv /\ Nil \notin Flight!Call
  BY LibrariesAssumption DEF FlightInv, Flight!Call
<1>1. /\ calls' \in [Flight!Call -> CallRec] /\ calls'[c] = new
      /\ \A d \in Flight!Call : d # c => calls'[d] = calls[d]
  BY <1>0, Zenon DEF FlightOK
<1>2. /\ caller' \in [Proc -> CallerRec]
      /\ caller'[p] = [at |-> a, call |-> c] /\ \A q \in Proc : q # p => caller'[q] = caller[q]
  BY <1>0, Zenon DEF FlightOK, CallerRec, Flight!Goes
<1>3. FlightOK'
  BY <1>0, <1>1, <1>2, Zenon DEF FlightOK
<1>4. EntryInv'
  BY <1>0, <1>1 DEF EntryInv, FlightOK
<1>5. Counted(calls[c]) /\ calls[c].dups \in Nat /\ caller[p].call = Nil /\ calls[c].joined \subseteq Proc
  BY <1>0, Zenon DEF FlightOK, CallRec, AnswerInv, CountedInv
<1>6. p \notin calls[c].joined
  BY <1>0, <1>5, Zenon DEF JoinInv
<1>7. CountedInv'
  <2>1. Counted(new)
    BY <1>5, <1>6 DEF Counted
  <2> QED
    BY <1>0, <1>1, <2>1, Zenon DEF CountedInv
<1>8. JoinInv'
  <2>1. \A d \in Flight!Call : d # c /\ calls[d].st = "running" => p \notin calls[d].joined
    BY <1>0, <1>5, Zenon DEF JoinInv
  <2> QED
    BY <1>0, <1>1, <1>2, <2>1 DEF JoinInv
<1>9. AnswerInv'
  <2>1. \A q \in Proc : last[q].call # Nil => last[q].call # c /\ last[q].call \in Flight!Call
    BY <1>0, Zenon DEF AnswerInv, FlightOK, AnswerRec
  <2>2. \A d \in Flight!Call : calls[d].dups > 0 => calls'[d].dups > 0
    BY <1>1, <1>5
  <2>3. \A q \in Proc : caller[q].at = "wait" => caller[q].call \in Flight!Call
    BY <1>0, Zenon DEF AnswerInv, FlightOK, CallerRec
  <2> QED
    BY <1>0, <1>1, <1>2, <1>5, <2>1, <2>2, <2>3 DEF AnswerInv
<1>10. Flight!OneInFlight'
  BY <1>0, <1>1, Zenon DEF FlightInv, Flight!OneInFlight
<1> QED
  BY <1>3, <1>4, <1>7, <1>8, <1>9, <1>10, Zenon DEF FlightInv

\* A goroutine that was idle starts a call where none is in flight: Do, DoChan.
LEMMA StartKeeps ==
    ASSUME FlightInv, NEW p \in Proc, NEW k \in Key, NEW c \in Flight!Call, caller[p].at = "idle",
           m[k] = Nil, calls[c] = Flight!Unused, UNCHANGED <<held, crashed, last>>,
           NEW a \in {"exec", "chan"}, Flight!Goes(p, a, c), m' = [m EXCEPT ![k] = c],
           NEW by \in {p, Nil}, NEW chans \in SUBSET {p},
           calls' = [calls EXCEPT ![c] = Flight!NewCall(k, by, chans, p)]
    PROVE  FlightInv'
<1> DEFINE new == Flight!NewCall(k, by, chans, p)
<1>0. FlightOK /\ EntryInv /\ CountedInv /\ JoinInv /\ AnswerInv /\ Nil \notin Flight!Call /\ Nil \notin Proc
  BY LibrariesAssumption DEF FlightInv, Flight!Call
<1>1. /\ new.st = "running" /\ new.key = k /\ new.by = by /\ new.dups = 0 /\ new.chans = chans
      /\ new.joined = {p} /\ new.forgotten = FALSE
  BY Zenon DEF Flight!NewCall, Flight!Unused
<1>2. new \in CallRec
  BY Zenon DEF CallRec, Flight!NewCall, Flight!Unused
<1> HIDE DEF new
<1>3. /\ calls' \in [Flight!Call -> CallRec] /\ calls'[c] = new
      /\ \A d \in Flight!Call : d # c => calls'[d] = calls[d]
  BY <1>0, <1>2, Zenon DEF FlightOK, new
<1>4. /\ caller' \in [Proc -> CallerRec]
      /\ caller'[p] = [at |-> a, call |-> c] /\ \A q \in Proc : q # p => caller'[q] = caller[q]
  BY <1>0, Zenon DEF FlightOK, CallerRec, Flight!Goes
<1>5. m' \in [Key -> Flight!Call \cup {Nil}] /\ m'[k] = c /\ \A l \in Key : l # k => m'[l] = m[l]
  BY <1>0, Zenon DEF FlightOK
<1>6. calls[c].st = "unused" /\ calls[c].dups = 0 /\ caller[p].call = Nil
  BY <1>0 DEF Flight!Unused, AnswerInv
<1>7. FlightOK'
  BY <1>0, <1>3, <1>4, <1>5, Zenon DEF FlightOK
<1>8. EntryInv'
  BY <1>0, <1>1, <1>3, <1>5, <1>6 DEF EntryInv, FlightOK
<1>9. CountedInv'
  <2>1. Counted(new)
    BY <1>1 DEF Counted
  <2> QED
    BY <1>0, <1>3, <2>1, Zenon DEF CountedInv
<1>10. JoinInv'
  BY <1>0, <1>1, <1>3, <1>4, <1>6 DEF JoinInv
<1>11. AnswerInv'
  <2>1. \A q \in Proc : last[q].call # Nil => last[q].call # c /\ last[q].call \in Flight!Call
    BY <1>0, <1>6, Zenon DEF AnswerInv, FlightOK, AnswerRec
  <2>2. \A q \in Proc : caller[q].at = "wait" => caller[q].call \in Flight!Call /\ caller[q].call # c
    BY <1>0, <1>6 DEF AnswerInv, FlightOK, CallerRec
  <2> QED
    BY <1>0, <1>3, <1>4, <2>1, <2>2 DEF AnswerInv
<1>12. Flight!OneInFlight'
  <2>1. \A d \in Flight!Call : calls[d].st = "running" => calls[d].key \in Key
    BY <1>0, Zenon DEF EntryInv
  <2> QED
    BY <1>0, <1>1, <1>3, <1>5, <2>1 DEF FlightInv, Flight!OneInFlight
<1> QED
  BY <1>7, <1>8, <1>9, <1>10, <1>11, <1>12, Zenon DEF FlightInv

\* The calls of Do and DoChan: a duplicate joins, otherwise a call is started.
LEMMA DoKeeps ==
    ASSUME FlightInv, NEW p \in Proc, NEW k \in Key, Flight!Do(p, k) \/ Flight!DoChan(p, k)
    PROVE  FlightInv'
<1>0. FlightOK /\ EntryInv /\ caller[p].at = "idle" /\ UNCHANGED <<held, crashed, last>>
  BY Zenon DEF FlightInv, Flight!Do, Flight!DoChan
<1>1. CASE m[k] # Nil
  <2> DEFINE c == m[k]
             r == calls[c]
  <2>1. c \in Flight!Call /\ r \in CallRec /\ r.st = "running"
    BY <1>0, <1>1, Zenon DEF FlightOK, EntryInv
  <2>2. r.dups + 1 \in Nat /\ r.chans \subseteq Proc /\ r.joined \subseteq Proc
    BY <2>1 DEF CallRec
  <2>3. CASE Flight!Do(p, k)
    <3> DEFINE r1 == [r EXCEPT !.dups = r.dups + 1]
               new == [r1 EXCEPT !.joined = @ \cup {p}]
    <3>1. r1 \in CallRec /\ r1.joined = r.joined
      <4>1. r1 \in CallRec
        BY <2>1, <2>2, CallPuts, Zenon
      <4> QED
        BY <2>1, <4>1, Zenon DEF CallRec
    <3>2. new \in CallRec
      BY <2>2, <3>1, CallPuts, Zenon
    <3>3. /\ new.st = "running" /\ new.key = r.key /\ new.by = r.by /\ new.dups = r.dups + 1
          /\ new.chans = r.chans /\ new.joined = r.joined \cup {p} /\ new.forgotten = r.forgotten
      BY <2>1, Zenon DEF CallRec
    <3>4. calls' = [calls EXCEPT ![c] = new] /\ Flight!Goes(p, "wait", c) /\ UNCHANGED m
      BY <1>0, <1>1, <2>1, <2>3 DEF Flight!Do, FlightOK
    <3> HIDE DEF new, r1
    <3> QED
      BY <1>0, <2>1, <3>2, <3>3, <3>4, JoinKeeps, Zenon
  <2>4. CASE Flight!DoChan(p, k)
    <3> DEFINE r1 == [r EXCEPT !.dups = r.dups + 1]
               r2 == [r1 EXCEPT !.chans = @ \cup {p}]
               new == [r2 EXCEPT !.joined = @ \cup {p}]
    <3>1. r1 \in CallRec /\ r1.chans = r.chans
      <4>1. r1 \in CallRec
        BY <2>1, <2>2, CallPuts, Zenon
      <4> QED
        BY <2>1, <4>1, Zenon DEF CallRec
    <3>2. r2 \in CallRec /\ r2.joined = r.joined
      <4>1. r2 \in CallRec
        BY <2>2, <3>1, CallPuts, Zenon
      <4> QED
        BY <2>1, <4>1, Zenon DEF CallRec
    <3>3. new \in CallRec
      BY <2>2, <3>2, CallPuts, Zenon
    <3>4. /\ new.st = "running" /\ new.key = r.key /\ new.by = r.by /\ new.dups = r.dups + 1
          /\ new.chans = r.chans \cup {p} /\ new.joined = r.joined \cup {p}
          /\ new.forgotten = r.forgotten
      BY <2>1, Zenon DEF CallRec
    <3>5. calls' = [calls EXCEPT ![c] = new] /\ Flight!Goes(p, "chan", c) /\ UNCHANGED m
      BY <1>0, <1>1, <2>1, <2>4 DEF Flight!DoChan, FlightOK
    <3> HIDE DEF new, r1, r2
    <3> QED
      BY <1>0, <2>1, <3>3, <3>4, <3>5, JoinKeeps, Zenon
  <2> QED
    BY <2>3, <2>4, Zenon
<1>2. CASE m[k] = Nil
  <2>1. CASE Flight!Do(p, k)
    <3>1. PICK c \in Flight!Call : /\ Flight!New(c) /\ calls' = [calls EXCEPT ![c] = Flight!NewCall(k, p, {}, p)]
                                   /\ m' = [m EXCEPT ![k] = c] /\ Flight!Goes(p, "exec", c)
      BY <1>2, <2>1, Zenon DEF Flight!Do
    <3>2. calls[c] = Flight!Unused /\ {} \in SUBSET {p}
      BY <3>1, Zenon DEF Flight!New
    <3> QED
      BY <1>0, <1>2, <3>1, <3>2, StartKeeps, Zenon
  <2>2. CASE Flight!DoChan(p, k)
    <3>1. PICK c \in Flight!Call : /\ Flight!New(c) /\ calls' = [calls EXCEPT ![c] = Flight!NewCall(k, Nil, {p}, p)]
                                   /\ m' = [m EXCEPT ![k] = c] /\ Flight!Goes(p, "chan", c)
      BY <1>2, <2>2, Zenon DEF Flight!DoChan
    <3>2. calls[c] = Flight!Unused /\ {p} \in SUBSET {p}
      BY <3>1, Zenon DEF Flight!New
    <3> QED
      BY <1>0, <1>2, <3>1, <3>2, StartKeeps, Zenon
  <2> QED
    BY <2>1, <2>2, Zenon
<1> QED
  BY <1>1, <1>2, Zenon

\* fn ends: doCall.
LEMMA EndKeeps ==
    ASSUME FlightInv, NEW c \in Flight!Call, NEW o \in Outcome, Flight!doCall(c, o)
    PROVE  FlightInv'
<1> DEFINE r == calls[c]
           new == Flight!Released(c, o)
           told == IF held' THEN {} ELSE Flight!Answered(c, o)
<1>0. FlightOK /\ EntryInv /\ CountedInv /\ JoinInv /\ AnswerInv /\ Nil \notin Flight!Call /\ Nil \notin Proc
  BY LibrariesAssumption DEF FlightInv, Flight!Call
<1>1. /\ r.st = "running" /\ r \in CallRec /\ Counted(r) /\ r.key \in Key
      /\ r.joined \subseteq Proc /\ r.dups \in Nat
  BY <1>0, Zenon DEF Flight!doCall, FlightOK, CallRec, CountedInv, EntryInv
<1>2. new \in CallRec
  BY <1>1, CallPuts, Zenon DEF Flight!Released
<1>3. /\ new.st = "done" /\ new.key = r.key /\ new.by = r.by /\ new.dups = r.dups
      /\ new.chans = r.chans /\ new.joined = r.joined /\ new.forgotten = r.forgotten
  BY <1>1, Zenon DEF Flight!Released, CallRec
<1> HIDE DEF new
<1>4. /\ calls' \in [Flight!Call -> CallRec] /\ calls'[c] = new
      /\ \A d \in Flight!Call : d # c => calls'[d] = calls[d]
  BY <1>0, <1>2, Zenon DEF Flight!doCall, FlightOK, new
<1>5. told \subseteq r.joined
  BY <1>1, Zenon DEF Counted, Flight!Answered
<1>6. /\ caller' = [p \in Proc |-> IF p \in told THEN [at |-> Flight!After(o), call |-> Nil] ELSE caller[p]]
      /\ last' = [p \in Proc |-> IF p \in told THEN Flight!Answer(c, o) ELSE last[p]]
      /\ held' \in BOOLEAN /\ crashed' = crashed
  BY Zenon DEF Flight!doCall
<1> HIDE DEF told
<1>7. Flight!After(o) \in {"idle", "exited"} /\ Flight!Answer(c, o) \in AnswerRec
  BY DEF Flight!After, Flight!Answer, AnswerRec
<1>8. caller' \in [Proc -> CallerRec] /\ last' \in [Proc -> AnswerRec]
  BY <1>0, <1>6, <1>7, Zenon DEF FlightOK, CallerRec
<1>9. /\ m' \in [Key -> Flight!Call \cup {Nil}]
      /\ \A k \in Key : m'[k] = IF k = r.key /\ m[k] = c THEN Nil ELSE m[k]
  BY <1>0, <1>1, Zenon DEF Flight!doCall, Flight!Removed, FlightOK
<1>10. FlightOK'
  BY <1>0, <1>4, <1>6, <1>8, <1>9, Zenon DEF FlightOK
<1>11. EntryInv'
  BY <1>0, <1>1, <1>3, <1>4, <1>9 DEF EntryInv, FlightOK
<1>12. CountedInv'
  <2>1. Counted(new)
    BY <1>1, <1>3, Zenon DEF Counted
  <2> QED
    BY <1>0, <1>4, <2>1, Zenon DEF CountedInv
<1>13. JoinInv'
  <2>1. \A d \in Flight!Call, p \in Proc : d # c /\ calls[d].st = "running" /\ p \in calls[d].joined => p \notin told
    BY <1>0, <1>1, <1>5, Zenon DEF JoinInv
  <2> QED
    BY <1>0, <1>3, <1>4, <1>6, <2>1 DEF JoinInv
<1>14. AnswerInv'
  <2>1. \A p \in Proc : p \in told => /\ caller'[p].call = Nil /\ caller'[p].at # "wait"
                                      /\ last'[p].call = c /\ (last'[p].shared <=> r.dups > 0)
    BY <1>6, <1>7, Zenon DEF Flight!Answer
  <2>2. \A p \in Proc : p \notin told => caller'[p] = caller[p] /\ last'[p] = last[p]
    BY <1>6, Zenon
  <2>3. \A d \in Flight!Call : calls'[d].dups = calls[d].dups /\ (calls[d].st = "done" => calls'[d].st = "done")
    BY <1>3, <1>4, Zenon
  <2>4. \A p \in Proc : /\ caller[p].at = "wait" => caller[p].call \in Flight!Call
                        /\ last[p].call # Nil => last[p].call \in Flight!Call
    BY <1>0, Zenon DEF AnswerInv, FlightOK, CallerRec, AnswerRec
  <2>5. ASSUME NEW p \in Proc, p \in told
        PROVE  /\ caller'[p].at = "idle" => caller'[p].call = Nil
               /\ caller'[p].at # "wait"
               /\ calls'[last'[p].call].st = "done"
               /\ last'[p].shared <=> calls'[last'[p].call].dups > 0
    BY <1>3, <1>4, <2>1, <2>3, <2>5, Zenon
  <2>6. ASSUME NEW p \in Proc, p \notin told
        PROVE  /\ caller'[p].at = "idle" => caller'[p].call = Nil
               /\ caller'[p].at = "wait" => caller'[p].call # Nil /\ calls'[caller'[p].call].dups > 0
               /\ last'[p].call # Nil =>
                    /\ calls'[last'[p].call].st = "done"
                    /\ last'[p].shared <=> calls'[last'[p].call].dups > 0
    BY <1>0, <2>2, <2>3, <2>4, <2>6 DEF AnswerInv
  <2> QED
    BY <2>5, <2>6, Zenon DEF AnswerInv
<1>15. Flight!OneInFlight'
  BY <1>0, <1>1, <1>3, <1>4, <1>9 DEF FlightInv, Flight!OneInFlight, EntryInv
<1> QED
  BY <1>10, <1>11, <1>12, <1>13, <1>14, <1>15, Zenon DEF FlightInv

\* A duplicate returns.
LEMMA WokenKeeps ==
    ASSUME FlightInv, NEW p \in Proc, Flight!Woken(p)
    PROVE  FlightInv'
<1> DEFINE c == caller[p].call
           ans == [Flight!Answer(c, calls[c].err) EXCEPT !.shared = TRUE]
<1>0. /\ FlightOK /\ EntryInv /\ CountedInv /\ JoinInv /\ AnswerInv /\ Nil \notin Flight!Call
      /\ UNCHANGED <<m, calls, held, crashed>>
  BY LibrariesAssumption DEF FlightInv, Flight!Call, Flight!Woken
<1>1. caller[p].at = "wait" /\ c \in Flight!Call /\ calls[c].dups > 0 /\ calls[c].st = "done"
  BY <1>0, Zenon DEF Flight!Woken, AnswerInv, FlightOK, CallerRec
<1>2. calls[c].err \in Outcome \cup {"none"} /\ calls[c].dups \in Nat
  BY <1>0, <1>1, Zenon DEF FlightOK, CallRec
<1>3. ans \in AnswerRec /\ ans.call = c /\ ans.shared = TRUE
  BY <1>1, <1>2, Zenon DEF Flight!Answer, AnswerRec
<1>4. last' = [last EXCEPT ![p] = ans] /\ Flight!Goes(p, Flight!After(calls[c].err), Nil)
  BY Zenon DEF Flight!Woken
<1> HIDE DEF ans
<1>5. Flight!After(calls[c].err) \in {"idle", "exited"}
  BY Zenon DEF Flight!After
<1>6. /\ last' \in [Proc -> AnswerRec] /\ last'[p] = ans /\ \A q \in Proc : q # p => last'[q] = last[q]
      /\ caller' \in [Proc -> CallerRec] /\ caller'[p].at \in {"idle", "exited"} /\ caller'[p].call = Nil
      /\ \A q \in Proc : q # p => caller'[q] = caller[q]
  BY <1>0, <1>3, <1>4, <1>5, Zenon DEF FlightOK, CallerRec, Flight!Goes
<1>7. FlightOK'
  BY <1>0, <1>6, Zenon DEF FlightOK
<1>8. JoinInv'
  BY <1>0, <1>1, <1>6 DEF JoinInv
<1>9. AnswerInv'
  BY <1>0, <1>1, <1>3, <1>6 DEF AnswerInv
<1> QED
  BY <1>0, <1>7, <1>8, <1>9, Zenon DEF FlightInv, EntryInv, CountedInv, Flight!OneInFlight

\* Forget removes the entry of its key.
LEMMA ForgetKeeps ==
    ASSUME FlightInv, NEW k \in Key, Flight!Forget(k)
    PROVE  FlightInv'
<1> DEFINE c == m[k]
           r == calls[c]
           new == [r EXCEPT !.forgotten = TRUE]
<1>0. /\ FlightOK /\ EntryInv /\ CountedInv /\ JoinInv /\ AnswerInv /\ Nil \notin Flight!Call
      /\ UNCHANGED <<caller, held, crashed, last>>
  BY LibrariesAssumption DEF FlightInv, Flight!Call, Flight!Forget
<1>1. c \in Flight!Call /\ r \in CallRec /\ Counted(r) /\ r.st = "running" /\ r.key = k
  BY <1>0, Zenon DEF Flight!Forget, FlightOK, CountedInv, EntryInv
<1>2. new \in CallRec
  BY <1>1, CallPuts, Zenon
<1>3. /\ new.st = "running" /\ new.key = k /\ new.by = r.by /\ new.dups = r.dups
      /\ new.chans = r.chans /\ new.joined = r.joined /\ new.forgotten = TRUE
  BY <1>1, Zenon DEF CallRec
<1>4. calls' = [calls EXCEPT ![c] = new] /\ m' = [m EXCEPT ![k] = Nil]
  BY <1>0, Zenon DEF Flight!Forget
<1> HIDE DEF new
<1>5. /\ calls' \in [Flight!Call -> CallRec] /\ calls'[c] = new
      /\ \A d \in Flight!Call : d # c => calls'[d] = calls[d]
      /\ m' \in [Key -> Flight!Call \cup {Nil}] /\ m'[k] = Nil /\ \A l \in Key : l # k => m'[l] = m[l]
  BY <1>0, <1>1, <1>2, <1>4, Zenon DEF FlightOK
<1>6. FlightOK'
  BY <1>0, <1>5, Zenon DEF FlightOK
<1>7. EntryInv'
  BY <1>0, <1>1, <1>3, <1>5 DEF EntryInv, FlightOK
<1>8. CountedInv'
  <2>1. Counted(new)
    BY <1>1, <1>3, Zenon DEF Counted
  <2> QED
    BY <1>0, <1>5, <2>1, Zenon DEF CountedInv
<1>9. JoinInv'
  BY <1>0, <1>1, <1>3, <1>5 DEF JoinInv
<1>10. AnswerInv'
  <2>1. \A d \in Flight!Call : calls'[d].dups = calls[d].dups /\ calls'[d].st = calls[d].st
    BY <1>1, <1>3, <1>5
  <2>2. \A p \in Proc : /\ caller[p].at = "wait" => caller[p].call \in Flight!Call
                        /\ last[p].call # Nil => last[p].call \in Flight!Call
    BY <1>0, Zenon DEF AnswerInv, FlightOK, CallerRec, AnswerRec
  <2> QED
    BY <1>0, <2>1, <2>2, Zenon DEF AnswerInv
<1>11. Flight!OneInFlight'
  BY <1>0, <1>1, <1>3, <1>5 DEF FlightInv, Flight!OneInFlight, EntryInv
<1> QED
  BY <1>6, <1>7, <1>8, <1>9, <1>10, <1>11, Zenon DEF FlightInv

\* Every step of Do keeps the invariant.
LEMMA FlightStep == FlightInv /\ [Flight!Next]_flightVars => FlightInv'
<1> SUFFICES ASSUME FlightInv, [Flight!Next]_flightVars PROVE FlightInv'
  BY Zenon
<1>1. ASSUME UNCHANGED <<m, calls, caller, last>>, held' \in BOOLEAN, crashed' \in BOOLEAN PROVE FlightInv'
  BY <1>1, Zenon DEF FlightInv, FlightOK, EntryInv, CountedInv, JoinInv, AnswerInv, Flight!OneInFlight
<1>2. CASE Flight!Crash
  BY <1>1, <1>2, Zenon DEF Flight!Crash, FlightInv, FlightOK
<1>3. CASE UNCHANGED flightVars
  BY <1>1, <1>3, Zenon DEF flightVars, FlightInv, FlightOK
<1> QED
  BY <1>2, <1>3, DoKeeps, EndKeeps, WokenKeeps, ForgetKeeps, Zenon DEF Flight!Next, Outcome

\* The invariant implies what OneExecution states.
LEMMA FlightMeans == FlightInv => FlightSound
<1> SUFFICES ASSUME FlightInv PROVE FlightSound
  BY Zenon
<1>1. FlightOK /\ CountedInv /\ AnswerInv
  BY Zenon DEF FlightInv
<1>2. Flight!TypeOK
  BY <1>1, Zenon DEF Flight!TypeOK, FlightOK, CallRec, CallerRec, Outcome
<1>3. Flight!SharedIsTrue
  <2> SUFFICES ASSUME NEW p \in Proc, last[p].call # Nil
               PROVE  last[p].shared = \E q, r \in calls[last[p].call].joined : q # r
    BY Zenon DEF Flight!SharedIsTrue
  <2> DEFINE c == last[p].call
  <2>1. c \in Flight!Call /\ calls[c].dups \in Nat /\ last[p].shared \in BOOLEAN
    BY <1>1, Zenon DEF FlightOK, CallRec, AnswerRec
  <2>2. last[p].shared <=> calls[c].dups > 0
    BY <1>1, Zenon DEF AnswerInv
  <2>3. calls[c].dups > 0 <=> \E q, r \in calls[c].joined : q # r
    BY <1>1, <2>1 DEF CountedInv, Counted
  <2>4. last[p].shared <=> \E q, r \in calls[c].joined : q # r
    BY <2>2, <2>3, Zenon
  <2> HIDE DEF c
  <2>5. last[p].shared = \E q, r \in calls[c].joined : q # r
    BY <2>1, <2>4, Zenon
  <2> QED BY <2>5 DEF c
<1> QED BY <1>2, <1>3 DEF FlightSound, FlightInv

\* The single-flight group, whatever its callers, its executions and Forget do:
\* one execution in flight for a key unless it was forgotten, the entry of a
\* successor stays, and shared says whether several callers got the value.
THEOREM OneExecution == Flight!Spec => []FlightSound
<1>1. Flight!Spec => []FlightInv
  <2>1. FlightInv /\ [Flight!Next]_Flight!vars => FlightInv'
    BY FlightStep, Zenon DEF Flight!vars, flightVars
  <2> QED BY <2>1, FlightInit, PTL DEF Flight!Spec
<1> QED BY <1>1, FlightMeans, PTL

-------------------------------------------------------------------------------
(* The ordered set *)

\* The types.
Keys == 0 .. MaxIndex - 1
Active ==
    [op : {"Add", "Remove"}, items : Seq(Item) \ {<<>>}, at : {"look", "lock", "index"},
     key : Keys \cup {Nil}]
SetOK ==
    /\ currentIndex \in 0 .. MaxIndex /\ index \in [Item -> Keys \cup {Nil}]
    /\ mu \in User \cup {Nil} /\ setCrashed \in BOOLEAN /\ overlap \in BOOLEAN
    /\ update \in [User -> {Set!Idle} \cup Active]
    /\ store.keys \in Seq(Keys) /\ store.store \in [Keys -> Item \cup {Nil}]

\* put is between its two halves.
Putting == mu # Nil /\ update[mu].op = "Add"

\* Who holds the lock is between the halves of put or remove.
LockInv ==
    /\ \A p \in User : mu = p <=> update[p] # Set!Idle /\ update[p].at = "index"
    /\ Putting => currentIndex < MaxIndex

\* A key that Remove looked up never belongs to another item, however old it is.
KeyInv ==
    \A p \in User : update[p] # Set!Idle /\ update[p].op = "Remove" /\ update[p].at # "look" =>
        /\ update[p].key # Nil /\ update[p].key < currentIndex
        /\ store.store[update[p].key] \in {Head(update[p].items), Nil}
        /\ mu = p => store.store[update[p].key] = Nil

\* From currentIndex on, keys are unused.
FreshInv ==
    /\ \A k \in Keys : k >= currentIndex =>
          store.store[k] = IF Putting /\ k = currentIndex THEN Head(update[mu].items) ELSE Nil
    /\ \A i \in Item : index[i] # Nil => index[i] < currentIndex

\* IndexInStore, also while an item is being changed.
IndexInv ==
    \A i \in Item : index[i] # Nil =>
        /\ store.store[index[i]] \in {i, Nil}
        /\ mu = Nil \/ i # Head(update[mu].items) => store.store[index[i]] = i

\* A call that is alone changes the set as it found it.
SoloInv ==
    ~overlap =>
        /\ \A p, q \in User : update[p] # Set!Idle /\ update[q] # Set!Idle => p = q
        /\ \A k \in Keys : store.store[k] # Nil /\ ~(Putting /\ k = currentIndex) =>
              index[store.store[k]] = k
        /\ \A p \in User : update[p] # Set!Idle /\ update[p].at # "look" =>
              index[Head(update[p].items)] = IF update[p].op = "Add" THEN Nil ELSE update[p].key

SetInv ==
    /\ SetOK /\ LockInv /\ KeyInv /\ FreshInv /\ IndexInv /\ SoloInv
    /\ Set!KeysMatchStore /\ Set!InsertionOrder

\* A new set is empty, with no call in it.
LEMMA SetInit == Set!NewOrderedSet => SetInv
<1> SUFFICES ASSUME Set!NewOrderedSet PROVE SetInv
  BY Zenon
<1>1. /\ store.keys = <<>> /\ store.store = [k \in Keys |-> Nil]
      /\ \A p \in User : update[p] = Set!Idle
  BY Zenon DEF Set!NewOrderedSet, Set!NewOrderedMap, Keys
<1>2. SetOK
  <2>1. currentIndex \in 0 .. MaxIndex /\ index \in [Item -> Keys \cup {Nil}]
    BY LibrariesAssumption DEF Set!NewOrderedSet
  <2>2. update \in [User -> {Set!Idle} \cup Active]
    BY Zenon DEF Set!NewOrderedSet
  <2>3. store.keys \in Seq(Keys) /\ store.store \in [Keys -> Item \cup {Nil}]
    BY <1>1
  <2> QED
    BY <2>1, <2>2, <2>3, Zenon DEF SetOK, Set!NewOrderedSet
<1>3. LockInv /\ KeyInv /\ FreshInv
  BY <1>1, LibrariesAssumption, Zenon DEF LockInv, KeyInv, FreshInv, Putting, Set!NewOrderedSet
<1>4. IndexInv /\ SoloInv
  BY <1>1, LibrariesAssumption, Zenon DEF IndexInv, SoloInv, Set!NewOrderedSet
<1>5. Set!KeysMatchStore /\ Set!InsertionOrder
  <2>1. DOMAIN store.keys = {}
    BY <1>1
  <2> QED
    BY <1>1, <2>1, Zenon DEF Set!KeysMatchStore, Set!InsertionOrder, Keys
<1> QED
  BY <1>2, <1>3, <1>4, <1>5, Zenon DEF SetInv

\* Keys and store of an OrderedMap agree and the keys are in order.
Ordered(keys, values) ==
    /\ keys \in Seq(Keys) /\ values \in [Keys -> Item \cup {Nil}]
    /\ \A i, j \in 1 .. Len(keys) : i < j => keys[i] < keys[j]
    /\ \A i \in 1 .. Len(keys) : values[keys[i]] # Nil
    /\ \A k \in Keys : values[k] # Nil => \E i \in 1 .. Len(keys) : keys[i] = k

\* That is what KeysMatchStore and InsertionOrder say.
LEMMA OrderedMeans ==
    ASSUME NEW K \in Seq(Keys), NEW S \in [Keys -> Item \cup {Nil}]
    PROVE  Ordered(K, S) <=>
              /\ \A k \in 0 .. MaxIndex - 1 : S[k] # Nil <=> \E i \in DOMAIN K : K[i] = k
              /\ \A i, j \in DOMAIN K : i # j => K[i] # K[j]
              /\ \A i, j \in DOMAIN K : i < j => K[i] < K[j]
<1>1. /\ DOMAIN K = 1 .. Len(K) /\ Len(K) \in Nat /\ \A i \in 1 .. Len(K) : K[i] \in Keys
      /\ Keys \subseteq Int /\ Keys = 0 .. MaxIndex - 1
  BY LibrariesAssumption DEF Keys
<1>2. ASSUME Ordered(K, S) PROVE \A i, j \in DOMAIN K : i # j => K[i] # K[j]
  <2> SUFFICES ASSUME NEW i \in DOMAIN K, NEW j \in DOMAIN K, i < j PROVE K[i] # K[j]
    BY <1>1
  <2>1. K[i] < K[j] /\ K[i] \in Int
    BY <1>1, <1>2, Zenon DEF Ordered
  <2> QED
    BY <2>1
<1>3. ASSUME Ordered(K, S) PROVE \A k \in Keys : S[k] # Nil <=> \E i \in DOMAIN K : K[i] = k
  BY <1>1, <1>3, Zenon DEF Ordered
<1>4. ASSUME \A k \in Keys : S[k] # Nil <=> \E i \in DOMAIN K : K[i] = k,
             \A i, j \in DOMAIN K : i < j => K[i] < K[j]
      PROVE  Ordered(K, S)
  BY <1>1, <1>4, Zenon DEF Ordered
<1>5. ASSUME Ordered(K, S) PROVE \A i, j \in DOMAIN K : i < j => K[i] < K[j]
  BY <1>1, <1>5, Zenon DEF Ordered
<1> QED
  BY <1>1, <1>2, <1>3, <1>4, <1>5, Zenon

\* OrderedMap.Put of a key above all others.
LEMMA PutOrdered ==
    ASSUME NEW K, NEW S, Ordered(K, S), NEW k \in Keys, NEW v \in Item,
           \A i \in 1 .. Len(K) : K[i] < k
    PROVE  Ordered(Append(K, k), [S EXCEPT ![k] = v])
<1> DEFINE L == Append(K, k)
           T == [S EXCEPT ![k] = v]
<1>0. K \in Seq(Keys) /\ S \in [Keys -> Item \cup {Nil}] /\ v # Nil /\ Keys \subseteq Int
  BY LibrariesAssumption DEF Ordered, Keys
<1>1. /\ L \in Seq(Keys) /\ Len(K) \in Nat /\ Len(L) = Len(K) + 1 /\ L[Len(K) + 1] = k
      /\ \A i \in 1 .. Len(K) : L[i] = K[i] /\ K[i] \in Keys
  BY <1>0
<1>2. T \in [Keys -> Item \cup {Nil}] /\ T[k] = v /\ \A l \in Keys : l # k => T[l] = S[l]
  BY <1>0, Zenon
<1> HIDE DEF L, T
<1>3. \A i, j \in 1 .. Len(L) : i < j => L[i] < L[j]
  BY <1>1 DEF Ordered
<1>4. \A i \in 1 .. Len(L) : T[L[i]] # Nil
  <2>1. \A i \in 1 .. Len(K) : S[K[i]] # Nil /\ K[i] # k
    BY <1>0, <1>1 DEF Ordered
  <2>2. \A i \in 1 .. Len(L) : i = Len(K) + 1 \/ i \in 1 .. Len(K)
    BY <1>1
  <2> QED
    BY <1>0, <1>1, <1>2, <2>1, <2>2, Zenon
<1>5. ASSUME NEW l \in Keys, T[l] # Nil PROVE \E i \in 1 .. Len(L) : L[i] = l
  <2>1. CASE l = k
    BY <1>1, <2>1
  <2>2. CASE l # k
    <3>1. PICK i \in 1 .. Len(K) : K[i] = l
      BY <1>2, <1>5, <2>2, Zenon DEF Ordered
    <3>2. i \in 1 .. Len(L) /\ L[i] = l
      BY <1>1, <3>1
    <3> QED
      BY <3>2, Zenon
  <2> QED
    BY <2>1, <2>2, Zenon
<1>6. Ordered(L, T)
  BY <1>1, <1>2, <1>3, <1>4, <1>5, Zenon DEF Ordered
<1> QED
  BY <1>6, Zenon DEF L, T

\* OrderedMap.Remove closes the gap.
LEMMA RemoveOrdered ==
    ASSUME NEW K, NEW S, Ordered(K, S), NEW k \in Keys, S[k] # Nil
    PROVE  Ordered(Set!Without(K, k), [S EXCEPT ![k] = Nil])
<1> DEFINE T == [S EXCEPT ![k] = Nil]
<1>0. K \in Seq(Keys) /\ S \in [Keys -> Item \cup {Nil}] /\ Keys \subseteq Int
  BY LibrariesAssumption DEF Ordered, Keys
<1>1. Len(K) \in Nat /\ DOMAIN K = 1 .. Len(K) /\ \A i \in 1 .. Len(K) : K[i] \in Keys
  BY <1>0
<1>2. PICK n \in 1 .. Len(K) : K[n] = k
  BY Zenon DEF Ordered
<1> DEFINE at == {i \in DOMAIN K : K[i] = k}
           L == [i \in 1 .. Len(K) - 1 |-> IF i < n THEN K[i] ELSE K[i + 1]]
<1>3. \A i \in 1 .. Len(K) : i # n => K[i] # k
  BY <1>0, <1>1, <1>2 DEF Ordered
<1>4. Set!Without(K, k) = L
  <2>1. at = {n}
    BY <1>1, <1>2, <1>3, Zenon
  <2>2. (CHOOSE i \in at : \A j \in at : i <= j) = n
    BY <2>1
  <2> QED
    BY <2>1, <2>2, Zenon DEF Set!Without
<1>5. Len(K) - 1 \in Nat /\ \A i \in 1 .. Len(K) - 1 : L[i] \in Keys
  BY <1>1, <1>2
<1>6. /\ L \in Seq(Keys) /\ Len(L) = Len(K) - 1
      /\ \A i \in 1 .. Len(K) - 1 : L[i] = IF i < n THEN K[i] ELSE K[i + 1]
  BY <1>5
<1>7. T \in [Keys -> Item \cup {Nil}] /\ T[k] = Nil /\ \A l \in Keys : l # k => T[l] = S[l]
  BY <1>0, Zenon
<1> HIDE DEF L, T
<1>8. \A i, j \in 1 .. Len(L) : i < j => L[i] < L[j]
  <2> SUFFICES ASSUME NEW i \in 1 .. Len(L), NEW j \in 1 .. Len(L), i < j PROVE L[i] < L[j]
    BY Zenon
  <2>1. \A x, y \in 1 .. Len(K) : x < y => K[x] < K[y]
    BY Zenon DEF Ordered
  <2> QED
    BY <1>1, <1>6, <2>1
<1>9. \A i \in 1 .. Len(L) : T[L[i]] # Nil
  <2> SUFFICES ASSUME NEW i \in 1 .. Len(L) PROVE T[L[i]] # Nil
    BY Zenon
  <2>1. PICK j \in 1 .. Len(K) : L[i] = K[j] /\ j # n
    BY <1>1, <1>6
  <2> QED
    BY <1>1, <1>3, <1>7, <2>1 DEF Ordered
<1>10. ASSUME NEW l \in Keys, T[l] # Nil PROVE \E i \in 1 .. Len(L) : L[i] = l
  <2>1. PICK i \in 1 .. Len(K) : K[i] = l
    BY <1>7, <1>10, Zenon DEF Ordered
  <2>2. i # n
    BY <1>2, <1>7, <1>10, <2>1, Zenon
  <2>3. CASE i < n
    <3>1. i \in 1 .. Len(L) /\ L[i] = l
      BY <1>1, <1>6, <2>1, <2>3
    <3> QED
      BY <3>1, Zenon
  <2>4. CASE i > n
    <3>1. i - 1 \in 1 .. Len(L) /\ L[i - 1] = l
      BY <1>1, <1>6, <2>1, <2>4
    <3> QED
      BY <3>1, Zenon
  <2> QED
    BY <1>1, <2>2, <2>3, <2>4
<1>11. Ordered(L, T)
  BY <1>6, <1>7, <1>8, <1>9, <1>10, Zenon DEF Ordered
<1> QED
  BY <1>4, <1>11, Zenon DEF T

\* A call moves on without the lock: it begins, looks an item up or ends.
LEMMA MoveKeeps ==
    ASSUME SetInv, NEW p \in User, mu # p, NEW c \in {Set!Idle} \cup Active,
           update' = [update EXCEPT ![p] = c], UNCHANGED <<currentIndex, index, store, mu, setCrashed>>,
           overlap' \in BOOLEAN, overlap => overlap',
           c # Set!Idle => c.at # "index",
           c # Set!Idle /\ c.at = "lock" =>
               /\ index[Head(c.items)] = IF c.op = "Add" THEN Nil ELSE c.key
               /\ c.op = "Remove" => c.key # Nil,
           ~overlap' /\ c # Set!Idle => \A q \in User : q # p => update[q] = Set!Idle
    PROVE  SetInv'
<1>0. SetOK /\ LockInv /\ KeyInv /\ FreshInv /\ IndexInv /\ SoloInv /\ Set!KeysMatchStore /\ Set!InsertionOrder
  BY Zenon DEF SetInv
<1>1. /\ update' \in [User -> {Set!Idle} \cup Active] /\ update'[p] = c
      /\ \A q \in User : q # p => update'[q] = update[q]
  BY <1>0, Zenon DEF SetOK
<1>2. SetOK'
  BY <1>0, <1>1, Zenon DEF SetOK
<1>3. mu' = mu /\ (mu # Nil => mu \in User /\ update'[mu] = update[mu])
  BY <1>0, <1>1, Zenon DEF SetOK
<1>4. Putting' <=> Putting
  BY <1>3, Zenon DEF Putting
<1>5. LockInv'
  BY <1>0, <1>1, <1>3, <1>4, Zenon DEF LockInv
<1>6. KeyInv'
  <2>1. ASSUME c # Set!Idle, c.op = "Remove", c.at # "look"
        PROVE  /\ c.key # Nil /\ c.key < currentIndex
               /\ store.store[c.key] \in {Head(c.items), Nil}
    <3>1. c \in Active
      BY <2>1, Zenon
    <3>2. c.at = "lock" /\ Head(c.items) \in Item
      BY <2>1, <3>1 DEF Active
    <3> QED
      BY <1>0, <2>1, <3>2, Zenon DEF FreshInv, IndexInv
  <2> QED
    BY <1>0, <1>1, <1>3, <2>1, Zenon DEF KeyInv
<1>7. FreshInv'
  BY <1>0, <1>3, <1>4, Zenon DEF FreshInv, Putting
<1>8. IndexInv'
  BY <1>0, <1>3, Zenon DEF IndexInv
<1>9. SoloInv'
  <2> SUFFICES ASSUME ~overlap' PROVE SoloInv'
    BY Zenon DEF SoloInv
  <2>1. \A q, r \in User : update'[q] # Set!Idle /\ update'[r] # Set!Idle => q = r
    BY <1>0, <1>1, Zenon DEF SoloInv
  <2>2. \A k \in Keys : store.store[k] # Nil /\ ~(Putting' /\ k = currentIndex) => index[store.store[k]] = k
    BY <1>0, <1>4, Zenon DEF SoloInv
  <2>3. c # Set!Idle /\ c.at # "look" => index[Head(c.items)] = IF c.op = "Add" THEN Nil ELSE c.key
    BY Zenon DEF Active
  <2>4. \A q \in User : update'[q] # Set!Idle /\ update'[q].at # "look" =>
           index[Head(update'[q].items)] = IF update'[q].op = "Add" THEN Nil ELSE update'[q].key
    BY <1>0, <1>1, <2>3, Zenon DEF SoloInv
  <2> QED
    BY <2>1, <2>2, <2>4, Zenon DEF SoloInv
<1> QED
  BY <1>0, <1>2, <1>5, <1>6, <1>7, <1>8, <1>9, Zenon
  DEF SetInv, Set!KeysMatchStore, Set!InsertionOrder

\* The call goes on to its next item, or ends.
LEMMA Advances ==
    ASSUME SetOK, NEW p \in User, update[p] # Set!Idle, Set!Advance(p)
    PROVE  \E c \in {Set!Idle} \cup Active :
              update' = [update EXCEPT ![p] = c] /\ (c # Set!Idle => c.at = "look")
<1> DEFINE c == update[p]
           next == [c EXCEPT !.items = Tail(@), !.at = "look"]
<1>1. c \in Active /\ c.items \in Seq(Item) /\ c.items # <<>>
  BY Zenon DEF SetOK, Active
<1>2. CASE Len(c.items) = 1
  BY <1>2, Zenon DEF Set!Advance, Set!Goes
<1>3. CASE Len(c.items) # 1
  <2>1. Tail(c.items) \in Seq(Item) \ {<<>>}
    <3>1. Tail(c.items) \in Seq(Item) /\ Len(Tail(c.items)) = Len(c.items) - 1
      BY <1>1
    <3>2. Len(c.items) - 1 # 0 /\ Len(<<>>) = 0
      BY <1>1, <1>3
    <3> QED
      BY <3>1, <3>2, Zenon
  <2>2. next \in Active /\ next.at = "look"
    BY <1>1, <2>1, Zenon DEF Active
  <2> QED
    BY <1>3, <2>2, Zenon DEF Set!Advance, Set!Goes
<1> QED
  BY <1>2, <1>3, Zenon

\* Add or Remove is called and takes its lock.
LEMMA CallKeeps ==
    ASSUME SetInv, NEW p \in User, NEW op \in {"Add", "Remove"}, NEW items \in Items,
           Set!Call(p, op, items)
    PROVE  SetInv'
<1> DEFINE c == [op |-> op, items |-> items, at |-> "look", key |-> Nil]
<1>1. c \in Active /\ c.at = "look"
  BY LibrariesAssumption, Zenon DEF Active
<1>2. update' = [update EXCEPT ![p] = c] /\ update[p] = Set!Idle
  BY Zenon DEF Set!Call, Set!Goes
<1>3. UNCHANGED <<currentIndex, index, store, mu, setCrashed>>
  BY Zenon DEF Set!Call
<1>4. overlap' \in BOOLEAN /\ (overlap => overlap') /\ (~overlap' => \A q \in User : update[q] = Set!Idle)
  BY Zenon DEF Set!Call
<1>5. mu # p
  BY <1>2, Zenon DEF SetInv, LockInv
<1> HIDE DEF c
<1> QED
  BY <1>1, <1>2, <1>3, <1>4, <1>5, MoveKeeps, Zenon

\* The index of the next item is looked up.
LEMMA LookKeeps ==
    ASSUME SetInv, NEW p \in User, Set!Look(p)
    PROVE  SetInv'
<1> DEFINE c == update[p]
           key == index[Head(c.items)]
<1>0. SetOK /\ LockInv /\ SoloInv
  BY Zenon DEF SetInv
<1>1. /\ c # Set!Idle /\ c \in Active /\ c.at = "look" /\ Head(c.items) \in Item
      /\ UNCHANGED <<currentIndex, index, store, mu, setCrashed, overlap>>
  BY <1>0 DEF Set!Look, SetOK, Active
<1>2. mu # p /\ overlap \in BOOLEAN /\ (~overlap => \A q \in User : q # p => update[q] = Set!Idle)
  BY <1>0, <1>1, Zenon DEF LockInv, SetOK, SoloInv
<1>3. ASSUME NEW d \in {Set!Idle} \cup Active, update' = [update EXCEPT ![p] = d],
             d # Set!Idle => d.at # "index",
             d # Set!Idle /\ d.at = "lock" =>
                 /\ index[Head(d.items)] = IF d.op = "Add" THEN Nil ELSE d.key
                 /\ d.op = "Remove" => d.key # Nil
      PROVE  SetInv'
  BY <1>1, <1>2, <1>3, MoveKeeps, Zenon
<1>4. CASE key = Nil /\ c.op = "Remove"
  <2>1. update' = [update EXCEPT ![p] = Set!Idle]
    BY <1>4, Zenon DEF Set!Look, Set!Missing, Set!Goes
  <2> QED
    BY <1>3, <2>1, Zenon
<1>5. CASE key = Nil /\ c.op # "Remove"
  <2> DEFINE d == [c EXCEPT !.at = "lock"]
  <2>1. update' = [update EXCEPT ![p] = d]
    BY <1>5, Zenon DEF Set!Look, Set!Missing, Set!Goes
  <2>2. d \in Active /\ d.at = "lock" /\ d.op = "Add" /\ d.items = c.items
    BY <1>1, <1>5, Zenon DEF Active
  <2> HIDE DEF d
  <2> QED
    BY <1>3, <1>5, <2>1, <2>2, Zenon
<1>6. CASE key # Nil /\ c.op = "Add"
  <2>1. Set!Advance(p)
    BY <1>6, Zenon DEF Set!Look
  <2> QED
    BY <1>0, <1>1, <1>3, <2>1, Advances, Zenon
<1>7. CASE key # Nil /\ c.op # "Add"
  <2> DEFINE d == [c EXCEPT !.at = "lock", !.key = key]
  <2>1. update' = [update EXCEPT ![p] = d]
    BY <1>7, Zenon DEF Set!Look, Set!Goes
  <2>2. key \in Keys
    BY <1>0, <1>1, <1>7, Zenon DEF SetOK
  <2>3. d \in Active /\ d.at = "lock" /\ d.op = "Remove" /\ d.items = c.items /\ d.key = key
    BY <1>1, <1>7, <2>2, Zenon DEF Active
  <2> HIDE DEF d
  <2> QED
    BY <1>3, <1>7, <2>1, <2>3, Zenon
<1> QED
  BY <1>4, <1>5, <1>6, <1>7, Zenon

\* The first half of put or remove under the lock, as far as both do the same.
LEMMA StoreMoves ==
    ASSUME SetInv, NEW p \in User, Set!Store(p)
    PROVE  /\ mu = Nil /\ mu' = p /\ UNCHANGED <<currentIndex, index, setCrashed, overlap>>
           /\ update[p] \in Active /\ update[p] # Set!Idle /\ update[p].at = "lock"
           /\ update' \in [User -> {Set!Idle} \cup Active]
           /\ \A q \in User : q # p => update'[q] = update[q] /\ (update[q] # Set!Idle => update[q].at # "index")
           /\ update'[p] \in Active /\ update'[p] # Set!Idle /\ update'[p].at = "index"
           /\ update'[p].op = update[p].op /\ update'[p].items = update[p].items
           /\ update'[p].key = update[p].key /\ Head(update[p].items) \in Item /\ p # Nil
<1> DEFINE c == update[p]
           d == [c EXCEPT !.at = "index"]
<1>0. SetOK /\ LockInv
  BY Zenon DEF SetInv
<1>1. mu = Nil /\ mu' = p /\ UNCHANGED <<currentIndex, index, setCrashed, overlap>> /\ p # Nil
  BY LibrariesAssumption, Zenon DEF Set!Store
<1>2. c \in Active /\ c # Set!Idle /\ c.at = "lock" /\ update' = [update EXCEPT ![p] = d]
  BY <1>0, Zenon DEF Set!Store, Set!Goes, SetOK
<1>3. /\ d \in Active /\ d.at = "index" /\ d.op = c.op /\ d.items = c.items /\ d.key = c.key
      /\ Head(c.items) \in Item
  BY <1>2 DEF Active
<1>4. d.op # "idle" /\ Set!Idle.op = "idle"
  BY <1>2, <1>3, Zenon DEF Active, Set!Idle
<1> HIDE DEF d
<1>5. update' \in [User -> {Set!Idle} \cup Active] /\ update'[p] = d /\ \A q \in User : q # p => update'[q] = update[q]
  BY <1>0, <1>2, <1>3, Zenon DEF SetOK
<1>6. \A q \in User : update[q] # Set!Idle => update[q].at # "index"
  BY <1>0, <1>1, LibrariesAssumption, Zenon DEF LockInv
<1> QED
  BY <1>1, <1>2, <1>3, <1>4, <1>5, <1>6, Zenon

\* Add puts an item behind the others.
LEMMA PutKeeps ==
    ASSUME SetInv, NEW p \in User, Set!Store(p), update[p].op = "Add"
    PROVE  SetInv'
<1> DEFINE i == Head(update[p].items)
           K == store.keys
           S == store.store
<1>0. SetOK /\ LockInv /\ KeyInv /\ FreshInv /\ IndexInv /\ SoloInv /\ Set!KeysMatchStore /\ Set!InsertionOrder
  BY Zenon DEF SetInv
<1>1. mu = Nil /\ mu' = p /\ UNCHANGED <<currentIndex, index, setCrashed, overlap>> /\ i \in Item /\ p # Nil
  BY StoreMoves, Zenon
<1>2. /\ update' \in [User -> {Set!Idle} \cup Active]
      /\ \A q \in User : q # p => update'[q] = update[q] /\ (update[q] # Set!Idle => update[q].at # "index")
      /\ update[p] # Set!Idle /\ update[p].at = "lock"
      /\ update'[p] # Set!Idle /\ update'[p].at = "index" /\ update'[p].op = "Add"
      /\ Head(update'[p].items) = i /\ update'[p].key = update[p].key
  BY StoreMoves, Zenon
<1>3. currentIndex < MaxIndex /\ currentIndex \in Keys /\ i # Nil /\ Keys \subseteq Int
  BY <1>0, <1>1, LibrariesAssumption DEF Set!Store, SetOK, Keys
<1>4. S[currentIndex] = Nil /\ \A k \in Keys : k >= currentIndex => S[k] = Nil
  BY <1>0, <1>1, <1>3 DEF FreshInv, Putting
<1>5. store' = Set!MapPut(store, currentIndex, i)
  BY Zenon DEF Set!Store
<1>6. store'.keys = Append(K, currentIndex) /\ store'.store = [S EXCEPT ![currentIndex] = i]
  BY <1>4, <1>5, Zenon DEF Set!MapPut
<1>7. /\ store'.keys \in Seq(Keys) /\ DOMAIN K = 1 .. Len(K) /\ DOMAIN store'.keys = 1 .. Len(K) + 1 /\ Len(K) \in Nat
      /\ \A n \in 1 .. Len(K) : store'.keys[n] = K[n] /\ K[n] \in Keys
      /\ store'.keys[Len(K) + 1] = currentIndex
  BY <1>0, <1>3, <1>6 DEF SetOK
<1>8. /\ store'.store \in [Keys -> Item \cup {Nil}] /\ store'.store[currentIndex] = i
      /\ \A k \in Keys : k # currentIndex => store'.store[k] = S[k]
  BY <1>0, <1>1, <1>3, <1>6, Zenon DEF SetOK
<1>9. SetOK'
  BY <1>0, <1>1, <1>2, <1>7, <1>8, Zenon DEF SetOK
<1>10. Putting'
  BY <1>1, <1>2, Zenon DEF Putting
<1>11. LockInv'
  BY <1>0, <1>1, <1>2, <1>3, <1>10, Zenon DEF LockInv
<1>12. KeyInv'
  <2>1. \A q \in User : q # p /\ update[q] # Set!Idle /\ update[q].op = "Remove" /\ update[q].at # "look" =>
           /\ update[q].key \in Keys /\ update[q].key # currentIndex /\ update[q].key # Nil
           /\ update[q].key < currentIndex /\ S[update[q].key] \in {Head(update[q].items), Nil}
    BY <1>0, <1>3 DEF KeyInv, SetOK, Active
  <2> QED
    BY <1>1, <1>2, <1>8, <2>1, Zenon DEF KeyInv
<1>13. FreshInv'
  BY <1>0, <1>1, <1>2, <1>4, <1>8, <1>10, Zenon DEF FreshInv
<1>14. \A j \in Item : index[j] # Nil => index[j] \in Keys /\ index[j] # currentIndex
  BY <1>0, <1>3 DEF SetOK, FreshInv
<1>15. IndexInv'
  BY <1>0, <1>1, <1>8, <1>14, Zenon DEF IndexInv
<1>16. SoloInv'
  <2> SUFFICES ASSUME ~overlap PROVE SoloInv'
    BY <1>1, Zenon DEF SoloInv
  <2>1. \A q, r \in User : update'[q] # Set!Idle /\ update'[r] # Set!Idle => q = r
    BY <1>0, <1>2, Zenon DEF SoloInv
  <2>2. \A k \in Keys : store'.store[k] # Nil /\ k # currentIndex => index[store'.store[k]] = k
    BY <1>0, <1>1, <1>8, Zenon DEF SoloInv, Putting
  <2>3. \A q \in User : update'[q] # Set!Idle /\ update'[q].at # "look" =>
           index[Head(update'[q].items)] = IF update'[q].op = "Add" THEN Nil ELSE update'[q].key
    BY <1>0, <1>2, Zenon DEF SoloInv
  <2> QED
    BY <1>1, <1>10, <2>1, <2>2, <2>3, Zenon DEF SoloInv
<1>17. Ordered(store'.keys, store'.store)
  <2>1. Ordered(K, S)
    BY <1>0, OrderedMeans, Zenon DEF SetOK, Set!KeysMatchStore, Set!InsertionOrder
  <2>2. \A n \in 1 .. Len(K) : K[n] \in Keys /\ S[K[n]] # Nil
    BY <1>7, <2>1, Zenon DEF Ordered
  <2>3. \A n \in 1 .. Len(K) : K[n] < currentIndex
    <3>1. currentIndex \in Int
      BY <1>0, LibrariesAssumption DEF SetOK
    <3> TAKE n \in 1 .. Len(K)
    <3>2. K[n] \in Keys /\ K[n] \in Int
      BY <1>3, <2>2, Zenon
    <3>3. ~(K[n] >= currentIndex)
      BY <1>4, <2>2, <3>2, Zenon
    <3> QED
      BY <3>1, <3>2, <3>3
  <2> QED
    BY <1>1, <1>3, <1>6, <2>1, <2>3, PutOrdered
<1>18. Set!InsertionOrder' /\ Set!KeysMatchStore'
  BY <1>7, <1>8, <1>17, OrderedMeans, Zenon DEF Set!KeysMatchStore, Set!InsertionOrder
<1> QED
  BY <1>9, <1>11, <1>12, <1>13, <1>15, <1>16, <1>18, Zenon DEF SetInv

\* Remove takes an item out of the list of keys, the map and the index.
LEMMA TakeOutKeeps ==
    ASSUME SetInv, NEW p \in User, Set!Store(p), update[p].op = "Remove"
    PROVE  SetInv'
<1> DEFINE i == Head(update[p].items)
           key == update[p].key
           K == store.keys
           S == store.store
<1>0. SetOK /\ LockInv /\ KeyInv /\ FreshInv /\ IndexInv /\ SoloInv /\ Set!KeysMatchStore /\ Set!InsertionOrder
  BY Zenon DEF SetInv
<1>1. mu = Nil /\ mu' = p /\ UNCHANGED <<currentIndex, index, setCrashed, overlap>> /\ i \in Item /\ p # Nil
  BY StoreMoves, Zenon
<1>2. /\ update' \in [User -> {Set!Idle} \cup Active] /\ update[p] \in Active
      /\ \A q \in User : q # p => update'[q] = update[q] /\ (update[q] # Set!Idle => update[q].at # "index")
      /\ update[p] # Set!Idle /\ update[p].at = "lock"
      /\ update'[p] # Set!Idle /\ update'[p].at = "index" /\ update'[p].op = "Remove"
      /\ Head(update'[p].items) = i /\ update'[p].key = key
  BY StoreMoves, Zenon
<1>3. key \in Keys /\ key < currentIndex /\ S[key] \in {i, Nil} /\ Keys \subseteq Int /\ currentIndex \in Int
  BY <1>0, <1>2, LibrariesAssumption DEF KeyInv, Active, Keys, SetOK
<1>4. store' = Set!MapRemove(store, key)
  BY Zenon DEF Set!Store
<1>5. /\ store'.store \in [Keys -> Item \cup {Nil}] /\ store'.store[key] = Nil
      /\ \A k \in Keys : k # key => store'.store[k] = S[k]
  BY <1>0, <1>3, <1>4, Zenon DEF Set!MapRemove, SetOK
<1>6. /\ store'.keys \in Seq(Keys) /\ Set!InsertionOrder' /\ Set!KeysMatchStore'
  <2>1. CASE S[key] = Nil
    BY <1>0, <1>4, <2>1, Zenon DEF Set!MapRemove, SetOK, Set!InsertionOrder, Set!KeysMatchStore
  <2>2. CASE S[key] # Nil
    <3>1. Ordered(K, S)
      BY <1>0, OrderedMeans, Zenon DEF SetOK, Set!KeysMatchStore, Set!InsertionOrder
    <3>2. store'.keys = Set!Without(K, key) /\ store'.store = [S EXCEPT ![key] = Nil]
      BY <1>4, <2>2, Zenon DEF Set!MapRemove
    <3>3. Ordered(store'.keys, store'.store)
      <4>1. Ordered(Set!Without(K, key), [S EXCEPT ![key] = Nil])
        BY <1>3, <2>2, <3>1, RemoveOrdered, Zenon
      <4> QED
        BY <3>2, <4>1, Zenon
    <3>4. store'.keys \in Seq(Keys)
      BY <3>3, Zenon DEF Ordered
    <3> QED
      BY <1>5, <3>3, <3>4, OrderedMeans, Zenon DEF Set!KeysMatchStore, Set!InsertionOrder
  <2> QED
    BY <2>1, <2>2, Zenon
<1>7. SetOK'
  BY <1>0, <1>1, <1>2, <1>5, <1>6, Zenon DEF SetOK
<1>8. ~Putting /\ ~Putting'
  BY <1>1, <1>2, Zenon DEF Putting
<1>9. LockInv'
  BY <1>0, <1>1, <1>2, <1>8, Zenon DEF LockInv
<1>10. KeyInv'
  <2>1. \A q \in User : q # p /\ update[q] # Set!Idle /\ update[q].op = "Remove" /\ update[q].at # "look" =>
           /\ update[q].key \in Keys /\ update[q].key # Nil
           /\ update[q].key < currentIndex /\ S[update[q].key] \in {Head(update[q].items), Nil}
    BY <1>0, Zenon DEF KeyInv, SetOK, Active
  <2>2. \A q \in User : q # p /\ update[q] # Set!Idle /\ update[q].op = "Remove" /\ update[q].at # "look" =>
           store'.store[update[q].key] \in {Head(update[q].items), Nil}
    BY <1>5, <2>1, Zenon
  <2>3. key # Nil
    BY <1>0, <1>2, Zenon DEF KeyInv
  <2> QED
    BY <1>1, <1>2, <1>3, <1>5, <2>1, <2>2, <2>3, Zenon DEF KeyInv
<1>11. FreshInv'
  BY <1>0, <1>1, <1>3, <1>5, <1>8, Zenon DEF FreshInv
<1>12. IndexInv'
  <2>1. \A j \in Item : index[j] # Nil => index[j] \in Keys /\ S[index[j]] = j
    BY <1>0, <1>1, Zenon DEF SetOK, IndexInv
  <2>2. \A j \in Item : index[j] # Nil /\ j # i => index[j] # key
    BY <1>3, <2>1, LibrariesAssumption, Zenon
  <2> QED
    BY <1>1, <1>2, <1>5, <2>1, <2>2, Zenon DEF IndexInv
<1>13. SoloInv'
  <2> SUFFICES ASSUME ~overlap PROVE SoloInv'
    BY <1>1, Zenon DEF SoloInv
  <2>1. \A q, r \in User : update'[q] # Set!Idle /\ update'[r] # Set!Idle => q = r
    BY <1>0, <1>2, Zenon DEF SoloInv
  <2>2. \A k \in Keys : store'.store[k] # Nil => index[store'.store[k]] = k
    BY <1>0, <1>5, <1>8, Zenon DEF SoloInv
  <2>3. \A q \in User : update'[q] # Set!Idle /\ update'[q].at # "look" =>
           index[Head(update'[q].items)] = IF update'[q].op = "Add" THEN Nil ELSE update'[q].key
    BY <1>0, <1>2 DEF SoloInv
  <2> QED
    BY <1>1, <2>1, <2>2, <2>3, Zenon DEF SoloInv
<1> QED
  BY <1>6, <1>7, <1>9, <1>10, <1>11, <1>12, <1>13, Zenon DEF SetInv

\* The second half of put or remove.
LEMMA IndexKeeps ==
    ASSUME SetInv, NEW p \in User, Set!Index(p)
    PROVE  SetInv'
<1> DEFINE c == update[p]
           i == Head(c.items)
           S == store.store
           v == IF c.op = "Add" THEN currentIndex ELSE Nil
<1>0. SetOK /\ LockInv /\ KeyInv /\ FreshInv /\ IndexInv /\ SoloInv /\ Set!KeysMatchStore /\ Set!InsertionOrder
  BY Zenon DEF SetInv
<1>1. mu = p /\ mu' = Nil /\ UNCHANGED <<store, setCrashed, overlap>> /\ p # Nil
  BY LibrariesAssumption, Zenon DEF Set!Index
<1>2. /\ c # Set!Idle /\ c \in Active /\ c.at = "index" /\ i \in Item /\ i # Nil /\ c.op \in {"Add", "Remove"}
      /\ \A q \in User : q # p /\ update[q] # Set!Idle => update[q].at # "index"
  BY <1>0, <1>1, LibrariesAssumption DEF LockInv, SetOK, Active
<1>3. PICK d \in {Set!Idle} \cup Active : update' = [update EXCEPT ![p] = d] /\ (d # Set!Idle => d.at = "look")
  BY <1>0, <1>2, Advances, Zenon DEF Set!Index
<1>4. /\ update' \in [User -> {Set!Idle} \cup Active] /\ update'[p] = d
      /\ \A q \in User : q # p => update'[q] = update[q]
  BY <1>0, <1>3, Zenon DEF SetOK
<1>5. (Putting <=> c.op = "Add") /\ ~Putting'
  BY <1>1, Zenon DEF Putting
<1>6. /\ c.op = "Add" => currentIndex \in Keys /\ currentIndex' = currentIndex + 1 /\ S[currentIndex] = i
      /\ c.op = "Remove" => currentIndex' = currentIndex /\ S[c.key] = Nil /\ c.key \in Keys
  BY <1>0, <1>1, <1>2, <1>5, LibrariesAssumption DEF Set!Index, LockInv, SetOK, Keys, FreshInv, KeyInv, Active
<1>7. index' = [index EXCEPT ![i] = v] /\ v \in Keys \cup {Nil}
  BY <1>6, Zenon DEF Set!Index
<1>8. index' \in [Item -> Keys \cup {Nil}] /\ index'[i] = v /\ \A j \in Item : j # i => index'[j] = index[j]
  BY <1>0, <1>2, <1>7, Zenon DEF SetOK
<1>9. currentIndex' \in 0 .. MaxIndex /\ currentIndex \in Int /\ currentIndex <= currentIndex' /\ Keys \subseteq Int
  BY <1>0, <1>2, <1>6, LibrariesAssumption DEF SetOK, Keys
<1>10. SetOK'
  BY <1>0, <1>1, <1>4, <1>8, <1>9, Zenon DEF SetOK
<1>11. LockInv'
  BY <1>1, <1>2, <1>3, <1>4, <1>5, LibrariesAssumption, Zenon DEF LockInv
<1>12. KeyInv'
  <2>1. \A q \in User : q # p /\ update[q] # Set!Idle /\ update[q].op = "Remove" /\ update[q].at # "look" =>
           /\ update[q].key # Nil /\ update[q].key < currentIndex'
           /\ S[update[q].key] \in {Head(update[q].items), Nil}
    <3> SUFFICES ASSUME NEW q \in User, update[q] # Set!Idle, update[q].op = "Remove", update[q].at # "look"
                 PROVE  /\ update[q].key # Nil /\ update[q].key < currentIndex'
                        /\ S[update[q].key] \in {Head(update[q].items), Nil}
      BY Zenon
    <3>1. /\ update[q].key # Nil /\ update[q].key < currentIndex
          /\ S[update[q].key] \in {Head(update[q].items), Nil}
      BY <1>0, Zenon DEF KeyInv
    <3>2. update[q].key \in Int
      BY <1>0, <1>9, <3>1, Zenon DEF SetOK, Active
    <3> QED
      BY <1>9, <3>1, <3>2
  <2> QED
    BY <1>1, <1>3, <1>4, <2>1, LibrariesAssumption, Zenon DEF KeyInv
<1>13. FreshInv'
  <2>1. \A k \in Keys : k >= currentIndex' => S[k] = Nil
    <3> TAKE k \in Keys
    <3>1. k \in Int /\ currentIndex' \in Int
      BY <1>9
    <3>2. k >= currentIndex' => k >= currentIndex /\ ~(Putting /\ k = currentIndex)
      BY <1>2, <1>5, <1>6, <1>9, <3>1
    <3> QED
      BY <1>0, <3>2, Zenon DEF FreshInv
  <2>2. \A j \in Item : index'[j] # Nil => index'[j] < currentIndex'
    <3> SUFFICES ASSUME NEW j \in Item, index'[j] # Nil PROVE index'[j] < currentIndex'
      BY Zenon
    <3>1. CASE j = i
      BY <1>2, <1>6, <1>8, <1>9, <3>1
    <3>2. CASE j # i
      <4>1. index'[j] = index[j] /\ index[j] \in Int /\ index[j] < currentIndex
        BY <1>0, <1>8, <1>9, <3>2, Zenon DEF FreshInv, SetOK
      <4> QED
        BY <1>9, <4>1
    <3> QED
      BY <3>1, <3>2, Zenon
  <2> QED
    BY <1>1, <1>5, <2>1, <2>2, Zenon DEF FreshInv
<1>14. IndexInv'
  <2>1. \A j \in Item : j # i /\ index[j] # Nil => S[index[j]] = j
    BY <1>0, <1>1, Zenon DEF IndexInv
  <2>2. v # Nil => S[v] = i
    BY <1>6, Zenon
  <2> QED
    BY <1>1, <1>8, <2>1, <2>2, Zenon DEF IndexInv
<1>15. SoloInv'
  <2> SUFFICES ASSUME ~overlap PROVE SoloInv'
    BY <1>1, Zenon DEF SoloInv
  <2>1. \A q \in User : q # p => update[q] = Set!Idle
    BY <1>0, <1>2, Zenon DEF SoloInv
  <2>2. \A q, r \in User : update'[q] # Set!Idle /\ update'[r] # Set!Idle => q = r
    BY <1>4, <2>1, Zenon
  <2>3. \A q \in User : update'[q] # Set!Idle => update'[q].at = "look"
    BY <1>3, <1>4, <2>1, Zenon
  <2>4. index[i] = IF c.op = "Add" THEN Nil ELSE c.key
    BY <1>0, <1>2, Zenon DEF SoloInv
  <2>5. ASSUME NEW k \in Keys, S[k] # Nil PROVE index'[S[k]] = k
    <3>1. S[k] \in Item
      BY <1>0, <2>5, Zenon DEF SetOK
    <3>2. CASE Putting /\ k = currentIndex
      BY <1>5, <1>6, <1>8, <3>2, Zenon
    <3>3. CASE ~(Putting /\ k = currentIndex)
      <4>1. index[S[k]] = k /\ k # Nil
        BY <1>0, <2>5, <3>3, LibrariesAssumption DEF SoloInv, Keys
      <4>2. S[k] # i
        BY <1>2, <1>6, <2>4, <2>5, <4>1, Zenon
      <4> QED
        BY <1>8, <3>1, <4>1, <4>2, Zenon
    <3> QED
      BY <3>2, <3>3, Zenon
  <2> QED
    BY <1>1, <1>5, <2>2, <2>3, <2>5, Zenon DEF SoloInv
<1>16. Set!KeysMatchStore' /\ Set!InsertionOrder'
  BY <1>0, <1>1, Zenon DEF Set!KeysMatchStore, Set!InsertionOrder
<1> QED
  BY <1>10, <1>11, <1>12, <1>13, <1>14, <1>15, <1>16, Zenon DEF SetInv

\* Every step of the set keeps the invariant.
LEMMA SetStep == SetInv /\ [Set!Next]_setVars => SetInv'
<1> SUFFICES ASSUME SetInv, [Set!Next]_setVars PROVE SetInv'
  BY Zenon
<1>1. ASSUME UNCHANGED <<currentIndex, index, store, mu, update, overlap>>, setCrashed' \in BOOLEAN PROVE SetInv'
  BY <1>1 DEF SetInv, SetOK, LockInv, KeyInv, FreshInv, IndexInv, SoloInv, Putting,
              Set!KeysMatchStore, Set!InsertionOrder
<1>2. CASE UNCHANGED setVars
  BY <1>1, <1>2, Zenon DEF setVars, SetInv, SetOK
<1>3. ASSUME NEW p \in User, Set!Crash(p) PROVE SetInv'
  BY <1>1, <1>3, Zenon DEF Set!Crash
<1>4. ASSUME NEW p \in User, Set!Store(p) PROVE SetInv'
  <2>1. update[p].op \in {"Add", "Remove"}
    BY <1>4, StoreMoves, Zenon DEF Active
  <2> QED
    BY <1>4, <2>1, PutKeeps, TakeOutKeeps, Zenon
<1> QED
  BY <1>2, <1>3, <1>4, CallKeeps, LookKeeps, IndexKeeps, Zenon DEF Set!Next

\* The invariant implies what SetStaysOrdered states.
LEMMA SetMeans == SetInv => SetSound
<1> SUFFICES ASSUME SetInv PROVE SetSound
  BY Zenon
<1>1. SetOK /\ IndexInv /\ SoloInv /\ Set!KeysMatchStore /\ Set!InsertionOrder
  BY Zenon DEF SetInv
<1>2. Set!TypeOK
  <2>1. \A p \in User : update[p].op \in {"idle", "Add", "Remove"}
    BY <1>1 DEF SetOK, Active, Set!Idle
  <2> QED BY <1>1, <2>1 DEF Set!TypeOK, SetOK, Keys
<1>3. Set!IndexInStore
  BY <1>1, Zenon DEF Set!IndexInStore, IndexInv
<1>4. Set!Agree
  <2> SUFFICES ASSUME mu = Nil, ~overlap
               PROVE  /\ {Set!Values[n] : n \in DOMAIN Set!Values} = {i \in Item : index[i] # Nil}
                      /\ \A n, o \in DOMAIN Set!Values : n # o => Set!Values[n] # Set!Values[o]
    BY Zenon DEF Set!Agree
  <2> DEFINE K == store.keys
             S == store.store
             V == Set!Values
  <2>1. K \in Seq(Keys) /\ S \in [Keys -> Item \cup {Nil}] /\ index \in [Item -> Keys \cup {Nil}]
    BY <1>1, Zenon DEF SetOK
  <2>2. DOMAIN V = DOMAIN K /\ \A n \in DOMAIN K : V[n] = S[K[n]] /\ K[n] \in Keys
    BY <2>1 DEF Set!Values, Set!MapValues
  <2>3. \A k \in Keys : S[k] # Nil => S[k] \in Item /\ index[S[k]] = k
    BY <1>1, <2>1, Zenon DEF SoloInv, Putting
  <2>4. \A k \in Keys : S[k] # Nil <=> \E n \in DOMAIN K : K[n] = k
    BY <1>1, Zenon DEF Set!KeysMatchStore, Keys
  <2>5. \A n, o \in DOMAIN K : n # o => K[n] # K[o]
    BY <1>1, Zenon DEF Set!KeysMatchStore
  <2>6. Nil \notin Keys /\ Nil \notin Item
    BY LibrariesAssumption DEF Keys
  <2>7. \A i \in Item : index[i] # Nil => index[i] \in Keys /\ S[index[i]] = i
    BY <1>1, <2>1, Zenon DEF IndexInv
  <2> HIDE DEF K, S, V
  <2>8. \A n \in DOMAIN V : V[n] \in Item /\ index[V[n]] = K[n] /\ K[n] \in Keys
    BY <2>2, <2>3, <2>4, Zenon
  <2>9. \A i \in Item : index[i] # Nil => \E n \in DOMAIN V : V[n] = i
    BY <2>2, <2>4, <2>6, <2>7
  <2>10. \A n, o \in DOMAIN V : n # o => V[n] # V[o]
    BY <2>2, <2>5, <2>8
  <2>11. {V[n] : n \in DOMAIN V} = {i \in Item : index[i] # Nil}
    BY <2>6, <2>8, <2>9
  <2> QED BY <2>10, <2>11 DEF V
<1> QED BY <1>1, <1>2, <1>3, <1>4 DEF SetSound

\* The ordered set under concurrent Add and Remove, which look their items up
\* before they lock: keys and store of its map agree, values stay in the order
\* of their insertion and the index points at stored items; without overlapping
\* calls index and store hold the same items, each once.
THEOREM SetStaysOrdered == Set!Spec => []SetSound
<1>1. Set!Spec => []SetInv
  <2>1. SetInv /\ [Set!Next]_Set!vars => SetInv'
    BY SetStep, Zenon DEF Set!vars, setVars
  <2> QED BY <2>1, SetInit, PTL DEF Set!Spec
<1> QED BY <1>1, SetMeans, PTL

===============================================================================
