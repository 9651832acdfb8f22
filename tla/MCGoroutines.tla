----------------------------- MODULE MCGoroutines -----------------------------
(***************************************************************************)
(* The two packages that manage goroutines for their callers, for TLC: the *)
(* goroutine pool and the single-flight group.                             *)
(*                                                                         *)
(* They share no state, so the behaviours of one do not depend on the      *)
(* other: unit chooses the one that runs, and the other stays in its       *)
(* initial state.                                                          *)
(***************************************************************************)
EXTENDS Pool

CONSTANTS Key, Proc, MaxCalls, Outcome

VARIABLES m, calls, caller, held, crashed, last, unit

Flight == INSTANCE SingleFlight

flightVars == <<m, calls, caller, held, crashed, last>>

UnitInit ==
    /\ unit \in {"pool", "flight"} /\ (unit # "pool" => cap = 0)
    /\ Init /\ Flight!Init

UnitNext ==
    /\ \/ unit = "pool" /\ Next /\ UNCHANGED flightVars
       \/ unit = "flight" /\ Flight!Next /\ UNCHANGED vars
       \/ unit = "flight" /\ UNCHANGED <<vars, flightVars>>     \* it may come to rest
    /\ UNCHANGED unit

\* The fairness of each unit: in the one that does not run nothing is in progress.
UnitSpec ==
    /\ UnitInit /\ [][UnitNext]_<<vars, flightVars, unit>>
    /\ Fairness /\ Flight!Fairness

-------------------------------------------------------------------------------
\* Do returns, whether fn returns, panics or calls Goexit, and DoChan is answered or
\* the process ends with the panic of fn; only a Goexit of fn leaves its channel
\* empty.
FlightEnds == Flight!DoReturns /\ Flight!ChanAnswered

===============================================================================
