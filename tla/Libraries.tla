------------------------------- MODULE Libraries -------------------------------
(***************************************************************************)
(* Two data structures that share no state: the ordered set of package     *)
(* basic and the single-flight group of package concurrency.               *)
(***************************************************************************)
EXTENDS Integers, Sequences

CONSTANTS
    Nil,
    Item, Items, User, MaxIndex,        \* ordered set
    Key, Proc, MaxCalls                 \* single flight

\* nil is none of the values it stands beside, and a call of Add or Remove names
\* an item.
ASSUME LibrariesAssumption ==
    /\ Nil \notin Nat /\ Nil \notin Item /\ Nil \notin User /\ Nil \notin Proc
    /\ Items \subseteq Seq(Item) \ {<<>>} /\ MaxIndex \in Nat /\ MaxCalls \in Nat

VARIABLES
    currentIndex, index, store, mu, update, setCrashed, overlap,
    m, calls, caller, held, crashed, last

Set == INSTANCE OrderedSet WITH Proc <- User, call <- update, crashed <- setCrashed
Flight == INSTANCE SingleFlight WITH Outcome <- {"return", "panic", "goexit"}

setVars == <<currentIndex, index, store, mu, update, setCrashed, overlap>>
flightVars == <<m, calls, caller, held, crashed, last>>

-------------------------------------------------------------------------------
\* Under concurrent Add and Remove of the ordered set, which look their items up
\* before they lock: the keys and the store of its map agree, the values keep the
\* order of their insertion and the index only points at stored items; without
\* overlapping calls index and store hold the same items, each once.
SetSound ==
    Set!TypeOK /\ Set!KeysMatchStore /\ Set!InsertionOrder /\ Set!IndexInStore /\ Set!Agree

\* Only one execution of fn is in flight for a key unless Forget was called, one
\* that was forgotten does not remove the entry of its successor, and shared tells
\* whether the value went to several callers of Do and DoChan.
FlightSound == Flight!TypeOK /\ Flight!OneInFlight /\ Flight!SharedIsTrue

===============================================================================
