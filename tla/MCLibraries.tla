------------------------------ MODULE MCLibraries ------------------------------
(***************************************************************************)
(* The data structures of the repository for TLC: the linked list and the  *)
(* ordered set of package basic, the timing wheel and the single-flight    *)
(* group.                                                                  *)
(*                                                                         *)
(* They share no state, so the behaviours of one do not depend on the      *)
(* others: unit chooses the one that is used, and the others stay in their *)
(* initial state.                                                          *)
(***************************************************************************)
EXTENDS Libraries, LinkedList, TimingWheel, TLC

VARIABLE unit

wheelVars == <<current, buckets, tick, add, panic, due, slot, ran, overtaken>>

\* Arguments of Add and Remove: every item alone, and two items.
ItemLists ==
    LET first == CHOOSE i \in Item : TRUE
    IN {<<i>> : i \in Item} \cup {<<first, i>> : i \in Item \ {first}}

\* How far ahead a task is added: too late, in this turn of the wheel, in later ones.
TimesAhead == {-1, 0, 1, 3, 6}

UnitInit ==
    /\ unit \in {"list", "set", "wheel", "flight"}
    /\ NewLinkedList /\ Set!NewOrderedSet /\ Init /\ Flight!Init

UnitNext ==
    /\ \/ unit = "list" /\ ListNext /\ UNCHANGED <<setVars, wheelVars, flightVars>>
       \/ unit = "set" /\ Set!Next /\ UNCHANGED <<listVars, wheelVars, flightVars>>
       \/ unit = "wheel" /\ Next /\ UNCHANGED <<listVars, setVars, flightVars>>
       \/ unit = "flight" /\ Flight!Next /\ UNCHANGED <<listVars, setVars, wheelVars>>
    /\ UNCHANGED unit

UnitSpec == UnitInit /\ [][UnitNext]_<<listVars, setVars, wheelVars, flightVars, unit>>

Symmetry == Permutations(Node)

===============================================================================
