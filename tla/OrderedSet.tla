------------------------------ MODULE OrderedSet ------------------------------
(***************************************************************************)
(* OrderedSet over OrderedMap (src/basic/orderedset.go, orderedmap.go).    *)
(*                                                                         *)
(* Add and Remove look every item up in the Go map index without the       *)
(* lock and then change map and store under it.  The change is two steps,  *)
(* so that another goroutine's unlocked lookup can fall between them; the  *)
(* Go runtime may then stop the process ("concurrent map read and map      *)
(* write") or let the lookup through.                                      *)
(***************************************************************************)
EXTENDS Integers, Sequences

CONSTANTS
    Item,
    Proc,           \* goroutines that use the set
    Items,          \* argument lists of Add and Remove
    MaxIndex,       \* bound: number of items put
    Nil

VARIABLES
    currentIndex,
    index,          \* index[item]: its key in store, or Nil
    store,          \* the OrderedMap: its keys, a sequence, and its store
    mu,             \* holder of OrderedSet.mu, or Nil
    call,           \* call[p]: the items left, where the call is, the key it looked up
    crashed,        \* the runtime stopped the process
    overlap         \* history: two calls were in progress at the same time

vars == <<currentIndex, index, store, mu, call, crashed, overlap>>

-------------------------------------------------------------------------------
(* OrderedMap, every method under its own lock *)

NewOrderedMap == [keys |-> <<>>, store |-> [k \in 0 .. MaxIndex - 1 |-> Nil]]

MapPut(m, k, v) ==
    [keys |-> IF m.store[k] = Nil THEN Append(m.keys, k) ELSE m.keys,
     store |-> [m.store EXCEPT ![k] = v]]

\* The loop over the keys breaks at the first that is k and closes the gap.
Without(keys, k) ==
    LET at == {i \in DOMAIN keys : keys[i] = k}
        first == CHOOSE i \in at : \A j \in at : i <= j
    IN IF at = {} THEN keys
       ELSE [i \in 1 .. Len(keys) - 1 |-> IF i < first THEN keys[i] ELSE keys[i + 1]]

MapRemove(m, k) ==
    IF m.store[k] = Nil THEN m
    ELSE [keys |-> Without(m.keys, k), store |-> [m.store EXCEPT ![k] = Nil]]

MapValues(m) == [i \in DOMAIN m.keys |-> m.store[m.keys[i]]]

-------------------------------------------------------------------------------
(* OrderedSet *)

Idle == [op |-> "idle"]
Goes(p, c) == call' = [call EXCEPT ![p] = c]

\* The next item of the call, or its return.
Advance(p) ==
    LET c == call[p] IN
    IF Len(c.items) = 1 THEN Goes(p, Idle)
    ELSE Goes(p, [c EXCEPT !.items = Tail(@), !.at = "look"])

Call(p, op, items) ==
    /\ ~crashed /\ call[p] = Idle
    /\ Goes(p, [op |-> op, items |-> items, at |-> "look", key |-> Nil])
    /\ overlap' = (overlap \/ \E q \in Proc : call[q] # Idle)
    /\ UNCHANGED <<currentIndex, index, store, mu, crashed>>

\* The loop ends at an item that is missing, or goes on.
Missing(p) ==
    LET c == call[p] IN
    IF c.op = "Remove" THEN Goes(p, Idle) ELSE Goes(p, [c EXCEPT !.at = "lock"])

\* index[item], read without the lock.  Add passes over an item it finds and
\* Remove returns at one it does not find.
Look(p) ==
    /\ ~crashed /\ call[p] # Idle /\ call[p].at = "look"
    /\ LET c == call[p]
           key == index[Head(c.items)]
       IN CASE key = Nil -> Missing(p)
            [] key # Nil /\ c.op = "Add" -> Advance(p)
            [] OTHER -> Goes(p, [c EXCEPT !.at = "lock", !.key = key])
    /\ UNCHANGED <<currentIndex, index, store, mu, crashed, overlap>>

\* The lookup meets a write of the map.
Crash(p) ==
    /\ ~crashed /\ call[p] # Idle /\ call[p].at = "look" /\ mu # Nil
    /\ crashed' = TRUE
    /\ UNCHANGED <<currentIndex, index, store, mu, call, overlap>>

\* put and remove, first half: the store.
Store(p) ==
    /\ ~crashed /\ mu = Nil /\ call[p] # Idle /\ call[p].at = "lock"
    /\ call[p].op = "Add" => currentIndex < MaxIndex
    /\ mu' = p
    /\ Goes(p, [call[p] EXCEPT !.at = "index"])
    /\ store' = IF call[p].op = "Add" THEN MapPut(store, currentIndex, Head(call[p].items))
                ELSE MapRemove(store, call[p].key)
    /\ UNCHANGED <<currentIndex, index, crashed, overlap>>

\* Keys given back when an item is removed.
FaultyReuse(p) ==
    /\ ~crashed /\ mu = p /\ call[p].at = "index"
    /\ mu' = Nil
    /\ index' = [index EXCEPT ![Head(call[p].items)] = IF call[p].op = "Add" THEN currentIndex ELSE Nil]
    /\ currentIndex' = IF call[p].op = "Add" THEN currentIndex + 1 ELSE call[p].key
    /\ Advance(p)
    /\ UNCHANGED <<store, crashed, overlap>>

\* Second half: the index map, currentIndex, unlock.
Index(p) ==
    /\ ~crashed /\ mu = p /\ call[p].at = "index"
    /\ mu' = Nil
    /\ index' = [index EXCEPT ![Head(call[p].items)] = IF call[p].op = "Add" THEN currentIndex ELSE Nil]
    /\ currentIndex' = IF call[p].op = "Add" THEN currentIndex + 1 ELSE currentIndex
    /\ Advance(p)
    /\ UNCHANGED <<store, crashed, overlap>>

-------------------------------------------------------------------------------
NewOrderedSet ==
    /\ currentIndex = 0
    /\ index = [i \in Item |-> Nil]
    /\ store = NewOrderedMap
    /\ mu = Nil
    /\ call = [p \in Proc |-> Idle]
    /\ crashed = FALSE /\ overlap = FALSE

Next ==
    \E p \in Proc :
        \/ \E op \in {"Add", "Remove"}, items \in Items : Call(p, op, items)
        \/ Look(p) \/ Crash(p) \/ Store(p) \/ Index(p)

Spec == NewOrderedSet /\ [][Next]_vars

-------------------------------------------------------------------------------
(* Properties *)

Values == MapValues(store)

\* The types of the variables.
TypeOK ==
    /\ currentIndex \in 0 .. MaxIndex
    /\ index \in [Item -> (0 .. MaxIndex - 1) \cup {Nil}]
    /\ mu \in Proc \cup {Nil} /\ {crashed, overlap} \subseteq BOOLEAN
    /\ \A p \in Proc : call[p].op \in {"idle", "Add", "Remove"}

\* The map's list of keys and its store agree, so Values, which makes room for
\* len(store) values and fills one for every key, never runs out of range.
KeysMatchStore ==
    /\ \A k \in 0 .. MaxIndex - 1 : store.store[k] # Nil <=> \E i \in DOMAIN store.keys : store.keys[i] = k
    /\ \A i, j \in DOMAIN store.keys : i # j => store.keys[i] # store.keys[j]

\* Values are in the order of their insertion: keys are never reused or moved,
\* whatever concurrent calls do.
InsertionOrder == \A i, j \in DOMAIN store.keys : i < j => store.keys[i] < store.keys[j]

\* What the index knows is stored under the key it gives, also when Remove uses
\* a key it looked up before other calls changed the set.
IndexInStore ==
    mu = Nil => \A i \in Item : index[i] # Nil => store.store[index[i]] = i

\* As long as no two calls overlap, index and store hold the same items, once
\* each; of two callers both may find an item missing and add it.
Agree ==
    mu = Nil /\ ~overlap =>
        /\ {Values[n] : n \in DOMAIN Values} = {i \in Item : index[i] # Nil}
        /\ \A n, o \in DOMAIN Values : n # o => Values[n] # Values[o]

===============================================================================
