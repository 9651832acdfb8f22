------------------------------ MODULE LinkedList ------------------------------
(***************************************************************************)
(* The doubly linked list of package basic (src/basic/linkedlist.go) at    *)
(* the level of its pointers.  A method runs under the lock and is one     *)
(* step, but AddBefore compares its index with the size twice before it    *)
(* locks, so a call of it takes several steps.                             *)
(***************************************************************************)
EXTENDS Integers, Sequences, FiniteSets

CONSTANTS
    Node,           \* addresses of nodes; bound: longest list
    Value,          \* data
    Inserter,       \* goroutines that call AddBefore
    nil

\* Memory is finite, and nil is no address.
ASSUME ListAssumption == IsFiniteSet(Node) /\ nil \notin Node

VARIABLES
    list,           \* the LinkedList and the fields of all nodes
    before,         \* before[p]: where a call of AddBefore is, with its arguments
    res             \* the last call that ended and what it returned

listVars == <<list, before, res>>

N == Cardinality(Node)

\* The node k links away from n.
Follow(n, link, k) ==
    LET w[i \in 0 .. k] == IF i = 0 THEN n ELSE IF w[i - 1] = nil THEN nil ELSE link[w[i - 1]]
    IN w[k]

\* The nodes from n on, at most one more than there are.
Chained(n, link) ==
    LET w[k \in 0 .. N + 1] ==
          IF k = 0 THEN <<>>
          ELSE LET s == w[k - 1]
                   x == IF s = <<>> THEN n ELSE link[s[Len(s)]]
               IN IF x = nil THEN s ELSE Append(s, x)
    IN w[N + 1]

Forward == Chained(list.first, list.next)
Backward == Chained(list.last, list.prev)
Free == Node \ {Forward[k] : k \in DOMAIN Forward}
Elements == [k \in DOMAIN Forward |-> list.data[Forward[k]]]

\* a.next and b.prev joined, but the end of the list forgotten.
FaultyLink(l, a, b) ==
    LET s == IF a = nil THEN [l EXCEPT !.first = b] ELSE [l EXCEPT !.next[a] = b]
    IN IF b = nil THEN s ELSE [s EXCEPT !.prev[b] = a]

\* a and b become neighbours; nil stands for the end before first or after last.
Link(l, a, b) ==
    LET s == IF a = nil THEN [l EXCEPT !.first = b] ELSE [l EXCEPT !.next[a] = b]
    IN IF b = nil THEN [s EXCEPT !.last = a] ELSE [s EXCEPT !.prev[b] = a]

\* A new node n with data v between the neighbours a and b.
Insert(l, n, v, a, b) == Link(Link([l EXCEPT !.data[n] = v, !.size = @ + 1], a, n), n, b)

\* The walk from the end stops one node early.
FaultygetNode(l, no) ==
    IF no < l.size \div 2 THEN Follow(l.first, l.next, no)
    ELSE Follow(l.last, l.prev, IF no < l.size - 1 THEN l.size - 2 - no ELSE 0)

\* getNode: from the nearer end; beyond the end it is the last node.
getNode(l, no) ==
    IF no < l.size \div 2 THEN Follow(l.first, l.next, no)
    ELSE Follow(l.last, l.prev, IF no < l.size THEN l.size - 1 - no ELSE 0)

deleteNode(l, n) ==
    [Link(l, l.prev[n], l.next[n]) EXCEPT
        !.data[n] = nil, !.prev[n] = nil, !.next[n] = nil, !.size = @ - 1]

Returns(op, v) == res' = <<op, v>>
Refused(why, arg) == UNCHANGED list /\ Returns("refused", <<why, arg>>)

-------------------------------------------------------------------------------
(* Methods that hold the lock throughout *)

AddLast(n, v) ==
    /\ list' = Insert(list, n, v, list.last, nil) /\ Returns("AddLast", v)
    /\ UNCHANGED before

AddFirst(n, v) ==
    /\ list' = Insert(list, n, v, nil, list.first) /\ Returns("AddFirst", v)
    /\ UNCHANGED before

Remove(i) ==
    /\ IF i >= list.size THEN Refused("index", i)
       ELSE LET n == getNode(list, i) IN
            /\ list' = deleteNode(list, n)
            /\ Returns("Remove", [index |-> i, data |-> list.data[n]])
    /\ UNCHANGED before

\* The first node with these data goes.
RemoveData(v) ==
    /\ LET found == {k \in DOMAIN Forward : list.data[Forward[k]] = v} IN
       IF found = {} THEN Refused("data", v)
       ELSE /\ list' = deleteNode(list, Forward[CHOOSE k \in found : \A j \in found : k <= j])
            /\ Returns("RemoveData", v)
    /\ UNCHANGED before

\* The first node is taken off index + 1 times.
RemoveUntil(i) ==
    /\ IF i >= list.size THEN Refused("index", i)
       ELSE LET cut[k \in 0 .. i + 1] ==
                  IF k = 0 THEN list ELSE deleteNode(cut[k - 1], cut[k - 1].first)
            IN list' = cut[i + 1] /\ Returns("RemoveUntil", i)
    /\ UNCHANGED before

RemoveFirst ==
    /\ IF list.first = nil THEN Refused("end", 0)
       ELSE /\ list' = deleteNode(list, list.first)
            /\ Returns("RemoveFirst", list.data[list.first])
    /\ UNCHANGED before

RemoveLast ==
    /\ IF list.last = nil THEN Refused("end", 0)
       ELSE /\ list' = deleteNode(list, list.last)
            /\ Returns("RemoveLast", list.data[list.last])
    /\ UNCHANGED before

NewList ==
    [size |-> 0, first |-> nil, last |-> nil, data |-> [n \in Node |-> nil],
     prev |-> [n \in Node |-> nil], next |-> [n \in Node |-> nil]]

Clear == list' = NewList /\ Returns("Clear", 0) /\ UNCHANGED before

\* Get, GetFirst, GetLast.
Get(i) ==
    /\ UNCHANGED <<list, before>>
    /\ IF i >= list.size THEN Returns("refused", <<"index", i>>)
       ELSE Returns("Get", [index |-> i, data |-> list.data[getNode(list, i)]])

\* Loop, ReverseLoop, Size.
Loop ==
    /\ UNCHANGED <<list, before>>
    /\ LET values(w) == [i \in DOMAIN w |-> list.data[w[i]]]
       IN Returns("Loop", <<values(Forward), values(Backward), list.size>>)

-------------------------------------------------------------------------------
(* AddBefore *)

Idle == [at |-> "idle"]

\* index > this.size, read without the lock.
AddBefore(p, i, v) ==
    /\ before[p] = Idle
    /\ IF i > list.size THEN Refused("AddBefore", i) /\ UNCHANGED before
       ELSE /\ before' = [before EXCEPT ![p] = [at |-> "equal", index |-> i, v |-> v]]
            /\ UNCHANGED <<list, res>>

\* index == this.size, read again without the lock.
Equal(p) ==
    /\ before[p].at = "equal"
    /\ before' = [before EXCEPT ![p].at = IF before[p].index = list.size THEN "last" ELSE "before"]
    /\ UNCHANGED <<list, res>>

\* AddLast, or the insertion before the node found under the lock.
Finish(p, n) ==
    /\ before[p].at \in {"last", "before"}
    /\ before' = [before EXCEPT ![p] = Idle]
    /\ LET c == before[p]
           t == IF c.at = "last" THEN nil ELSE getNode(list, c.index)
           at == IF t = nil THEN list.size
                 ELSE (CHOOSE k \in DOMAIN Forward : Forward[k] = t) - 1
       IN IF c.at = "before" /\ t = nil THEN Refused("AddBefore", c.index)
          ELSE /\ list' = Insert(list, n, c.v, IF t = nil THEN list.last ELSE list.prev[t], t)
               /\ Returns("AddBefore", [index |-> c.index, at |-> at])

-------------------------------------------------------------------------------
NewLinkedList ==
    /\ list = NewList
    /\ before = [p \in Inserter |-> Idle]
    /\ res = <<"New", nil>>

ListNext ==
    \/ \E n \in Free, v \in Value : AddLast(n, v) \/ AddFirst(n, v)
    \/ \E i \in 0 .. N : Remove(i) \/ RemoveUntil(i) \/ Get(i)
    \/ \E v \in Value : RemoveData(v)
    \/ RemoveFirst \/ RemoveLast \/ Clear \/ Loop
    \/ \E p \in Inserter, i \in 0 .. N, v \in Value : AddBefore(p, i, v)
    \/ \E p \in Inserter : Equal(p) \/ \E n \in Free : Finish(p, n)

ListSpec == NewLinkedList /\ [][ListNext]_listVars

-------------------------------------------------------------------------------
(* Properties *)

\* The types of the fields.
ListTypeOK ==
    /\ list.size \in 0 .. N
    /\ {list.first, list.last} \subseteq Node \cup {nil}
    /\ list.data \in [Node -> Value \cup {nil}]
    /\ {list.prev, list.next} \subseteq [Node -> Node \cup {nil}]
    /\ \A p \in Inserter : before[p].at \in {"idle", "equal", "last", "before"}

\* The two chains of pointers describe the same list, forwards and backwards,
\* with as many nodes as size says, and a node that was taken out keeps no
\* pointer into it; whatever the interleaving of AddBefore with other methods.
WellFormed ==
    /\ Len(Forward) = list.size /\ Len(Backward) = list.size
    /\ \A k \in DOMAIN Forward : Forward[k] = Backward[list.size + 1 - k]
    /\ \A n \in Free : list.data[n] = nil /\ list.prev[n] = nil /\ list.next[n] = nil

\* Both pointer chains of the linked list describe the same list, of the right
\* size, whatever runs while AddBefore is between its unlocked reads.
ListSound == ListTypeOK /\ WellFormed

\* The list implements a sequence: every method changes it and answers as the
\* sequence operation does, getNode's walk from the nearer end included.
Sequence == INSTANCE ListSeq WITH Nil <- nil, seq <- Elements
IsSequence == Sequence!SeqSpec

===============================================================================
