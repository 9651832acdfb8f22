------------------------------ MODULE ListProofs ------------------------------
(***************************************************************************)
(* Proofs about the linked list of package basic, for any number of nodes, *)
(* any values and any number of goroutines inside AddBefore.               *)
(***************************************************************************)
EXTENDS LinkedList, FiniteSetTheorems, SequenceTheorems, WellFoundedInduction, TLAPS

-------------------------------------------------------------------------------
(* The least number of a set *)

Below == {ss \in Nat \X Nat : ss[1] < ss[2]}

\* A set of natural numbers that is not empty has a least element.
LEMMA Least ==
    ASSUME NEW S \in SUBSET Nat, S # {}
    PROVE  \E x \in S : \A y \in S : x <= y
<1>1. IsWellFoundedOn(Below, Nat)
  BY Zenon, NatLessThanWellFounded DEF OpToRel, Below
<1>2. \A x, y \in Nat : <<x, y>> \in Below <=> x < y
  BY Zenon DEF Below
<1>3. \E x \in S : \A y \in S : ~(<<y, x>> \in Below)
  BY <1>1, WFMin, Zenon
<1>4. PICK x \in S : \A y \in S : ~(<<y, x>> \in Below)
  BY <1>3, Zenon
<1>5. \A y \in S : ~(y < x) /\ x \in Nat /\ y \in Nat
  BY <1>2, <1>4, Zenon
<1>6. \A y \in S : x <= y
  BY <1>5
<1> QED
  BY <1>6, Zenon

\* What holds from 0 on, step by step, holds up to a bound.
LEMMA StepByStep ==
    ASSUME NEW n \in Nat, NEW S, 0 \in S, \A i \in 1 .. n : i - 1 \in S => i \in S
    PROVE  \A i \in 0 .. n : i \in S
<1> SUFFICES ASSUME {i \in 0 .. n : i \notin S} # {} PROVE FALSE
  BY Zenon
<1> DEFINE B == {i \in 0 .. n : i \notin S}
<1>1. B \in SUBSET Nat /\ B # {}
  OBVIOUS
<1>2. PICK x \in B : \A y \in B : x <= y
  BY <1>1, Least, Zenon
<1>3. x \in 0 .. n /\ x \notin S
  BY <1>2, Zenon
<1>4. x # 0
  BY <1>3, Zenon
<1>5. x \in 1 .. n /\ x - 1 \in 0 .. n /\ ~(x <= x - 1)
  BY <1>3, <1>4
<1>6. x - 1 \in S
  BY <1>2, <1>5, Zenon
<1> QED
  BY <1>3, <1>5, <1>6, Zenon

-------------------------------------------------------------------------------
(* Sequences *)

\* A function on an initial segment is a sequence.
LEMMA SeqOf ==
    ASSUME NEW S, NEW n \in Nat, NEW f \in [1 .. n -> S]
    PROVE  f \in Seq(S) /\ Len(f) = n /\ DOMAIN f = 1 .. n
  OBVIOUS

Prefix(s, m) == [i \in 1 .. m |-> s[i]]

\* The first m elements of a sequence are a sequence.
LEMMA PrefixSeq ==
    ASSUME NEW S, NEW s \in Seq(S), NEW m \in 0 .. Len(s)
    PROVE  /\ Prefix(s, m) \in Seq(S) /\ Len(Prefix(s, m)) = m
           /\ \A i \in 1 .. m : Prefix(s, m)[i] = s[i]
           /\ Prefix(s, m) = <<>> <=> m = 0
<1>1. m \in Nat /\ \A i \in 1 .. m : s[i] \in S
  BY LenProperties
<1>2. Prefix(s, m) \in [1 .. m -> S]
  BY <1>1, Zenon DEF Prefix
<1>3. Prefix(s, m) \in Seq(S) /\ Len(Prefix(s, m)) = m
  BY <1>1, <1>2, SeqOf, Zenon
<1>4. \A i \in 1 .. m : Prefix(s, m)[i] = s[i]
  BY Zenon DEF Prefix
<1>5. Prefix(s, m) = <<>> <=> m = 0
  BY <1>3
<1> QED
  BY <1>3, <1>4, <1>5, Zenon

\* One element more of a sequence, appended to the ones before it.
LEMMA PrefixNext ==
    ASSUME NEW S, NEW s \in Seq(S), NEW m \in 0 .. Len(s) - 1
    PROVE  Append(Prefix(s, m), s[m + 1]) = Prefix(s, m + 1)
<1>1. m \in 0 .. Len(s) /\ m + 1 \in 0 .. Len(s) /\ s[m + 1] \in S
  BY LenProperties
<1>2. /\ Prefix(s, m) \in Seq(S) /\ Len(Prefix(s, m)) = m
      /\ Prefix(s, m + 1) \in Seq(S) /\ Len(Prefix(s, m + 1)) = m + 1
      /\ \A i \in 1 .. m : Prefix(s, m)[i] = s[i]
      /\ \A i \in 1 .. m + 1 : Prefix(s, m + 1)[i] = s[i]
  BY <1>1, PrefixSeq, Zenon
<1> DEFINE a == Append(Prefix(s, m), s[m + 1])
<1>3. /\ a \in Seq(S) /\ Len(a) = m + 1
      /\ \A i \in 1 .. m : a[i] = Prefix(s, m)[i]
      /\ a[m + 1] = s[m + 1]
  BY <1>1, <1>2, AppendProperties
<1>4. \A i \in 1 .. m + 1 : a[i] = Prefix(s, m + 1)[i]
  <2> SUFFICES ASSUME NEW i \in 1 .. m + 1 PROVE a[i] = Prefix(s, m + 1)[i]
    BY Zenon
  <2>1. i \in 1 .. m \/ i = m + 1
    OBVIOUS
  <2> QED
    BY <1>2, <1>3, <2>1, Zenon
<1> QED
  BY <1>2, <1>3, <1>4, SeqEqual, Zenon

-------------------------------------------------------------------------------
(* Walks along links *)

At(s, i) == IF i \in 1 .. Len(s) THEN s[i] ELSE nil

\* From n on, the links lead through s.
Linked(s, n, link) ==
    n = At(s, 1) /\ \A i \in 1 .. Len(s) : link[s[i]] = At(s, i + 1)

\* Inside the sequence there is a node, outside it nil.
LEMMA AtNode ==
    ASSUME NEW s \in Seq(Node), NEW i \in Int
    PROVE  /\ At(s, i) \in Node \cup {nil}
           /\ At(s, i) = nil <=> i \notin 1 .. Len(s)
<1>1. \A j \in 1 .. Len(s) : s[j] \in Node /\ s[j] # nil
  BY ElementOfSeq, ListAssumption, Zenon
<1> QED
  BY <1>1, Zenon DEF At

\* getNode's loop: k links away is the element at position k + 1.
LEMMA FollowLinked ==
    ASSUME NEW s \in Seq(Node), NEW n, NEW link, Linked(s, n, link), NEW k \in Nat
    PROVE  Follow(n, link, k) = At(s, k + 1)
<1> DEFINE Rec(w) == [i \in 0 .. k |-> IF i = 0 THEN n
                        ELSE IF w[i - 1] = nil THEN nil ELSE link[w[i - 1]]]
           G == [i \in 0 .. k |-> At(s, i + 1)]
<1>1. \A i \in 0 .. k : i # 0 => i \in 1 .. k /\ i - 1 \in 0 .. k /\ i - 1 + 1 = i /\ i \in Int
  OBVIOUS
<1>2. ASSUME NEW i \in 1 .. k
      PROVE  (IF At(s, i) = nil THEN nil ELSE link[At(s, i)]) = At(s, i + 1)
  <2>1. CASE i \in 1 .. Len(s)
    <3>1. At(s, i) = s[i] /\ s[i] # nil
      BY <2>1, ElementOfSeq, ListAssumption, Zenon DEF At
    <3> QED
      BY <2>1, <3>1, Zenon DEF Linked
  <2>2. CASE i \notin 1 .. Len(s)
    <3>1. i + 1 \notin 1 .. Len(s)
      BY <2>2, LenProperties
    <3> QED
      BY <2>2, <3>1, Zenon DEF At
  <2> QED
    BY <2>1, <2>2, Zenon
<1>3. Rec(G) = G
  <2>1. ASSUME NEW i \in 0 .. k
        PROVE  (IF i = 0 THEN n ELSE IF G[i - 1] = nil THEN nil ELSE link[G[i - 1]]) = At(s, i + 1)
    <3>1. CASE i = 0
      <4>1. i + 1 = 1
        BY <3>1
      <4> QED
        BY <3>1, <4>1, Zenon DEF Linked
    <3>2. CASE i # 0
      <4>1. G[i - 1] = At(s, i)
        BY <1>1, <3>2, Zenon
      <4> QED
        BY <1>1, <1>2, <3>2, <4>1, Zenon
    <3> QED
      BY <3>1, <3>2, Zenon
  <2> QED
    BY <2>1, Zenon
<1>4. ASSUME NEW w, w = Rec(w) PROVE w = G
  <2> DEFINE S == {i \in 0 .. k : w[i] = At(s, i + 1)}
  <2>1. 0 \in S
    <3>1. 0 \in 0 .. k /\ 0 + 1 = 1
      OBVIOUS
    <3> QED
      BY <1>4, <3>1, Zenon DEF Linked
  <2>2. ASSUME NEW i \in 1 .. k, i - 1 \in S PROVE i \in S
    <3>1. i \in 0 .. k /\ i - 1 \in 0 .. k /\ i - 1 + 1 = i /\ i # 0
      OBVIOUS
    <3>2. w[i - 1] = At(s, i)
      BY <2>2, <3>1, Zenon
    <3>3. w[i] = IF w[i - 1] = nil THEN nil ELSE link[w[i - 1]]
      BY <1>4, <3>1, Zenon
    <3> QED
      BY <1>2, <3>1, <3>2, <3>3, Zenon
  <2>3. \A i \in 0 .. k : i \in S
    BY <2>1, <2>2, StepByStep, Zenon
  <2> QED
    BY <1>4, <2>3, Zenon
<1>5. (CHOOSE w : w = Rec(w)) = G
  BY <1>3, <1>4, Zenon
<1>6. Follow(n, link, k) = (CHOOSE w : w = Rec(w))[k]
  BY Zenon DEF Follow
<1>7. k \in 0 .. k
  OBVIOUS
<1> QED
  BY <1>5, <1>6, <1>7, Zenon

\* A walk from one end to the other visits s, when the bound of the walk allows it.
LEMMA ChainedLinked ==
    ASSUME NEW s \in Seq(Node), NEW n, NEW link, Linked(s, n, link), N \in Nat, Len(s) <= N
    PROVE  Chained(n, link) = s
<1> DEFINE Grow(t) == LET x == IF t = <<>> THEN n ELSE link[t[Len(t)]]
                      IN IF x = nil THEN t ELSE Append(t, x)
           Rec(w) == [k \in 0 .. N + 1 |-> IF k = 0 THEN <<>> ELSE Grow(w[k - 1])]
           upto(k) == IF k <= Len(s) THEN k ELSE Len(s)
           G == [k \in 0 .. N + 1 |-> Prefix(s, upto(k))]
<1>0. Len(s) \in Nat
  BY LenProperties, Zenon
<1>1. ASSUME NEW k \in 0 .. N + 1, k # 0
      PROVE  Grow(Prefix(s, upto(k - 1))) = Prefix(s, upto(k))
  <2> DEFINE m == upto(k - 1)
             t == Prefix(s, m)
  <2>1. m \in 0 .. Len(s) /\ m + 1 \in Int
    BY <1>0, <1>1
  <2>2. t \in Seq(Node) /\ Len(t) = m /\ (\A i \in 1 .. m : t[i] = s[i]) /\ (t = <<>> <=> m = 0)
    <3> HIDE DEF m
    <3> QED
      BY <2>1, PrefixSeq, Zenon
  <2>3. (IF t = <<>> THEN n ELSE link[t[Len(t)]]) = At(s, m + 1)
    <3>1. CASE m = 0
      <4>1. m + 1 = 1
        BY <3>1
      <4> QED
        BY <2>2, <3>1, <4>1, Zenon DEF Linked
    <3>2. CASE m # 0
      <4>1. m \in 1 .. m /\ m \in 1 .. Len(s)
        BY <2>1, <3>2
      <4> QED
        BY <2>2, <3>2, <4>1, Zenon DEF Linked
    <3> QED
      BY <3>1, <3>2, Zenon
  <2>4. Grow(t) = IF At(s, m + 1) = nil THEN t ELSE Append(t, At(s, m + 1))
    BY <2>3, Zenon
  <2>5. CASE k <= Len(s)
    <3>1. m = k - 1 /\ m + 1 = k /\ m \in 0 .. Len(s) - 1 /\ m + 1 \in 1 .. Len(s) /\ upto(k) = m + 1
      BY <1>0, <1>1, <2>5
    <3>2. At(s, m + 1) = s[m + 1] /\ At(s, m + 1) # nil
      BY <2>1, <3>1, AtNode, Zenon DEF At
    <3>3. Append(t, s[m + 1]) = Prefix(s, m + 1)
      BY <3>1, PrefixNext, Zenon
    <3> QED
      BY <2>4, <3>1, <3>2, <3>3, Zenon
  <2>6. CASE ~(k <= Len(s))
    <3>1. m = Len(s) /\ m + 1 \notin 1 .. Len(s) /\ upto(k) = m
      BY <1>0, <1>1, <2>6
    <3> QED
      BY <2>4, <3>1, Zenon DEF At
  <2> QED
    BY <2>5, <2>6, Zenon
<1>2. \A k \in 0 .. N + 1 : k # 0 => k - 1 \in 0 .. N + 1
  OBVIOUS
<1>3. Prefix(s, upto(0)) = <<>>
  <2>1. upto(0) = 0 /\ 0 \in 0 .. Len(s)
    BY <1>0
  <2> QED
    BY <2>1, PrefixSeq, Zenon
<1>4. Rec(G) = G
  <2> HIDE DEF Grow, upto
  <2>1. ASSUME NEW k \in 0 .. N + 1
        PROVE  (IF k = 0 THEN <<>> ELSE Grow(G[k - 1])) = Prefix(s, upto(k))
    BY <1>1, <1>2, <1>3, Zenon
  <2> QED
    BY <2>1, Zenon
<1>5. ASSUME NEW w, w = Rec(w) PROVE w = G
  <2> HIDE DEF Grow, upto
  <2> DEFINE S == {k \in 0 .. N + 1 : w[k] = Prefix(s, upto(k))}
  <2>1. 0 \in S
    <3>1. 0 \in 0 .. N + 1
      OBVIOUS
    <3> QED
      BY <1>3, <1>5, <3>1, Zenon
  <2>2. ASSUME NEW k \in 1 .. N + 1, k - 1 \in S PROVE k \in S
    <3>1. k \in 0 .. N + 1 /\ k # 0
      OBVIOUS
    <3> QED
      BY <1>1, <1>5, <2>2, <3>1, Zenon
  <2>3. N + 1 \in Nat
    OBVIOUS
  <2>4. \A k \in 0 .. N + 1 : k \in S
    BY <2>1, <2>2, <2>3, StepByStep, Zenon
  <2> QED
    BY <1>5, <2>4, Zenon
<1>6. (CHOOSE w : w = Rec(w)) = G
  <2> HIDE DEF Rec, G
  <2> QED
    BY <1>4, <1>5, Zenon
<1>7. Chained(n, link) = (CHOOSE w : w = Rec(w))[N + 1]
  BY Zenon DEF Chained
<1>8. N + 1 \in 0 .. N + 1 /\ upto(N + 1) = Len(s) /\ Len(s) \in 0 .. Len(s)
  BY <1>0
<1>9. Prefix(s, Len(s)) = s
  <2>1. /\ Prefix(s, Len(s)) \in Seq(Node) /\ Len(Prefix(s, Len(s))) = Len(s)
        /\ \A i \in 1 .. Len(s) : Prefix(s, Len(s))[i] = s[i]
    BY <1>8, PrefixSeq, Zenon
  <2> QED
    BY <2>1, SeqEqual, Zenon
<1>10. G[N + 1] = Prefix(s, Len(s))
  <2> HIDE DEF upto
  <2> QED
    BY <1>8, Zenon
<1> QED
  BY <1>6, <1>7, <1>9, <1>10, Zenon

-------------------------------------------------------------------------------
(* The list and its nodes *)

Address == Node \cup {nil}

Lists ==
    [size : Nat, first : Address, last : Address, data : [Node -> Value \cup {nil}],
     prev : [Node -> Address], next : [Node -> Address]]

Inside(s, n) == \E i \in 1 .. Len(s) : s[i] = n

Distinct(s) == \A i, j \in 1 .. Len(s) : s[i] = s[j] => i = j

\* The pointers of l lead through s, in both directions, and no other node has
\* data or a pointer.
Chain(l, s) ==
    /\ l \in Lists /\ s \in Seq(Node) /\ Distinct(s)
    /\ l.size = Len(s) /\ l.first = At(s, 1) /\ l.last = At(s, Len(s))
    /\ \A i \in 1 .. Len(s) : l.next[s[i]] = At(s, i + 1) /\ l.prev[s[i]] = At(s, i - 1)
    /\ \A n \in Node : ~Inside(s, n) => l.data[n] = nil /\ l.prev[n] = nil /\ l.next[n] = nil

\* A list has no more elements than there are nodes.
LEMMA DistinctLen ==
    ASSUME NEW s \in Seq(Node), Distinct(s)
    PROVE  N \in Nat /\ Len(s) \in 0 .. N
<1>1. Len(s) \in Nat /\ s \in [1 .. Len(s) -> Node]
  BY LenProperties, Zenon
<1>2. s \in Injection(1 .. Len(s), Node)
  BY <1>1, Zenon DEF Distinct, Injection, IsInjective
<1>3. Cardinality(1 .. Len(s)) <= Cardinality(Node)
  BY <1>2, FS_Injection, ListAssumption, Zenon
<1>4. Cardinality(1 .. Len(s)) = Len(s)
  BY <1>1, FS_Interval
<1>5. N \in Nat
  BY FS_CardinalityType, ListAssumption, Zenon DEF N
<1> QED
  BY <1>1, <1>3, <1>4, <1>5 DEF N

Reversed(s) == [i \in 1 .. Len(s) |-> s[Len(s) + 1 - i]]

\* A sequence read from its end is a sequence.
LEMMA ReversedSeq ==
    ASSUME NEW S, NEW s \in Seq(S)
    PROVE  /\ Reversed(s) \in Seq(S) /\ Len(Reversed(s)) = Len(s)
           /\ \A i \in 1 .. Len(s) : Reversed(s)[i] = s[Len(s) + 1 - i]
<1>1. Len(s) \in Nat /\ \A i \in 1 .. Len(s) : s[i] \in S
  BY LenProperties, ElementOfSeq, Zenon
<1>2. \A i \in 1 .. Len(s) : Len(s) + 1 - i \in 1 .. Len(s)
  BY <1>1
<1>3. Reversed(s) \in [1 .. Len(s) -> S]
  BY <1>1, <1>2, Zenon DEF Reversed
<1>4. Reversed(s) \in Seq(S) /\ Len(Reversed(s)) = Len(s)
  BY <1>1, <1>3, SeqOf, Zenon
<1> QED
  BY <1>4, Zenon DEF Reversed

\* From the last node on, the links prev lead through the elements in reverse order.
LEMMA ChainBack ==
    ASSUME NEW l, NEW s, Chain(l, s)
    PROVE  Linked(Reversed(s), l.last, l.prev)
<1> DEFINE b == Reversed(s)
<1>1. /\ b \in Seq(Node) /\ Len(b) = Len(s) /\ Len(s) \in Nat
      /\ \A i \in 1 .. Len(s) : b[i] = s[Len(s) + 1 - i]
  BY ReversedSeq, LenProperties, Zenon DEF Chain
<1>2. \A i \in Int : At(b, i) = At(s, Len(s) + 1 - i)
  <2> HIDE DEF b
  <2> SUFFICES ASSUME NEW i \in Int PROVE At(b, i) = At(s, Len(s) + 1 - i)
    BY Zenon
  <2>1. i \in 1 .. Len(s) <=> Len(s) + 1 - i \in 1 .. Len(s)
    BY <1>1
  <2> QED
    BY <1>1, <2>1, Zenon DEF At
<1>3. ASSUME NEW i \in 1 .. Len(s)
      PROVE  l.prev[b[i]] = At(b, i + 1)
  <2>1. /\ Len(s) + 1 - i \in 1 .. Len(s) /\ (Len(s) + 1 - i) - 1 = Len(s) + 1 - (i + 1)
        /\ i + 1 \in Int
    BY <1>1
  <2>2. At(b, i + 1) = At(s, (Len(s) + 1 - i) - 1)
    BY <1>2, <2>1, Zenon
  <2>3. l.prev[s[Len(s) + 1 - i]] = At(s, (Len(s) + 1 - i) - 1)
    <3> DEFINE j == Len(s) + 1 - i
    <3>1. j \in 1 .. Len(s)
      BY <2>1, Zenon
    <3> HIDE DEF j
    <3>2. l.prev[s[j]] = At(s, j - 1)
      BY <3>1, Zenon DEF Chain
    <3> QED
      BY <3>2, Zenon DEF j
  <2> QED
    BY <1>1, <2>2, <2>3, Zenon
<1>4. l.last = At(b, 1)
  <2>1. Len(s) + 1 - 1 = Len(s) /\ 1 \in Int
    BY <1>1
  <2> QED
    BY <1>2, <2>1, Zenon DEF Chain
<1> QED
  BY <1>1, <1>3, <1>4, Zenon DEF Linked

\* From the first node on, the links next lead through the elements, and there are
\* no more of them than nodes.
LEMMA ChainLinked ==
    ASSUME NEW l, NEW s, Chain(l, s)
    PROVE  /\ Linked(s, l.first, l.next) /\ s \in Seq(Node) /\ l \in Lists
           /\ N \in Nat /\ Len(s) \in 0 .. N /\ l.size = Len(s)
  BY DistinctLen, Zenon DEF Chain, Linked

\* Loop and ReverseLoop visit the elements, in order and in reverse order.
LEMMA ChainWalks ==
    ASSUME NEW l, NEW s, Chain(l, s)
    PROVE  Chained(l.first, l.next) = s /\ Chained(l.last, l.prev) = Reversed(s)
<1>1. N \in Nat /\ Len(s) <= N
  BY ChainLinked
<1>2. Chained(l.first, l.next) = s
  BY <1>1, ChainLinked, ChainedLinked, Zenon
<1>3. Reversed(s) \in Seq(Node) /\ Len(Reversed(s)) = Len(s)
  BY ChainLinked, ReversedSeq, Zenon
<1>4. Chained(l.last, l.prev) = Reversed(s)
  BY <1>1, <1>3, ChainBack, ChainedLinked, Zenon
<1> QED
  BY <1>2, <1>4, Zenon

\* getNode finds the element at a position, from the nearer end; beyond the end, the last.
LEMMA NodeAt ==
    ASSUME NEW l, NEW s, Chain(l, s), NEW no \in Nat
    PROVE  getNode(l, no) = IF no < Len(s) THEN s[no + 1] ELSE l.last
<1>1. Len(s) \in Nat /\ l.size = Len(s)
  BY ChainLinked
<1>2. CASE no < l.size \div 2
  <2>1. no + 1 \in 1 .. Len(s) /\ no < Len(s)
    BY <1>1, <1>2
  <2>2. Follow(l.first, l.next, no) = At(s, no + 1)
    BY ChainLinked, FollowLinked, Zenon
  <2> QED
    BY <1>2, <2>1, <2>2, Zenon DEF getNode, At
<1>3. CASE ~(no < l.size \div 2) /\ no < Len(s)
  <2> DEFINE k == l.size - 1 - no
  <2>1. k \in Nat /\ k + 1 \in 1 .. Len(s) /\ Len(s) + 1 - (k + 1) = no + 1
    BY <1>1, <1>3
  <2>2. Reversed(s) \in Seq(Node) /\ Len(Reversed(s)) = Len(s) /\ Reversed(s)[k + 1] = s[no + 1]
    <3> HIDE DEF k
    <3>1. /\ Reversed(s) \in Seq(Node) /\ Len(Reversed(s)) = Len(s)
          /\ Reversed(s)[k + 1] = s[Len(s) + 1 - (k + 1)]
      BY <2>1, ChainLinked, ReversedSeq, Zenon
    <3> QED
      BY <2>1, <3>1, Zenon
  <2>3. Follow(l.last, l.prev, k) = s[no + 1]
    <3> HIDE DEF k
    <3> QED
      BY <2>1, <2>2, ChainBack, FollowLinked, Zenon DEF At
  <2> QED
    BY <1>1, <1>3, <2>3, Zenon DEF getNode
<1>4. CASE ~(no < l.size \div 2) /\ ~(no < Len(s))
  <2>1. 0 \in Nat /\ 0 + 1 = 1
    OBVIOUS
  <2>2. Follow(l.last, l.prev, 0) = At(Reversed(s), 1)
    <3>1. Reversed(s) \in Seq(Node)
      BY ChainLinked, ReversedSeq, Zenon
    <3>2. Follow(l.last, l.prev, 0) = At(Reversed(s), 0 + 1)
      BY <2>1, <3>1, ChainBack, FollowLinked, Zenon
    <3> QED
      BY <2>1, <3>2, Zenon
  <2>3. l.last = At(Reversed(s), 1)
    BY ChainBack, Zenon DEF Linked
  <2> QED
    BY <1>1, <1>4, <2>2, <2>3, Zenon DEF getNode
<1> QED
  BY <1>2, <1>3, <1>4, <1>1, Zenon

-------------------------------------------------------------------------------
(* What an insertion and a removal do to the pointers *)

\* The list m is l with a and b as neighbours.
Joined(m, l, a, b) ==
    /\ m \in Lists /\ m.size = l.size /\ m.data = l.data
    /\ m.first = IF a = nil THEN b ELSE l.first
    /\ m.last = IF b = nil THEN a ELSE l.last
    /\ \A k \in Node : m.next[k] = IF k = a THEN b ELSE l.next[k]
    /\ \A k \in Node : m.prev[k] = IF k = b THEN a ELSE l.prev[k]

\* Joining two nodes changes the pointers between them and nothing else.
LEMMA LinkEffect ==
    ASSUME NEW l \in Lists, NEW a \in Address, NEW b \in Address
    PROVE  Joined(Link(l, a, b), l, a, b)
<1> DEFINE h == IF a = nil THEN [l EXCEPT !.first = b] ELSE [l EXCEPT !.next[a] = b]
           m == IF b = nil THEN [h EXCEPT !.last = a] ELSE [h EXCEPT !.prev[b] = a]
<1>1. /\ h \in Lists /\ h.size = l.size /\ h.data = l.data /\ h.prev = l.prev /\ h.last = l.last
      /\ h.first = (IF a = nil THEN b ELSE l.first)
      /\ \A n \in Node : h.next[n] = IF n = a THEN b ELSE l.next[n]
  <2>1. CASE a = nil
    BY <2>1, ListAssumption, Zenon DEF Lists, Address
  <2>2. CASE a # nil
    BY <2>2, Zenon DEF Lists, Address
  <2> QED
    BY <2>1, <2>2, Zenon
<1>2. /\ m \in Lists /\ m.size = h.size /\ m.data = h.data /\ m.next = h.next /\ m.first = h.first
      /\ m.last = (IF b = nil THEN a ELSE h.last)
      /\ \A n \in Node : m.prev[n] = IF n = b THEN a ELSE h.prev[n]
  <2> HIDE DEF h
  <2>1. CASE b = nil
    BY <1>1, <2>1, ListAssumption, Zenon DEF Lists, Address
  <2>2. CASE b # nil
    BY <1>1, <2>2, Zenon DEF Lists, Address
  <2> QED
    BY <2>1, <2>2, Zenon
<1>3. Link(l, a, b) = m
  BY Zenon DEF Link
<1> HIDE DEF h, m
<1> QED
  BY <1>1, <1>2, <1>3, Zenon DEF Joined

\* A new node between two others, field by field.
LEMMA InsertEffect ==
    ASSUME NEW l \in Lists, NEW n \in Node, NEW v \in Value, NEW a \in Address, NEW b \in Address,
           a # n, b # n
    PROVE  LET m == Insert(l, n, v, a, b) IN
           /\ m \in Lists /\ m.size = l.size + 1 /\ m.data = [l.data EXCEPT ![n] = v]
           /\ m.first = (IF a = nil THEN n ELSE l.first)
           /\ m.last = (IF b = nil THEN n ELSE l.last)
           /\ \A k \in Node : m.next[k] = IF k = n THEN b ELSE IF k = a THEN n ELSE l.next[k]
           /\ \A k \in Node : m.prev[k] = IF k = n THEN a ELSE IF k = b THEN n ELSE l.prev[k]
<1> DEFINE g == [l EXCEPT !.data[n] = v, !.size = @ + 1]
           h == Link(g, a, n)
           m == Link(h, n, b)
<1>0. n \in Address /\ n # nil
  BY ListAssumption, Zenon DEF Address
<1>1. /\ g \in Lists /\ g.size = l.size + 1 /\ g.data = [l.data EXCEPT ![n] = v]
      /\ g.prev = l.prev /\ g.next = l.next /\ g.first = l.first /\ g.last = l.last
  <2>1. /\ g.size = l.size + 1 /\ g.data = [l.data EXCEPT ![n] = v]
        /\ g.prev = l.prev /\ g.next = l.next /\ g.first = l.first /\ g.last = l.last
    BY Zenon DEF Lists
  <2> DEFINE f == [l EXCEPT !.data[n] = v]
  <2>2. f \in Lists
    BY Zenon DEF Lists
  <2>3. g = [f EXCEPT !.size = @ + 1]
    BY Zenon DEF Lists
  <2> HIDE DEF f
  <2>4. [f EXCEPT !.size = @ + 1] \in Lists
    BY <2>2 DEF Lists
  <2> HIDE DEF g
  <2> QED
    BY <2>1, <2>3, <2>4, Zenon
<1>2. /\ h \in Lists /\ h.size = g.size /\ h.data = g.data
      /\ h.first = (IF a = nil THEN n ELSE g.first) /\ h.last = g.last
      /\ \A k \in Node : h.next[k] = IF k = a THEN n ELSE g.next[k]
      /\ \A k \in Node : h.prev[k] = IF k = n THEN a ELSE g.prev[k]
  <2>1. Joined(h, g, a, n)
    BY <1>0, <1>1, LinkEffect, Zenon
  <2> HIDE DEF g, h
  <2> QED
    BY <1>0, <2>1, Zenon DEF Joined
<1>3. /\ m \in Lists /\ m.size = h.size /\ m.data = h.data
      /\ m.first = h.first /\ m.last = (IF b = nil THEN n ELSE h.last)
      /\ \A k \in Node : m.next[k] = IF k = n THEN b ELSE h.next[k]
      /\ \A k \in Node : m.prev[k] = IF k = b THEN n ELSE h.prev[k]
  <2>1. Joined(m, h, n, b)
    BY <1>0, <1>2, LinkEffect, Zenon
  <2> HIDE DEF h, m
  <2> QED
    BY <1>0, <2>1, Zenon DEF Joined
<1>4. Insert(l, n, v, a, b) = m
  BY Zenon DEF Insert
<1> HIDE DEF g, h, m
<1> QED
  BY <1>1, <1>2, <1>3, <1>4, Zenon

\* The list m is l without the node n between a and b.
Cut(m, l, n, a, b) ==
    /\ m \in Lists /\ m.size = l.size - 1 /\ m.data = [l.data EXCEPT ![n] = nil]
    /\ m.first = IF a = nil THEN b ELSE l.first
    /\ m.last = IF b = nil THEN a ELSE l.last
    /\ \A k \in Node : m.next[k] = IF k = n THEN nil ELSE IF k = a THEN b ELSE l.next[k]
    /\ \A k \in Node : m.prev[k] = IF k = n THEN nil ELSE IF k = b THEN a ELSE l.prev[k]

\* deleteNode joins the neighbours of a node and clears its fields.
LEMMA DeleteEffect ==
    ASSUME NEW l \in Lists, NEW n \in Node, l.size > 0
    PROVE  Cut(deleteNode(l, n), l, n, l.prev[n], l.next[n])
<1> DEFINE a == l.prev[n]
           b == l.next[n]
           h == Link(l, a, b)
           m == [h EXCEPT !.data[n] = nil, !.prev[n] = nil, !.next[n] = nil, !.size = @ - 1]
<1>1. a \in Address /\ b \in Address /\ nil \in Address
  BY Zenon DEF Lists, Address
<1>2. /\ h \in Lists /\ h.size = l.size /\ h.data = l.data
      /\ h.first = (IF a = nil THEN b ELSE l.first)
      /\ h.last = (IF b = nil THEN a ELSE l.last)
      /\ \A k \in Node : h.next[k] = IF k = a THEN b ELSE l.next[k]
      /\ \A k \in Node : h.prev[k] = IF k = b THEN a ELSE l.prev[k]
  <2>1. Joined(h, l, a, b)
    BY <1>1, LinkEffect, Zenon
  <2> HIDE DEF h, a, b
  <2> QED
    BY <2>1, Zenon DEF Joined
<1>3. l.size - 1 \in Nat
  BY DEF Lists
<1>4. /\ m \in Lists /\ m.size = h.size - 1 /\ m.data = [h.data EXCEPT ![n] = nil]
      /\ m.first = h.first /\ m.last = h.last
      /\ \A k \in Node : m.next[k] = IF k = n THEN nil ELSE h.next[k]
      /\ \A k \in Node : m.prev[k] = IF k = n THEN nil ELSE h.prev[k]
  <2> HIDE DEF h
  <2> QED
    BY <1>1, <1>2, <1>3, Zenon DEF Lists
<1>5. deleteNode(l, n) = m
  BY Zenon DEF deleteNode
<1> HIDE DEF h, m
<1> QED
  BY <1>2, <1>4, <1>5, Zenon DEF Cut

-------------------------------------------------------------------------------
(* A chain with one node more or one node less *)

InsertedAt(s, p, x) ==
    [i \in 1 .. Len(s) + 1 |-> IF i < p THEN s[i] ELSE IF i = p THEN x ELSE s[i - 1]]

RemovedAt(s, p) == [i \in 1 .. Len(s) - 1 |-> IF i < p THEN s[i] ELSE s[i + 1]]

\* The sequence t is s with x at p.
Wider(t, s, p, x) ==
    /\ Len(t) = Len(s) + 1 /\ t[p] = x
    /\ \A i \in 1 .. p - 1 : t[i] = s[i]
    /\ \A i \in p + 1 .. Len(s) + 1 : t[i] = s[i - 1]

\* A sequence with one element more is a sequence.
LEMMA InsertedSeq ==
    ASSUME NEW S, NEW s \in Seq(S), NEW p \in 1 .. Len(s) + 1, NEW x \in S
    PROVE  InsertedAt(s, p, x) \in Seq(S) /\ Wider(InsertedAt(s, p, x), s, p, x)
<1> DEFINE t == InsertedAt(s, p, x)
<1>1. Len(s) \in Nat /\ \A i \in 1 .. Len(s) : s[i] \in S
  BY LenProperties, ElementOfSeq, Zenon
<1>2. ASSUME NEW i \in 1 .. Len(s) + 1
      PROVE  (IF i < p THEN s[i] ELSE IF i = p THEN x ELSE s[i - 1]) \in S
  <2>1. i < p => i \in 1 .. Len(s)
    BY <1>1
  <2>2. ~(i < p) /\ i # p => i - 1 \in 1 .. Len(s)
    BY <1>1
  <2> QED
    BY <1>1, <2>1, <2>2, Zenon
<1>3. t \in [1 .. Len(s) + 1 -> S]
  BY <1>2, Zenon DEF InsertedAt
<1>4. t \in Seq(S) /\ Len(t) = Len(s) + 1
  <2>1. Len(s) + 1 \in Nat
    BY <1>1
  <2> HIDE DEF t
  <2> QED
    BY <1>3, <2>1, SeqOf, Zenon
<1>5. t[p] = x
  BY <1>1 DEF InsertedAt
<1>6. ASSUME NEW i \in 1 .. p - 1 PROVE t[i] = s[i]
  BY <1>1 DEF InsertedAt
<1>7. ASSUME NEW i \in p + 1 .. Len(s) + 1 PROVE t[i] = s[i - 1]
  BY <1>1 DEF InsertedAt
<1> QED
  BY <1>4, <1>5, <1>6, <1>7, Zenon DEF Wider

\* A sequence with one element less is a sequence.
LEMMA RemovedSeq ==
    ASSUME NEW S, NEW s \in Seq(S), NEW p \in 1 .. Len(s)
    PROVE  LET t == RemovedAt(s, p) IN
           /\ t \in Seq(S) /\ Len(t) = Len(s) - 1
           /\ \A i \in 1 .. p - 1 : t[i] = s[i]
           /\ \A i \in p .. Len(s) - 1 : t[i] = s[i + 1]
<1> DEFINE t == RemovedAt(s, p)
<1>1. Len(s) \in Nat /\ \A i \in 1 .. Len(s) : s[i] \in S
  BY LenProperties, ElementOfSeq, Zenon
<1>2. ASSUME NEW i \in 1 .. Len(s) - 1
      PROVE  (IF i < p THEN s[i] ELSE s[i + 1]) \in S
  <2>1. i \in 1 .. Len(s) /\ i + 1 \in 1 .. Len(s)
    BY <1>1
  <2> QED
    BY <1>1, <2>1, Zenon
<1>3. t \in [1 .. Len(s) - 1 -> S]
  BY <1>2, Zenon DEF RemovedAt
<1>4. t \in Seq(S) /\ Len(t) = Len(s) - 1
  <2>1. Len(s) - 1 \in Nat
    BY <1>1
  <2> HIDE DEF t
  <2> QED
    BY <1>3, <2>1, SeqOf, Zenon
<1>5. ASSUME NEW i \in 1 .. p - 1 PROVE t[i] = s[i]
  BY <1>1 DEF RemovedAt
<1>6. ASSUME NEW i \in p .. Len(s) - 1 PROVE t[i] = s[i + 1]
  BY <1>1 DEF RemovedAt
<1> QED
  BY <1>4, <1>5, <1>6, Zenon

\* The same, with nil before the first element and after the last.
LEMMA InsertedPos ==
    ASSUME NEW s \in Seq(Node), NEW p \in 1 .. Len(s) + 1, NEW n \in Node, NEW i \in Int
    PROVE  At(InsertedAt(s, p, n), i)
             = IF i < p THEN At(s, i) ELSE IF i = p THEN n ELSE At(s, i - 1)
<1> DEFINE t == InsertedAt(s, p, n)
<1>1. /\ t \in Seq(Node) /\ Len(t) = Len(s) + 1 /\ t[p] = n
      /\ \A j \in 1 .. p - 1 : t[j] = s[j]
      /\ \A j \in p + 1 .. Len(s) + 1 : t[j] = s[j - 1]
  <2>1. t \in Seq(Node) /\ Wider(t, s, p, n)
    BY InsertedSeq, Zenon
  <2> QED
    BY <2>1, Zenon DEF Wider
<1>2. Len(s) \in Nat
  BY LenProperties, Zenon
<1> HIDE DEF t
<1>3. At(t, i) = IF i < p THEN At(s, i) ELSE IF i = p THEN n ELSE At(s, i - 1)
  <2>1. CASE i < p
    BY <1>1, <1>2, <2>1 DEF At
  <2>2. CASE i = p
    BY <1>1, <1>2, <2>2 DEF At
  <2>3. CASE i > p
    BY <1>1, <1>2, <2>3 DEF At
  <2> QED
    BY <2>1, <2>2, <2>3
<1> QED
  BY <1>3, Zenon DEF t

\* The same, for a sequence with one element less.
LEMMA RemovedPos ==
    ASSUME NEW s \in Seq(Node), NEW p \in 1 .. Len(s), NEW i \in Int
    PROVE  At(RemovedAt(s, p), i) = IF i < p THEN At(s, i) ELSE At(s, i + 1)
<1> DEFINE t == RemovedAt(s, p)
<1>1. /\ t \in Seq(Node) /\ Len(t) = Len(s) - 1
      /\ \A j \in 1 .. p - 1 : t[j] = s[j]
      /\ \A j \in p .. Len(s) - 1 : t[j] = s[j + 1]
  BY RemovedSeq, Zenon
<1>2. Len(s) \in Nat
  BY LenProperties, Zenon
<1> HIDE DEF t
<1>3. At(t, i) = IF i < p THEN At(s, i) ELSE At(s, i + 1)
  <2>1. CASE i < p
    BY <1>1, <1>2, <2>1 DEF At
  <2>2. CASE i >= p
    BY <1>1, <1>2, <2>2 DEF At
  <2> QED
    BY <2>1, <2>2
<1> QED
  BY <1>3, Zenon DEF t

\* A node is at one position at most.
LEMMA OnePlace ==
    ASSUME NEW s \in Seq(Node), Distinct(s), NEW i \in Int, NEW j \in Int,
           At(s, i) = At(s, j), At(s, i) # nil
    PROVE  i = j
<1>1. i \in 1 .. Len(s) /\ j \in 1 .. Len(s)
  BY AtNode, Zenon
<1> QED
  BY <1>1, Zenon DEF Distinct, At

\* A new node between the elements at p - 1 and p becomes the element at p.
LEMMA InsertKeeps ==
    ASSUME NEW l, NEW s, Chain(l, s), NEW n \in Node, ~Inside(s, n), NEW v \in Value,
           NEW p \in 1 .. Len(s) + 1
    PROVE  LET m == Insert(l, n, v, At(s, p - 1), At(s, p)) IN
           Chain(m, InsertedAt(s, p, n)) /\ m.data = [l.data EXCEPT ![n] = v]
<1> DEFINE a == At(s, p - 1)
           b == At(s, p)
           m == Insert(l, n, v, a, b)
           t == InsertedAt(s, p, n)
<1>1. /\ l \in Lists /\ s \in Seq(Node) /\ Distinct(s) /\ l.size = Len(s) /\ Len(s) \in Nat
      /\ p \in Int /\ p - 1 \in Int
  BY LenProperties DEF Chain
<1>2. a \in Address /\ b \in Address /\ a # n /\ b # n /\ n # nil
  <2>1. \A i \in Int : At(s, i) \in Address /\ At(s, i) # n
    BY <1>1, AtNode, ListAssumption, Zenon DEF Address, Inside, At
  <2> QED
    BY <1>1, <2>1, ListAssumption, Zenon
<1>3. /\ m \in Lists /\ m.size = l.size + 1 /\ m.data = [l.data EXCEPT ![n] = v]
      /\ m.first = (IF a = nil THEN n ELSE l.first)
      /\ m.last = (IF b = nil THEN n ELSE l.last)
      /\ \A k \in Node : m.next[k] = IF k = n THEN b ELSE IF k = a THEN n ELSE l.next[k]
      /\ \A k \in Node : m.prev[k] = IF k = n THEN a ELSE IF k = b THEN n ELSE l.prev[k]
  BY <1>1, <1>2, InsertEffect
<1>4. /\ t \in Seq(Node) /\ Len(t) = Len(s) + 1 /\ t[p] = n
      /\ \A i \in 1 .. p - 1 : t[i] = s[i]
      /\ \A i \in p + 1 .. Len(s) + 1 : t[i] = s[i - 1]
  <2>1. t \in Seq(Node) /\ Wider(t, s, p, n)
    BY <1>1, InsertedSeq, Zenon
  <2> QED
    BY <2>1, Zenon DEF Wider
<1>5. \A i \in Int : At(t, i) = IF i < p THEN At(s, i) ELSE IF i = p THEN n ELSE At(s, i - 1)
  BY <1>1, InsertedPos
<1> HIDE DEF m, t
<1>6. Distinct(t)
  <2>1. ASSUME NEW k \in 1 .. Len(t)
        PROVE  \/ k < p /\ k \in 1 .. Len(s) /\ t[k] = s[k]
               \/ k = p /\ t[k] = n
               \/ k > p /\ k - 1 \in 1 .. Len(s) /\ t[k] = s[k - 1]
    BY <1>1, <1>4
  <2> SUFFICES ASSUME NEW i \in 1 .. Len(t), NEW j \in 1 .. Len(t), t[i] = t[j] PROVE i = j
    BY Zenon DEF Distinct
  <2>2. \A x, y \in 1 .. Len(s) : s[x] = s[y] => x = y
    BY <1>1, Zenon DEF Distinct
  <2>3. \A x \in 1 .. Len(s) : s[x] # n
    BY Zenon DEF Inside
  <2>4. CASE i < p
    BY <2>1, <2>2, <2>3, <2>4
  <2>5. CASE i = p
    BY <2>1, <2>2, <2>3, <2>5
  <2>6. CASE i > p
    BY <2>1, <2>2, <2>3, <2>6
  <2> QED
    BY <1>1, <1>4, <2>4, <2>5, <2>6
<1>7. m.first = At(t, 1)
  <2>1. CASE p = 1
    BY <1>2, <1>3, <1>5, <2>1 DEF At
  <2>2. CASE p > 1
    <3>1. a # nil
      BY <1>1, <2>2, AtNode
    <3>2. At(t, 1) = At(s, 1)
      BY <1>5, <2>2
    <3> QED
      BY <1>3, <3>1, <3>2, Zenon DEF Chain
  <2> QED
    BY <2>1, <2>2
<1>8. m.last = At(t, Len(t))
  <2>1. CASE p = Len(s) + 1
    <3>1. b = nil
      BY <1>1, <2>1 DEF At
    <3>2. At(t, Len(t)) = n
      BY <1>1, <1>4, <1>5, <2>1
    <3> QED
      BY <1>3, <3>1, <3>2, Zenon
  <2>2. CASE p < Len(s) + 1
    <3>1. b # nil
      BY <1>1, <2>2, AtNode
    <3>2. At(t, Len(t)) = At(s, Len(s))
      BY <1>1, <1>4, <1>5, <2>2
    <3> QED
      BY <1>3, <3>1, <3>2, Zenon DEF Chain
  <2> QED
    BY <1>1, <2>1, <2>2
<1>9. ASSUME NEW i \in 1 .. Len(t)
      PROVE  m.next[t[i]] = At(t, i + 1) /\ m.prev[t[i]] = At(t, i - 1)
  <2>1. CASE i < p
    <3>1. /\ t[i] = s[i] /\ i \in 1 .. Len(s) /\ s[i] = At(s, i) /\ s[i] \in Node /\ s[i] # nil
          /\ s[i] # n
      BY <1>1, <1>4, <2>1, ElementOfSeq, ListAssumption DEF Inside, At
    <3>2. s[i] # b
      BY <1>1, <2>1, <3>1, OnePlace
    <3>3. m.prev[t[i]] = At(s, i - 1) /\ m.next[t[i]] = IF s[i] = a THEN n ELSE At(s, i + 1)
      BY <1>3, <3>1, <3>2, Zenon DEF Chain
    <3>4. s[i] = a <=> i = p - 1
      BY <1>1, <2>1, <3>1, OnePlace
    <3>5. At(t, i - 1) = At(s, i - 1)
      BY <1>5, <2>1
    <3>6. At(t, i + 1) = IF i = p - 1 THEN n ELSE At(s, i + 1)
      BY <1>5, <2>1
    <3> QED
      BY <3>3, <3>4, <3>5, <3>6
  <2>2. CASE i = p
    <3>1. m.next[t[i]] = b /\ m.prev[t[i]] = a
      BY <1>2, <1>3, <1>4, <2>2, Zenon
    <3>2. At(t, i + 1) = b /\ At(t, i - 1) = a
      BY <1>5, <2>2
    <3> QED
      BY <3>1, <3>2, Zenon
  <2>3. CASE i > p
    <3>1. /\ t[i] = s[i - 1] /\ i - 1 \in 1 .. Len(s) /\ s[i - 1] = At(s, i - 1) /\ s[i - 1] \in Node
          /\ s[i - 1] # nil /\ s[i - 1] # n
      BY <1>1, <1>4, <2>3, ElementOfSeq, ListAssumption DEF Inside, At
    <3>2. s[i - 1] # a
      BY <1>1, <2>3, <3>1, OnePlace
    <3>a. l.next[s[i - 1]] = At(s, i) /\ l.prev[s[i - 1]] = At(s, i - 2)
      BY <1>1, <3>1 DEF Chain
    <3>3. m.next[t[i]] = At(s, i) /\ m.prev[t[i]] = IF s[i - 1] = b THEN n ELSE At(s, i - 2)
      BY <1>3, <3>1, <3>2, <3>a, Zenon
    <3>4. s[i - 1] = b <=> i - 1 = p
      BY <1>1, <2>3, <3>1, OnePlace
    <3>5. At(t, i + 1) = At(s, i)
      BY <1>5, <2>3
    <3>6. At(t, i - 1) = IF i - 1 = p THEN n ELSE At(s, i - 2)
      BY <1>5, <2>3
    <3> QED
      BY <3>3, <3>4, <3>5, <3>6
  <2> QED
    BY <1>1, <1>4, <2>1, <2>2, <2>3
<1>10. ASSUME NEW k \in Node, ~Inside(t, k)
       PROVE  m.data[k] = nil /\ m.prev[k] = nil /\ m.next[k] = nil
  <2>1. k # n
    BY <1>1, <1>4, <1>10, Zenon DEF Inside
  <2>2. ~Inside(s, k)
    <3> SUFFICES ASSUME NEW i \in 1 .. Len(s), s[i] = k PROVE FALSE
      BY Zenon DEF Inside
    <3>1. CASE i < p
      BY <1>1, <1>4, <1>10, <3>1 DEF Inside
    <3>2. CASE i >= p
      <4>1. i + 1 \in p + 1 .. Len(s) + 1 /\ i + 1 \in 1 .. Len(t) /\ i + 1 - 1 = i
        BY <1>1, <1>4, <3>2
      <4>2. t[i + 1] = s[i]
        BY <1>4, <4>1
      <4> QED
        BY <1>10, <4>1, <4>2, Zenon DEF Inside
    <3> QED
      BY <1>1, <3>1, <3>2
  <2>3. k # a /\ k # b
    BY <2>2, ListAssumption, Zenon DEF At, Inside
  <2>4. l.data[k] = nil /\ l.prev[k] = nil /\ l.next[k] = nil
    BY <2>2, Zenon DEF Chain
  <2>5. m.data[k] = l.data[k]
    BY <1>1, <1>3, <2>1, Zenon DEF Lists
  <2> QED
    BY <1>3, <2>1, <2>3, <2>4, <2>5, Zenon
<1>11. m.size = Len(t)
  BY <1>1, <1>3, <1>4, Zenon
<1>12. Chain(m, t)
  BY <1>3, <1>4, <1>6, <1>7, <1>8, <1>9, <1>10, <1>11, Zenon DEF Chain
<1> QED
  BY <1>3, <1>12, Zenon DEF m, t

\* Without the node at p, the elements behind it move one place forward.
LEMMA DeleteKeeps ==
    ASSUME NEW l, NEW s, Chain(l, s), NEW p \in 1 .. Len(s)
    PROVE  LET m == deleteNode(l, s[p]) IN
           Chain(m, RemovedAt(s, p)) /\ m.data = [l.data EXCEPT ![s[p]] = nil]
<1> DEFINE n == s[p]
           a == At(s, p - 1)
           b == At(s, p + 1)
           m == deleteNode(l, n)
           t == RemovedAt(s, p)
<1>1. /\ l \in Lists /\ s \in Seq(Node) /\ Distinct(s) /\ l.size = Len(s) /\ Len(s) \in Nat
      /\ p \in Int /\ p - 1 \in Int /\ p + 1 \in Int
  BY LenProperties DEF Chain
<1>2. n \in Node /\ n # nil /\ n = At(s, p) /\ l.prev[n] = a /\ l.next[n] = b
  BY <1>1, ElementOfSeq, ListAssumption, Zenon DEF At, Chain
<1>4. /\ m \in Lists /\ m.size = l.size - 1 /\ m.data = [l.data EXCEPT ![n] = nil]
      /\ m.first = (IF a = nil THEN b ELSE l.first)
      /\ m.last = (IF b = nil THEN a ELSE l.last)
      /\ \A k \in Node : m.next[k] = IF k = n THEN nil ELSE IF k = a THEN b ELSE l.next[k]
      /\ \A k \in Node : m.prev[k] = IF k = n THEN nil ELSE IF k = b THEN a ELSE l.prev[k]
  <2>1. l.size > 0
    BY <1>1
  <2>2. Cut(m, l, n, l.prev[n], l.next[n])
    BY <1>1, <1>2, <2>1, DeleteEffect, Zenon
  <2>3. Cut(m, l, n, a, b)
    BY <1>2, <2>2, Zenon
  <2> HIDE DEF m
  <2> QED
    BY <2>3, Zenon DEF Cut
<1>5. /\ t \in Seq(Node) /\ Len(t) = Len(s) - 1
      /\ \A i \in 1 .. p - 1 : t[i] = s[i]
      /\ \A i \in p .. Len(s) - 1 : t[i] = s[i + 1]
  BY <1>1, RemovedSeq, Zenon
<1>6. \A i \in Int : At(t, i) = IF i < p THEN At(s, i) ELSE At(s, i + 1)
  BY <1>1, RemovedPos, Zenon
<1> HIDE DEF m, t
<1>7. Distinct(t)
  <2>1. ASSUME NEW k \in 1 .. Len(t)
        PROVE  \/ k < p /\ k \in 1 .. Len(s) /\ t[k] = s[k]
               \/ k >= p /\ k + 1 \in 1 .. Len(s) /\ t[k] = s[k + 1]
    BY <1>1, <1>5
  <2> SUFFICES ASSUME NEW i \in 1 .. Len(t), NEW j \in 1 .. Len(t), t[i] = t[j] PROVE i = j
    BY Zenon DEF Distinct
  <2>2. \A x, y \in 1 .. Len(s) : s[x] = s[y] => x = y
    BY <1>1, Zenon DEF Distinct
  <2>3. CASE i < p
    BY <2>1, <2>2, <2>3
  <2>4. CASE i >= p
    BY <2>1, <2>2, <2>4
  <2> QED
    BY <1>1, <1>5, <2>3, <2>4
<1>8. m.first = At(t, 1)
  <2>1. CASE p = 1
    <3>1. a = nil /\ At(t, 1) = b
      BY <1>1, <1>6, <2>1 DEF At
    <3> QED
      BY <1>4, <3>1, Zenon
  <2>2. CASE p > 1
    <3>1. a # nil
      BY <1>1, <2>2, AtNode
    <3>2. At(t, 1) = At(s, 1)
      BY <1>6, <2>2
    <3> QED
      BY <1>4, <3>1, <3>2, Zenon DEF Chain
  <2> QED
    BY <2>1, <2>2
<1>9. m.last = At(t, Len(t))
  <2>1. CASE p = Len(s)
    <3>1. b = nil
      BY <1>1, <2>1 DEF At
    <3>2. At(t, Len(t)) = a
      BY <1>1, <1>5, <1>6, <2>1
    <3> QED
      BY <1>4, <3>1, <3>2, Zenon
  <2>2. CASE p < Len(s)
    <3>1. b # nil
      BY <1>1, <2>2, AtNode
    <3>2. At(t, Len(t)) = At(s, Len(s))
      BY <1>1, <1>5, <1>6, <2>2
    <3> QED
      BY <1>4, <3>1, <3>2, Zenon DEF Chain
  <2> QED
    BY <1>1, <2>1, <2>2
<1>10. ASSUME NEW i \in 1 .. Len(t)
       PROVE  m.next[t[i]] = At(t, i + 1) /\ m.prev[t[i]] = At(t, i - 1)
  <2>1. CASE i < p
    <3>1. t[i] = s[i] /\ i \in 1 .. Len(s) /\ s[i] = At(s, i) /\ s[i] \in Node /\ s[i] # nil
      BY <1>1, <1>5, <2>1, ElementOfSeq, ListAssumption DEF At
    <3>2. s[i] # b /\ s[i] # n
      BY <1>1, <1>2, <2>1, <3>1, OnePlace
    <3>a. l.next[s[i]] = At(s, i + 1) /\ l.prev[s[i]] = At(s, i - 1)
      BY <3>1, Zenon DEF Chain
    <3>3. m.prev[t[i]] = At(s, i - 1) /\ m.next[t[i]] = IF s[i] = a THEN b ELSE At(s, i + 1)
      BY <1>4, <3>1, <3>2, <3>a, Zenon
    <3>4. s[i] = a <=> i = p - 1
      BY <1>1, <2>1, <3>1, OnePlace
    <3>5. At(t, i - 1) = At(s, i - 1)
      BY <1>6, <2>1
    <3>6. At(t, i + 1) = IF i = p - 1 THEN b ELSE At(s, i + 1)
      BY <1>6, <2>1
    <3> QED
      BY <3>3, <3>4, <3>5, <3>6
  <2>2. CASE i >= p
    <3>1. /\ t[i] = s[i + 1] /\ i + 1 \in 1 .. Len(s) /\ s[i + 1] = At(s, i + 1) /\ s[i + 1] \in Node
          /\ s[i + 1] # nil
      BY <1>1, <1>5, <2>2, ElementOfSeq, ListAssumption DEF At
    <3>2. s[i + 1] # a /\ s[i + 1] # n
      BY <1>1, <1>2, <2>2, <3>1, OnePlace
    <3>a. l.next[s[i + 1]] = At(s, i + 2) /\ l.prev[s[i + 1]] = At(s, i)
      BY <1>1, <3>1 DEF Chain
    <3>b. /\ m.next[s[i + 1]] = l.next[s[i + 1]]
          /\ m.prev[s[i + 1]] = IF s[i + 1] = b THEN a ELSE l.prev[s[i + 1]]
      BY <1>4, <3>1, <3>2, Zenon
    <3>3. m.next[t[i]] = At(s, i + 2) /\ m.prev[t[i]] = IF s[i + 1] = b THEN a ELSE At(s, i)
      BY <3>1, <3>a, <3>b, Zenon
    <3>4. s[i + 1] = b <=> i = p
      BY <1>1, <2>2, <3>1, OnePlace
    <3>5. At(t, i + 1) = At(s, i + 2)
      BY <1>6, <2>2
    <3>6. At(t, i - 1) = IF i = p THEN a ELSE At(s, i)
      <4>1. /\ i - 1 \in Int /\ (i = p => i - 1 < p /\ i - 1 = p - 1)
            /\ (i # p => ~(i - 1 < p) /\ i - 1 + 1 = i)
        BY <1>1, <2>2
      <4> QED
        BY <1>6, <4>1, Zenon
    <3> QED
      BY <3>3, <3>4, <3>5, <3>6
  <2> QED
    BY <1>1, <1>5, <2>1, <2>2
<1>11. ASSUME NEW k \in Node, ~Inside(t, k)
       PROVE  m.data[k] = nil /\ m.prev[k] = nil /\ m.next[k] = nil
  <2>1. CASE k = n
    BY <1>1, <1>4, <2>1, Zenon DEF Lists
  <2>2. CASE k # n
    <3>1. ~Inside(s, k)
      <4> SUFFICES ASSUME NEW i \in 1 .. Len(s), s[i] = k PROVE FALSE
        BY Zenon DEF Inside
      <4>1. CASE i < p
        <5>1. i \in 1 .. Len(t) /\ t[i] = s[i]
          BY <1>1, <1>5, <4>1
        <5> QED
          BY <1>11, <5>1, Zenon DEF Inside
      <4>2. CASE i > p
        <5>1. i - 1 \in 1 .. Len(t) /\ i - 1 \in p .. Len(s) - 1 /\ i - 1 + 1 = i
          BY <1>1, <1>5, <4>2
        <5>2. t[i - 1] = s[i]
          BY <1>5, <5>1, Zenon
        <5> QED
          BY <1>11, <5>1, <5>2, Zenon DEF Inside
      <4> QED
        BY <1>1, <2>2, <4>1, <4>2
    <3>2. k # a /\ k # b
      BY <3>1, ListAssumption, Zenon DEF At, Inside
    <3>3. l.data[k] = nil /\ l.prev[k] = nil /\ l.next[k] = nil
      BY <3>1, Zenon DEF Chain
    <3>4. m.data[k] = l.data[k]
      BY <1>1, <1>4, <2>2, Zenon DEF Lists
    <3> QED
      BY <1>4, <2>2, <3>2, <3>3, <3>4, Zenon
  <2> QED
    BY <2>1, <2>2, Zenon
<1>12. m.size = Len(t)
  BY <1>1, <1>4, <1>5, Zenon
<1>13. Chain(m, t)
  BY <1>4, <1>5, <1>7, <1>8, <1>9, <1>10, <1>11, <1>12, Zenon DEF Chain
<1> QED
  BY <1>4, <1>13, Zenon DEF m, t

-------------------------------------------------------------------------------
(* The same changes, in the words of the sequence *)

\* The insertion of ListSeq puts one element at its place and moves those behind it.
LEMMA WithIsInserted ==
    ASSUME NEW S, NEW q \in Seq(S), NEW i \in 1 .. Len(q) + 1, NEW v \in S
    PROVE  SubSeq(q, 1, i - 1) \o <<v>> \o SubSeq(q, i, Len(q)) = InsertedAt(q, i, v)
<1> DEFINE a == SubSeq(q, 1, i - 1)
           b == SubSeq(q, i, Len(q))
           t == InsertedAt(q, i, v)
<1>1. Len(q) \in Nat /\ (\A j \in 1 .. Len(q) : q[j] \in S) /\ i \in Int /\ i - 1 \in Int
  BY LenProperties, ElementOfSeq
<1>2. /\ a \in Seq(S) /\ Len(a) = i - 1 /\ \A j \in 1 .. i - 1 : a[j] = q[j]
  <2>1. \A j \in 1 .. i - 1 : q[j] \in S
    BY <1>1
  <2>2. /\ a \in Seq(S) /\ Len(a) = IF 1 <= i - 1 THEN (i - 1) - 1 + 1 ELSE 0
        /\ \A j \in 1 .. (i - 1) - 1 + 1 : a[j] = q[1 + j - 1]
    BY <1>1, <2>1, SubSeqProperties
  <2> QED
    BY <1>1, <2>2
<1>3. /\ b \in Seq(S) /\ Len(b) = Len(q) - i + 1
      /\ \A j \in 1 .. Len(q) - i + 1 : b[j] = q[i + j - 1]
  <2>1. \A j \in i .. Len(q) : q[j] \in S
    BY <1>1
  <2>2. /\ b \in Seq(S) /\ Len(b) = IF i <= Len(q) THEN Len(q) - i + 1 ELSE 0
        /\ \A j \in 1 .. Len(q) - i + 1 : b[j] = q[i + j - 1]
    BY <1>1, <2>1, SubSeqProperties
  <2> QED
    BY <1>1, <2>2
<1>4. /\ t \in Seq(S) /\ Len(t) = Len(q) + 1 /\ t[i] = v
      /\ \A j \in 1 .. i - 1 : t[j] = q[j]
      /\ \A j \in i + 1 .. Len(q) + 1 : t[j] = q[j - 1]
  <2>1. t \in Seq(S) /\ Wider(t, q, i, v)
    BY <1>1, InsertedSeq, Zenon
  <2> QED
    BY <2>1, Zenon DEF Wider
<1> HIDE DEF a, b, t
<1>5. <<v>> \in Seq(S) /\ Len(<<v>>) = 1 /\ <<v>>[1] = v
  OBVIOUS
<1> DEFINE c == a \o <<v>>
           d == c \o b
<1>6. /\ c \in Seq(S) /\ Len(c) = i /\ \A j \in 1 .. i : c[j] = IF j <= i - 1 THEN a[j] ELSE v
  <2>1. /\ c \in Seq(S) /\ Len(c) = Len(a) + 1
        /\ \A j \in 1 .. Len(a) + 1 : c[j] = IF j <= Len(a) THEN a[j] ELSE <<v>>[j - Len(a)]
    BY <1>2, <1>5, ConcatProperties, Zenon
  <2> QED
    BY <1>1, <1>2, <1>5, <2>1
<1> HIDE DEF c
<1>7. /\ d \in Seq(S) /\ Len(d) = Len(q) + 1
      /\ \A j \in 1 .. Len(q) + 1 : d[j] = IF j <= i THEN c[j] ELSE b[j - i]
  <2>1. /\ d \in Seq(S) /\ Len(d) = Len(c) + Len(b)
        /\ \A j \in 1 .. Len(c) + Len(b) : d[j] = IF j <= Len(c) THEN c[j] ELSE b[j - Len(c)]
    BY <1>3, <1>6, ConcatProperties, Zenon
  <2> QED
    BY <1>1, <1>3, <1>6, <2>1
<1> HIDE DEF d
<1>8. ASSUME NEW j \in 1 .. Len(d) PROVE d[j] = t[j]
  <2>1. CASE j < i
    <3>1. j \in 1 .. i - 1 /\ j \in 1 .. i /\ j \in 1 .. Len(q) + 1 /\ j <= i - 1 /\ j <= i
      BY <1>1, <1>7, <2>1
    <3> QED
      BY <1>2, <1>4, <1>6, <1>7, <3>1, Zenon
  <2>2. CASE j = i
    BY <1>1, <1>4, <1>6, <1>7, <2>2
  <2>3. CASE j > i
    <3>1. d[j] = b[j - i] /\ j - i \in 1 .. Len(q) - i + 1 /\ j \in i + 1 .. Len(q) + 1
      BY <1>1, <1>7, <2>3
    <3>2. i + (j - i) - 1 = j - 1
      BY <1>1, <1>7
    <3> QED
      BY <1>3, <1>4, <3>1, <3>2, Zenon
  <2> QED
    BY <1>1, <1>7, <2>1, <2>2, <2>3
<1>9. d = t
  BY <1>4, <1>7, <1>8, SeqEqual, Zenon
<1> QED
  BY <1>9, Zenon DEF a, b, c, d, t

\* The removal of ListSeq takes one element out and moves those behind it.
LEMMA WithoutIsRemoved ==
    ASSUME NEW S, NEW q \in Seq(S), NEW i \in 1 .. Len(q)
    PROVE  SubSeq(q, 1, i - 1) \o SubSeq(q, i + 1, Len(q)) = RemovedAt(q, i)
<1> DEFINE a == SubSeq(q, 1, i - 1)
           b == SubSeq(q, i + 1, Len(q))
           t == RemovedAt(q, i)
<1>1. /\ Len(q) \in Nat /\ (\A j \in 1 .. Len(q) : q[j] \in S)
      /\ i \in Int /\ i - 1 \in Int /\ i + 1 \in Int
  BY LenProperties, ElementOfSeq
<1>2. /\ a \in Seq(S) /\ Len(a) = i - 1 /\ \A j \in 1 .. i - 1 : a[j] = q[j]
  <2>1. \A j \in 1 .. i - 1 : q[j] \in S
    BY <1>1
  <2>2. /\ a \in Seq(S) /\ Len(a) = IF 1 <= i - 1 THEN (i - 1) - 1 + 1 ELSE 0
        /\ \A j \in 1 .. (i - 1) - 1 + 1 : a[j] = q[1 + j - 1]
    BY <1>1, <2>1, SubSeqProperties
  <2> QED
    BY <1>1, <2>2
<1>3. /\ b \in Seq(S) /\ Len(b) = Len(q) - i
      /\ \A j \in 1 .. Len(q) - i : b[j] = q[i + j]
  <2>1. \A j \in i + 1 .. Len(q) : q[j] \in S
    BY <1>1
  <2>2. /\ b \in Seq(S) /\ Len(b) = IF i + 1 <= Len(q) THEN Len(q) - (i + 1) + 1 ELSE 0
        /\ \A j \in 1 .. Len(q) - (i + 1) + 1 : b[j] = q[i + 1 + j - 1]
    BY <1>1, <2>1, SubSeqProperties
  <2> QED
    BY <1>1, <2>2
<1>4. /\ t \in Seq(S) /\ Len(t) = Len(q) - 1
      /\ \A j \in 1 .. i - 1 : t[j] = q[j]
      /\ \A j \in i .. Len(q) - 1 : t[j] = q[j + 1]
  BY <1>1, RemovedSeq, Zenon
<1> HIDE DEF a, b, t
<1> DEFINE d == a \o b
<1>5. /\ d \in Seq(S) /\ Len(d) = Len(q) - 1
      /\ \A j \in 1 .. Len(q) - 1 : d[j] = IF j <= i - 1 THEN a[j] ELSE b[j - (i - 1)]
  <2>1. /\ d \in Seq(S) /\ Len(d) = Len(a) + Len(b)
        /\ \A j \in 1 .. Len(a) + Len(b) : d[j] = IF j <= Len(a) THEN a[j] ELSE b[j - Len(a)]
    BY <1>2, <1>3, ConcatProperties, Zenon
  <2> QED
    BY <1>1, <1>2, <1>3, <2>1
<1> HIDE DEF d
<1>6. ASSUME NEW j \in 1 .. Len(d) PROVE d[j] = t[j]
  <2>1. CASE j < i
    BY <1>1, <1>2, <1>4, <1>5, <2>1
  <2>2. CASE j >= i
    <3>1. d[j] = b[j - (i - 1)] /\ j - (i - 1) \in 1 .. Len(q) - i /\ j \in i .. Len(q) - 1
      BY <1>1, <1>5, <2>2
    <3>2. i + (j - (i - 1)) = j + 1
      BY <1>1, <1>5
    <3> QED
      BY <1>3, <1>4, <3>1, <3>2, Zenon
  <2> QED
    BY <1>1, <1>5, <2>1, <2>2
<1>7. d = t
  BY <1>4, <1>5, <1>6, SeqEqual, Zenon
<1> QED
  BY <1>7, Zenon DEF a, b, d, t

\* Append and a prepended element are insertions at the two ends.
LEMMA EndsInserted ==
    ASSUME NEW S, NEW q \in Seq(S), NEW v \in S
    PROVE  /\ Append(q, v) = InsertedAt(q, Len(q) + 1, v)
           /\ <<v>> \o q = InsertedAt(q, 1, v)
<1>1. Len(q) \in Nat /\ Len(q) + 1 \in 1 .. Len(q) + 1 /\ 1 \in 1 .. Len(q) + 1
  BY LenProperties
<1>2. Append(q, v) = InsertedAt(q, Len(q) + 1, v)
  <2> DEFINE p == Len(q) + 1
             t == InsertedAt(q, p, v)
             a == Append(q, v)
  <2>1. /\ t \in Seq(S) /\ Len(t) = Len(q) + 1 /\ t[p] = v
        /\ \A j \in 1 .. p - 1 : t[j] = q[j]
    <3>1. p \in 1 .. Len(q) + 1
      BY <1>1, Zenon
    <3> HIDE DEF p
    <3> QED
      <4>1. t \in Seq(S) /\ Wider(t, q, p, v)
        BY <3>1, InsertedSeq, Zenon
      <4> QED
        BY <4>1, Zenon DEF Wider
  <2>2. /\ a \in Seq(S) /\ Len(a) = Len(q) + 1 /\ a[Len(q) + 1] = v
        /\ \A j \in 1 .. Len(q) : a[j] = q[j]
    BY AppendProperties
  <2> HIDE DEF t, a
  <2>3. \A j \in 1 .. Len(a) : a[j] = t[j]
    BY <1>1, <2>1, <2>2
  <2>4. a = t
    BY <2>1, <2>2, <2>3, SeqEqual, Zenon
  <2> QED
    BY <2>4, Zenon DEF a, t
<1>3. <<v>> \o q = InsertedAt(q, 1, v)
  <2> DEFINE t == InsertedAt(q, 1, v)
             a == <<v>> \o q
  <2>1. /\ t \in Seq(S) /\ Len(t) = Len(q) + 1 /\ t[1] = v
        /\ \A j \in 1 + 1 .. Len(q) + 1 : t[j] = q[j - 1]
    <3>1. t \in Seq(S) /\ Wider(t, q, 1, v)
      BY <1>1, InsertedSeq, Zenon
    <3> QED
      BY <3>1, Zenon DEF Wider
  <2>2. <<v>> \in Seq(S) /\ Len(<<v>>) = 1 /\ <<v>>[1] = v
    OBVIOUS
  <2>3. /\ a \in Seq(S) /\ Len(a) = Len(<<v>>) + Len(q)
        /\ \A j \in 1 .. Len(<<v>>) + Len(q) :
              a[j] = IF j <= Len(<<v>>) THEN <<v>>[j] ELSE q[j - Len(<<v>>)]
    BY <2>2, ConcatProperties, Zenon
  <2> HIDE DEF t, a
  <2>4. \A j \in 1 .. Len(a) : a[j] = t[j]
    BY <1>1, <2>1, <2>2, <2>3
  <2>5. Len(a) = Len(t)
    BY <1>1, <2>1, <2>2, <2>3
  <2>6. a = t
    BY <2>1, <2>3, <2>4, <2>5, SeqEqual, Zenon
  <2> QED
    BY <2>6, Zenon DEF a, t
<1> QED
  BY <1>2, <1>3, Zenon

\* Tail is a removal at the front.
LEMMA TailIsRemoved ==
    ASSUME NEW S, NEW q \in Seq(S), q # <<>>
    PROVE  Tail(q) = RemovedAt(q, 1) /\ Head(q) = q[1] /\ Len(q) \in Nat \ {0}
<1>1. Len(q) \in Nat \ {0} /\ 1 \in 1 .. Len(q)
  BY EmptySeq
<1> DEFINE t == RemovedAt(q, 1)
           a == Tail(q)
<1>2. t \in Seq(S) /\ Len(t) = Len(q) - 1 /\ \A j \in 1 .. Len(q) - 1 : t[j] = q[j + 1]
  BY <1>1, RemovedSeq, Zenon
<1>3. a \in Seq(S) /\ Len(a) = Len(q) - 1 /\ \A j \in 1 .. Len(a) : a[j] = q[j + 1]
  BY HeadTailProperties, Zenon
<1> HIDE DEF t, a
<1>4. \A j \in 1 .. Len(a) : a[j] = t[j]
  BY <1>2, <1>3, Zenon
<1>5. a = t
  BY <1>2, <1>3, <1>4, SeqEqual, Zenon
<1>6. Head(q) = q[1]
  BY DEF Head
<1> QED
  BY <1>1, <1>5, <1>6, Zenon DEF a, t

Dropped(q, k) == [i \in 1 .. Len(q) - k |-> q[i + k]]

\* A sequence without its first k elements is a sequence.
LEMMA DroppedSeq ==
    ASSUME NEW S, NEW q \in Seq(S), NEW k \in 0 .. Len(q)
    PROVE  /\ Dropped(q, k) \in Seq(S) /\ Len(Dropped(q, k)) = Len(q) - k
           /\ \A i \in 1 .. Len(q) - k : Dropped(q, k)[i] = q[i + k]
<1>1. Len(q) \in Nat /\ Len(q) - k \in Nat /\ \A j \in 1 .. Len(q) : q[j] \in S
  BY LenProperties, ElementOfSeq
<1>2. \A i \in 1 .. Len(q) - k : q[i + k] \in S
  BY <1>1
<1>3. Dropped(q, k) \in [1 .. Len(q) - k -> S]
  BY <1>2, Zenon DEF Dropped
<1>4. Dropped(q, k) \in Seq(S) /\ Len(Dropped(q, k)) = Len(q) - k
  BY <1>1, <1>3, SeqOf, Zenon
<1> QED
  BY <1>4, Zenon DEF Dropped

\* The elements after the first k are left, after k times the first has gone.
LEMMA DroppedIs ==
    ASSUME NEW S, NEW q \in Seq(S)
    PROVE  /\ Dropped(q, 0) = q
           /\ \A k \in 0 .. Len(q) - 1 : RemovedAt(Dropped(q, k), 1) = Dropped(q, k + 1)
           /\ \A k \in 0 .. Len(q) : SubSeq(q, k + 1, Len(q)) = Dropped(q, k)
<1>0. Len(q) \in Nat /\ 0 \in 0 .. Len(q) /\ \A j \in 1 .. Len(q) : q[j] \in S
  BY LenProperties, ElementOfSeq
<1>1. Dropped(q, 0) = q
  <2> DEFINE d == Dropped(q, 0)
  <2>1. d \in Seq(S) /\ Len(d) = Len(q) - 0 /\ \A i \in 1 .. Len(q) - 0 : d[i] = q[i + 0]
    BY <1>0, DroppedSeq, Zenon
  <2> HIDE DEF d
  <2>2. Len(d) = Len(q) /\ \A i \in 1 .. Len(d) : d[i] = q[i]
    BY <1>0, <2>1
  <2>3. d = q
    BY <2>1, <2>2, SeqEqual, Zenon
  <2> QED
    BY <2>3, Zenon DEF d
<1>2. ASSUME NEW k \in 0 .. Len(q) - 1
      PROVE  RemovedAt(Dropped(q, k), 1) = Dropped(q, k + 1)
  <2> DEFINE c == Dropped(q, k)
             d == Dropped(q, k + 1)
             t == RemovedAt(c, 1)
  <2>1. k \in 0 .. Len(q) /\ k + 1 \in 0 .. Len(q)
    BY <1>0
  <2>2. c \in Seq(S) /\ Len(c) = Len(q) - k /\ \A i \in 1 .. Len(q) - k : c[i] = q[i + k]
    BY <2>1, DroppedSeq, Zenon
  <2>3. /\ d \in Seq(S) /\ Len(d) = Len(q) - (k + 1)
        /\ \A i \in 1 .. Len(q) - (k + 1) : d[i] = q[i + (k + 1)]
    BY <2>1, DroppedSeq, Zenon
  <2> HIDE DEF c, d
  <2>4. 1 \in 1 .. Len(c)
    BY <1>0, <2>2
  <2>5. t \in Seq(S) /\ Len(t) = Len(c) - 1 /\ \A i \in 1 .. Len(c) - 1 : t[i] = c[i + 1]
    BY <2>2, <2>4, RemovedSeq, Zenon
  <2> HIDE DEF t
  <2>6. Len(t) = Len(d)
    BY <1>0, <2>2, <2>3, <2>5
  <2>7. ASSUME NEW i \in 1 .. Len(t) PROVE t[i] = d[i]
    <3>1. t[i] = c[i + 1] /\ i + 1 \in 1 .. Len(q) - k /\ i \in 1 .. Len(q) - (k + 1)
      BY <1>0, <2>2, <2>5
    <3>2. (i + 1) + k = i + (k + 1)
      BY <1>0, <2>2, <2>5
    <3> QED
      BY <2>2, <2>3, <3>1, <3>2, Zenon
  <2>8. t = d
    BY <2>3, <2>5, <2>6, <2>7, SeqEqual, Zenon
  <2> QED
    BY <2>8, Zenon DEF c, d, t
<1>3. ASSUME NEW k \in 0 .. Len(q)
      PROVE  SubSeq(q, k + 1, Len(q)) = Dropped(q, k)
  <2> DEFINE a == SubSeq(q, k + 1, Len(q))
             d == Dropped(q, k)
  <2>1. \A j \in k + 1 .. Len(q) : q[j] \in S
    BY <1>0
  <2>2. /\ a \in Seq(S) /\ Len(a) = IF k + 1 <= Len(q) THEN Len(q) - (k + 1) + 1 ELSE 0
        /\ \A j \in 1 .. Len(q) - (k + 1) + 1 : a[j] = q[k + 1 + j - 1]
    BY <1>0, <2>1, SubSeqProperties
  <2>3. d \in Seq(S) /\ Len(d) = Len(q) - k /\ \A i \in 1 .. Len(q) - k : d[i] = q[i + k]
    BY DroppedSeq, Zenon
  <2> HIDE DEF a, d
  <2>4. Len(a) = Len(d)
    BY <1>0, <2>2, <2>3
  <2>5. ASSUME NEW i \in 1 .. Len(a) PROVE a[i] = d[i]
    <3>1. /\ i \in 1 .. Len(q) - k /\ i \in 1 .. Len(q) - (k + 1) + 1
          /\ k + 1 + i - 1 = i + k
      BY <1>0, <2>3, <2>4
    <3> QED
      BY <2>2, <2>3, <3>1, Zenon
  <2>6. a = d
    BY <2>2, <2>3, <2>4, <2>5, SeqEqual, Zenon
  <2> QED
    BY <2>6, Zenon DEF a, d
<1> QED
  BY <1>1, <1>2, <1>3, Zenon

-------------------------------------------------------------------------------
(* What the nodes hold *)

Datum == Value \cup {nil}

Values(l, s) == [i \in 1 .. Len(s) |-> l.data[s[i]]]

\* The data of the nodes of a list are a sequence of values.
LEMMA ValuesSeq ==
    ASSUME NEW l \in Lists, NEW s \in Seq(Node)
    PROVE  /\ Values(l, s) \in Seq(Datum) /\ Len(Values(l, s)) = Len(s)
           /\ \A i \in 1 .. Len(s) : Values(l, s)[i] = l.data[s[i]]
<1>1. Len(s) \in Nat /\ \A i \in 1 .. Len(s) : s[i] \in Node
  BY LenProperties, ElementOfSeq, Zenon
<1>2. l.data \in [Node -> Datum]
  BY Zenon DEF Lists, Datum
<1>3. Values(l, s) \in [1 .. Len(s) -> Datum]
  BY <1>1, <1>2, Zenon DEF Values
<1>4. Values(l, s) \in Seq(Datum) /\ Len(Values(l, s)) = Len(s)
  BY <1>1, <1>3, SeqOf, Zenon
<1> QED
  BY <1>4, Zenon DEF Values

\* A new node adds its data to the values, at its place.
LEMMA InsertedValues ==
    ASSUME NEW l, NEW s, Chain(l, s), NEW n \in Node, ~Inside(s, n), NEW v \in Value,
           NEW p \in 1 .. Len(s) + 1, NEW m \in Lists, m.data = [l.data EXCEPT ![n] = v]
    PROVE  Values(m, InsertedAt(s, p, n)) = InsertedAt(Values(l, s), p, v)
<1> DEFINE t == InsertedAt(s, p, n)
           q == Values(l, s)
           r == InsertedAt(q, p, v)
           w == Values(m, t)
<1>1. l \in Lists /\ s \in Seq(Node) /\ Len(s) \in Nat /\ v \in Datum
  BY LenProperties, Zenon DEF Chain, Datum
<1>2. /\ t \in Seq(Node) /\ Len(t) = Len(s) + 1 /\ t[p] = n
      /\ \A i \in 1 .. p - 1 : t[i] = s[i]
      /\ \A i \in p + 1 .. Len(s) + 1 : t[i] = s[i - 1]
  <2>1. t \in Seq(Node) /\ Wider(t, s, p, n)
    BY <1>1, InsertedSeq, Zenon
  <2> QED
    BY <2>1, Zenon DEF Wider
<1>3. q \in Seq(Datum) /\ Len(q) = Len(s) /\ \A i \in 1 .. Len(s) : q[i] = l.data[s[i]]
  BY <1>1, ValuesSeq, Zenon
<1> HIDE DEF t, q
<1>4. w \in Seq(Datum) /\ Len(w) = Len(t) /\ \A i \in 1 .. Len(t) : w[i] = m.data[t[i]]
  BY <1>2, ValuesSeq, Zenon
<1>5. /\ r \in Seq(Datum) /\ Len(r) = Len(q) + 1 /\ r[p] = v
      /\ \A i \in 1 .. p - 1 : r[i] = q[i]
      /\ \A i \in p + 1 .. Len(q) + 1 : r[i] = q[i - 1]
  <2>1. r \in Seq(Datum) /\ Wider(r, q, p, v)
    BY <1>1, <1>3, InsertedSeq, Zenon
  <2> QED
    BY <2>1, Zenon DEF Wider
<1> HIDE DEF r, w
<1>6. /\ m.data[n] = v
      /\ \A i \in 1 .. Len(s) : m.data[s[i]] = l.data[s[i]]
  <2>1. \A i \in 1 .. Len(s) : s[i] \in Node /\ s[i] # n
    BY <1>1, ElementOfSeq, Zenon DEF Inside
  <2> QED
    BY <1>1, <2>1, Zenon DEF Lists
<1>7. ASSUME NEW i \in 1 .. Len(w) PROVE w[i] = r[i]
  <2>1. CASE i < p
    <3>1. i \in 1 .. p - 1 /\ i \in 1 .. Len(s) /\ i \in 1 .. Len(t)
      BY <1>1, <1>2, <1>4, <2>1
    <3>2. w[i] = m.data[t[i]] /\ t[i] = s[i] /\ m.data[s[i]] = l.data[s[i]]
      BY <1>2, <1>4, <1>6, <3>1, Zenon
    <3>3. r[i] = q[i] /\ q[i] = l.data[s[i]]
      BY <1>3, <1>5, <3>1, Zenon
    <3> QED
      BY <3>2, <3>3, Zenon
  <2>2. CASE i = p
    BY <1>2, <1>4, <1>5, <1>6, <2>2, Zenon
  <2>3. CASE i > p
    <3>1. i \in p + 1 .. Len(s) + 1 /\ i - 1 \in 1 .. Len(s) /\ i \in 1 .. Len(t)
      BY <1>1, <1>2, <1>4, <2>3
    <3>2. w[i] = m.data[t[i]] /\ t[i] = s[i - 1] /\ m.data[s[i - 1]] = l.data[s[i - 1]]
      BY <1>2, <1>4, <1>6, <3>1, Zenon
    <3>3. r[i] = q[i - 1] /\ q[i - 1] = l.data[s[i - 1]]
      BY <1>3, <1>5, <3>1, Zenon
    <3> QED
      BY <3>2, <3>3, Zenon
  <2> QED
    BY <1>1, <1>2, <1>4, <2>1, <2>2, <2>3
<1>8. w = r
  BY <1>2, <1>3, <1>4, <1>5, <1>7, SeqEqual
<1> QED
  BY <1>8, Zenon DEF t, q, r, w

\* Without a node, the values lose its data, at its place.
LEMMA RemovedValues ==
    ASSUME NEW l, NEW s, Chain(l, s), NEW p \in 1 .. Len(s),
           NEW m \in Lists, m.data = [l.data EXCEPT ![s[p]] = nil]
    PROVE  Values(m, RemovedAt(s, p)) = RemovedAt(Values(l, s), p)
<1> DEFINE t == RemovedAt(s, p)
           q == Values(l, s)
           r == RemovedAt(q, p)
           w == Values(m, t)
<1>1. l \in Lists /\ s \in Seq(Node) /\ Len(s) \in Nat
  BY LenProperties, Zenon DEF Chain
<1>2. /\ t \in Seq(Node) /\ Len(t) = Len(s) - 1
      /\ \A i \in 1 .. p - 1 : t[i] = s[i]
      /\ \A i \in p .. Len(s) - 1 : t[i] = s[i + 1]
  BY <1>1, RemovedSeq
<1>3. q \in Seq(Datum) /\ Len(q) = Len(s) /\ \A i \in 1 .. Len(s) : q[i] = l.data[s[i]]
  BY <1>1, ValuesSeq, Zenon
<1> HIDE DEF t, q
<1>4. w \in Seq(Datum) /\ Len(w) = Len(t) /\ \A i \in 1 .. Len(t) : w[i] = m.data[t[i]]
  BY <1>2, ValuesSeq, Zenon
<1>5. /\ r \in Seq(Datum) /\ Len(r) = Len(q) - 1
      /\ \A i \in 1 .. p - 1 : r[i] = q[i]
      /\ \A i \in p .. Len(q) - 1 : r[i] = q[i + 1]
  BY <1>1, <1>3, RemovedSeq
<1> HIDE DEF r, w
<1>6. \A i \in 1 .. Len(s) : i # p => m.data[s[i]] = l.data[s[i]]
  <2>1. \A i \in 1 .. Len(s) : s[i] \in Node /\ (i # p => s[i] # s[p])
    BY <1>1, ElementOfSeq, Zenon DEF Chain, Distinct
  <2> QED
    BY <1>1, <2>1, Zenon DEF Lists
<1>7. ASSUME NEW i \in 1 .. Len(w) PROVE w[i] = r[i]
  <2>1. CASE i < p
    <3>1. i \in 1 .. p - 1 /\ i \in 1 .. Len(s) /\ i \in 1 .. Len(t) /\ i # p
      BY <1>1, <1>2, <1>4, <2>1
    <3>2. w[i] = m.data[t[i]] /\ t[i] = s[i] /\ m.data[s[i]] = l.data[s[i]]
      BY <1>2, <1>4, <1>6, <3>1, Zenon
    <3>3. r[i] = q[i] /\ q[i] = l.data[s[i]]
      BY <1>3, <1>5, <3>1, Zenon
    <3> QED
      BY <3>2, <3>3, Zenon
  <2>2. CASE i >= p
    <3>1. i \in p .. Len(s) - 1 /\ i + 1 \in 1 .. Len(s) /\ i \in 1 .. Len(t) /\ i + 1 # p
      BY <1>1, <1>2, <1>4, <2>2
    <3>2. w[i] = m.data[t[i]] /\ t[i] = s[i + 1] /\ m.data[s[i + 1]] = l.data[s[i + 1]]
      BY <1>2, <1>4, <1>6, <3>1, Zenon
    <3>3. r[i] = q[i + 1] /\ q[i + 1] = l.data[s[i + 1]]
      BY <1>3, <1>5, <3>1, Zenon
    <3> QED
      BY <3>2, <3>3, Zenon
  <2> QED
    BY <1>1, <1>2, <1>4, <2>1, <2>2
<1>8. w = r
  BY <1>2, <1>3, <1>4, <1>5, <1>7, SeqEqual, Zenon
<1> QED
  BY <1>8, Zenon DEF t, q, r, w

-------------------------------------------------------------------------------
(* The inductive invariant *)

\* A call of AddBefore, between its first comparison and its return.
Calls == [at : {"equal", "last", "before"}, index : 0 .. N, v : Value]

\* The pointers lead through the nodes that Loop visits.
ListInv == Chain(list, Forward) /\ before \in [Inserter -> {Idle} \cup Calls]

\* What the invariant says of the nodes that Loop visits, of their data and of the
\* nodes a method may allocate.
LEMMA InvFacts ==
    ASSUME ListInv
    PROVE  /\ list \in Lists /\ Forward \in Seq(Node) /\ DOMAIN Forward = 1 .. Len(Forward)
           /\ N \in Nat /\ Len(Forward) \in 0 .. N /\ list.size = Len(Forward)
           /\ Elements = Values(list, Forward)
           /\ Elements \in Seq(Datum) /\ Len(Elements) = Len(Forward)
           /\ \A i \in 1 .. Len(Forward) : Elements[i] = list.data[Forward[i]]
           /\ \A n \in Free : n \in Node /\ ~Inside(Forward, n)
<1>1. /\ list \in Lists /\ Forward \in Seq(Node)
      /\ N \in Nat /\ Len(Forward) \in 0 .. N /\ list.size = Len(Forward)
  BY ChainLinked, Zenon DEF ListInv
<1>2. DOMAIN Forward = 1 .. Len(Forward)
  BY <1>1, LenProperties, Zenon
<1>3. Elements = Values(list, Forward)
  BY <1>2, Zenon DEF Elements, Values
<1>4. /\ Elements \in Seq(Datum) /\ Len(Elements) = Len(Forward)
      /\ \A i \in 1 .. Len(Forward) : Elements[i] = list.data[Forward[i]]
  BY <1>1, <1>3, ValuesSeq, Zenon
<1>5. \A n \in Free : n \in Node /\ ~Inside(Forward, n)
  BY <1>2, Zenon DEF Free, Inside
<1> QED
  BY <1>1, <1>2, <1>3, <1>4, <1>5, Zenon

\* After a step that leaves a chain, Loop visits that chain.
LEMMA NewChain ==
    ASSUME NEW t, Chain(list', t)
    PROVE  Chain(list', Forward') /\ Elements' = Values(list', t)
<1>1. Forward' = t
  BY ChainWalks, Zenon DEF Forward
<1>2. DOMAIN t = 1 .. Len(t)
  BY ChainLinked, LenProperties, Zenon
<1>3. Elements' = [k \in DOMAIN Forward' |-> list'.data[Forward'[k]]]
  BY Zenon DEF Elements
<1>4. Elements' = Values(list', t)
  BY <1>1, <1>2, <1>3, Zenon DEF Values
<1> QED
  BY <1>1, <1>4, Zenon

\* A step that leaves the list alone keeps its chain and its values.
LEMMA SameList ==
    ASSUME ListInv, UNCHANGED list
    PROVE  Chain(list', Forward') /\ Elements' = Elements
<1>1. Forward' = Forward
  BY Zenon DEF Forward
<1> QED
  BY <1>1, Zenon DEF ListInv, Elements

\* A step that links a new node in at p inserts its value at p.
LEMMA InsertStep ==
    ASSUME ListInv, NEW n \in Free, NEW v \in Value, NEW p \in 1 .. Len(Forward) + 1,
           list' = Insert(list, n, v, At(Forward, p - 1), At(Forward, p))
    PROVE  Chain(list', Forward') /\ Elements' = InsertedAt(Elements, p, v)
<1>1. n \in Node /\ ~Inside(Forward, n) /\ Chain(list, Forward)
  BY InvFacts, Zenon DEF ListInv
<1>2. Chain(list', InsertedAt(Forward, p, n)) /\ list'.data = [list.data EXCEPT ![n] = v]
  BY <1>1, InsertKeeps
<1>3. list' \in Lists
  BY <1>2, ChainLinked, Zenon
<1>4. Values(list', InsertedAt(Forward, p, n)) = InsertedAt(Values(list, Forward), p, v)
  BY <1>1, <1>2, <1>3, InsertedValues
<1> QED
  BY <1>2, <1>4, NewChain, InvFacts, Zenon

\* A step that takes the node at p out removes the value at p.
LEMMA DeleteStep ==
    ASSUME ListInv, NEW p \in 1 .. Len(Forward), list' = deleteNode(list, Forward[p])
    PROVE  Chain(list', Forward') /\ Elements' = RemovedAt(Elements, p)
<1>1. Chain(list, Forward)
  BY Zenon DEF ListInv
<1>2. /\ Chain(list', RemovedAt(Forward, p))
      /\ list'.data = [list.data EXCEPT ![Forward[p]] = nil]
  BY <1>1, DeleteKeeps, Zenon
<1>3. list' \in Lists
  BY <1>2, ChainLinked, Zenon
<1>4. Values(list', RemovedAt(Forward, p)) = RemovedAt(Values(list, Forward), p)
  BY <1>1, <1>2, <1>3, RemovedValues, Zenon
<1> QED
  BY <1>2, <1>4, NewChain, InvFacts, Zenon

\* NewLinkedList returns a list without elements.
LEMMA EmptyChain ==
    Chain(NewList, <<>>) /\ Values(NewList, <<>>) = <<>>
<1>1. <<>> \in Seq(Node) /\ Len(<<>>) = 0
  OBVIOUS
<1>2. NewList \in Lists
  BY Zenon DEF NewList, Lists, Address
<1>3. At(<<>>, 1) = nil /\ At(<<>>, Len(<<>>)) = nil
  BY <1>1 DEF At
<1>4. \A i : i \notin 1 .. Len(<<>>)
  BY <1>1
<1>5. /\ NewList.size = Len(<<>>) /\ NewList.first = nil /\ NewList.last = nil
      /\ \A n \in Node : NewList.data[n] = nil /\ NewList.prev[n] = nil /\ NewList.next[n] = nil
  BY <1>1, Zenon DEF NewList
<1>6. Chain(NewList, <<>>)
  BY <1>1, <1>2, <1>3, <1>4, <1>5, Zenon DEF Chain, Distinct
<1>7. Len(Values(NewList, <<>>)) = 0 /\ Values(NewList, <<>>) \in Seq(Datum)
  BY <1>1, <1>2, ValuesSeq, Zenon
<1> QED
  BY <1>6, <1>7

\* RemoveUntil's loop: the list after every turn.
Turns(l, w, n) == [k \in 0 .. n |-> IF k = 0 THEN l ELSE deleteNode(w[k - 1], w[k - 1].first)]
Looped(l, n) == CHOOSE w : w = Turns(l, w, n)

\* The turns of RemoveUntil's loop are well defined.
LEMMA LoopedExists ==
    ASSUME NEW l, NEW n \in Nat
    PROVE  Looped(l, n) = Turns(l, Looped(l, n), n)
<1> DEFINE S == {m \in 0 .. n : \E w : w = Turns(l, w, m)}
<1>1. 0 \in S
  <2> DEFINE w == [k \in 0 .. 0 |-> l]
  <2>1. \A k \in 0 .. 0 : k = 0
    OBVIOUS
  <2>2. w = Turns(l, w, 0)
    BY <2>1, Zenon DEF Turns
  <2> QED
    BY <2>2
<1>2. ASSUME NEW m \in 1 .. n, m - 1 \in S PROVE m \in S
  <2>1. PICK w : w = Turns(l, w, m - 1)
    BY <1>2, Zenon
  <2> DEFINE x == [k \in 0 .. m |-> IF k < m THEN w[k] ELSE deleteNode(w[m - 1], w[m - 1].first)]
             new(k) == IF k = 0 THEN l ELSE deleteNode(x[k - 1], x[k - 1].first)
  <2>2. ASSUME NEW k \in 0 .. m PROVE x[k] = new(k)
    <3>1. CASE k < m
      <4>1. k \in 0 .. m - 1 /\ (k # 0 => k - 1 \in 0 .. m /\ k - 1 < m)
        BY <3>1
      <4>2. x[k] = w[k] /\ (k # 0 => x[k - 1] = w[k - 1])
        BY <3>1, <4>1, Zenon
      <4>3. w[k] = IF k = 0 THEN l ELSE deleteNode(w[k - 1], w[k - 1].first)
        BY <2>1, <4>1, Zenon DEF Turns
      <4> HIDE DEF x
      <4> QED
        BY <4>2, <4>3, Zenon
    <3>2. CASE k = m
      <4>1. m # 0 /\ m - 1 \in 0 .. m /\ m - 1 < m /\ ~(m < m)
        OBVIOUS
      <4>2. x[m] = deleteNode(w[m - 1], w[m - 1].first) /\ x[m - 1] = w[m - 1]
        BY <3>2, <4>1, Zenon
      <4> HIDE DEF x
      <4> QED
        BY <3>2, <4>1, <4>2, Zenon
    <3> QED
      BY <3>1, <3>2
  <2>3. DOMAIN x = 0 .. m /\ x = [k \in 0 .. m |-> x[k]]
    BY Zenon
  <2> HIDE DEF x
  <2>4. x = Turns(l, x, m)
    BY <2>2, <2>3, Zenon DEF Turns
  <2>5. m \in 0 .. n
    OBVIOUS
  <2> QED
    BY <2>4, <2>5, Zenon
<1>3. n \in S
  <2>1. n \in 0 .. n
    OBVIOUS
  <2> HIDE DEF S
  <2> QED
    BY <1>1, <1>2, <2>1, StepByStep, Zenon
<1>4. \E w : w = Turns(l, w, n)
  BY <1>3, Zenon
<1> QED
  BY <1>4, Zenon DEF Looped

\* After n turns of RemoveUntil's loop the first n elements are gone, and the
\* pointers still lead through the others.
LEMMA LoopedChain ==
    ASSUME NEW l, NEW s, Chain(l, s), NEW n \in 0 .. Len(s)
    PROVE  /\ Chain(Looped(l, n)[n], Dropped(s, n))
           /\ Values(Looped(l, n)[n], Dropped(s, n)) = Dropped(Values(l, s), n)
<1> DEFINE w == Looped(l, n)
           q == Values(l, s)
           S == {k \in 0 .. n : /\ Chain(w[k], Dropped(s, k))
                                /\ Values(w[k], Dropped(s, k)) = Dropped(q, k)}
<1>0. l \in Lists /\ s \in Seq(Node) /\ Len(s) \in Nat /\ n \in Nat /\ 0 \in 0 .. n /\ n \in 0 .. n
  BY ChainLinked, LenProperties
<1>1. w = Turns(l, w, n)
  BY <1>0, LoopedExists, Zenon
<1>2. q \in Seq(Datum) /\ Len(q) = Len(s)
  BY <1>0, ValuesSeq, Zenon
<1> HIDE DEF w
<1>3. 0 \in S
  <2>1. w[0] = l
    BY <1>0, <1>1, Zenon DEF Turns
  <2>2. Dropped(s, 0) = s /\ Dropped(q, 0) = q
    BY <1>0, <1>2, DroppedIs, Zenon
  <2> QED
    BY <1>0, <2>1, <2>2, Zenon
<1>4. ASSUME NEW k \in 1 .. n, k - 1 \in S PROVE k \in S
  <2> DEFINE m == w[k - 1]
             t == Dropped(s, k - 1)
  <2>1. k \in 0 .. n /\ k # 0 /\ k - 1 \in 0 .. Len(s) /\ k - 1 \in 0 .. Len(s) - 1 /\ k - 1 + 1 = k
    BY <1>0
  <2>2. w[k] = deleteNode(m, m.first)
    BY <1>1, <2>1, Zenon DEF Turns
  <2>3. Chain(m, t) /\ Values(m, t) = Dropped(q, k - 1)
    BY <1>4, Zenon
  <2>4. t \in Seq(Node) /\ Len(t) = Len(s) - (k - 1)
    BY <1>0, <2>1, DroppedSeq, Zenon
  <2> HIDE DEF m, t
  <2>5. 1 \in 1 .. Len(t)
    BY <1>0, <2>4
  <2>6. m.first = t[1]
    BY <2>3, <2>5, Zenon DEF Chain, At
  <2>7. Chain(w[k], RemovedAt(t, 1)) /\ w[k].data = [m.data EXCEPT ![t[1]] = nil]
    <3>1. LET d == deleteNode(m, t[1]) IN
          Chain(d, RemovedAt(t, 1)) /\ d.data = [m.data EXCEPT ![t[1]] = nil]
      BY <2>3, <2>5, DeleteKeeps, Zenon
    <3>2. w[k] = deleteNode(m, t[1])
      BY <2>2, <2>6, Zenon
    <3> QED
      BY <3>1, <3>2, Zenon
  <2>8. w[k] \in Lists
    BY <2>7, ChainLinked, Zenon
  <2>9. Values(w[k], RemovedAt(t, 1)) = RemovedAt(Dropped(q, k - 1), 1)
    <3> DEFINE d == w[k]
    <3>1. Chain(m, t) /\ d \in Lists /\ d.data = [m.data EXCEPT ![t[1]] = nil]
      BY <2>3, <2>7, <2>8, Zenon
    <3> HIDE DEF q, d
    <3>2. Values(d, RemovedAt(t, 1)) = RemovedAt(Values(m, t), 1)
      BY <2>5, <3>1, RemovedValues
    <3> QED
      BY <2>3, <3>2, Zenon DEF d
  <2>10. RemovedAt(t, 1) = Dropped(s, k)
    <3>1. RemovedAt(Dropped(s, k - 1), 1) = Dropped(s, k - 1 + 1)
      BY <1>0, <2>1, DroppedIs, Zenon
    <3> QED
      BY <2>1, <3>1, Zenon DEF t
  <2>11. RemovedAt(Dropped(q, k - 1), 1) = Dropped(q, k)
    <3>1. RemovedAt(Dropped(q, k - 1), 1) = Dropped(q, k - 1 + 1)
      BY <1>2, <2>1, DroppedIs, Zenon
    <3> QED
      BY <2>1, <3>1, Zenon
  <2> QED
    BY <2>1, <2>7, <2>9, <2>10, <2>11, Zenon
<1>5. n \in S
  <2> HIDE DEF S
  <2> QED
    BY <1>0, <1>3, <1>4, StepByStep, Zenon
<1> QED
  BY <1>5, Zenon DEF w

-------------------------------------------------------------------------------
(* The methods, one by one *)

Kept == before' \in [Inserter -> {Idle} \cup Calls]

\* The invariant after a step.
After == Chain(list', Forward') /\ Kept

\* A method other than AddBefore leaves the calls of AddBefore alone.
LEMMA BeforeKept ==
    ASSUME ListInv, UNCHANGED before
    PROVE  Kept
  BY Zenon DEF ListInv, Kept

\* AddLast (and Add) appends a value.
LEMMA AddLastStep ==
    ASSUME ListInv, NEW n \in Free, NEW v \in Value, AddLast(n, v)
    PROVE  After /\ Sequence!AddLast
<1> DEFINE p == Len(Forward) + 1
<1>1. Len(Forward) \in Nat /\ p \in 1 .. Len(Forward) + 1 /\ p - 1 = Len(Forward) /\ p \notin 1 .. Len(Forward)
  BY InvFacts
<1>2. list.last = At(Forward, p - 1) /\ nil = At(Forward, p)
  BY <1>1, Zenon DEF ListInv, Chain, At
<1>3. list' = Insert(list, n, v, list.last, nil) /\ res' = <<"AddLast", v>> /\ UNCHANGED before
  BY Zenon DEF AddLast, Returns
<1>4. list' = Insert(list, n, v, At(Forward, p - 1), At(Forward, p))
  <2> HIDE DEF p
  <2> QED
    BY <1>2, <1>3, Zenon
<1>5. Chain(list', Forward') /\ Elements' = InsertedAt(Elements, p, v)
  <2> HIDE DEF p
  <2> QED
    BY <1>1, <1>4, InsertStep, Zenon
<1>6. Elements' = Append(Elements, v)
  <2>1. Elements \in Seq(Datum) /\ Len(Elements) = Len(Forward) /\ v \in Datum
    BY InvFacts, Zenon DEF Datum
  <2> QED
    BY <1>5, <2>1, EndsInserted, Zenon
<1>7. res'[1] = "AddLast" /\ res'[2] = v
  BY <1>3, Zenon
<1> QED
  BY <1>3, <1>5, <1>6, <1>7, BeforeKept, Zenon DEF After, Sequence!AddLast, Sequence!Ends, Sequence!Returns

\* AddFirst puts a value in front.
LEMMA AddFirstStep ==
    ASSUME ListInv, NEW n \in Free, NEW v \in Value, AddFirst(n, v)
    PROVE  After /\ Sequence!AddFirst
<1>1. Len(Forward) \in Nat /\ 1 \in 1 .. Len(Forward) + 1 /\ 1 - 1 \notin 1 .. Len(Forward)
  BY InvFacts
<1>2. list.first = At(Forward, 1) /\ nil = At(Forward, 1 - 1)
  BY <1>1, Zenon DEF ListInv, Chain, At
<1>3. list' = Insert(list, n, v, nil, list.first) /\ res' = <<"AddFirst", v>> /\ UNCHANGED before
  BY Zenon DEF AddFirst, Returns
<1>4. list' = Insert(list, n, v, At(Forward, 1 - 1), At(Forward, 1))
  BY <1>2, <1>3, Zenon
<1>5. Chain(list', Forward') /\ Elements' = InsertedAt(Elements, 1, v)
  BY <1>1, <1>4, InsertStep, Zenon
<1>6. Elements' = <<v>> \o Elements
  <2>1. Elements \in Seq(Datum) /\ v \in Datum
    BY InvFacts, Zenon DEF Datum
  <2> QED
    BY <1>5, <2>1, EndsInserted, Zenon
<1>7. res'[1] = "AddFirst" /\ res'[2] = v
  BY <1>3, Zenon
<1> QED
  BY <1>3, <1>5, <1>6, <1>7, BeforeKept, Zenon DEF After, Sequence!AddFirst, Sequence!Ends, Sequence!Returns

\* A refused call, for a reason that holds.
LEMMA RefuseStep ==
    ASSUME ListInv, NEW why, NEW arg, Refused(why, arg), UNCHANGED before,
           \/ why = "index" /\ arg >= Len(Elements)
           \/ why = "data" /\ \A i \in DOMAIN Elements : Elements[i] # arg
           \/ why = "end" /\ Elements = <<>>
           \/ why = "AddBefore" /\ (arg > Len(Elements) \/ Elements = <<>>)
    PROVE  After /\ Sequence!Refuse
<1>1. UNCHANGED list /\ res' = <<"refused", <<why, arg>>>>
  BY Zenon DEF Refused, Returns
<1>2. Chain(list', Forward') /\ Elements' = Elements
  BY <1>1, SameList, Zenon
<1>3. res'[1] = "refused" /\ res'[2] = <<why, arg>> /\ res'[2][1] = why /\ res'[2][2] = arg
  BY <1>1, Zenon
<1> QED
  BY <1>2, <1>3, BeforeKept, Zenon DEF After, Sequence!Refuse, Sequence!Ends

\* Remove takes the element at its index out and returns it, or refuses the index.
LEMMA RemoveStep ==
    ASSUME ListInv, NEW i \in 0 .. N, Remove(i)
    PROVE  After /\ (Sequence!Remove \/ Sequence!Refuse)
<1>0. /\ list.size = Len(Forward) /\ Len(Forward) \in Nat /\ Len(Elements) = Len(Forward) /\ i \in Nat
      /\ Chain(list, Forward) /\ Elements \in Seq(Datum)
  BY InvFacts DEF ListInv
<1>1. CASE i >= list.size
  <2>1. Refused("index", i) /\ UNCHANGED before
    BY <1>1, Zenon DEF Remove
  <2>2. i >= Len(Elements)
    BY <1>0, <1>1, Zenon
  <2> QED
    BY <2>1, <2>2, RefuseStep, Zenon
<1>2. CASE ~(i >= list.size)
  <2>1. i < Len(Forward) /\ i + 1 \in 1 .. Len(Forward) /\ i \in 0 .. Len(Elements) - 1
    BY <1>0, <1>2
  <2>2. getNode(list, i) = Forward[i + 1]
    BY <1>0, <2>1, NodeAt, Zenon
  <2>3. /\ list' = deleteNode(list, Forward[i + 1]) /\ UNCHANGED before
        /\ res' = <<"Remove", [index |-> i, data |-> list.data[Forward[i + 1]]]>>
    BY <1>2, <2>2, Zenon DEF Remove, Returns
  <2>4. Chain(list', Forward') /\ Elements' = RemovedAt(Elements, i + 1)
    BY <2>1, <2>3, DeleteStep, Zenon
  <2>5. Elements[i + 1] = list.data[Forward[i + 1]]
    BY <2>1, InvFacts, Zenon
  <2>6. res'[1] = "Remove" /\ res'[2] = [index |-> i, data |-> Elements[i + 1]]
    BY <2>3, <2>5, Zenon
  <2>7. Elements' = Sequence!Without(i + 1)
    BY <1>0, <2>1, <2>4, WithoutIsRemoved, Zenon DEF Sequence!Without
  <2> QED
    BY <2>1, <2>3, <2>4, <2>6, <2>7, BeforeKept, Zenon DEF After, Sequence!Remove, Sequence!Ends, Sequence!Returns
<1> QED
  BY <1>1, <1>2, Zenon

\* RemoveData takes the first element with these data out, if there is one.
LEMMA RemoveDataStep ==
    ASSUME ListInv, NEW v \in Value, RemoveData(v)
    PROVE  After /\ (Sequence!RemoveData \/ Sequence!Refuse)
<1> DEFINE found == {k \in DOMAIN Forward : list.data[Forward[k]] = v}
           k == CHOOSE x \in found : \A j \in found : x <= j
<1>0. /\ Len(Forward) \in Nat /\ Len(Elements) = Len(Forward) /\ Elements \in Seq(Datum)
      /\ DOMAIN Forward = 1 .. Len(Forward) /\ DOMAIN Elements = 1 .. Len(Forward)
      /\ \A i \in 1 .. Len(Forward) : Elements[i] = list.data[Forward[i]]
  BY InvFacts
<1>1. found = {i \in 1 .. Len(Forward) : Elements[i] = v}
  BY <1>0, Zenon
<1>2. CASE found = {}
  <2>1. Refused("data", v) /\ UNCHANGED before
    BY <1>2, Zenon DEF RemoveData
  <2>2. \A i \in DOMAIN Elements : Elements[i] # v
    BY <1>0, <1>1, <1>2, Zenon
  <2> QED
    BY <2>1, <2>2, RefuseStep, Zenon
<1>3. CASE found # {}
  <2>1. list' = deleteNode(list, Forward[k]) /\ res' = <<"RemoveData", v>> /\ UNCHANGED before
    BY <1>3, Zenon DEF RemoveData, Returns
  <2> HIDE DEF found
  <2>2. found \in SUBSET Nat
    BY <1>1
  <2>3. \E x \in found : \A j \in found : x <= j
    BY <1>3, <2>2, Least, Zenon
  <2>4. k \in found /\ \A j \in found : k <= j
    BY <2>3, Zenon
  <2> HIDE DEF k
  <2>5. k \in 1 .. Len(Forward) /\ Elements[k] = v
    BY <1>1, <2>4, Zenon
  <2>6. \A j \in 1 .. k - 1 : Elements[j] # Elements[k]
    <3> SUFFICES ASSUME NEW j \in 1 .. k - 1, Elements[j] = v PROVE FALSE
      BY <2>5, Zenon
    <3>1. j \in 1 .. Len(Forward) /\ ~(k <= j)
      BY <1>0, <2>5
    <3> QED
      BY <1>1, <2>4, <3>1, Zenon
  <2>7. Chain(list', Forward') /\ Elements' = RemovedAt(Elements, k)
    BY <2>1, <2>5, DeleteStep, Zenon
  <2>8. Elements' = Sequence!Without(k)
    BY <1>0, <2>5, <2>7, WithoutIsRemoved, Zenon DEF Sequence!Without
  <2>9. res'[1] = "RemoveData" /\ res'[2] = Elements[k]
    BY <2>1, <2>5, Zenon
  <2> QED
    BY <1>0, <2>1, <2>5, <2>6, <2>7, <2>8, <2>9, BeforeKept, Zenon
       DEF After, Sequence!RemoveData, Sequence!Ends, Sequence!Returns
<1> QED
  BY <1>2, <1>3, Zenon

\* RemoveUntil takes the elements up to its index out, or refuses the index.
LEMMA RemoveUntilStep ==
    ASSUME ListInv, NEW i \in 0 .. N, RemoveUntil(i)
    PROVE  After /\ (Sequence!RemoveUntil \/ Sequence!Refuse)
<1>0. /\ list.size = Len(Forward) /\ Len(Forward) \in Nat /\ Len(Elements) = Len(Forward) /\ i \in Nat
      /\ Chain(list, Forward) /\ Elements \in Seq(Datum) /\ Elements = Values(list, Forward)
  BY InvFacts DEF ListInv
<1>1. CASE i >= list.size
  <2>1. Refused("index", i) /\ UNCHANGED before
    BY <1>1, Zenon DEF RemoveUntil
  <2>2. i >= Len(Elements)
    BY <1>0, <1>1, Zenon
  <2> QED
    BY <2>1, <2>2, RefuseStep, Zenon
<1>2. CASE ~(i >= list.size)
  <2>1. /\ i + 1 \in 0 .. Len(Forward) /\ i + 1 \in 0 .. Len(Elements) /\ i \in 0 .. Len(Elements) - 1
        /\ i + 1 + 1 = i + 2
    BY <1>0, <1>2
  <2>2. list' = Looped(list, i + 1)[i + 1] /\ res' = <<"RemoveUntil", i>> /\ UNCHANGED before
    BY <1>2, Zenon DEF RemoveUntil, Returns, Looped, Turns
  <2>3. /\ Chain(list', Dropped(Forward, i + 1))
        /\ Values(list', Dropped(Forward, i + 1)) = Dropped(Elements, i + 1)
    BY <1>0, <2>1, <2>2, LoopedChain, Zenon
  <2>4. Chain(list', Forward') /\ Elements' = Dropped(Elements, i + 1)
    BY <2>3, NewChain, Zenon
  <2>5. SubSeq(Elements, i + 1 + 1, Len(Elements)) = Dropped(Elements, i + 1)
    BY <1>0, <2>1, DroppedIs, Zenon
  <2>6. Elements' = SubSeq(Elements, i + 2, Len(Elements))
    BY <2>1, <2>4, <2>5, Zenon
  <2>7. res'[1] = "RemoveUntil" /\ res'[2] = i
    BY <2>2, Zenon
  <2> QED
    BY <2>1, <2>2, <2>4, <2>6, <2>7, BeforeKept, Zenon
       DEF After, Sequence!RemoveUntil, Sequence!Ends, Sequence!Returns
<1> QED
  BY <1>1, <1>2, Zenon

\* first and last are nil exactly when the list is empty.
LEMMA EndNodes ==
    ASSUME ListInv
    PROVE  /\ list.first = nil <=> Elements = <<>>
           /\ list.last = nil <=> Elements = <<>>
           /\ Elements # <<>> => /\ list.first = Forward[1] /\ 1 \in 1 .. Len(Forward)
                                 /\ list.last = Forward[Len(Forward)]
                                 /\ Len(Forward) \in 1 .. Len(Forward)
<1>1. /\ Forward \in Seq(Node) /\ Len(Forward) \in Nat /\ Elements \in Seq(Datum)
      /\ Len(Elements) = Len(Forward)
      /\ list.first = At(Forward, 1) /\ list.last = At(Forward, Len(Forward))
  BY InvFacts DEF ListInv, Chain
<1>2. CASE Elements = <<>>
  <2>1. 1 \notin 1 .. Len(Forward) /\ Len(Forward) \notin 1 .. Len(Forward)
    BY <1>1, <1>2
  <2> QED
    BY <1>1, <1>2, <2>1, Zenon DEF At
<1>3. CASE Elements # <<>>
  <2>1. 1 \in 1 .. Len(Forward) /\ Len(Forward) \in 1 .. Len(Forward)
    BY <1>1, <1>3, EmptySeq
  <2>2. Forward[1] # nil /\ Forward[Len(Forward)] # nil
    BY <1>1, <2>1, ElementOfSeq, ListAssumption, Zenon
  <2> QED
    BY <1>1, <1>3, <2>1, <2>2, Zenon DEF At
<1> QED
  BY <1>2, <1>3, Zenon

\* RemoveFirst takes the first element out and returns it, if there is one.
LEMMA RemoveFirstStep ==
    ASSUME ListInv, RemoveFirst
    PROVE  After /\ (Sequence!RemoveFirst \/ Sequence!Refuse)
<1>0. Elements \in Seq(Datum) /\ \A i \in 1 .. Len(Forward) : Elements[i] = list.data[Forward[i]]
  BY InvFacts, Zenon
<1>1. CASE Elements = <<>>
  <2>1. Refused("end", 0) /\ UNCHANGED before
    BY <1>1, EndNodes, Zenon DEF RemoveFirst
  <2> QED
    BY <1>1, <2>1, RefuseStep, Zenon
<1>2. CASE Elements # <<>>
  <2>1. list.first = Forward[1] /\ 1 \in 1 .. Len(Forward) /\ list.first # nil
    BY <1>2, EndNodes, Zenon
  <2>2. /\ list' = deleteNode(list, Forward[1]) /\ UNCHANGED before
        /\ res' = <<"RemoveFirst", list.data[Forward[1]]>>
    BY <2>1, Zenon DEF RemoveFirst, Returns
  <2>3. Chain(list', Forward') /\ Elements' = RemovedAt(Elements, 1)
    BY <2>1, <2>2, DeleteStep, Zenon
  <2>4. Tail(Elements) = RemovedAt(Elements, 1) /\ Head(Elements) = Elements[1]
    BY <1>0, <1>2, TailIsRemoved, Zenon
  <2>5. res'[1] = "RemoveFirst" /\ res'[2] = list.data[Forward[1]]
    BY <2>2, Zenon
  <2>6. res'[2] = Head(Elements) /\ Elements' = Tail(Elements)
    BY <1>0, <2>1, <2>3, <2>4, <2>5, Zenon
  <2> QED
    BY <1>2, <2>2, <2>3, <2>5, <2>6, BeforeKept, Zenon
       DEF After, Sequence!RemoveFirst, Sequence!Ends, Sequence!Returns
<1> QED
  BY <1>1, <1>2, Zenon

\* RemoveLast takes the last element out and returns it, if there is one.
LEMMA RemoveLastStep ==
    ASSUME ListInv, RemoveLast
    PROVE  After /\ (Sequence!RemoveLast \/ Sequence!Refuse)
<1>0. /\ Elements \in Seq(Datum) /\ Len(Elements) = Len(Forward)
      /\ \A i \in 1 .. Len(Forward) : Elements[i] = list.data[Forward[i]]
  BY InvFacts, Zenon
<1>1. CASE Elements = <<>>
  <2>1. Refused("end", 0) /\ UNCHANGED before
    BY <1>1, EndNodes, Zenon DEF RemoveLast
  <2> QED
    BY <1>1, <2>1, RefuseStep, Zenon
<1>2. CASE Elements # <<>>
  <2> DEFINE p == Len(Forward)
  <2>1. list.last = Forward[p] /\ p \in 1 .. Len(Forward) /\ list.last # nil
    BY <1>2, EndNodes, Zenon
  <2>2. /\ list' = deleteNode(list, Forward[p]) /\ UNCHANGED before
        /\ res' = <<"RemoveLast", list.data[Forward[p]]>>
    BY <2>1, Zenon DEF RemoveLast, Returns
  <2>3. Chain(list', Forward') /\ Elements' = RemovedAt(Elements, p)
    BY <2>1, <2>2, DeleteStep, Zenon
  <2>4. Elements' = Sequence!Without(Len(Elements))
    BY <1>0, <2>1, <2>3, WithoutIsRemoved, Zenon DEF Sequence!Without
  <2>5. res'[1] = "RemoveLast" /\ res'[2] = list.data[Forward[p]]
    BY <2>2, Zenon
  <2>6. res'[2] = Elements[Len(Elements)]
    BY <1>0, <2>1, <2>5, Zenon
  <2> QED
    BY <1>2, <2>2, <2>3, <2>4, <2>5, <2>6, BeforeKept, Zenon
       DEF After, Sequence!RemoveLast, Sequence!Ends, Sequence!Returns
<1> QED
  BY <1>1, <1>2, Zenon

\* Clear leaves an empty list.
LEMMA ClearStep ==
    ASSUME ListInv, Clear
    PROVE  After /\ Sequence!Clear
<1>1. list' = NewList /\ res' = <<"Clear", 0>> /\ UNCHANGED before
  BY Zenon DEF Clear, Returns
<1>2. Chain(list', <<>>) /\ Values(list', <<>>) = <<>>
  BY <1>1, EmptyChain, Zenon
<1>3. Chain(list', Forward') /\ Elements' = <<>>
  BY <1>2, NewChain, Zenon
<1>4. res'[1] = "Clear"
  BY <1>1, Zenon
<1> QED
  BY <1>1, <1>3, <1>4, BeforeKept, Zenon DEF After, Sequence!Clear, Sequence!Ends

\* Get returns the element at its index, or refuses the index.
LEMMA GetStep ==
    ASSUME ListInv, NEW i \in 0 .. N, Get(i)
    PROVE  After /\ (Sequence!Get \/ Sequence!Refuse)
<1>0. /\ list.size = Len(Forward) /\ Len(Forward) \in Nat /\ Len(Elements) = Len(Forward) /\ i \in Nat
      /\ Chain(list, Forward)
  BY InvFacts DEF ListInv
<1>1. CASE i >= list.size
  <2>1. Refused("index", i) /\ UNCHANGED before
    BY <1>1, Zenon DEF Get, Refused
  <2>2. i >= Len(Elements)
    BY <1>0, <1>1, Zenon
  <2> QED
    BY <2>1, <2>2, RefuseStep, Zenon
<1>2. CASE ~(i >= list.size)
  <2>1. i < Len(Forward) /\ i + 1 \in 1 .. Len(Forward) /\ i \in 0 .. Len(Elements) - 1
    BY <1>0, <1>2
  <2>2. getNode(list, i) = Forward[i + 1]
    BY <1>0, <2>1, NodeAt, Zenon
  <2>3. /\ UNCHANGED <<list, before>>
        /\ res' = <<"Get", [index |-> i, data |-> list.data[Forward[i + 1]]]>>
    BY <1>2, <2>2, Zenon DEF Get, Returns
  <2>4. Elements[i + 1] = list.data[Forward[i + 1]]
    BY <2>1, InvFacts, Zenon
  <2>5. res'[1] = "Get" /\ res'[2] = [index |-> i, data |-> Elements[i + 1]]
    BY <2>3, <2>4, Zenon
  <2>6. Chain(list', Forward') /\ Elements' = Elements
    BY <2>3, SameList, Zenon
  <2> QED
    BY <2>1, <2>3, <2>5, <2>6, BeforeKept, Zenon
       DEF After, Sequence!Get, Sequence!Ends, Sequence!Returns
<1> QED
  BY <1>1, <1>2, Zenon

\* ReverseLoop visits what Loop visits, from the end.
LEMMA BackwardIs ==
    ASSUME ListInv
    PROVE  Backward = Reversed(Forward)
  BY ChainWalks, Zenon DEF ListInv, Backward

\* Loop, ReverseLoop and Size agree on the elements.
LEMMA LoopStep ==
    ASSUME ListInv, Loop
    PROVE  After /\ Sequence!Loop
<1> DEFINE back == [i \in DOMAIN Backward |-> list.data[Backward[i]]]
<1>1. UNCHANGED <<list, before>> /\ res' = <<"Loop", <<Elements, back, list.size>>>>
  BY Zenon DEF Loop, Returns, Elements
<1>2. /\ Forward \in Seq(Node) /\ Len(Forward) \in Nat /\ list.size = Len(Elements)
      /\ Len(Elements) = Len(Forward) /\ Elements \in Seq(Datum)
      /\ \A i \in 1 .. Len(Forward) : Elements[i] = list.data[Forward[i]]
  BY InvFacts
<1>3. DOMAIN Elements = 1 .. Len(Elements) /\ DOMAIN Backward = 1 .. Len(Forward)
  <2>1. Reversed(Forward) \in Seq(Node) /\ Len(Reversed(Forward)) = Len(Forward)
    BY <1>2, ReversedSeq, Zenon
  <2> QED
    BY <1>2, <2>1, BackwardIs, LenProperties, Zenon
<1>4. ASSUME NEW i \in 1 .. Len(Forward)
      PROVE  list.data[Backward[i]] = Elements[Len(Elements) + 1 - i]
  <2>1. Len(Forward) + 1 - i \in 1 .. Len(Forward)
    BY <1>2
  <2>2. Backward[i] = Forward[Len(Forward) + 1 - i]
    BY <1>2, BackwardIs, ReversedSeq, Zenon
  <2> QED
    BY <1>2, <2>1, <2>2, Zenon
<1>5. back = Sequence!Reversed
  BY <1>2, <1>3, <1>4, Zenon DEF Sequence!Reversed
<1> HIDE DEF back
<1>6. res'[1] = "Loop" /\ res'[2] = <<Elements, Sequence!Reversed, Len(Elements)>>
  BY <1>1, <1>2, <1>5, Zenon
<1>7. Chain(list', Forward') /\ Elements' = Elements
  BY <1>1, SameList, Zenon
<1> QED
  BY <1>1, <1>6, <1>7, BeforeKept, Zenon DEF After, Sequence!Loop, Sequence!Ends, Sequence!Returns

-------------------------------------------------------------------------------
(* AddBefore *)

\* The first comparison of AddBefore changes nothing, and is right to refuse.
LEMMA AddBeforeStep ==
    ASSUME ListInv, NEW p \in Inserter, NEW i \in 0 .. N, NEW v \in Value, AddBefore(p, i, v)
    PROVE  After /\ (Sequence!Refuse \/ UNCHANGED <<Elements, res>>)
<1>1. list.size = Len(Elements)
  BY InvFacts, Zenon
<1>2. CASE i > list.size
  <2>1. Refused("AddBefore", i) /\ UNCHANGED before
    BY <1>2, Zenon DEF AddBefore
  <2>2. i > Len(Elements)
    BY <1>1, <1>2, Zenon
  <2> QED
    BY <2>1, <2>2, RefuseStep, Zenon
<1>3. CASE ~(i > list.size)
  <2> DEFINE c == [at |-> "equal", index |-> i, v |-> v]
  <2>1. before' = [before EXCEPT ![p] = c] /\ UNCHANGED <<list, res>>
    BY <1>3, Zenon DEF AddBefore
  <2>2. c \in Calls
    BY Zenon DEF Calls
  <2> HIDE DEF c
  <2>3. Kept
    BY <2>1, <2>2, Zenon DEF ListInv, Kept
  <2>4. Chain(list', Forward') /\ Elements' = Elements
    BY <2>1, SameList, Zenon
  <2> QED
    BY <2>1, <2>3, <2>4, Zenon DEF After
<1> QED
  BY <1>2, <1>3, Zenon

\* The second comparison of AddBefore changes nothing.
LEMMA EqualStep ==
    ASSUME ListInv, NEW p \in Inserter, Equal(p)
    PROVE  After /\ UNCHANGED <<Elements, res>>
<1> DEFINE a == IF before[p].index = list.size THEN "last" ELSE "before"
           c == [before[p] EXCEPT !.at = a]
<1>1. before' = [before EXCEPT ![p] = c] /\ UNCHANGED <<list, res>> /\ before[p].at = "equal"
  BY Zenon DEF Equal
<1>2. before[p] \in Calls
  BY <1>1 DEF ListInv, Idle
<1>3. a \in {"last", "before"}
  BY Zenon
<1> HIDE DEF a
<1>4. c \in Calls
  BY <1>2, <1>3, Zenon DEF Calls
<1> HIDE DEF c
<1>5. Kept
  BY <1>1, <1>4, Zenon DEF ListInv, Kept
<1>6. Chain(list', Forward') /\ Elements' = Elements
  BY <1>1, SameList, Zenon
<1> QED
  BY <1>1, <1>5, <1>6, Zenon DEF After

\* An insertion that reports where it put the value.
LEMMA PutStep ==
    ASSUME ListInv, NEW n \in Free, NEW v \in Value, NEW i \in Nat, NEW at \in 0 .. Len(Forward),
           list' = Insert(list, n, v, At(Forward, at), At(Forward, at + 1)),
           res' = <<"AddBefore", [index |-> i, at |-> at]>>,
           at = i \/ at = Len(Forward) \/ (at = Len(Forward) - 1 /\ i >= Len(Forward))
    PROVE  Chain(list', Forward') /\ Sequence!AddBefore
<1>0. N \in Nat /\ Len(Forward) \in 0 .. N /\ Len(Elements) = Len(Forward) /\ Elements \in Seq(Datum)
  BY InvFacts, Zenon
<1>1. Len(Forward) \in Nat /\ Len(Elements) = Len(Forward) /\ Elements \in Seq(Datum)
  BY <1>0
<1>2. at + 1 \in 1 .. Len(Forward) + 1 /\ (at + 1) - 1 = at
  BY <1>1
<1>3. Chain(list', Forward') /\ Elements' = InsertedAt(Elements, at + 1, v)
  <2> DEFINE p == at + 1
  <2>1. p \in 1 .. Len(Forward) + 1 /\ list' = Insert(list, n, v, At(Forward, p - 1), At(Forward, p))
    BY <1>2, Zenon
  <2>2. Chain(list', Forward') /\ Elements' = InsertedAt(Elements, p, v)
    <3> HIDE DEF p
    <3> QED
      BY <2>1, InsertStep, Zenon
  <2> QED
    BY <2>2, Zenon
<1>4. v \in Datum /\ at + 1 \in 1 .. Len(Elements) + 1
  BY <1>1, <1>2, Zenon DEF Datum
<1>5. Elements' = Sequence!With(at + 1, v)
  <2> DEFINE p == at + 1
  <2>1. p \in 1 .. Len(Elements) + 1
    BY <1>4, Zenon
  <2> HIDE DEF p
  <2>2. Sequence!With(p, v) = InsertedAt(Elements, p, v)
    BY <1>1, <1>4, <2>1, WithIsInserted, Zenon DEF Sequence!With
  <2> QED
    BY <1>3, <2>2, Zenon DEF p
<1>6. res'[1] = "AddBefore" /\ res'[2].index = i /\ res'[2].at = at
  BY Zenon
<1>7. at \in 0 .. Len(Elements)
  BY <1>1, Zenon
<1>8. at = i \/ at = Len(Elements) \/ (at = Len(Elements) - 1 /\ i >= Len(Elements))
  BY <1>1, Zenon
<1> QED
  BY <1>3, <1>5, <1>6, <1>7, <1>8, Zenon DEF Sequence!AddBefore, Sequence!Ends

\* AddBefore under the lock: the value goes before its index, or, when the size it
\* was compared with is out of date, to the end or before the last element.
LEMMA FinishStep ==
    ASSUME ListInv, NEW p \in Inserter, NEW n \in Free, Finish(p, n)
    PROVE  After /\ (Sequence!AddBefore \/ Sequence!Refuse)
<1> DEFINE c == before[p]
           t == IF c.at = "last" THEN nil ELSE getNode(list, c.index)
           where == IF t = nil THEN list.size
                    ELSE (CHOOSE k \in DOMAIN Forward : Forward[k] = t) - 1
<1>1. /\ c.at \in {"last", "before"} /\ before' = [before EXCEPT ![p] = Idle]
      /\ IF c.at = "before" /\ t = nil THEN Refused("AddBefore", c.index)
         ELSE /\ list' = Insert(list, n, c.v, IF t = nil THEN list.last ELSE list.prev[t], t)
              /\ res' = <<"AddBefore", [index |-> c.index, at |-> where]>>
  BY Zenon DEF Finish, Returns
<1>2. c \in Calls
  BY <1>1 DEF ListInv, Idle
<1>3. c.v \in Value /\ c.index \in 0 .. N
  BY <1>2, Zenon DEF Calls
<1>4. Kept
  BY <1>1, Zenon DEF ListInv, Kept
<1>5. /\ N \in Nat /\ Len(Forward) \in 0 .. N /\ Forward \in Seq(Node) /\ Chain(list, Forward)
      /\ list.size = Len(Forward) /\ DOMAIN Forward = 1 .. Len(Forward)
  BY InvFacts, Zenon DEF ListInv
<1>6. c.index \in Nat /\ Len(Forward) \in Nat
  BY <1>3, <1>5
<1> HIDE DEF c
\* An element of the list, and its place.
<1>7. ASSUME NEW k \in 1 .. Len(Forward), t = Forward[k], c.at = "before",
             k - 1 = c.index \/ (k = Len(Forward) /\ c.index >= Len(Forward))
      PROVE  Chain(list', Forward') /\ Sequence!AddBefore
  <2>1. t # nil
    BY <1>5, <1>7, ElementOfSeq, ListAssumption, Zenon
  <2>2. (CHOOSE j \in DOMAIN Forward : Forward[j] = t) = k
    <3> HIDE DEF t
    <3>1. k \in DOMAIN Forward /\ \A j \in DOMAIN Forward : Forward[j] = t => j = k
      BY <1>5, <1>7, Zenon DEF Chain, Distinct
    <3> QED
      BY <1>7, <3>1, Zenon
  <2>3. where = k - 1
    BY <2>1, <2>2, Zenon
  <2>4. list.prev[t] = At(Forward, k - 1) /\ t = At(Forward, k)
    BY <1>5, <1>7, Zenon DEF Chain, At
  <2> HIDE DEF t, where
  <2> DEFINE a == k - 1
  <2>5. a \in 0 .. Len(Forward) /\ a + 1 = k
    BY <1>6
  <2>6. /\ list' = Insert(list, n, c.v, At(Forward, a), At(Forward, a + 1))
        /\ res' = <<"AddBefore", [index |-> c.index, at |-> a]>>
    BY <1>1, <2>1, <2>3, <2>4, <2>5, Zenon
  <2>7. a = c.index \/ a = Len(Forward) \/ (a = Len(Forward) - 1 /\ c.index >= Len(Forward))
    BY <1>7, Zenon
  <2> HIDE DEF a
  <2> QED
    BY <1>3, <1>6, <2>5, <2>6, <2>7, PutStep, Zenon
<1>8. CASE c.at = "last"
  <2>1. t = nil
    BY <1>8, Zenon
  <2>2. where = Len(Forward)
    BY <1>5, <2>1, Zenon
  <2>3. ~(c.at = "before")
    BY <1>8, Zenon
  <2> HIDE DEF t, where
  <2> DEFINE a == Len(Forward)
  <2>4. a \in 0 .. Len(Forward) /\ a + 1 \notin 1 .. Len(Forward)
    BY <1>6
  <2>5. list.last = At(Forward, a) /\ nil = At(Forward, a + 1)
    BY <1>5, <2>4, Zenon DEF Chain, At
  <2>6. /\ list' = Insert(list, n, c.v, At(Forward, a), At(Forward, a + 1))
        /\ res' = <<"AddBefore", [index |-> c.index, at |-> a]>>
    BY <1>1, <2>1, <2>2, <2>3, <2>5, Zenon
  <2>7. Chain(list', Forward') /\ Sequence!AddBefore
    <3>1. a = Len(Forward)
      BY Zenon
    <3> HIDE DEF a
    <3> QED
      BY <1>3, <1>6, <2>4, <2>6, <3>1, PutStep, Zenon
  <2> QED
    BY <1>4, <2>7, Zenon DEF After
<1>9. CASE c.at = "before"
  <2>1. t = getNode(list, c.index)
    BY <1>9, Zenon
  <2>2. t = IF c.index < Len(Forward) THEN Forward[c.index + 1] ELSE list.last
    <3> DEFINE no == c.index
    <3> HIDE DEF t
    <3> QED
      BY <1>5, <1>6, <2>1, NodeAt, Zenon
  <2> HIDE DEF t, where
  <2>3. CASE c.index < Len(Forward)
    <3> DEFINE k == c.index + 1
    <3>1. k \in 1 .. Len(Forward) /\ k - 1 = c.index
      BY <1>6, <2>3
    <3>2. t = Forward[k]
      BY <2>2, <2>3, Zenon
    <3> HIDE DEF k
    <3>3. Chain(list', Forward') /\ Sequence!AddBefore
      BY <1>7, <1>9, <3>1, <3>2, Zenon
    <3> QED
      BY <1>4, <3>3, Zenon DEF After
  <2>4. CASE ~(c.index < Len(Forward)) /\ Elements # <<>>
    <3> DEFINE k == Len(Forward)
    <3>1. t = Forward[k] /\ k \in 1 .. Len(Forward)
      BY <2>2, <2>4, EndNodes, Zenon
    <3>2. c.index >= Len(Forward) /\ k = Len(Forward)
      BY <1>6, <2>4
    <3> HIDE DEF k
    <3>3. Chain(list', Forward') /\ Sequence!AddBefore
      BY <1>7, <1>9, <3>1, <3>2, Zenon
    <3> QED
      BY <1>4, <3>3, Zenon DEF After
  <2>5. CASE ~(c.index < Len(Forward)) /\ Elements = <<>>
    <3>1. t = nil
      BY <2>2, <2>5, EndNodes, Zenon
    <3>2. UNCHANGED list /\ res' = <<"refused", <<"AddBefore", c.index>>>>
      BY <1>1, <1>9, <3>1, Zenon DEF Refused, Returns
    <3>3. Chain(list', Forward') /\ Elements' = Elements
      BY <3>2, SameList, Zenon
    <3>4. res'[1] = "refused" /\ res'[2] = <<"AddBefore", c.index>> /\ res'[2][1] = "AddBefore"
      BY <3>2, Zenon
    <3> QED
      BY <1>4, <2>5, <3>3, <3>4, Zenon DEF After, Sequence!Refuse, Sequence!Ends
  <2> QED
    BY <2>3, <2>4, <2>5, Zenon
<1> QED
  BY <1>1, <1>8, <1>9, Zenon

-------------------------------------------------------------------------------
(* The theorems *)

\* A new list satisfies the invariant.
LEMMA InitInv ==
    ASSUME NewLinkedList
    PROVE  ListInv /\ Elements = <<>>
<1>1. list = NewList /\ before = [p \in Inserter |-> Idle]
  BY Zenon DEF NewLinkedList
<1>2. Chain(list, <<>>)
  BY <1>1, EmptyChain, Zenon
<1>3. Forward = <<>>
  BY <1>2, ChainWalks, Zenon DEF Forward
<1>4. ListInv
  BY <1>1, <1>2, <1>3, Zenon DEF ListInv
<1>5. Elements = Values(list, <<>>)
  BY <1>3, <1>4, InvFacts, Zenon
<1> QED
  BY <1>1, <1>4, <1>5, EmptyChain, Zenon

\* Every step keeps the invariant and is a step of the sequence, or none.
LEMMA ListStep ==
    ASSUME ListInv, [ListNext]_listVars
    PROVE  ListInv' /\ [Sequence!SeqNext]_<<Elements, res>>
<1> DEFINE Goal == After /\ (Sequence!SeqNext \/ UNCHANGED <<Elements, res>>)
<1>1. ASSUME UNCHANGED listVars PROVE Goal
  <2>1. UNCHANGED <<list, before, res>>
    BY <1>1, Zenon DEF listVars
  <2> QED
    BY <2>1, SameList, BeforeKept, Zenon DEF After
<1>2. ASSUME NEW n \in Free, NEW v \in Value, AddLast(n, v) \/ AddFirst(n, v) PROVE Goal
  BY <1>2, AddLastStep, AddFirstStep, Zenon DEF Sequence!SeqNext
<1>3. ASSUME NEW i \in 0 .. N, Remove(i) \/ RemoveUntil(i) \/ Get(i) PROVE Goal
  BY <1>3, RemoveStep, RemoveUntilStep, GetStep, Zenon DEF Sequence!SeqNext
<1>4. ASSUME NEW v \in Value, RemoveData(v) PROVE Goal
  BY <1>4, RemoveDataStep, Zenon DEF Sequence!SeqNext
<1>5. ASSUME RemoveFirst \/ RemoveLast \/ Clear \/ Loop PROVE Goal
  BY <1>5, RemoveFirstStep, RemoveLastStep, ClearStep, LoopStep, Zenon DEF Sequence!SeqNext
<1>6. ASSUME NEW p \in Inserter, NEW i \in 0 .. N, NEW v \in Value, AddBefore(p, i, v) PROVE Goal
  BY <1>6, AddBeforeStep, Zenon DEF Sequence!SeqNext
<1>7. ASSUME NEW p \in Inserter, Equal(p) PROVE Goal
  BY <1>7, EqualStep, Zenon
<1>8. ASSUME NEW p \in Inserter, NEW n \in Free, Finish(p, n) PROVE Goal
  BY <1>8, FinishStep, Zenon DEF Sequence!SeqNext
<1>9. Goal
  <2> HIDE DEF Goal
  <2> QED
    BY <1>1, <1>2, <1>3, <1>4, <1>5, <1>6, <1>7, <1>8, Zenon DEF ListNext
<1> QED
  BY <1>9, Zenon DEF After, Kept, ListInv

\* ListSound follows from the invariant.
LEMMA InvSound ==
    ASSUME ListInv
    PROVE  ListSound
<1>1. /\ N \in Nat /\ Len(Forward) \in 0 .. N /\ Forward \in Seq(Node) /\ list \in Lists
      /\ list.size = Len(Forward) /\ DOMAIN Forward = 1 .. Len(Forward)
      /\ \A n \in Free : n \in Node /\ ~Inside(Forward, n)
  BY InvFacts, Zenon
<1>2. /\ Len(Backward) = Len(Forward)
      /\ \A i \in 1 .. Len(Forward) : Backward[i] = Forward[Len(Forward) + 1 - i]
  BY <1>1, BackwardIs, ReversedSeq, Zenon
<1>3. ListTypeOK
  <2>1. \A p \in Inserter : before[p].at \in {"idle", "equal", "last", "before"}
    BY DEF ListInv, Calls, Idle
  <2>2. /\ {list.first, list.last} \subseteq Node \cup {nil}
        /\ list.data \in [Node -> Value \cup {nil}]
        /\ {list.prev, list.next} \subseteq [Node -> Node \cup {nil}]
    BY <1>1, Zenon DEF Lists, Address
  <2> QED
    BY <1>1, <2>1, <2>2, Zenon DEF ListTypeOK
<1>4. ASSUME NEW k \in 1 .. Len(Forward)
      PROVE  Forward[k] = Backward[Len(Forward) + 1 - k]
  <2>1. /\ Len(Forward) + 1 - k \in 1 .. Len(Forward)
        /\ Len(Forward) + 1 - (Len(Forward) + 1 - k) = k
    BY <1>1
  <2> DEFINE j == Len(Forward) + 1 - k
  <2>2. j \in 1 .. Len(Forward) /\ Len(Forward) + 1 - j = k
    BY <2>1, Zenon
  <2> HIDE DEF j
  <2>3. Backward[j] = Forward[k]
    BY <1>2, <2>2, Zenon
  <2> QED
    BY <2>3, Zenon DEF j
<1>5. \A n \in Free : list.data[n] = nil /\ list.prev[n] = nil /\ list.next[n] = nil
  BY <1>1, Zenon DEF ListInv, Chain
<1>6. WellFormed
  BY <1>1, <1>2, <1>4, <1>5, Zenon DEF WellFormed
<1> QED
  BY <1>3, <1>6, Zenon DEF ListSound

\* The linked list of src/basic/linkedlist.go is well formed at every moment: its
\* two chains of pointers visit the same nodes, as many as size says, in opposite
\* orders, and a node that was taken out keeps no pointer into the list; whatever
\* other methods do while AddBefore is between its unlocked reads of size and its lock.
THEOREM ListSafe == ListSpec => []ListSound
<1>1. NewLinkedList => ListInv
  BY InitInv, Zenon
<1>2. ListInv /\ [ListNext]_listVars => ListInv'
  BY ListStep, Zenon
<1>3. ListInv => ListSound
  BY InvSound, Zenon
<1> QED
  BY <1>1, <1>2, <1>3, PTL DEF ListSpec

\* The pointers implement a sequence: every method changes the values and answers
\* as the operation of ListSeq does, in particular getNode's walk from the nearer
\* end, RemoveUntil's loop and an AddBefore whose comparison with size is out of date.
THEOREM ListIsSequence == ListSpec => IsSequence
<1>1. NewLinkedList => ListInv /\ Sequence!SeqInit
  BY InitInv, Zenon DEF NewLinkedList, Sequence!SeqInit
<1>2. ListInv /\ [ListNext]_listVars => ListInv' /\ [Sequence!SeqNext]_<<Elements, res>>
  BY ListStep, Zenon
<1> QED
  BY <1>1, <1>2, PTL DEF ListSpec, IsSequence, Sequence!SeqSpec

===============================================================================
