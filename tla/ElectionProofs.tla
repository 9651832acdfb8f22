---------------------------- MODULE ElectionProofs ----------------------------
(***************************************************************************)
(* Safety of the election, for every set of nodes and every bound: type    *)
(* correctness, what one step may do to each part of the state (the terms, *)
(* the fights, the incarnations, the messages and the votes), that every   *)
(* step preserves the inductive invariant VoteInv of ElectionInv, and what *)
(* follows from it.                                                        *)
(***************************************************************************)
EXTENDS ElectionInv, FiniteSetTheorems, TLAPS

-------------------------------------------------------------------------------
(* One lemma per helper of the actions, then one per group of actions *)

USE NodeAssumption, BoundAssumption

\* setTerm on p's node table.
LEMMA LearnType ==
  ASSUME NodeTypeOK, NEW p \in Node, NEW S, NEW t \in Term
  PROVE  Learn(p, S, t) \in [Node -> [Node -> Term]]
  BY DEF NodeTypeOK, Learn, Raise

\* go fightElection().
LEMMA SpawnedType ==
  ASSUME FightTypeOK, NEW p \in Node
  PROVE  Spawned(p) \in [Node -> Nat]
  BY DEF FightTypeOK, Spawned

\* A jump inside fightElection.
LEMMA GotoType ==
  ASSUME FightTypeOK, NEW p \in Node, NEW l \in Pc, Goto(p, l)
  PROVE  FightTypeOK'
  BY Zenon DEF FightTypeOK, Goto

\* A return from fightElection.
LEMMA ReturnType ==
  ASSUME FightTypeOK, NEW p \in Node, NEW b \in BOOLEAN, Return(p, b)
  PROVE  FightTypeOK'
  <1>1. sleeping' \in [Node -> Nat]
    BY SpawnedType, Zenon DEF Return, FightTypeOK
  <1> QED
    BY <1>1 DEF FightTypeOK, Return, Pc, Term

\* The requests of sendAndWait and of the leader's heartbeat.
LEMMA ToAllType ==
  ASSUME NetTypeOK, NEW p \in Node, NEW type \in RequestType, NEW k \in Term,
         NEW t \in Term, NEW l \in Node \cup {None}
  PROVE  ToAll(p, type, k, t, l) \subseteq NodeMsg
  <1> SUFFICES ASSUME NEW q \in Hearing(p)
               PROVE  [type |-> type, from |-> p, to |-> q, finc |-> inc[p],
                       tinc |-> conn[p][q], req |-> k, term |-> t, leader |-> l,
                       ok |-> FALSE] \in NodeMsg
    BY Zenon DEF ToAll
  <1>1. q \in Node /\ conn[p][q] \in 1..MaxInc /\ inc[p] \in 1..MaxInc
    BY DEF Hearing, Connected, NetTypeOK
  <1> QED
    BY <1>1, Zenon DEF NodeMsg

\* The answers of the service acceptor.
LEMMA AnsweredType ==
  ASSUME NetTypeOK, NEW m \in msgs, NEW R, R \subseteq NodeMsg
  PROVE  Answered(m, R) \subseteq NodeMsg
  BY Zenon DEF NetTypeOK, Answered

\* A reply is a message.
LEMMA ReplyInNodeMsg ==
  ASSUME NetTypeOK, NEW m \in msgs, NEW type \in ReplyType, NEW r \in Term,
         NEW t \in Term, NEW l \in Node \cup {None}, NEW b \in BOOLEAN
  PROVE  Reply(m, type, r, t, l, b) \in NodeMsg
  BY Zenon DEF NetTypeOK, Reply, NodeMsg

\* The last read of a closed session.
LEMMA LastReadType ==
  ASSUME NetTypeOK, NEW p \in Node, NEW S \in SUBSET Node, LastRead(p, S)
  PROVE  deaf' \subseteq Node \X Node
  <1>1. \A q \in S : <<p, q>> \in Node \X Node
    BY Zenon
  <1> QED
    BY <1>1 DEF LastRead, NetTypeOK

\* sendAndWait up to its loop.
LEMMA SendAndWaitType ==
  ASSUME FightTypeOK, NetTypeOK, NEW p \in Node, NEW type \in RequestType,
         NEW t \in Term, NEW l \in Node \cup {None}, NEW w \in Waiting,
         SendAndWait(p, type, t, l, w)
  PROVE  FightTypeOK' /\ msgs' \subseteq NodeMsg /\ deaf' \subseteq Node \X Node
  <1>1. ToAll(p, type, currentTerm[p], t, l) \subseteq NodeMsg
    BY ToAllType, Zenon DEF FightTypeOK
  <1>2. msgs' \subseteq NodeMsg
    BY <1>1, Zenon DEF SendAndWait, NetTypeOK
  <1>3. FightTypeOK'
    BY Zenon DEF SendAndWait, FightTypeOK, Pc, Connected
  <1>4. deaf' \subseteq Node \X Node
    <2>1. Connected(p) \in SUBSET Node /\ LastRead(p, Connected(p))
      BY Zenon DEF SendAndWait, Connected
    <2> QED
      BY <2>1, LastReadType, Zenon
  <1> QED
    BY <1>2, <1>3, <1>4, Zenon

\* A reply handed to the select loop of sendAndWait.
LEMMA DeliverType ==
  ASSUME FightTypeOK, NEW p \in Node, NEW m \in NodeMsg, Deliver(p, m)
  PROVE  FightTypeOK'
  <1>1. CASE pc[p] \notin Waiting
    BY <1>1, Zenon DEF Deliver, FightTypeOK, fightVars
  <1>2. CASE pc[p] \in Waiting
    <2>1. awaiting' \in [Node -> SUBSET Node]
      BY <1>2 DEF Deliver, FightTypeOK
    <2>2. replies' \in [Node -> SUBSET BOOLEAN]
      BY <1>2 DEF Deliver, FightTypeOK, NodeMsg
    <2>3. \A w \in Waiting : Resume[w] \in Pc
      BY Zenon DEF Resume, Waiting, Pc
    <2>4. pc' \in [Node -> Pc]
      BY <1>2, <2>3, Zenon DEF Deliver, FightTypeOK
    <2> QED
      BY <1>2, <2>1, <2>2, <2>4, Zenon DEF Deliver, FightTypeOK
  <1> QED
    BY <1>1, <1>2, Zenon

\* releaseLeader and an accepting signLeader.
LEMMA ReleaseType ==
  ASSUME RoleTypeOK, NEW p \in Node, releaseLeader(p)
  PROVE  RoleTypeOK'
  BY Zenon DEF RoleTypeOK, releaseLeader, Status

\* signLeader and its outcome.
LEMMA SignedType ==
  ASSUME RoleTypeOK, NEW p \in Node, NEW l, NEW s \in Status, NEW q \in Node,
         Signed(p, l, s, q)
  PROVE  RoleTypeOK'
  BY Zenon DEF RoleTypeOK, Signed, Status

\* The trimming of the vote maps.
LEMMA TrimType ==
  ASSUME NodeTypeOK, HistoryTypeOK, NEW p \in Node, trimVotes(p), term' = term,
         counted' = counted, elected' = elected
  PROVE  NodeTypeOK' /\ HistoryTypeOK'
  <1>1. \A T \in SUBSET Term : Oldest(T) \subseteq Term
    BY Zenon DEF Oldest
  <1> QED
    BY <1>1, ZenonT(30) DEF NodeTypeOK, HistoryTypeOK, trimVotes

\* OnSessionClosed for a set of peers.
LEMMA ClosedType ==
  ASSUME TypeOK, NEW p \in Node, NEW S \in SUBSET Node, OnSessionClosed(p, S)
  PROVE  /\ RoleTypeOK'
         /\ sleeping' \in [Node -> Nat]
         /\ conn' \in [Node -> [Node -> 0..MaxInc]]
         /\ faults' \in Nat
  <1>1. Cardinality({q \in S : conn[p][q] = inc[q]}) \in Nat
    BY FS_Subset, FS_CardinalityType, NodeAssumption, Zenon
  <1>2. conn' \in [Node -> [Node -> 0..MaxInc]] /\ faults' \in Nat
    BY <1>1 DEF OnSessionClosed, TypeOK, NetTypeOK
  <1>3. RoleTypeOK' /\ sleeping' \in [Node -> Nat]
    BY ReleaseType, SpawnedType
       DEF OnSessionClosed, TypeOK, toNextTerm, FightTypeOK, RoleTypeOK, roleVars
  <1> QED
    BY <1>2, <1>3, Zenon

\* A vote counted.
LEMMA CountType ==
  ASSUME NodeTypeOK, HistoryTypeOK, NEW p \in Node, NEW i \in 1..MaxInc,
         NEW t \in Term, NEW q \in Node
  PROVE  /\ [voteCount EXCEPT ![p][t] = @ + 1] \in [Node -> [Term -> Nat]]
         /\ [counted EXCEPT ![p][i][t] = @ \cup {q}]
              \in [Node -> [1..MaxInc -> [Term -> SUBSET Node]]]
  <1>1. voteCount[p][t] + 1 \in Nat /\ counted[p][i][t] \cup {q} \in SUBSET Node
    BY DEF NodeTypeOK, HistoryTypeOK
  <1>2. [voteCount[p] EXCEPT ![t] = @ + 1] \in [Term -> Nat]
    BY <1>1, Zenon DEF NodeTypeOK
  <1>3. [counted[p][i] EXCEPT ![t] = @ \cup {q}] \in [Term -> SUBSET Node]
    BY <1>1 DEF HistoryTypeOK
  <1> QED
    BY <1>2, <1>3, Zenon DEF NodeTypeOK, HistoryTypeOK

\* The initial state.
LEMMA InitType == Init => TypeOK
  <1> SUFFICES ASSUME Init PROVE TypeOK
    BY Zenon
  <1>1. NodeTypeOK
    BY DEF Init, NodeTypeOK, Term
  <1>2. RoleTypeOK
    BY Zenon DEF Init, RoleTypeOK, Status
  <1>3. FightTypeOK
    BY DEF Init, FightTypeOK, Pc, Term
  <1>4. NetTypeOK
    BY DEF Init, NetTypeOK
  <1>5. HistoryTypeOK
    BY Zenon DEF Init, HistoryTypeOK
  <1> QED
    BY <1>1, <1>2, <1>3, <1>4, <1>5, Zenon DEF TypeOK

\* The steps of fightElection.
LEMMA FightStepType ==
  ASSUME TypeOK, NEW p \in Node, fightElection(p)
  PROVE  TypeOK'
  <1> USE DEF TypeOK
  <1>0. /\ UNCHANGED nodeVars => NodeTypeOK'
        /\ UNCHANGED roleVars => RoleTypeOK'
        /\ UNCHANGED <<conn, msgs, envVars>> => NetTypeOK'
        /\ UNCHANGED history => HistoryTypeOK'
    BY Zenon DEF nodeVars, roleVars, envVars, history, NodeTypeOK, RoleTypeOK, NetTypeOK,
           HistoryTypeOK
  <1>1. CASE FightSkip(p)
    <2>1. sleeping' \in [Node -> Nat]
      BY <1>1 DEF FightSkip, FightTypeOK
    <2>2. FightTypeOK'
      BY <1>1, <2>1, Zenon DEF FightSkip, FightTypeOK
    <2> QED
      BY <1>0, <1>1, <2>2, Zenon DEF FightSkip
  <1>2. CASE FightBegin(p)
    <2>1. sleeping' \in [Node -> Nat]
      BY <1>2 DEF FightBegin, FightTypeOK
    <2>2. currentTerm' \in [Node -> Term]
      BY <1>2 DEF FightBegin, FightTypeOK, NodeTypeOK, Term
    <2>3. FightTypeOK'
      BY <1>2, <2>1, <2>2, Zenon DEF FightBegin, FightTypeOK, Pc
    <2> QED
      BY <1>0, <1>2, <2>3, Zenon DEF FightBegin
  <1>3. CASE FightSetTerm(p)
    <2>1. FightTypeOK'
      BY <1>3, GotoType, ReturnType, Zenon DEF FightSetTerm, Pc
    <2>2. NodeTypeOK'
      <3>1. Learn(p, {p}, currentTerm[p]) \in [Node -> [Node -> Term]]
        BY LearnType, Zenon DEF FightTypeOK
      <3> QED
        BY <1>3, <3>1, Zenon DEF FightSetTerm, NodeTypeOK
    <2> QED
      BY <1>0, <1>3, <2>1, <2>2, Zenon DEF FightSetTerm
  <1>4. CASE FightAskLeader(p)
    <2>0. currentTerm[p] \in Term
      BY Zenon DEF FightTypeOK
    <2>1. FightTypeOK' /\ msgs' \subseteq NodeMsg /\ deaf' \subseteq Node \X Node
      <3>1. CASE Return(p, FALSE) /\ UNCHANGED <<msgs, deaf>>
        BY <3>1, ReturnType, Zenon DEF NetTypeOK
      <3>2. CASE SendAndWait(p, "AskLeader", currentTerm[p], None, "askwait")
        BY <3>2, <2>0, SendAndWaitType, Zenon DEF RequestType, Waiting
      <3> QED
        BY <1>4, <3>1, <3>2, Zenon DEF FightAskLeader
    <2>2. NetTypeOK'
      BY <1>4, <2>1, Zenon DEF FightAskLeader, NetTypeOK, envVars
    <2> QED
      BY <1>0, <1>4, <2>1, <2>2, Zenon DEF FightAskLeader
  <1>5. CASE FightTimeout(p)
    <2>1. \A w \in Waiting : Resume[w] \in Pc
      BY Zenon DEF Resume, Waiting, Pc
    <2>2. FightTypeOK'
      BY <1>5, <2>1, Zenon DEF FightTimeout, FightTypeOK
    <2>3. NetTypeOK'
      BY <1>5 DEF FightTimeout, NetTypeOK
    <2> QED
      BY <1>0, <1>5, <2>2, <2>3, Zenon DEF FightTimeout
  <1>6. CASE FightAsked(p)
    <2>1. FightTypeOK'
      BY <1>6, GotoType, ReturnType, Zenon DEF FightAsked, Pc
    <2> QED
      BY <1>0, <1>6, <2>1, Zenon DEF FightAsked
  <1>7. CASE FightStand(p)
    <2>1. FightTypeOK'
      BY <1>7, GotoType, ReturnType, Zenon DEF FightStand, Pc
    <2>2. RoleTypeOK'
      BY <1>7, Zenon DEF FightStand, RoleTypeOK, Status
    <2> QED
      BY <1>0, <1>7, <2>1, <2>2, Zenon DEF FightStand
  <1>8. CASE FightVote(p)
    <2>1. FightTypeOK'
      BY <1>8, GotoType, ReturnType, Zenon DEF FightVote, Pc
    <2> QED
      BY <1>0, <1>8, <2>1, Zenon DEF FightVote
  <1>9. CASE FightGetVote(p)
    <2>1. FightTypeOK' /\ msgs' \subseteq NodeMsg /\ deaf' \subseteq Node \X Node
      BY <1>9, SendAndWaitType DEF FightGetVote, RequestType, Waiting, NodeTypeOK
    <2>2. NetTypeOK'
      BY <1>9, <2>1, Zenon DEF FightGetVote, NetTypeOK, envVars
    <2> QED
      BY <1>0, <1>9, <2>1, <2>2, Zenon DEF FightGetVote
  <1>10. CASE FightVoted(p)
    <2> DEFINE t == currentTerm[p]
               count == voteCount[p][t] + IF Grants(p, t) THEN 1 ELSE 0
    <2>0. t \in Term /\ inc[p] \in 1..MaxInc
      BY Zenon DEF FightTypeOK, NetTypeOK
    <2>1. FightTypeOK' /\ msgs' \subseteq NodeMsg /\ deaf' \subseteq Node \X Node
      <3>1. CASE Return(p, TRUE) /\ UNCHANGED <<msgs, deaf>>
        BY <3>1, ReturnType, ZenonT(30) DEF NetTypeOK
      <3>2. CASE SendAndWait(p, "BroadcastLeader", t, p, "confwait")
        BY <3>2, <2>0, SendAndWaitType, Zenon DEF RequestType, Waiting
      <3> QED
        BY <1>10, <3>1, <3>2, Zenon DEF FightVoted
    <2>2. NetTypeOK'
      BY <1>10, <2>1, Zenon DEF FightVoted, NetTypeOK, envVars
    <2>3. NodeTypeOK'
      <3>1. count \in Nat
        BY <2>0 DEF NodeTypeOK
      <3>2. voteCount' = [voteCount EXCEPT ![p][t] = count]
        BY <1>10, Zenon DEF FightVoted
      <3>3. voteCount' \in [Node -> [Term -> Nat]]
        BY <2>0, <3>1, <3>2, Zenon DEF NodeTypeOK
      <3>4. voteNode' \in [Node -> [Term -> Node \cup {None}]]
        BY <1>10, <2>0, Zenon DEF FightVoted, NodeTypeOK
      <3> QED
        BY <1>10, <3>3, <3>4, Zenon DEF FightVoted, NodeTypeOK
    <2>4. HistoryTypeOK'
      BY <1>10, <2>0 DEF FightVoted, HistoryTypeOK
    <2> QED
      BY <1>0, <1>10, <2>1, <2>2, <2>3, <2>4, Zenon DEF FightVoted
  <1>11. CASE FightConfirmed(p)
    <2>1. FightTypeOK'
      BY <1>11, ReturnType, Zenon DEF FightConfirmed
    <2>2. RoleTypeOK'
      BY <1>0, <1>11, SignedType, Zenon DEF FightConfirmed, RoleTypeOK
    <2>3. HistoryTypeOK'
      <3>1. currentTerm[p] \in Term
        BY Zenon DEF FightTypeOK
      <3>2. \/ elected' = [elected EXCEPT ![currentTerm[p]] = @ \cup {p}]
            \/ elected' = elected
        BY <1>11, ZenonT(30) DEF FightConfirmed
      <3>3. elected' \in [Term -> SUBSET Node]
        BY <3>1, <3>2 DEF HistoryTypeOK
      <3> QED
        BY <1>11, <3>3, Zenon DEF FightConfirmed, HistoryTypeOK
    <2> QED
      BY <1>0, <1>11, <2>1, <2>2, <2>3, Zenon DEF FightConfirmed
  <1> QED
    BY <1>1, <1>2, <1>3, <1>4, <1>5, <1>6, <1>7, <1>8, <1>9, <1>10, <1>11, Zenon
       DEF fightElection

\* The message handlers.
LEMMA MessageStepType ==
  ASSUME TypeOK, NEW m \in msgs, handleMessage(m)
  PROVE  TypeOK'
  <1> USE DEF TypeOK
  <1> DEFINE p == m.to
  <1>m. /\ m \in NodeMsg /\ p \in Node /\ m.from \in Node /\ m.term \in Term
        /\ m.req \in Term /\ m.leader \in Node \cup {None} /\ 0 \in Term
    BY DEF NetTypeOK, NodeMsg, Term
  <1>0. /\ UNCHANGED nodeVars => NodeTypeOK'
        /\ UNCHANGED roleVars => RoleTypeOK'
        /\ UNCHANGED fightVars => FightTypeOK'
        /\ UNCHANGED <<conn, envVars>> /\ msgs' \subseteq NodeMsg => NetTypeOK'
        /\ UNCHANGED history => HistoryTypeOK'
    BY Zenon DEF nodeVars, roleVars, fightVars, envVars, history, NodeTypeOK, RoleTypeOK,
           FightTypeOK, NetTypeOK, HistoryTypeOK
  <1>r. \A l \in Node \cup {None}, t \in Term, r \in Term, b \in BOOLEAN,
          ty \in ReplyType : Reply(m, ty, r, t, l, b) \in NodeMsg
    BY ReplyInNodeMsg, Zenon
  <1>t. \A ty : Takes(m, ty) => /\ term' \in [Node -> [Node -> Term]]
                                /\ msgs' \subseteq NodeMsg
    BY <1>m, LearnType DEF Takes, NetTypeOK
  <1>d. Deliver(p, m) => FightTypeOK'
    BY <1>m, DeliverType, Zenon
  <1>1. CASE OnAskLeader(m)
    <2>1. \A l \in Node : term[p][l] \in Term
      BY <1>m DEF NodeTypeOK
    <2>2. nodeLeader[p] \in Node \cup {None}
      BY <1>m, Zenon DEF RoleTypeOK
    <2> DEFINE R == IF nodeLeader[p] # None /\ term[p][nodeLeader[p]] >= m.term
                    THEN Reply(m, "RAskLeader", m.req, term[p][nodeLeader[p]],
                               nodeLeader[p], FALSE)
                    ELSE Reply(m, "RAskLeader", m.req, term[p][p], None, FALSE)
    <2>3. R \in NodeMsg
      BY <1>m, <1>r, <2>1, <2>2, ZenonT(30) DEF ReplyType
    <2>4. msgs' = Answered(m, {R})
      BY <1>1, Zenon DEF OnAskLeader
    <2>5. msgs' \subseteq NodeMsg
      BY <2>3, <2>4, AnsweredType, Zenon
    <2> QED
      BY <1>0, <1>1, <2>5, Zenon DEF OnAskLeader
  <1>2. CASE OnGetVote(m)
    <2>1. msgs' \subseteq NodeMsg
      <3>1. Grants(p, m.term) \in BOOLEAN
        BY Zenon DEF Grants
      <3> QED
        BY <1>m, <1>r, <1>2, <3>1, AnsweredType DEF OnGetVote, ReplyType
    <2>2. RoleTypeOK'
      BY <1>0, <1>m, <1>2, ReleaseType, Zenon DEF OnGetVote
    <2>3. NodeTypeOK'
      BY <1>m, <1>2, Zenon DEF OnGetVote, NodeTypeOK
    <2> QED
      BY <1>0, <1>2, <2>1, <2>2, <2>3, Zenon DEF OnGetVote
  <1>3. CASE OnStaleLeader(m)
    <2>1. term[p][p] \in Term
      BY <1>m DEF NodeTypeOK
    <2> DEFINE R == Reply(m, "RLeader", m.req, term[p][p], None, FALSE)
    <2>a. R \in NodeMsg
      BY <1>m, <1>r, <2>1, Zenon DEF ReplyType
    <2>b. msgs' = Answered(m, {R})
      BY <1>3, Zenon DEF OnStaleLeader
    <2>2. msgs' \subseteq NodeMsg
      BY <2>a, <2>b, AnsweredType, ZenonT(30)
    <2> QED
      BY <1>0, <1>3, <2>2, Zenon DEF OnStaleLeader
  <1>4. CASE OnBroadcastLeader(m)
    <2> DEFINE release == m.term > term[p][p] /\ nodeLeader[p] \notin {None, m.leader}
               leader  == IF release THEN None ELSE nodeLeader[p]
               stat    == IF release THEN "Follower" ELSE status[p]
               same    == leader = m.leader /\ term'[p][leader] = m.term
               success == same \/ Accepts(p, term'[p], leader, m.leader)
    <2>1. NodeTypeOK'
      <3>1. Learn(p, {p, m.from, m.leader}, m.term) \in [Node -> [Node -> Term]]
        BY <1>m, LearnType, Zenon
      <3> QED
        BY <1>4, <3>1, ZenonT(30) DEF OnBroadcastLeader, NodeTypeOK
    <2>2. leader \in Node \cup {None} /\ stat \in Status
      BY <1>m, Zenon DEF RoleTypeOK, Status
    <2>3. \/ Signed(p, leader, stat, m.leader)
          \/ /\ nodeLeader' = [nodeLeader EXCEPT ![p] = leader]
             /\ status' = [status EXCEPT ![p] = stat]
      BY <1>4, ZenonT(30) DEF OnBroadcastLeader
    <2>4. RoleTypeOK'
      BY <1>m, <2>2, <2>3, Zenon DEF RoleTypeOK, Signed, Status
    <2>5. success \in BOOLEAN
      BY Zenon DEF Accepts
    <2>6. /\ Reply(m, "Ok", 0, m.term, None, FALSE) \in NodeMsg
          /\ Reply(m, "RLeader", m.req, m.term, None, success) \in NodeMsg
      BY <1>m, <1>r, <2>5, ZenonT(30) DEF ReplyType
    <2>7. msgs' \subseteq NodeMsg
      BY <1>4, <2>6, AnsweredType, ZenonT(30) DEF OnBroadcastLeader
    <2> QED
      BY <1>0, <1>4, <2>1, <2>4, <2>7, Zenon DEF OnBroadcastLeader
  <1>5. CASE OnHigherTerm(m)
    <2>1. RoleTypeOK' /\ msgs' \subseteq NodeMsg
      BY <1>m, <1>5, ReleaseType, ZenonT(30) DEF OnHigherTerm, NetTypeOK
    <2> QED
      BY <1>0, <1>5, <2>1, ZenonT(30) DEF OnHigherTerm
  <1>6. CASE OnRAskLeader(m)
    <2>1. NodeTypeOK' /\ msgs' \subseteq NodeMsg
      BY <1>t, <1>6, ZenonT(30) DEF OnRAskLeader, NodeTypeOK
    <2>2. RoleTypeOK'
      BY <1>0, <1>m, <1>6, SignedType, ZenonT(30) DEF OnRAskLeader, RoleTypeOK
    <2>3. FightTypeOK'
      BY <1>0, <1>d, <1>6, Zenon DEF OnRAskLeader
    <2> QED
      BY <1>0, <1>6, <2>1, <2>2, <2>3, ZenonT(30) DEF OnRAskLeader
  <1>7. CASE OnRGetVote(m)
    <2>0. inc[p] \in 1..MaxInc
      BY <1>m, Zenon DEF NetTypeOK
    <2>a. \/ /\ voteCount' = [voteCount EXCEPT ![p][m.term] = @ + 1]
             /\ counted' = [counted EXCEPT ![p][inc[p]][m.term] = @ \cup {m.from}]
          \/ UNCHANGED <<voteCount, counted>>
      BY <1>7, Zenon DEF OnRGetVote
    <2>c. /\ [voteCount EXCEPT ![p][m.term] = @ + 1] \in [Node -> [Term -> Nat]]
          /\ [counted EXCEPT ![p][inc[p]][m.term] = @ \cup {m.from}]
               \in [Node -> [1..MaxInc -> [Term -> SUBSET Node]]]
      BY <1>m, <2>0, CountType, Zenon
    <2>1. voteCount' \in [Node -> [Term -> Nat]]
      BY <2>a, <2>c, Zenon DEF NodeTypeOK
    <2>b. counted' \in [Node -> [1..MaxInc -> [Term -> SUBSET Node]]]
      BY <2>a, <2>c, Zenon DEF HistoryTypeOK
    <2>2. NodeTypeOK' /\ msgs' \subseteq NodeMsg
      BY <1>t, <1>7, <2>1, Zenon DEF OnRGetVote, NodeTypeOK
    <2>3. HistoryTypeOK'
      BY <1>7, <2>b, Zenon DEF OnRGetVote, HistoryTypeOK
    <2> QED
      BY <1>0, <1>d, <1>7, <2>2, <2>3, Zenon DEF OnRGetVote
  <1>8. CASE OnRLeader(m)
    <2>1. NodeTypeOK' /\ msgs' \subseteq NodeMsg
      BY <1>t, <1>8, Zenon DEF OnRLeader, NodeTypeOK
    <2>2. RoleTypeOK'
      BY <1>0, <1>m, <1>8, ReleaseType, ZenonT(30) DEF OnRLeader
    <2> QED
      BY <1>0, <1>d, <1>8, <2>1, <2>2, Zenon DEF OnRLeader
  <1>9. CASE OnOk(m)
    <2>1. NodeTypeOK' /\ msgs' \subseteq NodeMsg
      BY <1>t, <1>9, Zenon DEF OnOk, NodeTypeOK
    <2> QED
      BY <1>0, <1>9, <2>1, Zenon DEF OnOk
  <1> QED
    BY <1>1, <1>2, <1>3, <1>4, <1>5, <1>6, <1>7, <1>8, <1>9, Zenon DEF handleMessage

\* Heartbeat, connections and life cycle.
LEMMA EnvStepType ==
  ASSUME TypeOK, NEW p \in Node, NEW q \in Node,
         \/ HeartbeatLead(p) \/ HeartbeatFollow(p) \/ Close(p) \/ Restart(p)
         \/ Connect(p, q) \/ Disconnect(p, q)
  PROVE  TypeOK'
  <1> USE DEF TypeOK
  <1>0. /\ UNCHANGED nodeVars => NodeTypeOK'
        /\ UNCHANGED roleVars => RoleTypeOK'
        /\ UNCHANGED fightVars => FightTypeOK'
        /\ UNCHANGED history => HistoryTypeOK'
        /\ /\ UNCHANGED <<pc, currentTerm, awaiting, replies>>
           /\ sleeping' \in [Node -> Nat]
           => FightTypeOK'
        /\ /\ conn' \in [Node -> [Node -> 0..MaxInc]] /\ faults' \in Nat
           /\ UNCHANGED <<inc, closed>> /\ msgs' \subseteq NodeMsg
           /\ deaf' \subseteq Node \X Node
           => NetTypeOK'
    BY ZenonT(30) DEF nodeVars, roleVars, fightVars, history, NodeTypeOK, RoleTypeOK,
           FightTypeOK, NetTypeOK, HistoryTypeOK
  <1>c. \A S \in SUBSET Node : OnSessionClosed(p, S) =>
           /\ RoleTypeOK' /\ sleeping' \in [Node -> Nat]
           /\ conn' \in [Node -> [Node -> 0..MaxInc]] /\ faults' \in Nat
    BY ClosedType, Zenon
  <1>s. UNCHANGED <<conn, faults, roleVars, sleeping>> =>
           /\ RoleTypeOK' /\ sleeping' \in [Node -> Nat]
           /\ conn' \in [Node -> [Node -> 0..MaxInc]] /\ faults' \in Nat
    BY Zenon DEF RoleTypeOK, roleVars, FightTypeOK, NetTypeOK
  <1>n. toNextTerm(p) => RoleTypeOK' /\ sleeping' \in [Node -> Nat]
    BY ReleaseType, SpawnedType, Zenon DEF toNextTerm
  <1>1. CASE HeartbeatLead(p)
    <2>1. PICK T \in SUBSET Connected(p) :
            /\ IF T = {} THEN UNCHANGED <<conn, faults, roleVars, sleeping>>
                         ELSE OnSessionClosed(p, T)
            /\ msgs' = msgs \cup {m \in ToAll(p, "BroadcastLeader", 0, term[p][p], p) :
                                    m.to \notin T}
            /\ LastRead(p, Connected(p) \ T)
      BY <1>1, Zenon DEF HeartbeatLead
    <2>2. T \in SUBSET Node
      BY Zenon DEF Connected
    <2>3. /\ RoleTypeOK' /\ sleeping' \in [Node -> Nat]
          /\ conn' \in [Node -> [Node -> 0..MaxInc]] /\ faults' \in Nat
      BY <1>c, <1>s, <2>1, <2>2, ZenonT(30)
    <2>4. msgs' \subseteq NodeMsg
      <3>1. term[p][p] \in Term /\ 0 \in Term
        BY DEF NodeTypeOK, Term
      <3>2. ToAll(p, "BroadcastLeader", 0, term[p][p], p) \subseteq NodeMsg
        BY <3>1, ToAllType, Zenon DEF RequestType
      <3> QED
        BY <2>1, <3>2, Zenon DEF NetTypeOK
    <2>5. NodeTypeOK' /\ HistoryTypeOK'
      BY <1>1, TrimType, ZenonT(30) DEF HeartbeatLead
    <2>d. deaf' \subseteq Node \X Node
      <3>1. Connected(p) \ T \in SUBSET Node
        BY Zenon DEF Connected
      <3> QED
        BY <2>1, <3>1, LastReadType, ZenonT(30)
    <2>6. FightTypeOK' /\ NetTypeOK'
      BY <1>0, <1>1, <2>3, <2>4, <2>d, ZenonT(30) DEF HeartbeatLead
    <2> QED
      BY <2>3, <2>5, <2>6, Zenon
  <1>2. CASE HeartbeatFollow(p)
    <2>1. /\ RoleTypeOK' /\ sleeping' \in [Node -> Nat]
          /\ conn' \in [Node -> [Node -> 0..MaxInc]] /\ faults' \in Nat
      <3>1. CASE UNCHANGED <<conn, faults, roleVars, sleeping>>
        BY <1>s, <3>1, Zenon
      <3>2. CASE toNextTerm(p) /\ UNCHANGED conn /\ faults' \in {faults, faults + 1}
        BY <1>n, <3>2 DEF NetTypeOK
      <3>3. CASE nodeLeader[p] \in Connected(p) /\ OnSessionClosed(p, {nodeLeader[p]})
        BY <1>c, <3>3, Zenon DEF Connected
      <3> QED
        BY <1>2, <3>1, <3>2, <3>3, ZenonT(30) DEF HeartbeatFollow
    <2>2. NodeTypeOK' /\ HistoryTypeOK'
      BY <1>2, TrimType, ZenonT(30) DEF HeartbeatFollow
    <2>3. FightTypeOK' /\ NetTypeOK'
      BY <1>0, <1>2, <2>1, ZenonT(30) DEF HeartbeatFollow, NetTypeOK
    <2> QED
      BY <2>1, <2>2, <2>3, Zenon
  <1>3. CASE Close(p)
    <2>1. RoleTypeOK'
      BY <1>3, Zenon DEF Close, RoleTypeOK, Status
    <2>2. NetTypeOK'
      BY <1>3 DEF Close, NetTypeOK
    <2> QED
      BY <1>0, <1>3, <2>1, <2>2, Zenon DEF Close
  <1>4. CASE Restart(p)
    <2>d. 0 \in Term
      BY SMTT(30) DEF Term
    <2>e. term' \in [Node -> [Node -> Term]]
      BY <1>4, <2>d, ZenonT(30) DEF Restart, NodeTypeOK
    <2>f. voteNode' \in [Node -> [Term -> Node \cup {None}]]
      BY <1>4, ZenonT(30) DEF Restart, NodeTypeOK
    <2>g. voteCount' \in [Node -> [Term -> Nat]]
      BY <1>4, ZenonT(30) DEF Restart, NodeTypeOK
    <2>1. NodeTypeOK'
      BY <2>e, <2>f, <2>g, Zenon DEF NodeTypeOK
    <2>2. RoleTypeOK'
      BY <1>4, ZenonT(30) DEF Restart, RoleTypeOK, Status
    <2>3. sleeping' \in [Node -> Nat]
      BY <1>4, ZenonT(30) DEF Restart, FightTypeOK
    <2>4. FightTypeOK'
      BY <1>4, <2>3 DEF Restart, FightTypeOK, Pc, Term
    <2>a. inc[p] + 1 \in 1..MaxInc
      BY <1>4 DEF Restart, NetTypeOK
    <2>b. inc' = [inc EXCEPT ![p] = inc[p] + 1]
      BY <1>4, Zenon DEF Restart
    <2>c. inc' \in [Node -> 1..MaxInc]
      BY <2>a, <2>b, Zenon DEF NetTypeOK
    <2>5. conn' \in [Node -> [Node -> 0..MaxInc]]
      BY <1>4 DEF Restart, NetTypeOK
    <2>6. NetTypeOK'
      BY <1>4, <2>c, <2>5, Zenon DEF Restart, NetTypeOK
    <2>7. HistoryTypeOK'
      BY <1>4, Zenon DEF Restart, HistoryTypeOK
    <2> QED
      BY <2>1, <2>2, <2>4, <2>6, <2>7, Zenon
  <1>5. CASE Connect(p, q)
    <2>1. conn' \in [Node -> [Node -> 0..MaxInc]]
      BY <1>5 DEF Connect, NetTypeOK
    <2>2. NetTypeOK'
      BY <1>5, <2>1, Zenon DEF Connect, NetTypeOK, envVars
    <2> QED
      BY <1>0, <1>5, <2>2, Zenon DEF Connect
  <1>6. CASE Disconnect(p, q)
    <2>1. /\ RoleTypeOK' /\ sleeping' \in [Node -> Nat]
          /\ conn' \in [Node -> [Node -> 0..MaxInc]] /\ faults' \in Nat
      BY <1>c, <1>6, ZenonT(30) DEF Disconnect
    <2>2. FightTypeOK' /\ NetTypeOK'
      BY <1>0, <1>6, <2>1, Zenon DEF Disconnect, NetTypeOK
    <2> QED
      BY <1>0, <1>6, <2>1, <2>2, ZenonT(30) DEF Disconnect
  <1> QED
    BY <1>1, <1>2, <1>3, <1>4, <1>5, <1>6, Zenon

\* A step that changes nothing.
LEMMA StutterType == TypeOK /\ UNCHANGED vars => TypeOK'
  <1> SUFFICES ASSUME TypeOK, UNCHANGED vars PROVE TypeOK'
    BY Zenon
  <1>1. /\ UNCHANGED nodeVars /\ UNCHANGED roleVars /\ UNCHANGED fightVars
        /\ UNCHANGED <<conn, msgs, envVars>> /\ UNCHANGED history
    BY Zenon DEF vars
  <1>2. NodeTypeOK' /\ RoleTypeOK'
    BY <1>1, Zenon DEF nodeVars, roleVars, TypeOK, NodeTypeOK, RoleTypeOK
  <1>3. FightTypeOK' /\ HistoryTypeOK'
    BY <1>1, Zenon DEF fightVars, history, TypeOK, FightTypeOK, HistoryTypeOK
  <1>4. NetTypeOK'
    BY <1>1, Zenon DEF envVars, TypeOK, NetTypeOK
  <1> QED
    BY <1>2, <1>3, <1>4, Zenon DEF TypeOK

\* Every step keeps the types.
LEMMA NextType == TypeOK /\ [Next]_vars => TypeOK'
  <1>1. TypeOK /\ Next => TypeOK'
    BY FightStepType, MessageStepType, EnvStepType, Zenon DEF Next
  <1> QED
    BY <1>1, StutterType, Zenon

\* Type correctness of the election: terms, votes, roles and messages of contact.go
\* stay in their ranges, for any number of nodes, terms, restarts and faults.
THEOREM TypeCorrect == Spec => []TypeOK
  BY InitType, NextType, PTL DEF Spec

-------------------------------------------------------------------------------
(* What a step does to each part of the state *)

\* The steps that change a node's term table.
LEMMA TermFrame ==
  ASSUME Next
  PROVE  \/ UNCHANGED term
         \/ \E p \in Node : FightSetTerm(p) \/ Restart(p)
         \/ \E m \in msgs : OnBroadcastLeader(m) \/ Takes(m, m.type)
  <1>1. ASSUME NEW p \in Node, fightElection(p)
        PROVE  UNCHANGED term \/ FightSetTerm(p)
    <2>1. CASE FightSkip(p) \/ FightBegin(p) \/ FightAskLeader(p) \/ FightTimeout(p)
               \/ FightAsked(p)
      BY <2>1, Zenon DEF FightSkip, FightBegin, FightAskLeader, FightTimeout, FightAsked, nodeVars
    <2>2. CASE FightStand(p) \/ FightVote(p) \/ FightGetVote(p) \/ FightVoted(p)
               \/ FightConfirmed(p)
      BY <2>2, ZenonT(30) DEF FightStand, FightVote, FightGetVote, FightVoted, FightConfirmed, nodeVars
    <2> QED
      BY <1>1, <2>1, <2>2, Zenon DEF fightElection
  <1>2. ASSUME NEW m \in msgs, handleMessage(m)
        PROVE  UNCHANGED term \/ OnBroadcastLeader(m) \/ Takes(m, m.type)
    <2>1. CASE OnAskLeader(m) \/ OnGetVote(m) \/ OnStaleLeader(m) \/ OnHigherTerm(m)
      BY <2>1, Zenon DEF OnAskLeader, OnGetVote, OnStaleLeader, OnHigherTerm, nodeVars
    <2>2. CASE OnRAskLeader(m) \/ OnRGetVote(m) \/ OnRLeader(m) \/ OnOk(m)
      BY <2>2, Zenon DEF OnRAskLeader, OnRGetVote, OnRLeader, OnOk, Takes, Arrives
    <2> QED
      BY <1>2, <2>1, <2>2, Zenon DEF handleMessage
  <1>3. ASSUME NEW p \in Node, HeartbeatLead(p) \/ HeartbeatFollow(p) \/ Close(p)
        PROVE  UNCHANGED term
    BY <1>3, Zenon DEF HeartbeatLead, HeartbeatFollow, Close, nodeVars
  <1>4. ASSUME NEW p \in Node, NEW q \in Node, Connect(p, q) \/ Disconnect(p, q)
        PROVE  UNCHANGED term
    BY <1>4, Zenon DEF Connect, Disconnect, nodeVars
  <1> QED
    BY <1>1, <1>2, <1>3, <1>4, Zenon DEF Next

\* A node's terms only grow, its own with any other, until it restarts.
LEMMA TermEffect ==
  ASSUME TypeOK, Next, NEW p \in Node
  PROVE  \/ term'[p] = term[p]
         \/ Restart(p)
         \/ \E S \in SUBSET Node, t \in Term :
              /\ p \in S
              /\ term'[p] = [q \in Node |-> IF q \in S THEN Raise(term[p][q], t)
                                            ELSE term[p][q]]
  <1> DEFINE Raised(S, t) == [q \in Node |-> IF q \in S THEN Raise(term[p][q], t)
                                             ELSE term[p][q]]
  <1>0. term \in [Node -> [Node -> Term]]
    BY Zenon DEF TypeOK, NodeTypeOK
  <1>1. ASSUME NEW r \in Node, NEW S, r \in S, NEW t \in Term,
               term' = Learn(r, S, t)
        PROVE  \/ term'[p] = term[p]
               \/ \E T \in SUBSET Node, u \in Term : p \in T /\ term'[p] = Raised(T, u)
    <2>1. CASE p # r
      BY <1>0, <1>1, <2>1, Zenon DEF Learn
    <2>2. CASE p = r
      <3>0. Learn(r, S, t)[p] = Raised(S, t)
        BY <1>0, <2>2, Zenon DEF Learn
      <3>1. term'[p] = Raised(S, t)
        BY <1>1, <3>0, Zenon
      <3>2. Raised(S, t) = Raised(S \cap Node, t)
        BY Zenon
      <3>3. S \cap Node \in SUBSET Node /\ p \in S \cap Node
        BY <1>1, <2>2, Zenon
      <3> HIDE DEF Raised
      <3> QED
        BY <3>1, <3>2, <3>3, Zenon
    <2> QED
      BY <2>1, <2>2, Zenon
  <1>2. CASE UNCHANGED term
    BY <1>2, Zenon
  <1>3. ASSUME NEW r \in Node, FightSetTerm(r) PROVE \/ UNCHANGED term
                                                     \/ term' = Learn(r, {r}, currentTerm[r])
    BY <1>3, Zenon DEF FightSetTerm
  <1>4. ASSUME NEW r \in Node, Restart(r), r # p PROVE term'[p] = term[p]
    BY <1>0, <1>4, Zenon DEF Restart
  <1>5. ASSUME NEW m \in msgs, OnBroadcastLeader(m) \/ Takes(m, m.type)
        PROVE  term' = Learn(m.to, {m.to, m.from, m.leader}, m.term)
    BY <1>5, Zenon DEF OnBroadcastLeader, Takes
  <1>6. \A m \in msgs : m.to \in Node /\ m.term \in Term
    BY Zenon DEF TypeOK, NetTypeOK, NodeMsg
  <1>7. \A r \in Node : currentTerm[r] \in Term
    BY Zenon DEF TypeOK, FightTypeOK
  <1>8. CASE \E r \in Node : FightSetTerm(r) \/ Restart(r)
    <2>1. PICK r \in Node : FightSetTerm(r) \/ Restart(r)
      BY <1>8, Zenon
    <2>2. CASE FightSetTerm(r)
      BY <1>1, <1>3, <1>7, <2>2, Zenon
    <2>3. CASE Restart(r)
      BY <1>4, <2>3, Zenon
    <2> QED
      BY <2>1, <2>2, <2>3, Zenon
  <1>9. CASE \E m \in msgs : OnBroadcastLeader(m) \/ Takes(m, m.type)
    <2>1. PICK m \in msgs : OnBroadcastLeader(m) \/ Takes(m, m.type)
      BY <1>9, Zenon
    <2> QED
      BY <1>1, <1>5, <1>6, <2>1, Zenon
  <1> QED
    BY <1>2, <1>8, <1>9, TermFrame, Zenon

\* A node's own term falls only when it restarts.
LEMMA TermGrows ==
  ASSUME TypeOK, Next, NEW p \in Node, inc'[p] = inc[p]
  PROVE  term'[p][p] >= term[p][p]
  <1>1. ~Restart(p)
    BY DEF Restart, TypeOK, NetTypeOK
  <1>2. \A q \in Node : term[p][q] \in Nat
    BY DEF TypeOK, NodeTypeOK, Term
  <1>3. CASE term'[p] = term[p]
    BY <1>2, <1>3
  <1>4. CASE \E S \in SUBSET Node, t \in Term :
              /\ p \in S
              /\ term'[p] = [q \in Node |-> IF q \in S THEN Raise(term[p][q], t)
                                            ELSE term[p][q]]
    BY <1>2, <1>4 DEF Raise, Term
  <1> QED
    BY <1>1, <1>3, <1>4, TermEffect, Zenon

\* No peer's term is above the node's own.
LEMMA HighestStep ==
  ASSUME TypeOK, OwnTermIsHighest, Next
  PROVE  OwnTermIsHighest'
  <1> SUFFICES ASSUME NEW p \in Node, NEW q \in Node PROVE term'[p][q] <= term'[p][p]
    BY Zenon DEF OwnTermIsHighest
  <1>1. \A r \in Node : term[p][r] \in Nat
    BY DEF TypeOK, NodeTypeOK, Term
  <1>2. term[p][q] <= term[p][p]
    BY Zenon DEF OwnTermIsHighest
  <1>3. CASE term'[p] = term[p]
    BY <1>2, <1>3, Zenon
  <1>4. CASE Restart(p)
    <2>1. term'[p] = [r \in Node |-> 0]
      BY <1>4, Zenon DEF Restart, TypeOK, NodeTypeOK
    <2> QED
      BY <2>1
  <1>5. CASE \E S \in SUBSET Node, t \in Term :
              /\ p \in S
              /\ term'[p] = [r \in Node |-> IF r \in S THEN Raise(term[p][r], t)
                                            ELSE term[p][r]]
    BY <1>1, <1>2, <1>5 DEF Raise, Term
  <1> QED
    BY <1>3, <1>4, <1>5, TermEffect, Zenon

\* OwnTermIsHighest for every instance: setTerm and the two message handlers
\* (contact.go) raise the node's own term whenever they store a peer's.
THEOREM OwnTermSafe == Spec => []OwnTermIsHighest
  <1>1. Init => OwnTermIsHighest
    BY DEF Init, OwnTermIsHighest
  <1>2. TypeOK /\ OwnTermIsHighest /\ [Next]_vars => OwnTermIsHighest'
    <2>1. OwnTermIsHighest /\ UNCHANGED vars => OwnTermIsHighest'
      BY Zenon DEF OwnTermIsHighest, vars, nodeVars
    <2> QED
      BY <2>1, HighestStep, Zenon
  <1> QED
    BY <1>1, <1>2, TypeCorrect, PTL DEF Spec

-------------------------------------------------------------------------------
(* The fight *)

\* Where the fight of p may go in one step, with its term.
FightMove(p) ==
    \/ pc'[p] = "idle"
    \/ /\ currentTerm'[p] = currentTerm[p]
       /\ \/ pc'[p] = pc[p]
          \/ pc[p] = "setterm" /\ pc'[p] = "ask" /\ currentTerm[p] <= term'[p][p]
          \/ pc[p] = "getvote" /\ pc'[p] = "votewait" /\ FightGetVote(p)
          \/ pc[p] = "voted" /\ pc'[p] = "confwait" /\ FightVoted(p)
          \/ <<pc[p], pc'[p]>> \in {<<"ask", "askwait">>, <<"askwait", "asked">>,
                <<"asked", "stand">>, <<"stand", "vote">>, <<"vote", "getvote">>,
                <<"votewait", "voted">>, <<"confwait", "confirmed">>}
    \/ pc[p] = "idle" /\ pc'[p] = "setterm" /\ currentTerm'[p] = term[p][p] + 1

\* What an answer does to the fight it is for.
LEMMA DeliverMove ==
  ASSUME TypeOK, NEW p \in Node, NEW r \in Node, NEW m, Deliver(r, m)
  PROVE  FightMove(p)
  <1>0. pc \in [Node -> Pc] /\ currentTerm \in [Node -> Term]
    BY Zenon DEF TypeOK, FightTypeOK
  <1>1. CASE UNCHANGED fightVars
    BY <1>1, Zenon DEF FightMove, fightVars
  <1>2. CASE /\ pc[r] \in Waiting /\ pc' \in {pc, [pc EXCEPT ![r] = Resume[@]]}
             /\ UNCHANGED currentTerm
    BY <1>0, <1>2, Zenon DEF FightMove, Resume, Waiting
  <1> QED
    BY <1>1, <1>2, Zenon DEF Deliver

\* What a return does to a fight.
LEMMA ReturnMove ==
  ASSUME TypeOK, NEW p \in Node, NEW r \in Node, NEW b, Return(r, b)
  PROVE  FightMove(p)
  BY Zenon DEF Return, FightMove, TypeOK, FightTypeOK

\* What a jump does to a fight.
LEMMA GotoMove ==
  ASSUME TypeOK, NEW p \in Node, NEW r \in Node, NEW l, Goto(r, l),
         <<pc[r], l>> \in {<<"asked", "stand">>, <<"stand", "vote">>, <<"vote", "getvote">>}
  PROVE  FightMove(p)
  BY Zenon DEF Goto, FightMove, TypeOK, FightTypeOK

\* Every step of fightElection, of a handler or of the environment moves a fight so.
LEMMA FightEffect ==
  ASSUME TypeOK, Next, NEW p \in Node
  PROVE  FightMove(p)
  <1>0. /\ pc \in [Node -> Pc] /\ currentTerm \in [Node -> Term]
        /\ term \in [Node -> [Node -> Term]]
    BY Zenon DEF TypeOK, FightTypeOK, NodeTypeOK
  <1>1. UNCHANGED <<pc, currentTerm>> => FightMove(p)
    BY Zenon DEF FightMove
  <1>2. ASSUME NEW r \in Node, fightElection(r) PROVE FightMove(p)
    <2>1. CASE FightSkip(r)
      BY <1>1, <2>1, Zenon DEF FightSkip
    <2>2. CASE FightBegin(r)
      BY <1>0, <2>2, Zenon DEF FightBegin, FightMove
    <2>3. CASE FightSetTerm(r)
      <3>1. CASE term' = Learn(r, {r}, currentTerm[r]) /\ Goto(r, "ask")
        <4>1. currentTerm[r] <= term'[r][r]
          BY <1>0, <3>1 DEF Learn, Raise, Term
        <4> QED
          BY <1>0, <2>3, <3>1, <4>1, Zenon DEF FightSetTerm, Goto, FightMove
      <3> QED
        BY <2>3, <3>1, ReturnMove, Zenon DEF FightSetTerm
    <2>4. CASE FightAskLeader(r)
      <3>1. CASE SendAndWait(r, "AskLeader", currentTerm[r], None, "askwait")
        BY <1>0, <2>4, <3>1, Zenon DEF FightAskLeader, SendAndWait, FightMove
      <3> QED
        BY <2>4, <3>1, ReturnMove, Zenon DEF FightAskLeader
    <2>5. CASE FightTimeout(r)
      BY <1>0, <2>5, Zenon DEF FightTimeout, FightMove, Waiting, Resume
    <2>6. CASE FightAsked(r)
      BY <2>6, ReturnMove, GotoMove, Zenon DEF FightAsked
    <2>7. CASE FightStand(r)
      BY <2>7, ReturnMove, GotoMove, Zenon DEF FightStand
    <2>8. CASE FightVote(r)
      BY <2>8, ReturnMove, GotoMove, Zenon DEF FightVote
    <2>9. CASE FightGetVote(r)
      <3>1. /\ pc[r] = "getvote" /\ pc' = [pc EXCEPT ![r] = "votewait"]
            /\ UNCHANGED currentTerm
        BY <2>9, Zenon DEF FightGetVote, SendAndWait
      <3> QED
        BY <1>0, <2>9, <3>1, Zenon DEF FightMove
    <2>10. CASE FightVoted(r)
      <3>1. CASE SendAndWait(r, "BroadcastLeader", currentTerm[r], r, "confwait")
        <4>1. /\ pc[r] = "voted" /\ pc' = [pc EXCEPT ![r] = "confwait"]
              /\ UNCHANGED currentTerm
          BY <2>10, <3>1, Zenon DEF FightVoted, SendAndWait
        <4> QED
          BY <1>0, <2>10, <4>1, Zenon DEF FightMove
      <3>2. \/ SendAndWait(r, "BroadcastLeader", currentTerm[r], r, "confwait")
            \/ Return(r, TRUE)
        BY <2>10, Zenon DEF FightVoted
      <3> QED
        BY <3>1, <3>2, ReturnMove, Zenon
    <2>11. CASE FightConfirmed(r)
      BY <2>11, ReturnMove, ZenonT(30) DEF FightConfirmed
    <2> QED
      BY <1>2, <2>1, <2>2, <2>3, <2>4, <2>5, <2>6, <2>7, <2>8, <2>9, <2>10, <2>11, Zenon
         DEF fightElection
  <1>3. ASSUME NEW m \in msgs, handleMessage(m) PROVE FightMove(p)
    <2>1. m.to \in Node
      BY Zenon DEF TypeOK, NetTypeOK, NodeMsg
    <2>2. UNCHANGED fightVars => FightMove(p)
      BY <1>1, Zenon DEF fightVars
    <2>3. CASE OnAskLeader(m) \/ OnGetVote(m) \/ OnStaleLeader(m) \/ OnHigherTerm(m)
               \/ OnBroadcastLeader(m) \/ OnOk(m)
      BY <2>2, <2>3, Zenon DEF OnAskLeader, OnGetVote, OnStaleLeader, OnHigherTerm,
                        OnBroadcastLeader, OnOk
    <2>4. CASE OnRAskLeader(m) \/ OnRGetVote(m) \/ OnRLeader(m)
      BY <2>1, <2>2, <2>4, DeliverMove, Zenon DEF OnRAskLeader, OnRGetVote, OnRLeader
    <2> QED
      BY <1>3, <2>3, <2>4, Zenon DEF handleMessage
  <1>4. ASSUME NEW r \in Node, HeartbeatLead(r) \/ HeartbeatFollow(r) \/ Close(r)
        PROVE  FightMove(p)
    BY <1>1, <1>4, Zenon DEF HeartbeatLead, HeartbeatFollow, Close, fightVars
  <1>5. ASSUME NEW r \in Node, Restart(r) PROVE FightMove(p)
    BY <1>0, <1>5, Zenon DEF Restart, FightMove
  <1>6. ASSUME NEW r \in Node, NEW q \in Node, Connect(r, q) \/ Disconnect(r, q)
        PROVE  FightMove(p)
    BY <1>1, <1>6, Zenon DEF Connect, Disconnect, fightVars
  <1> QED
    BY <1>2, <1>3, <1>4, <1>5, <1>6, Zenon DEF Next

-------------------------------------------------------------------------------
(* Incarnations and messages *)

\* Only a restart changes an incarnation.
LEMMA IncFrame ==
  ASSUME Next
  PROVE  UNCHANGED inc \/ \E p \in Node : Restart(p)
  <1>1. ASSUME NEW p \in Node, fightElection(p) PROVE UNCHANGED inc
    <2>1. CASE FightSkip(p) \/ FightBegin(p) \/ FightAskLeader(p) \/ FightTimeout(p)
               \/ FightAsked(p) \/ FightSetTerm(p)
      BY <2>1, Zenon DEF FightSkip, FightBegin, FightAskLeader, FightTimeout, FightAsked,
                  FightSetTerm, envVars
    <2>2. CASE FightStand(p) \/ FightVote(p) \/ FightGetVote(p) \/ FightVoted(p)
               \/ FightConfirmed(p)
      BY <2>2, ZenonT(30) DEF FightStand, FightVote, FightGetVote, FightVoted, FightConfirmed, envVars
    <2> QED
      BY <1>1, <2>1, <2>2, Zenon DEF fightElection
  <1>2. ASSUME NEW m \in msgs, handleMessage(m) PROVE UNCHANGED inc
    <2>1. CASE OnAskLeader(m) \/ OnGetVote(m) \/ OnStaleLeader(m) \/ OnHigherTerm(m)
               \/ OnBroadcastLeader(m)
      BY <2>1, Zenon DEF OnAskLeader, OnGetVote, OnStaleLeader, OnHigherTerm,
                  OnBroadcastLeader, envVars
    <2>2. CASE OnRAskLeader(m) \/ OnRGetVote(m) \/ OnRLeader(m) \/ OnOk(m)
      BY <2>2, Zenon DEF OnRAskLeader, OnRGetVote, OnRLeader, OnOk, envVars
    <2> QED
      BY <1>2, <2>1, <2>2, Zenon DEF handleMessage
  <1>3. ASSUME NEW p \in Node, HeartbeatLead(p) \/ HeartbeatFollow(p) \/ Close(p)
        PROVE  UNCHANGED inc
    BY <1>3, Zenon DEF HeartbeatLead, HeartbeatFollow, Close
  <1>4. ASSUME NEW p \in Node, NEW q \in Node, Connect(p, q) \/ Disconnect(p, q)
        PROVE  UNCHANGED inc
    BY <1>4, Zenon DEF Connect, Disconnect, envVars
  <1> QED
    BY <1>1, <1>2, <1>3, <1>4, Zenon DEF Next

\* Only its restart begins a new life of a node.
LEMMA IncEffect ==
  ASSUME TypeOK, Next, NEW p \in Node
  PROVE  \/ inc'[p] = inc[p]
         \/ Restart(p) /\ inc'[p] = inc[p] + 1 /\ pc'[p] = "idle"
  <1>1. ASSUME NEW r \in Node, Restart(r), r # p PROVE inc'[p] = inc[p]
    BY <1>1, Zenon DEF Restart, TypeOK, NetTypeOK
  <1>2. ASSUME Restart(p) PROVE inc'[p] = inc[p] + 1 /\ pc'[p] = "idle"
    BY <1>2, Zenon DEF Restart, TypeOK, NetTypeOK, FightTypeOK
  <1> QED
    BY <1>1, <1>2, IncFrame, Zenon

\* No step connects a node to itself.
LEMMA ConnStep ==
  ASSUME TypeOK, Next, NEW p \in Node, conn[p][p] = 0
  PROVE  conn'[p][p] = 0
  <1>0. conn \in [Node -> [Node -> 0..MaxInc]]
    BY Zenon DEF TypeOK, NetTypeOK
  <1>c. ASSUME NEW r \in Node, NEW S, OnSessionClosed(r, S) PROVE conn'[p][p] = 0
    BY <1>0, <1>c, Zenon DEF OnSessionClosed
  <1>1. ASSUME NEW r \in Node, fightElection(r) PROVE UNCHANGED conn
    <2>1. CASE FightSkip(r) \/ FightBegin(r) \/ FightAskLeader(r) \/ FightTimeout(r)
               \/ FightAsked(r) \/ FightSetTerm(r)
      BY <2>1, Zenon DEF FightSkip, FightBegin, FightAskLeader, FightTimeout, FightAsked,
                  FightSetTerm
    <2>2. CASE FightStand(r) \/ FightVote(r) \/ FightGetVote(r) \/ FightVoted(r)
               \/ FightConfirmed(r)
      BY <2>2, ZenonT(30) DEF FightStand, FightVote, FightGetVote, FightVoted, FightConfirmed
    <2> QED
      BY <1>1, <2>1, <2>2, ZenonT(30) DEF fightElection
  <1>2. ASSUME NEW m \in msgs, handleMessage(m) PROVE UNCHANGED conn
    <2>1. CASE OnAskLeader(m) \/ OnGetVote(m) \/ OnStaleLeader(m) \/ OnHigherTerm(m)
               \/ OnBroadcastLeader(m)
      BY <2>1, ZenonT(30) DEF OnAskLeader, OnGetVote, OnStaleLeader, OnHigherTerm, OnBroadcastLeader
    <2>2. CASE OnRAskLeader(m) \/ OnRGetVote(m) \/ OnRLeader(m) \/ OnOk(m)
      BY <2>2, Zenon DEF OnRAskLeader, OnRGetVote, OnRLeader, OnOk
    <2> QED
      BY <1>2, <2>1, <2>2, Zenon DEF handleMessage
  <1>3. ASSUME NEW r \in Node, HeartbeatLead(r) \/ HeartbeatFollow(r)
        PROVE  conn'[p][p] = 0
    <2>1. UNCHANGED conn \/ \E S : OnSessionClosed(r, S)
      BY <1>3, Zenon DEF HeartbeatLead, HeartbeatFollow
    <2> QED
      BY <1>c, <2>1, Zenon
  <1>4. ASSUME NEW r \in Node, Close(r) \/ Restart(r) PROVE conn'[p][p] = 0
    BY <1>0, <1>4 DEF Close, Restart
  <1>5. ASSUME NEW r \in Node, NEW q \in Node, Connect(r, q) PROVE conn'[p][p] = 0
    BY <1>0, <1>5, Zenon DEF Connect
  <1>6. ASSUME NEW r \in Node, NEW q \in Node, Disconnect(r, q) PROVE conn'[p][p] = 0
    BY <1>c, <1>6, Zenon DEF Disconnect
  <1> QED
    BY <1>1, <1>2, <1>3, <1>4, <1>5, <1>6, Zenon DEF Next

\* A message sent in this step is a request of p ...
NewRequest(p, n) ==
    /\ IsRequest(n) /\ n.from = p /\ n.to \in Connected(p) /\ n.finc = inc[p]
    /\ \/ n.type = "AskLeader" /\ n.leader = None
       \/ n.type = "GetVote" /\ n.leader = None /\ n.term = term[p][p] /\ FightGetVote(p)
       \/ /\ n.type = "BroadcastLeader" /\ n.leader = p
          /\ status[p] = "Leader" \/ (FightVoted(p) /\ pc'[p] = "confwait")

\* ... or the answer to m.
NewReply(m, n) ==
    /\ IsRequest(m) /\ IsReply(n)
    /\ n.from = m.to /\ n.to = m.from /\ n.tinc = m.finc
    /\ n.type = "RGetVote" /\ n.ok => n.term = m.term /\ OnGetVote(m) /\ Grants(m.to, m.term)
    /\ n.leader # None => n.leader = nodeLeader[m.to]

\* Every new message is a request of a fight or broadcast, or the reply to a message.
LEMMA MsgEffect ==
  ASSUME TypeOK, Next, NEW n \in msgs', n \notin msgs
  PROVE  /\ UNCHANGED inc
         /\ (\E p \in Node : NewRequest(p, n)) \/ (\E m \in msgs : NewReply(m, n))
  <1>0. /\ pc \in [Node -> Pc]
        /\ \A m \in msgs : m \in NodeMsg
    BY Zenon DEF TypeOK, FightTypeOK, NetTypeOK
  <1>a. ASSUME NEW p, NEW type, NEW r, NEW t, NEW l, n \in ToAll(p, type, r, t, l)
        PROVE  /\ n.type = type /\ n.from = p /\ n.to \in Connected(p)
               /\ n.finc = inc[p] /\ n.term = t /\ n.leader = l
    <2>1. Hearing(p) \subseteq Connected(p)
      BY Zenon DEF Hearing
    <2> QED
      BY <1>a, <2>1 DEF ToAll
  <1>r. ASSUME NEW m, NEW R, msgs' = Answered(m, R) PROVE n \in R
    BY <1>r, Zenon DEF Answered
  <1>i. UNCHANGED inc
    BY IncFrame, Zenon DEF Restart
  <1>1. ASSUME NEW p \in Node, fightElection(p) PROVE NewRequest(p, n)
    <2>1. CASE FightAskLeader(p)
      <3>1. n \in ToAll(p, "AskLeader", currentTerm[p], currentTerm[p], None)
        BY <2>1, ZenonT(30) DEF FightAskLeader, SendAndWait
      <3> QED
        BY <1>a, <3>1, Zenon DEF NewRequest, IsRequest, RequestType
    <2>2. CASE FightGetVote(p)
      <3>1. n \in ToAll(p, "GetVote", currentTerm[p], term[p][p], None)
        BY <2>2, Zenon DEF FightGetVote, SendAndWait
      <3> QED
        BY <1>a, <2>2, <3>1 DEF NewRequest, IsRequest, RequestType
    <2>3. CASE FightVoted(p)
      <3>1. /\ n \in ToAll(p, "BroadcastLeader", currentTerm[p], currentTerm[p], p)
            /\ pc' = [pc EXCEPT ![p] = "confwait"]
        BY <2>3, Zenon DEF FightVoted, SendAndWait
      <3> QED
        BY <1>0, <1>a, <2>3, <3>1, Zenon DEF NewRequest, IsRequest, RequestType
    <2>4. CASE FightSkip(p) \/ FightBegin(p) \/ FightTimeout(p) \/ FightAsked(p)
               \/ FightSetTerm(p)
      BY <2>4, Zenon DEF FightSkip, FightBegin, FightTimeout, FightAsked, FightSetTerm
    <2>5. CASE FightStand(p) \/ FightVote(p) \/ FightConfirmed(p)
      BY <2>5, Zenon DEF FightStand, FightVote, FightConfirmed
    <2> QED
      BY <1>1, <2>1, <2>2, <2>3, <2>4, <2>5, Zenon DEF fightElection
  <1>2. ASSUME NEW m \in msgs, handleMessage(m) PROVE NewReply(m, n)
    <2>1. CASE OnAskLeader(m)
      <3>1. PICK t, l : /\ n = Reply(m, "RAskLeader", m.req, t, l, FALSE)
                        /\ l \in {None, nodeLeader[m.to]}
        BY <1>r, <2>1, ZenonT(30) DEF OnAskLeader
      <3> QED
        BY <2>1, <3>1, Zenon DEF OnAskLeader, Arrives, NewReply, Reply, IsRequest, IsReply,
                          RequestType, ReplyType
    <2>2. CASE OnGetVote(m)
      <3>1. n = Reply(m, "RGetVote", m.req, m.term, None, Grants(m.to, m.term))
        BY <1>r, <2>2, Zenon DEF OnGetVote
      <3>2. m.type = "GetVote"
        BY <2>2, Zenon DEF OnGetVote, Arrives
      <3>3. n.ok = Grants(m.to, m.term)
        BY <3>1, Zenon DEF Reply
      <3> QED
        BY <2>2, <3>1, <3>2, <3>3, Zenon DEF NewReply, Reply, IsRequest, IsReply,
                          RequestType, ReplyType
    <2>3. CASE OnStaleLeader(m)
      <3>1. n = Reply(m, "RLeader", m.req, term[m.to][m.to], None, FALSE)
        BY <1>r, <2>3, ZenonT(30) DEF OnStaleLeader
      <3> QED
        BY <2>3, <3>1, Zenon DEF OnStaleLeader, Arrives, NewReply, Reply, IsRequest, IsReply,
                          RequestType, ReplyType
    <2>4. CASE OnBroadcastLeader(m)
      <3>1. PICK ty, r, b : /\ n = Reply(m, ty, r, m.term, None, b)
                            /\ ty \in {"Ok", "RLeader"}
        BY <1>r, <2>4, ZenonT(30) DEF OnBroadcastLeader
      <3> QED
        BY <2>4, <3>1, Zenon DEF OnBroadcastLeader, Arrives, NewReply, Reply, IsRequest, IsReply,
                          RequestType, ReplyType
    <2>5. CASE OnHigherTerm(m)
      BY <2>5, Zenon DEF OnHigherTerm
    <2>6. CASE OnRAskLeader(m) \/ OnRGetVote(m) \/ OnRLeader(m) \/ OnOk(m)
      BY <2>6, Zenon DEF OnRAskLeader, OnRGetVote, OnRLeader, OnOk, Takes
    <2> QED
      BY <1>2, <2>1, <2>2, <2>3, <2>4, <2>5, <2>6, Zenon DEF handleMessage
  <1>3. ASSUME NEW p \in Node, HeartbeatLead(p) PROVE NewRequest(p, n)
    <2>1. /\ n \in ToAll(p, "BroadcastLeader", 0, term[p][p], p)
          /\ status[p] = "Leader"
      BY <1>3, Zenon DEF HeartbeatLead
    <2>2. /\ n.type = "BroadcastLeader" /\ n.from = p /\ n.to \in Connected(p)
          /\ n.finc = inc[p] /\ n.leader = p
      BY <1>a, <2>1, Zenon
    <2> QED
      BY <2>1, <2>2, Zenon DEF NewRequest, IsRequest, RequestType
  <1>4. ASSUME NEW p \in Node, HeartbeatFollow(p) \/ Close(p) \/ Restart(p)
        PROVE  FALSE
    BY <1>4, Zenon DEF HeartbeatFollow, Close, Restart
  <1>5. ASSUME NEW p \in Node, NEW q \in Node, Connect(p, q) \/ Disconnect(p, q)
        PROVE  FALSE
    BY <1>5, Zenon DEF Connect, Disconnect
  <1> QED
    BY <1>i, <1>1, <1>2, <1>3, <1>4, <1>5, Zenon DEF Next

-------------------------------------------------------------------------------
(* Votes *)

\* The steps that change the recorded votes, the counts or the voters counted.
LEMMA VoteFrame ==
  ASSUME Next
  PROVE  \/ UNCHANGED <<voteNode, voteCount, counted, lost>>
         \/ \E p \in Node : FightVoted(p)
         \/ \E p \in Node : Restart(p)
         \/ \E p \in Node : trimVotes(p) /\ UNCHANGED counted
         \/ \E m \in msgs : OnGetVote(m)
         \/ \E m \in msgs : OnRGetVote(m)
  <1>1. ASSUME NEW p \in Node, fightElection(p)
        PROVE  UNCHANGED <<voteNode, voteCount, counted, lost>> \/ FightVoted(p)
    <2>1. CASE FightSkip(p) \/ FightBegin(p) \/ FightAskLeader(p) \/ FightTimeout(p)
               \/ FightAsked(p) \/ FightSetTerm(p)
      BY <2>1, Zenon DEF FightSkip, FightBegin, FightAskLeader, FightTimeout, FightAsked,
                  FightSetTerm, nodeVars, history
    <2>2. CASE FightStand(p) \/ FightVote(p) \/ FightGetVote(p) \/ FightConfirmed(p)
      BY <2>2, Zenon DEF FightStand, FightVote, FightGetVote, FightConfirmed, nodeVars, history
    <2> QED
      BY <1>1, <2>1, <2>2, Zenon DEF fightElection
  <1>2. ASSUME NEW m \in msgs, handleMessage(m)
        PROVE  \/ UNCHANGED <<voteNode, voteCount, counted, lost>>
               \/ OnGetVote(m) \/ OnRGetVote(m)
    <2>1. CASE OnAskLeader(m) \/ OnStaleLeader(m) \/ OnHigherTerm(m)
               \/ OnBroadcastLeader(m)
      BY <2>1, ZenonT(30) DEF OnAskLeader, OnStaleLeader, OnHigherTerm, OnBroadcastLeader, nodeVars,
                  history
    <2>2. CASE OnRAskLeader(m) \/ OnRLeader(m) \/ OnOk(m)
      BY <2>2, ZenonT(30) DEF OnRAskLeader, OnRLeader, OnOk, history
    <2> QED
      BY <1>2, <2>1, <2>2, Zenon DEF handleMessage
  <1>3. ASSUME NEW p \in Node, HeartbeatLead(p) \/ HeartbeatFollow(p)
        PROVE  trimVotes(p) /\ UNCHANGED counted
    BY <1>3, Zenon DEF HeartbeatLead, HeartbeatFollow
  <1>4. ASSUME NEW p \in Node, Close(p)
        PROVE  UNCHANGED <<voteNode, voteCount, counted, lost>>
    BY <1>4, Zenon DEF Close, nodeVars, history
  <1>5. ASSUME NEW p \in Node, NEW q \in Node, Connect(p, q) \/ Disconnect(p, q)
        PROVE  UNCHANGED <<voteNode, voteCount, counted, lost>>
    BY <1>5, Zenon DEF Connect, Disconnect, nodeVars, history
  <1> QED
    BY <1>1, <1>2, <1>3, <1>4, <1>5, Zenon DEF Next

\* voteToNode writes an entry once; an entry that goes away is lost.
LEMMA VoteEffect ==
  ASSUME TypeOK, Next, NEW q \in Node, NEW t \in Term, t \notin lost'[q]
  PROVE  /\ t \notin lost[q]
         /\ voteNode[q][t] # None => voteNode'[q][t] = voteNode[q][t]
  <1>0. /\ voteNode \in [Node -> [Term -> Node \cup {None}]]
        /\ lost \in [Node -> SUBSET Term]
        /\ \A r \in Node : currentTerm[r] \in Term
    BY Zenon DEF TypeOK, NodeTypeOK, HistoryTypeOK, FightTypeOK
  <1>1. CASE UNCHANGED <<voteNode, voteCount, counted, lost>>
    BY <1>1, Zenon
  <1>2. ASSUME NEW p \in Node, FightVoted(p)
        PROVE  UNCHANGED lost /\ (voteNode[q][t] # None => voteNode'[q][t] = voteNode[q][t])
    <2>1. /\ UNCHANGED lost
          /\ \/ voteNode' = voteNode
             \/ /\ voteNode' = [voteNode EXCEPT ![p][currentTerm[p]] = p]
                /\ voteNode[p][currentTerm[p]] = None
      BY <1>2, Zenon DEF FightVoted, Grants
    <2> QED
      BY <1>0, <2>1
  <1>3. ASSUME NEW p \in Node, Restart(p)
        PROVE  t \notin lost[q] /\ (voteNode[q][t] # None => voteNode'[q][t] = voteNode[q][t])
    BY <1>0, <1>3, Zenon DEF Restart
  <1>4. ASSUME NEW p \in Node, trimVotes(p)
        PROVE  t \notin lost[q] /\ (voteNode[q][t] # None => voteNode'[q][t] = voteNode[q][t])
    <2> DEFINE D == Oldest({u \in Term : voteNode[p][u] # None})
    <2>1. /\ voteNode' = [voteNode EXCEPT ![p] = [u \in Term |-> IF u \in D THEN None
                                                                 ELSE @[u]]]
          /\ lost' = [lost EXCEPT ![p] = @ \cup D]
      BY <1>4, Zenon DEF trimVotes
    <2> HIDE DEF D
    <2> QED
      BY <1>0, <2>1, Zenon
  <1>5. ASSUME NEW m \in msgs, OnGetVote(m)
        PROVE  UNCHANGED lost /\ (voteNode[q][t] # None => voteNode'[q][t] = voteNode[q][t])
    <2>1. /\ UNCHANGED lost
          /\ \/ voteNode' = voteNode
             \/ /\ voteNode' = [voteNode EXCEPT ![m.to][m.term] = m.from]
                /\ voteNode[m.to][m.term] = None
      BY <1>5, Zenon DEF OnGetVote, Grants, history
    <2>2. m.to \in Node /\ m.term \in Term
      BY Zenon DEF TypeOK, NetTypeOK, NodeMsg
    <2> QED
      BY <1>0, <2>1, <2>2
  <1>6. ASSUME NEW m \in msgs, OnRGetVote(m) PROVE UNCHANGED <<lost, voteNode>>
    BY <1>6, Zenon DEF OnRGetVote
  <1> QED
    BY <1>1, <1>2, <1>3, <1>4, <1>5, <1>6, VoteFrame, ZenonT(30)

\* A voter is counted by the vote of a node for itself or by a granted vote.
CountsSelf(p, i, t) ==
    /\ FightVoted(p) /\ i = inc[p] /\ t = currentTerm[p] /\ Grants(p, t)
    /\ counted'[p][i][t] = counted[p][i][t] \cup {p}
CountsVote(m, p, i, t) ==
    /\ OnRGetVote(m) /\ m.ok /\ m.to = p /\ i = inc[p] /\ t = m.term
    /\ counted'[p][i][t] = counted[p][i][t] \cup {m.from}

\* A set of counted voters is finite.
LEMMA VotersFinite ==
  ASSUME NEW f \in [Node -> [1..MaxInc -> [Term -> SUBSET Node]]],
         NEW p \in Node, NEW i \in 1..MaxInc, NEW t \in Term
  PROVE  /\ f[p][i][t] \subseteq Node /\ IsFiniteSet(f[p][i][t])
         /\ Cardinality(f[p][i][t]) \in Nat
  <1>1. f[p] \in [1..MaxInc -> [Term -> SUBSET Node]]
    BY Zenon
  <1>2. f[p][i] \in [Term -> SUBSET Node]
    BY <1>1, Zenon
  <1>3. f[p][i][t] \subseteq Node
    BY <1>2, Zenon
  <1> QED
    BY <1>3, NodeAssumption, FS_Subset, FS_CardinalityType, Zenon


-------------------------------------------------------------------------------
(* What a step does to the votes a candidate has counted *)

\* Counting one vote changes one entry of the table of counted votes.
LEMMA CountedExcept ==
  ASSUME NEW f \in [Node -> [1..MaxInc -> [Term -> SUBSET Node]]],
         NEW r \in Node, NEW j \in 1..MaxInc, NEW u \in Term, NEW q,
         NEW p \in Node, NEW i \in 1..MaxInc, NEW t \in Term
  PROVE  [f EXCEPT ![r][j][u] = @ \cup {q}][p][i][t]
           = IF r = p /\ j = i /\ u = t THEN f[p][i][t] \cup {q} ELSE f[p][i][t]
  <1>1. CASE r # p
    BY <1>1, Zenon
  <1>2. CASE r = p /\ j # i
    BY <1>2, Zenon
  <1>3. CASE r = p /\ j = i
    BY <1>3, ZenonT(30)
  <1> QED
    BY <1>1, <1>2, <1>3, Zenon

\* A step counts the candidate's own vote, or one that a reply grants, or none.
LEMMA CountEffect ==
  ASSUME TypeOK, Next, NEW p \in Node, NEW i \in 1..MaxInc, NEW t \in Term
  PROVE  \/ counted'[p][i][t] = counted[p][i][t]
         \/ CountsSelf(p, i, t)
         \/ \E m \in msgs : CountsVote(m, p, i, t)
  <1>0. /\ counted \in [Node -> [1..MaxInc -> [Term -> SUBSET Node]]]
        /\ \A r \in Node : currentTerm[r] \in Term /\ inc[r] \in 1..MaxInc
    BY Zenon DEF TypeOK, HistoryTypeOK, FightTypeOK, NetTypeOK
  <1>1. ASSUME NEW r \in Node, FightVoted(r), r # p
        PROVE  counted'[p][i][t] = counted[p][i][t]
    <2>1. counted' \in {counted, [counted EXCEPT ![r][inc[r]][currentTerm[r]] = @ \cup {r}]}
      BY <1>1, Zenon DEF FightVoted
    <2> QED
      BY <1>0, <1>1, <2>1, Zenon
  <1>2. ASSUME FightVoted(p)
        PROVE  counted'[p][i][t] = counted[p][i][t] \/ CountsSelf(p, i, t)
    <2>1. \/ counted' = counted
          \/ /\ counted' = [counted EXCEPT ![p][inc[p]][currentTerm[p]] = @ \cup {p}]
             /\ Grants(p, currentTerm[p])
      BY <1>2, Zenon DEF FightVoted
    <2>2. CASE i = inc[p] /\ t = currentTerm[p]
      <3>1. \/ counted'[p][i][t] = counted[p][i][t]
            \/ counted'[p][i][t] = counted[p][i][t] \cup {p} /\ Grants(p, currentTerm[p])
        BY <1>0, <2>1, <2>2
      <3> QED
        BY <1>2, <2>2, <3>1, ZenonT(30) DEF CountsSelf, Grants
    <2>3. CASE ~(i = inc[p] /\ t = currentTerm[p])
      <3>1. [counted EXCEPT ![p][inc[p]][currentTerm[p]] = @ \cup {p}][p][i][t]
              = counted[p][i][t]
        BY <1>0, <2>3, CountedExcept
      <3> QED
        BY <2>1, <3>1, ZenonT(30)
    <2> QED
      BY <2>2, <2>3, Zenon
  <1>5. ASSUME NEW m \in msgs, OnRGetVote(m)
        PROVE  counted'[p][i][t] = counted[p][i][t] \/ CountsVote(m, p, i, t)
    <2>0. m.to \in Node /\ m.term \in Term
      BY Zenon DEF TypeOK, NetTypeOK, NodeMsg
    <2>1. \/ counted' = counted
          \/ /\ counted' = [counted EXCEPT ![m.to][inc[m.to]][m.term] = @ \cup {m.from}]
             /\ m.ok
      BY <1>5, Zenon DEF OnRGetVote
    <2>2. CASE m.to = p /\ i = inc[p] /\ t = m.term
      <3>1. \/ counted'[p][i][t] = counted[p][i][t]
            \/ counted'[p][i][t] = counted[p][i][t] \cup {m.from} /\ m.ok
        BY <1>0, <2>0, <2>1, <2>2, SMTT(30)
      <3> QED
        BY <1>5, <2>2, <3>1, Zenon DEF CountsVote
    <2>3. CASE ~(m.to = p /\ i = inc[p] /\ t = m.term)
      <3>1. [counted EXCEPT ![m.to][inc[m.to]][m.term] = @ \cup {m.from}][p][i][t]
              = counted[p][i][t]
        BY <1>0, <2>0, <2>3, CountedExcept
      <3> QED
        BY <2>1, <3>1, ZenonT(30)
    <2> QED
      BY <2>2, <2>3, Zenon
  <1>3. ASSUME NEW r \in Node, Restart(r) PROVE counted' = counted
    BY <1>3, Zenon DEF Restart
  <1>4. ASSUME NEW m \in msgs, OnGetVote(m) PROVE counted' = counted
    BY <1>4, Zenon DEF OnGetVote, history
  <1> QED
    BY <1>1, <1>2, <1>3, <1>4, <1>5, VoteFrame, Zenon

-------------------------------------------------------------------------------
(* The conjuncts of the inductive invariant *)

\* NetInv: messages run between two nodes and belong to lives that exist.
LEMMA NetStep ==
  ASSUME TypeOK, TypeOK', NetInv, Next
  PROVE  NetInv'
  <1>1. \A p \in Node : conn'[p][p] = 0
    BY ConnStep, Zenon DEF NetInv
  <1>2. \A p \in Node : inc'[p] >= inc[p]
    <2> SUFFICES ASSUME NEW p \in Node PROVE inc'[p] >= inc[p]
      BY Zenon
    <2>1. inc[p] \in Int
      BY DEF TypeOK, NetTypeOK
    <2> QED
      BY <2>1, IncEffect
  <1>3. ASSUME NEW n \in msgs'
        PROVE  /\ n.from # n.to
               /\ IsRequest(n) => n.finc <= inc'[n.from]
               /\ IsReply(n) => n.tinc <= inc'[n.to]
    <2>1. CASE n \in msgs
      <3>1. /\ n.from # n.to /\ n.from \in Node /\ n.to \in Node
            /\ IsRequest(n) => n.finc <= inc[n.from]
            /\ IsReply(n) => n.tinc <= inc[n.to]
            /\ n.finc \in Int /\ n.tinc \in Int
        BY <2>1 DEF NetInv, TypeOK, NetTypeOK, NodeMsg
      <3>2. /\ inc[n.from] \in Int /\ inc'[n.from] \in Int
            /\ inc[n.to] \in Int /\ inc'[n.to] \in Int
        BY <3>1 DEF TypeOK, NetTypeOK
      <3> QED
        BY <1>2, <3>1, <3>2
    <2>2. ASSUME UNCHANGED inc, NEW p \in Node, NewRequest(p, n)
          PROVE  /\ n.from # n.to
                 /\ IsRequest(n) => n.finc <= inc'[n.from]
                 /\ ~IsReply(n)
      <3>1. /\ n.from = p /\ n.to \in Connected(p) /\ n.finc = inc[p]
            /\ n.type \in RequestType
        BY <2>2, Zenon DEF NewRequest, IsRequest
      <3>2. n.to # p
        BY <3>1, Zenon DEF Connected, NetInv
      <3>3. ~IsReply(n)
        BY <3>1, Zenon DEF IsReply, ReplyType, RequestType
      <3>4. inc[p] \in Int
        BY DEF TypeOK, NetTypeOK
      <3> QED
        BY <2>2, <3>1, <3>2, <3>3, <3>4
    <2>3. ASSUME UNCHANGED inc, NEW m \in msgs, NewReply(m, n)
          PROVE  /\ n.from # n.to
                 /\ ~IsRequest(n)
                 /\ n.tinc <= inc'[n.to]
      <3>1. /\ m.from # m.to /\ m.finc <= inc[m.from]
            /\ n.from = m.to /\ n.to = m.from /\ n.tinc = m.finc /\ IsReply(n)
        BY <2>3, Zenon DEF NewReply, NetInv
      <3>2. ~IsRequest(n)
        BY <3>1, Zenon DEF IsReply, IsRequest, ReplyType, RequestType
      <3> QED
        BY <2>3, <3>1, <3>2, Zenon
    <2> QED
      BY <2>1, <2>2, <2>3, MsgEffect, Zenon
  <1> QED
    BY <1>1, <1>3, Zenon DEF NetInv, IsRequest, IsReply

\* TermInv: no term of a running fight, nor of a peer, is above the own one.
LEMMA TermStep ==
  ASSUME TypeOK, TypeOK', TermInv, Next
  PROVE  TermInv'
  <1>1. \A p, q \in Node : term'[p][q] <= term'[p][p]
    BY HighestStep, Zenon DEF OwnTermIsHighest, TermInv
  <1>2. ASSUME NEW p \in Node, pc'[p] \notin {"idle", "setterm"}
        PROVE  currentTerm'[p] <= term'[p][p]
    <2>0. /\ term[p][p] \in Int /\ term'[p][p] \in Int
          /\ currentTerm[p] \in Int
      BY DEF TypeOK, NodeTypeOK, FightTypeOK, Term
    <2>1. inc'[p] = inc[p]
      BY <1>2, IncEffect, Zenon
    <2>2. term'[p][p] >= term[p][p]
      BY <2>1, TermGrows, Zenon
    <2>3. /\ currentTerm'[p] = currentTerm[p]
          /\ currentTerm[p] <= term'[p][p] \/ pc[p] \notin {"idle", "setterm"}
      BY <1>2, FightEffect, Zenon DEF FightMove
    <2> QED
      BY <2>0, <2>2, <2>3 DEF TermInv
  <1> QED
    BY <1>1, <1>2, Zenon DEF TermInv

\* BackedInv: a vote granted or counted is recorded at its voter.
LEMMA BackedStep ==
  ASSUME TypeOK, TypeOK', BackedInv, Next
  PROVE  BackedInv'
  <1>1. ASSUME NEW n \in msgs', n.type = "RGetVote", n.ok, n.term \notin lost'[n.from]
        PROVE  voteNode'[n.from][n.term] = n.to
    <2>0. n.from \in Node /\ n.to \in Node /\ n.term \in Term
      BY Zenon DEF TypeOK, NetTypeOK, NodeMsg
    <2>1. CASE n \in msgs
      <3>1. n.term \notin lost[n.from]
        BY <1>1, <2>0, VoteEffect, Zenon
      <3>2. voteNode[n.from][n.term] = n.to
        BY <1>1, <2>1, <3>1, Zenon DEF BackedInv
      <3> QED
        BY <1>1, <2>0, <3>2, VoteEffect, NodeAssumption, Zenon
    <2>2. CASE n \notin msgs
      <3>1. PICK m \in msgs : NewReply(m, n)
        <4>1. ASSUME NEW p, NewRequest(p, n) PROVE FALSE
          BY <1>1, <4>1, Zenon DEF NewRequest
        <4> QED
          BY <2>2, <4>1, MsgEffect, Zenon
      <3>2. /\ OnGetVote(m) /\ Grants(m.to, m.term)
            /\ n.from = m.to /\ n.to = m.from /\ n.term = m.term
        BY <1>1, <3>1, Zenon DEF NewReply
      <3>3. voteNode' = [voteNode EXCEPT ![m.to][m.term] = m.from]
        BY <3>2, Zenon DEF OnGetVote
      <3> QED
        BY <2>0, <3>2, <3>3, Zenon DEF TypeOK, NodeTypeOK
    <2> QED
      BY <2>1, <2>2, Zenon
  <1>2. ASSUME NEW p \in Node, NEW i \in 1..MaxInc, NEW t \in Term,
               NEW q \in counted'[p][i][t], t \notin lost'[q]
        PROVE  voteNode'[q][t] = p
    <2>0. q \in Node
      <3>1. counted' \in [Node -> [1..MaxInc -> [Term -> SUBSET Node]]]
        BY Zenon DEF TypeOK, HistoryTypeOK
      <3>2. counted'[p][i][t] \subseteq Node
        BY <3>1, VotersFinite, Zenon
      <3> QED
        BY <3>2, Zenon
    <2>a. t \notin lost[q]
      BY <1>2, <2>0, VoteEffect, Zenon
    <2>1. CASE q \in counted[p][i][t]
      <3>1. voteNode[q][t] = p
        BY <2>1, <2>a DEF BackedInv
      <3> QED
        BY <1>2, <2>0, <3>1, VoteEffect, NodeAssumption, Zenon
    <2>2. CASE CountsSelf(p, i, t) /\ q = p
      <3>1. /\ FightVoted(p) /\ t = currentTerm[p] /\ Grants(p, currentTerm[p])
        BY <2>2, Zenon DEF CountsSelf, Grants
      <3>2. voteNode' = [voteNode EXCEPT ![p][t] = p]
        BY <3>1, Zenon DEF FightVoted
      <3> QED
        BY <2>2, <3>2, Zenon DEF TypeOK, NodeTypeOK
    <2>3. ASSUME NEW m \in msgs, CountsVote(m, p, i, t), q = m.from
          PROVE  voteNode'[q][t] = p
      <3>1. m.type = "RGetVote" /\ m.ok /\ m.to = p /\ m.term = t
        BY <2>3, Zenon DEF CountsVote, OnRGetVote, Takes, Arrives
      <3>2. voteNode[q][t] = p
        BY <2>a, <2>3, <3>1, Zenon DEF BackedInv
      <3> QED
        BY <1>2, <2>0, <3>2, VoteEffect, NodeAssumption, Zenon
    <2>4. ASSUME NEW m \in msgs, CountsVote(m, p, i, t)
          PROVE  q \in counted[p][i][t] \/ q = m.from
      BY <2>4, Zenon DEF CountsVote
    <2>5. CountsSelf(p, i, t) => q \in counted[p][i][t] \/ q = p
      BY DEF CountsSelf
    <2> QED
      BY <2>1, <2>2, <2>3, <2>4, <2>5, CountEffect, Zenon
  <1> QED
    BY <1>1, <1>2, Zenon DEF BackedInv

\* A term below the fight stays below it until the votes are asked for (and until
\* the node votes for itself), as long as the process lives.
LEMMA TimingStep ==
  ASSUME TypeOK, TypeOK', Next, NEW p \in Node, inc'[p] = inc[p], NEW t \in Term,
         t <= term[p][p]
  PROVE  /\ t <= term'[p][p]
         /\ (pc[p] \in BeforeGetVote => t < currentTerm[p])
            => (pc'[p] \in BeforeGetVote => t < currentTerm'[p])
         /\ (pc[p] \in BeforeVoted => t < currentTerm[p])
            => (pc'[p] \in BeforeVoted => t < currentTerm'[p])
  <1>0. t \in Int /\ term[p][p] \in Int /\ term'[p][p] \in Int
    BY DEF TypeOK, NodeTypeOK, Term
  <1>1. t <= term'[p][p]
    BY <1>0, TermGrows
  <1>2. FightMove(p)
    BY FightEffect, Zenon
  <1>3. (pc[p] \in BeforeGetVote => t < currentTerm[p])
          => (pc'[p] \in BeforeGetVote => t < currentTerm'[p])
    BY <1>0, <1>2 DEF FightMove, BeforeGetVote
  <1>4. (pc[p] \in BeforeVoted => t < currentTerm[p])
          => (pc'[p] \in BeforeVoted => t < currentTerm'[p])
    BY <1>0, <1>2 DEF FightMove, BeforeGetVote, BeforeVoted
  <1> QED
    BY <1>1, <1>3, <1>4, Zenon

\* What TokenInv says of the votes of q for the running incarnation of p in term t.
TokenOK(p, q, t) ==
    /\ \A m \in msgs : CarriesVote(m, p, q, t) =>
          /\ q \notin Voters(p, t)
          /\ \A n \in msgs : CarriesVote(n, p, q, t) => n = m
          /\ t <= term[p][p]
          /\ pc[p] \in BeforeGetVote => t < currentTerm[p]
    /\ q \in Voters(p, t) =>
          /\ t <= term[p][p]
          /\ pc[p] \in BeforeGetVote => t < currentTerm[p]
          /\ q = p /\ pc[p] \in BeforeVoted => t < currentTerm[p]

\* A new carrier of a vote is a request just sent or the answer to a carrier.
LEMMA NewCarrier ==
  ASSUME TypeOK, NetInv, Next, NEW p \in Node, NEW q \in Node, NEW t \in Term,
         NEW n \in msgs', n \notin msgs, CarriesVote(n, p, q, t)
  PROVE  \/ /\ FightGetVote(p) /\ t = term[p][p]
            /\ n.type = "GetVote" /\ n.to = q
         \/ /\ n.type = "RGetVote"
            /\ \E m \in msgs : OnGetVote(m) /\ CarriesVote(m, p, q, t)
  <1>1. ASSUME NEW r \in Node, NewRequest(r, n)
        PROVE  FightGetVote(p) /\ t = term[p][p] /\ n.type = "GetVote" /\ n.to = q
    <2>1. n.type = "GetVote" /\ n.from = p /\ n.to = q /\ n.term = t
      BY <1>1, Zenon DEF NewRequest, CarriesVote, IsRequest, RequestType
    <2>2. r = p
      BY <1>1, <2>1, Zenon DEF NewRequest
    <2>3. FightGetVote(r) /\ n.term = term[r][r]
      BY <1>1, <2>1, Zenon DEF NewRequest
    <2> QED
      BY <2>1, <2>2, <2>3, Zenon
  <1>2. ASSUME NEW m \in msgs, NewReply(m, n)
        PROVE  OnGetVote(m) /\ CarriesVote(m, p, q, t) /\ n.type = "RGetVote"
    <2>1. /\ n.type = "RGetVote" /\ n.ok /\ n.from = q /\ n.to = p
          /\ n.tinc = inc[p] /\ n.term = t
      BY <1>2, Zenon DEF NewReply, CarriesVote, IsReply, ReplyType
    <2>2. /\ OnGetVote(m) /\ m.to = q /\ m.from = p /\ m.finc = inc[p] /\ m.term = t
      BY <1>2, <2>1, Zenon DEF NewReply
    <2>3. m.type = "GetVote"
      BY <2>2, Zenon DEF OnGetVote, Arrives
    <2> QED
      BY <2>1, <2>2, <2>3, Zenon DEF CarriesVote
  <1> QED
    BY <1>1, <1>2, MsgEffect, Zenon

\* While a request for votes is sent, nobody's vote of that term is known yet.
LEMMA FreshTerm ==
  ASSUME TypeOK, TermInv, NEW p \in Node, NEW q \in Node, TokenOK(p, q, term[p][p]),
         pc[p] = "getvote"
  PROVE  /\ \A m \in msgs : ~CarriesVote(m, p, q, term[p][p])
         /\ q \notin Voters(p, term[p][p])
  <1>0. currentTerm[p] \in Int /\ term[p][p] \in Int
    BY DEF TypeOK, NodeTypeOK, FightTypeOK, Term
  <1>1. currentTerm[p] <= term[p][p]
    BY Zenon DEF TermInv
  <1>2. pc[p] \in BeforeGetVote
    BY Zenon DEF BeforeGetVote
  <1> QED
    BY <1>0, <1>1, <1>2 DEF TokenOK

\* With a new carrier no other one is left, and the voter is not counted.
LEMMA NewCarrierAlone ==
  ASSUME TypeOK, NetInv, TermInv, Next, NEW p \in Node, NEW q \in Node, NEW t \in Term,
         TokenOK(p, q, t), NEW n \in msgs', n \notin msgs, CarriesVote(n, p, q, t)
  PROVE  /\ \A k \in msgs' : CarriesVote(k, p, q, t) => k = n
         /\ q \notin Voters(p, t) /\ UNCHANGED counted
         /\ t <= term[p][p]
         /\ \/ pc'[p] = "votewait" /\ term' = term
            \/ pc[p] \in BeforeGetVote => t < currentTerm[p]
  <1>1. CASE FightGetVote(p) /\ t = term[p][p] /\ n.type = "GetVote" /\ n.to = q
    <2>1. /\ msgs' = msgs \cup ToAll(p, "GetVote", currentTerm[p], term[p][p], None)
          /\ pc[p] = "getvote" /\ pc' = [pc EXCEPT ![p] = "votewait"]
          /\ term' = term /\ counted' = counted
      BY <1>1, Zenon DEF FightGetVote, SendAndWait, nodeVars, history
    <2>2. (\A m \in msgs : ~CarriesVote(m, p, q, t)) /\ q \notin Voters(p, t)
      BY <1>1, <2>1, FreshTerm, Zenon
    <2>3. ASSUME NEW k \in msgs', CarriesVote(k, p, q, t) PROVE k = n
      <3>1. /\ k \in ToAll(p, "GetVote", currentTerm[p], term[p][p], None)
            /\ n \in ToAll(p, "GetVote", currentTerm[p], term[p][p], None)
        BY <2>1, <2>2, <2>3, Zenon
      <3>2. k.type = "GetVote"
        BY <3>1 DEF ToAll
      <3>3. k.to = q
        BY <2>3, <3>2, Zenon DEF CarriesVote
      <3>4. \A a \in ToAll(p, "GetVote", currentTerm[p], term[p][p], None) :
              a = [type |-> "GetVote", from |-> p, to |-> a.to, finc |-> inc[p],
                   tinc |-> conn[p][a.to], req |-> currentTerm[p],
                   term |-> term[p][p], leader |-> None, ok |-> FALSE]
        BY DEF ToAll
      <3> QED
        BY <1>1, <3>1, <3>3, <3>4, Zenon
    <2>4. pc'[p] = "votewait"
      BY <2>1, Zenon DEF TypeOK, FightTypeOK
    <2>5. t <= term[p][p]
      BY <1>1 DEF TypeOK, NodeTypeOK, Term
    <2> QED
      BY <2>1, <2>2, <2>3, <2>4, <2>5, Zenon
  <1>2. ASSUME NEW m \in msgs, OnGetVote(m), CarriesVote(m, p, q, t), n.type = "RGetVote"
        PROVE  /\ \A k \in msgs' : CarriesVote(k, p, q, t) => k = n
               /\ q \notin Voters(p, t) /\ UNCHANGED counted
               /\ t <= term[p][p]
               /\ pc[p] \in BeforeGetVote => t < currentTerm[p]
    <2>1. PICK r : msgs' = Answered(m, {r})
      BY <1>2, ZenonT(30) DEF OnGetVote
    <2>2. m.type = "GetVote"
      BY <1>2, Zenon DEF OnGetVote, Arrives
    <2>3. n = r
      BY <2>1, Zenon DEF Answered
    <2>4. m \notin msgs'
      BY <1>2, <2>1, <2>2, <2>3, Zenon DEF Answered
    <2>5. ASSUME NEW k \in msgs', CarriesVote(k, p, q, t) PROVE k = n
      <3>1. CASE k \in msgs
        BY <1>2, <2>4, <2>5, <3>1, Zenon DEF TokenOK
      <3>2. CASE k \notin msgs
        BY <2>1, <2>3, <3>2, Zenon DEF Answered
      <3> QED
        BY <3>1, <3>2, Zenon
    <2>6. UNCHANGED counted
      BY <1>2, Zenon DEF OnGetVote, history
    <2> QED
      BY <1>2, <2>5, <2>6, Zenon DEF TokenOK
  <1> QED
    BY <1>1, <1>2, NewCarrier, Zenon

\* TokenInv: a vote is asked for, under way or counted, once.
LEMMA TokenStep ==
  ASSUME TypeOK, TypeOK', NetInv, TermInv, TokenInv, CountInv, Next
  PROVE  TokenInv'
  <1> SUFFICES ASSUME NEW p \in Node, NEW q \in Node, NEW t \in Term
               PROVE  TokenOK(p, q, t)'
    BY Zenon DEF TokenInv, TokenOK
  <1>t. TokenOK(p, q, t)
    BY Zenon DEF TokenInv, TokenOK
  <1>i. inc[p] \in 1..MaxInc /\ inc'[p] \in 1..MaxInc
    BY Zenon DEF TypeOK, NetTypeOK
  <1>1. CASE Restart(p) /\ inc'[p] = inc[p] + 1
    <2>1. ASSUME NEW n \in msgs' PROVE ~CarriesVote(n, p, q, t)'
      <3>1. n \in msgs
        BY <1>i, <1>1, MsgEffect
      <3>2. /\ n.type = "GetVote" /\ n.from = p => n.finc <= inc[p]
            /\ n.type = "RGetVote" /\ n.to = p => n.tinc <= inc[p]
        BY <3>1, Zenon DEF NetInv, IsRequest, IsReply, RequestType, ReplyType
      <3> QED
        BY <1>i, <1>1, <3>2 DEF CarriesVote
    <2>2. Voters(p, t)' = {}
      BY <1>i, <1>1 DEF Voters, CountInv, Restart
    <2> QED
      BY <2>1, <2>2, Zenon DEF TokenOK
  <1>2. CASE inc'[p] = inc[p]
    <2>c. \A n : CarriesVote(n, p, q, t)' <=> CarriesVote(n, p, q, t)
      BY <1>2, Zenon DEF CarriesVote
    <2>v. Voters(p, t)' = counted'[p][inc[p]][t] /\ Voters(p, t) = counted[p][inc[p]][t]
      BY <1>2, Zenon DEF Voters
    <2>m. ASSUME NEW m \in msgs, CountsVote(m, p, inc[p], t)
          PROVE  CarriesVote(m, p, m.from, t) /\ m \notin msgs'
      BY <2>m, Zenon DEF CountsVote, OnRGetVote, Takes, Arrives, CarriesVote
    <2>1. ASSUME NEW n \in msgs', CarriesVote(n, p, q, t)
          PROVE  /\ t <= term'[p][p]
                 /\ pc'[p] \in BeforeGetVote => t < currentTerm'[p]
      <3>1. CASE n \in msgs
        BY <1>t, <1>2, <2>1, <3>1, TimingStep, Zenon DEF TokenOK
      <3>2. CASE n \notin msgs
        <4>1. /\ t <= term[p][p]
              /\ \/ pc'[p] = "votewait" /\ term' = term
                 \/ pc[p] \in BeforeGetVote => t < currentTerm[p]
          BY <1>t, <2>1, <3>2, NewCarrierAlone, Zenon
        <4>2. CASE pc'[p] = "votewait" /\ term' = term
          BY <4>1, <4>2, Zenon DEF BeforeGetVote
        <4>3. CASE pc[p] \in BeforeGetVote => t < currentTerm[p]
          BY <1>2, <4>1, <4>3, TimingStep, Zenon
        <4> QED
          BY <4>1, <4>2, <4>3, Zenon
      <3> QED
        BY <3>1, <3>2, Zenon
    <2>2. ASSUME NEW n \in msgs', CarriesVote(n, p, q, t)
          PROVE  q \notin Voters(p, t)'
      <3>1. CASE n \notin msgs
        <4>1. q \notin Voters(p, t) /\ UNCHANGED counted
          BY <1>t, <2>2, <3>1, NewCarrierAlone, Zenon
        <4> QED
          BY <2>v, <4>1, Zenon
      <3>2. CASE n \in msgs
        <4>1. q \notin counted[p][inc[p]][t] /\ q # p
          BY <1>t, <2>2, <2>v, <3>2 DEF TokenOK, CarriesVote, NetInv
        <4>2. CountsSelf(p, inc[p], t) => q \notin counted'[p][inc[p]][t]
          BY <4>1 DEF CountsSelf
        <4>3. ASSUME NEW m \in msgs, CountsVote(m, p, inc[p], t)
              PROVE  q \notin counted'[p][inc[p]][t]
          <5>1. q # m.from
            BY <1>t, <2>2, <2>m, <3>2, <4>3, Zenon DEF TokenOK
          <5> QED
            BY <4>1, <4>3, <5>1, Zenon DEF CountsVote
        <4> QED
          BY <1>i, <2>v, <4>1, <4>2, <4>3, CountEffect, Zenon
      <3> QED
        BY <3>1, <3>2, Zenon
    <2>3. ASSUME NEW n \in msgs', CarriesVote(n, p, q, t),
                 NEW k \in msgs', CarriesVote(k, p, q, t)
          PROVE  k = n
      <3>1. CASE n \in msgs /\ k \in msgs
        BY <1>t, <2>3, <3>1, Zenon DEF TokenOK
      <3>2. CASE n \notin msgs \/ k \notin msgs
        BY <1>t, <2>3, <3>2, NewCarrierAlone, Zenon
      <3> QED
        BY <3>1, <3>2, Zenon
    <2>4. ASSUME q \in Voters(p, t)'
          PROVE  /\ t <= term'[p][p]
                 /\ pc'[p] \in BeforeGetVote => t < currentTerm'[p]
                 /\ q = p /\ pc'[p] \in BeforeVoted => t < currentTerm'[p]
      <3>1. CASE q \in Voters(p, t)
        BY <1>t, <1>2, <3>1, TimingStep, Zenon DEF TokenOK
      <3>2. CASE CountsSelf(p, inc[p], t)
        <4>1. t = currentTerm[p] /\ pc[p] = "voted" /\ FightVoted(p)
          BY <3>2, ZenonT(30) DEF CountsSelf, FightVoted
        <4>2. pc'[p] \in {"idle", "confwait"}
          BY <4>1 DEF FightVoted, SendAndWait, Return, TypeOK, FightTypeOK
        <4>3. t <= term[p][p]
          BY <4>1, Zenon DEF TermInv
        <4> QED
          BY <1>2, <4>2, <4>3, TimingStep, Zenon DEF BeforeGetVote, BeforeVoted
      <3>3. ASSUME NEW m \in msgs, CountsVote(m, p, inc[p], t), q = m.from
            PROVE  /\ t <= term'[p][p]
                   /\ pc'[p] \in BeforeGetVote => t < currentTerm'[p]
                   /\ q # p
        <4>1. CarriesVote(m, p, q, t)
          BY <2>m, <3>3, Zenon
        <4>2. m.from # m.to /\ m.to = p
          BY <3>3, Zenon DEF NetInv, CountsVote
        <4> QED
          BY <1>t, <1>2, <3>3, <4>1, <4>2, TimingStep, Zenon DEF TokenOK
      <3>4. ASSUME NEW m \in msgs, CountsVote(m, p, inc[p], t)
            PROVE  q \in Voters(p, t) \/ q = m.from
        BY <2>v, <2>4, <3>4 DEF CountsVote
      <3> QED
        BY <1>i, <2>v, <2>4, <3>1, <3>2, <3>3, <3>4, CountEffect, Zenon
    <2> QED
      BY <2>c, <2>1, <2>2, <2>3, <2>4, Zenon DEF TokenOK
  <1> QED
    BY <1>1, <1>2, IncEffect, Zenon

\* The voters counted never become fewer while the process lives, nor those of an
\* earlier life.
LEMMA VotersGrow ==
  ASSUME TypeOK, Next, NEW p \in Node, NEW i \in 1..MaxInc, NEW t \in Term
  PROVE  counted[p][i][t] \subseteq counted'[p][i][t]
  BY CountEffect DEF CountsSelf, CountsVote

\* A majority stays one in a larger set of voters.
LEMMA MajorityGrows ==
  ASSUME NEW S, NEW T, IsFiniteSet(T), S \subseteq T, Majority(Cardinality(S))
  PROVE  Majority(Cardinality(T))
  <1>1. /\ Cardinality(S) <= Cardinality(T) /\ Cardinality(S) \in Nat
        /\ Cardinality(T) \in Nat
    BY FS_Subset, FS_CardinalityType, Zenon
  <1>2. Cardinality(Node) \in Nat
    BY NodeAssumption, FS_CardinalityType, Zenon
  <1> QED
    BY <1>1, <1>2 DEF Majority

\* CountInv: voteCount never exceeds the number of voters counted.
LEMMA CountStep ==
  ASSUME TypeOK, TypeOK', NetInv, TokenInv, CountInv, Next
  PROVE  CountInv'
  <1>0. /\ counted \in [Node -> [1..MaxInc -> [Term -> SUBSET Node]]]
        /\ counted' \in [Node -> [1..MaxInc -> [Term -> SUBSET Node]]]
        /\ voteCount \in [Node -> [Term -> Nat]]
        /\ \A r \in Node : inc[r] \in 1..MaxInc /\ inc'[r] \in 1..MaxInc
    BY Zenon DEF TypeOK, HistoryTypeOK, NodeTypeOK, NetTypeOK
  <1>1. ASSUME NEW p \in Node, NEW i \in 1..MaxInc, NEW t \in Term, i > inc'[p]
        PROVE  counted'[p][i][t] = {}
    <2>0. inc[p] \in Int /\ inc'[p] \in Int /\ i \in Int
      BY <1>0
    <2>a. inc'[p] = inc[p] \/ inc'[p] = inc[p] + 1
      BY IncEffect, Zenon
    <2>1. i > inc[p]
      BY <1>1, <2>0, <2>a
    <2>2. counted[p][i][t] = {}
      BY <2>1, Zenon DEF CountInv
    <2>3. i # inc[p]
      BY <1>0, <2>1
    <2> QED
      BY <2>2, <2>3, CountEffect DEF CountsSelf, CountsVote
  <1>2. ASSUME NEW p \in Node, NEW t \in Term
        PROVE  voteCount'[p][t] <= Cardinality(Voters(p, t)')
    <2> DEFINE S == counted[p][inc[p]][t]
               T == counted'[p][inc'[p]][t]
    <2>0. /\ IsFiniteSet(S) /\ Cardinality(S) \in Nat
          /\ IsFiniteSet(T) /\ Cardinality(T) \in Nat
      BY <1>0, VotersFinite, ZenonT(30)
    <2>1. voteCount[p][t] <= Cardinality(S) /\ voteCount[p][t] \in Nat
      BY <1>0 DEF CountInv, Voters
    <2>g. inc'[p] = inc[p] => S \subseteq T /\ Cardinality(S) <= Cardinality(T)
      BY <1>0, <2>0, VotersGrow, FS_Subset, Zenon
    <2>a. ASSUME NEW q, q \notin S, inc'[p] = inc[p], T = S \cup {q}
          PROVE  Cardinality(T) = Cardinality(S) + 1
      BY <2>a, <2>0, FS_AddElement
    <2> SUFFICES voteCount'[p][t] <= Cardinality(T)
      BY Zenon DEF Voters
    <2>2. CASE voteCount'[p][t] = 0
      BY <2>0, <2>2
    <2>3. CASE inc'[p] = inc[p] /\ voteCount'[p][t] = voteCount[p][t]
      BY <2>0, <2>1, <2>g, <2>3
    <2>i. UNCHANGED inc => inc'[p] = inc[p]
      BY Zenon
    <2>4. ASSUME NEW r \in Node, FightVoted(r)
          PROVE  voteCount'[p][t] <= Cardinality(T)
      <3>0. UNCHANGED inc
        BY <2>4, Zenon DEF FightVoted, envVars
      <3> DEFINE g == Grants(r, currentTerm[r])
                 c == voteCount[r][currentTerm[r]] + IF g THEN 1 ELSE 0
      <3>1. /\ voteCount' = [voteCount EXCEPT ![r][currentTerm[r]] = c]
            /\ pc[r] = "voted"
            /\ g => counted' = [counted EXCEPT ![r][inc[r]][currentTerm[r]] = @ \cup {r}]
        BY <2>4, Zenon DEF FightVoted
      <3>2. currentTerm[r] \in Term
        BY Zenon DEF TypeOK, FightTypeOK
      <3>3. CASE ~(r = p /\ t = currentTerm[r])
        <4>1. voteCount'[p][t] = voteCount[p][t]
          BY <1>0, <3>1, <3>2, <3>3, Zenon
        <4> QED
          BY <2>3, <3>0, <4>1, Zenon
      <3>4. CASE r = p /\ t = currentTerm[r] /\ ~g
        <4>1. voteCount'[p][t] = voteCount[p][t]
          BY <1>0, <3>1, <3>2, <3>4, SMTT(30)
        <4> QED
          BY <2>3, <3>0, <4>1, Zenon
      <3>5. CASE r = p /\ t = currentTerm[r] /\ g
        <4>1. voteCount'[p][t] = voteCount[p][t] + 1
          BY <1>0, <3>1, <3>2, <3>5
        <4>2. p \notin S
          <5>1. pc[p] \in BeforeVoted /\ ~(t < currentTerm[p])
            BY <3>1, <3>2, <3>5 DEF BeforeVoted, Term
          <5> QED
            BY <5>1, Zenon DEF TokenInv, Voters
        <4>3. T = S \cup {p}
          <5>1. PICK i \in 1..MaxInc : i = inc[p]
            BY <1>0, Zenon
          <5>2. counted' = [counted EXCEPT ![p][inc[p]][currentTerm[p]] = @ \cup {p}]
            BY <3>1, <3>5, Zenon
          <5>3. counted'[p][i][t] = counted[p][i][t] \cup {p}
            BY <1>0, <3>2, <3>5, <5>1, <5>2
          <5> QED
            BY <3>0, <5>1, <5>3, Zenon
        <4>4. Cardinality(T) = Cardinality(S) + 1
          BY <2>a, <2>i, <3>0, <4>2, <4>3, Zenon
        <4> HIDE DEF S, T
        <4> QED
          BY <2>0, <2>1, <4>1, <4>4
      <3> QED
        BY <3>3, <3>4, <3>5, Zenon
    <2>5. ASSUME NEW m \in msgs, OnRGetVote(m)
          PROVE  voteCount'[p][t] <= Cardinality(T)
      <3>0. UNCHANGED inc
        BY <2>5, Zenon DEF OnRGetVote, envVars
      <3>1. \/ UNCHANGED voteCount
            \/ /\ voteCount' = [voteCount EXCEPT ![m.to][m.term] = @ + 1] /\ m.ok
               /\ counted' = [counted EXCEPT ![m.to][inc[m.to]][m.term] = @ \cup {m.from}]
        BY <2>5, Zenon DEF OnRGetVote
      <3>2. m.to \in Node /\ m.term \in Term /\ m.from \in Node
        BY Zenon DEF TypeOK, NetTypeOK, NodeMsg
      <3>3. CASE UNCHANGED voteCount \/ ~(m.to = p /\ t = m.term)
        <4>1. CASE UNCHANGED voteCount
          BY <2>3, <3>0, <4>1, Zenon
        <4>2. CASE /\ voteCount' = [voteCount EXCEPT ![m.to][m.term] = @ + 1]
                   /\ ~(m.to = p /\ t = m.term)
          <5>1. voteCount'[p][t] = voteCount[p][t]
            BY <1>0, <3>2, <4>2, Zenon
          <5> QED
            BY <2>3, <3>0, <5>1, Zenon
        <4> QED
          BY <3>1, <3>3, <4>1, <4>2, Zenon
      <3>4. CASE ~UNCHANGED voteCount /\ m.to = p /\ t = m.term
        <4>1. voteCount'[p][t] = voteCount[p][t] + 1
          BY <1>0, <3>1, <3>2, <3>4
        <4>2. CarriesVote(m, p, m.from, t)
          BY <2>5, <3>1, <3>4, Zenon DEF OnRGetVote, Takes, Arrives, CarriesVote
        <4>3. m.from \notin S
          BY <3>2, <4>2, Zenon DEF TokenInv, Voters
        <4>4. T = S \cup {m.from}
          <5>1. PICK i \in 1..MaxInc : i = inc[p]
            BY <1>0, Zenon
          <5>2. counted' = [counted EXCEPT ![m.to][inc[m.to]][m.term] = @ \cup {m.from}]
            BY <3>1, <3>4, Zenon
          <5>3. counted'[p][i][t] = counted[p][i][t] \cup {m.from}
            BY <1>0, <3>2, <3>4, <5>1, <5>2, Zenon
          <5> QED
            BY <3>0, <5>1, <5>3, Zenon
        <4>5. Cardinality(T) = Cardinality(S) + 1
          BY <2>a, <3>0, <4>3, <4>4, Zenon
        <4> HIDE DEF S, T
        <4> QED
          BY <2>0, <2>1, <4>1, <4>5
      <3> QED
        BY <3>3, <3>4, Zenon
    <2>6. ASSUME NEW r \in Node, trimVotes(r)
          PROVE  voteCount'[p][t] \in {0, voteCount[p][t]}
      BY <1>0, <2>6, Zenon DEF trimVotes
    <2>7. ASSUME NEW r \in Node, Restart(r)
          PROVE  \/ voteCount'[p][t] = 0
                 \/ voteCount'[p][t] = voteCount[p][t] /\ r # p
      BY <1>0, <2>7, Zenon DEF Restart
    <2>8. ASSUME NEW m \in msgs, OnGetVote(m) PROVE UNCHANGED voteCount
      BY <2>8, Zenon DEF OnGetVote
    <2>9. ASSUME Restart(p) PROVE voteCount'[p][t] = 0
      BY <1>0, <2>9, Zenon DEF Restart
    <2>10. CASE inc'[p] = inc[p] /\ voteCount'[p][t] \in {0, voteCount[p][t]}
      BY <2>2, <2>3, <2>10, Zenon
    <2>11. CASE Restart(p)
      BY <2>2, <2>9, <2>11, Zenon
    <2> QED
      BY <2>4, <2>5, <2>6, <2>7, <2>8, <2>10, <2>11, VoteFrame, IncEffect, Zenon
  <1> QED
    BY <1>1, <1>2, Zenon DEF CountInv

\* A node wins a term only at the end of its fight for it.
LEMMA ElectedEffect ==
  ASSUME TypeOK, Next, NEW p \in Node, NEW t \in Term, p \in elected'[t]
  PROVE  p \in elected[t] \/ (FightConfirmed(p) /\ t = currentTerm[p])
  <1>1. ASSUME NEW r \in Node, fightElection(r)
        PROVE  UNCHANGED elected \/ FightConfirmed(r)
    <2>1. CASE FightSkip(r) \/ FightBegin(r) \/ FightAskLeader(r) \/ FightTimeout(r)
               \/ FightAsked(r) \/ FightSetTerm(r)
      BY <2>1, Zenon DEF FightSkip, FightBegin, FightAskLeader, FightTimeout, FightAsked,
                  FightSetTerm, history
    <2>2. CASE FightStand(r) \/ FightVote(r) \/ FightGetVote(r) \/ FightVoted(r)
      BY <2>2, ZenonT(30) DEF FightStand, FightVote, FightGetVote, FightVoted, history
    <2> QED
      BY <1>1, <2>1, <2>2, Zenon DEF fightElection
  <1>2. ASSUME NEW m \in msgs, handleMessage(m) PROVE UNCHANGED elected
    <2>1. CASE OnAskLeader(m) \/ OnGetVote(m) \/ OnStaleLeader(m) \/ OnHigherTerm(m)
               \/ OnBroadcastLeader(m)
      BY <2>1, ZenonT(30) DEF OnAskLeader, OnGetVote, OnStaleLeader, OnHigherTerm,
                  OnBroadcastLeader, history
    <2>2. CASE OnRAskLeader(m) \/ OnRGetVote(m) \/ OnRLeader(m) \/ OnOk(m)
      BY <2>2, Zenon DEF OnRAskLeader, OnRGetVote, OnRLeader, OnOk, history
    <2> QED
      BY <1>2, <2>1, <2>2, Zenon DEF handleMessage
  <1>3. ASSUME NEW r \in Node, HeartbeatLead(r) \/ HeartbeatFollow(r) \/ Close(r)
                               \/ Restart(r)
        PROVE  UNCHANGED elected
    BY <1>3, ZenonT(30) DEF HeartbeatLead, HeartbeatFollow, Close, Restart, history
  <1>4. ASSUME NEW r \in Node, NEW q \in Node, Connect(r, q) \/ Disconnect(r, q)
        PROVE  UNCHANGED elected
    BY <1>4, Zenon DEF Connect, Disconnect, history
  <1>5. ASSUME FightConfirmed(p), p \notin elected[t] PROVE t = currentTerm[p]
    <2>1. elected' \in {elected, [elected EXCEPT ![currentTerm[p]] = @ \cup {p}]}
      BY <1>5, ZenonT(30) DEF FightConfirmed
    <2> QED
      BY <1>5, <2>1, Zenon DEF TypeOK, HistoryTypeOK
  <1>6. ASSUME NEW r \in Node, FightConfirmed(r), r # p PROVE p \in elected[t]
    <2>1. elected' \in {elected, [elected EXCEPT ![currentTerm[r]] = @ \cup {r}]}
      BY <1>6, Zenon DEF FightConfirmed
    <2>2. elected \in [Term -> SUBSET Node]
      BY Zenon DEF TypeOK, HistoryTypeOK
    <2>3. elected'[t] \in {elected[t], elected[t] \cup {r}}
      BY <2>1, <2>2
    <2> QED
      BY <1>6, <2>3, Zenon
  <1> QED
    BY <1>1, <1>2, <1>3, <1>4, <1>5, <1>6, Zenon DEF Next

\* MajorityInv: who is being confirmed, and who won, counted a majority.
LEMMA MajorityStep ==
  ASSUME TypeOK, TypeOK', CountInv', MajorityInv, Next
  PROVE  MajorityInv'
  <1>0. /\ counted' \in [Node -> [1..MaxInc -> [Term -> SUBSET Node]]]
        /\ \A r \in Node : inc[r] \in 1..MaxInc /\ inc'[r] \in 1..MaxInc
        /\ \A r \in Node : currentTerm[r] \in Term
        /\ voteCount \in [Node -> [Term -> Nat]]
    BY Zenon DEF TypeOK, HistoryTypeOK, NetTypeOK, FightTypeOK, NodeTypeOK
  <1>g. ASSUME NEW p \in Node, NEW i \in 1..MaxInc, NEW t \in Term,
               Majority(Cardinality(counted[p][i][t]))
        PROVE  Majority(Cardinality(counted'[p][i][t]))
    BY <1>0, <1>g, VotersGrow, VotersFinite, MajorityGrows, ZenonT(30)
  <1>1. ASSUME NEW p \in Node, pc'[p] \in {"confwait", "confirmed"}
        PROVE  Majority(Cardinality(Voters(p, currentTerm[p])'))
    <2>1. inc'[p] = inc[p]
      BY <1>1, IncEffect, Zenon
    <2>2. /\ currentTerm'[p] = currentTerm[p]
          /\ \/ pc[p] \in {"confwait", "confirmed"}
             \/ FightVoted(p) /\ pc'[p] = "confwait"
      BY <1>1, FightEffect, Zenon DEF FightMove
    <2>3. CASE pc[p] \in {"confwait", "confirmed"}
      <3>1. Majority(Cardinality(counted[p][inc[p]][currentTerm[p]]))
        BY <2>3, Zenon DEF MajorityInv, Voters
      <3> QED
        BY <1>0, <1>g, <2>1, <2>2, <3>1, ZenonT(30) DEF Voters
    <2>4. CASE FightVoted(p) /\ pc'[p] = "confwait"
      <3> DEFINE t == currentTerm[p]
                 c == voteCount[p][t] + IF Grants(p, t) THEN 1 ELSE 0
      <3>1. ~Return(p, TRUE)
        BY <2>4, Zenon DEF Return, TypeOK, FightTypeOK
      <3>2. Majority(c) /\ voteCount' = [voteCount EXCEPT ![p][t] = c]
        BY <2>4, <3>1, ZenonT(30) DEF FightVoted
      <3>3. voteCount'[p][t] = c /\ c \in Nat
        BY <1>0, <3>2
      <3>4. c <= Cardinality(counted'[p][inc'[p]][t])
        BY <1>0, <3>3 DEF CountInv, Voters
      <3>5. Cardinality(counted'[p][inc'[p]][t]) \in Nat /\ Cardinality(Node) \in Nat
        BY <1>0, VotersFinite, NodeAssumption, FS_CardinalityType, Zenon
      <3> HIDE DEF c
      <3>6. Majority(Cardinality(counted'[p][inc'[p]][t]))
        BY <3>2, <3>3, <3>4, <3>5 DEF Majority
      <3> QED
        BY <2>2, <3>6, Zenon DEF Voters
    <2> QED
      BY <2>2, <2>3, <2>4, Zenon
  <1>2. ASSUME NEW t \in Term, NEW p \in elected'[t]
        PROVE  \E i \in 1..MaxInc : Majority(Cardinality(counted'[p][i][t]))
    <2>0. p \in Node
      BY Zenon DEF TypeOK, HistoryTypeOK
    <2>1. CASE p \in elected[t]
      BY <1>g, <2>0, <2>1, Zenon DEF MajorityInv
    <2>2. CASE FightConfirmed(p) /\ t = currentTerm[p]
      <3>1. pc[p] = "confirmed" /\ counted' = counted
        BY <2>2, Zenon DEF FightConfirmed
      <3>2. Majority(Cardinality(counted[p][inc[p]][t]))
        BY <2>0, <2>2, <3>1, Zenon DEF MajorityInv, Voters
      <3> QED
        BY <1>0, <2>0, <3>1, <3>2, Zenon
    <2> QED
      BY <2>0, <2>1, <2>2, ElectedEffect, Zenon
  <1> QED
    BY <1>1, <1>2, Zenon DEF MajorityInv, Voters

-------------------------------------------------------------------------------
(* Roles *)

\* How the role of p may change: signLeader for a leader l, releaseLeader, standing
\* as a candidate, closing.
SignsAs(p, l) ==
    /\ nodeLeader'[p] = l
    /\ status'[p] = IF nodeLeader[p] = l THEN status[p]
                    ELSE IF l = p THEN "Leader" ELSE "Follower"

RoleMove(p) ==
    \/ nodeLeader'[p] = nodeLeader[p] /\ status'[p] \in {status[p], "Candidate", "Closed"}
    \/ nodeLeader'[p] = None /\ status'[p] = "Follower"
    \/ FightConfirmed(p) /\ SignsAs(p, p)
    \/ \E m \in msgs : m.leader \in Node \ {p} /\ SignsAs(p, m.leader)

\* What a BroadcastLeader may do to the role of a node.
LEMMA RoleBroadcast ==
  ASSUME TypeOK, NetInv, LeaderInv, NEW p \in Node, NEW m \in msgs, OnBroadcastLeader(m)
  PROVE  RoleMove(p)
  <1>0. /\ nodeLeader \in [Node -> Node \cup {None}] /\ status \in [Node -> Status]
        /\ m.to \in Node /\ m.from \in Node
    BY Zenon DEF TypeOK, RoleTypeOK, NetTypeOK, NodeMsg
  <1>1. m.leader = m.from /\ m.leader \in Node \ {m.to} /\ m.leader # None
    BY <1>0, NodeAssumption, ZenonT(30) DEF OnBroadcastLeader, Arrives, LeaderInv, NetInv
  <1> DEFINE release == m.term > term[m.to][m.to] /\ nodeLeader[m.to] \notin {None, m.leader}
             leader  == IF release THEN None ELSE nodeLeader[m.to]
             stat    == IF release THEN "Follower" ELSE status[m.to]
  <1>2. \/ Signed(m.to, leader, stat, m.leader)
        \/ /\ nodeLeader' = [nodeLeader EXCEPT ![m.to] = leader]
           /\ status' = [status EXCEPT ![m.to] = stat]
    BY Zenon DEF OnBroadcastLeader
  <1>3. CASE m.to # p
    BY <1>0, <1>2, <1>3, Zenon DEF Signed, RoleMove
  <1>4. CASE m.to = p
    <2>1. CASE Signed(m.to, leader, stat, m.leader)
      <3>1. SignsAs(p, m.leader)
        BY <1>0, <1>1, <1>4, <2>1, Zenon DEF Signed, SignsAs
      <3> QED
        BY <1>1, <1>4, <3>1, Zenon DEF RoleMove
    <2>2. CASE /\ nodeLeader' = [nodeLeader EXCEPT ![m.to] = leader]
               /\ status' = [status EXCEPT ![m.to] = stat]
      BY <1>0, <1>4, <2>2, Zenon DEF RoleMove
    <2> QED
      BY <1>2, <2>1, <2>2, Zenon
  <1> QED
    BY <1>3, <1>4, Zenon

\* What any step may do to the role of a node.
LEMMA RoleEffect ==
  ASSUME TypeOK, NetInv, LeaderInv, Next, NEW p \in Node
  PROVE  RoleMove(p)
  <1>0. nodeLeader \in [Node -> Node \cup {None}] /\ status \in [Node -> Status]
    BY Zenon DEF TypeOK, RoleTypeOK
  <1>1. UNCHANGED roleVars => RoleMove(p)
    BY Zenon DEF RoleMove, roleVars
  <1>r. ASSUME NEW r \in Node, releaseLeader(r) PROVE RoleMove(p)
    BY <1>0, <1>r, Zenon DEF releaseLeader, RoleMove
  <1>c. ASSUME NEW r \in Node, NEW S, OnSessionClosed(r, S) PROVE RoleMove(p)
    BY <1>1, <1>r, <1>c, Zenon DEF OnSessionClosed, toNextTerm, roleVars
  <1>2. ASSUME NEW r \in Node, fightElection(r) PROVE RoleMove(p)
    <2>1. CASE FightSkip(r) \/ FightBegin(r) \/ FightAskLeader(r) \/ FightTimeout(r)
               \/ FightAsked(r) \/ FightSetTerm(r)
      BY <1>1, <2>1, Zenon DEF FightSkip, FightBegin, FightAskLeader, FightTimeout, FightAsked,
                        FightSetTerm
    <2>2. CASE FightVote(r) \/ FightGetVote(r) \/ FightVoted(r)
      BY <1>1, <2>2, Zenon DEF FightVote, FightGetVote, FightVoted
    <2>3. CASE FightStand(r)
      <3>1. /\ nodeLeader' = nodeLeader
            /\ status' \in {status, [status EXCEPT ![r] = "Candidate"]}
        BY <2>3, Zenon DEF FightStand
      <3> QED
        BY <1>0, <3>1, Zenon DEF RoleMove
    <2>4. CASE FightConfirmed(r)
      <3>1. UNCHANGED roleVars \/ Signed(r, nodeLeader[r], status[r], r)
        BY <2>4, Zenon DEF FightConfirmed
      <3>2. CASE Signed(r, nodeLeader[r], status[r], r) /\ r # p
        BY <1>0, <3>2, Zenon DEF Signed, RoleMove
      <3>3. CASE Signed(r, nodeLeader[r], status[r], r) /\ r = p
        <4>1. SignsAs(p, p)
          BY <1>0, <3>3, Zenon DEF Signed, SignsAs
        <4>2. FightConfirmed(p)
          BY <2>4, <3>3, Zenon
        <4> QED
          BY <4>1, <4>2, Zenon DEF RoleMove
      <3> QED
        BY <1>1, <3>1, <3>2, <3>3, Zenon
    <2> QED
      BY <1>2, <2>1, <2>2, <2>3, <2>4, Zenon DEF fightElection
  <1>3. ASSUME NEW m \in msgs, handleMessage(m) PROVE RoleMove(p)
    <2>0. m.to \in Node /\ m.leader \in Node \cup {None}
      BY Zenon DEF TypeOK, NetTypeOK, NodeMsg
    <2>1. CASE OnAskLeader(m) \/ OnStaleLeader(m) \/ OnRGetVote(m) \/ OnOk(m)
      BY <1>1, <2>1, Zenon DEF OnAskLeader, OnStaleLeader, OnRGetVote, OnOk
    <2>2. CASE OnGetVote(m) \/ OnHigherTerm(m) \/ OnRLeader(m)
      BY <1>1, <1>r, <2>0, <2>2, Zenon DEF OnGetVote, OnHigherTerm, OnRLeader
    <2>3. CASE OnBroadcastLeader(m)
      BY <2>3, RoleBroadcast, Zenon
    <2>4. CASE OnRAskLeader(m)
      <3>1. \/ UNCHANGED roleVars
            \/ /\ Signed(m.to, nodeLeader[m.to], status[m.to], m.leader)
               /\ m.leader # None /\ m.leader \in Connected(m.to)
        BY <2>4, Zenon DEF OnRAskLeader
      <3>2. m.leader \in Connected(m.to) => m.leader # m.to
        BY <2>0, Zenon DEF Connected, NetInv
      <3>3. CASE Signed(m.to, nodeLeader[m.to], status[m.to], m.leader) /\ m.to # p
        BY <1>0, <3>3, Zenon DEF Signed, RoleMove
      <3>4. CASE /\ Signed(m.to, nodeLeader[m.to], status[m.to], m.leader) /\ m.to = p
                 /\ m.leader \in Node \ {p}
        <4>1. SignsAs(p, m.leader)
          BY <1>0, <2>0, <3>4, Zenon DEF Signed, SignsAs
        <4> QED
          BY <3>4, <4>1, Zenon DEF RoleMove
      <3> QED
        BY <1>1, <2>0, <3>1, <3>2, <3>3, <3>4, Zenon
    <2> QED
      BY <1>3, <2>1, <2>2, <2>3, <2>4, Zenon DEF handleMessage
  <1>4. ASSUME NEW r \in Node, HeartbeatLead(r) PROVE RoleMove(p)
    <2>1. UNCHANGED roleVars \/ \E S : OnSessionClosed(r, S)
      BY <1>4, Zenon DEF HeartbeatLead
    <2> QED
      BY <1>1, <1>c, <2>1, Zenon
  <1>5. ASSUME NEW r \in Node, HeartbeatFollow(r) PROVE RoleMove(p)
    <2>1. UNCHANGED roleVars \/ releaseLeader(r) \/ \E S : OnSessionClosed(r, S)
      BY <1>5, Zenon DEF HeartbeatFollow, toNextTerm
    <2> QED
      BY <1>1, <1>r, <1>c, <2>1, Zenon
  <1>6. ASSUME NEW r \in Node, Close(r) PROVE RoleMove(p)
    BY <1>0, <1>6, Zenon DEF Close, RoleMove
  <1>7. ASSUME NEW r \in Node, Restart(r) PROVE RoleMove(p)
    BY <1>0, <1>7, Zenon DEF Restart, RoleMove
  <1>8. ASSUME NEW r \in Node, NEW q \in Node, Connect(r, q) PROVE RoleMove(p)
    BY <1>1, <1>8, Zenon DEF Connect
  <1>9. ASSUME NEW r \in Node, NEW q \in Node, Disconnect(r, q) PROVE RoleMove(p)
    BY <1>c, <1>9, Zenon DEF Disconnect
  <1> QED
    BY <1>2, <1>3, <1>4, <1>5, <1>6, <1>7, <1>8, <1>9, Zenon DEF Next

\* Who has won has won for good.
LEMMA WonStays ==
  ASSUME TypeOK, TypeOK', Next, NEW p \in Node, Won(p)
  PROVE  Won(p)'
  <1>0. counted' \in [Node -> [1..MaxInc -> [Term -> SUBSET Node]]]
    BY Zenon DEF TypeOK, HistoryTypeOK
  <1>1. PICK i \in 1..MaxInc, t \in Term : Majority(Cardinality(counted[p][i][t]))
    BY Zenon DEF Won
  <1>2. Majority(Cardinality(counted'[p][i][t]))
    BY <1>0, <1>1, VotersGrow, VotersFinite, MajorityGrows, Zenon
  <1> QED
    BY <1>2, Zenon DEF Won

\* LeaderInv: who is named as leader has won a vote.
LEMMA LeaderStep ==
  ASSUME TypeOK, TypeOK', NetInv, MajorityInv, MajorityInv', LeaderInv, Next
  PROVE  LeaderInv'
  <1>0. /\ \A r \in Node : inc[r] \in 1..MaxInc /\ inc'[r] \in 1..MaxInc
        /\ \A r \in Node : currentTerm[r] \in Term /\ currentTerm'[r] \in Term
        /\ \A r \in Node : nodeLeader[r] \in Node \cup {None}
        /\ \A m \in msgs : m.to \in Node /\ m.leader \in Node \cup {None}
    BY Zenon DEF TypeOK, NetTypeOK, FightTypeOK, RoleTypeOK, NodeMsg
  <1>c. ASSUME NEW p \in Node, pc[p] = "confirmed" PROVE Won(p)
    BY <1>0, <1>c, Zenon DEF MajorityInv, Voters, Won
  <1>w. ASSUME NEW p \in Node, pc'[p] = "confwait" PROVE Won(p)'
    <2>1. Majority(Cardinality(counted'[p][inc'[p]][currentTerm'[p]]))
      BY <1>w, Zenon DEF MajorityInv, Voters
    <2> QED
      BY <1>0, <2>1, Zenon DEF Won
  <1>1. ASSUME NEW p \in Node, NEW l \in Node, nodeLeader'[p] = l PROVE Won(l)'
    <2>1. CASE nodeLeader[p] = l
      <3>1. Won(l)
        BY <2>1, NodeAssumption, Zenon DEF LeaderInv
      <3> QED
        BY <3>1, WonStays, Zenon
    <2>2. CASE FightConfirmed(p) /\ l = p
      <3>1. pc[p] = "confirmed"
        BY <2>2, Zenon DEF FightConfirmed
      <3>2. Won(l)
        BY <1>c, <2>2, <3>1, Zenon
      <3> QED
        BY <3>2, WonStays, Zenon
    <2>3. ASSUME NEW m \in msgs, m.leader = l
          PROVE  Won(l)'
      <3>1. Won(l)
        BY <2>3, NodeAssumption, Zenon DEF LeaderInv
      <3> QED
        BY <3>1, WonStays, Zenon
    <2>4. \/ nodeLeader[p] = l
          \/ FightConfirmed(p) /\ l = p
          \/ \E m \in msgs : m.leader = l
      BY <1>1, RoleEffect, NodeAssumption, Zenon DEF RoleMove, SignsAs
    <2> QED
      BY <2>1, <2>2, <2>3, <2>4, Zenon
  <1>2. ASSUME NEW p \in Node, status'[p] = "Leader" PROVE nodeLeader'[p] = p
    <2>1. status[p] = "Leader" => nodeLeader[p] = p
      BY Zenon DEF LeaderInv
    <2>2. \A l : SignsAs(p, l) => nodeLeader'[p] = p
      BY <1>2, <2>1, Zenon DEF SignsAs
    <2> QED
      BY <1>2, <2>1, <2>2, RoleEffect, Zenon DEF RoleMove
  <1>3. ASSUME NEW n \in msgs', n.leader # None PROVE Won(n.leader)'
    <2>0. n.leader \in Node
      BY <1>3, Zenon DEF TypeOK, NetTypeOK, NodeMsg
    <2>1. CASE n \in msgs
      <3>1. Won(n.leader)
        BY <1>3, <2>1, Zenon DEF LeaderInv
      <3> QED
        BY <2>0, <3>1, WonStays, Zenon
    <2>2. ASSUME NEW p \in Node, NewRequest(p, n) PROVE Won(n.leader)'
      <3>1. n.leader = p /\ (status[p] = "Leader" \/ pc'[p] = "confwait")
        BY <1>3, <2>2, Zenon DEF NewRequest
      <3>2. status[p] = "Leader" => Won(p)
        BY NodeAssumption, Zenon DEF LeaderInv
      <3>3. Won(p)'
        BY <1>w, <3>1, <3>2, WonStays, Zenon
      <3> QED
        BY <3>1, <3>3, Zenon DEF Won
    <2>3. ASSUME NEW m \in msgs, NewReply(m, n) PROVE Won(n.leader)'
      <3>1. n.leader = nodeLeader[m.to] /\ m.to \in Node
        BY <1>0, <1>3, <2>3, Zenon DEF NewReply
      <3>2. Won(n.leader)
        BY <1>3, <3>1, Zenon DEF LeaderInv, Won
      <3> QED
        BY <2>0, <3>2, WonStays, Zenon
    <2> QED
      BY <2>1, <2>2, <2>3, MsgEffect, Zenon
  <1>4. ASSUME NEW n \in msgs', n.type = "BroadcastLeader" PROVE n.leader = n.from
    <2>1. CASE n \in msgs
      BY <1>4, <2>1, Zenon DEF LeaderInv
    <2>2. ASSUME NEW p \in Node, NewRequest(p, n) PROVE n.leader = n.from
      BY <1>4, <2>2, Zenon DEF NewRequest
    <2>3. ASSUME NEW m \in msgs, NewReply(m, n) PROVE FALSE
      BY <1>4, <2>3, Zenon DEF NewReply, IsReply, ReplyType
    <2> QED
      BY <2>1, <2>2, <2>3, MsgEffect, Zenon
  <1>5. \A p \in Node : nodeLeader'[p] # None => Won(nodeLeader[p])'
    <2> SUFFICES ASSUME NEW p \in Node, nodeLeader'[p] # None PROVE Won(nodeLeader[p])'
      BY Zenon
    <2>1. PICK l \in Node : nodeLeader'[p] = l
      BY Zenon DEF TypeOK, RoleTypeOK
    <2>2. Won(l)'
      BY <1>1, <2>1, Zenon
    <2> QED
      BY <2>1, <2>2, Zenon DEF Won
  <1> QED
    BY <1>2, <1>3, <1>4, <1>5, Zenon DEF LeaderInv

-------------------------------------------------------------------------------
(* The invariant and its consequences *)

\* The first state satisfies the invariant.
LEMMA InitVote == Init => VoteInv
  <1> SUFFICES ASSUME Init PROVE VoteInv
    BY Zenon
  <1>m. msgs = {} /\ \A p \in Node : inc[p] = 1
    BY Zenon DEF Init
  <1>v. \A p \in Node, i \in 1..MaxInc, t \in Term : counted[p][i][t] = {}
    BY Zenon DEF Init
  <1>e. \A p \in Node, t \in Term : Voters(p, t) = {}
    BY <1>m, <1>v, BoundAssumption DEF Voters
  <1>1. NetInv
    BY <1>m, Zenon DEF Init, NetInv
  <1>2. TermInv
    BY DEF Init, TermInv
  <1>3. BackedInv
    BY <1>m, <1>v, Zenon DEF BackedInv
  <1>4. TokenInv
    BY <1>m, <1>e, Zenon DEF TokenInv
  <1>5. CountInv
    <2>1. \A p \in Node, t \in Term : voteCount[p][t] = 0
      BY Zenon DEF Init
    <2>2. \A p \in Node, t \in Term : Cardinality(Voters(p, t)) = 0
      BY <1>e, FS_EmptySet, Zenon
    <2> QED
      BY <1>v, <2>1, <2>2 DEF CountInv
  <1>6. MajorityInv
    BY Zenon DEF Init, MajorityInv
  <1>7. LeaderInv
    BY <1>m, Zenon DEF Init, LeaderInv
  <1> QED
    BY <1>1, <1>2, <1>3, <1>4, <1>5, <1>6, <1>7, Zenon DEF VoteInv

\* Every step preserves the invariant.
LEMMA NextVote == TypeOK /\ TypeOK' /\ VoteInv /\ [Next]_vars => VoteInv'
  <1>1. ASSUME TypeOK, TypeOK', VoteInv, Next PROVE VoteInv'
    <2>1. NetInv' /\ TermInv' /\ BackedInv'
      BY <1>1, NetStep, TermStep, BackedStep, Zenon DEF VoteInv
    <2>2. TokenInv' /\ CountInv'
      BY <1>1, TokenStep, CountStep, Zenon DEF VoteInv
    <2>3. MajorityInv'
      BY <1>1, <2>2, MajorityStep, Zenon DEF VoteInv
    <2>4. LeaderInv'
      BY <1>1, <2>3, LeaderStep, Zenon DEF VoteInv
    <2> QED
      BY <2>1, <2>2, <2>3, <2>4, Zenon DEF VoteInv
  <1>2. ASSUME VoteInv, UNCHANGED vars PROVE VoteInv'
    <2>1. /\ UNCHANGED <<term, voteNode, voteCount, nodeLeader, status, pc, currentTerm>>
          /\ UNCHANGED <<conn, msgs, inc, counted, elected, lost>>
      BY <1>2, Zenon DEF vars, nodeVars, roleVars, fightVars, envVars, history
    <2>2. NetInv' /\ TermInv'
      BY <1>2, <2>1, Zenon DEF VoteInv, NetInv, TermInv
    <2>5. BackedInv'
      BY <1>2, <2>1 DEF VoteInv, BackedInv
    <2>6. \A p, t : Voters(p, t)' = Voters(p, t)
      BY <2>1, Zenon DEF Voters
    <2>7. \A m, p, q, t : CarriesVote(m, p, q, t)' <=> CarriesVote(m, p, q, t)
      BY <2>1 DEF CarriesVote
    <2>3. TokenInv' /\ CountInv'
      BY <1>2, <2>1, <2>6, <2>7, SMTT(30) DEF VoteInv, TokenInv, CountInv
    <2>4. MajorityInv' /\ LeaderInv'
      BY <1>2, <2>1 DEF VoteInv, MajorityInv, LeaderInv, Voters, Won
    <2> QED
      BY <2>2, <2>3, <2>4, <2>5, Zenon DEF VoteInv
  <1> QED
    BY <1>1, <1>2, Zenon

\* The inductive invariant: what is asked, granted and counted between
\* fightElection and the GetVote handlers agrees at every moment.
THEOREM VoteInvariant == Spec => []VoteInv
  BY InitVote, NextVote, TypeCorrect, PTL DEF Spec

\* Two majorities of the nodes share a node.
LEMMA QuorumsMeet ==
  ASSUME NEW S \in SUBSET Node, NEW T \in SUBSET Node,
         Majority(Cardinality(S)), Majority(Cardinality(T))
  PROVE  \E q \in Node : q \in S /\ q \in T
  <1>1. /\ IsFiniteSet(S) /\ IsFiniteSet(T) /\ IsFiniteSet(S \cup T)
        /\ Cardinality(S) \in Nat /\ Cardinality(T) \in Nat
        /\ Cardinality(S \cup T) <= Cardinality(Node) /\ Cardinality(Node) \in Nat
        /\ Cardinality(S \cup T) \in Nat
    BY NodeAssumption, FS_Subset, FS_CardinalityType, Zenon
  <1>2. /\ Cardinality(S \cup T)
             = Cardinality(S) + Cardinality(T) - Cardinality(S \cap T)
        /\ Cardinality(S \cap T) \in Nat
    BY <1>1, FS_Union, FS_Intersection, FS_CardinalityType, Zenon
  <1>3. Cardinality(S \cap T) # 0
    BY <1>1, <1>2 DEF Majority
  <1>4. S \cap T # {}
    BY <1>3, FS_EmptySet, Zenon
  <1> QED
    BY <1>4, Zenon

\* OneWinnerPerTerm for every number of nodes, terms, restarts and faults: two nodes
\* signing themselves at the end of fightElection in one term share a voter, whose
\* voteNode entry names only one of them.
THEOREM OneWinner == Spec => []OneWinnerPerTerm
  <1>1. TypeOK /\ VoteInv => OneWinnerPerTerm
    <2> SUFFICES ASSUME TypeOK, VoteInv, NEW t \in Term, \A p \in Node : t \notin lost[p],
                        NEW p \in elected[t], NEW q \in elected[t]
                 PROVE  p = q
      BY Zenon DEF OneWinnerPerTerm
    <2>0. /\ p \in Node /\ q \in Node
          /\ counted \in [Node -> [1..MaxInc -> [Term -> SUBSET Node]]]
      BY Zenon DEF TypeOK, HistoryTypeOK
    <2>1. PICK i \in 1..MaxInc : Majority(Cardinality(counted[p][i][t]))
      BY Zenon DEF VoteInv, MajorityInv
    <2>2. PICK j \in 1..MaxInc : Majority(Cardinality(counted[q][j][t]))
      BY Zenon DEF VoteInv, MajorityInv
    <2>3. counted[p][i][t] \in SUBSET Node /\ counted[q][j][t] \in SUBSET Node
      BY <2>0, VotersFinite, Zenon
    <2>4. PICK v \in Node : v \in counted[p][i][t] /\ v \in counted[q][j][t]
      BY <2>1, <2>2, <2>3, QuorumsMeet, Zenon
    <2>5. voteNode[v][t] = p /\ voteNode[v][t] = q
      BY <2>0, <2>4 DEF VoteInv, BackedInv
    <2> QED
      BY <2>5, Zenon
  <1> QED
    BY <1>1, TypeCorrect, VoteInvariant, PTL

\* LeaderWonVotes for every instance: signLeader, however it is reached, only ever
\* stores a node that has counted a majority of distinct voters.
THEOREM LeaderWon == Spec => []LeaderWonVotes
  <1>1. VoteInv => LeaderWonVotes
    BY Zenon DEF VoteInv, LeaderInv, LeaderWonVotes, Won
  <1> QED
    BY <1>1, VoteInvariant, PTL

\* LeadsOnlyAfterFight for every instance: of all callers of signLeader only the end
\* of fightElection can make a node lead.
THEOREM LeadsAfterFight == Spec => LeadsOnlyAfterFight
  <1> DEFINE Step == \A p \in Node : status[p] # "Leader" /\ status'[p] = "Leader"
                                       => pc[p] = "confirmed"
  <1>1. ASSUME TypeOK, VoteInv, Next PROVE Step
    <2> SUFFICES ASSUME NEW p \in Node, status[p] # "Leader", status'[p] = "Leader"
                 PROVE  pc[p] = "confirmed"
      BY Zenon
    <2>1. RoleMove(p)
      BY <1>1, RoleEffect, Zenon DEF VoteInv
    <2>2. \A l : SignsAs(p, l) => l = p
      BY Zenon DEF SignsAs
    <2>3. FightConfirmed(p)
      BY <2>1, <2>2, Zenon DEF RoleMove
    <2> QED
      BY <2>3, Zenon DEF FightConfirmed
  <1>2. UNCHANGED vars => Step
    BY Zenon DEF vars, roleVars
  <1>3. TypeOK /\ VoteInv /\ [Next]_vars => [Step]_vars
    BY <1>1, <1>2, Zenon
  <1> QED
    BY <1>3, TypeCorrect, VoteInvariant, PTL DEF Spec, LeadsOnlyAfterFight

===============================================================================
