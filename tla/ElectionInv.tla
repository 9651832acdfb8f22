------------------------------ MODULE ElectionInv ------------------------------
(***************************************************************************)
(* The inductive invariant behind the safety properties of Election.       *)
(*                                                                         *)
(* The argument follows one vote.  fightElection asks each peer once per   *)
(* term and life of its process; the request, the granted vote on its way  *)
(* back and the counted vote are three forms of one token, and at most one *)
(* of them exists.  So voteCount never exceeds the number of distinct      *)
(* voters counted, and whoever reaches the confirmation has a majority of  *)
(* voters whose voteNode names it.                                         *)
(***************************************************************************)
EXTENDS Election

IsRequest(m) == m.type \in RequestType
IsReply(m)   == m.type \in ReplyType

\* The message carries the vote of q in term t to the running incarnation of p:
\* it asks for it or grants it.
CarriesVote(m, p, q, t) ==
    \/ /\ m.type = "GetVote" /\ m.from = p /\ m.to = q
       /\ m.finc = inc[p] /\ m.term = t
    \/ /\ m.type = "RGetVote" /\ m.ok /\ m.from = q /\ m.to = p
       /\ m.tinc = inc[p] /\ m.term = t

\* The voters the running incarnation of p has counted for term t.
Voters(p, t) == counted[p][inc[p]][t]

\* Some life of p counted the votes of a majority in one term.
Won(p) == \E i \in 1..MaxInc, t \in Term : Majority(Cardinality(counted[p][i][t]))

\* Points of the fight before the votes are asked for, and before p votes itself.
BeforeGetVote == {"setterm", "ask", "askwait", "asked", "stand", "vote", "getvote"}
BeforeVoted   == BeforeGetVote \cup {"votewait", "voted"}

-------------------------------------------------------------------------------
\* No node is connected to itself, and messages run between two nodes and belong
\* to incarnations that exist.
NetInv ==
    /\ \A p \in Node : conn[p][p] = 0
    /\ \A m \in msgs :
          /\ m.from # m.to
          /\ IsRequest(m) => m.finc <= inc[m.from]
          /\ IsReply(m) => m.tinc <= inc[m.to]

\* The term of the running fight is not above the node's term once it is set, and
\* no peer's term is above the node's own.
TermInv ==
    /\ \A p \in Node : pc[p] \notin {"idle", "setterm"} => currentTerm[p] <= term[p][p]
    /\ \A p, q \in Node : term[p][q] <= term[p][p]

\* A granted vote is recorded at the voter until the voter loses the record.
BackedInv ==
    /\ \A m \in msgs : m.type = "RGetVote" /\ m.ok /\ m.term \notin lost[m.from]
                         => voteNode[m.from][m.term] = m.to
    /\ \A p \in Node, i \in 1..MaxInc, t \in Term : \A q \in counted[p][i][t] :
          t \notin lost[q] => voteNode[q][t] = p

\* A vote is asked for, under way or counted, once.
TokenInv ==
    \A p, q \in Node, t \in Term :
        /\ \A m \in msgs : CarriesVote(m, p, q, t) =>
              /\ q \notin Voters(p, t)
              /\ \A n \in msgs : CarriesVote(n, p, q, t) => n = m
              /\ t <= term[p][p]
              /\ pc[p] \in BeforeGetVote => t < currentTerm[p]
        /\ q \in Voters(p, t) =>
              /\ t <= term[p][p]
              /\ pc[p] \in BeforeGetVote => t < currentTerm[p]
              /\ q = p /\ pc[p] \in BeforeVoted => t < currentTerm[p]

\* What is counted: never more than the voters, nothing for a life to come.
CountInv ==
    /\ \A p \in Node, t \in Term : voteCount[p][t] <= Cardinality(Voters(p, t))
    /\ \A p \in Node, i \in 1..MaxInc, t \in Term : i > inc[p] => counted[p][i][t] = {}

\* A majority stands behind every candidate being confirmed and every winner.
MajorityInv ==
    /\ \A p \in Node : pc[p] \in {"confwait", "confirmed"}
                         => Majority(Cardinality(Voters(p, currentTerm[p])))
    /\ \A t \in Term : \A p \in elected[t] :
          \E i \in 1..MaxInc : Majority(Cardinality(counted[p][i][t]))

\* Whoever is named as leader, in a node or in a message, has won; a leading node
\* names itself, and a node announces nobody but itself.
LeaderInv ==
    /\ \A p \in Node : nodeLeader[p] # None => Won(nodeLeader[p])
    /\ \A p \in Node : status[p] = "Leader" => nodeLeader[p] = p
    /\ \A m \in msgs : m.leader # None => Won(m.leader)
    /\ \A m \in msgs : m.type = "BroadcastLeader" => m.leader = m.from

\* The inductive invariant of the vote: from it follow OneWinnerPerTerm,
\* LeaderWonVotes, OwnTermIsHighest and LeadsOnlyAfterFight.
VoteInv ==
    /\ NetInv /\ TermInv /\ BackedInv /\ TokenInv /\ CountInv /\ MajorityInv
    /\ LeaderInv

===============================================================================
