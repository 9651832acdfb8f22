------------------------------- MODULE Election -------------------------------
(***************************************************************************)
(* Leader election of package cluster (src/cluster/contact.go, service.go, *)
(* node.go).                                                               *)
(*                                                                         *)
(* Every node runs a goroutine fightElection, a heartbeat loop, a loop     *)
(* that keeps a connection to every peer, and one goroutine per received   *)
(* message (both sockets are opened with ordered = false, so messages of   *)
(* one connection are handled in any order).  A message handler is one     *)
(* action; fightElection is cut into the stretches between the points      *)
(* where a handler can change what it reads next.  Sleeps, the 2 s timeout *)
(* of sendAndWait and the heartbeat timeouts may elapse at any moment.  A  *)
(* lost message is one that is never handled.                              *)
(***************************************************************************)
EXTENDS Integers, FiniteSets

CONSTANTS
    Node,         \* the configured nodes (nodesAll)
    None,         \* no node: a nil *Node, the empty node id
    MaxTerm,      \* bound: highest term a fight may reach
    Fighter,      \* bound: nodes whose fightElection gets past its first sleep
    MaxSleeping,  \* bound: fightElection goroutines of a node still in their first sleep
    Restarter,    \* bound: nodes whose process may stop and start again
    MaxInc,       \* bound: incarnations (process starts) of a node
    MaxFaults,    \* bound: waits timed out, connections lost, nodes closed
    VoteLimit,    \* size above which heartbeat trims the vote maps (20 in the code)
    VoteDrop      \* entries removed by one trim (10 in the code)

ASSUME NodeAssumption ==
    IsFiniteSet(Node) /\ None \notin Node /\ Fighter \subseteq Node
    /\ Restarter \subseteq Node
ASSUME BoundAssumption ==
    /\ MaxTerm \in Nat /\ MaxSleeping \in Nat \ {0}
    /\ MaxInc \in Nat \ {0} /\ MaxFaults \in Nat
    /\ VoteLimit \in Nat /\ VoteDrop \in Nat

VARIABLES
    term,         \* term[p][q]: Node.term of q in p's table; term[p][p] is GetMyTerm()
    voteNode,     \* voteNode[p][t]: whom p voted for in term t
    voteCount,    \* voteCount[p][t]: votes p has counted for itself in term t
    nodeLeader,   \* nodeLeader[p]: cluster.nodeLeader
    status,       \* status[p]: cluster.status
    pc,           \* pc[p]: where the running fightElection is; "idle" iff not fighting
    currentTerm,  \* currentTerm[p]: the local currentTerm of that fight
    awaiting,     \* awaiting[p]: senderNodeMap of the running sendAndWait
    replies,      \* replies[p]: Success values in nodeMsgList of the leader confirmation
    sleeping,     \* sleeping[p]: spawned fightElection goroutines not yet past line 210
    conn,         \* conn[p][q]: incarnation of q that p's nodeConnector reaches, 0 if nil
    msgs,         \* messages sent and not yet handled
    inc,          \* inc[p]: incarnation of p
    closed,       \* nodes whose Close() has run
    deaf,         \* <<p, q>>: the reader of p's session at the closed q has ended
    faults,       \* how many of those so far
    \* history, read by no action
    counted,      \* counted[p][i][t]: whose votes of term t incarnation i of p counted
    elected,      \* elected[t]: the nodes that won a fight for term t
    lost          \* lost[p]: terms for which p has dropped the record of its vote

nodeVars  == <<term, voteNode, voteCount>>
roleVars  == <<nodeLeader, status>>
fightVars == <<pc, currentTerm, awaiting, replies, sleeping>>
envVars   == <<inc, closed, deaf, faults>>
history   == <<counted, elected, lost>>
vars == <<nodeVars, roleVars, fightVars, conn, msgs, envVars, history>>

-------------------------------------------------------------------------------
Term == 0..MaxTerm
Status == {"Follower", "Candidate", "Leader", "Closed"}
RequestType == {"AskLeader", "GetVote", "BroadcastLeader"}
ReplyType == {"RAskLeader", "RGetVote", "RLeader", "Ok"}

\* The wait of a sendAndWait: the reply it waits for and where the fight goes on.
Waiting == {"askwait", "votewait", "confwait"}
AwaitedType == [w \in Waiting |-> CASE w = "askwait" -> "RAskLeader"
                                    [] w = "votewait" -> "RGetVote"
                                    [] w = "confwait" -> "RLeader"]
Resume == [w \in Waiting |-> CASE w = "askwait" -> "asked"
                               [] w = "votewait" -> "voted"
                               [] w = "confwait" -> "confirmed"]
Pc == {"idle", "setterm", "ask", "asked", "stand", "vote", "getvote", "voted",
       "confirmed"} \cup Waiting

\* A NodeMsg on the session between two incarnations.  req is the ReqId: the
\* fight term of the request, 0 when the code sends none (and no Flag either).
\* ok is Success, FALSE when nil.
NodeMsg == [type : RequestType \cup ReplyType, from : Node, to : Node,
            finc : 1..MaxInc, tinc : 1..MaxInc, req : Term,
            term : Term, leader : Node \cup {None}, ok : BOOLEAN]

Majority(n) == n > Cardinality(Node) \div 2
Connected(p) == {q \in Node : conn[p][q] # 0}
OnlineMajority(p) == Majority(Cardinality(Connected(p)) + 1)

\* Faulty variants (Faulty...) are what a slip in the code would make of the
\* definition that follows them; each must break a property below.

\* setTerm without its comparison.
FaultyRaise(old, t) == t

\* Node.setTerm: a term only grows.
Raise(old, t) == IF t > old THEN t ELSE old

\* p's node table after it learns term t of the nodes in S.
Learn(p, S, t) ==
    [term EXCEPT ![p] = [q \in Node |-> IF q \in S THEN Raise(@[q], t) ELSE @[q]]]

\* The peers p is connected to whose reader of the session has not ended.
Hearing(p) == {q \in Connected(p) : <<p, q>> \notin deaf}

\* The requests p writes to every peer it is connected to, unless nobody reads them.
ToAll(p, type, req, t, l) ==
    {[type |-> type, from |-> p, to |-> q, finc |-> inc[p], tinc |-> conn[p][q],
      req |-> req, term |-> t, leader |-> l, ok |-> FALSE] : q \in Hearing(p)}

\* Close does not interrupt the read a session's reader is blocked in: at a closed
\* peer in S it takes one more request of p and ends.
LastRead(p, S) == deaf' = deaf \cup {<<p, q>> : q \in S \cap closed}

\* Term and leader of the answer swapped.
FaultyReply(m, type, req, t, l, ok) ==
    [type |-> type, from |-> m.to, to |-> m.from, finc |-> m.tinc, tinc |-> m.finc,
     req |-> req, term |-> l, leader |-> t, ok |-> ok]

\* The answer to request m on the session m came from.
Reply(m, type, req, t, l, ok) ==
    [type |-> type, from |-> m.to, to |-> m.from, finc |-> m.tinc, tinc |-> m.finc,
     req |-> req, term |-> t, leader |-> l, ok |-> ok]

\* The messages left when m is handled and answered with R: an answer needs the
\* session to be still open at the node that asked.
Answered(m, R) ==
    (msgs \ {m}) \cup IF conn[m.from][m.to] = m.tinc THEN R ELSE {}

\* go cluster.fightElection()
Spawned(p) == [sleeping EXCEPT ![p] = IF @ < MaxSleeping THEN @ + 1 ELSE @]

releaseLeader(p) ==
    /\ nodeLeader' = [nodeLeader EXCEPT ![p] = None]
    /\ status' = [status EXCEPT ![p] = "Follower"]

toNextTerm(p) ==
    /\ releaseLeader(p)
    /\ sleeping' = Spawned(p)

\* signLeader(new) at p: whether it accepts, given p's terms and current leader.
Accepts(p, terms, leader, new) ==
    /\ terms[new] >= terms[p]
    /\ leader # None => terms[new] >= terms[leader]

\* signLeader with the roles of the two branches swapped.
FaultySigned(p, leader, stat, new) ==
    /\ nodeLeader' = [nodeLeader EXCEPT ![p] = new]
    /\ status' = [status EXCEPT ![p] = IF leader = new THEN stat
                                       ELSE IF new = p THEN "Follower" ELSE "Leader"]

\* signLeader's effect when it accepts; (leader, stat) is the role it finds.
Signed(p, leader, stat, new) ==
    /\ nodeLeader' = [nodeLeader EXCEPT ![p] = new]
    /\ status' = [status EXCEPT ![p] = IF leader = new THEN stat
                                       ELSE IF new = p THEN "Leader" ELSE "Follower"]

\* voteToNode that does not look for an earlier vote.
FaultyGrants(p, t) == t >= term[p][p]

\* Node.voteToNode at p: does p give its vote of term t?
Grants(p, t) == voteNode[p][t] = None /\ t >= term[p][p]

-------------------------------------------------------------------------------
(* fightElection *)

\* The fight returns; needNextTerm makes its deferred function spawn another one.
Return(p, needNextTerm) ==
    /\ pc' = [pc EXCEPT ![p] = "idle"]
    /\ currentTerm' = [currentTerm EXCEPT ![p] = 0]
    /\ awaiting' = [awaiting EXCEPT ![p] = {}]
    /\ replies' = [replies EXCEPT ![p] = {}]
    /\ sleeping' = IF needNextTerm THEN Spawned(p) ELSE sleeping

\* Go to a point of the fight, leaving the other locals alone.
Goto(p, l) ==
    /\ pc' = [pc EXCEPT ![p] = l]
    /\ UNCHANGED <<currentTerm, awaiting, replies, sleeping>>

\* sendAndWait up to its select loop.
SendAndWait(p, type, t, l, wait) ==
    /\ msgs' = msgs \cup ToAll(p, type, currentTerm[p], t, l)
    /\ LastRead(p, Connected(p))
    /\ pc' = [pc EXCEPT ![p] = wait]
    /\ awaiting' = [awaiting EXCEPT ![p] = Connected(p)]
    /\ replies' = [replies EXCEPT ![p] = {}]
    /\ UNCHANGED <<currentTerm, sleeping>>

\* A sleeping goroutine wakes up and gives up: closed, leading, a leader is
\* known, or another fight is running.
FightSkip(p) ==
    /\ sleeping[p] > 0
    /\ status[p] \in {"Closed", "Leader"} \/ nodeLeader[p] # None \/ pc[p] # "idle"
    /\ sleeping' = [sleeping EXCEPT ![p] = @ - 1]
    /\ UNCHANGED <<nodeVars, roleVars, pc, currentTerm, awaiting, replies, conn, msgs,
                   envVars, history>>

\* A sleeping goroutine wakes up and takes the fighting flag; currentTerm++.
FightBegin(p) ==
    /\ sleeping[p] > 0 /\ p \in Fighter
    /\ status[p] \in {"Follower", "Candidate"} /\ nodeLeader[p] = None /\ pc[p] = "idle"
    /\ term[p][p] < MaxTerm
    /\ sleeping' = [sleeping EXCEPT ![p] = @ - 1]
    /\ pc' = [pc EXCEPT ![p] = "setterm"]
    /\ currentTerm' = [currentTerm EXCEPT ![p] = term[p][p] + 1]
    /\ UNCHANGED <<nodeVars, roleVars, awaiting, replies, conn, msgs, envVars, history>>

\* nodeMy.setTerm(currentTerm): fails when a handler has raised the term meanwhile.
FightSetTerm(p) ==
    /\ pc[p] = "setterm"
    /\ IF currentTerm[p] > term[p][p]
       THEN term' = Learn(p, {p}, currentTerm[p]) /\ Goto(p, "ask")
       ELSE Return(p, TRUE) /\ UNCHANGED term
    /\ UNCHANGED <<voteNode, voteCount, roleVars, conn, msgs, envVars, history>>

\* Wait for a majority of nodes online, then ask all of them for the leader.
FightAskLeader(p) ==
    /\ pc[p] = "ask"
    /\ \/ nodeLeader[p] # None /\ Return(p, FALSE) /\ UNCHANGED <<msgs, deaf>>
       \/ /\ nodeLeader[p] = None /\ OnlineMajority(p)
          /\ SendAndWait(p, "AskLeader", currentTerm[p], None, "askwait")
    /\ UNCHANGED <<nodeVars, roleVars, conn, inc, closed, faults, history>>

\* The timeout of sendAndWait.
FightTimeout(p) ==
    /\ pc[p] \in Waiting /\ faults < MaxFaults
    /\ faults' = faults + 1
    /\ pc' = [pc EXCEPT ![p] = Resume[pc[p]]]
    /\ awaiting' = [awaiting EXCEPT ![p] = {}]
    /\ UNCHANGED <<currentTerm, replies, sleeping, nodeVars, roleVars, conn, msgs, inc,
                   closed, deaf, history>>

FightAsked(p) ==
    /\ pc[p] = "asked"
    /\ IF nodeLeader[p] # None THEN Return(p, FALSE) ELSE Goto(p, "stand")
    /\ UNCHANGED <<nodeVars, roleVars, conn, msgs, envVars, history>>

\* Stand as a candidate unless closed or leading.
FightStand(p) ==
    /\ pc[p] = "stand"
    /\ IF status[p] \in {"Closed", "Leader"}
       THEN Return(p, FALSE) /\ UNCHANGED status
       ELSE Goto(p, "vote") /\ status' = [status EXCEPT ![p] = "Candidate"]
    /\ UNCHANGED <<nodeVars, nodeLeader, conn, msgs, envVars, history>>

\* The checks before the vote; with no majority online the loop sleeps and retries.
FightVote(p) ==
    /\ pc[p] = "vote"
    /\ \/ nodeLeader[p] # None /\ Return(p, FALSE)
       \/ /\ nodeLeader[p] = None
          /\ status[p] # "Candidate" \/ currentTerm[p] < term[p][p]
          /\ Return(p, TRUE)
       \/ /\ nodeLeader[p] = None /\ status[p] = "Candidate"
          /\ currentTerm[p] >= term[p][p] /\ OnlineMajority(p)
          /\ Goto(p, "getvote")
    /\ UNCHANGED <<nodeVars, roleVars, conn, msgs, envVars, history>>

\* Ask for votes: in the term read now, which may be above currentTerm.
FightGetVote(p) ==
    /\ pc[p] = "getvote"
    /\ SendAndWait(p, "GetVote", term[p][p], None, "votewait")
    /\ UNCHANGED <<nodeVars, roleVars, conn, inc, closed, faults, history>>

\* Vote for myself, count, and on a majority with no higher term known ask
\* everyone to confirm me.
FightVoted(p) ==
    /\ pc[p] = "voted"
    /\ LET t     == currentTerm[p]
           mine  == Grants(p, t)
           count == voteCount[p][t] + IF mine THEN 1 ELSE 0
       IN  /\ voteNode' = IF mine THEN [voteNode EXCEPT ![p][t] = p] ELSE voteNode
           /\ voteCount' = [voteCount EXCEPT ![p][t] = count]
           /\ counted' = IF mine THEN [counted EXCEPT ![p][inc[p]][t] = @ \cup {p}] ELSE counted
           /\ IF Majority(count) /\ \A q \in Node : term[p][q] <= t
              THEN SendAndWait(p, "BroadcastLeader", t, p, "confwait")
              ELSE Return(p, TRUE) /\ UNCHANGED <<msgs, deaf>>
    /\ UNCHANGED <<term, roleVars, conn, inc, closed, faults, elected, lost>>

\* Sign myself when somebody answered and everybody who answered agreed.
FightConfirmed(p) ==
    /\ pc[p] = "confirmed"
    /\ IF replies[p] = {TRUE} /\ Accepts(p, term[p], nodeLeader[p], p)
       THEN /\ Signed(p, nodeLeader[p], status[p], p)
            /\ elected' = [elected EXCEPT ![currentTerm[p]] = @ \cup {p}]
            /\ Return(p, FALSE)
       ELSE Return(p, TRUE) /\ UNCHANGED <<roleVars, elected>>
    /\ UNCHANGED <<nodeVars, conn, msgs, envVars, counted, lost>>

fightElection(p) ==
    \/ FightSkip(p) \/ FightBegin(p) \/ FightSetTerm(p) \/ FightAskLeader(p)
    \/ FightTimeout(p) \/ FightAsked(p) \/ FightStand(p) \/ FightVote(p)
    \/ FightGetVote(p) \/ FightVoted(p) \/ FightConfirmed(p)

-------------------------------------------------------------------------------
(* Messages handled by the service acceptor *)

\* Message m of this type has reached the incarnation it was sent to.
Arrives(m, type) == m.type = type /\ m.tinc = inc[m.to]

\* Handler of msgSAskLeader: answer with the leader unless its term is too old.
OnAskLeader(m) ==
    LET p == m.to
        l == nodeLeader[p]
    IN  /\ Arrives(m, "AskLeader")
        /\ msgs' = Answered(m,
              {IF l # None /\ term[p][l] >= m.term
               THEN Reply(m, "RAskLeader", m.req, term[p][l], l, FALSE)
               ELSE Reply(m, "RAskLeader", m.req, term[p][p], None, FALSE)})
        /\ UNCHANGED <<nodeVars, roleVars, fightVars, conn, envVars, history>>

\* Handler of msgSGetVote: a leader steps down, then the vote is given or refused.
OnGetVote(m) ==
    LET p == m.to
        chooseYou == Grants(p, m.term)
    IN  /\ Arrives(m, "GetVote")
        /\ IF status[p] = "Leader" THEN releaseLeader(p) ELSE UNCHANGED roleVars
        /\ voteNode' = IF chooseYou THEN [voteNode EXCEPT ![p][m.term] = m.from]
                                    ELSE voteNode
        /\ msgs' = Answered(m, {Reply(m, "RGetVote", m.req, m.term, None, chooseYou)})
        /\ UNCHANGED <<term, voteCount, fightVars, conn, envVars, history>>

\* Handler of msgSBroadcastLeader, for a term below mine: refuse.
OnStaleLeader(m) ==
    /\ Arrives(m, "BroadcastLeader")
    /\ m.term < term[m.to][m.to]
    /\ msgs' = Answered(m, {Reply(m, "RLeader", m.req, term[m.to][m.to], None, FALSE)})
    /\ UNCHANGED <<nodeVars, roleVars, fightVars, conn, envVars, history>>

\* Handler of msgSBroadcastLeader, otherwise: drop another leader of an older
\* term, learn the term, answer Ok, then sign the leader unless it is the
\* current one; a heartbeat from the current leader gets no further answer.
OnBroadcastLeader(m) ==
    LET p       == m.to
        release == m.term > term[p][p] /\ nodeLeader[p] \notin {None, m.leader}
        leader  == IF release THEN None ELSE nodeLeader[p]
        stat    == IF release THEN "Follower" ELSE status[p]
        same    == leader = m.leader /\ term'[p][leader] = m.term
        success == same \/ Accepts(p, term'[p], leader, m.leader)
        ok      == Reply(m, "Ok", 0, m.term, None, FALSE)
        answer  == Reply(m, "RLeader", m.req, m.term, None, success)
    IN  /\ Arrives(m, "BroadcastLeader")
        /\ m.term >= term[p][p]
        /\ term' = Learn(p, {p, m.from, m.leader}, m.term)
        /\ IF success
           THEN Signed(p, leader, stat, m.leader)
           ELSE /\ nodeLeader' = [nodeLeader EXCEPT ![p] = leader]
                /\ status' = [status EXCEPT ![p] = stat]
        /\ msgs' = Answered(m, IF same /\ m.req = 0 THEN {ok} ELSE {ok, answer})
        /\ UNCHANGED <<voteNode, voteCount, fightVars, conn, envVars, history>>

-------------------------------------------------------------------------------
(* Messages handled by the connector to a peer *)

\* A reply with a higher term, while a leader is known: release it, and nothing more.
OnHigherTerm(m) ==
    LET p == m.to
    IN  /\ m.type \in ReplyType /\ m.tinc = inc[p]
        /\ nodeLeader[p] # None /\ term[p][p] < m.term
        /\ releaseLeader(p)
        /\ msgs' = msgs \ {m}
        /\ UNCHANGED <<nodeVars, fightVars, conn, envVars, history>>

\* Any other reply: learn the term before looking at the message type.
Takes(m, type) ==
    LET p == m.to
    IN  /\ Arrives(m, type)
        /\ nodeLeader[p] = None \/ term[p][p] >= m.term
        /\ term' = Learn(p, {p, m.from, m.leader}, m.term)
        /\ msgs' = msgs \ {m}

\* sendAndWaitChan <- nodeMsg: the select loop takes the reply, whichever request
\* it answers, and ends when no awaited one is left.
Deliver(p, m) ==
    LET left == IF m.type = AwaitedType[pc[p]] /\ m.req = currentTerm[p]
                THEN awaiting[p] \ {m.from} ELSE awaiting[p]
    IN  IF pc[p] \in Waiting
        THEN /\ awaiting' = [awaiting EXCEPT ![p] = left]
             /\ replies' = IF pc[p] = "confwait" THEN [replies EXCEPT ![p] = @ \cup {m.ok}]
                                                 ELSE replies
             /\ pc' = IF left = {} THEN [pc EXCEPT ![p] = Resume[@]] ELSE pc
             /\ UNCHANGED <<currentTerm, sleeping>>
        ELSE UNCHANGED fightVars

\* Handler of msgRAskLeader: sign the leader named, unless it is not alive for me.
OnRAskLeader(m) ==
    LET p == m.to
    IN  /\ Takes(m, "RAskLeader")
        /\ IF m.leader # None /\ m.leader \notin Connected(p)
           THEN UNCHANGED <<roleVars, fightVars>>
           ELSE /\ IF m.leader # None /\ Accepts(p, term'[p], nodeLeader[p], m.leader)
                   THEN Signed(p, nodeLeader[p], status[p], m.leader)
                   ELSE UNCHANGED roleVars
                /\ Deliver(p, m)
        /\ UNCHANGED <<voteNode, voteCount, conn, envVars, history>>

\* A refused vote counted like a granted one.
FaultyRGetVote(m) ==
    LET p == m.to
    IN  /\ Takes(m, "RGetVote")
        /\ voteCount' = [voteCount EXCEPT ![p][m.term] = @ + 1]
        /\ counted' = IF m.ok THEN [counted EXCEPT ![p][inc[p]][m.term] = @ \cup {m.from}]
                              ELSE counted
        /\ Deliver(p, m)
        /\ UNCHANGED <<voteNode, roleVars, conn, envVars, elected, lost>>

\* Handler of msgRGetVote: count the vote for the term it was asked in.
OnRGetVote(m) ==
    LET p == m.to
    IN  /\ Takes(m, "RGetVote")
        /\ IF m.ok
           THEN /\ voteCount' = [voteCount EXCEPT ![p][m.term] = @ + 1]
                /\ counted' = [counted EXCEPT ![p][inc[p]][m.term] = @ \cup {m.from}]
           ELSE UNCHANGED <<voteCount, counted>>
        /\ Deliver(p, m)
        /\ UNCHANGED <<voteNode, roleVars, conn, envVars, elected, lost>>

\* The answer to a confirmation request not passed to sendAndWait.
FaultyRLeader(m) ==
    LET p == m.to
    IN  /\ Takes(m, "RLeader")
        /\ IF ~m.ok /\ nodeLeader[p] = p THEN releaseLeader(p) ELSE UNCHANGED roleVars
        /\ UNCHANGED <<fightVars, voteNode, voteCount, conn, envVars, history>>

\* Handler of msgRLeader: a refused leader steps down.
OnRLeader(m) ==
    LET p == m.to
    IN  /\ Takes(m, "RLeader")
        /\ IF ~m.ok /\ nodeLeader[p] = p THEN releaseLeader(p) ELSE UNCHANGED roleVars
        /\ Deliver(p, m)
        /\ UNCHANGED <<voteNode, voteCount, conn, envVars, history>>

OnOk(m) ==
    /\ Takes(m, "Ok")
    /\ UNCHANGED <<voteNode, voteCount, roleVars, fightVars, conn, envVars, history>>

handleMessage(m) ==
    \/ OnAskLeader(m) \/ OnGetVote(m) \/ OnStaleLeader(m) \/ OnBroadcastLeader(m)
    \/ OnHigherTerm(m) \/ OnRAskLeader(m) \/ OnRGetVote(m) \/ OnRLeader(m) \/ OnOk(m)

-------------------------------------------------------------------------------
(* Connections, heartbeat, life cycle *)

\* holdConnection: connect to a peer whose acceptor is open.
Connect(p, q) ==
    /\ p # q /\ conn[p][q] = 0
    /\ status[p] # "Closed" /\ q \notin closed
    /\ conn' = [conn EXCEPT ![p][q] = inc[q]]
    /\ UNCHANGED <<nodeVars, roleVars, fightVars, msgs, envVars, history>>

\* OnSessionClosed for every peer in S: forget the connections; without its
\* leader or a majority online the node goes to the next term.
OnSessionClosed(p, S) ==
    /\ conn' = [conn EXCEPT ![p] = [q \in Node |-> IF q \in S THEN 0 ELSE @[q]]]
    /\ faults' = faults + Cardinality({q \in S : conn[p][q] = inc[q]})
    /\ IF /\ status[p] # "Closed"
          /\ \/ nodeLeader[p] \in S
             \/ /\ ~Majority(Cardinality(Connected(p) \ S) + 1)
                /\ pc[p] = "idle"
       THEN toNextTerm(p)
       ELSE UNCHANGED <<roleVars, sleeping>>

\* A connection breaks; the one to an earlier life of q is bound to.
Disconnect(p, q) ==
    /\ q \in Connected(p)
    /\ faults < MaxFaults \/ conn[p][q] # inc[q]
    /\ OnSessionClosed(p, {q})
    /\ UNCHANGED <<nodeVars, pc, currentTerm, awaiting, replies, msgs, inc, closed, deaf,
                   history>>

\* What one heartbeat removes from a vote map with these terms: the oldest
\* VoteDrop entries once there are more than VoteLimit.
Oldest(terms) ==
    IF Cardinality(terms) > VoteLimit
    THEN {t \in terms : Cardinality({u \in terms : u < t}) < VoteDrop}
    ELSE {}

trimVotes(p) ==
    LET counts == Oldest({t \in Term : voteCount[p][t] > 0})
        votes  == Oldest({t \in Term : voteNode[p][t] # None})
    IN  /\ voteCount' = [voteCount EXCEPT ![p] =
                           [t \in Term |-> IF t \in counts THEN 0 ELSE @[t]]]
        /\ voteNode' = [voteNode EXCEPT ![p] =
                           [t \in Term |-> IF t \in votes THEN None ELSE @[t]]]
        /\ lost' = [lost EXCEPT ![p] = @ \cup votes]

\* A heartbeat of a leader: close the peers that timed out, tell the others.
HeartbeatLead(p) ==
    /\ status[p] = "Leader" /\ pc[p] = "idle"
    /\ \E T \in SUBSET Connected(p) :
          /\ faults + Cardinality(T) <= MaxFaults
          /\ IF T = {} THEN UNCHANGED <<conn, faults, roleVars, sleeping>>
                       ELSE OnSessionClosed(p, T)
          /\ msgs' = msgs \cup {m \in ToAll(p, "BroadcastLeader", 0, term[p][p], p) :
                                  m.to \notin T}
          /\ LastRead(p, Connected(p) \ T)
    /\ trimVotes(p)
    /\ UNCHANGED <<term, pc, currentTerm, awaiting, replies, inc, closed, counted, elected>>

\* A heartbeat of another node: give up a leader that timed out, or start an
\* election after a long time without one.
HeartbeatFollow(p) ==
    /\ status[p] \in {"Follower", "Candidate"} /\ pc[p] = "idle"
    /\ \/ UNCHANGED <<conn, faults, roleVars, sleeping>>
       \/ nodeLeader[p] = None /\ toNextTerm(p) /\ UNCHANGED <<conn, faults>>
       \/ /\ nodeLeader[p] # None /\ faults < MaxFaults
          /\ IF nodeLeader[p] \in Connected(p)
             THEN OnSessionClosed(p, {nodeLeader[p]})
             ELSE toNextTerm(p) /\ faults' = faults + 1 /\ UNCHANGED conn
    /\ trimVotes(p)
    /\ UNCHANGED <<term, pc, currentTerm, awaiting, replies, msgs, inc, closed, deaf,
                   counted, elected>>

\* Close(): once per process; every connector closes, which a closed node ignores.
Close(p) ==
    /\ p \notin closed /\ faults < MaxFaults
    /\ status' = [status EXCEPT ![p] = "Closed"]
    /\ closed' = closed \cup {p}
    /\ conn' = [conn EXCEPT ![p] = [q \in Node |-> 0]]
    /\ faults' = faults + 1
    /\ UNCHANGED <<nodeVars, nodeLeader, fightVars, msgs, inc, deaf, history>>

\* The process stops and a new one starts: nothing of its state was stored.
Restart(p) ==
    /\ p \in Restarter /\ inc[p] < MaxInc
    /\ inc' = [inc EXCEPT ![p] = @ + 1]
    /\ closed' = closed \ {p}
    /\ deaf' = {s \in deaf : s[2] # p}
    /\ term' = [term EXCEPT ![p] = [q \in Node |-> 0]]
    /\ voteNode' = [voteNode EXCEPT ![p] = [t \in Term |-> None]]
    /\ voteCount' = [voteCount EXCEPT ![p] = [t \in Term |-> 0]]
    /\ lost' = [lost EXCEPT ![p] = @ \cup {t \in Term : voteNode[p][t] # None}]
    /\ nodeLeader' = [nodeLeader EXCEPT ![p] = None]
    /\ status' = [status EXCEPT ![p] = "Follower"]
    /\ pc' = [pc EXCEPT ![p] = "idle"]
    /\ currentTerm' = [currentTerm EXCEPT ![p] = 0]
    /\ awaiting' = [awaiting EXCEPT ![p] = {}]
    /\ replies' = [replies EXCEPT ![p] = {}]
    /\ sleeping' = [sleeping EXCEPT ![p] = 1]
    /\ conn' = [conn EXCEPT ![p] = [q \in Node |-> 0]]
    /\ UNCHANGED <<msgs, faults, counted, elected>>

\* Every node after StartUp and the first pass of holdConnection: a follower
\* connected to every peer, fightElection spawned and still in its first sleep.
Init ==
    /\ term = [p \in Node |-> [q \in Node |-> 0]]
    /\ voteNode = [p \in Node |-> [t \in Term |-> None]]
    /\ voteCount = [p \in Node |-> [t \in Term |-> 0]]
    /\ nodeLeader = [p \in Node |-> None]
    /\ status = [p \in Node |-> "Follower"]
    /\ pc = [p \in Node |-> "idle"]
    /\ currentTerm = [p \in Node |-> 0]
    /\ awaiting = [p \in Node |-> {}]
    /\ replies = [p \in Node |-> {}]
    /\ sleeping = [p \in Node |-> 1]
    /\ conn = [p \in Node |-> [q \in Node |-> IF q = p THEN 0 ELSE 1]]
    /\ msgs = {}
    /\ inc = [p \in Node |-> 1]
    /\ closed = {}
    /\ deaf = {}
    /\ faults = 0
    /\ counted = [p \in Node |-> [i \in 1..MaxInc |-> [t \in Term |-> {}]]]
    /\ elected = [t \in Term |-> {}]
    /\ lost = [p \in Node |-> {}]

Next ==
    \/ \E p \in Node : fightElection(p) \/ HeartbeatLead(p) \/ HeartbeatFollow(p)
                       \/ Close(p) \/ Restart(p)
    \/ \E p, q \in Node : Connect(p, q) \/ Disconnect(p, q)
    \/ \E m \in msgs : handleMessage(m)

Spec == Init /\ [][Next]_vars

\* The Go scheduler runs every goroutine: a fight goes on, and a message that is
\* not lost is handled.
Fairness ==
    /\ \A p \in Node : WF_vars(fightElection(p))
    /\ \A p \in Node, type \in RequestType \cup ReplyType :
          WF_vars(\E m \in msgs : m.to = p /\ m.type = type /\ handleMessage(m))

FairSpec == Spec /\ Fairness

-------------------------------------------------------------------------------
(* Properties *)

NodeTypeOK ==
    /\ term \in [Node -> [Node -> Term]]
    /\ voteNode \in [Node -> [Term -> Node \cup {None}]]
    /\ voteCount \in [Node -> [Term -> Nat]]

RoleTypeOK ==
    /\ nodeLeader \in [Node -> Node \cup {None}]
    /\ status \in [Node -> Status]

FightTypeOK ==
    /\ pc \in [Node -> Pc]
    /\ currentTerm \in [Node -> Term]
    /\ awaiting \in [Node -> SUBSET Node]
    /\ replies \in [Node -> SUBSET BOOLEAN]
    /\ sleeping \in [Node -> Nat]

NetTypeOK ==
    /\ conn \in [Node -> [Node -> 0..MaxInc]]
    /\ msgs \subseteq NodeMsg
    /\ inc \in [Node -> 1..MaxInc]
    /\ closed \subseteq Node
    /\ deaf \subseteq Node \X Node
    /\ faults \in Nat

HistoryTypeOK ==
    /\ counted \in [Node -> [1..MaxInc -> [Term -> SUBSET Node]]]
    /\ elected \in [Term -> SUBSET Node]
    /\ lost \in [Node -> SUBSET Term]

\* Every variable keeps its type: in particular no term, vote or message of
\* contact.go leaves the range of terms that were fought for.
TypeOK == NodeTypeOK /\ RoleTypeOK /\ FightTypeOK /\ NetTypeOK /\ HistoryTypeOK

\* A term for which no node has forgotten its vote has at most one winner:
\* fightElection lets two nodes sign themselves leader for the same fight term
\* only if a voter lost its voteNode entry (a restart, or heartbeat's trimming).
OneWinnerPerTerm ==
    \A t \in Term : (\A p \in Node : t \notin lost[p]) =>
        \A p, q \in elected[t] : p = q

\* Whoever a node accepts as leader (from a heartbeat, a confirmation request or
\* the answer to AskLeader, directly or by hearsay) has counted the votes
\* of a majority in one term and one life of its process: no voter is counted
\* twice, even when restarts or trimming make voters forget.
LeaderWonVotes ==
    \A p \in Node : nodeLeader[p] # None =>
        \E i \in 1..MaxInc, t \in Term :
            Majority(Cardinality(counted[nodeLeader[p]][i][t]))

\* A node's own term is the highest it has heard of: the handlers raise it before
\* they store anybody's term, so the peer terms fightElection and signLeader
\* compare with never exceed it.
OwnTermIsHighest == \A p, q \in Node : term[p][q] <= term[p][p]

\* A node starts leading only at the end of its own fight: no message makes it
\* sign itself.
LeadsOnlyAfterFight ==
    [][\A p \in Node : status[p] # "Leader" /\ status'[p] = "Leader"
                        => pc[p] = "confirmed"]_vars

\* With one candidate and nothing lost, all nodes end up with the same leader and
\* keep it: fightElection gets the answers it waits for in every sendAndWait, and
\* heartbeats and late answers release nobody.
LeaderEmerges == <>[](\E l \in Node : \A p \in Node : nodeLeader[p] = l)

\* README.md, line 9: the cluster runs "in master / slave mode"; two nodes do not
\* lead in the same term.
OneLeaderPerTerm ==
    \A p, q \in Node :
        status[p] = "Leader" /\ status[q] = "Leader" /\ term[p][p] = term[q][q] => p = q

\* contact.go, lines 84 and 176: a closed cluster node stops its connections and
\* its heartbeat ("Cluster closed. Stop heartbeat."); nothing reopens it.
ClosedStaysClosed == \A p \in closed : status[p] = "Closed"

===============================================================================
