------------------------------- MODULE Acceptor -------------------------------
(***************************************************************************)
(* The server side of package nio (src/nio/acceptor.go): the accept loop,  *)
(* the map of sessions, readIo's end, CloseSession and Close.  A section   *)
(* under socket.lock is one step.                                          *)
(***************************************************************************)
EXTENDS Integers

CONSTANTS Session, Nil

VARIABLES
    closed,         \* socket.closed
    listening,      \* the listener is open
    loop,           \* handlerConnection: where it is, and with which session
    sessionId,      \* its counter
    sessions,       \* the map from ids to sessions
    sess,           \* sess[s]: id, link and whether readIo runs
    told,           \* told[s]: calls of OnSessionClosed for s
    added           \* history: sessions added before Close

vars == <<closed, listening, loop, sessionId, sessions, sess, told, added>>

\* The sessions in the map.
Mapped == {sessions[i] : i \in DOMAIN sessions}
Deletes(i) == sessions' = [j \in DOMAIN sessions \ {i} |-> sessions[j]]
NewSession == [id |-> 0, link |-> "none", reading |-> FALSE]

Tells(S) == told' = [s \in Session |-> IF s \in S THEN told[s] + 1 ELSE told[s]]
Goes(l, s) == loop' = [at |-> l, s |-> s]

-------------------------------------------------------------------------------
(* The clients *)

\* A connection is established before it is accepted.
Dial(s) ==
    /\ listening /\ sess[s] = NewSession
    /\ sess' = [sess EXCEPT ![s].link = "open"]
    /\ UNCHANGED <<closed, listening, loop, sessionId, sessions, told, added>>

ClientCloses(s) ==
    /\ sess[s].link = "open"
    /\ sess' = [sess EXCEPT ![s].link = "eof"]
    /\ UNCHANGED <<closed, listening, loop, sessionId, sessions, told, added>>

-------------------------------------------------------------------------------
(* handlerConnection *)

Check ==
    /\ loop.at = "check"
    /\ Goes(IF closed THEN "end" ELSE "accept", Nil)
    /\ UNCHANGED <<closed, listening, sessionId, sessions, sess, told, added>>

\* Accept returns a connection, which gets the next id.
Accept(s) ==
    /\ loop.at = "accept" /\ listening /\ sess[s].link \in {"open", "eof"} /\ sess[s].id = 0
    /\ sessionId' = sessionId + 1
    /\ sess' = [sess EXCEPT ![s].id = sessionId']
    /\ Goes("send", s)
    /\ UNCHANGED <<closed, listening, sessions, told, added>>

\* Accept fails, because the listener is closed or otherwise: the loop ends.
AcceptFails ==
    /\ loop.at = "accept"
    /\ Goes("end", Nil)
    /\ UNCHANGED <<closed, listening, sessionId, sessions, sess, told, added>>

\* sendSessionId; a connection that fails here gives its id back.
SendSessionId ==
    /\ loop.at = "send"
    /\ \/ /\ Goes("add", loop.s)
          /\ UNCHANGED <<sessionId, sess>>
       \/ /\ sess[loop.s].link # "open"
          /\ sessionId' = sessionId - 1
          /\ sess' = [sess EXCEPT ![loop.s].id = sessionId', ![loop.s].link = "closed"]
          /\ Goes("check", Nil)
    /\ UNCHANGED <<closed, listening, sessions, told, added>>

\* addSession, OnSessionConnected and the start of readIo.
AddSession ==
    /\ loop.at = "add"
    /\ sessions' = [i \in DOMAIN sessions \cup {sess[loop.s].id} |->
                       IF i = sess[loop.s].id THEN loop.s ELSE sessions[i]]
    /\ sess' = [sess EXCEPT ![loop.s].reading = TRUE]
    /\ added' = IF closed THEN added ELSE added \cup {loop.s}
    /\ Goes("check", Nil)
    /\ UNCHANGED <<closed, listening, sessionId, told>>

-------------------------------------------------------------------------------
(* The end of a session and of the acceptor *)

\* readIo sees socket.closed and returns; the connection is left as it is.
ReaderReturns(s) ==
    /\ sess[s].reading /\ closed
    /\ sess' = [sess EXCEPT ![s].reading = FALSE]
    /\ UNCHANGED <<closed, listening, loop, sessionId, sessions, told, added>>

\* The id is given back.
FaultyCloseSession(s) ==
    /\ sess[s].reading /\ sess[s].link # "open"
    /\ Deletes(sess[s].id)
    /\ sessionId' = sessionId - 1
    /\ sess' = [sess EXCEPT ![s].reading = FALSE, ![s].link = "closed"]
    /\ Tells({s})
    /\ UNCHANGED <<closed, listening, loop, added>>

\* The session stays in the map and its connection open.
FaultyForgets(s) ==
    /\ sess[s].reading /\ sess[s].link # "open"
    /\ sess' = [sess EXCEPT ![s].reading = FALSE]
    /\ Tells({s})
    /\ UNCHANGED <<closed, listening, loop, sessionId, sessions, added>>

\* readIo fails to read and calls session.Close.
CloseSession(s) ==
    /\ sess[s].reading /\ sess[s].link # "open"
    /\ Deletes(sess[s].id)
    /\ sess' = [sess EXCEPT ![s].reading = FALSE, ![s].link = "closed"]
    /\ Tells({s})
    /\ UNCHANGED <<closed, listening, loop, sessionId, added>>

\* Close tells the sessions in the map and closes the listener, not them.
Close ==
    /\ ~closed
    /\ closed' = TRUE /\ listening' = FALSE
    /\ Tells(Mapped)
    /\ UNCHANGED <<loop, sessionId, sessions, sess, added>>

-------------------------------------------------------------------------------
\* Open has succeeded.
Init ==
    /\ closed = FALSE /\ listening = TRUE
    /\ loop = [at |-> "check", s |-> Nil]
    /\ sessionId = 0
    /\ sessions = <<>>
    /\ sess = [s \in Session |-> NewSession]
    /\ told = [s \in Session |-> 0] /\ added = {}

Accepting == Check \/ SendSessionId \/ AddSession \/ \E s \in Session : Accept(s)
Reader(s) == ReaderReturns(s) \/ CloseSession(s)

Next ==
    \/ Accepting \/ AcceptFails \/ Close
    \/ \E s \in Session : Dial(s) \/ ClientCloses(s) \/ Reader(s)

Spec == Init /\ [][Next]_vars

-------------------------------------------------------------------------------
(* Properties *)

\* The types of the variables.
TypeOK ==
    /\ closed \in BOOLEAN /\ listening \in BOOLEAN /\ added \subseteq Session
    /\ loop.at \in {"check", "accept", "send", "add", "end"}
    /\ sessionId \in Nat /\ DOMAIN sessions \subseteq 1 .. sessionId /\ Mapped \subseteq Session
    /\ \A s \in Session : told[s] \in 0 .. 2 /\ sess[s].link \in {"none", "open", "eof", "closed"}

\* No session takes the place of another in the map, although ids are given
\* back when a client is gone before it got its own: every session that is read
\* is found under its id.
FoundById ==
    \A s \in Session : sess[s].reading => sess[s].id \in DOMAIN sessions /\ sessions[sess[s].id] = s

\* The owner of the handler is told of the end of every session that was
\* added before Close, by Close or by the session's own reader.
Told == \A s \in added : ~sess[s].reading => told[s] > 0

\* A session whose client is gone leaves the map and is closed, unless the
\* acceptor is closed or its loop ended before it was added: as clients are
\* finitely many, there is always a later state with no such session.
Reaped ==
    []<>(\/ closed \/ loop.at = "end"
         \/ \A s \in Session :
               /\ sess[s].link # "eof"
               /\ sess[s].link = "closed" => s \notin Mapped)

===============================================================================
