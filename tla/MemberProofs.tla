----------------------------- MODULE MemberProofs -----------------------------
(***************************************************************************)
(* Proofs about one member, for any number of goroutines and requests:     *)
(* requests are answered completely, alive agrees with the connector, and  *)
(* sessions are found by their ids; the role fields agree as long as role  *)
(* changes do not overlap, only a Close that overtakes an event ends in a  *)
(* panic, and the gauge shows the role.                                    *)
(***************************************************************************)
EXTENDS Member, TLAPS

-------------------------------------------------------------------------------
(* sendAndWait *)

\* The types.
ReplyAt == {"none", "asked", "tested", "block", "stuck", "done"}
WaitOK ==
    /\ waitAt \in {"idle", "send", "select", "clear", "close"} /\ call \in 0 .. MaxCalls
    /\ unsent \subseteq Node /\ sentTo \subseteq Node
    /\ senderNodeMap \subseteq Wait!Request /\ nodeMsgList \subseteq Wait!Request
    /\ sendAndWaitChan = IF waitAt \in {"idle", "close"} THEN Nil ELSE call
    /\ reply \in [Wait!Request -> [at : ReplyAt, chan : 0 .. MaxCalls \cup {Nil}]]
    /\ timedOut \in BOOLEAN

\* A node that was asked is waited for until its reply to this request is in the
\* list, and nothing is left of an earlier call.
WaitInv ==
    /\ WaitOK
    /\ waitAt = "idle" => sentTo = {} /\ senderNodeMap = {}
    /\ waitAt \in {"idle", "send", "select"} => ~timedOut
    /\ waitAt \in {"send", "select"} => \A n \in sentTo : <<n, call>> \in senderNodeMap \cup nodeMsgList
    /\ waitAt \in {"clear", "close"} /\ ~timedOut => \A n \in sentTo : <<n, call>> \in nodeMsgList

\* A handler of a reply that moves on keeps its type.
LEMMA ReplyMoves ==
    ASSUME WaitOK, NEW q \in Wait!Request, NEW l \in ReplyAt, Wait!Moves(q, l)
    PROVE  reply' \in [Wait!Request -> [at : ReplyAt, chan : 0 .. MaxCalls \cup {Nil}]]
BY Zenon DEF WaitOK, Wait!Moves

\* Every step of sendAndWait and of the handlers of replies keeps the invariant.
LEMMA WaitStep == WaitInv /\ [Wait!Next]_waitVars => WaitInv'
<1> SUFFICES ASSUME WaitInv, [Wait!Next]_waitVars PROVE WaitInv'
  BY Zenon
<1>0. WaitOK /\ call \in Nat /\ MaxCalls \in Nat
  BY MemberAssumption DEF WaitInv, WaitOK
<1>1. CASE Wait!Call
  BY <1>0, <1>1 DEF WaitInv, WaitOK, Wait!Call
<1>2. ASSUME NEW n \in Node, Wait!SendTo(n) PROVE WaitInv'
  <2>1. <<n, call>> \in Wait!Request /\ waitAt = "send"
    BY <1>0, <1>2, Zenon DEF WaitOK, Wait!Request, Wait!SendTo
  <2>2. WaitOK'
    <3>1. reply' \in [Wait!Request -> [at : ReplyAt, chan : 0 .. MaxCalls \cup {Nil}]]
      BY <1>0, <1>2, <2>1, ReplyMoves, Zenon DEF WaitOK, Wait!SendTo, ReplyAt
    <3> QED
      BY <1>0, <1>2, <2>1, <3>1, Zenon DEF WaitOK, Wait!SendTo
  <2>3. \A m \in sentTo' : <<m, call>> \in senderNodeMap' \cup nodeMsgList'
    BY <1>2, <2>1, Zenon DEF WaitInv, Wait!SendTo
  <2> QED
    BY <1>2, <2>1, <2>2, <2>3, Zenon DEF WaitInv, Wait!SendTo
<1>3. ASSUME NEW q \in Wait!Request, Wait!Take(q) PROVE WaitInv'
  <2>1. WaitOK'
    <3>1. reply' \in [Wait!Request -> [at : ReplyAt, chan : 0 .. MaxCalls \cup {Nil}]]
      BY <1>0, <1>3, ReplyMoves, Zenon DEF Wait!Take, ReplyAt
    <3> QED
      BY <1>0, <1>3, <3>1, Zenon DEF WaitOK, Wait!Take, Wait!Answered
  <2> QED
    BY <1>3, <2>1, Zenon DEF WaitInv, Wait!Take, Wait!Answered
<1>4. CASE Wait!TimeOut
  BY <1>0, <1>4, Zenon DEF WaitInv, WaitOK, Wait!TimeOut
<1>5. CASE Wait!Clear
  BY <1>0, <1>5, Zenon DEF WaitInv, WaitOK, Wait!Clear
<1>6. CASE Wait!CloseChan
  <2>1. reply' \in [Wait!Request -> [at : ReplyAt, chan : 0 .. MaxCalls \cup {Nil}]]
    BY <1>0, <1>6, Zenon DEF WaitOK, Wait!CloseChan, ReplyAt
  <2> QED
    BY <1>0, <1>6, <2>1, Zenon DEF WaitInv, WaitOK, Wait!CloseChan
<1>7. ASSUME UNCHANGED Wait!waiting,
             reply' \in [Wait!Request -> [at : ReplyAt, chan : 0 .. MaxCalls \cup {Nil}]]
      PROVE  WaitInv'
  BY <1>7, Zenon DEF WaitInv, WaitOK, Wait!waiting
<1>8. ASSUME NEW n \in Node, Wait!Heartbeat(n) PROVE WaitInv'
  <2>1. <<n, 0>> \in Wait!Request
    BY <1>0 DEF Wait!Request
  <2> QED
    BY <1>0, <1>7, <1>8, <2>1, ReplyMoves, Zenon DEF Wait!Heartbeat, ReplyAt
<1>9. ASSUME NEW q \in Wait!Request, Wait!Handle(q) PROVE WaitInv'
  BY <1>0, <1>7, <1>9, ReplyMoves, Zenon DEF Wait!Handle, ReplyAt
<1>10. ASSUME NEW q \in Wait!Request, Wait!Send(q) PROVE WaitInv'
  <2>1. sendAndWaitChan \in 0 .. MaxCalls \cup {Nil}
    BY <1>0, Zenon DEF WaitOK
  <2>2. reply' \in [Wait!Request -> [at : ReplyAt, chan : 0 .. MaxCalls \cup {Nil}]]
    BY <1>0, <1>10, <2>1, Zenon DEF WaitOK, Wait!Send, ReplyAt
  <2> QED
    BY <1>7, <1>10, <2>2, Zenon DEF Wait!Send
<1>11. CASE UNCHANGED waitVars
  BY <1>0, <1>7, <1>11, Zenon DEF waitVars, WaitOK, Wait!waiting
<1> QED
  BY <1>1, <1>2, <1>3, <1>4, <1>5, <1>6, <1>8, <1>9, <1>10, <1>11, Zenon
  DEF Wait!Next, Wait!Sending, Wait!Selecting, Wait!Leaving

-------------------------------------------------------------------------------
(* The connection *)

\* The types.
ConnRec == [link : {"none", "open", "eof", "closed"}, closed : BOOLEAN, reading : BOOLEAN]
ConnOK ==
    /\ open \in {"open", "closed"} /\ nodeConnector \in Connector \cup {Nil}
    /\ alive \in BOOLEAN /\ heard \in BOOLEAN /\ overlap \in BOOLEAN
    /\ conns \in [Connector -> ConnRec]
    /\ called \in [Connector -> Nat] /\ halfway \in [Connector -> Nat]
    /\ hold \in [at : {"sleep", "sync", "store", "end"}, c : Connector \cup {Nil}]
    /\ hb \in {"idle", "close"}
    /\ shutting \in {"no", "check", "close", "nil", "done", "panic"}

\* holdConnection connects only a node without connector, nobody else knows
\* the new connector before it is read, and a callback follows a close.
HoldInv ==
    /\ shutting = "no" <=> open = "open"
    /\ Conn!Connecting => hold.c \in Connector /\ nodeConnector = Nil
    /\ ~Conn!Connecting => hold.c = Nil
    /\ hold.at = "sync" => ~conns[hold.c].reading /\ called[hold.c] = 0 /\ halfway[hold.c] = 0
    /\ \A c \in Connector : called[c] > 0 => conns[c].link = "closed"

\* The heartbeat may still close c.
MayTimeOut(c) ==
    \/ c = hold.c
    \/ c = nodeConnector /\ (conns[c].link = "open" \/ called[c] = 0 \/ hb = "close")

\* A connector has one callback each of its reader, of Close and of the heartbeat
\* at most: after the heartbeat has closed it, no timeout is found before a
\* callback has cleared the field.
CountInv ==
    \A c \in Connector :
        called[c] + halfway[c] <=
            (IF conns[c].reading THEN 0 ELSE 1) + (IF MayTimeOut(c) THEN 0 ELSE 1)
            + (IF shutting \in {"nil", "done", "panic"} THEN 1 ELSE 0)

\* While no close overlaps a connect: no callback is between its writes while
\* the node has a connector or gets one, alive is set before the connector and
\* reset after it was cleared, and only these two connectors may be open.
AliveInv ==
    ~overlap =>
        /\ Conn!Connecting \/ nodeConnector # Nil => \A c \in Connector : halfway[c] = 0
        /\ hold.at = "store" \/ nodeConnector # Nil => alive
        /\ hold.at # "store" /\ nodeConnector = Nil /\ alive =>
              \E c \in Connector : halfway[c] > 0 \/ (shutting = "done" /\ called[c] > 0)
        /\ shutting = "nil" /\ nodeConnector # Nil => called[nodeConnector] > 0
        /\ Conn!Connecting => shutting \in {"no", "check"}
        /\ \A c \in Connector : conns[c].link = "open" => c \in {nodeConnector, hold.c}

ConnInv == ConnOK /\ HoldInv /\ CountInv /\ AliveInv

\* A connector whose record changes keeps its type.
LEMMA ConnPuts ==
    /\ \A r \in ConnRec, l \in {"none", "open", "eof", "closed"} : [r EXCEPT !.link = l] \in ConnRec
    /\ \A r \in ConnRec, b \in BOOLEAN : [r EXCEPT !.closed = b] \in ConnRec
    /\ \A r \in ConnRec, b \in BOOLEAN : [r EXCEPT !.reading = b] \in ConnRec
BY Zenon DEF ConnRec

\* SocketConnector.Close adds one callback and closes the link.
LEMMA CloseEffect ==
    ASSUME ConnOK, NEW c \in Connector, Conn!Close(c)
    PROVE  /\ conns' \in [Connector -> ConnRec] /\ called' \in [Connector -> Nat]
           /\ \A d \in Connector : d # c => conns'[d] = conns[d] /\ called'[d] = called[d]
           /\ conns'[c].link = "closed" /\ conns'[c].reading = conns[c].reading
           /\ called'[c] = called[c] + 1
<1>1. conns[c] \in ConnRec /\ called \in [Connector -> Nat] /\ conns \in [Connector -> ConnRec]
  BY Zenon DEF ConnOK
<1>2. conns' = [conns EXCEPT ![c] = [[conns[c] EXCEPT !.closed = TRUE] EXCEPT !.link = "closed"]]
  BY <1>1, Zenon DEF Conn!Close
<1>3. [[conns[c] EXCEPT !.closed = TRUE] EXCEPT !.link = "closed"] \in ConnRec
  BY <1>1, ConnPuts, Zenon
<1>4. /\ [[conns[c] EXCEPT !.closed = TRUE] EXCEPT !.link = "closed"].link = "closed"
      /\ [[conns[c] EXCEPT !.closed = TRUE] EXCEPT !.link = "closed"].reading = conns[c].reading
  BY <1>1, Zenon DEF ConnRec
<1>5. called' = [called EXCEPT ![c] = called[c] + 1]
  BY Zenon DEF Conn!Close
<1> QED
  BY <1>1, <1>2, <1>3, <1>4, <1>5

\* Whoever closes the node's connector, the heartbeat or Close.
LEMMA CloserStep ==
    ASSUME ConnInv, Conn!HbCloses \/ Conn!CloseCloses, nodeConnector # Nil
    PROVE  ConnInv'
<1> DEFINE c == nodeConnector
<1>0. /\ ConnOK /\ HoldInv /\ CountInv /\ AliveInv
      /\ c \in Connector /\ called \in [Connector -> Nat] /\ halfway \in [Connector -> Nat]
  BY Zenon DEF ConnInv, ConnOK
<1>1. Conn!Close(c) /\ UNCHANGED <<open, nodeConnector, alive, heard, halfway, hold, fails, overlap>>
  BY Zenon DEF Conn!HbCloses, Conn!CloseCloses
<1>2. /\ conns' \in [Connector -> ConnRec] /\ called' \in [Connector -> Nat]
      /\ \A d \in Connector : d # c => conns'[d] = conns[d] /\ called'[d] = called[d]
      /\ conns'[c].link = "closed" /\ conns'[c].reading = conns[c].reading
      /\ called'[c] = called[c] + 1
  BY <1>0, <1>1, CloseEffect, Zenon
<1>3. \/ hb = "close" /\ hb' = "idle" /\ UNCHANGED shutting
      \/ shutting = "close" /\ shutting' = "nil" /\ UNCHANGED hb
  BY Zenon DEF Conn!HbCloses, Conn!CloseCloses
<1>4. c # hold.c /\ ~Conn!Connecting /\ hold.c = Nil
  BY <1>0, MemberAssumption, Zenon DEF HoldInv
<1>5. ConnOK'
  BY <1>0, <1>1, <1>2, <1>3, Zenon DEF ConnOK
<1>6. HoldInv'
  BY <1>0, <1>1, <1>2, <1>3, <1>4, Zenon DEF HoldInv, Conn!Connecting
<1>7. CountInv'
  BY <1>0, <1>1, <1>2, <1>3, <1>4 DEF CountInv, MayTimeOut
<1>8. AliveInv'
  BY <1>0, <1>1, <1>2, <1>3, <1>4 DEF AliveInv, Conn!Connecting
<1> QED
  BY <1>5, <1>6, <1>7, <1>8, Zenon DEF ConnInv

\* Every step of the goroutines of the connection keeps the invariant.
LEMMA ConnStep == ConnInv /\ [Conn!Next]_connVars => ConnInv'
<1> SUFFICES ASSUME ConnInv, [Conn!Next]_connVars PROVE ConnInv'
  BY Zenon
<1> USE MemberAssumption
<1>0. /\ ConnOK /\ HoldInv /\ CountInv /\ AliveInv
      /\ called \in [Connector -> Nat] /\ halfway \in [Connector -> Nat]
      /\ conns \in [Connector -> ConnRec] /\ overlap \in BOOLEAN
  BY Zenon DEF ConnInv, ConnOK
<1>1. ASSUME NEW c \in Connector, Conn!HoldDials(c) PROVE ConnInv'
  <2>1. /\ hold.at = "sleep" /\ open = "open" /\ nodeConnector = Nil /\ ~conns[c].reading
        /\ called[c] = 0 /\ halfway[c] = 0
        /\ hold' = [at |-> "sync", c |-> c]
        /\ overlap' = (overlap \/ \E d \in Connector : halfway[d] > 0)
        /\ UNCHANGED <<open, nodeConnector, alive, heard, called, halfway, hb, shutting, fails>>
    BY <1>1, Zenon DEF Conn!HoldDials, Conn!Unreferenced
  <2>2. /\ conns' \in [Connector -> ConnRec]
        /\ \A d \in Connector : d # c => conns'[d] = conns[d]
        /\ conns'[c].link = "open" /\ conns'[c].reading = FALSE
    BY <1>0, <1>1, Zenon DEF Conn!HoldDials, Conn!NewConnector, ConnRec
  <2>3. ConnOK'
    BY <1>0, <2>1, <2>2, Zenon DEF ConnOK
  <2>4. HoldInv'
    BY <1>0, <2>1, <2>2 DEF HoldInv, Conn!Connecting
  <2>5. CountInv'
    BY <1>0, <2>1, <2>2 DEF CountInv, MayTimeOut, HoldInv, Conn!Connecting
  <2>6. AliveInv'
    <3>1. SUFFICES ASSUME ~overlap, \A d \in Connector : ~(halfway[d] > 0) PROVE AliveInv'
      BY <2>1, Zenon DEF AliveInv
    <3>2. shutting = "no" /\ hold.c = Nil
      BY <1>0, <2>1, Zenon DEF HoldInv, Conn!Connecting
    <3>3. ~alive /\ \A d \in Connector : halfway[d] = 0 /\ conns[d].link # "open"
      BY <1>0, <2>1, <3>1, <3>2 DEF AliveInv
    <3> QED
      BY <2>1, <2>2, <3>2, <3>3, Zenon DEF AliveInv, Conn!Connecting
  <2> QED
    BY <2>3, <2>4, <2>5, <2>6, Zenon DEF ConnInv
<1>2. CASE Conn!HoldEnds
  BY <1>0, <1>2 DEF Conn!HoldEnds, ConnInv, ConnOK, HoldInv, CountInv, MayTimeOut, AliveInv, Conn!Connecting
<1>3. CASE Conn!Synced
  <2> DEFINE c == hold.c
  <2>1. /\ hold.at = "sync" /\ c \in Connector /\ nodeConnector = Nil /\ conns[c] \in ConnRec
        /\ ~conns[c].reading /\ called[c] = 0 /\ halfway[c] = 0
        /\ hold' = [at |-> "store", c |-> c] /\ alive' = TRUE
        /\ conns' = [conns EXCEPT ![c] = [conns[c] EXCEPT !.reading = TRUE]]
        /\ UNCHANGED <<open, nodeConnector, heard, called, halfway, hb, shutting, fails, overlap>>
    BY <1>0, <1>3, Zenon DEF Conn!Synced, HoldInv, Conn!Connecting, ConnOK
  <2>2. [conns[c] EXCEPT !.reading = TRUE] \in ConnRec
    BY <2>1, ConnPuts, Zenon
  <2>3. /\ conns' \in [Connector -> ConnRec]
        /\ \A d \in Connector : d # c => conns'[d] = conns[d]
        /\ conns'[c].link = conns[c].link /\ conns'[c].reading = TRUE
    BY <1>0, <2>1, <2>2, Zenon DEF ConnRec
  <2> HIDE DEF c
  <2>4. ConnOK'
    BY <1>0, <2>1, <2>3, Zenon DEF ConnOK
  <2>5. HoldInv'
    BY <1>0, <2>1, <2>3, Zenon DEF HoldInv, Conn!Connecting
  <2>6. CountInv'
    BY <1>0, <2>1, <2>3 DEF CountInv, MayTimeOut, c
  <2>7. AliveInv'
    BY <1>0, <2>1, <2>3, Zenon DEF AliveInv, Conn!Connecting, c
  <2> QED
    BY <2>4, <2>5, <2>6, <2>7, Zenon DEF ConnInv
<1>4. CASE Conn!SyncFails
  <2> DEFINE c == hold.c
  <2>1. /\ hold.at = "sync" /\ c \in Connector /\ nodeConnector = Nil /\ conns[c] \in ConnRec
        /\ ~conns[c].reading /\ called[c] = 0 /\ halfway[c] = 0
        /\ hold' = [at |-> "sleep", c |-> Nil]
        /\ conns' = [conns EXCEPT ![c] = [conns[c] EXCEPT !.link = "closed"]]
        /\ UNCHANGED <<open, nodeConnector, alive, heard, called, halfway, hb, shutting, fails, overlap>>
    BY <1>0, <1>4, Zenon DEF Conn!SyncFails, Conn!Sleeping, HoldInv, Conn!Connecting, ConnOK
  <2>2. [conns[c] EXCEPT !.link = "closed"] \in ConnRec
    BY <2>1, ConnPuts, Zenon
  <2>3. /\ conns' \in [Connector -> ConnRec]
        /\ \A d \in Connector : d # c => conns'[d] = conns[d]
        /\ conns'[c].link = "closed" /\ conns'[c].reading = conns[c].reading
    BY <1>0, <2>1, <2>2, Zenon DEF ConnRec
  <2>4. ConnOK'
    BY <1>0, <2>1, <2>3, Zenon DEF ConnOK
  <2>5. HoldInv'
    BY <1>0, <2>1, <2>3, Zenon DEF HoldInv, Conn!Connecting
  <2>6. CountInv'
    BY <1>0, <2>1, <2>3 DEF CountInv, MayTimeOut
  <2>7. AliveInv'
    BY <1>0, <2>1, <2>3, Zenon DEF AliveInv, Conn!Connecting
  <2> QED
    BY <2>4, <2>5, <2>6, <2>7, Zenon DEF ConnInv
<1>5. CASE Conn!Store
  <2>1. /\ hold.at = "store" /\ hold.c \in Connector /\ nodeConnector = Nil
        /\ hold' = [at |-> "sleep", c |-> Nil] /\ nodeConnector' = hold.c /\ heard' = FALSE
        /\ overlap' = (overlap \/ open = "closed")
        /\ UNCHANGED <<open, alive, conns, called, halfway, hb, shutting, fails>>
    BY <1>0, <1>5, Zenon DEF Conn!Store, Conn!Sleeping, HoldInv, Conn!Connecting
  <2>2. ConnOK'
    BY <1>0, <2>1, Zenon DEF ConnOK
  <2>3. HoldInv'
    BY <1>0, <2>1, Zenon DEF HoldInv, Conn!Connecting
  <2>4. CountInv'
    BY <1>0, <2>1 DEF CountInv, MayTimeOut
  <2>5. AliveInv'
    BY <1>0, <2>1, Zenon DEF AliveInv, HoldInv, Conn!Connecting
  <2> QED
    BY <2>2, <2>3, <2>4, <2>5, Zenon DEF ConnInv
<1>6. ASSUME NEW c \in Connector, Conn!PeerFails(c) PROVE ConnInv'
  <2>1. /\ conns[c].link = "open" /\ conns[c] \in ConnRec
        /\ conns' = [conns EXCEPT ![c] = [conns[c] EXCEPT !.link = "eof"]]
        /\ UNCHANGED <<open, nodeConnector, alive, heard, called, halfway, hold, hb, shutting, overlap>>
    BY <1>0, <1>6, Zenon DEF Conn!PeerFails
  <2>2. [conns[c] EXCEPT !.link = "eof"] \in ConnRec
    BY <2>1, ConnPuts, Zenon
  <2>3. /\ conns' \in [Connector -> ConnRec]
        /\ \A d \in Connector : d # c => conns'[d] = conns[d]
        /\ conns'[c].link = "eof" /\ conns'[c].reading = conns[c].reading
    BY <1>0, <2>1, <2>2, Zenon DEF ConnRec
  <2>4. ConnOK'
    BY <1>0, <2>1, <2>3 DEF ConnOK
  <2>5. HoldInv'
    BY <1>0, <2>1, <2>3, Zenon DEF HoldInv, Conn!Connecting
  <2>6. CountInv'
    <3>1. called[c] = 0
      BY <1>0, <2>1 DEF HoldInv
    <3> QED
      BY <1>0, <2>1, <2>3, <3>1 DEF CountInv, MayTimeOut
  <2>7. AliveInv'
    BY <1>0, <2>1, <2>3, Zenon DEF AliveInv, Conn!Connecting
  <2> QED
    BY <2>4, <2>5, <2>6, <2>7, Zenon DEF ConnInv
<1>7. ASSUME NEW c \in Connector, Conn!ReaderReturns(c) PROVE ConnInv'
  <2>1. /\ conns[c].reading /\ conns[c] \in ConnRec
        /\ conns' = [conns EXCEPT ![c] = [conns[c] EXCEPT !.reading = FALSE]]
        /\ UNCHANGED <<open, nodeConnector, alive, heard, called, halfway, hold, hb, shutting, overlap>>
    BY <1>0, <1>7, Zenon DEF Conn!ReaderReturns
  <2>2. [conns[c] EXCEPT !.reading = FALSE] \in ConnRec
    BY <2>1, ConnPuts, Zenon
  <2>3. /\ conns' \in [Connector -> ConnRec]
        /\ \A d \in Connector : d # c => conns'[d] = conns[d]
        /\ conns'[c].link = conns[c].link /\ conns'[c].reading = FALSE
    BY <1>0, <2>1, <2>2, Zenon DEF ConnRec
  <2>4. ConnOK'
    BY <1>0, <2>1, <2>3 DEF ConnOK
  <2>5. HoldInv'
    BY <1>0, <2>1, <2>3, Zenon DEF HoldInv, Conn!Connecting
  <2>6. CountInv'
    BY <1>0, <2>1, <2>3 DEF CountInv, MayTimeOut
  <2>7. AliveInv'
    BY <1>0, <2>1, <2>3, Zenon DEF AliveInv, Conn!Connecting
  <2> QED
    BY <2>4, <2>5, <2>6, <2>7, Zenon DEF ConnInv
<1>8. ASSUME NEW c \in Connector, Conn!ReaderCloses(c) PROVE ConnInv'
  <2>1. /\ conns[c].reading /\ conns[c].link # "open"
        /\ conns' = [conns EXCEPT ![c] = [link |-> "closed", closed |-> TRUE, reading |-> FALSE]]
        /\ called' = [called EXCEPT ![c] = called[c] + 1]
        /\ UNCHANGED <<open, nodeConnector, alive, heard, halfway, hold, hb, shutting, overlap>>
    BY <1>8, Zenon DEF Conn!ReaderCloses
  <2>2. /\ conns' \in [Connector -> ConnRec] /\ called' \in [Connector -> Nat]
        /\ \A d \in Connector : d # c => conns'[d] = conns[d] /\ called'[d] = called[d]
        /\ conns'[c].link = "closed" /\ conns'[c].reading = FALSE /\ called'[c] = called[c] + 1
    BY <1>0, <2>1 DEF ConnRec
  <2>3. ConnOK'
    BY <1>0, <2>1, <2>2 DEF ConnOK
  <2>4. HoldInv'
    BY <1>0, <2>1, <2>2, Zenon DEF HoldInv, Conn!Connecting
  <2>5. CountInv'
    BY <1>0, <2>1, <2>2 DEF CountInv, MayTimeOut
  <2>6. AliveInv'
    BY <1>0, <2>1, <2>2 DEF AliveInv, Conn!Connecting
  <2> QED
    BY <2>3, <2>4, <2>5, <2>6, Zenon DEF ConnInv
<1>9. ASSUME NEW c \in Connector, Conn!OnSessionClosed(c) PROVE ConnInv'
  <2>1. /\ called[c] > 0 /\ nodeConnector' = Nil
        /\ overlap' = (overlap \/ Conn!Connecting \/ nodeConnector \notin {c, Nil})
        /\ UNCHANGED <<open, alive, heard, conns, hold, hb, shutting, fails>>
    BY <1>9, Zenon DEF Conn!OnSessionClosed
  <2>2. /\ called' \in [Connector -> Nat] /\ halfway' \in [Connector -> Nat]
        /\ \A d \in Connector : d # c => called'[d] = called[d] /\ halfway'[d] = halfway[d]
        /\ called'[c] = called[c] - 1 /\ halfway'[c] = halfway[c] + 1
    BY <1>0, <1>9 DEF Conn!OnSessionClosed
  <2>3. ConnOK'
    BY <1>0, <2>1, <2>2, Zenon DEF ConnOK
  <2>4. HoldInv'
    BY <1>0, <2>1, <2>2 DEF HoldInv, Conn!Connecting
  <2>5. CountInv'
    <3>1. \A d \in Connector : d # nodeConnector => (MayTimeOut(d) <=> d = hold.c)
      BY Zenon DEF MayTimeOut
    <3>2. \A d \in Connector : MayTimeOut(d)' <=> d = hold.c
      BY <2>1, Zenon DEF MayTimeOut
    <3>3. \A d \in Connector : called'[d] + halfway'[d] = called[d] + halfway[d]
      BY <1>0, <2>2
    <3>4. \A d \in Connector : MayTimeOut(d)' => MayTimeOut(d)
      BY <3>1, <3>2, Zenon DEF MayTimeOut
    <3> QED
      BY <1>0, <2>1, <2>2, <3>3, <3>4 DEF CountInv
  <2>6. AliveInv'
    <3>1. SUFFICES ASSUME ~overlap, ~Conn!Connecting, nodeConnector \in {c, Nil} PROVE AliveInv'
      BY <2>1, Zenon DEF AliveInv
    <3>2. conns[c].link # "open" /\ halfway'[c] > 0
      BY <1>0, <2>1, <2>2 DEF HoldInv
    <3> QED
      BY <1>0, <2>1, <3>1, <3>2, Zenon DEF AliveInv, Conn!Connecting
  <2> QED
    BY <2>3, <2>4, <2>5, <2>6, Zenon DEF ConnInv
<1>10. ASSUME NEW c \in Connector, Conn!Offline(c) PROVE ConnInv'
  <2>1. /\ halfway[c] > 0 /\ alive' = FALSE /\ overlap' = (overlap \/ Conn!Connecting)
        /\ UNCHANGED <<open, nodeConnector, heard, conns, called, hold, hb, shutting, fails>>
    BY <1>10, Zenon DEF Conn!Offline
  <2>2. /\ halfway' \in [Connector -> Nat] /\ halfway'[c] = halfway[c] - 1
        /\ \A d \in Connector : d # c => halfway'[d] = halfway[d]
    BY <1>0, <1>10 DEF Conn!Offline
  <2>3. ConnOK'
    BY <1>0, <2>1, <2>2, Zenon DEF ConnOK
  <2>4. HoldInv'
    BY <1>0, <2>1, <2>2 DEF HoldInv, Conn!Connecting
  <2>5. CountInv'
    BY <1>0, <2>1, <2>2 DEF CountInv, MayTimeOut
  <2>6. AliveInv'
    <3>1. SUFFICES ASSUME ~overlap, ~Conn!Connecting PROVE AliveInv'
      BY <2>1, Zenon DEF AliveInv
    <3>2. nodeConnector = Nil
      BY <1>0, <2>1, <3>1 DEF AliveInv
    <3> QED
      BY <1>0, <2>1, <3>1, <3>2, Zenon DEF AliveInv, Conn!Connecting
  <2> QED
    BY <2>3, <2>4, <2>5, <2>6, Zenon DEF ConnInv
<1>11. CASE Conn!Hears
  BY <1>0, <1>11, Zenon DEF Conn!Hears, ConnInv, ConnOK, HoldInv, CountInv, MayTimeOut, AliveInv, Conn!Connecting
<1>12. CASE Conn!TimeOut
  <2>1. /\ nodeConnector # Nil /\ hb' = "close" /\ MayTimeOut(nodeConnector)
        /\ UNCHANGED <<open, nodeConnector, alive, heard, conns, called, halfway, hold, shutting, overlap>>
    BY <1>12, Zenon DEF Conn!TimeOut, MayTimeOut
  <2>2. ConnOK' /\ HoldInv' /\ AliveInv'
    BY <1>0, <2>1, Zenon DEF ConnOK, HoldInv, AliveInv, Conn!Connecting
  <2>3. CountInv'
    <3>1. \A c \in Connector : MayTimeOut(c)' => MayTimeOut(c)
      BY <2>1, Zenon DEF MayTimeOut
    <3> QED
      BY <1>0, <2>1, <3>1 DEF CountInv
  <2> QED
    BY <2>2, <2>3, Zenon DEF ConnInv
<1>13. CASE Conn!HbCloses
  <2>1. CASE nodeConnector # Nil
    BY <1>13, <2>1, CloserStep, Zenon
  <2>2. CASE nodeConnector = Nil
    <3>1. /\ hb' = "idle"
          /\ UNCHANGED <<open, nodeConnector, alive, heard, conns, called, halfway, hold, shutting, overlap>>
      BY <1>13, <2>2, Zenon DEF Conn!HbCloses
    <3> QED
      BY <1>0, <2>2, <3>1 DEF ConnInv, ConnOK, HoldInv, CountInv, MayTimeOut, AliveInv, Conn!Connecting
  <2> QED
    BY <2>1, <2>2, Zenon
<1>14. CASE Conn!StartClose
  BY <1>0, <1>14, Zenon
  DEF Conn!StartClose, ConnInv, ConnOK, HoldInv, CountInv, MayTimeOut, AliveInv, Conn!Connecting
<1>15. CASE Conn!CloseChecks
  <2>1. /\ shutting = "check" /\ shutting' \in {"done", "close"} /\ overlap' = (overlap \/ Conn!Connecting)
        /\ UNCHANGED <<open, nodeConnector, alive, heard, conns, called, halfway, hold, hb>>
    BY <1>15, Zenon DEF Conn!CloseChecks
  <2>2. ConnOK'
    BY <1>0, <2>1, Zenon DEF ConnOK
  <2>3. HoldInv' /\ CountInv'
    BY <1>0, <2>1 DEF HoldInv, CountInv, MayTimeOut, Conn!Connecting
  <2>4. AliveInv'
    <3>1. SUFFICES ASSUME ~overlap, ~Conn!Connecting PROVE AliveInv'
      BY <2>1, Zenon DEF AliveInv
    <3> QED
      BY <1>0, <2>1, <3>1, Zenon DEF AliveInv, Conn!Connecting
  <2> QED
    BY <2>2, <2>3, <2>4, Zenon DEF ConnInv
<1>16. CASE Conn!CloseCloses
  <2>1. CASE nodeConnector # Nil
    BY <1>16, <2>1, CloserStep, Zenon
  <2>2. CASE nodeConnector = Nil
    <3>1. /\ shutting = "close" /\ shutting' = "panic"
          /\ UNCHANGED <<open, nodeConnector, alive, heard, conns, called, halfway, hold, hb, overlap>>
      BY <1>16, <2>2, Zenon DEF Conn!CloseCloses
    <3> QED
      BY <1>0, <2>2, <3>1 DEF ConnInv, ConnOK, HoldInv, CountInv, MayTimeOut, AliveInv, Conn!Connecting
  <2> QED
    BY <2>1, <2>2, Zenon
<1>17. CASE Conn!CloseClears
  <2>1. /\ shutting = "nil" /\ shutting' = "done" /\ nodeConnector' = Nil
        /\ UNCHANGED <<open, alive, heard, conns, called, halfway, hold, hb, overlap>>
    BY <1>17, Zenon DEF Conn!CloseClears
  <2>2. ConnOK' /\ HoldInv'
    BY <1>0, <2>1, Zenon DEF ConnOK, HoldInv, Conn!Connecting
  <2>3. CountInv'
    <3>1. \A c \in Connector : MayTimeOut(c)' => MayTimeOut(c)
      BY <2>1, Zenon DEF MayTimeOut
    <3> QED
      BY <1>0, <2>1, <3>1 DEF CountInv
  <2>4. AliveInv'
    <3>1. SUFFICES ASSUME ~overlap PROVE AliveInv'
      BY <2>1, Zenon DEF AliveInv
    <3>2. nodeConnector # Nil => called[nodeConnector] > 0 /\ conns[nodeConnector].link = "closed"
                                 /\ nodeConnector \in Connector
      BY <1>0, <2>1, <3>1, Zenon DEF AliveInv, HoldInv, ConnOK
    <3> QED
      BY <1>0, <2>1, <3>1, <3>2, Zenon DEF AliveInv, Conn!Connecting
  <2> QED
    BY <2>2, <2>3, <2>4, Zenon DEF ConnInv
<1>18. CASE UNCHANGED connVars
  BY <1>0, <1>18 DEF connVars, ConnInv, ConnOK, HoldInv, CountInv, MayTimeOut, AliveInv, Conn!Connecting
<1> QED
  BY <1>1, <1>2, <1>3, <1>4, <1>5, <1>6, <1>7, <1>8, <1>9, <1>10, <1>11, <1>12, <1>13, <1>14,
     <1>15, <1>16, <1>17, <1>18, Zenon
  DEF Conn!Next, Conn!Holding, Conn!Closing, Conn!Reader, Conn!Callback

-------------------------------------------------------------------------------
(* The acceptor *)

\* The types.
SessionRec == [id : Nat, link : {"none", "open", "eof", "closed"}, reading : BOOLEAN]
AcceptOK ==
    /\ closed \in BOOLEAN /\ listening \in BOOLEAN /\ added \subseteq Session
    /\ loop \in [at : {"check", "accept", "send", "add", "end"}, s : Session \cup {Nil}]
    /\ sessionId \in Nat /\ told \in [Session -> Nat]
    /\ sess \in [Session -> SessionRec]

\* sendSessionId has failed for s, which gave its id back.
Failed(s) == sess[s].link = "closed" /\ told[s] = 0

\* The ids up to the counter each belong to exactly one session that did not fail.
IdInv ==
    /\ \A i \in 1 .. sessionId : \E s \in Session : ~Failed(s) /\ sess[s].id = i
    /\ \A s \in Session : ~Failed(s) => sess[s].id <= sessionId
    /\ \A s, t \in Session :
          ~Failed(s) /\ ~Failed(t) /\ sess[s].id = sess[t].id /\ sess[s].id > 0 => s = t

\* The map holds open sessions under their ids, every session that is read
\* among them; the one between Accept and addSession has the latest id.
MapInv ==
    /\ \A i \in DOMAIN sessions :
          /\ sessions[i] \in Session /\ i \in 1 .. sessionId
          /\ sess[sessions[i]].id = i /\ sess[sessions[i]].link \in {"open", "eof"}
    /\ \A s \in Session : sess[s].reading => sess[s].id \in DOMAIN sessions /\ sessions[sess[s].id] = s
    /\ loop.at \in {"send", "add"} =>
          /\ loop.s \in Session /\ sess[loop.s].id = sessionId /\ sessionId > 0
          /\ sess[loop.s].link \in {"open", "eof"} /\ ~sess[loop.s].reading /\ told[loop.s] = 0
          /\ \A i \in DOMAIN sessions : sessions[i] # loop.s
    /\ \A s \in Session : sess[s].id = 0 => told[s] = 0

\* A session that was added is read until its end was told, by Close and by its
\* own reader once each.
ToldInv ==
    /\ \A s \in added : told[s] > 0 \/ (sess[s].reading /\ ~closed)
    /\ \A s \in Session :
          told[s] <= (IF closed THEN 1 ELSE 0) + (IF sess[s].link = "closed" THEN 1 ELSE 0)

SessionInv == AcceptOK /\ IdInv /\ MapInv /\ ToldInv

\* A session whose record changes keeps its type.
LEMMA SessionPuts ==
    /\ \A r \in SessionRec, n \in Nat : [r EXCEPT !.id = n] \in SessionRec
    /\ \A r \in SessionRec, b \in BOOLEAN : [r EXCEPT !.reading = b] \in SessionRec
    /\ \A r \in SessionRec, l \in {"none", "open", "eof", "closed"} : [r EXCEPT !.link = l] \in SessionRec
BY Zenon DEF SessionRec

\* Every step of the acceptor, of its clients and of its readers keeps the
\* invariant.
LEMMA AcceptStep == SessionInv /\ [Accept!Next]_acceptVars => SessionInv'
<1> SUFFICES ASSUME SessionInv, [Accept!Next]_acceptVars PROVE SessionInv'
  BY Zenon
<1> USE MemberAssumption
<1>0. AcceptOK /\ IdInv /\ MapInv /\ ToldInv
  BY Zenon DEF SessionInv
<1>1. ASSUME NEW s \in Session, NEW l \in {"open", "eof"}, sess[s].link \in {"none", "open"},
             sess' = [sess EXCEPT ![s].link = l],
             UNCHANGED <<closed, listening, loop, sessionId, sessions, told, added>>
      PROVE  SessionInv'
  <2>1. sess' = [sess EXCEPT ![s] = [sess[s] EXCEPT !.link = l]] /\ sess[s] \in SessionRec
    BY <1>0, <1>1, Zenon DEF AcceptOK
  <2>2. [sess[s] EXCEPT !.link = l] \in SessionRec
    BY <2>1, SessionPuts, Zenon
  <2>3. /\ \A t \in Session : t # s => sess'[t] = sess[t]
        /\ sess'[s].id = sess[s].id /\ sess'[s].link = l /\ sess'[s].reading = sess[s].reading
    BY <1>0, <2>1, Zenon DEF AcceptOK, SessionRec
  <2>4. \A t \in Session : (Failed(t)' <=> Failed(t)) /\ sess'[t].id = sess[t].id
    BY <1>1, <2>3, Zenon DEF Failed
  <2>5. AcceptOK'
    BY <1>0, <1>1, <2>1, <2>2, Zenon DEF AcceptOK
  <2>6. IdInv'
    BY <1>0, <1>1, <2>4 DEF IdInv
  <2>7. MapInv'
    BY <1>0, <1>1, <2>3, <2>4 DEF AcceptOK, MapInv
  <2>8. ToldInv'
    BY <1>0, <1>1, <2>3, Zenon DEF AcceptOK, ToldInv
  <2> QED
    BY <2>5, <2>6, <2>7, <2>8, Zenon DEF SessionInv
<1>2. ASSUME NEW s \in Session, Accept!Accept(s) PROVE SessionInv'
  <2>1. /\ sessionId' = sessionId + 1 /\ loop' = [at |-> "send", s |-> s]
        /\ sess[s].id = 0 /\ sess[s].link \in {"open", "eof"} /\ sess[s] \in SessionRec
        /\ sess' = [sess EXCEPT ![s].id = sessionId + 1]
        /\ UNCHANGED <<closed, listening, sessions, told, added>>
    BY <1>0, <1>2, Zenon DEF AcceptOK, Accept!Accept, Accept!Goes
  <2>2. [sess[s] EXCEPT !.id = sessionId + 1] \in SessionRec
    <3>1. sessionId + 1 \in Nat
      BY <1>0 DEF AcceptOK
    <3> QED
      BY <2>1, <3>1, SessionPuts, Zenon
  <2>3. sess' = [sess EXCEPT ![s] = [sess[s] EXCEPT !.id = sessionId + 1]]
    BY <2>1, Zenon
  <2>4. AcceptOK'
    BY <1>0, <2>1, <2>2, <2>3 DEF AcceptOK
  <2>5. /\ \A t \in Session : t # s => sess'[t] = sess[t]
        /\ sess'[s].id = sessionId + 1 /\ sess'[s].link = sess[s].link /\ sess'[s].reading = sess[s].reading
    BY <1>0, <2>1, <2>3 DEF AcceptOK, SessionRec
  <2>6. sessionId \in Nat /\ told \in [Session -> Nat] /\ \A t \in Session : sess[t].id \in Nat
    BY <1>0, Zenon DEF AcceptOK, SessionRec
  <2>7. ~Failed(s)' /\ \A t \in Session : t # s => (Failed(t)' <=> Failed(t))
    BY <2>1, <2>5, Zenon DEF Failed
  <2>8. \A i \in 1 .. sessionId' : \E t \in Session : ~Failed(t)' /\ sess'[t].id = i
    BY <1>0, <2>1, <2>5, <2>6, <2>7 DEF IdInv
  <2>9. \A t \in Session : ~Failed(t)' => sess'[t].id <= sessionId'
    BY <1>0, <2>1, <2>5, <2>6, <2>7 DEF IdInv
  <2>10. \A t, u \in Session :
           ~Failed(t)' /\ ~Failed(u)' /\ sess'[t].id = sess'[u].id /\ sess'[t].id > 0 => t = u
    BY <1>0, <2>1, <2>5, <2>6, <2>7 DEF IdInv
  <2>11. IdInv'
    BY <2>8, <2>9, <2>10, Zenon DEF IdInv
  <2>12. MapInv'
    BY <1>0, <1>2 DEF AcceptOK, SessionRec, IdInv, Failed, MapInv, Accept!Accept, Accept!Goes
  <2>13. ToldInv'
    BY <1>0, <1>2, Zenon DEF AcceptOK, SessionRec, ToldInv, Accept!Accept
  <2> QED
    BY <2>4, <2>11, <2>12, <2>13, Zenon DEF SessionInv
<1>3. ASSUME Accept!SendSessionId, loop' = [at |-> "add", s |-> loop.s], UNCHANGED <<sess, sessionId>>
      PROVE  SessionInv'
  <2>1. UNCHANGED <<closed, listening, sessions, told, added>> /\ loop.at = "send"
    BY <1>3, Zenon DEF Accept!SendSessionId
  <2>2. AcceptOK'
    BY <1>0, <1>3, <2>1, Zenon DEF AcceptOK
  <2>3. IdInv' /\ ToldInv'
    BY <1>0, <1>3, <2>1, Zenon DEF IdInv, Failed, ToldInv
  <2>4. MapInv'
    BY <1>0, <1>3, <2>1, Zenon DEF MapInv
  <2> QED
    BY <2>2, <2>3, <2>4, Zenon DEF SessionInv
<1>4. ASSUME NEW s \in Session, loop.at = "send", loop.s = s, sess[s].link # "open",
             sessionId' = sessionId - 1, sess' = [sess EXCEPT ![s].id = sessionId', ![s].link = "closed"],
             loop' = [at |-> "check", s |-> Nil], UNCHANGED <<closed, listening, sessions, told, added>>
      PROVE  SessionInv'
  <2>1. /\ sess[s].id = sessionId /\ sessionId \in Nat \ {0} /\ sess[s].link \in {"open", "eof"}
        /\ ~sess[s].reading /\ sessionId' = sessionId - 1 /\ told' = told
        /\ told[s] = 0 /\ sess[s] \in SessionRec /\ \A i \in DOMAIN sessions : sessions[i] # s
    BY <1>0, <1>4 DEF AcceptOK, MapInv
  <2>2. [[sess[s] EXCEPT !.id = sessionId - 1] EXCEPT !.link = "closed"] \in SessionRec
    <3>1. sessionId - 1 \in Nat
      BY <2>1
    <3>2. [sess[s] EXCEPT !.id = sessionId - 1] \in SessionRec
      BY <2>1, <3>1, SessionPuts, Zenon
    <3> QED
      BY <3>2, SessionPuts, Zenon
  <2>3. sess' = [sess EXCEPT ![s] = [[sess[s] EXCEPT !.id = sessionId - 1] EXCEPT !.link = "closed"]]
    BY <1>0, <1>4, Zenon DEF AcceptOK
  <2>4. AcceptOK'
    BY <1>0, <1>4, <2>1, <2>2, <2>3 DEF AcceptOK
  <2>5. /\ \A t \in Session : t # s => sess'[t] = sess[t]
        /\ sess'[s].id = sessionId - 1 /\ sess'[s].link = "closed" /\ sess'[s].reading = FALSE
    BY <1>0, <2>1, <2>3, Zenon DEF AcceptOK, SessionRec
  <2>6. sessionId \in Nat /\ told \in [Session -> Nat] /\ \A t \in Session : sess[t].id \in Nat
    BY <1>0, Zenon DEF AcceptOK, SessionRec
  <2>7. ~Failed(s) /\ Failed(s)' /\ \A t \in Session : t # s => (Failed(t)' <=> Failed(t))
    BY <1>4, <2>1, <2>5, Zenon DEF Failed
  <2>8. \A i \in 1 .. sessionId' : \E t \in Session : ~Failed(t)' /\ sess'[t].id = i
    <3>1. \A i \in 1 .. sessionId - 1 : \E t \in Session : ~Failed(t) /\ sess[t].id = i
      BY <1>0, <2>6 DEF IdInv
    <3>2. \A i \in 1 .. sessionId - 1 : \E t \in Session : ~Failed(t) /\ sess[t].id = i /\ t # s
      BY <2>1, <2>6, <3>1
    <3> QED
      BY <2>1, <2>5, <2>7, <3>2
  <2>9. \A t \in Session : ~Failed(t)' => sess'[t].id <= sessionId'
    <3>1. \A t \in Session : t # s /\ ~Failed(t) => sess[t].id # sessionId /\ sess[t].id <= sessionId
      BY <1>0, <2>1, <2>6, <2>7 DEF IdInv
    <3> QED
      BY <2>1, <2>5, <2>6, <2>7, <3>1
  <2>10. \A t, u \in Session :
           ~Failed(t)' /\ ~Failed(u)' /\ sess'[t].id = sess'[u].id /\ sess'[t].id > 0 => t = u
    BY <1>0, <2>5, <2>6, <2>7, Zenon DEF IdInv
  <2>11. IdInv'
    BY <2>8, <2>9, <2>10, Zenon DEF IdInv
  <2>12. MapInv'
    BY <1>0, <1>4, <2>1, <2>5 DEF AcceptOK, SessionRec, IdInv, Failed, MapInv
  <2>13. ToldInv'
    BY <1>0, <1>4, <2>1, <2>5 DEF AcceptOK, ToldInv
  <2> QED
    BY <2>4, <2>11, <2>12, <2>13, Zenon DEF SessionInv
<1>5. CASE Accept!SendSessionId
  <2>1. loop.at = "send" /\ loop.s \in Session
    BY <1>0, <1>5, Zenon DEF MapInv, Accept!SendSessionId
  <2> QED
    BY <1>3, <1>4, <1>5, <2>1, Zenon DEF Accept!SendSessionId, Accept!Goes
<1>6. ASSUME NEW s \in Session, Accept!Dial(s) PROVE SessionInv'
  <2>1. sess[s].link = "none"
    BY <1>6 DEF Accept!Dial, Accept!NewSession
  <2> QED
    BY <1>1, <1>6, <2>1, Zenon DEF Accept!Dial
<1>7. ASSUME NEW s \in Session, Accept!ClientCloses(s) PROVE SessionInv'
  BY <1>1, <1>7, Zenon DEF Accept!ClientCloses
<1>8. CASE Accept!Check \/ Accept!AcceptFails
  <2>1. /\ loop' \in [at : {"check", "accept", "send", "add", "end"}, s : Session \cup {Nil}]
        /\ loop'.at \notin {"send", "add"}
        /\ UNCHANGED <<closed, listening, sessionId, sessions, sess, told, added>>
    BY <1>8 DEF Accept!Check, Accept!AcceptFails, Accept!Goes
  <2>2. AcceptOK' /\ ToldInv'
    BY <1>0, <2>1, Zenon DEF AcceptOK, ToldInv
  <2>3. IdInv'
    BY <1>0, <2>1, Zenon DEF IdInv, Failed
  <2>4. MapInv'
    BY <1>0, <2>1, Zenon DEF MapInv
  <2> QED
    BY <2>2, <2>3, <2>4, Zenon DEF SessionInv
<1>9. CASE Accept!AddSession
  <2> DEFINE s == loop.s
  <2>1. /\ loop.at = "add" /\ s \in Session /\ sess[s].id = sessionId /\ sessionId \in Nat \ {0}
        /\ sess[s].link \in {"open", "eof"} /\ ~sess[s].reading /\ told[s] = 0
        /\ sess[s] \in SessionRec /\ \A i \in DOMAIN sessions : sessions[i] # s
    BY <1>0, <1>9 DEF AcceptOK, MapInv, Accept!AddSession
  <2>2. /\ sessions' = [i \in DOMAIN sessions \cup {sessionId} |-> IF i = sessionId THEN s ELSE sessions[i]]
        /\ loop' = [at |-> "check", s |-> Nil]
        /\ sess' = [sess EXCEPT ![s] = [sess[s] EXCEPT !.reading = TRUE]]
        /\ added' \subseteq added \cup {s} /\ (closed => added' = added)
        /\ UNCHANGED <<closed, listening, sessionId, told>>
    BY <1>9, <2>1, Zenon DEF Accept!AddSession, Accept!Goes
  <2>3. [sess[s] EXCEPT !.reading = TRUE] \in SessionRec
    BY <2>1, SessionPuts, Zenon
  <2>4. /\ \A t \in Session : t # s => sess'[t] = sess[t]
        /\ sess'[s].id = sessionId /\ sess'[s].link = sess[s].link /\ sess'[s].reading = TRUE
    BY <1>0, <2>1, <2>2, Zenon DEF AcceptOK, SessionRec
  <2>5. \A t \in Session : (Failed(t)' <=> Failed(t)) /\ sess'[t].id = sess[t].id
    BY <2>1, <2>2, <2>4, Zenon DEF Failed
  <2>6. AcceptOK'
    BY <1>0, <2>1, <2>2, <2>3, Zenon DEF AcceptOK
  <2>7. IdInv'
    BY <1>0, <2>2, <2>5, Zenon DEF IdInv
  <2>8. MapInv'
    <3>1. /\ DOMAIN sessions' = DOMAIN sessions \cup {sessionId} /\ sessions'[sessionId] = s
          /\ \A i \in DOMAIN sessions : i # sessionId => sessions'[i] = sessions[i]
      BY <2>2, Zenon
    <3>2. \A t \in Session : t # s /\ sess[t].reading => sess[t].id # sessionId
      BY <1>0, <2>1 DEF IdInv, MapInv, Failed, AcceptOK, SessionRec
    <3> QED
      BY <1>0, <2>1, <2>2, <2>4, <3>1, <3>2 DEF AcceptOK, SessionRec, MapInv
  <2>9. ToldInv'
    BY <1>0, <2>1, <2>2, <2>4, Zenon DEF AcceptOK, ToldInv
  <2> QED
    BY <2>6, <2>7, <2>8, <2>9, Zenon DEF SessionInv
<1>10. ASSUME NEW s \in Session, Accept!ReaderReturns(s) PROVE SessionInv'
  <2>1. /\ closed /\ sess[s].reading /\ sess' = [sess EXCEPT ![s] = [sess[s] EXCEPT !.reading = FALSE]]
        /\ UNCHANGED <<closed, listening, loop, sessionId, sessions, told, added>>
        /\ sess[s] \in SessionRec
    BY <1>0, <1>10, Zenon DEF AcceptOK, Accept!ReaderReturns
  <2>2. [sess[s] EXCEPT !.reading = FALSE] \in SessionRec
    BY <2>1, SessionPuts, Zenon
  <2>3. /\ \A t \in Session : t # s => sess'[t] = sess[t]
        /\ sess'[s].id = sess[s].id /\ sess'[s].link = sess[s].link /\ sess'[s].reading = FALSE
    BY <1>0, <2>1, Zenon DEF AcceptOK, SessionRec
  <2>4. \A t \in Session : (Failed(t)' <=> Failed(t)) /\ sess'[t].id = sess[t].id
    BY <2>1, <2>3, Zenon DEF Failed
  <2>5. AcceptOK'
    BY <1>0, <2>1, <2>2, Zenon DEF AcceptOK
  <2>6. IdInv'
    BY <1>0, <2>1, <2>4 DEF IdInv
  <2>7. MapInv'
    BY <1>0, <2>1, <2>3, <2>4 DEF AcceptOK, MapInv
  <2>8. ToldInv'
    BY <1>0, <2>1, <2>3, Zenon DEF AcceptOK, ToldInv
  <2> QED
    BY <2>5, <2>6, <2>7, <2>8, Zenon DEF SessionInv
<1>11. ASSUME NEW s \in Session, Accept!CloseSession(s) PROVE SessionInv'
  <2>1. /\ sess[s].reading /\ sess[s].id \in DOMAIN sessions /\ sess[s] \in SessionRec
        /\ sessions[sess[s].id] = s /\ sess[s].link \in {"open", "eof"}
    BY <1>0, <1>11, Zenon DEF AcceptOK, MapInv, Accept!CloseSession
  <2>2. /\ sess' = [sess EXCEPT ![s] = [[sess[s] EXCEPT !.reading = FALSE] EXCEPT !.link = "closed"]]
        /\ sessions' = [j \in DOMAIN sessions \ {sess[s].id} |-> sessions[j]]
        /\ UNCHANGED <<closed, listening, loop, sessionId, added>>
        /\ told' = [t \in Session |-> IF t \in {s} THEN told[t] + 1 ELSE told[t]]
    BY <1>0, <1>11, Zenon DEF AcceptOK, Accept!CloseSession, Accept!Deletes, Accept!Tells
  <2>3. [[sess[s] EXCEPT !.reading = FALSE] EXCEPT !.link = "closed"] \in SessionRec
    BY <2>1, SessionPuts, Zenon
  <2>4. /\ \A t \in Session : t # s => sess'[t] = sess[t]
        /\ sess'[s].id = sess[s].id /\ sess'[s].link = "closed" /\ sess'[s].reading = FALSE
    BY <1>0, <2>1, <2>2, Zenon DEF AcceptOK, SessionRec
  <2>5. /\ told'[s] = told[s] + 1 /\ told[s] \in Nat /\ \A t \in Session : t # s => told'[t] = told[t]
        /\ told' \in [Session -> Nat]
    BY <1>0, <2>2 DEF AcceptOK
  <2>6. \A t \in Session : (Failed(t)' <=> Failed(t)) /\ sess'[t].id = sess[t].id
    BY <2>1, <2>4, <2>5 DEF Failed
  <2>7. AcceptOK'
    BY <1>0, <2>1, <2>2, <2>3, <2>5, Zenon DEF AcceptOK
  <2>8. IdInv'
    BY <1>0, <2>2, <2>6, Zenon DEF IdInv
  <2>9. MapInv'
    <3>1. /\ DOMAIN sessions' = DOMAIN sessions \ {sess[s].id}
          /\ \A i \in DOMAIN sessions : i # sess[s].id => sessions'[i] = sessions[i]
      BY <2>2, Zenon
    <3>2. \A t \in Session : t # s /\ sess[t].reading => sess[t].id # sess[s].id
      BY <1>0, <2>1 DEF MapInv
    <3>3. \A i \in DOMAIN sessions : sessions[i] = s => i = sess[s].id
      BY <1>0, <2>1, Zenon DEF MapInv
    <3> QED
      BY <1>0, <2>1, <2>2, <2>4, <2>5, <3>1, <3>2, <3>3 DEF AcceptOK, SessionRec, MapInv
  <2>10. ToldInv'
    BY <1>0, <2>1, <2>2, <2>4, <2>5 DEF AcceptOK, ToldInv
  <2> QED
    BY <2>7, <2>8, <2>9, <2>10, Zenon DEF SessionInv
<1>12. CASE Accept!Close
  <2> DEFINE S == {sessions[i] : i \in DOMAIN sessions}
  <2>1. /\ ~closed /\ closed' = TRUE /\ listening' = FALSE
        /\ told' = [t \in Session |-> IF t \in S THEN told[t] + 1 ELSE told[t]]
        /\ UNCHANGED <<loop, sessionId, sessions, sess, added>>
    BY <1>12, Zenon DEF Accept!Close, Accept!Tells, Accept!Mapped
  <2>2. /\ told' \in [Session -> Nat]
        /\ \A t \in Session : told[t] \in Nat /\ told'[t] \in {told[t], told[t] + 1}
        /\ \A t \in Session : t \in S => told'[t] = told[t] + 1
        /\ \A t \in Session : t \notin S => told'[t] = told[t]
    BY <1>0, <2>1 DEF AcceptOK
  <2>3. \A t \in Session : t \in S => sess[t].link \in {"open", "eof"} /\ sess[t].id # 0
    BY <1>0 DEF MapInv
  <2>4. \A t \in Session : sess[t].reading => t \in S
    BY <1>0 DEF MapInv, AcceptOK
  <2>5. \A t \in Session : Failed(t)' <=> Failed(t)
    BY <2>1, <2>2, <2>3, Zenon DEF Failed
  <2>6. AcceptOK'
    BY <1>0, <2>1, <2>2, Zenon DEF AcceptOK
  <2>7. IdInv'
    BY <1>0, <2>1, <2>5, Zenon DEF IdInv
  <2>8. MapInv'
    <3>1. loop.at \in {"send", "add"} => loop.s \notin S
      BY <1>0, Zenon DEF MapInv
    <3>2. \A t \in Session : sess[t].id = 0 => told'[t] = 0
      BY <1>0, <2>2, <2>3, Zenon DEF MapInv
    <3> HIDE DEF S
    <3> QED
      BY <1>0, <2>1, <2>2, <3>1, <3>2, Zenon DEF MapInv
  <2>9. ToldInv'
    <3> HIDE DEF S
    <3>1. \A t \in added' : told'[t] > 0
      BY <1>0, <2>1, <2>2, <2>4 DEF ToldInv, AcceptOK
    <3>2. \A t \in Session : told'[t] <= 1 + (IF sess'[t].link = "closed" THEN 1 ELSE 0)
      BY <1>0, <2>1, <2>2, <2>3 DEF ToldInv
    <3> QED
      BY <2>1, <3>1, <3>2, Zenon DEF ToldInv
  <2> QED
    BY <2>6, <2>7, <2>8, <2>9, Zenon DEF SessionInv
<1>13. CASE UNCHANGED acceptVars
  <2>1. UNCHANGED <<closed, listening, loop, sessionId, sessions, sess, told, added>>
    BY <1>13, Zenon DEF acceptVars
  <2>2. AcceptOK' /\ ToldInv' /\ MapInv'
    BY <1>0, <2>1, Zenon DEF AcceptOK, ToldInv, MapInv
  <2>3. IdInv'
    BY <1>0, <2>1, Zenon DEF IdInv, Failed
  <2> QED
    BY <2>2, <2>3, Zenon DEF SessionInv
<1> QED
  BY <1>2, <1>5, <1>6, <1>7, <1>8, <1>9, <1>10, <1>11, <1>12, <1>13, Zenon
  DEF Accept!Next, Accept!Accepting, Accept!Reader

-------------------------------------------------------------------------------

\* The types of the functions.
OpAt == {"idle", "start", "check", "status", "candidate", "vote", "leader", "role", "return", "finish"}
EvAt == {"idle", "check", "field", "send", "metrics", "gauge"}
RoleOK ==
    /\ TypeOK
    /\ at \in [Proc -> OpAt] /\ new \in [Proc -> {Nil, "me", "other"}]
    /\ ev \in [Runner -> EvAt] /\ value \in [Runner -> -1 .. 1]

\* What holds between the steps of role changes that do not overlap: the fight
\* still sees no leader, and the first write of a change is still there.
FieldsInv ==
    ~raced =>
        /\ \A p \in Proc : at[p] \in {"status", "candidate"} => nodeLeader = Nil
        /\ \A p \in Proc : at[p] = "role" => nodeLeader = new[p]
        /\ status # "closed" /\ (\A p \in Proc : at[p] # "role") =>
              /\ status = "leader" <=> nodeLeader = "me"
              /\ nodeLeader = "other" => status = "follower"

\* Once Close has begun and overtaken nothing, the status stays closed and
\* nobody gets past the first test of createEvent.
CloseInv ==
    /\ channel = "closed" => closing # "no"
    /\ closing # "no" /\ ~overtaken =>
          status = "closed" /\ \A r \in Runner : ev[r] \in {"idle", "check"}
    /\ crashed => overtaken

\* A goroutine of fightElection is between taking the flag and giving it back.
InFight(p) == at[p] \in {"check", "status", "candidate", "vote", "leader", "role", "return"}

\* The flag is set exactly while one goroutine fights; the others only sign and
\* release leaders.
FightInv ==
    /\ \A p \in Proc \ Fighter : at[p] \in {"idle", "leader", "role"}
    /\ \A p \in Fighter : InFight(p) => fighting
    /\ \A p, q \in Fighter : InFight(p) /\ InFight(q) => p = q
    /\ fighting => \E p \in Fighter : InFight(p)

\* An event that has still to read the role for the gauge.
Pending(r) == ev[r] \in {"check", "field", "send", "metrics"}

\* In an open cluster the gauge is right, or about to be set right by the one
\* goroutine that has read the role, unless a fight or an event is under way that
\* will read the role again.
GaugeInv ==
    /\ closing = "no" => status # "closed"
    /\ ~mixed => \A r, o \in Runner : ev[r] = "gauge" /\ ev[o] = "gauge" => r = o
    /\ ~mixed /\ closing = "no" /\ ~fighting /\ (\A r \in Runner : ~Pending(r)) =>
          \/ (\A r \in Runner : ev[r] = "idle") /\ (gauge = 1 <=> status = "leader")
          \/ \E r \in Runner : ev[r] = "gauge" /\ (value[r] = 1 <=> status = "leader")

-------------------------------------------------------------------------------
(* Types *)

\* The initial state has the types.
LEMMA RoleInit == Init => RoleOK
<1> SUFFICES ASSUME Init PROVE RoleOK
  BY Zenon
<1>1. at \in [Proc -> OpAt] /\ new \in [Proc -> {Nil, "me", "other"}]
  BY Zenon DEF Init, OpAt
<1>2. ev \in [Runner -> EvAt] /\ value \in [Runner -> -1 .. 1]
  BY DEF Init, EvAt
<1>3. mu \in Proc \cup {Nil} /\ queued \in 0 .. EventCap /\ ops \in 0 .. MaxOps /\ gauge \in -1 .. 1
  BY RoleAssumption DEF Init
<1>4. TypeOK
  BY <1>3, Zenon DEF Init, TypeOK
<1> QED
  BY <1>1, <1>2, <1>4, Zenon DEF RoleOK

\* Every step keeps the types; the events channel never holds more than its
\* capacity and the counter of role changes stays below its bound.
LEMMA TypeStep == RoleOK /\ [Next]_vars => RoleOK'
<1> SUFFICES ASSUME RoleOK, [Next]_vars PROVE RoleOK'
  BY Zenon
<1> USE RoleAssumption DEF RoleOK, TypeOK, OpAt, EvAt
<1>1. CASE StartUp
  BY <1>1, Zenon DEF StartUp, Calls, Runner, roleVars, outVars, lifeVars, chanVars
<1>2. CASE Started
  BY <1>2, Zenon DEF Started, roleVars, outVars, lifeVars, chanVars
<1>3. CASE Close
  BY <1>3, Zenon DEF Close, Calls, Runner, roleVars, outVars, lifeVars, chanVars
<1>4. CASE Receive
  BY <1>4 DEF Receive, roleVars, outVars, lifeVars, chanVars
<1>5. CASE CloseChannel
  BY <1>5, Zenon DEF CloseChannel, roleVars, outVars, lifeVars, chanVars
<1>6. CASE ClearField
  BY <1>6, Zenon DEF ClearField, roleVars, outVars, lifeVars, chanVars
<1>7. ASSUME NEW p \in Handler, Sign(p) PROVE RoleOK'
  BY <1>7 DEF Sign, Begins, Locks, Puts, Proc, roleVars, outVars, lifeVars, chanVars
<1>8. ASSUME NEW p \in Handler, Release(p) PROVE RoleOK'
  BY <1>8 DEF Release, Begins, Puts, Proc, roleVars, outVars, lifeVars, chanVars
<1>9. ASSUME NEW p \in Fighter, Fight(p) PROVE RoleOK'
  BY <1>9 DEF Fight, Begins, Goes, Proc, Calls, Runner, roleVars, outVars, lifeVars, chanVars
<1>10. ASSUME NEW p \in Proc, WriteLeader(p) PROVE RoleOK'
  BY <1>10, Zenon DEF WriteLeader, Goes, roleVars, outVars, lifeVars, chanVars
<1>11. ASSUME NEW p \in Proc, WriteRole(p) PROVE RoleOK'
  BY <1>11 DEF WriteRole, Puts, RoleOf, Tells, Spawns, Calls, Runner, roleVars, outVars, lifeVars, chanVars
<1>12. ASSUME NEW p \in Proc, Enter(p) PROVE RoleOK'
  BY <1>12 DEF Enter, Goes, Calls, Runner, roleVars, outVars, lifeVars, chanVars
<1>13. ASSUME NEW p \in Proc, Check(p) PROVE RoleOK'
  BY <1>13, Zenon DEF Check, Goes, roleVars, outVars, lifeVars, chanVars
<1>14. ASSUME NEW p \in Proc, ReadStatus(p) PROVE RoleOK'
  BY <1>14, Zenon DEF ReadStatus, Goes, roleVars, outVars, lifeVars, chanVars
<1>15. ASSUME NEW p \in Proc, Candidate(p) PROVE RoleOK'
  BY <1>15, Zenon DEF Candidate, Goes, roleVars, outVars, lifeVars, chanVars
<1>16. ASSUME NEW p \in Proc, Vote(p) PROVE RoleOK'
  BY <1>16, Zenon DEF Vote, Goes, Locks, Puts, roleVars, outVars, lifeVars, chanVars
<1>17. ASSUME NEW p \in Proc, Return(p) PROVE RoleOK'
  BY <1>17, Zenon DEF Return, Goes, Calls, Runner, roleVars, outVars, lifeVars, chanVars
<1>18. ASSUME NEW p \in Proc, Finish(p) PROVE RoleOK'
  BY <1>18, Zenon DEF Finish, Goes, roleVars, outVars, lifeVars, chanVars
<1>19. ASSUME NEW r \in Runner, CheckClosed(r) PROVE RoleOK'
  BY <1>19, Zenon DEF CheckClosed, Steps, roleVars, outVars, lifeVars, chanVars
<1>20. ASSUME NEW r \in Runner, ReadField(r) PROVE RoleOK'
  BY <1>20, Zenon DEF ReadField, Steps, roleVars, outVars, lifeVars, chanVars
<1>21. ASSUME NEW r \in Runner, Send(r) PROVE RoleOK'
  BY <1>21 DEF Send, Steps, Room, roleVars, outVars, lifeVars, chanVars
<1>22. ASSUME NEW r \in Runner, ReadMetrics(r) PROVE RoleOK'
  BY <1>22 DEF ReadMetrics, Shown, roleVars, outVars, lifeVars, chanVars
<1>23. ASSUME NEW r \in Runner, SetGauge(r) PROVE RoleOK'
  BY <1>23 DEF SetGauge, roleVars, outVars, lifeVars, chanVars
<1>24. CASE UNCHANGED vars
  BY <1>24, Zenon DEF vars, roleVars, outVars, chanVars, lifeVars, history
<1> QED
  BY <1>1, <1>2, <1>3, <1>4, <1>5, <1>6, <1>7, <1>8, <1>9, <1>10, <1>11, <1>12,
     <1>13, <1>14, <1>15, <1>16, <1>17, <1>18, <1>19, <1>20, <1>21, <1>22, <1>23, <1>24, Zenon
  DEF Next, Begin, CloseStep, ProcStep, EventStep

-------------------------------------------------------------------------------
(* The fields agree *)

\* A step of one role change keeps what the others rely on, or overlaps them.
LEMMA FieldsStep == RoleOK /\ FieldsInv /\ [Next]_vars => FieldsInv'
<1> SUFFICES ASSUME RoleOK, FieldsInv, [Next]_vars PROVE FieldsInv'
  BY Zenon
<1> USE DEF FieldsInv, RoleOK
<1>1. CASE StartUp
  BY <1>1, RoleAssumption, Zenon DEF StartUp, roleVars, history
<1>2. CASE Started
  BY <1>2, RoleAssumption, Zenon DEF Started, history
<1>3. CASE Close
  BY <1>3, RoleAssumption, Zenon DEF Close
<1>4. CASE Receive
  BY <1>4, RoleAssumption, Zenon DEF Receive, roleVars, history
<1>5. CASE CloseChannel
  BY <1>5, RoleAssumption, Zenon DEF CloseChannel, roleVars, history
<1>6. CASE ClearField
  BY <1>6, RoleAssumption, Zenon DEF ClearField, roleVars, history
<1>7. ASSUME NEW p \in Handler, Sign(p) PROVE FieldsInv'
  BY <1>7, RoleAssumption, Zenon DEF Sign, Locks, Puts, Proc, Notes, Changing, Begins
<1>8. ASSUME NEW p \in Handler, Release(p) PROVE FieldsInv'
  BY <1>8, RoleAssumption, Zenon DEF Release, Puts, Proc, Notes, Changing, Begins
<1>9. ASSUME NEW p \in Fighter, Fight(p) PROVE FieldsInv'
  BY <1>9, RoleAssumption, Zenon DEF Fight, Goes, Proc, history, Begins
<1>10. ASSUME NEW p \in Proc, WriteLeader(p) PROVE FieldsInv'
  BY <1>10, RoleAssumption, Zenon DEF WriteLeader, Goes, Notes, Changing
<1>11. ASSUME NEW p \in Proc, WriteRole(p) PROVE FieldsInv'
  BY <1>11, RoleAssumption, Zenon DEF WriteRole, Puts, Notes, Changing, RoleOf
<1>12. ASSUME NEW p \in Proc, Enter(p) PROVE FieldsInv'
  BY <1>12, RoleAssumption, Zenon DEF Enter, Goes, history
<1>13. ASSUME NEW p \in Proc, Check(p) PROVE FieldsInv'
  BY <1>13, RoleAssumption, Zenon DEF Check, Goes, history
<1>14. ASSUME NEW p \in Proc, ReadStatus(p) PROVE FieldsInv'
  BY <1>14, RoleAssumption, Zenon DEF ReadStatus, Goes, Notes, Changing
<1>15. ASSUME NEW p \in Proc, Candidate(p) PROVE FieldsInv'
  BY <1>15, RoleAssumption, Zenon DEF Candidate, Goes, Notes, Changing
<1>16. ASSUME NEW p \in Proc, Vote(p) PROVE FieldsInv'
  BY <1>16, RoleAssumption, Zenon DEF Vote, Goes, Locks, Puts, Notes, Changing
<1>17. ASSUME NEW p \in Proc, Return(p) PROVE FieldsInv'
  BY <1>17, RoleAssumption, Zenon DEF Return, Goes, history
<1>18. ASSUME NEW p \in Proc, Finish(p) PROVE FieldsInv'
  BY <1>18, RoleAssumption, Zenon DEF Finish, Goes, history
<1>19. ASSUME NEW r \in Runner, CheckClosed(r) PROVE FieldsInv'
  BY <1>19, RoleAssumption, Zenon DEF CheckClosed, roleVars, history
<1>20. ASSUME NEW r \in Runner, ReadField(r) PROVE FieldsInv'
  BY <1>20, RoleAssumption, Zenon DEF ReadField, roleVars, history
<1>21. ASSUME NEW r \in Runner, Send(r) PROVE FieldsInv'
  BY <1>21, RoleAssumption, Zenon DEF Send, roleVars, history
<1>22. ASSUME NEW r \in Runner, ReadMetrics(r) PROVE FieldsInv'
  BY <1>22, RoleAssumption, Zenon DEF ReadMetrics, roleVars, history
<1>23. ASSUME NEW r \in Runner, SetGauge(r) PROVE FieldsInv'
  BY <1>23, RoleAssumption, Zenon DEF SetGauge, roleVars, history
<1>24. CASE UNCHANGED vars
  BY <1>24, Zenon DEF vars, roleVars, outVars, chanVars, lifeVars, history
<1> QED
  BY <1>1, <1>2, <1>3, <1>4, <1>5, <1>6, <1>7, <1>8, <1>9, <1>10, <1>11, <1>12,
     <1>13, <1>14, <1>15, <1>16, <1>17, <1>18, <1>19, <1>20, <1>21, <1>22, <1>23, <1>24, Zenon
  DEF Next, Begin, CloseStep, ProcStep, EventStep

-------------------------------------------------------------------------------
(* Close *)

\* A step keeps late events away from the closed channel, or Close has
\* overtaken something.
LEMMA CloseInvStep == RoleOK /\ CloseInv /\ [Next]_vars => CloseInv'
<1> SUFFICES ASSUME RoleOK, CloseInv, [Next]_vars PROVE CloseInv'
  BY Zenon
<1> USE DEF CloseInv, RoleOK
<1>1. CASE StartUp
  BY <1>1, Zenon DEF StartUp, Calls, Runner, outVars, lifeVars, chanVars, history, roleVars
<1>2. CASE Started
  BY <1>2, Zenon DEF Started, outVars, lifeVars, chanVars, history, roleVars
<1>3. CASE Close
  BY <1>3, Zenon DEF Close, Calls, Runner, chanVars
<1>4. CASE Receive
  BY <1>4, Zenon DEF Receive, outVars, lifeVars, chanVars, history, roleVars
<1>5. CASE CloseChannel
  BY <1>5, Zenon DEF CloseChannel, outVars, lifeVars, chanVars, history, roleVars
<1>6. CASE ClearField
  BY <1>6, Zenon DEF ClearField, outVars, lifeVars, chanVars, history, roleVars
<1>7. ASSUME NEW p \in Handler, Sign(p) PROVE CloseInv'
  BY <1>7, Zenon DEF Sign, outVars, lifeVars, chanVars, history, roleVars
<1>8. ASSUME NEW p \in Handler, Release(p) PROVE CloseInv'
  BY <1>8, Zenon DEF Release, outVars, lifeVars, chanVars, history, roleVars
<1>9. ASSUME NEW p \in Fighter, Fight(p) PROVE CloseInv'
  BY <1>9, Zenon DEF Fight, Calls, Runner, outVars, lifeVars, chanVars, history, roleVars
<1>10. ASSUME NEW p \in Proc, WriteLeader(p) PROVE CloseInv'
  BY <1>10, Zenon DEF WriteLeader, outVars, lifeVars, chanVars, history, roleVars
<1>11. ASSUME NEW p \in Proc, WriteRole(p) PROVE CloseInv'
  BY <1>11, Zenon DEF WriteRole, Tells, Spawns, Calls, Runner, outVars, lifeVars, chanVars, history, roleVars
<1>12. ASSUME NEW p \in Proc, Enter(p) PROVE CloseInv'
  BY <1>12, Zenon DEF Enter, Calls, outVars, lifeVars, chanVars, history, roleVars
<1>13. ASSUME NEW p \in Proc, Check(p) PROVE CloseInv'
  BY <1>13, Zenon DEF Check, outVars, lifeVars, chanVars, history, roleVars
<1>14. ASSUME NEW p \in Proc, ReadStatus(p) PROVE CloseInv'
  BY <1>14, Zenon DEF ReadStatus, outVars, lifeVars, chanVars, history, roleVars
<1>15. ASSUME NEW p \in Proc, Candidate(p) PROVE CloseInv'
  BY <1>15, Zenon DEF Candidate, outVars, lifeVars, chanVars, history, roleVars
<1>16. ASSUME NEW p \in Proc, Vote(p) PROVE CloseInv'
  BY <1>16, Zenon DEF Vote, outVars, lifeVars, chanVars, history, roleVars
<1>17. ASSUME NEW p \in Proc, Return(p) PROVE CloseInv'
  BY <1>17, Zenon DEF Return, Calls, outVars, lifeVars, chanVars, history, roleVars
<1>18. ASSUME NEW p \in Proc, Finish(p) PROVE CloseInv'
  BY <1>18, Zenon DEF Finish, outVars, lifeVars, chanVars, history, roleVars
<1>19. ASSUME NEW r \in Runner, CheckClosed(r) PROVE CloseInv'
  BY <1>19, Zenon DEF CheckClosed, Steps, outVars, lifeVars, chanVars, history, roleVars
<1>20. ASSUME NEW r \in Runner, ReadField(r) PROVE CloseInv'
  BY <1>20, Zenon DEF ReadField, Steps, outVars, lifeVars, chanVars, history, roleVars
<1>21. ASSUME NEW r \in Runner, Send(r) PROVE CloseInv'
  BY <1>21, Zenon DEF Send, Steps, outVars, lifeVars, chanVars, history, roleVars
<1>22. ASSUME NEW r \in Runner, ReadMetrics(r) PROVE CloseInv'
  BY <1>22, Zenon DEF ReadMetrics, outVars, lifeVars, chanVars, history, roleVars
<1>23. ASSUME NEW r \in Runner, SetGauge(r) PROVE CloseInv'
  BY <1>23, Zenon DEF SetGauge, outVars, lifeVars, chanVars, history, roleVars
<1>24. CASE UNCHANGED vars
  BY <1>24, Zenon DEF vars, roleVars, outVars, chanVars, lifeVars, history
<1> QED
  BY <1>1, <1>2, <1>3, <1>4, <1>5, <1>6, <1>7, <1>8, <1>9, <1>10, <1>11, <1>12,
     <1>13, <1>14, <1>15, <1>16, <1>17, <1>18, <1>19, <1>20, <1>21, <1>22, <1>23, <1>24, Zenon
  DEF Next, Begin, CloseStep, ProcStep, EventStep

-------------------------------------------------------------------------------
\* As long as role changes do not overlap, status and nodeLeader agree whenever
\* none is under way (signLeader, releaseLeader, fightElection), for any number
\* of handlers and fights.
THEOREM FieldsAgree == Spec => []RolesAgree
<1>1. Init => RoleOK /\ FieldsInv
  BY RoleInit, RoleAssumption, Zenon DEF Init, FieldsInv
<1>2. RoleOK /\ FieldsInv /\ [Next]_vars => (RoleOK /\ FieldsInv)'
  BY TypeStep, FieldsStep, Zenon
<1>3. FieldsInv => RolesAgree
  BY Zenon DEF FieldsInv, RolesAgree, Changing
<1> QED
  BY <1>1, <1>2, <1>3, PTL DEF Spec

\* createEvent panics on the closed channel only if Close overtook an event or a
\* role change reset the closed status, for any number of goroutines.
THEOREM CrashOnlyByOverlap == Spec => []CrashNeedsOverlap
<1>1. Init => RoleOK /\ CloseInv
  BY RoleInit, Zenon DEF Init, CloseInv
<1>2. RoleOK /\ CloseInv /\ [Next]_vars => (RoleOK /\ CloseInv)'
  BY TypeStep, CloseInvStep, Zenon
<1>3. CloseInv => CrashNeedsOverlap
  BY Zenon DEF CloseInv, CrashNeedsOverlap
<1> QED
  BY <1>1, <1>2, <1>3, PTL DEF Spec

-------------------------------------------------------------------------------
(* The gauge *)

\* A step of a fight keeps the flag: it is set exactly while one goroutine fights.
LEMMA FightStep == RoleOK /\ FightInv /\ [Next]_vars => FightInv'
<1> SUFFICES ASSUME RoleOK, FightInv, [Next]_vars PROVE FightInv'
  BY Zenon
<1> USE DEF RoleOK, FightInv, InFight
<1>0. ASSUME NEW p \in Proc, InFight(p) /\ at[p] \notin {"leader", "role"}, fighting' = fighting,
             \E l \in {"status", "candidate", "vote", "leader", "role", "return"} : at' = [at EXCEPT ![p] = l]
      PROVE  FightInv'
  <2>1. p \in Fighter
    BY <1>0, Zenon
  <2>2. \A q \in Proc : InFight(q)' <=> InFight(q)
    BY <1>0, Zenon
  <2>3. \A q \in Proc : q # p => at'[q] = at[q]
    BY <1>0, Zenon
  <2> HIDE DEF InFight
  <2> QED
    BY <1>0, <2>1, <2>2, <2>3, Zenon DEF Proc
<1>1. CASE StartUp
  BY <1>1, RoleAssumption, Zenon DEF StartUp, roleVars
<1>2. CASE Started
  BY <1>2, RoleAssumption, Zenon DEF Started, roleVars
<1>3. CASE Close
  BY <1>3, RoleAssumption, Zenon DEF Close, roleVars
<1>4. CASE Receive
  BY <1>4, RoleAssumption, Zenon DEF Receive, roleVars
<1>5. CASE CloseChannel
  BY <1>5, RoleAssumption, Zenon DEF CloseChannel, roleVars
<1>6. CASE ClearField
  BY <1>6, RoleAssumption, Zenon DEF ClearField, roleVars
<1>7. ASSUME NEW p \in Handler, Sign(p) PROVE FightInv'
  BY <1>7, RoleAssumption DEF Sign, Begins, Locks, Puts, Proc, roleVars
<1>8. ASSUME NEW p \in Handler, Release(p) PROVE FightInv'
  BY <1>8, RoleAssumption DEF Release, Begins, Puts, Proc, roleVars
<1>9. ASSUME NEW p \in Fighter, Fight(p) PROVE FightInv'
  BY <1>9, RoleAssumption, Zenon DEF Fight, Begins, Goes, Proc, roleVars
<1>10. ASSUME NEW p \in Proc, WriteLeader(p) PROVE FightInv'
  BY <1>10, RoleAssumption DEF WriteLeader, Goes, roleVars
<1>11. ASSUME NEW p \in Proc, WriteRole(p) PROVE FightInv'
  BY <1>11, RoleAssumption DEF WriteRole, Puts, RoleOf, roleVars
<1>12. ASSUME NEW p \in Proc, Enter(p) PROVE FightInv'
  <2>1. p \in Fighter /\ at[p] = "start" /\ ~InFight(p)
    BY <1>12, Zenon DEF Enter
  <2>2. \A q \in Proc : q # p => at'[q] = at[q]
    BY <1>12, Zenon DEF Enter, Goes
  <2>3. CASE at' = [at EXCEPT ![p] = "finish"] /\ fighting' = fighting
    BY <2>1, <2>2, <2>3
  <2>4. CASE at' = [at EXCEPT ![p] = "check"] /\ fighting' = TRUE /\ ~fighting
    <3>1. InFight(p)' /\ \A q \in Fighter : q # p => ~InFight(q)'
      BY <2>1, <2>2, <2>4
    <3> HIDE DEF InFight
    <3> QED
      BY <2>1, <2>2, <2>4, <3>1, Zenon
  <2> QED
    BY <1>12, <2>3, <2>4, Zenon DEF Enter, Goes
<1>13. ASSUME NEW p \in Proc, Check(p) PROVE FightInv'
  BY <1>0, <1>13, Zenon DEF Check, Goes
<1>14. ASSUME NEW p \in Proc, ReadStatus(p) PROVE FightInv'
  BY <1>0, <1>14, Zenon DEF ReadStatus, Goes
<1>15. ASSUME NEW p \in Proc, Candidate(p) PROVE FightInv'
  BY <1>0, <1>15, Zenon DEF Candidate, Goes
<1>16. ASSUME NEW p \in Proc, Vote(p) PROVE FightInv'
  BY <1>0, <1>16, Zenon DEF Vote, Goes, Locks, Puts
<1>17. ASSUME NEW p \in Proc, Return(p) PROVE FightInv'
  BY <1>17, RoleAssumption DEF Return, Goes, roleVars
<1>18. ASSUME NEW p \in Proc, Finish(p) PROVE FightInv'
  BY <1>18, RoleAssumption DEF Finish, Goes, roleVars
<1>19. ASSUME NEW r \in Runner, CheckClosed(r) PROVE FightInv'
  BY <1>19, RoleAssumption, Zenon DEF CheckClosed, roleVars
<1>20. ASSUME NEW r \in Runner, ReadField(r) PROVE FightInv'
  BY <1>20, RoleAssumption, Zenon DEF ReadField, roleVars
<1>21. ASSUME NEW r \in Runner, Send(r) PROVE FightInv'
  BY <1>21, RoleAssumption, Zenon DEF Send, roleVars
<1>22. ASSUME NEW r \in Runner, ReadMetrics(r) PROVE FightInv'
  BY <1>22, RoleAssumption, Zenon DEF ReadMetrics, roleVars
<1>23. ASSUME NEW r \in Runner, SetGauge(r) PROVE FightInv'
  BY <1>23, RoleAssumption, Zenon DEF SetGauge, roleVars
<1>24. CASE UNCHANGED vars
  BY <1>24, Zenon DEF vars, roleVars, outVars, chanVars, lifeVars, history
<1> QED
  BY <1>1, <1>2, <1>3, <1>4, <1>5, <1>6, <1>7, <1>8, <1>9, <1>10, <1>11, <1>12,
     <1>13, <1>14, <1>15, <1>16, <1>17, <1>18, <1>19, <1>20, <1>21, <1>22, <1>23, <1>24, Zenon
  DEF Next, Begin, CloseStep, ProcStep, EventStep

\* A step keeps the gauge right, or an update or a fight is under way.
LEMMA GaugeStep == RoleOK /\ FightInv /\ GaugeInv /\ [Next]_vars => GaugeInv'
<1> SUFFICES ASSUME RoleOK, FightInv, GaugeInv, [Next]_vars PROVE GaugeInv'
  BY Zenon
<1> USE DEF RoleOK, GaugeInv, Pending
<1>1. CASE StartUp
  BY <1>1, Zenon DEF StartUp, Calls, roleVars, outVars, lifeVars, chanVars, history
<1>2. CASE Started
  BY <1>2, Zenon DEF Started, roleVars, outVars, lifeVars, chanVars, history
<1>3. CASE Close
  BY <1>3, Zenon DEF Close, Calls, roleVars, outVars, lifeVars, chanVars, history
<1>4. CASE Receive
  BY <1>4, Zenon DEF Receive, roleVars, outVars, lifeVars, chanVars, history
<1>5. CASE CloseChannel
  BY <1>5, Zenon DEF CloseChannel, roleVars, outVars, lifeVars, chanVars, history
<1>6. CASE ClearField
  BY <1>6, Zenon DEF ClearField, roleVars, outVars, lifeVars, chanVars, history
<1>7. ASSUME NEW p \in Handler, Sign(p) PROVE GaugeInv'
  BY <1>7, Zenon DEF Sign, Begins, Locks, Puts, Proc, roleVars, outVars, lifeVars, chanVars, history
<1>8. ASSUME NEW p \in Handler, Release(p) PROVE GaugeInv'
  BY <1>8, Zenon DEF Release, Begins, Puts, Proc, roleVars, outVars, lifeVars, chanVars, history
<1>9. ASSUME NEW p \in Fighter, Fight(p) PROVE GaugeInv'
  BY <1>9, Zenon DEF Fight, Begins, Goes, Proc, Calls, roleVars, outVars, lifeVars, chanVars, history
<1>10. ASSUME NEW p \in Proc, WriteLeader(p) PROVE GaugeInv'
  BY <1>10, Zenon DEF WriteLeader, Goes, roleVars, outVars, lifeVars, chanVars, history
<1>11. ASSUME NEW p \in Proc, WriteRole(p) PROVE GaugeInv'
  <2>1. PICK e \in Event : ev[e] = "idle" /\ ev' = [ev EXCEPT ![e] = "check"]
    BY <1>11, Zenon DEF WriteRole, Tells, Spawns, Calls
  <2>2. e \in Runner /\ ev'[e] = "check" /\ \A r \in Runner : r # e => ev'[r] = ev[r]
    BY <2>1, Zenon DEF Runner
  <2>3. status' # "closed" /\ closing' = closing /\ mixed' = mixed
    BY <1>11, Zenon DEF WriteRole, RoleOf, lifeVars
  <2> QED
    BY <2>2, <2>3, Zenon
<1>12. ASSUME NEW p \in Proc, Enter(p) PROVE GaugeInv'
  BY <1>12 DEF Enter, Goes, Calls, roleVars, outVars, lifeVars, chanVars, history
<1>13. ASSUME NEW p \in Proc, Check(p) PROVE GaugeInv'
  BY <1>13, Zenon DEF Check, Goes, roleVars, outVars, lifeVars, chanVars, history
<1>14. ASSUME NEW p \in Proc, ReadStatus(p) PROVE GaugeInv'
  BY <1>14, Zenon DEF ReadStatus, Goes, roleVars, outVars, lifeVars, chanVars, history
<1>15. ASSUME NEW p \in Proc, Candidate(p) PROVE GaugeInv'
  <2>1. fighting
    BY <1>15, Zenon DEF Candidate, FightInv, InFight
  <2>2. status' = "candidate" /\ UNCHANGED <<fighting, ev, closing, mixed>>
    BY <1>15, Zenon DEF Candidate, outVars, lifeVars
  <2> QED
    BY <2>1, <2>2, Zenon
<1>16. ASSUME NEW p \in Proc, Vote(p) PROVE GaugeInv'
  BY <1>16, Zenon DEF Vote, Goes, Locks, Puts, roleVars, outVars, lifeVars, chanVars, history
<1>17. ASSUME NEW p \in Proc, Return(p) PROVE GaugeInv'
  <2>1. p \in Runner
    BY <1>17, Zenon DEF Return, FightInv, Runner
  <2>2. ev'[p] = "check" /\ \A r \in Runner : r # p => ev'[r] = ev[r]
    BY <1>17, <2>1, Zenon DEF Return, Calls
  <2>3. UNCHANGED <<status, closing, mixed>>
    BY <1>17, Zenon DEF Return, lifeVars, history
  <2> QED
    BY <2>1, <2>2, <2>3, Zenon
<1>18. ASSUME NEW p \in Proc, Finish(p) PROVE GaugeInv'
  BY <1>18, Zenon DEF Finish, Goes, roleVars, outVars, lifeVars, chanVars, history
<1>19. ASSUME NEW r \in Runner, CheckClosed(r) PROVE GaugeInv'
  BY <1>19, Zenon DEF CheckClosed, Steps, roleVars, outVars, lifeVars, chanVars, history
<1>20. ASSUME NEW r \in Runner, ReadField(r) PROVE GaugeInv'
  BY <1>20, Zenon DEF ReadField, Steps, roleVars, outVars, lifeVars, chanVars, history
<1>21. ASSUME NEW r \in Runner, Send(r) PROVE GaugeInv'
  BY <1>21, Zenon DEF Send, Steps, Room, roleVars, outVars, lifeVars, chanVars, history
<1>22. ASSUME NEW r \in Runner, ReadMetrics(r) PROVE GaugeInv'
  <2>1. /\ ev[r] = "metrics" /\ ev'[r] = "gauge" /\ \A o \in Runner : o # r => ev'[o] = ev[o]
        /\ UNCHANGED <<status, fighting, closing, gauge>>
        /\ mixed' = (mixed \/ \E o \in Runner : ev[o] = "gauge")
    BY <1>22, Zenon DEF ReadMetrics, roleVars, lifeVars
  <2>2. ~fighting => (value'[r] = 1 <=> status = "leader")
    BY <1>22 DEF ReadMetrics, Shown, RoleOK
  <2>3. ~mixed' => ~mixed /\ \A o \in Runner : ev[o] # "gauge"
    BY <2>1, Zenon
  <2> QED
    BY <2>1, <2>2, <2>3, Zenon
<1>23. ASSUME NEW r \in Runner, SetGauge(r) PROVE GaugeInv'
  <2>1. /\ ev[r] = "gauge" /\ ev'[r] = "idle" /\ \A o \in Runner : o # r => ev'[o] = ev[o]
        /\ gauge' = value[r] /\ UNCHANGED <<status, fighting, closing, mixed>>
    BY <1>23, Zenon DEF SetGauge, roleVars, lifeVars, history
  <2>2. ~mixed => \A o \in Runner : o # r => ev[o] # "gauge"
    BY <2>1, Zenon
  <2>3. \A o \in Runner : Pending(o)' <=> Pending(o)
    BY <2>1, Zenon
  <2>4. ~mixed' /\ closing' = "no" /\ ~fighting' /\ (\A o \in Runner : ~Pending(o)') =>
           (\A o \in Runner : ev'[o] = "idle") /\ (gauge' = 1 <=> status' = "leader")
    BY <2>1, <2>2, <2>3 DEF EvAt
  <2> QED
    BY <2>1, <2>2, <2>4, Zenon
<1>24. CASE UNCHANGED vars
  BY <1>24, Zenon DEF vars, roleVars, outVars, chanVars, lifeVars, history
<1> QED
  BY <1>1, <1>2, <1>3, <1>4, <1>5, <1>6, <1>7, <1>8, <1>9, <1>10, <1>11, <1>12,
     <1>13, <1>14, <1>15, <1>16, <1>17, <1>18, <1>19, <1>20, <1>21, <1>22, <1>23, <1>24, Zenon
  DEF Next, Begin, CloseStep, ProcStep, EventStep

-------------------------------------------------------------------------------
(* The theorems *)

\* Whenever all goroutines of an open cluster are done and no two updates of the
\* gauge overlapped (updateMetrics), it shows a leader exactly if the node is one;
\* the events channel never holds more than its capacity.
THEOREM GaugeFollowsRole == Spec => []GaugeSound
<1> DEFINE Inv == RoleOK /\ FightInv /\ GaugeInv
<1>1. Init => Inv
  <2> SUFFICES ASSUME Init PROVE FightInv /\ GaugeInv
    BY RoleInit, Zenon
  <2>1. FightInv
    BY Zenon DEF Init, FightInv, InFight, Proc
  <2>2. GaugeInv
    BY DEF Init, GaugeInv
  <2> QED
    BY <2>1, <2>2, Zenon
<1>2. Inv /\ [Next]_vars => Inv'
  BY TypeStep, FightStep, GaugeStep, Zenon
<1>3. Inv => GaugeSound
  <2> SUFFICES ASSUME Inv, Quiet, closing = "no", ~mixed PROVE gauge = 1 <=> status = "leader"
    BY Zenon DEF GaugeSound, GaugeSerial, RoleOK
  <2>1. ~fighting /\ \A r \in Runner : ~Pending(r) /\ ev[r] # "gauge"
    BY Zenon DEF Quiet, FightInv, InFight, Pending, Proc
  <2> QED
    BY <2>1, Zenon DEF GaugeInv
<1> QED
  BY <1>1, <1>2, <1>3, PTL DEF Spec

\* A call of sendAndWait that did not time out has a reply to this very request
\* from every node it reached, for any number of nodes, calls and late replies.
THEOREM RepliesComplete == Wait!Spec => []Complete
<1>1. Wait!Init => WaitInv
  <2> SUFFICES ASSUME Wait!Init PROVE WaitInv
    BY Zenon
  <2>1. reply \in [Wait!Request -> [at : ReplyAt, chan : 0 .. MaxCalls \cup {Nil}]]
    BY Zenon DEF Wait!Init, ReplyAt
  <2>2. call \in 0 .. MaxCalls
    BY MemberAssumption DEF Wait!Init
  <2>3. WaitOK
    BY <2>1, <2>2, Zenon DEF Wait!Init, WaitOK
  <2> QED
    BY <2>3, Zenon DEF Wait!Init, WaitInv
<1>2. WaitInv /\ [Wait!Next]_Wait!vars => WaitInv'
  BY WaitStep, Zenon DEF Wait!vars, waitVars
<1>3. WaitInv => Complete
  <2> SUFFICES ASSUME WaitInv PROVE Wait!TypeOK /\ Wait!Complete
    BY Zenon DEF Complete
  <2>1. Wait!TypeOK
    BY Zenon DEF WaitInv, WaitOK, ReplyAt, Wait!TypeOK
  <2> QED
    BY <2>1, Zenon DEF WaitInv, Wait!Complete
<1> QED
  BY <1>1, <1>2, <1>3, PTL DEF Wait!Spec

\* While no close overlaps a connect, a node is alive exactly while its connector
\* is set and no open connection is forgotten, and a connector never has more than
\* three callbacks, however often holdConnection, the heartbeat, Close and the
\* readers of any number of connectors run against each other.
THEOREM ConnectionSafe == Conn!Spec => []ConnectionSound
<1>1. Conn!Init => ConnInv
  <2> SUFFICES ASSUME Conn!Init PROVE ConnInv
    BY Zenon
  <2>1. ConnOK
    BY Zenon DEF Conn!Init, Conn!NewConnector, Conn!Sleeping, ConnOK, ConnRec
  <2>2. HoldInv /\ CountInv /\ AliveInv
    BY MemberAssumption
    DEF Conn!Init, Conn!NewConnector, Conn!Sleeping, Conn!Connecting, HoldInv, CountInv, MayTimeOut, AliveInv
  <2> QED
    BY <2>1, <2>2, Zenon DEF ConnInv
<1>2. ConnInv /\ [Conn!Next]_Conn!vars => ConnInv'
  BY ConnStep, Zenon DEF Conn!vars, connVars
<1>3. ConnInv => ConnectionSound
  <2> SUFFICES ASSUME ConnInv PROVE Conn!TypeOK /\ Conn!AliveAgrees /\ Conn!NoLeak
    BY Zenon DEF ConnectionSound
  <2>1. \A c \in Connector : called[c] \in 0 .. 3 /\ halfway[c] \in 0 .. 3
    BY DEF ConnInv, ConnOK, CountInv
  <2>2. Conn!TypeOK
    BY <2>1, Zenon DEF ConnInv, ConnOK, ConnRec, Conn!TypeOK
  <2>3. Conn!AliveAgrees
    BY DEF ConnInv, ConnOK, HoldInv, AliveInv, Conn!AliveAgrees, Conn!Quiet, Conn!Connecting
  <2>4. Conn!NoLeak
    BY MemberAssumption, Zenon DEF ConnInv, HoldInv, AliveInv, Conn!NoLeak
  <2> QED
    BY <2>2, <2>3, <2>4, Zenon
<1> QED
  BY <1>1, <1>2, <1>3, PTL DEF Conn!Spec

\* Every session that is read is found under its id, although ids are given back,
\* and the handler is told of the end of every session added before Close (once by
\* Close and once by its reader at most), for any number of sessions.
THEOREM SessionsSafe == Accept!Spec => []SessionsSound
<1>1. Accept!Init => SessionInv
  <2> SUFFICES ASSUME Accept!Init PROVE SessionInv
    BY Zenon
  <2>1. AcceptOK
    BY Zenon DEF Accept!Init, Accept!NewSession, AcceptOK, SessionRec
  <2>2. DOMAIN sessions = {}
    BY DEF Accept!Init
  <2>3. IdInv /\ MapInv /\ ToldInv
    BY <2>2 DEF Accept!Init, Accept!NewSession, IdInv, MapInv, ToldInv, Failed
  <2> QED
    BY <2>1, <2>3, Zenon DEF SessionInv
<1>2. SessionInv /\ [Accept!Next]_Accept!vars => SessionInv'
  BY AcceptStep, Zenon DEF Accept!vars, acceptVars
<1>3. SessionInv => SessionsSound
  <2> SUFFICES ASSUME SessionInv PROVE Accept!TypeOK /\ Accept!FoundById /\ Accept!Told
    BY Zenon DEF SessionsSound
  <2>1. \A s \in Session : told[s] \in Nat /\ told[s] <= 1 + 1 /\ sess[s] \in SessionRec
    BY DEF SessionInv, AcceptOK, ToldInv
  <2>2. \A s \in Session : told[s] \in 0 .. 2 /\ sess[s].link \in {"none", "open", "eof", "closed"}
    BY <2>1 DEF SessionRec
  <2>3. Accept!TypeOK
    <3>1. DOMAIN sessions \subseteq 1 .. sessionId /\ Accept!Mapped \subseteq Session
      BY DEF SessionInv, MapInv, Accept!Mapped
    <3> QED
      BY <2>2, <3>1, Zenon DEF SessionInv, AcceptOK, Accept!TypeOK
  <2> QED
    BY <2>3, Zenon DEF SessionInv, MapInv, ToldInv, Accept!FoundById, Accept!Told
<1> QED
  BY <1>1, <1>2, <1>3, PTL DEF Accept!Spec

===============================================================================
