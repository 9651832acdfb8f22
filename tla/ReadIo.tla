-------------------------------- MODULE ReadIo --------------------------------
(***************************************************************************)
(* A connection of package nio from the writer of its remote end to the    *)
(* handler (src/nio/handler.go readIo, session.go Write and Close), over   *)
(* a byte stream that arrives in arbitrary pieces.  The connector of a     *)
(* client first reads the session id (src/nio/client.go syncSessionId).    *)
(***************************************************************************)
EXTENDS Codec

CONSTANTS
    Message,        \* flag and body of the messages written
    MaxMessages,    \* bound: messages written
    ReadSize,       \* size of ioData
    SessionId       \* the bytes of the session id: 8 of them

\* The length of an encoded message is a uint32.
ASSUME ReadAssumption ==
    /\ ByteBase \in Nat /\ ByteBase >= 2
    /\ MaxMessages \in Nat /\ ReadSize \in Nat /\ SessionId \in Seq(Byte)
    /\ \A msg \in Message : /\ msg \in Byte \X Seq(Byte)
                            /\ Len(msg[2]) + 1 < ByteBase * ByteBase * ByteBase * ByteBase

VARIABLES
    ordered,        \* whether messages are handled in serial; set once
    isClient,       \* whether the session belongs to a connector; set once
    wire,           \* bytes written by the remote end and not read yet
    conn,           \* "open", "eof" (remote end closed), "reset" or "closed" (here)
    socketClosed,   \* socket.closed
    readAt,         \* "sync", then readIo: "check", "read", "decode" or "end"
    firstData,      \* the bytes of the session id read so far
    failTimes, lastMsg, buf,
    spawned,        \* messages whose handler goroutine has not run yet
    handled,        \* history: messages the handler got
    sent, decoded,  \* history: messages written and decoded
    ending,         \* history: why the loop ended
    broken          \* history: the connection broke

readState == <<wire, conn, socketClosed, readAt, firstData, failTimes, lastMsg, buf,
               spawned, handled, sent, decoded, ending, broken>>
readVars == <<ordered, isClient, readState>>
reader == <<readAt, firstData, failTimes, lastMsg, buf, decoded, ending>>
notes == <<sent, broken>>

-------------------------------------------------------------------------------
(* The remote end, the network and the owner of the socket *)

\* session.Write: one call of connection.Write for the whole message.
Write(msg) ==
    /\ conn = "open" /\ Len(sent) < MaxMessages
    /\ wire' = wire \o Encode(msg[1], msg[2])
    /\ sent' = Append(sent, msg)
    /\ UNCHANGED <<conn, socketClosed, reader, spawned, handled, broken>>

\* The remote end closes the connection, or it breaks.
PeerCloses ==
    /\ conn = "open" /\ conn' = "eof"
    /\ UNCHANGED <<wire, socketClosed, reader, spawned, handled, notes>>

Resets ==
    /\ conn \in {"open", "eof"} /\ conn' = "reset"
    /\ wire' = <<>> /\ broken' = TRUE
    /\ UNCHANGED <<socketClosed, reader, spawned, handled, sent>>

\* Another goroutine closes the connector or acceptor: first its flag, then,
\* for a connector, its connection.
SocketClose ==
    /\ readAt # "sync"
    /\ \/ /\ ~socketClosed /\ socketClosed' = TRUE
          /\ UNCHANGED conn
       \/ /\ socketClosed /\ isClient /\ conn # "closed" /\ conn' = "closed"
          /\ UNCHANGED socketClosed
    /\ UNCHANGED <<wire, reader, spawned, handled, notes>>

-------------------------------------------------------------------------------
(* syncSessionId *)

\* Every read has room for eight bytes.
FaultyFirstDataLen == Len(SessionId)

\* firstDataLen: the bytes still missing.
FirstDataLen == Len(SessionId) - Len(firstData)

\* A read of at most the bytes that are missing.
SyncRead(n) ==
    /\ readAt = "sync" /\ conn \in {"open", "eof"} /\ n <= Len(wire) /\ n <= FirstDataLen
    /\ firstData' = firstData \o SubSeq(wire, 1, n)
    /\ wire' = From(wire, n + 1)
    /\ readAt' = IF Len(firstData') >= Len(SessionId) THEN "check" ELSE "sync"
    /\ UNCHANGED <<conn, socketClosed, failTimes, lastMsg, buf, spawned, handled, notes, decoded, ending>>

\* The first failed read closes the connection and ends Connect.
SyncFails ==
    /\ readAt = "sync" /\ (conn = "eof" => wire = <<>>)
    /\ readAt' = "end" /\ ending' = "sync" /\ conn' = "closed"
    /\ UNCHANGED <<wire, socketClosed, firstData, failTimes, lastMsg, buf, spawned, handled, notes, decoded>>

-------------------------------------------------------------------------------
(* readIo *)

\* session.Close and return.
Ends(why) ==
    /\ readAt' = "end" /\ ending' = why
    /\ conn' = "closed"
    /\ socketClosed' = (socketClosed \/ isClient)

\* The top of the loop.
LoopTop ==
    /\ readAt = "check"
    /\ readAt' = IF socketClosed THEN "end" ELSE "read"
    /\ ending' = IF socketClosed THEN "socket" ELSE ending
    /\ UNCHANGED <<wire, conn, socketClosed, firstData, failTimes, lastMsg, buf, spawned, handled, notes, decoded>>

\* conn.Read returns n bytes.
Read(n) ==
    /\ readAt = "read" /\ conn \in {"open", "eof"} /\ n <= Len(wire)
    /\ buf' = buf \o SubSeq(wire, 1, n)
    /\ wire' = From(wire, n + 1)
    /\ failTimes' = 0 /\ readAt' = "decode"
    /\ UNCHANGED <<conn, socketClosed, firstData, lastMsg, spawned, handled, notes, decoded, ending>>

\* conn.Read fails with EOF or because the connection was closed here.
ReadClosed ==
    /\ readAt = "read"
    /\ \/ conn = "eof" /\ wire = <<>> /\ Ends("eof")
       \/ conn = "closed" /\ Ends("closed")
    /\ UNCHANGED <<wire, firstData, failTimes, lastMsg, buf, spawned, handled, notes, decoded>>

\* conn.Read fails otherwise: always on a broken connection, now and then on
\* an open one.  The third failure in a row closes the session.
ReadError ==
    /\ readAt = "read" /\ conn \in {"open", "reset"}
    /\ failTimes' = failTimes + 1
    /\ IF failTimes' >= 3 THEN Ends("failed")
       ELSE readAt' = "check" /\ UNCHANGED <<conn, socketClosed, ending>>
    /\ UNCHANGED <<wire, firstData, lastMsg, buf, spawned, handled, notes, decoded>>

\* Messages of an ordered socket get goroutines as well.
FaultyDeliver(msg) == spawned' = Append(spawned, msg) /\ UNCHANGED <<handled, readAt, ending>>

\* A message is given to the handler, here or in a goroutine of its own.  In
\* order, a panic of the handler is recovered outside the loop.
Deliver(msg) ==
    IF ordered
    THEN /\ handled' = Append(handled, msg)
         /\ UNCHANGED spawned
         /\ \/ UNCHANGED <<readAt, ending>>
            \/ readAt' = "end" /\ ending' = "panic"
    ELSE /\ spawned' = Append(spawned, msg)
         /\ UNCHANGED <<handled, readAt, ending>>

\* Only one message of a read is decoded.
FaultyDecodeNext ==
    /\ readAt = "decode"
    /\ LET r == Decode(lastMsg, buf) IN
       /\ buf' = r.reader
       /\ IF r.ok
          THEN LET msg == <<r.msg.flag, r.msg.data>> IN
               /\ spawned' = Append(spawned, msg) /\ readAt' = "check"
               /\ UNCHANGED <<handled, ending>>
               /\ lastMsg' = NewMsg /\ decoded' = Append(decoded, msg)
          ELSE /\ lastMsg' = r.msg /\ readAt' = "check"
               /\ UNCHANGED <<spawned, handled, decoded, ending>>
    /\ UNCHANGED <<wire, conn, socketClosed, firstData, failTimes, notes>>

\* One round of the inner loop.
DecodeNext ==
    /\ readAt = "decode"
    /\ LET r == Decode(lastMsg, buf) IN
       /\ buf' = r.reader
       /\ IF r.ok
          THEN LET msg == <<r.msg.flag, r.msg.data>> IN
               /\ Deliver(msg)
               /\ lastMsg' = NewMsg /\ decoded' = Append(decoded, msg)
          ELSE /\ lastMsg' = r.msg /\ readAt' = "check"
               /\ UNCHANGED <<spawned, handled, decoded, ending>>
    /\ UNCHANGED <<wire, conn, socketClosed, firstData, failTimes, notes>>

\* A goroutine calls OnMessageReceived; a panic there is recovered.
Handle(i) ==
    /\ i \in DOMAIN spawned
    /\ handled' = Append(handled, spawned[i])
    /\ spawned' = SubSeq(spawned, 1, i - 1) \o From(spawned, i + 1)
    /\ UNCHANGED <<wire, conn, socketClosed, reader, notes>>

-------------------------------------------------------------------------------
ReadInit ==
    /\ ordered \in BOOLEAN /\ isClient \in BOOLEAN
    /\ conn = "open" /\ socketClosed = FALSE
    /\ wire = IF isClient THEN SessionId ELSE <<>>
    /\ readAt = (IF isClient THEN "sync" ELSE "check") /\ firstData = <<>>
    /\ failTimes = 0 /\ lastMsg = NewMsg /\ buf = <<>>
    /\ spawned = <<>> /\ handled = <<>> /\ sent = <<>> /\ decoded = <<>> /\ ending = "none" /\ broken = FALSE

Reading ==
    \/ (\E n \in DOMAIN SessionId : SyncRead(n)) \/ SyncFails
    \/ LoopTop \/ (\E n \in 1 .. ReadSize : Read(n)) \/ ReadClosed \/ ReadError \/ DecodeNext
Handling == \E i \in 1 .. MaxMessages : Handle(i)

ReadNext ==
    /\ \/ \E msg \in Message : Write(msg)
       \/ PeerCloses \/ Resets \/ SocketClose
       \/ Reading \/ Handling
    /\ UNCHANGED <<ordered, isClient>>

ReadSpec == ReadInit /\ [][ReadNext]_readVars

-------------------------------------------------------------------------------
(* Properties *)

\* The types of the variables.
ReadTypeOK ==
    /\ ordered \in BOOLEAN /\ isClient \in BOOLEAN /\ broken \in BOOLEAN
    /\ conn \in {"open", "eof", "reset", "closed"} /\ socketClosed \in BOOLEAN
    /\ readAt \in {"sync", "check", "read", "decode", "end"} /\ failTimes \in 0 .. 3
    /\ wire \in Seq(Byte) /\ firstData \in Seq(Byte) /\ buf \in Seq(Byte)
    /\ lastMsg \in [length : Nat, flag : Byte, data : {<<>>}]
    /\ {sent, decoded, spawned, handled} \subseteq Seq(Message)

\* The bytes of a sequence of messages.
Stream(msgs) ==
    LET upto[n \in 0 .. Len(msgs)] ==
          IF n = 0 THEN <<>> ELSE upto[n - 1] \o Encode(msgs[n][1], msgs[n][2])
    IN upto[Len(msgs)]

\* The header that Decode has taken out of the buffer already.
Partial == IF lastMsg.length = 0 THEN <<>> ELSE BigEndian(lastMsg.length) \o <<lastMsg.flag>>

\* No byte is lost, doubled or misread however the stream is cut: the session
\* id ends where the first message starts, and after it what was decoded, the
\* header in hand, the buffer and the wire are what was written, or a prefix of it once the connection broke.
Framing ==
    LET read == firstData \o Stream(decoded) \o Partial \o buf \o wire
        written == (IF isClient THEN SessionId ELSE <<>>) \o Stream(sent) IN
    /\ Len(firstData) <= Len(SessionId)
    /\ read = SubSeq(written, 1, Len(read))
    /\ ~broken => Len(read) = Len(written)

\* The whole messages at the front of a stream of bytes.
Parse(s) ==
    LET from[i \in 1 .. Len(s) + 1] ==
          LET t == From(s, i) IN
          IF Len(t) < 5 \/ Len(t) < 4 + Value(t) THEN <<>>
          ELSE <<<<t[5], SubSeq(t, 6, 4 + Value(t))>>>> \o from[i + 4 + Value(t)]
    IN from[1]

\* The connection implements the message channel: whole messages, each handled
\* once, in order if the socket is ordered; only a break loses the latest.
Channel == INSTANCE MsgChannel WITH
    pending <- spawned \o Parse(Partial \o buf \o From(wire, (IF isClient THEN FirstDataLen ELSE 0) + 1))
IsChannel == Channel!Spec

\* A loop that ended closed its session, so that its owner hears of it, unless
\* the owner closed the socket or an ordered handler panicked.
EndsClosed == readAt = "end" => conn = "closed" \/ ending \in {"socket", "panic"}

\* No byte is lost, doubled or misread however the stream is cut into reads, and a
\* reading loop that ended closed its session, so that its owner hears of it.
StreamSound == ReadTypeOK /\ Framing /\ EndsClosed

\* Every message written is handled while the connection stays open, also when
\* several arrive in one read and nothing follows them.
AllHandled ==
    \A i \in 1 .. MaxMessages :
        (Len(sent) >= i) ~> (Len(handled) >= i \/ conn # "open" \/ readAt = "end")

===============================================================================
