--------------------------------- MODULE Codec ---------------------------------
(***************************************************************************)
(* The framing of package nio (src/nio/codec.go, codec without gzip, as    *)
(* acceptors and connectors create it): four bytes of length in big-endian *)
(* order, which counts the flag and the body, one byte of flag, the body.  *)
(***************************************************************************)
EXTENDS Integers, Sequences

CONSTANT ByteBase   \* the values of a byte: 256

Byte == 0 .. ByteBase - 1

\* binary.Write of a uint32, which shifts it a byte at a time, and its value read
\* back.
Shift(n) == n \div ByteBase
BigEndian(n) == <<Shift(Shift(Shift(n))) % ByteBase, Shift(Shift(n)) % ByteBase, Shift(n) % ByteBase, n % ByteBase>>
Value(b) == ((b[1] * ByteBase + b[2]) * ByteBase + b[3]) * ByteBase + b[4]

NewMsg == [length |-> 0, flag |-> 0, data |-> <<>>]

Encode(flag, body) == BigEndian(Len(body) + 1) \o <<flag>> \o body

Result(ok, msg, reader) == [ok |-> ok, msg |-> msg, reader |-> reader]
From(s, n) == SubSeq(s, n, Len(s))

\* The rest of Decode once the length is known.  Encode writes no length 0 and a
\* body is read in one piece, so data is still nil here.
Body(msg, reader) ==
    IF Len(reader) >= msg.length - 1
    THEN Result(TRUE, [msg EXCEPT !.data = SubSeq(reader, 1, msg.length - 1)], From(reader, msg.length))
    ELSE Result(FALSE, msg, reader)

\* Goes on with the header or the body, whichever msg still lacks.
Decode(msg, reader) ==
    IF msg.length # 0 THEN Body(msg, reader)
    ELSE IF Len(reader) >= 5
    THEN Body([msg EXCEPT !.length = Value(reader), !.flag = reader[5]], From(reader, 6))
    ELSE Result(FALSE, msg, reader)

===============================================================================
