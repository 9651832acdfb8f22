------------------------------ MODULE MsgChannel ------------------------------
(***************************************************************************)
(* What a connection of package nio promises: messages are handled whole,  *)
(* once each and, if the socket is ordered, in the order they were         *)
(* written; a connection that breaks loses the latest ones only.           *)
(***************************************************************************)
EXTENDS Integers, Sequences

CONSTANT Message

VARIABLES
    ordered,        \* a parameter: it keeps its value
    pending, handled

Write(msg) ==
    /\ pending' = Append(pending, msg)
    /\ UNCHANGED handled

Handle(i) ==
    /\ i \in DOMAIN pending /\ (ordered => i = 1)
    /\ handled' = Append(handled, pending[i])
    /\ pending' = SubSeq(pending, 1, i - 1) \o SubSeq(pending, i + 1, Len(pending))

Break ==
    /\ \E n \in 0 .. Len(pending) - 1 : pending' = SubSeq(pending, 1, n)
    /\ UNCHANGED handled

Init == ordered \in BOOLEAN /\ pending = <<>> /\ handled = <<>>

Next ==
    /\ (\E msg \in Message : Write(msg)) \/ (\E i \in DOMAIN pending : Handle(i)) \/ Break
    /\ UNCHANGED ordered

Spec == Init /\ [][Next]_<<ordered, pending, handled>>

===============================================================================
