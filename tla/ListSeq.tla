-------------------------------- MODULE ListSeq --------------------------------
(***************************************************************************)
(* What LinkedList promises (src/basic/linkedlist.go): a sequence of       *)
(* values and the result of the last call, <<op, value>>.  Indices start     *)
(* at 0.                                                                   *)
(***************************************************************************)
EXTENDS Integers, Sequences

CONSTANTS Value, Nil

VARIABLES
    seq,            \* the values of the list
    res             \* the last call and what it returned

\* seq without element i, seq with v as element i, and seq from its end.
Without(i) == SubSeq(seq, 1, i - 1) \o SubSeq(seq, i + 1, Len(seq))
With(i, v) == SubSeq(seq, 1, i - 1) \o <<v>> \o SubSeq(seq, i, Len(seq))
Reversed == [i \in DOMAIN seq |-> seq[Len(seq) + 1 - i]]

\* The call that ends with this step, and its result.
Ends(op) == res'[1] = op
Returns(v) == res'[2] = v

AddLast == Ends("AddLast") /\ \E v \in Value : Returns(v) /\ seq' = Append(seq, v)

AddFirst == Ends("AddFirst") /\ \E v \in Value : Returns(v) /\ seq' = <<v>> \o seq

\* The value is inserted before the index, or, when the size it was compared with
\* is out of date, at the end or before the last element.
AddBefore ==
    /\ Ends("AddBefore")
    /\ LET i == res'[2].index
           at == res'[2].at
       IN /\ at \in 0 .. Len(seq)
          /\ at = i \/ at = Len(seq) \/ (at = Len(seq) - 1 /\ i >= Len(seq))
          /\ \E v \in Value : seq' = With(at + 1, v)

Remove ==
    /\ Ends("Remove")
    /\ \E i \in 0 .. Len(seq) - 1 :
          Returns([index |-> i, data |-> seq[i + 1]]) /\ seq' = Without(i + 1)

\* The first occurrence goes.
RemoveData ==
    /\ Ends("RemoveData")
    /\ \E i \in 1 .. Len(seq) :
          /\ Returns(seq[i]) /\ \A j \in 1 .. i - 1 : seq[j] # seq[i]
          /\ seq' = Without(i)

RemoveUntil ==
    /\ Ends("RemoveUntil")
    /\ \E i \in 0 .. Len(seq) - 1 : Returns(i) /\ seq' = SubSeq(seq, i + 2, Len(seq))

RemoveFirst ==
    Ends("RemoveFirst") /\ seq # <<>> /\ Returns(Head(seq)) /\ seq' = Tail(seq)

RemoveLast ==
    Ends("RemoveLast") /\ seq # <<>> /\ Returns(seq[Len(seq)]) /\ seq' = Without(Len(seq))

Clear == Ends("Clear") /\ seq' = <<>>

\* Reads: an element, the whole list in both directions and its size.
Get ==
    /\ Ends("Get") /\ UNCHANGED seq
    /\ \E i \in 0 .. Len(seq) - 1 : Returns([index |-> i, data |-> seq[i + 1]])

Loop == Ends("Loop") /\ UNCHANGED seq /\ Returns(<<seq, Reversed, Len(seq)>>)

\* A call that is refused changes nothing, and is right to be.
Refuse ==
    /\ Ends("refused") /\ UNCHANGED seq
    /\ LET op == res'[2][1]
           arg == res'[2][2]
       IN \/ op = "index" /\ arg >= Len(seq)
          \/ op = "data" /\ \A i \in DOMAIN seq : seq[i] # arg
          \/ op = "end" /\ seq = <<>>
          \/ op = "AddBefore" /\ (arg > Len(seq) \/ seq = <<>>)

SeqInit == seq = <<>> /\ res = <<"New", Nil>>

SeqNext ==
    \/ AddLast \/ AddFirst \/ AddBefore \/ Remove \/ RemoveData \/ RemoveUntil
    \/ RemoveFirst \/ RemoveLast \/ Clear \/ Get \/ Loop \/ Refuse

SeqSpec == SeqInit /\ [][SeqNext]_<<seq, res>>

===============================================================================
