--------------------------- MODULE StreamProtocol ---------------------------
(***************************************************************************)
(* What a stream promises the component that drains it, whatever the       *)
(* producer does: the events it has been given so far are always a word    *)
(*                                                                         *)
(*     [open] (data | progress)* [end | error | cancel] [close]            *)
(*                                                                         *)
(* in which only a cancel or a close may come without the open, and the    *)
(* data is the producer's data, in order and without a gap.                *)
(***************************************************************************)
EXTENDS Integers, Sequences, FiniteSets

VARIABLE seen   \* every event drained so far, oldest first

Terminals == {"sekEnd", "sekError", "sekCancel"}

\* No event is of a kind in S.
Without(s, S) == \A i \in DOMAIN s : s[i].kind \notin S

Before(s, i) == SubSeq(s, 1, i - 1)

\* Where an event of the given kind may stand.
PlacedWell(s, i) ==
  CASE s[i].kind = "sekOpen"   -> i = 1
    [] s[i].kind = "sekCancel" -> Without(Before(s, i), Terminals \cup {"sekClose"})
    [] s[i].kind = "sekClose"  -> i = Len(s)
    [] OTHER                   -> /\ s[1].kind = "sekOpen"
                                  /\ Without(Before(s, i), Terminals \cup {"sekClose"})

\* How many of the first n events are data: the data events carry 1, 2, 3,
\* ... in the order they were pushed.
DataAmong(s, n) == Cardinality({i \in 1 .. n : s[i].kind = "sekData"})

InPushOrder(s) ==
  \A i \in DOMAIN s : s[i].kind = "sekData" => s[i].value = DataAmong(s, i)

Word(s) == /\ \A i \in DOMAIN s : PlacedWell(s, i)
           /\ InPushOrder(s)

Init == seen = <<>>

\* A drain adds events at the end; nothing the consumer saw is taken back.
Deliver == /\ Len(seen') > Len(seen)
           /\ SubSeq(seen', 1, Len(seen)) = seen
           /\ Word(seen')

Spec == Init /\ [][Deliver]_seen
=============================================================================
