---------------------------- MODULE StreamQueue ----------------------------
(***************************************************************************)
(* What a StreamMailbox promises the two sides of a stream: one bounded    *)
(* first-in first-out queue.  An event counts against the bound until the  *)
(* consumer is done with it, so the one in its hand counts too.  Once      *)
(* closed the queue takes and gives nothing; what it holds is discarded.   *)
(***************************************************************************)
EXTENDS Integers, Sequences

CONSTANT Capacity   \* events the queue holds

VARIABLES queue,    \* accepted and not yet taken, oldest first
          inHand,   \* at most one event: taken and not yet done with
          closed

Init == queue = <<>> /\ inHand = <<>> /\ closed = FALSE

Put(e) ==
  /\ ~closed
  /\ Len(queue) + Len(inHand) < Capacity
  /\ queue' = Append(queue, e)
  /\ UNCHANGED <<inHand, closed>>

Take ==
  /\ ~closed
  /\ queue # <<>> /\ inHand = <<>>
  /\ inHand' = <<Head(queue)>>
  /\ queue' = Tail(queue)
  /\ UNCHANGED closed

Done ==
  /\ inHand # <<>>
  /\ inHand' = <<>>
  /\ UNCHANGED <<queue, closed>>

Close == closed' = TRUE /\ UNCHANGED <<queue, inHand>>

Discard == closed /\ queue' = <<>> /\ UNCHANGED <<inHand, closed>>

\* An added event is the last one of the new queue.
Next == \/ queue' # <<>> /\ Put(queue'[Len(queue')])
        \/ Take \/ Done \/ Close \/ Discard

Spec == Init /\ [][Next]_<<queue, inHand, closed>>
=============================================================================
