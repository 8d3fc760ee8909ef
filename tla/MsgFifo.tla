------------------------------ MODULE MsgFifo -------------------------------
(***************************************************************************)
(* What the message list of the RF task promises its users: a bounded      *)
(* first-in first-out queue.  A message that was accepted is served once,  *)
(* in the order of acceptance, unless the board resets.                    *)
(***************************************************************************)
EXTENDS Naturals, Sequences

CONSTANTS Message, Capacity, Boot   \* Boot: the messages posted at start-up

VARIABLE queue

Init == queue = Boot

Post == \E m \in Message : Len(queue) < Capacity /\ queue' = Append(queue, m)

Serve == queue # <<>> /\ queue' = Tail(queue)

Reset == queue' = Boot

Next == Post \/ Serve \/ Reset

Spec == Init /\ [][Next]_queue
=============================================================================
