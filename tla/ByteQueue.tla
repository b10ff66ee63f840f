------------------------------- MODULE ByteQueue -------------------------------
(***************************************************************************)
(* What a struct Buffer promises its users: a first-in first-out queue of  *)
(* bytes.  Bytes enter at the back all together or not at all, and leave   *)
(* only from the front, in the order they entered.  Buffer.tla implements  *)
(* it.                                                                     *)
(***************************************************************************)
EXTENDS Integers, Sequences

CONSTANT Byte

VARIABLE queue

Init == queue = << >>

\* A whole run of bytes joins the back: the old queue is a prefix of the new.
Enqueue ==
  /\ queue' \in Seq(Byte)
  /\ Len(queue) < Len(queue')
  /\ \A i \in 1 .. Len(queue) : queue'[i] = queue[i]

\* The first n bytes leave.
Dequeue ==
  \E n \in 1 .. Len(queue) : queue' = SubSeq(queue, n + 1, Len(queue))

Next == Enqueue \/ Dequeue

Spec == Init /\ [][Next]_queue
===============================================================================
