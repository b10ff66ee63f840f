--------------------------- MODULE MCNSQDConnection ---------------------------
(* The small instances of NSQDConnection.tla that TLC explores. *)
EXTENDS NSQDConnection

\* A message has a body to hand over; the other frames are shorter.
MCBodyLength == [kind \in Kind |-> CASE kind = "message" -> 2 [] OTHER -> 1]

\* A read buffer of fixed size, as by default, and one that may grow.
MCReadSizes == {<<8, 8>>, <<4, 16>>}

\* A write buffer in which nothing is ever refused.
MCAmple == {<<32, 32>>}

\* A read buffer smaller than what nsqd may send unasked.
MCShortRead == {<<7, 7>>}

\* Write buffers that hold two commands, and not even one.
MCShortWrite == {<<4, 4>>, <<1, 1>>}
===============================================================================
