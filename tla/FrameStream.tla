------------------------------ MODULE FrameStream ------------------------------
(***************************************************************************)
(* What a connection to an nsqd promises its user: the frames nsqd sends   *)
(* are handed over one by one, each once, whole and in the order they were *)
(* sent, until the connection closes; and while it stays open none is kept *)
(* back for ever.  NSQDConnection.tla implements it.                       *)
(***************************************************************************)
EXTENDS Naturals, Sequences

CONSTANT Kind

VARIABLES
  sent,  \* the kinds of the frames sent so far
  got,   \* the positions in sent of the frames handed over
  open   \* is the connection not yet closed

stream == <<sent, got, open>>

Init == sent = << >> /\ got = << >> /\ open = TRUE

Send ==
  /\ open
  /\ \E kind \in Kind : sent' = Append(sent, kind)
  /\ UNCHANGED <<got, open>>

Deliver ==
  /\ open
  /\ Len(got) < Len(sent)
  /\ got' = Append(got, Len(got) + 1)
  /\ UNCHANGED <<sent, open>>

Close == open /\ open' = FALSE /\ UNCHANGED <<sent, got>>

Next == Send \/ Deliver \/ Close

\* What is handed over, and that it is, in the end.
Safety == Init /\ [][Next]_stream

Spec == Safety /\ WF_stream(Deliver)
===============================================================================
