------------------------------- MODULE Delivery -------------------------------
(***************************************************************************)
(* What a channel promises about each of its messages: some reader handles *)
(* it with success, and only then nsqd is done with it; and it comes to    *)
(* that, however connections break meanwhile.  Consumer.tla implements it. *)
(***************************************************************************)
CONSTANT Message

VARIABLE stage

Init == stage = [m \in Message |-> "owed"]

Handle(m) == stage[m] = "owed" /\ stage' = [stage EXCEPT ![m] = "handled"]
Finish(m) == stage[m] = "handled" /\ stage' = [stage EXCEPT ![m] = "finished"]

Next == \E m \in Message : Handle(m) \/ Finish(m)

Safety == Init /\ [][Next]_stage

Spec ==
  /\ Safety
  /\ \A m \in Message : WF_stage(Handle(m)) /\ WF_stage(Finish(m))
===============================================================================
