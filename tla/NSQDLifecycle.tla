----------------------------- MODULE NSQDLifecycle -----------------------------
(***************************************************************************)
(* What a reader promises about each nsqd, connections and timers put      *)
(* aside: it is tried, subscribed to or not, given up when the connection  *)
(* ends, and tried again after a while if it is one the user named.        *)
(* NSQReader.tla implements it.                                            *)
(***************************************************************************)
CONSTANTS
  Nsqd,
  Retried   \* the nsqds that are never given up for good

VARIABLE phase

Init == phase = [d \in Nsqd |-> "absent"]

\* Connections to the nsqds of N are attempted.
Try(N) ==
  /\ N # {}
  /\ \A d \in N : phase[d] \in {"absent", "waiting"}
  /\ phase' = [d \in Nsqd |-> IF d \in N THEN "trying" ELSE phase[d]]

Subscribe(d) == phase[d] = "trying" /\ phase' = [phase EXCEPT ![d] = "subscribed"]

\* The attempt fails or the connection ends.
Lose(d) ==
  /\ phase[d] \in {"trying", "subscribed"}
  /\ phase' = [phase EXCEPT ![d] = IF d \in Retried THEN "waiting" ELSE "absent"]

Decide(d) == phase[d] = "trying" /\ (Subscribe(d) \/ Lose(d))

Next ==
  \/ \E N \in SUBSET Nsqd : Try(N)
  \/ \E d \in Nsqd : Subscribe(d) \/ Lose(d)

Safety == Init /\ [][Next]_phase

Spec ==
  /\ Safety
  /\ \A d \in Nsqd : WF_phase(Decide(d)) /\ WF_phase(phase[d] = "waiting" /\ Try({d}))
===============================================================================
