------------------------------ MODULE MCNSQReader ------------------------------
(* The small instances of NSQReader.tla that TLC explores. *)
EXTENDS NSQReader, TLC

\* One block of memory is as good as another.  Only for runs that check no
\* liveness property.
ConnSymmetry == Permutations(Conn)
===============================================================================
