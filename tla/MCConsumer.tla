------------------------------ MODULE MCConsumer ------------------------------
(* The small instance of Consumer.tla that TLC explores. *)
EXTENDS Consumer, TLC
===============================================================================
