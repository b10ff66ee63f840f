----------------------------- MODULE MCHttpClient -----------------------------
(* The small instance of HttpClient.tla that TLC explores. *)
EXTENDS HttpClient, TLC
===============================================================================
