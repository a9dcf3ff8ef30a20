-------------------------- MODULE MCReliableQueue --------------------------
(* Model-checking instance of ReliableQueue. *)
EXTENDS ReliableQueue
=============================================================================
