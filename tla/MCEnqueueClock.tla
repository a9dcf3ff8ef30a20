--------------------------- MODULE MCEnqueueClock ---------------------------
(* Instances of EnqueueClock for TLC. *)
EXTENDS EnqueueClock, TLC

Symmetry == Permutations(Ids)
=============================================================================
