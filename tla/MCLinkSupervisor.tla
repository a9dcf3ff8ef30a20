------------------------- MODULE MCLinkSupervisor -------------------------
(* Model-checking instance of LinkSupervisor. *)
EXTENDS LinkSupervisor
=============================================================================
