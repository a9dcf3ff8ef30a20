-------------------------- MODULE OutboxContract --------------------------
(***************************************************************************)
(* What the outbox promises about the messages of the logged-in account,   *)
(* as an application sees them: a message is sending once it is handed in, *)
(* ends as sent or failed, is sent only if the server stored it, and a     *)
(* sent message stays sent.  A failed message may still turn out sent: the *)
(* last attempt can succeed after the client gave up on it.                *)
(***************************************************************************)
CONSTANT Own

VARIABLES status, stored

Statuses == {"none", "sending", "sent", "failed"}

Init ==
    /\ status = [m \in Own |-> "none"]
    /\ stored = {}

Hand(m) ==
    /\ status[m] = "none"
    /\ status' = [status EXCEPT ![m] = "sending"]
    /\ UNCHANGED stored

\* The server stores only what was handed in.
Store(m) ==
    /\ status[m] # "none"
    /\ stored' = stored \cup {m}
    /\ UNCHANGED status

Confirm(m) ==
    /\ m \in stored
    /\ status[m] \in {"sending", "failed"}
    /\ status' = [status EXCEPT ![m] = "sent"]
    /\ UNCHANGED stored

\* A reconnect can give up on several messages at once.
GiveUp(S) ==
    /\ \A m \in S : status[m] = "sending"
    /\ status' = [m \in Own |-> IF m \in S THEN "failed" ELSE status[m]]
    /\ UNCHANGED stored

Next ==
    \/ \E m \in Own : Hand(m) \/ Store(m) \/ Confirm(m)
    \/ \E S \in SUBSET Own : GiveUp(S)

Spec == Init /\ [][Next]_<<status, stored>>
=============================================================================
