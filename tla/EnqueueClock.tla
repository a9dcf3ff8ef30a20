---------------------------- MODULE EnqueueClock ----------------------------
(***************************************************************************)
(* The enqueue clock of the outbox (next_enqueue_ms and seed_enqueue_clock *)
(* in src/runtime/reliable_queue/actor.rs) and the pending_sends table,    *)
(* which is read in the order of the stamps.  The wall clock may jump.     *)
(***************************************************************************)
EXTENDS Integers

CONSTANTS
    Ids,         \* client message ids
    MaxTime,     \* bound on the wall clock
    MaxEnqueues  \* bound on the number of enqueues

ASSUME ClockConstants == MaxTime \in Nat /\ MaxEnqueues \in Nat

VARIABLES
    now,      \* id::now_millis()
    last,     \* last_enqueued_at_ms
    seeded,   \* the worker has run seed_enqueue_clock and takes commands
    count,    \* enqueues so far: the order in which the application sent
    pending,  \* the ids in pending_sends
    ord, at   \* for each of them, its place in that order and its stamp

vars == <<now, last, seeded, count, pending, ord, at>>

Latest(t) == \A id \in pending : at[id] <= t

Init ==
    /\ now \in 0..MaxTime /\ last = 0 /\ seeded = FALSE /\ count = 0
    /\ pending = {} /\ ord = [id \in Ids |-> 0] /\ at = [id \in Ids |-> 0]

\* Wrong: the stamp is the wall clock.
NextEnqueueMsWallClock == now

next_enqueue_ms == IF now > last + 1 THEN now ELSE last + 1

\* push is INSERT OR REPLACE: a message sent again goes to the end.
Enqueue(id) ==
    /\ seeded /\ count < MaxEnqueues
    /\ count' = count + 1
    /\ last' = next_enqueue_ms
    /\ pending' = pending \cup {id}
    /\ ord' = [ord EXCEPT ![id] = count + 1]
    /\ at' = [at EXCEPT ![id] = next_enqueue_ms]
    /\ UNCHANGED <<now, seeded>>

\* The stamp is taken, the push fails.
EnqueueFails ==
    /\ seeded /\ count < MaxEnqueues
    /\ count' = count + 1
    /\ last' = next_enqueue_ms
    /\ UNCHANGED <<now, seeded, pending, ord, at>>

Pop(id) ==
    /\ seeded /\ id \in pending
    /\ pending' = pending \ {id}
    /\ UNCHANGED <<now, last, seeded, count, ord, at>>

\* note_persisted_enqueue_times: the latest persisted stamp counts, at start and on every resume.
NotePersisted ==
    /\ \E latest \in {at[id] : id \in pending} \cup {0} :
         Latest(latest) /\ last' = IF latest > last THEN latest ELSE last
    /\ seeded' = TRUE
    /\ UNCHANGED <<now, count, pending, ord, at>>

\* Reading the table at start fails: logged, and the worker goes on with what it has.
SeedFails ==
    /\ ~seeded
    /\ seeded' = TRUE
    /\ UNCHANGED <<now, last, count, pending, ord, at>>

\* Wrong: commands are taken before the clock is seeded.
RestartUnseeded ==
    /\ last' = 0
    /\ UNCHANGED <<now, seeded, count, pending, ord, at>>

Restart ==
    /\ last' = 0 /\ seeded' = FALSE
    /\ UNCHANGED <<now, count, pending, ord, at>>

WallClockMoves(t) ==
    /\ now' = t
    /\ UNCHANGED <<last, seeded, count, pending, ord, at>>

Next ==
    \/ \E id \in Ids : Enqueue(id) \/ Pop(id)
    \/ EnqueueFails \/ NotePersisted \/ Restart
    \/ \E t \in 0..MaxTime : WallClockMoves(t)

Spec == Init /\ [][Next]_vars

\* The same when the read at start may fail.
FaultySpec == Init /\ [][Next \/ SeedFails]_vars

-----------------------------------------------------------------------------
\* Every variable has its type.
ClockTypeOK ==
    /\ now \in 0..MaxTime /\ last \in Nat /\ seeded \in BOOLEAN /\ count \in Nat
    /\ pending \subseteq Ids /\ ord \in [Ids -> Nat] /\ at \in [Ids -> Nat]

\* The table is read in the order the application sent, whatever the wall clock does and however
\* often the process restarts: of two pending messages the one sent first has the smaller stamp
\* (ORDER BY enqueued_at_ms in pending_send_repo.rs).
StampsFollowSendOrder ==
    \A a, b \in pending : ord[a] < ord[b] => at[a] < at[b]

\* Two pending messages have different places in the send order.
Distinct == \A a, b \in pending : a # b => ord[a] # ord[b]

\* The inductive invariant: the clock of a running worker is not behind the table.
ClockInv ==
    /\ ClockTypeOK /\ Distinct /\ StampsFollowSendOrder
    /\ \A id \in pending : ord[id] <= count
    /\ seeded => Latest(last)

=============================================================================
