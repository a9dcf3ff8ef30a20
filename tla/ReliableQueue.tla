--------------------------- MODULE ReliableQueue ---------------------------
(***************************************************************************)
(* The outbox: the actor of src/runtime/reliable_queue/actor.rs, its       *)
(* writer task, the two tables they write (pending_sends and messages),    *)
(* and, as environment, the server and the network.                        *)
(*                                                                         *)
(* A message is its enqueue ordinal.  The pending table is ordered by the  *)
(* enqueue stamp, and module EnqueueClock shows that stamps follow the     *)
(* enqueue order, so "oldest" is the least ordinal.                        *)
(*                                                                         *)
(* The actor handles one command at a time.  A handler that touches the    *)
(* store more than once is a chain of steps held together by `worker' and  *)
(* `saving': nothing else of the actor runs until the chain ends, while    *)
(* the writer, the server, the sync path and a crash may come in between.  *)
(***************************************************************************)
EXTENDS Integers, Sequences, FiniteSets

CONSTANTS
    N,            \* number of messages of a run
    F,            \* messages 1..F were left in the table by another account
    MaxRetries,   \* ack_max_retries
    MaxInFlight,  \* ack_max_in_flight
    CmdCap,       \* room for send results in the command channel (256 in the code)
    MaxAcks,      \* acks in transit at a time
    Env           \* what the environment does in a run, a subset of Behaviours

ASSUME ConstantsAssumption ==
    /\ N \in Nat /\ F \in 0..N
    /\ MaxRetries \in Nat
    /\ MaxInFlight \in Nat \ {0}
    /\ CmdCap \in Nat \ {0}
    /\ MaxAcks \in Nat

\* accept: acks before persistence; busy, refuse: server errors; lose: the network drops frames
\* and acks; sync: rows arrive by sync; pause, resend, keep: the link goes down and comes back
\* on a new or on the same connection; reset, stale: session start; crash, disk: faults.
Behaviours == {"accept", "busy", "refuse", "lose", "sync", "pause", "resend", "keep",
               "reset", "stale", "crash", "disk"}

Msgs    == 1..N
Foreign == 1..F
WriterCap == 2 * MaxInFlight

LocalRow == {"none", "sending", "failed"}
AckKinds == {"durable", "accepted", "busy", "refused"}
Modes    == {"idle", "enqueue", "drop", "expire", "next"}

Jobs    == [m: Msgs, r: 0..MaxRetries, live: BOOLEAN]
NoJob   == [m |-> 0, r |-> 0, live |-> FALSE]
Saves   == [m: Msgs, as: {"sent", "failed"}]
NoSave  == [m |-> 0, as |-> "failed"]

VARIABLES
    \* --- the store, which survives a crash
    enqueued,    \* the last ordinal handed out
    pending,     \* pending_sends
    lrow,        \* the message row keyed by the client id: optimistic or failed
    srow,        \* whether the row keyed by the server id exists
    \* --- QueueState
    inFlight, awaiting,   \* in_flight, awaiting_durable
    sendFailed,           \* in-flight entries whose last attempt never left
    due,                  \* tracked entries whose deadline has passed
    retry,                \* retry_count, 0 when absent
    backoff,              \* retry_backoff, 0 when absent
    timers,               \* backoff timers still to report
    window, successes,    \* AdaptiveInFlightWindow
    paused,               \* paused_since_ms.is_some()
    \* --- the writer task and what it sends back
    writerQ, writing, results,
    \* --- where the actor is inside a handler
    worker, todo, saving,
    \* --- environment: server, frames and acks in transit
    srv, wire, acks,
    \* --- history
    attempted,   \* messages whose frame the writer has started at least once
    orphans      \* rows left `sending' by a crash or a failed store write since the last resume

store    == <<enqueued, pending, lrow, srow>>
tracking == <<inFlight, awaiting, sendFailed, due>>
retries  == <<retry, backoff, timers>>
flow     == <<window, successes>>
writer   == <<writerQ, writing, results>>
control  == <<worker, todo, saving>>
server   == <<srv, wire, acks>>
history  == <<attempted, orphans>>
vars     == <<store, tracking, retries, flow, paused, writer, control, server, history>>

-----------------------------------------------------------------------------
\* Definitions marked `Wrong' are faulty variants of the definition that follows them; no
\* specification uses them, they show that a property notices the fault.

\* Wrong: the lookup prefers the row keyed by the client id.
ViewLocalFirst(m) == IF lrow[m] # "none" THEN lrow[m] ELSE IF srow[m] THEN "sent" ELSE "none"

\* What a lookup by client id returns: the server row is preferred.
View(m) == IF srow[m] THEN "sent" ELSE lrow[m]

Terminal(S) == {m \in S : View(m) \in {"sent", "failed"}}

InitialWindow == IF MaxInFlight < 4 THEN MaxInFlight ELSE 4

Idle == worker = "idle" /\ saving = NoSave

\* AdaptiveInFlightWindow::note_success
NoteSuccess ==
    IF window >= MaxInFlight
    THEN window' = window /\ successes' = 0
    ELSE IF successes + 1 < window
         THEN window' = window /\ successes' = successes + 1
         ELSE window' = window + 1 /\ successes' = 0

\* Wrong: no floor of one.
NoteCongestionNoFloor ==
    /\ successes' = 0
    /\ window' = window \div 2

\* AdaptiveInFlightWindow::note_congestion
NoteCongestion ==
    /\ successes' = 0
    /\ window' = IF window \div 2 < 1 THEN 1 ELSE window \div 2

\* The entry leaves the pending table and the retry table; its message row is
\* written next, in a transaction of its own.
Settle(m, outcome) ==
    /\ pending' = pending \ {m}
    /\ retry' = [retry EXCEPT ![m] = 0]
    /\ saving' = [m |-> m, as |-> outcome]

\* Wrong: awaiting_durable is forgotten.
UntrackInFlightOnly(m) ==
    /\ inFlight' = inFlight \ {m}
    /\ sendFailed' = sendFailed \ {m}
    /\ due' = due \ {m}
    /\ UNCHANGED awaiting

\* The memory of the actor no longer tracks m.
Untrack(m) ==
    /\ inFlight' = inFlight \ {m}
    /\ awaiting' = awaiting \ {m}
    /\ sendFailed' = sendFailed \ {m}
    /\ due' = due \ {m}

\* dispatch_send_attempt: in flight with a fresh deadline; a full writer drops the job.
Dispatch(m, r) ==
    /\ inFlight' = inFlight \cup {m}
    /\ awaiting' = awaiting \ {m}
    /\ sendFailed' = sendFailed \ {m}
    /\ due' = due \ {m}
    /\ writerQ' = IF Len(writerQ) < WriterCap
                  THEN Append(writerQ, [m |-> m, r |-> r, live |-> TRUE])
                  ELSE writerQ

\* bump_dispatch_generation: what was dispatched so far is of an old generation.
Stale(job) == [m |-> job.m, r |-> job.r, live |-> FALSE]

BumpGeneration ==
    /\ writerQ' = [i \in 1..Len(writerQ) |-> Stale(writerQ[i])]
    /\ writing' = Stale(writing)
    /\ results' = [i \in 1..Len(results) |-> Stale(results[i])]

-----------------------------------------------------------------------------
Init ==
    /\ enqueued = F /\ pending = Foreign
    /\ \E rowless \in SUBSET Foreign :
         lrow = [m \in Msgs |-> IF m \in Foreign \ rowless THEN "sending" ELSE "none"]
    /\ srow = [m \in Msgs |-> FALSE]
    /\ inFlight = {} /\ awaiting = {} /\ sendFailed = {} /\ due = {}
    /\ retry = [m \in Msgs |-> 0] /\ backoff = [m \in Msgs |-> 0] /\ timers = {}
    /\ window = InitialWindow /\ successes = 0 /\ paused = TRUE
    /\ writerQ = <<>> /\ writing = NoJob /\ results = <<>>
    /\ worker = "idle" /\ todo = {} /\ saving = NoSave
    /\ srv = [m \in Msgs |-> "none"] /\ wire = {} /\ acks = {}
    /\ attempted = {} /\ orphans = {}

-----------------------------------------------------------------------------
(* QueueCommand::Enqueue: the optimistic row, then the pending entry, then try_send_next. *)

EnqueueSave ==
    /\ Idle /\ enqueued < N
    /\ enqueued' = enqueued + 1
    /\ lrow' = [lrow EXCEPT ![enqueued + 1] = "sending"]
    /\ worker' = "enqueue"
    /\ UNCHANGED <<pending, srow, todo, saving, tracking, retries, flow, paused, writer, server, history>>

EnqueuePush ==
    /\ worker = "enqueue"
    /\ pending' = pending \cup {enqueued}
    /\ worker' = "next"
    /\ UNCHANGED <<enqueued, lrow, srow, todo, saving, tracking, retries, flow, paused, writer, server, history>>

\* push fails: the caller gets the error, the row keeps saying `sending'.
EnqueuePushFails ==
    /\ "disk" \in Env /\ worker = "enqueue"
    /\ orphans' = orphans \cup {enqueued}
    /\ worker' = "idle"
    /\ UNCHANGED <<store, todo, saving, tracking, retries, flow, paused, writer, server, attempted>>

-----------------------------------------------------------------------------
(* The second store write of a settlement: mark_failed + save_batch, or    *)
(* update_after_ack, which replaces every row of the client id.            *)

SaveOutcome ==
    /\ saving # NoSave
    /\ lrow' = [lrow EXCEPT ![saving.m] = IF saving.as = "sent" THEN "none" ELSE "failed"]
    /\ srow' = [srow EXCEPT ![saving.m] = srow[saving.m] \/ saving.as = "sent"]
    /\ saving' = NoSave
    /\ UNCHANGED <<enqueued, pending, worker, todo, tracking, retries, flow, paused, writer, server, history>>

\* The write fails: logged and passed over, except in the drop loops, which end there.
SaveOutcomeFails ==
    /\ "disk" \in Env /\ saving # NoSave
    /\ saving' = NoSave
    /\ orphans' = orphans \cup {saving.m}
    /\ IF worker = "drop" THEN worker' = "idle" /\ todo' = {} ELSE UNCHANGED <<worker, todo>>
    /\ UNCHANGED <<store, tracking, retries, flow, paused, writer, server, attempted>>

-----------------------------------------------------------------------------
(* QueueCommand::AckReceived.  Every entry the actor tracks is pending, so *)
(* the three lookups of the handler come to "is it pending".               *)

TakeAck(m, kind) ==
    /\ Idle
    /\ <<m, kind>> \in acks
    /\ acks' = acks \ {<<m, kind>>}
    /\ worker' = "next"
    /\ UNCHANGED <<todo, srv, wire>>

AckDurable(m) ==
    /\ TakeAck(m, "durable") /\ m \in pending
    /\ Settle(m, "sent") /\ Untrack(m) /\ NoteSuccess
    /\ backoff' = [backoff EXCEPT ![m] = 0]
    /\ UNCHANGED <<enqueued, lrow, srow, timers, paused, writer, history>>

\* apply_orphan_durable_ack: no entry any more; a row still keyed by the client id becomes the server's.
AckDurableOrphan(m) ==
    /\ TakeAck(m, "durable") /\ m \notin pending
    /\ IF lrow[m] # "none" /\ ~srow[m]
       THEN lrow' = [lrow EXCEPT ![m] = "none"] /\ srow' = [srow EXCEPT ![m] = TRUE]
       ELSE UNCHANGED <<lrow, srow>>
    /\ UNCHANGED <<enqueued, pending, saving, tracking, retries, flow, paused, writer, history>>

\* Wrong: acceptance is taken for persistence.
AckAcceptedAsSent(m) ==
    /\ TakeAck(m, "accepted") /\ m \in pending
    /\ Settle(m, "sent") /\ Untrack(m) /\ NoteSuccess
    /\ backoff' = [backoff EXCEPT ![m] = 0]
    /\ UNCHANGED <<enqueued, lrow, srow, timers, paused, writer, history>>

\* Accepted but not persisted: frees the window slot, keeps the entry.  An entry that
\* was already waiting keeps its deadline.
AckAccepted(m) ==
    /\ TakeAck(m, "accepted") /\ m \in pending
    /\ NoteSuccess
    /\ inFlight' = inFlight \ {m} /\ sendFailed' = sendFailed \ {m}
    /\ awaiting' = awaiting \cup {m}
    /\ due' = IF m \in awaiting THEN due ELSE due \ {m}
    /\ backoff' = [backoff EXCEPT ![m] = 0]
    /\ UNCHANGED <<store, saving, retry, timers, paused, writer, history>>

\* A transient refusal with budget left: schedule_retry_after_backoff.
AckBusyRetries(m) ==
    /\ TakeAck(m, "busy") /\ m \in pending
    /\ retry[m] + 1 < MaxRetries
    /\ Untrack(m) /\ NoteCongestion
    /\ retry' = [retry EXCEPT ![m] = retry[m] + 1]
    /\ backoff' = [backoff EXCEPT ![m] = retry[m] + 1]
    /\ timers' = timers \cup {<<m, retry[m] + 1>>}
    /\ UNCHANGED <<store, saving, paused, writer, history>>

AckFails(m) ==
    /\ \/ TakeAck(m, "refused")
       \/ TakeAck(m, "busy") /\ retry[m] + 1 >= MaxRetries
    /\ m \in pending
    /\ Settle(m, "failed") /\ Untrack(m)
    /\ backoff' = [backoff EXCEPT ![m] = 0]
    /\ UNCHANGED <<enqueued, lrow, srow, timers, flow, paused, writer, history>>

AckIgnored(m) ==
    /\ \E kind \in AckKinds \ {"durable"} : TakeAck(m, kind)
    /\ m \notin pending
    /\ UNCHANGED <<store, saving, tracking, retries, flow, paused, writer, history>>

-----------------------------------------------------------------------------
(* handle_send_attempt_finished.  Successful results change nothing and are not modelled. *)

TakeResult ==
    /\ Idle /\ results # <<>>
    /\ results' = Tail(results)
    /\ UNCHANGED <<writerQ, writing>>

Charged(res) == retry[res.m] = res.r /\ res.m \in inFlight

ResultIgnored ==
    /\ TakeResult /\ ~Charged(Head(results))
    /\ UNCHANGED <<store, tracking, retries, flow, paused, control, server, history>>

\* The link is down: the attempt is not counted.
ResultWhilePaused ==
    /\ TakeResult /\ Charged(Head(results)) /\ paused
    /\ sendFailed' = sendFailed \cup {Head(results).m}
    /\ due' = due \ {Head(results).m}
    /\ UNCHANGED <<store, inFlight, awaiting, retries, flow, paused, control, server, history>>

\* Wrong: the attempt counts although the link is down.
ResultRetriesEvenPaused ==
    /\ TakeResult /\ Charged(Head(results))
    /\ Head(results).r + 1 < MaxRetries
    /\ NoteCongestion
    /\ retry' = [retry EXCEPT ![Head(results).m] = Head(results).r + 1]
    /\ sendFailed' = sendFailed \cup {Head(results).m}
    /\ due' = due \ {Head(results).m}
    /\ UNCHANGED <<store, inFlight, awaiting, backoff, timers, paused, control, server, history>>

ResultRetries ==
    /\ TakeResult /\ Charged(Head(results)) /\ ~paused
    /\ Head(results).r + 1 < MaxRetries
    /\ NoteCongestion
    /\ retry' = [retry EXCEPT ![Head(results).m] = Head(results).r + 1]
    /\ sendFailed' = sendFailed \cup {Head(results).m}
    /\ due' = due \ {Head(results).m}
    /\ UNCHANGED <<store, inFlight, awaiting, backoff, timers, paused, control, server, history>>

ResultFails ==
    /\ TakeResult /\ Charged(Head(results)) /\ ~paused
    /\ Head(results).r + 1 >= MaxRetries
    /\ NoteCongestion
    /\ Settle(Head(results).m, "failed") /\ Untrack(Head(results).m)
    /\ worker' = "next"
    /\ UNCHANGED <<enqueued, lrow, srow, backoff, timers, paused, todo, server, history>>

-----------------------------------------------------------------------------
(* try_send_next: oldest first, one entry per step, until the window, the  *)
(* writer or the table stops it.                                           *)

Candidates == pending \ (inFlight \cup awaiting \cup {m \in Msgs : backoff[m] > 0})

MaySend ==
    /\ worker = "next" /\ saving = NoSave
    /\ ~paused /\ Cardinality(inFlight) < window /\ Candidates # {}

\* Wrong: any entry, not the oldest.
PicksAny(m) == MaySend /\ m \in Candidates

\* list_oldest_excluding: the oldest entry nobody else has in hand.
Picks(m) ==
    /\ MaySend
    /\ m \in Candidates /\ \A n \in Candidates : m <= n

Exhausted(m) == retry[m] >= MaxRetries

Sendable(m) == m \notin Foreign /\ Terminal({m}) = {} /\ ~Exhausted(m)

NextStops ==
    /\ worker = "next" /\ saving = NoSave /\ ~MaySend
    /\ worker' = "idle"
    /\ UNCHANGED <<store, todo, saving, tracking, retries, flow, paused, writer, server, history>>

\* The writer has no room: this entry and the younger ones stay pending.
NextWriterFull(m) ==
    /\ Picks(m) /\ Sendable(m) /\ Len(writerQ) >= WriterCap
    /\ worker' = "idle"
    /\ UNCHANGED <<store, todo, saving, tracking, retries, flow, paused, writer, server, history>>

\* Wrong: dispatches without asking the writer for room.
NextDispatchesUnchecked(m) ==
    /\ Picks(m) /\ Sendable(m)
    /\ Dispatch(m, retry[m])
    /\ UNCHANGED <<store, retries, flow, paused, writing, results, control, server, history>>

NextDispatches(m) ==
    /\ Picks(m) /\ Sendable(m) /\ Len(writerQ) < WriterCap
    /\ Dispatch(m, retry[m])
    /\ UNCHANGED <<store, retries, flow, paused, writing, results, control, server, history>>

\* Another account's entry, or one that used up its retries.
NextGivesUp(m) ==
    /\ Picks(m)
    /\ m \in Foreign \/ (Terminal({m}) = {} /\ Exhausted(m))
    /\ Settle(m, "failed")
    /\ UNCHANGED <<enqueued, lrow, srow, worker, todo, tracking, backoff, timers, flow, paused, writer, server, history>>

NextDropsTerminal(m) ==
    /\ Picks(m) /\ m \notin Foreign /\ Terminal({m}) # {}
    /\ pending' = pending \ {m}
    /\ retry' = [retry EXCEPT ![m] = 0]
    /\ UNCHANGED <<enqueued, lrow, srow, control, tracking, backoff, timers, flow, paused, writer, server, history>>

-----------------------------------------------------------------------------
(* check_timeout, once a second when no command keeps the actor busy.      *)

\* Wrong: no deadline for entries that wait for the durable ack.
DeadlinePassesInFlight(m) ==
    /\ ~paused /\ m \in inFlight \ due
    /\ due' = due \cup {m}
    /\ UNCHANGED <<store, inFlight, awaiting, sendFailed, retries, flow, paused, writer, control, server, history>>

\* Time passes for a tracked entry.  Deadlines stand still while paused.
DeadlinePasses(m) ==
    /\ ~paused /\ m \in (inFlight \cup awaiting) \ due
    /\ due' = due \cup {m}
    /\ UNCHANGED <<store, inFlight, awaiting, sendFailed, retries, flow, paused, writer, control, server, history>>

\* reconcile_in_flight_terminal_states, then reconcile_awaiting_durable_terminal_states.
TickReconciles ==
    /\ Idle
    /\ LET sentOrFailed ==
               IF paused THEN Terminal(inFlight \cup awaiting)
               ELSE IF Terminal(inFlight) # {} THEN Terminal(inFlight) ELSE Terminal(awaiting)
       IN  /\ sentOrFailed # {}
           /\ inFlight' = inFlight \ sentOrFailed
           /\ awaiting' = awaiting \ sentOrFailed
           /\ sendFailed' = sendFailed \ sentOrFailed
           /\ due' = due \ sentOrFailed
           /\ pending' = pending \ sentOrFailed
           /\ retry' = [m \in Msgs |-> IF m \in sentOrFailed THEN 0 ELSE retry[m]]
    /\ worker' = IF paused THEN "idle" ELSE "next"
    /\ UNCHANGED <<enqueued, lrow, srow, todo, saving, backoff, timers, flow, paused, writer, server, history>>

\* Nothing to reconcile: the expired entries are gone through one by one, then try_send_next.
TickExpires ==
    /\ Idle /\ ~paused
    /\ Terminal(inFlight \cup awaiting) = {}
    /\ due # {} \/ (Candidates # {} /\ Cardinality(inFlight) < window)
    /\ todo' = due
    /\ worker' = "expire"
    /\ UNCHANGED <<store, saving, tracking, retries, flow, paused, writer, server, history>>

\* check_awaiting_durable_timeout comes before the in-flight entries.
Expiring(m) ==
    /\ worker = "expire" /\ saving = NoSave
    /\ m \in todo
    /\ todo \cap awaiting # {} => m \in awaiting
    /\ todo' = todo \ {m}
    /\ NoteCongestion

ExpireRetries(m) ==
    /\ Expiring(m) /\ retry[m] < MaxRetries
    /\ retry' = [retry EXCEPT ![m] = retry[m] + 1]
    /\ Dispatch(m, retry[m] + 1)
    /\ UNCHANGED <<store, worker, saving, backoff, timers, paused, writing, results, server, history>>

ExpireFails(m) ==
    /\ Expiring(m) /\ retry[m] >= MaxRetries
    /\ Settle(m, "failed") /\ Untrack(m)
    /\ UNCHANGED <<enqueued, lrow, srow, worker, backoff, timers, paused, writer, server, history>>

ExpireDone ==
    /\ worker = "expire" /\ saving = NoSave /\ todo = {}
    /\ worker' = "next"
    /\ UNCHANGED <<store, todo, saving, tracking, retries, flow, paused, writer, server, history>>

\* QueueCommand::RetryBackoffElapsed: only the latest schedule of an entry counts.
BackoffElapses(m, r) ==
    /\ Idle /\ <<m, r>> \in timers
    /\ timers' = timers \ {<<m, r>>}
    /\ backoff' = IF backoff[m] = r THEN [backoff EXCEPT ![m] = 0] ELSE backoff
    /\ worker' = "next"
    /\ UNCHANGED <<store, todo, saving, tracking, retry, flow, paused, writer, server, history>>

-----------------------------------------------------------------------------
(* Commands of the session and link layers.                                *)

Pause ==
    /\ "pause" \in Env /\ Idle /\ ~paused
    /\ paused' = TRUE
    /\ UNCHANGED <<store, tracking, retries, flow, writer, control, server, history>>

\* resume, then recover_pending_for_current_user: entries of another account and own rows
\* with no entry are failed, entries that never left go again, then try_send_next.
CrossAccount == {m \in Foreign \cap pending : lrow[m] # "none"}

\* Wrong: rows without an entry are not healed.
OrphanSendingIgnored == {}

OrphanSending == {m \in Msgs \ (Foreign \cup pending) : lrow[m] = "sending"}

Resume(resend) ==
    /\ Idle /\ (IF resend THEN "resend" ELSE "keep") \in Env
    /\ paused' = FALSE
    /\ IF resend THEN BumpGeneration ELSE UNCHANGED writer
    /\ inFlight' = IF resend THEN {} ELSE inFlight \ sendFailed
    /\ sendFailed' = {}
    /\ due' = IF resend THEN due \cap awaiting ELSE due \ sendFailed
    /\ pending' = pending \ CrossAccount
    /\ retry' = [m \in Msgs |-> IF m \in CrossAccount THEN 0 ELSE retry[m]]
    /\ backoff' = [m \in Msgs |-> IF m \in CrossAccount THEN 0 ELSE backoff[m]]
    /\ lrow' = [m \in Msgs |-> IF m \in CrossAccount \cup OrphanSending THEN "failed" ELSE lrow[m]]
    /\ worker' = "next"
    /\ orphans' = orphans \cap Foreign
    /\ UNCHANGED <<enqueued, srow, awaiting, timers, flow, todo, saving, server, attempted>>

\* reset_pending_on_login: everything not yet sent is failed, nothing of it is written any more.
ResetPendingOnLogin ==
    /\ "reset" \in Env /\ Idle
    /\ BumpGeneration
    /\ inFlight' = {} /\ awaiting' = {} /\ sendFailed' = {} /\ due' = {}
    /\ backoff' = [m \in Msgs |-> 0]
    /\ todo' = pending
    /\ worker' = "drop"
    /\ UNCHANGED <<store, retry, timers, flow, paused, saving, server, history>>

\* expire_stale_pending: entries enqueued up to the cutoff are failed.
ExpireStalePending(cutoff) ==
    /\ "stale" \in Env /\ Idle
    /\ todo' = {m \in pending : m <= cutoff}
    /\ worker' = "drop"
    /\ UNCHANGED <<store, saving, tracking, retries, flow, paused, writer, server, history>>

DropOne(m) ==
    /\ worker = "drop" /\ saving = NoSave
    /\ m \in todo
    /\ todo' = todo \ {m}
    /\ Settle(m, "failed") /\ Untrack(m)
    /\ backoff' = [backoff EXCEPT ![m] = 0]
    /\ UNCHANGED <<enqueued, lrow, srow, worker, timers, flow, paused, writer, server, history>>

DropDone ==
    /\ worker = "drop" /\ saving = NoSave /\ todo = {}
    /\ worker' = "idle"
    /\ UNCHANGED <<store, todo, saving, tracking, retries, flow, paused, writer, server, history>>

-----------------------------------------------------------------------------
(* run_writer: one frame at a time, in dispatch order.  The frame may reach *)
(* the server whatever the local result says.                               *)

WriterTakes ==
    /\ writing = NoJob /\ writerQ # <<>>
    /\ writerQ' = Tail(writerQ)
    /\ IF Head(writerQ).live
       THEN writing' = Head(writerQ) /\ attempted' = attempted \cup {Head(writerQ).m}
       ELSE UNCHANGED <<writing, attempted>>
    /\ UNCHANGED <<store, tracking, retries, flow, paused, results, control, server, orphans>>

WriterFinishes(ok, reached) ==
    /\ writing # NoJob
    /\ ok \/ Len(results) < CmdCap
    /\ results' = IF ok THEN results ELSE Append(results, writing)
    /\ wire' = IF reached THEN wire \cup {writing.m} ELSE wire
    /\ writing' = NoJob
    /\ UNCHANGED <<store, tracking, retries, flow, paused, writerQ, control, srv, acks, history>>

\* The generation changed under the write: given up without a result.
WriterAbandons(reached) ==
    /\ writing # NoJob /\ ~writing.live
    /\ wire' = IF reached THEN wire \cup {writing.m} ELSE wire
    /\ writing' = NoJob
    /\ UNCHANGED <<store, tracking, retries, flow, paused, writerQ, results, control, srv, acks, history>>

-----------------------------------------------------------------------------
(* Environment: the server is idempotent in the client id.                 *)

ServerUnchanged == UNCHANGED <<store, tracking, retries, flow, paused, writer, control, history>>

Answers(m, kind) ==
    /\ Cardinality(acks) < MaxAcks
    /\ acks' = acks \cup {<<m, kind>>}

ServerStores(m) ==
    /\ m \in wire
    /\ wire' = wire \ {m}
    /\ srv' = [srv EXCEPT ![m] = "stored"]
    /\ Answers(m, "durable")
    /\ ServerUnchanged

ServerAccepts(m) ==
    /\ "accept" \in Env /\ m \in wire /\ srv[m] # "stored"
    /\ wire' = wire \ {m}
    /\ srv' = [srv EXCEPT ![m] = "accepted"]
    /\ Answers(m, "accepted")
    /\ ServerUnchanged

ServerPersists(m) ==
    /\ srv[m] = "accepted"
    /\ srv' = [srv EXCEPT ![m] = "stored"]
    /\ Answers(m, "durable")
    /\ UNCHANGED wire
    /\ ServerUnchanged

ServerRejects(m, kind) ==
    /\ m \in wire
    /\ \/ kind = "busy" /\ "busy" \in Env /\ srv[m] # "stored"
       \/ kind = "refused" /\ "refuse" \in Env /\ srv[m] = "none"
    /\ wire' = wire \ {m}
    /\ Answers(m, kind)
    /\ UNCHANGED srv
    /\ ServerUnchanged

NetworkLoses ==
    /\ "lose" \in Env
    /\ \/ \E m \in wire : wire' = wire \ {m} /\ UNCHANGED acks
       \/ \E a \in acks : acks' = acks \ {a} /\ UNCHANGED wire
    /\ UNCHANGED srv
    /\ ServerUnchanged

\* converge_messages: a pushed copy of a message that is still local becomes a durable ack.
ConvergesPush(m) ==
    /\ "sync" \in Env /\ srv[m] = "stored" /\ lrow[m] # "none" /\ ~srow[m]
    /\ Answers(m, "durable")
    /\ UNCHANGED <<srv, wire>>
    /\ ServerUnchanged

\* Sync and gap repair save the server's row; save_batch drops a row still sending.
SyncSaves(m) ==
    /\ "sync" \in Env /\ srv[m] = "stored" /\ ~srow[m]
    /\ srow' = [srow EXCEPT ![m] = TRUE]
    /\ lrow' = IF lrow[m] = "sending" THEN [lrow EXCEPT ![m] = "none"] ELSE lrow
    /\ UNCHANGED <<enqueued, pending, tracking, retries, flow, paused, writer, control, server, history>>

\* The process dies and starts again: the store and what is on the wire remain.
Crash ==
    /\ "crash" \in Env
    /\ inFlight' = {} /\ awaiting' = {} /\ sendFailed' = {} /\ due' = {}
    /\ retry' = [m \in Msgs |-> 0] /\ backoff' = [m \in Msgs |-> 0] /\ timers' = {}
    /\ window' = InitialWindow /\ successes' = 0 /\ paused' = TRUE
    /\ writerQ' = <<>> /\ writing' = NoJob /\ results' = <<>>
    /\ worker' = "idle" /\ todo' = {} /\ saving' = NoSave
    /\ acks' = {}
    /\ orphans' = orphans \cup {m \in Msgs : \/ saving # NoSave /\ m = saving.m
                                             \/ worker = "enqueue" /\ m = enqueued}
    /\ UNCHANGED <<store, srv, wire, attempted>>

-----------------------------------------------------------------------------
\* Steps the actor takes by itself once a command is in.
Handler ==
    \/ EnqueuePush \/ SaveOutcome \/ NextStops \/ ExpireDone \/ DropDone
    \/ \E m \in Msgs :
         \/ NextWriterFull(m) \/ NextDispatches(m) \/ NextGivesUp(m) \/ NextDropsTerminal(m)
         \/ ExpireRetries(m) \/ ExpireFails(m) \/ DropOne(m)

Result == ResultIgnored \/ ResultWhilePaused \/ ResultRetries \/ ResultFails

Tick == TickReconciles \/ TickExpires

Writer ==
    \/ WriterTakes
    \/ \E ok, reached \in BOOLEAN : WriterFinishes(ok, reached)
    \/ \E reached \in BOOLEAN : WriterAbandons(reached)

Ack(m) ==
    \/ AckDurable(m) \/ AckDurableOrphan(m) \/ AckAccepted(m)
    \/ AckBusyRetries(m) \/ AckFails(m) \/ AckIgnored(m)

Server(m) ==
    \/ ServerStores(m) \/ ServerAccepts(m) \/ ServerPersists(m)
    \/ \E kind \in {"busy", "refused"} : ServerRejects(m, kind)

\* What the session, the link, the store or the operating system does to the outbox.
Disruption ==
    \/ Pause \/ \E resend \in BOOLEAN : Resume(resend)
    \/ ResetPendingOnLogin \/ \E cutoff \in Msgs : ExpireStalePending(cutoff)
    \/ EnqueuePushFails \/ SaveOutcomeFails \/ Crash

Next ==
    \/ EnqueueSave \/ Handler \/ Result \/ Tick \/ Writer \/ Disruption \/ NetworkLoses
    \/ \E m \in Msgs : Ack(m) \/ Server(m) \/ ConvergesPush(m) \/ SyncSaves(m) \/ DeadlinePasses(m)
    \/ \E m \in Msgs, r \in 0..MaxRetries : BackoffElapses(m, r)

Spec == Init /\ [][Next]_vars

-----------------------------------------------------------------------------
(* Properties.                                                             *)

StoreType ==
    /\ enqueued \in F..N /\ pending \subseteq Msgs
    /\ lrow \in [Msgs -> LocalRow] /\ srow \in [Msgs -> BOOLEAN]

TrackingType ==
    /\ inFlight \subseteq Msgs /\ awaiting \subseteq Msgs
    /\ sendFailed \subseteq Msgs /\ due \subseteq Msgs

RetryType ==
    /\ retry \in [Msgs -> 0..MaxRetries] /\ backoff \in [Msgs -> 0..MaxRetries]
    /\ timers \subseteq (Msgs \X (0..MaxRetries))

FlowType ==
    /\ window \in 1..MaxInFlight /\ successes \in 0..MaxInFlight
    /\ paused \in BOOLEAN

WriterType == writerQ \in Seq(Jobs) /\ writing \in Jobs \cup {NoJob} /\ results \in Seq(Jobs)

ControlType == worker \in Modes /\ todo \subseteq Msgs /\ saving \in Saves \cup {NoSave}

ServerType ==
    /\ srv \in [Msgs -> {"none", "accepted", "stored"}]
    /\ wire \subseteq Msgs /\ acks \subseteq (Msgs \X AckKinds)

HistoryType == attempted \subseteq Msgs /\ orphans \subseteq Msgs

\* Every variable has its type: the shape of QueueState, the tables and the channels.
TypeOK ==
    /\ StoreType /\ TrackingType /\ RetryType /\ FlowType
    /\ WriterType /\ ControlType /\ ServerType /\ HistoryType

\* The three tables the actor keeps in memory (in flight, awaiting the durable ack, backing off)
\* are disjoint and hold only messages that are still in the persisted queue, so neither a
\* timeout nor a backoff can send or fail a message that was already settled.
TrackedIsPending ==
    LET backingOff == {m \in Msgs : backoff[m] > 0}
    IN  /\ inFlight \cup awaiting \cup backingOff \cup todo \subseteq pending
        /\ inFlight \cap awaiting = {}
        /\ (inFlight \cup awaiting) \cap backingOff = {}
        /\ sendFailed \subseteq inFlight
        /\ due \subseteq inFlight \cup awaiting

\* A message that shows as sending is in the persisted queue, or is just being put there or
\* settled by the running handler; only a crash or a failed store write can leave it stranded,
\* and then only until the next resume (an own message never stays `sending' past a reconnect).
SendingIsOwned ==
    \A m \in Msgs : lrow[m] = "sending" =>
        \/ m \in pending
        \/ saving.m = m
        \/ worker = "enqueue" /\ m = enqueued
        \/ m \in orphans

\* A message shows as sent only when the server has persisted it: a transient, WAL or broker
\* acceptance (durable_accepted_from_ack) is never shown as sent.
SentIsStored ==
    \A m \in Msgs : srow[m] \/ saving = [m |-> m, as |-> "sent"] => srv[m] = "stored"

\* Frames leave in enqueue order the first time: the writer never starts a message while an
\* older one of this account is still pending and was never started, whatever retries,
\* reconnects, full writers and restarts came in between.
FirstWriteInOrder ==
    \A m, n \in Msgs \ Foreign :
        m < n /\ n \in attempted /\ m \in pending => m \in attempted

\* An entry that is in flight and was never written has a current frame in the writer's queue:
\* a full writer drops only repeats, so no first send waits for a timeout that never had a frame.
UnwrittenHasFrame ==
    \A m \in inFlight \ attempted :
        \E i \in 1..Len(writerQ) : writerQ[i].m = m /\ writerQ[i].live

\* While the link is down nothing is charged to a message: its retry count does not grow and it
\* is not failed, unless the server itself answered for it or the session drops the queue.
PauseChargesNothing ==
    [][paused /\ paused' => \A m \in Msgs :
         (retry'[m] > retry[m] \/ (saving' = [m |-> m, as |-> "failed"] /\ saving # saving'))
         => \/ m \in todo
            \/ <<m, "busy">> \in acks \/ <<m, "refused">> \in acks]_vars

-----------------------------------------------------------------------------
(* The inductive invariant behind TrackedIsPending, SendingIsOwned and     *)
(* SentIsStored: what the mode of the actor says about its state, which    *)
(* messages can be anywhere outside the store, and how the rows of a       *)
(* message and its acks relate to what the server has.                     *)

ModesAgree ==
    /\ worker \in {"idle", "enqueue", "next"} => todo = {}
    /\ worker = "expire" => todo \subseteq inFlight \cup awaiting
    /\ worker = "enqueue" => saving = NoSave /\ enqueued \in Msgs \ Foreign

Launched == (F + 1)..enqueued

OnlyLaunchedLeaves ==
    /\ pending \subseteq 1..enqueued
    /\ saving # NoSave => saving.m <= enqueued
    /\ inFlight \cup awaiting \cup wire \subseteq Launched
    /\ \A i \in 1..Len(writerQ) : writerQ[i].m \in Launched
    /\ writing # NoJob => writing.m \in Launched
    /\ \A m \in Msgs : srv[m] # "none" => m \in Launched
    /\ \A m \in Msgs, kind \in AckKinds : <<m, kind>> \in acks => m \in Launched

RowsAgree ==
    \A m \in Msgs :
        /\ <<m, "durable">> \in acks => srv[m] = "stored"
        /\ srow[m] => lrow[m] # "sending"

\* The queue's state is consistent after every step of the actor, the writer, the server, the
\* sync path and a crash; this is the strengthening under which TrackedIsPending,
\* SendingIsOwned and SentIsStored follow from one step to the next.
QueueInv ==
    /\ TypeOK /\ ModesAgree /\ OnlyLaunchedLeaves
    /\ TrackedIsPending /\ RowsAgree /\ SentIsStored /\ SendingIsOwned

-----------------------------------------------------------------------------
(* The outbox as an application sees it.                                   *)

Own == Msgs \ Foreign

Contract == INSTANCE OutboxContract
              WITH status <- [m \in Own |-> View(m)],
                   stored <- {m \in Own : srv[m] = "stored"}

\* The queue, its writer and its store implement OutboxContract for this account's messages:
\* lost, late and repeated acks, reconnects, resets and crashes never show a message as sent
\* that the server does not have, and never take `sent' back.
ContractHolds == Contract!Spec

-----------------------------------------------------------------------------
(* Liveness.  The actor loop takes every queued command and every tick, the *)
(* writer bounds each write by a timeout, deadlines and timers are clocks.  *)

Fairness ==
    /\ WF_vars(Handler) /\ WF_vars(Result) /\ WF_vars(Tick) /\ WF_vars(Writer)
    /\ \A m \in Msgs : WF_vars(DeadlinePasses(m))
    /\ WF_vars(\E m \in Msgs, r \in 0..MaxRetries : BackoffElapses(m, r))

LiveSpec == Spec /\ Fairness

\* Once the session, the link and the store are left alone and the link is up, every message
\* that shows as sending is eventually sent or failed, whatever the server and the network do
\* with its frames and acks.
SendingEnds ==
    (<>[][~Disruption]_vars /\ <>[]~paused) =>
        \A m \in Msgs : lrow[m] = "sending" ~> (lrow[m] # "sending" \/ m \in orphans)

-----------------------------------------------------------------------------
(* What comments of the code say and the code does not do.                 *)

\* max_retries is the total number of attempts of a message (domain/message/delivery.rs).
\* An attempt handed to the writer with retry count r is attempt r + 1.
BudgetIsTotalAttempts ==
    \A m \in inFlight \ sendFailed : retry[m] + 1 <= MaxRetries

\* On a new connection what was in flight is sent again with its retry count unchanged (resume):
\* picking an entry to send never fails an entry of this account.
ResumeResends ==
    [][(worker = "next" /\ saving = NoSave /\ saving' # NoSave) => saving'.m \in Foreign]_vars

\* A write under which the connection changed is void (run_writer): its failure is not charged
\* to the attempt made on the new connection.
StaleFailureIsVoid ==
    [][(results # <<>> /\ results' = Tail(results) /\ ~Head(results).live)
         => retry' = retry /\ saving' = saving]_vars

=============================================================================
