-------------------------- MODULE ConversationSync --------------------------
(***************************************************************************)
(* How one conversation's sequence numbers reach the local store: the      *)
(* socket reader and the persist worker of the dispatcher                  *)
(* (src/runtime/dispatcher/), the repair and waterline pulls they start,   *)
(* the single-conversation sync that pages the server                      *)
(* (src/application/adapters/sync_protocol_adapter.rs and                  *)
(* src/application/usecases/sync/), and clearing the history               *)
(* (src/application/lifecycle/conversation_local.rs).                      *)
(*                                                                         *)
(* Messages and operation events (recall, edit, reaction ...) draw their   *)
(* numbers from one allocator.  A number is a message, an event whose      *)
(* target is the nearest message below it, or absent (a tombstone).  A     *)
(* store call is a step; reads between two writes are one step.            *)
(***************************************************************************)
EXTENDS Integers, FiniteSets

CONSTANTS
    N,        \* sequence numbers the server hands out
    Page,     \* items per page
    Events,   \* numbers that are operation events
    Absent,   \* numbers the server answers with a tombstone
    Pings,    \* a waterline ping is on the wire at most this often
    Envs      \* what the environment may do: in a behaviour, one of these subsets of Behaviours

\* push, event, wire, ping: what the server sends unasked (a message push, an operation event,
\* a message wrapped as an event, a waterline ping); sync, after, before: the host's three kinds of pull; stale: the
\* server asks for a rebuild from a snapshot; fail: a request fails; disk: a write fails; crash:
\* the process restarts; clear: the user clears the history; race: a message is stored while
\* the history is being cleared.
Behaviours == {"push", "event", "wire", "ping", "sync", "after", "before", "stale", "fail",
               "disk", "crash", "clear", "race"}

ASSUME SyncAssumption ==
    /\ N \in Nat \ {0} /\ Page \in Nat \ {0} /\ Pings \in Nat
    /\ Events \subseteq 1..N /\ Absent \subseteq 1..N /\ Events \cap Absent = {}
    /\ Envs \subseteq SUBSET Behaviours

Seqs     == 1..N
Messages == Seqs \ (Events \cup Absent)
Savers   == {"worker", "reader"}
Pulls    == {"fix", "water", "host"}

VARIABLES
    env,                     \* what the environment does in this behaviour
    head, sent, pings,       \* server: numbers handed out, numbers pushed, pings left
    rows, done,              \* store: message rows, events whose effect is in the rows
    cursor, floor, covered,  \* store: sync cursor, cleared-through floor, proven numbers
    applied, seen,           \* AppliedEventSeqs, EventDeduper
    queue,                   \* messages waiting for the persist worker
    saver,                   \* persist_durable_batch, run by the worker and by the reader
    event,                   \* the operation event the reader is applying
    fix,                     \* SeqRepairState
    water,                   \* WaterlinePullState
    pull,                    \* the running pulls
    clear,                   \* the clearing of the history
    lazy                     \* history: numbers an adopted tail or snapshot left to backfill

server == <<env, head, sent, pings>>
marks  == <<cursor, floor, covered>>
store  == <<rows, done, marks>>
memory == <<applied, seen>>
inbox  == <<queue, saver, event>>
vars   == <<server, store, memory, inbox, fix, water, pull, clear, lazy>>

NoFix   == [flying |-> FALSE, gap |-> 0, progress |-> 0, early |-> FALSE]
NoWater == [flying |-> FALSE, pending |-> FALSE, next |-> 0, goal |-> 0]
NoSave  == [pc |-> "idle", batch |-> {}, base |-> 0, best |-> 0, gap |-> 0]
NoPull  == [pc |-> "idle", mode |-> "sync", start |-> 0, from |-> 0, last |-> FALSE,
            items |-> {}, top |-> 0, base |-> 0, known |-> 0, good |-> {}]
NoClear == [on |-> FALSE, deleted |-> FALSE, mark |-> 0]
NoEvent == [seq |-> 0, failed |-> FALSE]

PullPcs == {"idle", "begin", "ask", "apply", "store", "prove", "save", "snapshot", "adopt",
            "again"}

SyncTypeOK ==
    /\ env \in Envs
    /\ head \in 0..N /\ sent \subseteq 1..head /\ pings \in 0..Pings
    /\ rows \subseteq Messages \cap 1..head /\ done \subseteq Events \cap 1..head
    /\ cursor \in 0..head /\ floor \in 0..head /\ covered \subseteq 1..head
    /\ applied \subseteq Events \cap 1..head /\ seen \subseteq Events \cap 1..head
    /\ queue \subseteq Messages \cap 1..head 
    /\ event \in [seq: Events \cup {0}, failed: BOOLEAN]
    /\ saver \in [Savers -> [pc: {"idle", "save", "cursor", "window", "advance"},
                             batch: SUBSET Messages, base: 0..N, best: 0..N, gap: -1..N]]
    /\ fix \in [flying: BOOLEAN, gap: 0..N, progress: 0..N, early: BOOLEAN]
    /\ water \in [flying: BOOLEAN, pending: BOOLEAN, next: 0..N, goal: 0..N]
    /\ pull \in [Pulls -> [pc: PullPcs, mode: {"sync", "after", "before"}, start: 0..N,
                           from: 0..N + 1, last: BOOLEAN, items: SUBSET Seqs, top: 0..N,
                           base: 0..N, known: 0..N, good: SUBSET Seqs]]
    /\ clear \in [on: BOOLEAN, deleted: BOOLEAN, mark: 0..N] /\ lazy \subseteq 1..head

---------------------------------------------------------------------------
(* Sequence arithmetic *)

Larger(a, b)  == IF a >= b THEN a ELSE b
Smaller(a, b) == IF a <= b THEN a ELSE b
Highest(S)    == IF S = {} THEN 0 ELSE CHOOSE s \in S : \A t \in S : t <= s
Lowest(S)     == IF S = {} THEN 0 ELSE CHOOSE s \in S : \A t \in S : s <= t
Newest(S, k)  == {s \in S : Cardinality({t \in S : t > s}) < k}

\* max_contiguous_seq: how far the numbers of S run on from base without a hole.
Contiguous(base, S) == CHOOSE k \in base..N : base + 1..k \subseteq S /\ k + 1 \notin S

\* An absent gap; every gap is a number >= 0.
NoGap == -1

FirstGap(base, S) ==
    LET k == Contiguous(base, S) IN IF \E s \in S : s > k + 1 THEN k ELSE NoGap

InternalGap(base, S) ==
    LET from == {s \in S : s >= base}
        ends == {s \in from : s + 1 \notin from /\ \E t \in from : t > s}
    IN  IF ends = {} THEN NoGap ELSE Lowest(ends)

\* seq_repair_gap_after: of the gap at the cursor and the most recent ones, the latest.
RepairGap(base, before, S) ==
    LET recent == Larger(base, before)
        tail   == IF recent > 0 THEN FirstGap(recent, S) ELSE NoGap
    IN  Larger(FirstGap(base, S), Larger(InternalGap(recent, S), tail))

\* local_message_sync_start_seq
LocalStart ==
    Larger(IF cursor = 0 \/ rows = {} THEN 0 ELSE Smaller(cursor, Highest(rows)), floor)

\* get_by_conversation leaves out the rows at or below the floor.
Visible == {m \in rows : m > floor}

\* local_waterline_reached_with_stores; A is the registry of applied events.
Reached(target, A) ==
    \/ floor >= target
    \/ cursor >= target /\ target \in Visible \cup A
    \/ cursor < target /\ Contiguous(cursor, Visible \cup A) >= target

Target(e)       == Highest({m \in Messages : m < e})
TargetStored(e) == Target(e) = 0 \/ Target(e) \in rows

---------------------------------------------------------------------------
(* The server and the two ways numbers are pushed *)

Grow ==
    /\ head < N
    /\ head' = head + 1
    /\ UNCHANGED <<env, sent, pings, store, memory, inbox, fix, water, pull, clear, lazy>>

\* The reader handles one downlink at a time.
ReaderIdle == event = NoEvent /\ saver["reader"] = NoSave

\* maybe_trigger_waterline_pull: nothing to do, join the pull in flight, or start one.
Ping(target, A) ==
    \/ /\ Reached(target, A)
       /\ UNCHANGED <<water, pull>>
    \/ /\ ~Reached(target, A) /\ water.flying
       /\ water' = [water EXCEPT !.pending = TRUE, !.next = Larger(@, target)]
       /\ UNCHANGED pull
    \/ /\ ~Reached(target, A) /\ ~water.flying
       /\ water' = [NoWater EXCEPT !.flying = TRUE, !.goal = target]
       /\ pull' = [pull EXCEPT !["water"] = [NoPull EXCEPT !.pc = "begin"]]

ReadPing ==
    /\ "ping" \in env /\ pings > 0 /\ head > 0 /\ ReaderIdle
    /\ pings' = pings - 1
    /\ Ping(head, applied)
    /\ UNCHANGED <<env, head, sent, store, memory, inbox, fix, clear, lazy>>

\* MessagePush: shown first, then handed to the persist worker.
ReadPush(m) ==
    /\ "push" \in env /\ ReaderIdle
    /\ m \in Messages \cap (1..head \ sent)
    /\ sent' = sent \cup {m}
    /\ queue' = queue \cup {m}
    /\ UNCHANGED <<env, head, pings, store, memory, saver, event, fix, water, pull, clear, lazy>>

\* A message that comes as an event is stored by the reader itself.
ReadWire(m) ==
    /\ "wire" \in env /\ ReaderIdle
    /\ m \in Messages \cap (1..head \ sent)
    /\ sent' = sent \cup {m}
    /\ saver' = [saver EXCEPT !["reader"] = [NoSave EXCEPT !.pc = "save", !.batch = {m}]]
    /\ UNCHANGED <<env, head, pings, store, memory, queue, event, fix, water, pull, clear, lazy>>

\* dispatch_single_event: the number is recorded as filled before the event is applied.
ReadEvent(e) ==
    /\ "event" \in env /\ ReaderIdle
    /\ e \in Events \cap (1..head \ sent)
    /\ sent' = sent \cup {e}
    /\ IF e \in seen
       THEN UNCHANGED <<memory, event, water, pull>>
       ELSE /\ seen' = seen \cup {e}
            /\ applied' = applied \cup {e}
            /\ event' = [NoEvent EXCEPT !.seq = e]
            /\ Ping(e, applied')
    /\ UNCHANGED <<env, head, pings, store, queue, saver, fix, clear, lazy>>

\* Wrong: only the dedupe key is forgotten, the registry keeps the number.
ForgetKeyOnly(e) == seen' = seen \ {e} /\ UNCHANGED applied

\* rollback_applied_event
Rollback(e) == seen' = seen \ {e} /\ applied' = applied \ {e}

\* The event's store call: done, or failed because its target has no row yet or the write failed.
ApplyEvent ==
    /\ event # NoEvent /\ ~event.failed
    /\ \/ TargetStored(event.seq) /\ done' = done \cup {event.seq} /\ event' = NoEvent
       \/ /\ ~TargetStored(event.seq) \/ "disk" \in env
          /\ event' = [event EXCEPT !.failed = TRUE]
          /\ UNCHANGED done
    /\ UNCHANGED <<server, rows, marks, memory, queue, saver, fix, water, pull, clear, lazy>>

UndoEvent ==
    /\ event.failed
    /\ Rollback(event.seq)
    /\ event' = NoEvent
    /\ UNCHANGED <<server, store, queue, saver, fix, water, pull, clear, lazy>>

---------------------------------------------------------------------------
(* Storing what was pushed: persist_durable_batch, repair_message_seq_after_persist *)

Saver(a, record) == saver' = [saver EXCEPT ![a] = record]

\* The worker takes every job that is waiting.
WorkerTakes ==
    /\ saver["worker"] = NoSave /\ queue # {}
    /\ Saver("worker", [NoSave EXCEPT !.pc = "save", !.batch = queue])
    /\ queue' = {}
    /\ UNCHANGED <<server, store, memory, event, fix, water, pull, clear, lazy>>

\* Wrong: a failed write does not stop the cursor from being moved.
SaveAnyway(a) ==
    /\ saver[a].pc = "save"
    /\ Saver(a, [saver[a] EXCEPT !.pc = "cursor"])
    /\ rows' \in {rows, rows \cup saver[a].batch}
    /\ UNCHANGED <<server, done, marks, memory, queue, event, fix, water, pull, clear, lazy>>

\* save_batch and the projection; without them nothing is repaired.
SaveBatch(a) ==
    /\ saver[a].pc = "save"
    /\ \/ /\ rows' = rows \cup saver[a].batch
          /\ Saver(a, [saver[a] EXCEPT !.pc = "cursor"])
       \/ /\ "disk" \in env
          /\ rows' \in {rows, rows \cup saver[a].batch}
          /\ Saver(a, NoSave)
    /\ UNCHANGED <<server, done, marks, memory, queue, event, fix, water, pull, clear, lazy>>

ReadCursor(a) ==
    /\ saver[a].pc = "cursor"
    /\ Saver(a, [saver[a] EXCEPT !.pc = "window", !.base = cursor])
    /\ UNCHANGED <<server, store, memory, queue, event, fix, water, pull, clear, lazy>>

\* local_tail_seqs_before_incoming
LocalTail(batch) == {m \in Visible : m < Lowest(batch)}

\* The continuity window: rows below the batch, the batch, and the events recorded up to it.
ReadWindow(a) ==
    LET s      == saver[a]
        tail   == LocalTail(s.batch)
        events == {e \in applied : s.base < e /\ e <= Highest(s.batch)}
        window == tail \cup s.batch \cup events
    IN  /\ s.pc = "window"
        /\ Saver(a, [s EXCEPT !.pc = "advance", !.best = Contiguous(s.base, window),
                              !.gap = RepairGap(s.base, Highest(tail), window)])
        /\ UNCHANGED <<server, store, memory, queue, event, fix, water, pull, clear, lazy>>

\* A gap starts a pull from it unless one is in flight or the same gap is in its backoff.  No
\* gap forgets the repair state, that of a pull in flight too.
Repair(s) ==
    LET progress == s.best > fix.progress
        held     == fix.flying \/ (fix.gap = s.gap /\ ~progress /\ fix.early)
    IN  \/ s.gap = NoGap /\ fix' = NoFix /\ UNCHANGED pull
        \/ s.gap # NoGap /\ held /\ UNCHANGED <<fix, pull>>
        \/ /\ s.gap # NoGap /\ ~held
           /\ pull["fix"].pc = "idle"
           /\ fix' = [flying |-> TRUE, gap |-> s.gap,
                      progress |-> Larger(fix.progress, s.best), early |-> TRUE]
           /\ pull' = [pull EXCEPT !["fix"] =
                          [NoPull EXCEPT !.pc = "ask", !.start = s.gap, !.from = s.gap]]

Advance(a) ==
    LET s == saver[a] IN
    /\ s.pc = "advance"
    /\ \/ cursor' = Larger(cursor, s.best)
       \/ "disk" \in env /\ UNCHANGED cursor
    /\ Repair(s)
    /\ Saver(a, NoSave)
    /\ UNCHANGED <<server, rows, done, floor, covered, memory, queue, event, water, clear, lazy>>

\* next_attempt_at_ms passes.
BackoffEnds ==
    /\ fix.early
    /\ fix' = [fix EXCEPT !.early = FALSE]
    /\ UNCHANGED <<server, store, memory, inbox, water, pull, clear, lazy>>

---------------------------------------------------------------------------
(* A pull: sync_conversation_loop and the three ways to ask for pages *)

Pull(t, record) == pull' = [pull EXCEPT ![t] = record]

HostPulls ==
    /\ pull["host"].pc = "idle"
    /\ \/ "sync" \in env /\ Pull("host", [NoPull EXCEPT !.pc = "begin"])
       \/ /\ "after" \in env
          /\ \E s \in 0..head :
                Pull("host", [NoPull EXCEPT !.pc = "ask", !.mode = "after", !.from = s])
       \/ /\ "before" \in env
          /\ \E s \in 1..head + 1 :
                Pull("host", [NoPull EXCEPT !.pc = "ask", !.mode = "before", !.from = s])
    /\ UNCHANGED <<server, store, memory, inbox, fix, water, clear, lazy>>

\* sync_conversation_with_context: where the local data ends.
Begin(t) ==
    /\ pull[t].pc = "begin"
    /\ Pull(t, [pull[t] EXCEPT !.pc = "ask", !.start = LocalStart, !.from = LocalStart])
    /\ UNCHANGED <<server, store, memory, inbox, fix, water, clear, lazy>>

\* Wrong: the repair state of a failed pull stays in flight.
EndsStuck(t, ok) ==
    \/ /\ t = "host" /\ Pull(t, NoPull) /\ UNCHANGED <<fix, water>>
    \/ /\ t = "fix" /\ Pull(t, NoPull)
       /\ fix' = IF ok THEN NoFix ELSE fix
       /\ UNCHANGED water
    \/ /\ t = "water" /\ Pull(t, NoPull) /\ water' = NoWater /\ UNCHANGED fix

\* Wrong: a ping that came while the pull was in flight is forgotten.
EndsOnce(t, ok) ==
    \/ /\ t = "host" /\ Pull(t, NoPull) /\ UNCHANGED <<fix, water>>
    \/ /\ t = "fix" /\ Pull(t, NoPull) /\ fix' = NoFix /\ UNCHANGED water
    \/ /\ t = "water" /\ Pull(t, NoPull) /\ water' = NoWater /\ UNCHANGED fix

\* The pull of a task ends: the repair state and the waterline state are settled.
Ends(t, ok) ==
    \/ /\ t = "host" /\ Pull(t, NoPull) /\ UNCHANGED <<fix, water>>
    \/ /\ t = "fix" /\ Pull(t, NoPull)
       /\ fix' = IF ok THEN NoFix ELSE [fix EXCEPT !.flying = FALSE]
       /\ UNCHANGED water
    \/ /\ t = "water" /\ ~water.pending
       /\ Pull(t, NoPull) /\ water' = NoWater
       /\ UNCHANGED fix
    \/ /\ t = "water" /\ water.pending
       /\ Pull(t, [NoPull EXCEPT !.pc = "again"])
       /\ water' = [water EXCEPT !.pending = FALSE, !.next = 0, !.goal = water.next]
       /\ UNCHANGED fix

\* The coalesced ping: reached by now, or pull once more.
PullAgain ==
    /\ pull["water"].pc = "again"
    /\ \/ /\ Reached(water.goal, applied) /\ ~water.pending
          /\ water' = NoWater /\ Pull("water", NoPull)
       \/ /\ ~Reached(water.goal, applied) \/ water.pending
          /\ Pull("water", [NoPull EXCEPT !.pc = "begin"])
          /\ UNCHANGED water
    /\ UNCHANGED <<server, store, memory, inbox, fix, clear, lazy>>

\* One page is behind: stop where nothing advanced, after a last look at the newest page.
Proceeds(t, next, more) ==
    LET p == pull[t] IN
    \/ /\ p.mode # "sync" \/ p.last \/ (next <= p.from /\ p.start = 0) \/ (next > p.from /\ ~more)
       /\ Ends(t, TRUE)
    \/ /\ p.mode = "sync" /\ ~p.last
       /\ \/ next <= p.from /\ p.start > 0
             /\ Pull(t, [NoPull EXCEPT !.pc = "ask", !.start = p.start, !.from = p.from,
                                       !.last = TRUE])
          \/ next > p.from /\ more
             /\ Pull(t, [NoPull EXCEPT !.pc = "ask", !.start = p.start, !.from = next])
       /\ UNCHANGED <<fix, water>>

Asked(t) == IF pull[t].last THEN 0 ELSE pull[t].from

\* The server's page: the numbers after the asked one, the newest ones when asked after 0, or
\* the newest messages before the asked one.
Items(t) ==
    CASE pull[t].mode = "before" -> Newest({m \in Messages : m < pull[t].from}, Page)
      [] pull[t].mode # "before" /\ Asked(t) = 0 -> Newest(1..head, Page)
      [] OTHER -> {s \in 1..head : Asked(t) < s /\ s <= Asked(t) + Page}

Answer(t) ==
    /\ pull[t].pc = "ask"
    /\ \/ Pull(t, [pull[t] EXCEPT !.pc = "apply", !.items = Items(t), !.top = head])
       \/ /\ "stale" \in env /\ pull[t].mode = "sync"
          /\ Pull(t, [pull[t] EXCEPT !.pc = "snapshot"])
    /\ UNCHANGED <<server, store, memory, inbox, fix, water, clear, lazy>>

Fail(t) ==
    /\ "fail" \in env
    /\ pull[t].pc \in {"ask", "snapshot"}
    /\ Ends(t, FALSE)
    /\ UNCHANGED <<server, store, memory, inbox, clear, lazy>>

---------------------------------------------------------------------------
(* Applying a page: apply_sync_res_single, apply_single_conversation_page *)

\* The number a page is decoded from.
Known(t) ==
    CASE pull[t].mode = "sync"   -> Larger(Smaller(cursor, Asked(t)), floor)
      [] pull[t].mode = "after"  -> Larger(Asked(t), floor)
      [] pull[t].mode = "before" -> 0

\* missing_target_is_already_covered
Passed(e) == cursor >= e \/ Highest(rows) >= e \/ floor >= e

\* The page's events are applied before its messages are stored.  An event counts when its key
\* is known, its write is done, or it is already behind what is stored.
ApplyEvents(t) ==
    LET p      == pull[t]
        events == (p.items \cap Events) \ seen
        hits   == {e \in events : TargetStored(e)}
        passed == {e \in events \ hits : Passed(e)}
    IN  /\ p.pc = "apply"
        /\ \E ok \in (IF "disk" \in env THEN SUBSET hits ELSE {hits}) :
              /\ done' = done \cup ok
              /\ seen' = seen \cup ok \cup passed
        /\ Pull(t, [p EXCEPT !.pc = "store", !.base = cursor, !.known = Known(t),
                             !.good = {s \in p.items \ (Events \ seen') : s > Known(t)}])
        /\ UNCHANGED <<server, rows, marks, applied, inbox, fix, water, clear, lazy>>

\* persist_converged_messages
Fresh(S, known) == {m \in S \cap Messages : m > known /\ m > floor}

StorePage(t) ==
    LET p == pull[t]
        new == Fresh(p.items, p.known)
    IN  /\ p.pc = "store"
        /\ \/ /\ rows' = rows \cup new
              /\ Pull(t, [p EXCEPT !.pc = "prove"])
              /\ UNCHANGED <<fix, water>>
           \/ /\ "disk" \in env /\ new # {}
              /\ rows' \in {rows, rows \cup new}
              /\ Ends(t, FALSE)
        /\ UNCHANGED <<server, done, marks, memory, inbox, clear, lazy>>

\* How far the page runs on from its start; whether it is a cold-start tail page.
Safe(p) == Contiguous(p.known, p.good)
Tail(t) ==
    LET p == pull[t]
    IN  Asked(t) = 0 /\ p.mode # "before" /\ p.items # {} /\ Safe(p) = 0 /\ p.top > 0

\* Wrong: a tail page is taken to prove everything up to the server's number.
WholeTail(t) == 1..pull[t].top

\* Wrong: the range runs one past the server's number.
PastTail(t) == IF pull[t].good = {} THEN {} ELSE Lowest(pull[t].good)..pull[t].top + 1

\* tail_page_range
TailRange(t) == IF pull[t].good = {} THEN {} ELSE Lowest(pull[t].good)..pull[t].top

\* backfill_page_range
BackfillRange(p) ==
    IF \E m \in Messages : m < Lowest(p.items) THEN Lowest(p.items)..p.from - 1 ELSE 1..p.from - 1

\* record_coverage, which may fail without consequence.
Prove(S) == covered' \in {covered \cup S} \cup (IF "disk" \in env THEN {covered} ELSE {})

ProvePage(t) ==
    LET p == pull[t]
        run == p.known + 1..Safe(p)
    IN  /\ p.pc = "prove"
        /\ Prove(run \cup (IF p.mode = "before" THEN BackfillRange(p)
                           ELSE IF Tail(t) THEN TailRange(t) ELSE {}))
        /\ \/ p.mode # "sync" /\ Ends(t, TRUE)
           \/ p.mode = "sync" /\ Pull(t, [p EXCEPT !.pc = "save"]) /\ UNCHANGED <<fix, water>>
        /\ UNCHANGED <<server, rows, done, cursor, floor, memory, inbox, clear, lazy>>

\* local_materialized_contiguous_seq: how far rows and tombstones reach from the old cursor.
Materialized(p) ==
    LET held == {m \in Visible : m <= Safe(p)} \cup (p.items \cap Absent \cap p.good)
    IN  Smaller(Contiguous(Larger(cursor, floor), held), Safe(p))

\* save_cursor_with_remote: never back, and only as far as the local data reaches.
Moves(p) == Safe(p) > p.base /\ Materialized(p) > Larger(cursor, floor)

SavePage(p) ==
    \/ /\ Moves(p)
       /\ cursor' = Materialized(p)
       /\ Prove(Larger(cursor, floor) + 1..Materialized(p))
    \/ ~Moves(p) /\ UNCHANGED <<cursor, covered>>

\* The end of apply_sync_res_single: a tail page moves the cursor to the server's number and
\* leaves what is older to backfill.
SaveCursor(t) ==
    LET p == pull[t]
    IN  /\ p.pc = "save"
        /\ \/ /\ Tail(t)
              /\ cursor' = Larger(cursor, p.top)
              /\ lazy' = lazy \cup (1..p.top \ (p.items \cap Messages))
              /\ UNCHANGED covered
              /\ Proceeds(t, p.top, FALSE)
           \/ /\ ~Tail(t)
              /\ SavePage(p)
              /\ UNCHANGED lazy
              /\ Proceeds(t, Safe(p), p.top > Safe(p))
           \/ /\ "disk" \in env /\ (Tail(t) \/ Moves(p))
              /\ UNCHANGED <<cursor, covered, lazy>>
              /\ Ends(t, FALSE)
        /\ UNCHANGED <<server, rows, done, floor, memory, inbox, clear>>

\* resync_conversation_from_snapshot: the newest messages are stored ...
StoreSnapshot(t) ==
    LET newest == Newest(Messages \cap 1..head, Page) IN
    /\ pull[t].pc = "snapshot"
    /\ \/ /\ rows' = rows \cup Fresh(newest, 0)
          /\ Pull(t, [pull[t] EXCEPT !.pc = "adopt", !.items = newest, !.top = head])
          /\ UNCHANGED <<fix, water>>
       \/ /\ "disk" \in env /\ Fresh(newest, 0) # {}
          /\ rows' \in {rows, rows \cup Fresh(newest, 0)}
          /\ Ends(t, FALSE)
    /\ UNCHANGED <<server, done, marks, memory, inbox, clear, lazy>>

\* ... and then proven between each other, and the cursor goes to the snapshot's number.
Adopt(t) ==
    LET p == pull[t] IN
    /\ p.pc = "adopt"
    /\ Prove(IF p.items = {} THEN {} ELSE Lowest(p.items)..Highest(p.items))
    /\ \/ /\ cursor' = Larger(cursor, p.top)
          /\ lazy' = lazy \cup (1..p.top \ p.items)
          /\ Proceeds(t, p.top, FALSE)
       \/ /\ "disk" \in env
          /\ UNCHANGED <<cursor, lazy>>
          /\ Ends(t, FALSE)
    /\ UNCHANGED <<server, rows, done, floor, memory, inbox, clear>>

---------------------------------------------------------------------------
(* Clearing the history, and a restart *)

\* clear_history_boundary_with_ports first reads how far the conversation is known to go.  The
\* summary's max_seq is anything between the local numbers and the server's.
ReadMark ==
    /\ "clear" \in env /\ clear = NoClear
    /\ \E mark \in Larger(floor, Larger(cursor, Highest(rows)))..head :
          clear' = [NoClear EXCEPT !.on = TRUE, !.mark = mark]
    /\ UNCHANGED <<server, store, memory, inbox, fix, water, pull, lazy>>

\* clear_local_chat_history deletes every row, those above the mark too.
DeleteRows ==
    /\ clear.on /\ ~clear.deleted
    /\ "race" \in env \/ rows \subseteq 1..clear.mark
    /\ rows' = {}
    /\ floor' = Larger(floor, clear.mark)
    /\ clear' = [clear EXCEPT !.deleted = TRUE]
    /\ UNCHANGED <<server, done, cursor, covered, memory, inbox, fix, water, pull, lazy>>

MarkCleared ==
    /\ clear.deleted
    /\ \/ covered' = covered \cup 1..clear.mark /\ cursor' = Larger(cursor, clear.mark)
       \/ "disk" \in env /\ covered' \in {covered, covered \cup 1..clear.mark} /\ UNCHANGED cursor
    /\ clear' = NoClear
    /\ UNCHANGED <<server, rows, done, floor, memory, inbox, fix, water, pull, lazy>>

\* Only the store outlives the process.
Crash ==
    /\ "crash" \in env
    /\ applied' = {} /\ seen' = {} /\ queue' = {} /\ event' = NoEvent
    /\ saver' = [a \in Savers |-> NoSave] /\ pull' = [t \in Pulls |-> NoPull]
    /\ fix' = NoFix /\ water' = NoWater /\ clear' = NoClear
    /\ UNCHANGED <<server, store, lazy>>

Init ==
    /\ env \in Envs
    /\ head = 0 /\ sent = {} /\ pings = Pings
    /\ rows = {} /\ done = {} /\ cursor = 0 /\ floor = 0 /\ covered = {} /\ lazy = {}
    /\ applied = {} /\ seen = {} /\ queue = {} /\ event = NoEvent
    /\ saver = [a \in Savers |-> NoSave] /\ pull = [t \in Pulls |-> NoPull]
    /\ fix = NoFix /\ water = NoWater /\ clear = NoClear

Stores(a) == SaveBatch(a) \/ ReadCursor(a) \/ ReadWindow(a) \/ Advance(a)

Steps(t) ==
    \/ Begin(t) \/ Answer(t) \/ ApplyEvents(t) \/ StorePage(t) \/ ProvePage(t) \/ SaveCursor(t)
    \/ StoreSnapshot(t) \/ Adopt(t)

Next ==
    \/ Grow \/ ReadPing \/ \E s \in Seqs : ReadPush(s) \/ ReadWire(s) \/ ReadEvent(s)
    \/ ApplyEvent \/ UndoEvent \/ WorkerTakes \/ \E a \in Savers : Stores(a)
    \/ BackoffEnds \/ HostPulls \/ PullAgain \/ \E t \in Pulls : Steps(t) \/ Fail(t)
    \/ ReadMark \/ DeleteRows \/ MarkCleared \/ Crash

Spec == Init /\ [][Next]_vars

\* The runtime polls every task that can go on, and the server answers.
SyncFairness ==
    /\ WF_vars(ApplyEvent) /\ WF_vars(UndoEvent) /\ WF_vars(WorkerTakes) /\ WF_vars(PullAgain)
    /\ \A a \in Savers : WF_vars(Stores(a))
    /\ \A t \in Pulls : WF_vars(Steps(t))

LiveSpec == Spec /\ SyncFairness

---------------------------------------------------------------------------
(* Properties *)

\* Every message at or below the sync cursor is stored, was cleared, or was left to backfill by
\* an adopted tail page or snapshot: the cursor never passes a message that a later sync would
\* then not ask for again, whatever the reader, the worker and the pulls do at the same time.
CursorCoversMessages ==
    \A m \in Messages \cap 1..cursor : m \in rows \/ m <= floor \/ m \in lazy

\* The proven ranges hide no gap: a message inside them has its row or was cleared.  Paging back
\* reads only the local store inside a range.
CoverageIsTrue == \A m \in Messages \cap covered : m \in rows \/ m <= floor

\* The registry of applied events holds no event that was rolled back, so that no real gap is
\* taken for filled.
RegistryIsApplied == applied \subseteq done \cup {event.seq}

\* A state that says a pull is in flight has one: otherwise every later gap or ping of the
\* conversation would be dropped.
FlightIsReal ==
    /\ fix.flying => pull["fix"].pc # "idle"
    /\ water.flying <=> pull["water"].pc # "idle"

\* An event that could not be applied stays ahead of the cursor, where the next sync replays it:
\* an event at or below the cursor whose message is stored was applied, is being applied, or its
\* message came as of a later state.
FailedEventStaysAhead ==
    \A e \in Events \cap 1..cursor :
        Target(e) \in rows \ lazy => e \in done \cup seen \cup lazy \/ e <= floor

\* A page saves the cursor up to its last number in a row that was stored, applied or absent.
PageCounts ==
    [][\A t \in Pulls :
          pull[t].pc = "save" /\ pull'[t].pc # "save" => cursor' >= Safe(pull[t])]_vars

\* A ping is answered: while its pull runs, each message up to its number is eventually stored,
\* cleared or left to backfill.
PingAnswered ==
    \A m \in Messages :
        (water.flying /\ m <= Larger(water.goal, water.next))
            ~> (m \in rows \/ m <= floor \/ m \in lazy)

=============================================================================
