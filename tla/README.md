# Specifications of flare-im-core-sdk

TLA+ specifications of the parts of the SDK in which several actors share
state over time: the outbox, its clock, the link supervisor, the way one
conversation's messages reach the local store, its read position, the session with its tokens and push
bindings, and the access layer (health, signed documents, refresh, updates). TLC checks
small instances of them; TLAPS proves the most important properties for all
values of the constants. `PROJECT.json` lists runs, mutants, findings, hazards,
theorems, and for every definition the source lines it stands for. Paths below
are relative to the repository root.

## 1. The system

An application holds an `ImClient`. Sending a message writes an optimistic row
and a pending entry and returns; the **outbox** sends the entry when it can.
The **link supervisor** keeps one authenticated connection to one of several
access points, and pauses or resumes the outbox as connections come and go.
Frames that come in go to the **dispatcher**, which writes messages and events
to the local store, acknowledges them and feeds the **event bus**; the **sync
orchestrator** fetches what was missed. All of this runs as tokio tasks (or
browser tasks) that talk through channels, over a local database that
survives the process.

| Part | State | Operations | What makes it hard | Correct when |
|---|---|---|---|---|
| Outbox (`src/runtime/reliable_queue/actor.rs`, `src/domain/message/delivery.rs`) | `in_flight`, `awaiting_durable`, `backoff`, adaptive window, pause, writer channel and generation; tables `messages`, `pending_sends` | enqueue, ack, send result, timeout tick, backoff timer, synced copy, pause, resume, reset, shutdown | acks before persistence, lost or late; results of attempts of an earlier connection; crash or failing write between two tables; full channels | nothing is lost or stranded; sent means stored; frames leave in order; offline time costs nothing; every message ends |
| Enqueue clock (same file, `pending_send_repo.rs`) | `last_enqueued_at_ms`, stamps | stamp, seed, note | wall clock jumps, restarts | the table is read in send order |
| Link supervisor (`src/runtime/link/supervisor.rs`) | phase, round, the one operation in progress, live connection, deadlines, session, waiting start | start, stop, reconnect now, network, app state, repin; results of operations; end of a connection; timers; directory changes | results and signals on different channels; late signals; network changes in the middle of a round | never waits for nothing; ignores old connections; terminated stays so; the outbox runs exactly when it may; start is answered |
| Round and access points (`src/runtime/link/access.rs`, `failover.rs`, `access/src/select`, `access/src/health`) | preferences, drained set, breakers, health records | pick, record, claim trial, fail back, flush | trials of a half-open breaker that never report, records that change while they are written | an access point is always offered again; what counts as saved is on disk |
| Directory, manifests, releases (`access/src`, `src/runtime/update`) | stored and loaded documents, ETags, notices, the phase of the update centre | refresh, import, commit, notify, check, download, install | two documents accepted at once, restarts, a damaged key, stale ETags, overlapping checks and downloads | documents never go back; a 304 hides nothing; a refresh call is answered; what is ready is what is offered |
| Session (`src/client/im_client*`, `token_broker.rs`) | current user, engine, tokens, watchers | login, logout, token refresh, app state | concurrent calls over many awaits | no link, token or store of a session that is over stays in use; its watchers end |
| Push token (`src/client/push_lifecycle.rs`) | journal, attempts, binding at the service | attach, reconcile, register, revoke | crashes, lost answers and session changes between journal, request and answer | every binding can be revoked, and is once it is unwanted |
| Dispatcher (`src/runtime/dispatcher`) | persist queue, applied events, event keys, repair and ping states | push, event, message event, ping, gap repair | reader, worker and pulls write the same rows and cursor; failing writes | no gap forgotten, no ping dropped |
| Conversation sync (`src/application/adapters/sync_protocol_adapter.rs`, `src/application/usecases/sync`, `src/domain/timeline`) | rows, cursor, cleared floor, proven ranges | sync, backfill, detached page, snapshot, clear | one page is several writes; tail pages and snapshots skip history | neither cursor nor proven ranges claim a message that is not stored |
| Sync orchestrator (`src/kernel/sync`, `src/application/sync_task`) | task queue, cursors of many conversations | first, silent and gap sync, cancel | preemption, restart | every conversation is caught up |
| Event bus (`src/kernel/event`) | listeners, queues | publish, subscribe, drop | slow listeners, bounded queues | order per topic |
| Read positions (`src/application/usecases/conversation`, `src/application/projections`, `src/domain/conversation/read_position.rs`, `src/infrastructure/protocol`) | read and unread figures of a row, ack ledger | mark read or unread, project a message, merge a summary, push positions, replay receipts | link loss around a receipt; counts and positions that change between two awaits | what was read is reported in the end; only what was read is reported |

Content types, builders, codecs, storage SQL, bindings and tools keep no state
that several steps share; `PROJECT.json` lists them as not modelled.

## 2. Modules

    OutboxContract <--refines-- ReliableQueue <-- ReliableQueueProofs <-- OutboxProofs
                                     ^-- MCReliableQueue (ReliableQueue*.cfg)
    EnqueueClock   <-- MCEnqueueClock (EnqueueClock*.cfg)
    LinkSupervisor <-- LinkSupervisorProofs,  MCLinkSupervisor (Link*.cfg)
    ConversationSync <-- ConversationSyncProofs,  MCConversationSync (the other Sync*.cfg)
    ReadReceipts <-- ReadReceiptsProofs
    ConversationSync, ReadReceipts <-- MCConversation (SyncSafe.cfg, SyncLive.cfg)
    PushLifecycle, SessionLifecycle, EnqueueClock <-- MCClient (Client.cfg)
    AccessHealth, HealthFlush, ManifestStore, RefreshSchedule, UpdateMachine <-- MCAccess (Access.cfg)
    PushLifecycle <-- PushProofs
    EnqueueClock, SessionLifecycle, UpdateMachine <-- ClientProofs
    ManifestStore, HealthFlush <-- AccessProofs
    RefreshSchedule (RefreshNotice.cfg)

`ReliableQueue` has a constant `Env`, the set of things the environment may do in a run
("offline", "crash", "disk", ...). `LinkSupervisor` and `ConversationSync` have `Envs`, a
set of such sets, of which every behaviour picks one (`env`), so that one run covers
several mixes without their product; `ReadReceipts` does the same with `ReadEnvs`. The proofs hold for every `Env` and `Envs`.

`MCClient`, `MCAccess` and `MCConversation` put components side by side that do not share state in these
models. A variable `part` says which of them moves in a behaviour, so their state spaces
add up instead of multiplying; every component keeps its own specification
(`PushSpec`, `StoreSpec`, ...) for the proofs and for runs of its own.

Operators marked `Wrong:` are plausible mistakes. They are used by
nothing; replacing the definition that follows each of them must break a property.

### ReliableQueue

Messages are the ordinals `1..N` in enqueue order; `F` of them are leftovers of
another account. The tables of the actor (`in_flight`, `awaiting_durable`,
`backoff`), the window, the pause flag, the writer's channel with the dispatch
generation, the acks in transit, the command channel and the two database
tables are variables. A handler that awaits between two store writes is split
there (`EnqueueSave`/`EnqueuePush`, settling an entry and then writing its
outcome), because a crash or a failing write may fall in between and the
application reads the store at any time; the actor itself takes no other
command meanwhile. The tick, the dispatch loop
`try_send_next` and the writer are separate steps as they are in the code.
What the server does with a frame (persist, accept without persisting, busy,
reject, nothing) is the environment.

Left out: time (a deadline may pass whenever its timer runs, and a pause
freezes it), results of successful writes (the handler does nothing with them),
the snapshot of rows `try_send_next` reads ahead of its loop (the model reads
the row at each entry), the stall probe, and `converge_messages` before a queue
exists.

`OutboxContract` is what the outbox promises the application about one message:
it is sending, then sent or failed, a failed one may be retried, and it is sent only when the server stored it.
`ReliableQueue!View` maps the detailed state to it; `ContractHolds` is the
refinement.

### EnqueueClock

`next_enqueue_ms`, `seed_enqueue_clock` and the `pending_sends` table with a
wall clock that may take any value at any time, failing pushes and restarts.
`Spec` assumes that the read that seeds the clock succeeds; `FaultySpec` does not.

### LinkSupervisor

`phase`, `op` (the one operation future: directory, token, open, opened, sync),
`round` (a token was obtained, how many access points were tried), `live`
(the connection in use), `timers` (which deadlines are set), `session`, `reply`
(a start call waits), `resume` (`resume_after_probe`), `net`, and on the side of
the environment `conn` (the socket that is open), `lost` (reported ends not yet
read), `outbox` and `kept` (the frames of the outbox are on this connection). Each
command, signal, result, deadline and directory event is an action with the
whole handler in it. `Handshake` and `ConnEnds` are the network.

Left open: which access point a round tries and how an end or a rejection is
classified (the code's choice is one of those the model allows), what is
published, the maintenance deadline (its outcomes are `Switch` and the
round-trip actions), and epochs, which are only "current" or "stale". `Stop`
includes the shutdown of the queue that the engine does with it.

### ConversationSync

One conversation. `rows`, `done` (events whose effect is in the rows), `cursor`,
`floor` and `covered` are the store; `applied` and `seen` are `AppliedEventSeqs` and
`EventDeduper`; `queue` and `saver["worker"]` are the persist worker,
`saver["reader"]` and `event` what the socket reader is in the middle of; `fix` and
`water` are `SeqRepairState` and `WaterlinePullState`; `pull` holds the pull each of
them started and one of the host; `clear` is `clear_history_boundary_with_ports`.
`lazy` is a history variable: the numbers an adopted tail page or snapshot left to
backfill.

Messages and operation events share the sequence numbers, as in the code. The worker
and the reader run the same four steps (save the batch, read the cursor, read the
window, move the cursor and repair); a pull runs: begin, ask, apply events, store
messages, prove the range, save the cursor, or store and adopt a snapshot. Each store
write is a step of its own, so that everyone else may act, a write may fail or the
process may end in between. The server (`Grow`, `Items`) is modelled from the pages
and page rules the client relies on.

Left out: other conversations and users; the limits of the registries, the window of
100 rows and the waterline span of 128; failing reads; attempt counts and the length
of the backoff; the keys of messages that come as events; delivery to views and remote
cursors. The reads between two writes are one step. A number is pushed at most once, in
any order. `max_seq` of the conversation, which the clearing reads, is any number
between the local data and the server's. A repair state may be removed while its pull
still runs; the code may then start a second pull, the model lets the worker wait for
the first one. Unless "race" is in the environment no message is stored between the two
reads of a clearing and its delete.

### ReadReceipts

The read position of one conversation. `row` is its row in the store (newest number,
read position, unread count), `top` the newest stored message, `readAcked` the position
last pushed, `remote` the server's newest message and read position, `receipts` the entry
of the ack ledger, `wire` the connection: up, dying (writes succeed and nothing arrives)
or down. `reading` are the `mark_read` calls, `pushing` is `push_local_read_states`, `projecting` the projection of a new message onto the row, `summary` a
conversation summary or snapshot on its way into it; each has a program counter between its
awaits. `asked` (the highest position a user marked as read) and `forfeited` are history
variables. A position is forfeited when the push wrote it into a dying connection and its
last copy is lost, a loss the code accepts (`sync_protocol_adapter.rs:554`), or when a receipt
below the ledger's entry was written into one: `record` then leaves the entry and its time as
they are, so it is not replayed.

`readEnv.allow` names disturbances: "race" (others act, or the process ends,
between the reads and writes of one operation on the row), "behind" (a summary names messages that are not stored yet), "stale" (a
snapshot older than the row) and "unread" (`mark_unread` of a conversation that has unread messages).

Left out: gaps in the stored messages, mentions, recalled messages, cleared histories,
failing writes of a count, and the limit of 256 conversations in the ledger. One message is
projected at a time, and the ledger notes a receipt in the step that sends it.

### PushLifecycle

`permission`, `desired`, `attached` and `attempts` are `State`; `root` and `entries` are the
open journal, `saved` the journals on disk; `run` is the reconcile that holds the io
lock, with a program counter between its awaits; `generation` and `account` are the
client's session. `binding`, `revoked`, `puts` and `posts` are the service and the requests
that are on the wire: a registration whose answer timed out may still arrive, after a crash
too. A write of the journal may fail before or after the rename. The service, which is not
part of the repository, accepts a registration only for the version it was asked with and
never for a revoked binding. Left out: more than one provider (a run visits them one after
the other) and the length of the backoff.

### SessionLifecycle

`gen`, `user`, `token` and `engine` are `IMClientInner` behind its lock; `apis`, `state` and
`bearer` sit outside of it. Each call (`calls`) takes the lock several times and awaits in
between, and every such section is an action: `EndSession`, `Wipe`, `ClearBearer`, `StopLink`
for a logout, and for a login the same, then `Install`, `PrepareOutbox`, `ReadGeneration`,
`Open`, `SetBearer`, `SpawnWatchers`, `StartLink`. `tokens` are the token requests of the
link and of the host, `watch` the watchers of a session with `SessionEndWatch` in its three
steps. `SessionEnv` says whether the host may log in twice at once, which the API does
not exclude. Left out: the token broker, the configuration cleared by `uninit`, the sync after
a login.

### AccessHealth and HealthFlush

`AccessHealth` follows one access point on one network while the device moves between
networks: `health` (breaker, claim of a trial, failures, outcome window), `udp` (the memory
of blocked UDP), and the three users of the book, `link`, `rest` and `probe`, each with the
result it will report or never report. Times are ticks that remain. `HealthFlush` is the way
of the book to disk: `records` with their marks, the batches being written, eviction at
`MaxNetworks`, `load` in the store's order. A record is the number of the change that wrote it.

### ManifestStore

`lkg` are the two keys of each document in the store, `cache` is `max_cache`, `gate` the lock of
`commit`, `held` what the process uses, `jobs` the document each of two actors (a refresh round
and the import of a recovery link) is bringing in, `run` the round, `book` and `savedBook` the
ETag of one source that is followed. A document is its serial. `Boot` is the start-up, where
a stored document may turn out to be unusable. Signatures are taken as checked.

### RefreshSchedule

`Worker` and `RefreshSchedule` of the refresher with the control of a round: `background`, `notified`
and `recovering` are the three reasons for a round, `running` the round, `waiters` and `manual`
the calls of `access.refresh`. After each event the worker starts what is due (`Loop`). Moments
are flags that come true by actions of their own.

### UpdateMachine

`phase`, `target` (the build on offer), `ready`, `checkRounds` and `manualCheck` are the machine; `queued`,
`fetching`, `downloads`, `rechecking` and `handed` the tasks of `UpdateRuntime` that overlap;
`savedPackage` survives. When and how the user is prompted is left out.

## 3. What the runs show

| Run (cfg) | Bounds | Shows |
|---|---|---|
| `queue_faults` (ReliableQueueSmall) | 2 messages, one of another account, 1 retry, window 1, all faults | `TrackedIsPending`: a message is in at most one of the actor's tables and then still in `pending_sends`; `SentIsStored`; `SendingIsOwned`: no row stays sending without an owner; `ContractHolds` |
| `queue_order` (ReliableQueueWindow) | 2 messages, window 2, reconnects | `UnwrittenHasFrame`: an entry in flight whose frame was never written has a current frame in the writer; `FirstWriteInOrder`: first frames leave in enqueue order |
| `queue_live` (ReliableQueueLive) | 1 message, 2 retries, fairness below | `SendingEnds`: a message that is sending ends; `PauseChargesNothing`: no retry count grows while the link is down |
| `link_full` (LinkFull) | 2 access points, four mixes of offline periods, reconnect-now requests, repeated starts, other users and connections that end early; fairness below | `NeverStuck`: something always drives the link on; `LiveIsOpenUnlessEarly`: the connection in use is open or its end is on the way; `OnlineIsAnsweredOnce`; `OutboxNeedsLinkOfUser`; `ReadyIsSendingUnlessNudged`; `TerminatedStays`; `LateLossIgnored`; `OutboxComesBack` |
| `sync_safe` (SyncSafe) | 4 numbers, number 3 an event, pages of 2, 2 pings, nine mixes of pushes, events, pings, pulls, snapshots, clearing, failures and restarts; read position: 1 message, 2 connections and every disturbance, or 2 messages, 1 connection and none | `CursorCoversMessages`: the cursor never passes a message that is not stored, cleared or left to backfill; `CoverageIsTrue`: nor does a proven range; `RegistryIsApplied`: no event that was rolled back counts as filled; `FlightIsReal`: no state says "in flight" without a pull; `ReadIsReportable`: the position stored as read is at the server, yet to be pushed, or kept by the ledger for the next connection, unless forfeited; `OnlyReadIsReported`: without the disturbances the server is told "read" only of what a user marked as read |
| `sync_live` (SyncLive) | 3 numbers, number 2 an event, pages of 2, 2 pings, fairness below | `PingAnswered`: every message up to a pinged number arrives |
| `client` (Client) | push: 2 endpoints, sessions at one of them, 1 user and token, 2 bindings, 2 generations; session: 2 users, 2 calls at once, token requests of link and host; clock: 2 ids, 4 enqueues, 3 times | `BindingIsRevocable`: what the service has bound or may still bind is in the journal on disk; `ConfirmedIsBound`; `UnwantedIsRevoked`: a binding without its session, token or permission is revoked in the end; `TokenOfUser`; `StoreOfUser`; `NoOrphanLink`; `WatcherIsWoken`: no watcher waits for the end of a session that is over; `StampsFollowSendOrder` |
| `access` (Access) | thresholds and times of 1 or 2 ticks; 3 networks, room for 2; 2 serials; 2 sources, 1 retry of a notice; 2 builds, 2 check rounds | `AlwaysOfferedAgain`: no breaker, trial without an answer or loaded record keeps an access point out for good; `CleanIsOnDisk`; `StoredNeverGoesBack`; `MemoryIsNotBehind`; `NotModifiedMissesNothing`; `ManualAnswered`; `NoticeEnds`: a notice that no source can serve is not retried forever; `ReadyIsOffered`; `CheckingHasRound` |

Four more runs are refuted; see the disagreements below.

The properties of `link_full` with `Unless`, `Once` or `OfUser` in their name hold in the mixes
without the one disturbance that the disagreements below show to break them; `LinkOpen`,
`LinkLive`, `LinkOutbox` and `LinkSending` check the unconditional ones in such mixes.
`OnlyReadIsReported` is conditioned the same way. `ConfirmedIsBound` speaks of the last binding attempted as long as no revocation of it is on the
wire, for the same reason.

One message reaches every pair of handlers that compete for one entry; two are
needed for ordering between an entry in the window and one outside of it, and
for an entry of another account; three for a younger message that overtakes
across a retry. A budget of two tells the last retry from an earlier one. Two
access points tell "try the next" from "round exhausted"; the supervisor keeps
no other count that matters (`failed` saturates). Four numbers in pages of two
give a first page, a full second one and a gap with numbers on both sides; an
event at 3 has messages below and above it. Two pings are one that starts a pull and
one that meets it. Two messages tell a read position from the newest message, two connections a receipt
from its replay. Two bindings are one that is replaced and its successor; two calls a
login against a logout, or a logout against a logout, at every await. With two serials an older and a newer document
meet in every order, and with a seed of 1 the built-in one is older than a published one.
Room for two of three networks makes eviction happen; a threshold of two tells the first failure
from the one that opens the breaker, and a maximal cooldown of twice the base one doubling from the cap.

Further instances ask the same of other bounds and are not part of the regular runs:
`ReliableQueueOrder` (3 messages in order), `ReliableQueueAccounts` (with the inductive `QueueInv`),
`ReliableQueuePause`, `EnqueueClock` (3 ids), `LinkOpen`, `LinkLive`, `LinkOutbox`, `LinkSending` and
`SyncAbsent` (a tombstone at 3, an event at 2) pass. `SessionLifecycle!WatcherEnds` holds under
`SessionLiveSpec`.

**Deadlock.** The `Sync*.cfg` do not check it: once every number is handed out,
delivered and stored, and read and reported, the conversation is at rest. `Client.cfg`, `Access.cfg` and
`RefreshNotice.cfg` do not either: once the calls, changes and bindings of the bounds are used up, and
nothing is scheduled, these components wait for the host.

**Fairness.** `ReliableQueue!LiveSpec` assumes that the actor's loop, the
writer and the timers make progress, as a tokio task that is never blocked
does, and that the server answers or refuses a frame, or its deadline passes. It does
not assume that the server answers every frame. `LinkSupervisor!LiveSpec` assumes that operations end (each has its
own limit in the code) and deadlines fire; that a handshake that can always
be repeated succeeds in the end; and nothing about the user.
`ConversationSync!SyncFairness` assumes that the reader, the worker and the pull tasks go on
when they can and that the server answers a request (`request_sync_page_with_retry`
ends every request); it assumes no further ping, push or sync.
`PushFairness` assumes that reconcile is started again and again (the host does so on return to the
foreground and of the network, the client at each login and logout and each change of token or permission), that its steps go on, and that not every single request is
late and not every write of the journal fails; without that no code could revoke a binding.
`AlwaysOfferedAgain` assumes only that time passes. `RefreshFairness` assumes that time passes and that
a request to a source ends, with an answer or at its deadline; no source has to answer well.

### Disagreements between the code and its comments

TLC refutes each of these with the configuration named. The first four are runs of
`PROJECT.json`, which quotes the lines. Where a property is named instead of a configuration,
it is refuted as the only property of `Client.cfg`, `Access.cfg` or `SyncSafe.cfg`, with the constant given.

| Configuration | The code says of itself | What happens |
|---|---|---|
| `ReliableQueueResume` (`queue_resume`) | on a new connection what is in flight is sent again at once (`actor.rs:1024`) | an entry on its last attempt is failed instead |
| `LinkEarlyLoss` (`link_early_loss`) | only late ends of old connections are dropped (`supervisor.rs:1385`) | the end of the new connection, read before its opening, is dropped too |
| `SyncEventPassed` (`sync_event_passed`) | an event that failed stays ahead of the cursor (`dispatcher/tests.rs:1066`) | the worker reads the registry between the event's registration and its rollback and moves the cursor past it |
| `RefreshNotice` (`refresh_notice`) | notices are merged into one wait for the largest serial (`refresher.rs:181`), which lasts until that version is there (`:229`) | a newer notice that arrives during the round for an older one is dropped when that round reaches its own serial; the next periodic refresh finds the newer one |
| `ReliableQueueBudget` | `max_retries` is the total number of attempts | a message whose acks time out is attempted `max_retries + 1` times |
| `ReliableQueueStale` | a write under which the connection changed is void | a failure reported just before the change is charged to the new attempt |
| `EnqueueClockSeedFails` | stamps continue across restarts | not when the seeding read fails and the wall clock went back |
| `LinkNudgeOffline` | after the probe the outbox paused while suspended resumes | not after "reconnect now" while suspended: Ready with a paused outbox until the new round is over |
| `LinkOfflineSwitch` | a resumed connection is one that did not break | one made while offline is resumed the same way; what was in flight waits for its timeout |
| `LinkStartOffline` | start is answered when there is no network | not when the network goes away during the first round |
| `LinkStartAgain` | a repeated start waits for the result of this round | while suspended with a connection there is no round, and it is not answered when the link is online again |
| `SyncEventHolds` | a page counts the events it applied towards the cursor (`usecases/sync/mod.rs:113`) | the cursor is clamped to rows and tombstones and stays before the event |
| `SyncClearRace` | the cursor passes only what is proven contiguous (`dispatcher/mod.rs:389`) | a message stored after the clearing read its mark is deleted above the floor, and the cursor is past it |
| `RegisteredIsBound`, Client | "Providers confirmed for the current session" (`push_lifecycle.rs:64`) | a confirmed binding whose revocation is on the wire when its token comes back counts as registered |
| `LogoutIsClean`, Client | a logout clears the session context (`session_lifecycle.rs:147`) | a login under way at the logout goes on after it and leaves the state Connecting |
| `StoreOfUser`, Client with `SessionEnv = {"logins"}` | a login isolates sessions (`session_lifecycle.rs:292`) | of two logins at once, one goes on with the engine the other has installed |
| `TrialSuccessCloses`, Access | "HalfOpen --(试探成功)--> Closed" (`breaker.rs:6`) | the failed attempts of the race are reported after the success (`failover.rs:117`, `supervisor.rs:1141`) and open the breaker again |
| `ClosedByTrial`, Access | recovery goes through a real trial (`breaker.rs:144`, `select/mod.rs:59`) | a dial begun on another network is booked for the network the device came back to, and closes its half-open breaker without a trial |
| `HoldsNewest`, Access | beyond the limit the network unused for longest goes (`book.rs:35`) | `load` makes room in the store's order, with the UDP records after the others |
| `EtagOfHeldDocument`, Access | an ETag is sent only for the document that is held (`sources.rs:20`) | an answer with an older document, whose commit could not read the stored serial, files its ETag under the serial that is held (`fetcher.rs:724`); nothing newer is hidden (`NotModifiedMissesNothing`) |
| `OneDownload`, Access with `DownloadTasks = {"d1", "d2"}` | the caller downloads one file at a time (`resumable.rs:1`) | a package that is rejected when `update.install` re-checks it marks the machine failed while a newer one is being downloaded, and the download of that one is begun a second time |
| `HandedIsOffered`, Access | a package that is no longer offered is withdrawn (`state.rs:445`) | not while `update.install` re-checks it: it is handed over all the same |
| `ReportedIsRead`, SyncSafe with `allow` {"behind"}, 2 messages | what is reported is the position read locally (`sync_protocol_adapter.rs:552`), and an unread count of 0 may be wrong (`read_position.rs:59`) | a summary names message 2 while only 1 is stored; `mark_read(1)` counts 0 unread among the stored ones, and the push reports 2 as read |
| the same with {"race"} | the same | the push lists the row between its new maximum and its new count and reports the new message |
| the same with {"stale"} | the same | an older snapshot overwrites the count of a message just projected, and the maximum less the count is reported |
| the same with {"unread"} | the same | `mark_unread` with two unread messages sets the count to 1, and all but the last are reported |
| the same with {}, `Own = {2}` | the same | an own message after an unread one: the maximum less the count passes the unread one |

## 4. What is proved

| Theorem | Statement | Argument |
|---|---|---|
| `ReliableQueueProofs!QueueInvHolds` | `Spec => []QueueInv` | inductive: types, tracked entries are pending, a settled entry is no longer pending while its outcome is being written, sent rows are stored |
| `TypeCorrect`, `TrackedSafe`, `NoStrandedSending`, `SentOnlyWhenStored` | `Spec => []TypeOK`, `TrackedIsPending`, `SendingIsOwned`, `SentIsStored` | from `QueueInv` |
| `OutboxProofs!QueueKeepsContract` | `Spec => ContractHolds` | the refinement of `OutboxContract`, step by step, from `QueueInv` and `HandedInHasRow` (`HandedInHolds`): only six kinds of step touch a row or the server's copy, and each shows `Hand`, `Store`, `Confirm`, `GiveUp` or nothing |
| `FirstSendHasFrame`, `FirstWritesInOrder` | `Spec => []UnwrittenHasFrame`, `[]FirstWriteInOrder` | `OrderInv`, inductive on top of `QueueInv`: whatever an ack, a result or a table knows was written; frames queue in the order of their messages and a younger entry is in flight only behind an older unwritten one |
| `PauseIsFree` | `Spec => PauseChargesNothing` | an action property, from `QueueInv`, action by action |
| `ClientProofs!SendOrderKept` | `Spec => []StampsFollowSendOrder` | `ClockInv`: the clock of a running worker is not behind any pending stamp, places are distinct and at most `count` |
| `ClientProofs!TokenIsOwn` | `SessionSpec => []TokenOfUser` | `TokenInv`: a token task that will still be listened to asked for the user of the session |
| `WatchersAreWoken` | `SessionSpec => []WatcherIsWoken` | `WatchInv`: no watcher looks at the generation before it has registered |
| `StoresAreOwn`, `NoLinkIsLeft` | `[]StoreOfUser`, `[]NoOrphanLink`, if "logins" is not in `SessionEnv` | `LinkInv`: a login is alone under the gate, and each running link belongs to the session or to the call that will stop it |
| `PushProofs!EveryBindingIsRevocable` | `PushSpec => []BindingIsRevocable` | `JournalInv`: the run in progress, the journal it has read and the one on disk know every binding of the endpoint |
| `ConfirmedBindings` | `PushSpec => []ConfirmedIsBound` | `ConfirmInv`: bindings are numbered as they are attempted, and no request on the wire is newer than what the server has |
| `LinkSupervisorProofs!LinkInvHolds` | `Spec => []LinkInv` | inductive: types, ended connections are not in use, quiet without session, terminated has nothing scheduled, each operation fits its round, something drives the link |
| `NeverStuckHolds`, `QuietHolds` | `Spec => []NeverStuck`, `[]QuietWithoutSession` | from `LinkInv` |
| `TerminatedStaysHolds`, `LateLossIgnoredHolds` | the action properties | from `LinkInv`, action by action |
| `LiveIsOpenHolds`, `OnlineIsAnsweredHolds`, `OutboxNeedsLinkHolds`, `ReadyIsSendingHolds` | `Spec => []LiveIsOpenUnlessEarly`, `[]OnlineIsAnsweredOnce`, `[]OutboxNeedsLinkOfUser`, `[]ReadyIsSendingUnlessNudged` | each with an invariant of its own on top of `LinkInv`: `OpenedIsOpen` (opening a connection disowns the last), `LinkIsAnswered` (nor does a link with a connection owe an answer), `OutboxIsHeld` (a probe has a connection), `PauseIsRemembered` (an outbox paused over a connection has the resume noted and a probe running) |
| `ConversationSyncProofs!CursorHolds`, `CoverageHolds` | `CursorCoversMessages` and `CoverageIsTrue` always hold if "race" is not in `env` | `CoverInv`: the batch of a saver is stored before it reads the cursor and what it computed since still lies behind it; a page asked without a start has the newest numbers, and once it is stored its messages have rows |
| `ConversationSyncProofs!RegistryHolds` | `Spec => []RegistryIsApplied` | inductive with: no event is numbered 0; only the reader touches the registry, and no step forgets the effect of an event |
| `ConversationSyncProofs!FlightHolds` | `Spec => []FlightIsReal` | inductive with the shape of the records; every step of a pull moves it on, ends it or asks for the next page, and an end settles the state the pull was started for |
| `ReadReceiptsProofs!ReadPositionIsKept` | `ReadSpec => []ReadIsReportable` | `ReadInv`: what the push has written is at the server, kept by the ledger, or forfeited, also before the push has stored that it wrote it |
| `ReportsAreAskedFor` | `OwnComesFirst => (ReadSpec => []OnlyReadIsReported)` | `ReadSafe`: no position that may still be reported is past what was asked for, between two operations neither is the row's maximum less its count, and what is stored reaches the row or the batch in front of it without a gap. A batch and a recount add to the count at least what they add to the maximum (`PeerCount`, `NewCount`) |
| `AccessProofs!StoreInvHolds` | `StoreSpec => []StoreInv` | inductive: types; nothing is in flight while the process is down; the two keys of a document agree and the cache holds what the store vouches for; a document being written holds the gate and is not older; a stored document that memory is behind of is about to be installed; an ETag is not newer than the serial it is filed under |
| `StoreNeverGoesBack`, `MemoryKeepsUp`, `NothingIsHidden` | `StoreSpec =>` `StoredNeverGoesBack`, `[]MemoryIsNotBehind`, `[]NotModifiedMissesNothing` | from `StoreInv` |
| `AccessProofs!CleanHolds` | `FlushSpec => []CleanIsOnDisk` | `FlushInv`: the gate admits one batch, and a record of it that is not marked again is what the batch writes. `LoadIsHonest`: whatever `load` evicts, each record it leaves in the book is the stored one |
| `ClientProofs!ReadyHolds` | `UpdateSpec => []ReadyIsOffered` | inductive by itself: `reassess` establishes it, every other handler keeps or clears the package |
| `ClientProofs!CheckingHolds` | `UpdateSpec => []CheckingHasRound` | inductive with the types of the counters |

Why the strengthenings are needed. `SendingIsOwned` is not inductive by itself: that a handler which
popped an entry still owes its row an outcome, and that a tracked entry is pending, must
be carried along. `FirstWriteInOrder` speaks of what was written; that it stays true rests on what is
queued, and an entry that a reconnect takes out of flight must not leave a younger live frame behind, which is what
the new generation is for. The refinement needs that a message has a row exactly from the moment it
was handed in, or a late store could show a message the application never gave. `NeverStuck` needs to
know which operation goes with which round, and `LateLossIgnored` that an end already reported is of a connection
no longer open. `CursorCoversMessages` and `CoverageIsTrue` need what a saver and a pull have read and
not yet used: other savers, pulls and clears move the cursor, the rows and the floor in between.
`StoredNeverGoesBack` needs that the cache is what the store vouches for while a
document waits to be written, which the gate guarantees, and `MemoryIsNotBehind` that the document about to be
installed is at least as new as the stored one. `OnlyReadIsReported` says nothing of the row; but the push repairs
a row without a position from its maximum and its count, so every operation must keep the two in step, and in
the middle of one only the row it read still tells what the count should become.

`Load` is computed by recursion over the scan. That no step of it invents a record is proved without an induction
rule: of the positions after which the book would hold one there would be a least (`LeastNumber`, from the
well-foundedness of `<`), and the position before it refutes that.

The proofs assume only the named assumptions on the constants (natural bounds, non-empty where needed), for
every `Env` and `Envs`. Where a theorem excludes part of the environment the statement says so: the
properties of the link that end in a proviso state it themselves, `CursorHolds` and `CoverageHolds`
exclude a message stored between the two halves of a clear (`SyncClearRace.cfg` shows what happens then), and
`StoresAreOwn` and `NoLinkIsLeft` a host that logs in twice at once. `ReportsAreAskedFor` speaks of conversations in
which the user's own messages come before the others (`OwnComesFirst`; none at all is a case of it): with an own message
behind an unread one the property is false, as the last row of the table above shows.

The inductive invariants are proved and not listed in a regular run.

`ReadReceiptsProofs` and `ConversationSyncProofs` state the few library facts they use (on finite sets and on the
order of the numbers) as `Counting` and `Numbers`, which the lemmas take as a hypothesis; `CountingHolds` and
`NumbersHold` prove them from the library at the end of the module, and no theorem keeps the hypothesis.

Only model-checked are the liveness properties `SendingEnds`, `OutboxComesBack`, `PingAnswered`, `UnwantedIsRevoked`,
`AlwaysOfferedAgain`, `ManualAnswered` and `NoticeEnds`: fairness and ENABLED are out of the prover's reach. Every
safety property that a passing run checks has a theorem.

## 5. Not modelled

- The tick that starts anew after every command and the stall probe of the outbox need a model
  with time; the models here let a deadline pass whenever its timer runs, which contains every timing.
- Which access point a round tries (preferred, only, drained): `LinkSupervisor` allows every choice.
- The supervisor and the outbox are not composed; each has the other as its environment. Clearing a history
  that has pending sends changes the outbox's table behind its back and is in neither.
- The sync orchestrator, the catch-up of many conversations and the cold-start bundle: they run the
  page and snapshot steps of `ConversationSync` over many conversations; overlapping runs and checkpoints are left out.
- The event bus: what is published is an output that no modelled decision reads back. Its bounded queues and
  the replay of the last status have not been modelled.
- Delivery receipts, and the limit of 256 conversations of the ack ledger.
- The token broker, prompts and rollouts of updates, ranges and files of a download, latency scores.
- Merging copies of a message, display projections and message mutations: mostly
  conversions between rows, with no step that others can observe in the middle.
- SQL, IndexedDB, codecs, builders, bindings, platform adapters and tools, by far most of the lines of the
  repository: they keep no state that several steps share.

Proofs that would add most: the refinement of a contract by `ReadReceipts`, which would say what the row shows and not only
what it reports, and the interplay of supervisor and outbox once they are composed.
