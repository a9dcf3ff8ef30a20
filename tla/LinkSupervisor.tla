-------------------------- MODULE LinkSupervisor --------------------------
(***************************************************************************)
(* The link supervisor: the actor of src/runtime/link/supervisor.rs that   *)
(* decides when and where to connect, and, as environment, the transport,  *)
(* the token source, the access directory and the host.                    *)
(*                                                                         *)
(* The actor handles one wake at a time (a command, a connection signal,   *)
(* the result of its one pending operation, a directory change, a timer),  *)
(* so every handler is one action.  The code compares a connection epoch   *)
(* only with the current one: an epoch is "current" or "stale" here, and   *)
(* advancing it makes everything stale.  Which access point a round tries  *)
(* is left open; only how many are still untried matters.  The maintenance *)
(* deadline only samples the round trip (RoundTrip) and may switch back to *)
(* the preferred access point (Switch).                                    *)
(***************************************************************************)
EXTENDS Naturals

CONSTANTS
    Aps,   \* number of access points in the directory
    Envs   \* what the environment may do: in a behaviour, one of these subsets of Behaviours

\* offline: the host reports network changes; nudge: "reconnect now"; again: start for the
\* session's own user; other: start for another user; early: a connection ends before the
\* supervisor has seen that it was opened.
Behaviours == {"offline", "nudge", "again", "other", "early"}

ASSUME LinkAssumption == Aps \in Nat \ {0} /\ Envs \subseteq SUBSET Behaviours

\* RECOVERING_AFTER_FAILED_ROUNDS; failed rounds are counted up to it.
RecoveringAfter == 2

Phases == {"Idle", "Resolving", "Connecting", "Authenticating", "Syncing", "Ready",
           "Degraded", "Backoff", "Recovering", "Suspended", "Terminated"}
Online  == {"Syncing", "Ready", "Degraded"}
Waiting == {"Backoff", "Recovering"}

Rounds  == [token: BOOLEAN, tried: 0..Aps]
NoRound == [token |-> FALSE, tried |-> Aps + 1]

VARIABLES
    env,              \* what the environment does in this behaviour
    phase,
    session, reply,   \* a session exists; its start call is still unanswered
    renewed,          \* auth_renewed
    live, syncing,    \* the connection in use: "none", "current" or "stale"
    round, op,        \* the connect round, and the one pending operation
    timers,           \* armed deadlines
    byRtt,            \* degraded_by_rtt
    resume,           \* resume_after_probe
    failed,           \* failed_rounds
    net,              \* network_available
    directory,        \* the access kernel: not assembled, without a manifest, usable
    outbox,           \* what the supervisor last told the outbox
    conn, lost,       \* transport: the open connection, end-of-connection signals in transit
    kept              \* history: the outbox's frames went out on the connection in use

session_ == <<session, reply, renewed>>
link     == <<live, syncing>>
attempt  == <<round, op, failed>>
probe    == <<byRtt, resume>>
outboxes == <<outbox, kept>>
transport == <<conn, lost>>
vars == <<env, phase, session_, link, attempt, timers, probe, net, directory, outboxes, transport>>

LinkTypeOK ==
    /\ phase \in Phases
    /\ session \in BOOLEAN /\ reply \in BOOLEAN /\ renewed \in BOOLEAN
    /\ live \in {"none", "current", "stale"} /\ syncing \in BOOLEAN
    /\ round \in Rounds \cup {NoRound}
    /\ op \in {"none", "directory", "token", "renew", "open", "opened", "sync"}
    /\ failed \in 0..RecoveringAfter
    /\ timers \subseteq {"retry", "degraded", "move"}
    /\ byRtt \in BOOLEAN /\ resume \in BOOLEAN /\ net \in BOOLEAN
    /\ directory \in {"loading", "empty", "ready"}
    /\ outbox \in {"paused", "running"} /\ kept \in BOOLEAN
    /\ conn \in {"none", "current", "stale"}
    /\ lost \subseteq {"current", "stale"}

Init ==
    /\ env \in Envs
    /\ phase = "Idle"
    /\ session = FALSE /\ reply = FALSE /\ renewed = FALSE
    /\ live = "none" /\ syncing = FALSE
    /\ round = NoRound /\ op = "none" /\ failed = 0
    /\ timers = {}
    /\ byRtt = FALSE /\ resume = FALSE
    /\ net \in BOOLEAN
    /\ directory = "loading"
    /\ outbox = "paused" /\ kept = FALSE
    /\ conn = "none" /\ lost = {}
-----------------------------------------------------------------------------
\* ConnectionEpoch::advance
Age(e) == IF e = "current" THEN "stale" ELSE e
AgeSignals == lost' = {Age(e) : e \in lost}

\* Dropping the pending operation drops a connection it has opened but not yet handed over.
DropOp == conn' = IF op = "opened" THEN "none" ELSE conn

\* round_exhausted and schedule_retry: the start call succeeds, the next round waits.
RoundExhausted(armed) ==
    /\ failed' = IF failed < RecoveringAfter THEN failed + 1 ELSE failed
    /\ phase' = IF failed + 1 >= RecoveringAfter THEN "Recovering" ELSE "Backoff"
    /\ reply' = FALSE
    /\ round' = NoRound /\ op' = "none"
    /\ timers' = armed \cup {"retry"}

\* continue_round before a token is there: assemble the directory, give up for lack of a
\* manifest, or ask for a token.
ContinueRound(dir, armed, failures, tried, waits) ==
    IF dir = "empty"
    THEN /\ failed' = RecoveringAfter
         /\ phase' = "Recovering"
         /\ reply' = FALSE
         /\ round' = NoRound /\ op' = "none"
         /\ timers' = armed \cup {"retry"}
    ELSE /\ failed' = failures
         /\ phase' = "Resolving"
         /\ reply' = waits
         /\ round' = [token |-> FALSE, tried |-> tried]
         /\ op' = IF dir = "loading" THEN "directory" ELSE "token"
         /\ timers' = armed

\* begin_round.  Its callers say which deadlines, how many failed rounds and which start call
\* it finds.
BeginRound(armed, failures, tried, waits) ==
    ContinueRound(directory, armed \ {"retry"}, failures, tried, waits)

\* Wrong: access points of the round are offered again.
NextAttemptUnbounded(tried) ==
    \/ /\ round' = [token |-> TRUE, tried |-> tried]
       /\ op' = "open"
       /\ phase' = "Connecting"
       /\ live' = Age(live) /\ AgeSignals
       /\ conn' = "none" /\ kept' = FALSE
       /\ UNCHANGED <<reply, failed, timers>>
    \/ /\ RoundExhausted(timers)
       /\ UNCHANGED <<live, conn, lost, kept>>

\* Wrong: the epoch is not advanced.
NextAttemptSameEpoch(tried) ==
    \/ /\ tried < Aps
       /\ round' = [token |-> TRUE, tried |-> tried]
       /\ op' = "open"
       /\ phase' = "Connecting"
       /\ conn' = "none" /\ kept' = FALSE
       /\ UNCHANGED <<reply, live, lost, failed, timers>>
    \/ /\ RoundExhausted(timers)
       /\ UNCHANGED <<live, conn, lost, kept>>

\* next_attempt: try one more access point, or give the round up because the selector offers
\* none (all tried, breaker open, half-open trial taken).  transport.open closes the old
\* connection first.
NextAttempt(tried) ==
    \/ /\ tried < Aps
       /\ round' = [token |-> TRUE, tried |-> tried]
       /\ op' = "open"
       /\ phase' = "Connecting"
       /\ live' = Age(live) /\ AgeSignals
       /\ conn' = "none" /\ kept' = FALSE
       /\ UNCHANGED <<reply, failed, timers>>
    \/ /\ RoundExhausted(timers)
       /\ UNCHANGED <<live, conn, lost, kept>>

\* What stop_session and terminate have in common: the connection is closed and disowned.
CloseLink ==
    /\ live' = "none" /\ syncing' = FALSE
    /\ conn' = "none" /\ AgeSignals /\ kept' = FALSE

\* Wrong: the next round stays scheduled.
TerminateKeepsRetry ==
    /\ CloseLink
    /\ round' = NoRound /\ op' = "none"
    /\ timers' = timers \cup {"retry"}
    /\ outbox' = "paused"
    /\ reply' = FALSE
    /\ phase' = "Terminated"
    /\ UNCHANGED <<env, session, renewed, failed, probe, net, directory>>

\* terminate
Terminate ==
    /\ CloseLink
    /\ round' = NoRound /\ op' = "none"
    /\ timers' = {}
    /\ outbox' = "paused"
    /\ reply' = FALSE
    /\ phase' = "Terminated"
    /\ UNCHANGED <<env, session, renewed, failed, probe, net, directory>>

\* switch_away: disown the connection, then a round; it is closed when the next one is opened.
SwitchAway(online) ==
    /\ net' = online
    /\ live' = "none" /\ syncing' = FALSE
    /\ AgeSignals
    /\ conn' = IF op = "opened" THEN "none" ELSE Age(conn)
    /\ outbox' = "paused"
    /\ resume' = FALSE
    /\ BeginRound(timers \ {"degraded", "move"}, failed, 0, reply)
    /\ UNCHANGED <<env, session, renewed, byRtt, directory, kept>>
-----------------------------------------------------------------------------
\* Commands.

\* A new session: begins a round, or waits for the network (the start call succeeds).
NewSession ==
    /\ session' = TRUE /\ renewed' = FALSE
    /\ IF net
       THEN BeginRound({}, 0, 0, TRUE)
       ELSE /\ failed' = 0 /\ phase' = "Suspended" /\ reply' = FALSE
            /\ round' = NoRound /\ op' = "none" /\ timers' = {}
    /\ UNCHANGED <<env, probe, net, directory>>

\* on_start for the user of the session, which is not online (online it only answers): the
\* earlier start call fails, this one waits for the round; a waiting link retries at once.
StartAgain ==
    /\ "again" \in env
    /\ session /\ phase \notin Online \cup {"Terminated"}
    /\ IF phase \in Waiting \cup {"Idle"}
       THEN BeginRound(timers, 0, 0, TRUE) /\ DropOp
       ELSE /\ reply' = TRUE
            /\ UNCHANGED <<phase, round, op, failed, timers, conn>>
    /\ UNCHANGED <<env, session, renewed, link, probe, net, directory, outboxes, lost>>

\* on_start without a session, after termination, or for another user: what is left of the
\* old session is stopped first, and the outbox is not told.
StartFresh ==
    /\ ~session \/ phase = "Terminated" \/ "other" \in env
    /\ IF session THEN CloseLink ELSE UNCHANGED <<link, transport, kept>>
    /\ NewSession
    /\ UNCHANGED <<env, outbox>>

\* Stop: stop_session, and engine.rs disconnect then shuts the outbox down.
Stop ==
    /\ session
    /\ CloseLink
    /\ session' = FALSE /\ reply' = FALSE
    /\ round' = NoRound /\ op' = "none"
    /\ timers' = {}
    /\ phase' = "Idle"
    /\ outbox' = "paused"
    /\ UNCHANGED <<env, renewed, failed, probe, net, directory>>

\* ReconnectNow
Nudge ==
    /\ "nudge" \in env
    /\ session /\ phase \in Waiting \cup {"Suspended"}
    /\ BeginRound(timers, 0, 0, reply)
    /\ DropOp
    /\ UNCHANGED <<env, session, renewed, link, probe, net, directory, outboxes, lost>>

\* on_network(available = false): a live connection stays, to be probed later.
NetworkDown ==
    /\ "offline" \in env
    /\ net' = FALSE
    /\ IF session /\ phase # "Terminated"
       THEN /\ round' = NoRound
            /\ timers' = timers \ {"retry"}
            /\ IF live = "none" THEN op' = "none" /\ DropOp ELSE UNCHANGED <<op, conn>>
            /\ outbox' = "paused"
            /\ phase' = "Suspended"
       ELSE UNCHANGED <<round, timers, op, conn, outbox, phase>>
    /\ UNCHANGED <<env, session_, link, failed, probe, directory, kept, lost>>

\* Wrong: the outbox is not remembered.
NetworkUpForgetsOutbox ==
    /\ "offline" \in env
    /\ session /\ phase # "Terminated" /\ live # "none"
    /\ net' = TRUE
    /\ timers' = timers \cup {"degraded"}
    /\ byRtt' = FALSE
    /\ phase' = IF syncing THEN phase ELSE "Degraded"
    /\ UNCHANGED <<env, session_, link, attempt, resume, directory, outboxes, transport>>

\* on_network(available = true), the connection in use is kept and probed.
NetworkUpProbes ==
    /\ "offline" \in env
    /\ session /\ phase # "Terminated" /\ live # "none"
    /\ net' = TRUE
    /\ timers' = timers \cup {"degraded"}
    /\ byRtt' = FALSE
    /\ resume' = (resume \/ phase = "Suspended")
    /\ phase' = IF syncing THEN phase ELSE "Degraded"
    /\ UNCHANGED <<env, session_, link, attempt, directory, outboxes, transport>>

\* on_network(available = true), the access point is unhealthy on the new network.
NetworkUpSwitches ==
    /\ "offline" \in env
    /\ session /\ phase # "Terminated" /\ live # "none"
    /\ SwitchAway(TRUE)

\* on_network(available = true) without a connection.
NetworkUpConnects ==
    /\ "offline" \in env
    /\ live = "none" \/ ~session \/ phase = "Terminated"
    /\ net' = TRUE
    /\ IF session /\ phase \in Waiting \cup {"Suspended"}
       THEN BeginRound(timers, 0, 0, reply) /\ DropOp
       ELSE UNCHANGED <<phase, reply, round, op, failed, timers, conn>>
    /\ UNCHANGED <<env, session, renewed, link, probe, directory, outboxes, lost>>

\* on_app_state, coming to the foreground: a waiting link retries at once.
Foreground ==
    /\ session /\ net /\ phase \in Waiting
    /\ BeginRound(timers, failed, 0, reply)
    /\ DropOp
    /\ UNCHANGED <<env, session, renewed, link, probe, net, directory, outboxes, lost>>

\* on_repin and on_directory_changed (the access point in use was removed), in any phase, and
\* check_failback, in Ready: leave the connection in use.
Switch ==
    /\ live # "none"
    /\ SwitchAway(net)
-----------------------------------------------------------------------------
\* Results of the pending operation.

\* Directory(Ok): the kernel is assembled, with or without a usable manifest.
DirectoryLoads ==
    /\ op = "directory"
    /\ \E d \in {"empty", "ready"} :
          /\ directory' = d
          /\ ContinueRound(d, timers, failed, round.tried, reply)
    /\ UNCHANGED <<env, session, renewed, link, probe, net, outboxes, transport>>

\* Wrong: the session outlives the failure.
DirectoryFailsKeepsRound ==
    /\ op = "directory"
    /\ op' = "none"
    /\ session' = FALSE /\ reply' = FALSE
    /\ phase' = "Idle"
    /\ UNCHANGED <<env, renewed, link, round, failed, timers, probe, net, directory, outboxes,
                   transport>>

\* Directory(Err): the access configuration is unusable.
DirectoryFails ==
    /\ op = "directory"
    /\ op' = "none" /\ round' = NoRound
    /\ session' = FALSE /\ reply' = FALSE
    /\ phase' = "Idle"
    /\ UNCHANGED <<env, renewed, link, failed, timers, probe, net, directory, outboxes, transport>>

\* Token(Ready) and Renewed(Some): the round goes on with a token, if there still is a round.
TokenArrives ==
    /\ op \in {"token", "renew"}
    /\ IF round = NoRound
       THEN /\ op' = "none"
            /\ UNCHANGED <<phase, reply, live, round, failed, timers, kept, transport>>
       ELSE NextAttempt(IF op = "renew" THEN 0 ELSE round.tried)
    /\ UNCHANGED <<env, session, renewed, syncing, probe, net, directory, outbox>>

\* Wrong: a round without a token ends without scheduling the next one.
TokenUnreachableForgets ==
    /\ op = "token"
    /\ op' = "none" /\ round' = NoRound /\ reply' = FALSE
    /\ phase' = "Backoff"
    /\ UNCHANGED <<env, session, renewed, link, failed, timers, probe, net, directory, outboxes,
                   transport>>

\* Token(Unreachable)
TokenUnreachable ==
    /\ op = "token"
    /\ RoundExhausted(timers)
    /\ UNCHANGED <<env, session, renewed, link, probe, net, directory, outboxes, transport>>

\* Token(Unavailable) and Renewed(None)
TokenRefused ==
    /\ op \in {"token", "renew"}
    /\ Terminate

\* Wrong: the outbox is resumed although the device is offline.
ConnectedResumes ==
    /\ op = "opened"
    /\ live' = "current" /\ syncing' = TRUE
    /\ round' = NoRound /\ op' = "sync"
    /\ timers' = timers \ {"retry"}
    /\ phase' = "Syncing"
    /\ reply' = FALSE
    /\ outbox' = "running" /\ kept' = TRUE
    /\ UNCHANGED <<env, session, renewed, failed, probe, net, directory, transport>>

\* Wrong: the start call is not answered.
ConnectedUnanswered ==
    /\ op = "opened"
    /\ live' = "current" /\ syncing' = TRUE
    /\ round' = NoRound /\ op' = "sync"
    /\ timers' = timers \ {"retry"}
    /\ phase' = "Syncing"
    /\ IF net
       THEN outbox' = "running" /\ kept' = TRUE /\ UNCHANGED resume
       ELSE resume' = TRUE /\ UNCHANGED outboxes
    /\ UNCHANGED <<env, session, reply, renewed, failed, byRtt, net, directory, transport>>

\* Opened(Ok), on_connected.  Offline, the outbox waits for the network and a probe.
Connected ==
    /\ op = "opened"
    /\ live' = "current" /\ syncing' = TRUE
    /\ round' = NoRound /\ op' = "sync"
    /\ timers' = timers \ {"retry"}
    /\ phase' = "Syncing"
    /\ reply' = FALSE
    /\ IF net
       THEN outbox' = "running" /\ kept' = TRUE /\ UNCHANGED resume
       ELSE resume' = TRUE /\ UNCHANGED outboxes
    /\ UNCHANGED <<env, session, renewed, failed, byRtt, net, directory, transport>>

\* Synced, on_ready
Synced ==
    /\ op = "sync"
    /\ op' = "none"
    /\ syncing' = FALSE
    /\ renewed' = FALSE /\ failed' = 0
    /\ phase' = IF ~net THEN "Suspended" ELSE IF "degraded" \in timers THEN "Degraded" ELSE "Ready"
    /\ UNCHANGED <<env, session, reply, live, round, timers, probe, net, directory, outboxes,
                   transport>>

\* on_attempt_failed, OVERLOADED: wait on the same access point; the start call succeeds.
Overloaded ==
    /\ op = "open"
    /\ op' = "none" /\ round' = NoRound
    /\ reply' = FALSE
    /\ timers' = timers \cup {"retry"}
    /\ phase' = "Backoff"
    /\ UNCHANGED <<env, session, renewed, link, failed, probe, net, directory, outboxes, transport>>

\* on_attempt_failed, the token was rejected: renew it once until the link is ready again.
AuthRejected ==
    /\ op = "open"
    /\ \/ /\ ~renewed /\ round # NoRound
          /\ renewed' = TRUE
          /\ phase' = "Authenticating" /\ op' = "renew"
          /\ UNCHANGED <<env, session, reply, link, round, failed, timers, probe, net, directory,
                         outboxes, transport>>
       \/ (renewed \/ round = NoRound) /\ Terminate

\* on_attempt_failed, UPGRADE_REQUIRED or the tenant is unavailable.
Rejected == op = "open" /\ Terminate

\* on_attempt_failed, unreachable: the next access point.
AttemptFailed ==
    /\ op = "open"
    /\ IF round = NoRound
       THEN /\ op' = "none"
            /\ UNCHANGED <<phase, reply, live, round, failed, timers, kept, transport>>
       ELSE NextAttempt(round.tried + 1)
    /\ UNCHANGED <<env, session, renewed, syncing, probe, net, directory, outbox>>
-----------------------------------------------------------------------------
\* Signals of the connection.

\* on_lost of a connection that is not, or not yet, the one in use.
LostDropped(e) ==
    /\ e \in lost
    /\ e # "current" \/ live # "current"
    /\ lost' = lost \ {e}
    /\ UNCHANGED <<env, phase, session_, link, attempt, timers, probe, net, directory, outboxes,
                   conn>>

\* Wrong: the epoch of the signal is not compared.
LoseLinkAnyEpoch(e) ==
    /\ e \in lost /\ live = "current"
    /\ lost' = lost \ {e}
    /\ live' = "none" /\ syncing' = FALSE
    /\ resume' = FALSE
    /\ outbox' = "paused" /\ kept' = FALSE
    /\ UNCHANGED <<env, session, renewed, byRtt, net, directory, conn>>

\* on_lost of the connection in use, up to the decision what to do next.
LoseLink(e) ==
    /\ e \in lost /\ e = "current" /\ live = "current"
    /\ lost' = lost \ {e}
    /\ live' = "none" /\ syncing' = FALSE
    /\ resume' = FALSE
    /\ outbox' = "paused" /\ kept' = FALSE
    /\ UNCHANGED <<env, session, renewed, byRtt, net, directory, conn>>

\* The deadlines that on_lost leaves armed.
Left == timers \cap {"retry"}

\* Without a network the link waits for it.
LostOffline(e) ==
    /\ ~net
    /\ LoseLink(e)
    /\ op' = "none" /\ timers' = Left
    /\ phase' = "Suspended"
    /\ UNCHANGED <<env, reply, round, failed>>

\* decide(LinkLost(Failed)), or a planned close without a window: connect at once; the access
\* point that failed counts as tried.
LostFailed(e) ==
    /\ net
    /\ LoseLink(e)
    /\ BeginRound(Left, failed, 1, reply)

\* decide(LinkLost(Planned with a window)): connect at a random moment of the window.
LostDraining(e) ==
    /\ net
    /\ LoseLink(e)
    /\ op' = "none" /\ timers' = Left \cup {"retry"}
    /\ phase' = "Resolving"
    /\ UNCHANGED <<env, reply, round, failed>>

\* decide(LinkLost(Kicked)), the session goes on: schedule_retry.
LostKicked(e) ==
    /\ net
    /\ LoseLink(e)
    /\ op' = "none" /\ timers' = Left \cup {"retry"}
    /\ phase' = IF failed >= RecoveringAfter THEN "Recovering" ELSE "Backoff"
    /\ UNCHANGED <<env, reply, round, failed>>

\* decide(LinkLost(SessionEnded)): terminate.
LostForGood(e) ==
    /\ net
    /\ e \in lost /\ e = "current" /\ live = "current"
    /\ live' = "none" /\ syncing' = FALSE
    /\ conn' = "none" /\ kept' = FALSE
    /\ lost' = {Age(x) : x \in lost \ {e}}
    /\ round' = NoRound /\ op' = "none" /\ timers' = {}
    /\ resume' = FALSE /\ outbox' = "paused" /\ reply' = FALSE
    /\ phase' = "Terminated"
    /\ UNCHANGED <<env, session, renewed, failed, byRtt, net, directory>>

Lost(e) ==
    \/ LostDropped(e) \/ LostOffline(e) \/ LostFailed(e)
    \/ LostDraining(e) \/ LostKicked(e) \/ LostForGood(e)

\* on_round_trip: a slow link is degraded until it is fast again.
RoundTrip ==
    /\ live # "none"
    /\ \/ phase = "Ready" /\ phase' = "Degraded" /\ byRtt' = TRUE
       \/ /\ phase = "Degraded" /\ byRtt /\ "degraded" \notin timers
          /\ phase' = "Ready" /\ byRtt' = FALSE
    /\ UNCHANGED <<env, session_, link, attempt, timers, resume, net, directory, outboxes,
                   transport>>
-----------------------------------------------------------------------------
\* on_timer, one action per deadline; deadlines that are due together are consecutive steps.

\* The probe window has passed without an end of the connection.
ProbePasses ==
    /\ "degraded" \in timers
    /\ timers' = timers \ {"degraded"}
    /\ IF resume /\ net
       THEN resume' = FALSE /\ outbox' = "running"
       ELSE UNCHANGED <<resume, outbox>>
    /\ phase' = IF phase = "Degraded" /\ ~byRtt THEN "Ready" ELSE phase
    /\ UNCHANGED <<env, session_, link, attempt, byRtt, net, directory, kept, transport>>

RetryDue ==
    /\ "retry" \in timers
    /\ IF net /\ session
       THEN BeginRound(timers, failed, 0, reply) /\ DropOp
       ELSE /\ timers' = timers \ {"retry"}
            /\ UNCHANGED <<phase, reply, round, op, failed, conn>>
    /\ UNCHANGED <<env, session, renewed, link, probe, net, directory, outboxes, lost>>

\* move_off_manifest_change found another access point, or stays.
MoveDue ==
    /\ "move" \in timers
    /\ \/ live # "none" /\ SwitchAway(net)
       \/ /\ timers' = timers \ {"move"}
          /\ UNCHANGED <<env, phase, session_, link, attempt, probe, net, directory, outboxes,
                         transport>>

\* on_directory_changed: a first usable manifest, or a new one.  The access point in use may
\* have to be left at once (removed) or in a window (draining).
DirectoryChanges ==
    /\ directory # "loading"
    /\ session /\ phase # "Terminated"
    /\ directory' = "ready"
    /\ \/ /\ live # "none"
          /\ timers' = timers \cup {"move"}
          /\ UNCHANGED <<phase, reply, round, op, failed, conn>>
       \/ /\ live = "none"
          /\ IF net /\ phase \in Waiting
             THEN /\ ContinueRound("ready", timers \ {"retry"}, failed, 0, reply)
                  /\ DropOp
             ELSE UNCHANGED <<phase, reply, round, op, failed, timers, conn>>
    /\ UNCHANGED <<env, session, renewed, link, probe, net, outboxes, lost>>
-----------------------------------------------------------------------------
\* The transport.

\* The handshake is through: the connection is up before the supervisor hears of it.
Handshake ==
    /\ op = "open"
    /\ op' = "opened" /\ conn' = "current"
    /\ UNCHANGED <<env, phase, session_, link, round, failed, timers, probe, net, directory,
                   outboxes, lost>>

\* A connection ends.  Its listener reports that once, if its epoch is still current.
ConnectionEnds ==
    /\ conn # "none"
    /\ op = "opened" => "early" \in env
    /\ conn' = "none"
    /\ lost' = IF conn = "current" THEN lost \cup {"current"} ELSE lost
    /\ UNCHANGED <<env, phase, session_, link, attempt, timers, probe, net, directory, outboxes>>

Commands == StartAgain \/ StartFresh \/ Stop \/ Nudge \/ NetworkDown \/ NetworkUpProbes
            \/ NetworkUpSwitches \/ NetworkUpConnects \/ Foreground \/ Switch
Results  == DirectoryLoads \/ DirectoryFails \/ TokenArrives \/ TokenUnreachable \/ TokenRefused
            \/ Connected \/ Synced \/ Overloaded \/ AuthRejected \/ Rejected \/ AttemptFailed
Signals  == (\E e \in {"current", "stale"} : Lost(e)) \/ RoundTrip
Timers   == ProbePasses \/ RetryDue \/ MoveDue
Next == Commands \/ Results \/ Signals \/ Timers \/ DirectoryChanges \/ Handshake \/ ConnectionEnds

Spec == Init /\ [][Next]_vars
-----------------------------------------------------------------------------
\* Properties.

\* The supervisor never waits for nothing: while the device has a network and the session is
\* not terminated there is a connection, a pending operation, or a scheduled round, whatever
\* command, signal, result and deadline came in which order.
NeverStuck ==
    session /\ net /\ phase # "Terminated" =>
        live # "none" \/ op # "none" \/ "retry" \in timers

\* After stop_session, or after the access configuration turned out to be unusable, nothing of
\* the old session is left that could bring a connection back.
QuietWithoutSession ==
    ~session => live = "none" /\ op = "none" /\ round = NoRound /\ timers = {} /\ phase = "Idle"

\* What NeverStuck rests on: which operation can be pending in which state.
OpsMatch ==
    /\ op = "directory" => directory = "loading"
    /\ directory = "loading" => live = "none" /\ op \in {"none", "directory"} /\ timers = {}
    /\ op = "sync" => live # "none"
    /\ op # "none" => "retry" \notin timers
    /\ op \in {"directory", "token", "renew", "open", "opened"} /\ round = NoRound => live # "none"

\* The inductive form of NeverStuck.  A link that waits offline is woken by the network; in any
\* other phase something is under way.
Driven ==
    /\ session /\ phase # "Terminated" /\ (phase \in Waiting \cup {"Suspended"} => net) =>
          live # "none" \/ op # "none" \/ "retry" \in timers
    /\ "retry" \in timers /\ ~net /\ live = "none" => phase \in Waiting \cup {"Suspended"}
    /\ session => phase # "Idle"

\* A terminated link has no connection, no operation, no deadline and no unanswered start.
TerminatedIsQuiet ==
    phase = "Terminated" => live = "none" /\ op = "none" /\ timers = {} /\ ~reply

\* A connection whose end has been reported is not open, and none is while the next is opened.
EndedIsGone ==
    /\ "current" \in lost => conn # "current"
    /\ op = "open" => conn # "current" /\ "current" \notin lost

LinkInv ==
    /\ LinkTypeOK
    /\ EndedIsGone
    /\ QuietWithoutSession
    /\ TerminatedIsQuiet
    /\ OpsMatch
    /\ Driven

\* "Only a user action leaves Terminated": no late result, signal, deadline, network change,
\* foreground change or directory change does.
TerminatedStays ==
    [][phase = "Terminated" /\ phase' # "Terminated" => StartFresh \/ Stop]_vars

\* A late end of an old connection does not take down the new one: a connection that is up and
\* in use stays in use until the supervisor itself closes or disowns it.
LateLossIgnored ==
    [][live = "current" /\ conn = "current" /\ conn' = "current" => live' = "current"]_vars

\* The outbox runs only over a connection and with a network (resume_outbox, link_up(Resumed)
\* and link_down in the order of the events).
OutboxNeedsLink == session /\ outbox = "running" => net /\ live # "none"

\* OutboxNeedsLink in every environment in which the session's user does not change: StartFresh
\* for another user leaves the outbox running until the new link is up.
OutboxNeedsLinkOfUser == "other" \notin env => OutboxNeedsLink

\* A link that reports Ready has its outbox running: what was paused while the network was away
\* is resumed at the latest when the probe passes.
ReadyIsSending == phase = "Ready" => outbox = "running"

\* ReadyIsSending as long as nobody asks for a reconnect while the device is offline.
ReadyIsSendingUnlessNudged == "nudge" \notin env => ReadyIsSending

\* The connection the supervisor takes for the one in use is open, or its end is on the way.
LiveIsOpen == live = "current" => conn = "current" \/ "current" \in lost

\* LiveIsOpen as long as no connection ends before the supervisor has seen it open.
LiveIsOpenUnlessEarly == "early" \notin env => LiveIsOpen

\* A running outbox has sent what is in flight over the connection in use: on a new connection
\* resume_outbox sends it again, and link_up(Resumed) is for a connection that was never cut.
FramesOnLink == outbox = "running" /\ live # "none" => kept

\* LinkHandle::start is answered by the time the link is online.
OnlineIsAnswered == phase \in Online => ~reply

\* OnlineIsAnswered for the start that opened the session; a second one for the same user is
\* attached to the link as it stands.
OnlineIsAnsweredOnce == "again" \notin env => OnlineIsAnswered

\* LinkHandle::start is answered when the link waits for a network.
SuspendedIsAnswered == phase = "Suspended" => ~reply
-----------------------------------------------------------------------------
\* Liveness.  Every pending operation completes (handshakes, token requests and the sync wait
\* have time limits), deadlines fire and signals are read.  Of the outside world it is assumed
\* that directory, token source and access points, asked again and again, answer at last.
LiveSpec ==
    /\ Spec
    /\ WF_vars(Results \/ Handshake)
    /\ WF_vars(RetryDue) /\ WF_vars(ProbePasses)
    /\ WF_vars(\E e \in {"current", "stale"} : Lost(e))
    /\ WF_vars(DirectoryChanges)
    /\ SF_vars(DirectoryLoads /\ directory' = "ready")
    /\ SF_vars(TokenArrives /\ op' = "open")
    /\ SF_vars(Handshake)

\* When session and network stay, the outbox is running again and again, unless the link is
\* terminated: no interleaving of losses, switches, probes and retries silences it for good.  A
\* host that starts for other users or asks for a reconnect over and over can keep it silent.
OutboxComesBack ==
    env \cap {"nudge", "other"} = {} /\ <>[](session /\ net) =>
        []<>(outbox = "running" \/ phase = "Terminated")
=============================================================================
