----------------------------- MODULE AccessHealth -----------------------------
(***************************************************************************)
(* access/src/health (breaker.rs, book.rs): the health book that the link, *)
(* REST requests and probes share, its circuit breakers, and the memory of *)
(* networks that block UDP.  HealthFlush has the way of the book to disk.  *)
(*                                                                         *)
(* The book keeps each access point on each network apart; one access      *)
(* point on one network is followed, while the device moves between that   *)
(* network and others.  Times are what is left of them, in ticks.          *)
(* Round-trip samples, the protocol that won and the streak of probes only *)
(* rank candidates and are left out.                                       *)
(***************************************************************************)
EXTENDS Integers, Sequences, SequencesExt

CONSTANTS
    Threshold,      \* breaker.failureThreshold
    WindowSize,     \* outcomes the window keeps (20 in the code)
    MinSamples,     \* outcomes the ratio rule needs (10 in the code)
    RatioPercent,   \* breaker.failureRatio
    BaseCooldown,   \* breaker.cooldownBaseSec
    MaxCooldown,    \* breaker.cooldownMaxSec
    Lease,          \* TRIAL_LEASE_MS
    StaleAfter,     \* WINDOW_STALE_AFTER_MS
    UdpFailures,    \* UDP_BLOCK_QUIC_FAILURES
    UdpTtl          \* udpBlockedTtlHours

ASSUME HealthAssumption ==
    /\ {Threshold, WindowSize, MinSamples, BaseCooldown, Lease, UdpFailures, UdpTtl} \subseteq Nat \ {0}
    /\ MaxCooldown \in Nat /\ MaxCooldown >= BaseCooldown
    /\ StaleAfter \in Nat /\ RatioPercent \in 0..100

VARIABLES
    health,     \* ApHealth of the access point on the network
    udp,        \* NetHealth.udp of the network
    home,       \* whether the device is on that network
    link,       \* what the link supervisor is doing: an attempt or a connection
    rest,       \* a REST request in flight
    probe       \* a probe in flight

healthVars == <<health, udp, home, link, rest, probe>>

ClosedBreaker == -1
Healthy == [until |-> ClosedBreaker, cooldown |-> 0, claim |-> 0, fails |-> 0,
            window |-> << >>, age |-> 0]
NoLink == [stage |-> "idle", here |-> FALSE, trial |-> FALSE, quic |-> FALSE]
NoRequest == [on |-> FALSE, home |-> FALSE, trial |-> FALSE]

\* load: the breaker as it was stored; no trial is in flight after a start.
Tripped(t, c) ==
    [Healthy EXCEPT !.until = t, !.cooldown = c, !.fails = Threshold,
                    !.window = [i \in 1..(IF Threshold < WindowSize THEN Threshold ELSE WindowSize) |-> TRUE]]
Loaded == {Healthy} \cup UNION {{Tripped(t, c) : t \in 0..c} : c \in {BaseCooldown, MaxCooldown}}

HealthInit ==
    /\ health \in Loaded
    /\ udp = [streak |-> 0, ws |-> FALSE, blocked |-> 0]
    /\ home = TRUE
    /\ link = NoLink /\ rest = NoRequest /\ probe = NoRequest

-----------------------------------------------------------------------------
(* The breaker.                                                            *)

Phase(h) == CASE h.until = ClosedBreaker -> "closed"
              [] h.until > 0             -> "open"
              [] OTHER                   -> "halfOpen"

\* filter_reason and trial_available: what a selection still offers.
Selectable(h) == Phase(h) = "closed" \/ (Phase(h) = "halfOpen" /\ h.claim = 0)

\* Wrong: a claim that only a result releases.
ClaimForGood(h) == IF Phase(h) = "halfOpen" THEN [h EXCEPT !.claim = -1] ELSE h

\* claim_trial, on an access point that is selectable
ClaimTrial(h) == IF Phase(h) = "halfOpen" THEN [h EXCEPT !.claim = Lease] ELSE h

\* A factor between 0.8 and 1.2.
Jittered(c) == {t \in 1..(2 * c) : 4 * c <= 5 * t /\ 5 * t <= 6 * c}

Lower(a, b) == IF a < b THEN a ELSE b
Higher(a, b) == IF a > b THEN a ELSE b

\* OutcomeWindow::push and trips
Push(w, failed) == Append(IF Len(w) < WindowSize THEN w ELSE Tail(w), failed)
Failures(w) == Len(SelectSeq(w, LAMBDA failed : failed))
Trips(h) ==
    \/ h.fails >= Threshold
    \/ Len(h.window) >= MinSamples /\ 100 * Failures(h.window) >= RatioPercent * Len(h.window)

\* A window that had no result for long is forgotten when the next one comes
\* (an empty window has no age).
Unstale(h) == IF h.age > StaleAfter THEN [h EXCEPT !.window = << >>, !.fails = 0, !.age = 0] ELSE h

Opened(h, cooldown) ==
    {[h EXCEPT !.until = t, !.cooldown = cooldown, !.claim = 0] : t \in Jittered(cooldown)}

\* The count of failures is only compared with Threshold, and stops there.
Failed(h) ==
    LET f == [h EXCEPT !.window = Push(@, TRUE), !.fails = Lower(@ + 1, Threshold), !.age = 0]
    IN  CASE Phase(h) = "closed" /\ Trips(f) -> Opened(f, BaseCooldown)
          [] Phase(h) = "halfOpen" -> Opened(f, Lower(2 * Higher(h.cooldown, BaseCooldown), MaxCooldown))
          [] OTHER -> {f}

Succeeded(h) ==
    LET c == IF Phase(h) = "halfOpen" THEN Healthy ELSE h
    IN  [c EXCEPT !.window = Push(@, FALSE), !.fails = 0, !.age = 0]

-----------------------------------------------------------------------------
(* HealthBook::record.  An observation has a kind ("quic", "ws", "http",   *)
(* "probe", "heartbeat", or "silence" for note_quic_silence) and a result. *)

Obs(kind, result) == [kind |-> kind, result |-> result]

RecordedAp(h, o) ==
    LET u == Unstale(h)
        after == CASE o.result = "failure"     -> Failed(u)
                   [] o.result = "neutral"     -> {[u EXCEPT !.claim = 0]}
                   [] o.kind = "heartbeat"     -> {u}
                   [] OTHER                    -> {Succeeded(u)}
    IN  IF o.kind = "silence" THEN {h} ELSE after

RecordedUdp(u, o) ==
    LET s == CASE o = Obs("quic", "failure") \/ o.kind = "silence" -> [u EXCEPT !.streak = @ + 1]
               [] o = Obs("quic", "success") -> [u EXCEPT !.streak = 0, !.ws = FALSE]
               [] o = Obs("ws", "success") -> [u EXCEPT !.ws = @ \/ u.streak > 0]
               [] OTHER -> u
    IN  IF s.streak >= UdpFailures /\ s.ws
        THEN [s EXCEPT !.blocked = UdpTtl, !.streak = 0, !.ws = FALSE]
        ELSE [s EXCEPT !.streak = Lower(@, UdpFailures)]

\* The observations of one answer, recorded one after the other.
Recorded(observations) ==
    LET step(hs, o) == UNION {RecordedAp(h, o) : h \in hs}
    IN  /\ health' \in FoldLeft(step, {health}, observations)
        /\ udp' = FoldLeft(RecordedUdp, udp, observations)

\* AccessRuntime::record: on the network the device is on by now.
Record(observations) == IF home THEN Recorded(observations) ELSE UNCHANGED <<health, udp>>

-----------------------------------------------------------------------------
(* The link supervisor.                                                    *)

\* Another network has its own entry, which may offer the access point.
Offered == home => Selectable(health)
OnTrial == home /\ Phase(health) = "halfOpen"

\* next_attempt: a half-open access point is dialled only with the claim.
Dial ==
    /\ link.stage = "idle" /\ Offered
    /\ health' = IF home THEN ClaimTrial(health) ELSE health
    /\ link' = [stage |-> "dialing", here |-> TRUE, trial |-> OnTrial, quic |-> home => udp.blocked = 0]
    /\ UNCHANGED <<udp, home, rest, probe>>

\* The link connects through another access point, whose health is not followed.
ConnectElsewhere ==
    /\ link.stage = "idle"
    /\ link' = [NoLink EXCEPT !.stage = "live"]
    /\ UNCHANGED <<health, udp, home, rest, probe>>

\* report_records: what the race saw before it had a winner, then the winner.
Races(quic) ==
    {<<Obs("ws", "success")>>} \cup
    (IF quic THEN {<<Obs("quic", "success")>>,
                   <<Obs("ws", "failure"), Obs("quic", "success")>>,
                   <<Obs("ws", "neutral"), Obs("quic", "success")>>,
                   <<Obs("quic", "failure"), Obs("ws", "success")>>,
                   <<Obs("quic", "neutral"), Obs("ws", "success")>>,
                   <<Obs("silence", "none"), Obs("ws", "success")>>} ELSE {})

\* on_connected; the gateway may report another access point than was dialled.
Connected(race, mismatch) ==
    /\ link.stage = "dialing" /\ race \in Races(link.quic)
    /\ Record(IF mismatch THEN Append(race, Obs(Last(race).kind, "failure")) ELSE race)
    /\ link' = [link EXCEPT !.stage = "live", !.quic = FALSE]
    /\ UNCHANGED <<home, rest, probe>>

\* on_attempt_failed: unreachable, or refused for a reason that is not its own
ConnectFailed(result) ==
    /\ link.stage = "dialing" /\ result \in {"failure", "neutral"}
    /\ Record(IF link.quic THEN <<Obs("quic", result), Obs("ws", result)>>
                                ELSE <<Obs("ws", result)>>)
    /\ link' = NoLink
    /\ UNCHANGED <<home, rest, probe>>

\* The attempt is dropped with the operation: a stop, or the network is gone.
DialDropped ==
    /\ link.stage = "dialing"
    /\ link' = NoLink
    /\ UNCHANGED <<health, udp, home, rest, probe>>

\* A heartbeat that was answered, while the connection lives
Heartbeat ==
    /\ link.stage = "live" /\ link.here
    /\ Record(<<Obs("heartbeat", "success")>>)
    /\ UNCHANGED <<home, link, rest, probe>>

\* on_lost: dead, closed as planned, or closed by the client
LinkLost(result) ==
    /\ link.stage = "live"
    /\ IF link.here /\ result # "none"
       THEN Record(<<Obs("heartbeat", result)>>)
       ELSE UNCHANGED <<health, udp>>
    /\ link' = NoLink
    /\ UNCHANGED <<home, rest, probe>>

-----------------------------------------------------------------------------
(* REST requests and probes take no claim.  A request is recorded on the   *)
(* network of its answer, a probe on the network it was sent from.         *)

Request ==
    /\ ~rest.on /\ Offered
    /\ rest' = [on |-> TRUE, home |-> home, trial |-> OnTrial]
    /\ UNCHANGED <<health, udp, home, link, probe>>

RequestEnds(result) ==
    /\ rest.on
    /\ IF result = "none" THEN UNCHANGED <<health, udp>>
                          ELSE Record(<<Obs("http", result)>>)
    /\ rest' = NoRequest
    /\ UNCHANGED <<home, link, probe>>

\* check_failback: the preferred access point is probed from another one.
ProbePreferred ==
    /\ ~probe.on /\ link.stage = "live" /\ ~link.here /\ Offered
    /\ probe' = [on |-> TRUE, home |-> home, trial |-> OnTrial]
    /\ UNCHANGED <<health, udp, home, link, rest>>

ProbeEnds(result) ==
    /\ probe.on
    /\ IF probe.home THEN Recorded(<<Obs("probe", result)>>) ELSE UNCHANGED <<health, udp>>
    /\ probe' = NoRequest
    /\ UNCHANGED <<home, link, rest>>

-----------------------------------------------------------------------------
(* Time and the network.                                                   *)

Elapsed(t) == IF t > 0 THEN t - 1 ELSE t
Aged(h) == [h EXCEPT !.until = Elapsed(@), !.claim = Elapsed(@),
                     !.age = IF h.window = << >> THEN 0 ELSE Lower(@ + 1, StaleAfter + 1)]

Tick ==
    /\ health' = Aged(health)
    /\ udp' = [udp EXCEPT !.blocked = Elapsed(@)]
    /\ UNCHANGED <<home, link, rest, probe>>

SetNetwork ==
    /\ home' = ~home
    /\ UNCHANGED <<health, udp, link, rest, probe>>

-----------------------------------------------------------------------------
Results == {"success", "failure", "neutral"}

HealthNext ==
    \/ Dial \/ ConnectElsewhere \/ DialDropped \/ Heartbeat
    \/ \E race \in Races(TRUE), mismatch \in BOOLEAN : Connected(race, mismatch)
    \/ \E result \in {"failure", "neutral"} : ConnectFailed(result)
    \/ \E result \in {"failure", "neutral", "none"} : LinkLost(result)
    \/ Request \/ ProbePreferred
    \/ \E result \in Results \cup {"none"} : RequestEnds(result)
    \/ \E result \in Results : ProbeEnds(result)
    \/ Tick \/ SetNetwork

HealthSpec == HealthInit /\ [][HealthNext]_healthVars

\* Time passes.
HealthLiveSpec == HealthSpec /\ WF_healthVars(Tick)

-----------------------------------------------------------------------------
(* Properties.                                                             *)

\* The access point is offered on the network again and again, whatever
\* fails, whoever drops a trial without a result, and whatever breaker was
\* loaded: it is never kept out for good.  The lease of claim_trial, and
\* failures while the breaker is open.
AlwaysOfferedAgain == []<>Selectable(health)

\* "HalfOpen --(trial succeeds)--> Closed" (breaker.rs): a trial that connects
\* to the gateway it dialled closes the breaker.
TrialSuccessCloses ==
    [][\A race \in Races(TRUE) :
          home /\ link.trial /\ Phase(health) = "halfOpen" /\ Connected(race, FALSE)
          => Phase(health') = "closed"]_healthVars

\* "Recovery must go through a real trial" (on_success): what closes a breaker
\* was sent while it was half-open.
ClosedByTrial ==
    [][Phase(health) = "halfOpen" /\ Phase(health') = "closed"
       => link.trial \/ rest.trial \/ probe.trial]_healthVars
=============================================================================
