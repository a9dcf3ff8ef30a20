-------------------------- MODULE RefreshSchedule --------------------------
(***************************************************************************)
(* The refresh of the access manifest: the task that decides when a round  *)
(* runs and in which mode (Worker and RefreshSchedule of the refresher),   *)
(* and the control of a round over the bootstrap sources                   *)
(* (BootstrapFetcher).                                                     *)
(*                                                                         *)
(* A moment of the schedule is the flag "has come"; actions of their own   *)
(* let it come.  A manifest is its serial; a source answers with a newer   *)
(* manifest, with the one in use (or 304), or with nothing that counts.    *)
(* How a manifest is accepted is the subject of ManifestStore.             *)
(***************************************************************************)
EXTENDS Integers

CONSTANTS
  Newest,         \* bound: the serials published or announced
  NoticeRetries,  \* NOTIFIED_MAX_RETRIES
  SourceCount,    \* the candidates of a round
  MaxWaiters      \* bound: the manual refreshes that wait at a time

ASSUME RefreshAssumption ==
  /\ Newest \in Nat \ {0} /\ NoticeRetries \in Nat
  /\ SourceCount \in Nat /\ MaxWaiters \in Nat

VARIABLES
  directory,   \* the serial in use
  background,  \* the moment of the periodic refresh has come
  notified,    \* the announced serial that is waited for, 0 none
  recovering,  \* the loop that runs while no access point can be reached
  running,     \* the round in progress
  waiters,     \* the manual refreshes waiting for a report
  manual       \* manual_pending

refreshVars == <<directory, background, notified, recovering, running, waiters, manual>>

NoNotice == [serial |-> 0, due |-> FALSE, retries |-> 0]
NoLoop == [on |-> FALSE, due |-> FALSE, suspended |-> FALSE]
NoRound == [mode |-> "none", target |-> 0, stage |-> "none", left |-> 0,
            answered |-> FALSE, adopted |-> FALSE]
Begun(mode, target) == [NoRound EXCEPT !.mode = mode, !.target = target, !.stage = "new"]

RefreshInit ==
  /\ directory \in 0 .. Newest
  /\ background = FALSE
  /\ notified = NoNotice
  /\ recovering = NoLoop
  /\ running = NoRound
  /\ waiters = 0
  /\ manual = FALSE

-----------------------------------------------------------------------------
(* The worker                                                               *)

\* due: the recovery loop hides the other two
Due(b, n, r) ==
  IF r.on THEN IF r.due /\ ~r.suspended THEN Begun("recovering", 0) ELSE NoRound
  ELSE IF n.serial # 0 /\ n.due THEN Begun("notified", n.serial)
  ELSE IF b THEN Begun("background", 0)
  ELSE NoRound

\* The top of the loop, which every event of the worker leads back to: without a
\* round in progress, start_due starts the one that is wanted
Loop(b, n, r, round, m) ==
  /\ background' = b
  /\ notified' = n
  /\ recovering' = r
  /\ IF round # NoRound
       THEN running' = round /\ manual' = m
       ELSE /\ manual' = FALSE
            /\ running' = IF m THEN Begun(IF r.on THEN "recovering" ELSE "background", 0)
                          ELSE Due(b, n, r)

\* Wrong: a manual refresh waits for the next round the schedule starts
ManualWaits ==
  /\ waiters < MaxWaiters
  /\ waiters' = waiters + 1
  /\ Loop(background, notified, recovering, running, manual)
  /\ UNCHANGED directory

\* RefreshCommand::Manual: a round in progress answers it as well
Manual ==
  /\ waiters < MaxWaiters
  /\ waiters' = waiters + 1
  /\ Loop(background, notified, recovering, running, manual \/ running = NoRound)
  /\ UNCHANGED directory

\* notify: a notice joins the one that is waited for
Merged(serial, due) ==
  IF notified.serial = 0 THEN [serial |-> serial, due |-> due, retries |-> 0]
  ELSE [serial |-> IF serial > notified.serial THEN serial ELSE notified.serial,
        due |-> notified.due \/ due,
        retries |-> IF serial > notified.serial THEN 0 ELSE notified.retries]

\* RefreshCommand::Notified, of a notification (at once) or a CONNECT_ACK (later)
Notified(serial, due) ==
  /\ serial > directory
  /\ Loop(background, Merged(serial, due), recovering, running, manual)
  /\ UNCHANGED <<directory, waiters>>

\* RefreshCommand::Recovering(true): a loop that is on keeps its moment
EnterRecovering ==
  /\ ~recovering.on
  /\ Loop(background, notified, [on |-> TRUE, due |-> TRUE, suspended |-> FALSE], running, manual)
  /\ UNCHANGED <<directory, waiters>>

\* RefreshCommand::Recovering(false)
LeaveRecovering ==
  /\ recovering.on
  /\ Loop(background, notified, NoLoop, running, manual)
  /\ UNCHANGED <<directory, waiters>>

\* RefreshCommand::Suspend: the device has no network
Suspend ==
  /\ recovering.on
  /\ Loop(background, notified, [recovering EXCEPT !.suspended = TRUE], running, manual)
  /\ UNCHANGED <<directory, waiters>>

\* RefreshCommand::Wake
Wake ==
  /\ recovering.on
  /\ Loop(background, notified, [recovering EXCEPT !.suspended = FALSE, !.due = TRUE],
          running, manual)
  /\ UNCHANGED <<directory, waiters>>

\* import_recovery: a recovery manifest is adopted, and the worker told to fetch
\* the full one soon
ImportRecovery(serial) ==
  /\ serial > directory
  /\ directory' = serial
  /\ Loop(TRUE, notified, recovering, running, manual)
  /\ UNCHANGED waiters

\* The moments of the schedule come
BackgroundTime ==
  /\ ~background
  /\ Loop(TRUE, notified, recovering, running, manual)
  /\ UNCHANGED <<directory, waiters>>

NoticeTime ==
  /\ notified.serial # 0 /\ ~notified.due
  /\ Loop(background, [notified EXCEPT !.due = TRUE], recovering, running, manual)
  /\ UNCHANGED <<directory, waiters>>

RecoveringTime ==
  /\ recovering.on /\ ~recovering.due
  /\ Loop(background, notified, [recovering EXCEPT !.due = TRUE], running, manual)
  /\ UNCHANGED <<directory, waiters>>

-----------------------------------------------------------------------------
(* The round                                                                *)

\* reached_target
Reached == running.mode = "notified" /\ directory >= running.target

\* refresh: a notice that has been overtaken needs no source
OpenSources ==
  /\ running.stage = "new"
  /\ running' = IF Reached THEN [running EXCEPT !.stage = "skipped"]
                ELSE [running EXCEPT !.stage = "sources", !.left = SourceCount]
  /\ UNCHANGED <<directory, background, notified, recovering, waiters, manual>>

\* One answer less to come.  The pointers found in DNS are asked when a recovery
\* round had no answer from any source.
Ingested(round, over) ==
  IF over THEN [round EXCEPT !.stage = "over", !.left = 0]
  ELSE IF round.left > 1 THEN [round EXCEPT !.left = @ - 1]
  ELSE IF round.stage = "sources" /\ round.mode = "recovering" /\ ~round.answered
    THEN [round EXCEPT !.stage = "pointers", !.left = SourceCount]
  ELSE [round EXCEPT !.stage = "over", !.left = 0]

Asking == running.stage \in {"sources", "pointers"}

\* ingest_document: a newer manifest ends the round, unless a still newer one was
\* announced
SourceAdopted(serial) ==
  /\ Asking /\ running.left > 0
  /\ serial > directory
  /\ directory' = serial
  /\ running' = Ingested([running EXCEPT !.answered = TRUE, !.adopted = TRUE],
                         ~(running.mode = "notified" /\ serial < running.target))
  /\ UNCHANGED <<background, notified, recovering, waiters, manual>>

\* after_no_update: the manifest in use is confirmed, which ends a periodic round
SourceConfirmed ==
  /\ Asking /\ running.left > 0
  /\ running' = Ingested([running EXCEPT !.answered = TRUE], running.mode = "background")
  /\ UNCHANGED <<directory, background, notified, recovering, waiters, manual>>

\* No answer, one that cannot be verified, or an older manifest; no pointer found
SourceFailed ==
  /\ Asking
  /\ running' = Ingested(running, FALSE)
  /\ UNCHANGED <<directory, background, notified, recovering, waiters, manual>>

\* conclude: a notified round that falls short is to be tried again
Retry == running.stage = "over" /\ running.mode = "notified" /\ ~Reached
RoundFailed == running.stage = "over" /\ ~running.adopted /\ ~running.answered

\* Wrong: a notice is retried for as long as its serial has not been seen
NoticeForever ==
  IF running.mode = "notified" /\ Retry THEN [notified EXCEPT !.due = FALSE] ELSE notified

\* finished, the part about the notice: retried a few times, given up otherwise
NoticeAfter ==
  LET kept == IF running.mode # "notified" THEN notified
              ELSE IF Retry /\ notified.serial # 0 /\ notified.retries < NoticeRetries
                THEN [notified EXCEPT !.due = FALSE, !.retries = @ + 1]
              ELSE NoNotice
  IN IF directory >= kept.serial THEN NoNotice ELSE kept

\* on_report: the next moments are set, every waiter gets the report
Report ==
  /\ running.stage \in {"over", "skipped"}
  /\ waiters' = 0
  /\ Loop(background /\ RoundFailed /\ running.mode # "background",
          NoticeAfter,
          IF running.mode = "recovering" THEN [recovering EXCEPT !.due = FALSE] ELSE recovering,
          NoRound, manual)
  /\ UNCHANGED directory

RefreshNext ==
  \/ Manual
  \/ \E serial \in 1 .. Newest :
       \/ \E due \in BOOLEAN : Notified(serial, due)
       \/ ImportRecovery(serial) \/ SourceAdopted(serial)
  \/ EnterRecovering \/ LeaveRecovering \/ Suspend \/ Wake
  \/ BackgroundTime \/ NoticeTime \/ RecoveringTime
  \/ OpenSources \/ SourceConfirmed \/ SourceFailed \/ Report

RefreshSpec == RefreshInit /\ [][RefreshNext]_refreshVars

\* Time passes; a request ends, with an answer or at its deadline
RefreshFairness ==
  /\ WF_refreshVars(BackgroundTime) /\ WF_refreshVars(NoticeTime)
  /\ WF_refreshVars(OpenSources) /\ WF_refreshVars(Report)
  /\ WF_refreshVars(SourceConfirmed \/ SourceFailed \/ \E s \in 1 .. Newest : SourceAdopted(s))

RefreshLiveSpec == RefreshSpec /\ RefreshFairness

-----------------------------------------------------------------------------
(* Properties                                                               *)

\* access.refresh returns: a manual refresh is answered by a report, also while
\* the recovery loop is suspended and no round is scheduled at all.
ManualAnswered == waiters > 0 ~> waiters = 0

\* An announcement is waited for only so long: outside of recovery the notice is
\* reached or given up, even if no source ever serves its serial ("a wrong notice
\* does not become an endless retry", refresher.rs:29).
NoticeEnds == []<>(notified.serial = 0 \/ recovering.on)

\* A notice is given up only when its serial is in use or its retries are spent:
\* notices that arrive are merged into one wait for the highest serial
\* (refresher.rs:181), which lasts until "the version the notice asked for" is
\* there (refresher.rs:229).
NoticeIsKept ==
  [][(notified.serial # 0 /\ notified'.serial = 0) =>
       (directory' >= notified.serial \/ notified.retries = NoticeRetries)]_refreshVars
=============================================================================
