--------------------------- MODULE UpdateMachine ---------------------------
(***************************************************************************)
(* The update centre: the phases of UpdateMachine and the tasks of         *)
(* UpdateRuntime that move it, which overlap freely: check rounds,         *)
(* downloads and the re-check of a package before it is handed over.       *)
(*                                                                         *)
(* A release is its build.  Evaluating a manifest yields the build that is *)
(* offered, or none.  When and in which form the user is prompted is left  *)
(* out.  The kind of the offered artifact is fixed per device: a package   *)
(* this SDK downloads, a store, or an updater of the platform (the web    *)
(* bundle and the desktop).                                                *)
(***************************************************************************)
EXTENDS Integers, FiniteSets

CONSTANTS
  Builds,         \* the builds that are released
  MaxChecks,      \* bound: the check rounds alive at a time
  DownloadTasks   \* bound: the download tasks alive at a time

ASSUME UpdateAssumption ==
  /\ Builds \subseteq Nat \ {0} /\ IsFiniteSet(Builds)
  /\ MaxChecks \in Nat

None0 == 0
Triggers == {"scheduled", "pushed"}

VARIABLES
  kind,          \* "package", "store" or "updater"
  phase,         \* Phase
  target,        \* the build the offer names, 0 none
  ready,         \* the downloaded package, as its build, 0 none
  checkRounds,   \* check_rounds
  manualCheck,   \* manual_check
  checkDue,      \* the last check is old enough
  queued,        \* the rounds that wait for their turn, by trigger
  fetching,      \* a round has its turn
  downloads,     \* the download tasks, with the build each one fetches
  rechecking,    \* the package update.install is verifying, 0 none
  handed,        \* the build the host is installing, 0 none
  savedPackage   \* the package in the stored state

updateVars == <<kind, phase, target, ready, checkRounds, manualCheck, checkDue, queued,
                fetching, downloads, rechecking, handed, savedPackage>>

offerVars == <<target, ready, savedPackage>>
checkVars == <<checkRounds, manualCheck, checkDue, queued, fetching>>
taskVars == <<downloads, rechecking, handed>>

UpdateInit ==
  /\ kind \in {"package", "store", "updater"}
  /\ phase = "settled"
  /\ target = None0
  /\ ready = None0
  /\ checkRounds = 0
  /\ manualCheck = FALSE
  /\ checkDue = TRUE
  /\ queued = [t \in Triggers |-> 0]
  /\ fetching = FALSE
  /\ downloads = [t \in DownloadTasks |-> None0]
  /\ rechecking = None0
  /\ handed = None0
  /\ savedPackage = None0

-----------------------------------------------------------------------------
(* What every handler ends with                                             *)

\* persist, which may fail or come too late; the file of a discarded package is
\* removed at some later time
Kept(package) ==
  /\ ready' = package
  /\ savedPackage' \in {package, savedPackage}

\* reassess: a package that is no longer the offered one is withdrawn
Reassess(offer, package, next) ==
  LET withdrawn == package # None0 /\ package # offer IN
  /\ target' = offer
  /\ phase' = IF withdrawn /\ next = "ready" THEN "settled" ELSE next
  /\ Kept(IF withdrawn THEN None0 ELSE package)

-----------------------------------------------------------------------------
(* Checks                                                                   *)

\* end_check_round, on the phase
AfterRound == IF checkRounds = 1 /\ phase = "checking" THEN "settled" ELSE phase
RoundEnds ==
  /\ checkRounds' = IF checkRounds = 0 THEN 0 ELSE checkRounds - 1
  /\ manualCheck' = FALSE

\* request_check: update.check joins a round that is alive
RequestCheck(manual) ==
  /\ manual \/ checkRounds > 0 \/ checkDue
  /\ manualCheck' = (manualCheck \/ manual)
  /\ phase' = IF phase \in {"settled", "failed"} THEN "checking" ELSE phase
  /\ IF checkRounds > 0 THEN UNCHANGED <<checkRounds, queued>>
     ELSE /\ checkRounds' = 1
          /\ queued' = [queued EXCEPT !["scheduled"] = @ + 1]
  /\ UNCHANGED <<kind, checkDue, fetching>>
  /\ UNCHANGED <<offerVars, taskVars>>

\* begin_background_check: at start-up, in the foreground, with the network back
\* ("scheduled") or on a notice ("pushed")
SpawnCheck(trigger) ==
  /\ checkRounds < MaxChecks
  /\ checkRounds' = checkRounds + 1
  /\ queued' = [queued EXCEPT ![trigger] = @ + 1]
  /\ UNCHANGED <<kind, phase, manualCheck, checkDue, fetching>>
  /\ UNCHANGED <<offerVars, taskVars>>

\* Wrong: a round that finds no kernel leaves without being counted out
LeavesUncounted(trigger) ==
  /\ queued[trigger] > 0
  /\ queued' = [queued EXCEPT ![trigger] = @ - 1]
  /\ UNCHANGED <<kind, phase, checkRounds, manualCheck, checkDue, fetching>>
  /\ UNCHANGED <<offerVars, taskVars>>

\* check_unavailable: no kernel, no transport or nothing to compare with
CheckUnavailable(trigger) ==
  /\ queued[trigger] > 0
  /\ queued' = [queued EXCEPT ![trigger] = @ - 1]
  /\ RoundEnds
  /\ phase' = AfterRound
  /\ UNCHANGED <<kind, checkDue, fetching>>
  /\ UNCHANGED <<offerVars, taskVars>>

\* run_check has its turn; check_still_due ends a scheduled round that is not due
TakeTurn(trigger) ==
  /\ queued[trigger] > 0
  /\ ~fetching
  /\ queued' = [queued EXCEPT ![trigger] = @ - 1]
  /\ IF trigger = "scheduled" /\ ~manualCheck /\ ~checkDue
       THEN /\ RoundEnds
            /\ phase' = AfterRound
            /\ UNCHANGED fetching
       ELSE /\ fetching' = TRUE
            /\ UNCHANGED <<checkRounds, manualCheck, phase>>
  /\ UNCHANGED <<kind, checkDue>>
  /\ UNCHANGED <<offerVars, taskVars>>

\* finish_check with a manifest, or with the answer that there is none
FinishCheck(offer) ==
  /\ fetching
  /\ fetching' = FALSE
  /\ RoundEnds
  /\ checkDue' = FALSE
  /\ Reassess(offer, ready, AfterRound)
  /\ UNCHANGED <<kind, queued, taskVars>>

\* finish_check without a trusted result: nothing changes but the round
CheckFails ==
  /\ fetching
  /\ fetching' = FALSE
  /\ RoundEnds
  /\ phase' = AfterRound
  /\ UNCHANGED <<kind, checkDue, queued>>
  /\ UNCHANGED <<offerVars, taskVars>>

\* rejected: the server refuses this version; the first time a check follows.
\* The next handler to end saves the withdrawal of a package
Rejected(offer) ==
  /\ Reassess(offer, ready, phase)
  /\ \/ UNCHANGED <<checkRounds, queued>>
     \/ /\ checkRounds < MaxChecks
        /\ checkRounds' = checkRounds + 1
        /\ queued' = [queued EXCEPT !["pushed"] = @ + 1]
  /\ UNCHANGED <<kind, manualCheck, checkDue, fetching, taskVars>>

\* CHECK_INTERVAL_MS passes
CheckInterval ==
  /\ ~checkDue
  /\ checkDue' = TRUE
  /\ UNCHANGED <<kind, phase, checkRounds, manualCheck, queued, fetching>>
  /\ UNCHANGED <<offerVars, taskVars>>

-----------------------------------------------------------------------------
(* Download                                                                 *)

Busy == phase \in {"downloading", "verifying", "installing"}

\* begin_download, and the task that is spawned for it
BeginDownload(task) ==
  /\ downloads[task] = None0
  /\ ~Busy /\ phase # "ready"
  /\ kind = "package" /\ target # None0
  /\ phase' = "downloading"
  /\ downloads' = [downloads EXCEPT ![task] = target]
  /\ UNCHANGED <<kind, rechecking, handed>>
  /\ UNCHANGED <<offerVars, checkVars>>

\* The observer: all bytes have arrived
BeginVerifying(task) ==
  /\ downloads[task] # None0
  /\ phase = "downloading"
  /\ phase' = "verifying"
  /\ UNCHANGED <<kind, offerVars, checkVars, taskVars>>

\* Wrong: the package is kept although the offer changed meanwhile
ReadyAnyway(task) ==
  /\ downloads[task] # None0
  /\ downloads' = [downloads EXCEPT ![task] = None0]
  /\ target' = target
  /\ phase' = "ready"
  /\ Kept(downloads[task])
  /\ UNCHANGED <<kind, checkVars, rechecking, handed>>

\* download_ready
DownloadReady(task) ==
  /\ downloads[task] # None0
  /\ downloads' = [downloads EXCEPT ![task] = None0]
  /\ Reassess(target, downloads[task], "ready")
  /\ UNCHANGED <<kind, checkVars, rechecking, handed>>

\* download_failed
DownloadFailed(task) ==
  /\ downloads[task] # None0
  /\ downloads' = [downloads EXCEPT ![task] = None0]
  /\ phase' = "failed"
  /\ Kept(ready)
  /\ UNCHANGED <<kind, target, checkVars, rechecking, handed>>

-----------------------------------------------------------------------------
(* Install                                                                  *)

\* begin_install: a plan is handed over at once
InstallPlan ==
  /\ kind # "package" /\ target # None0
  /\ phase' = "installing"
  /\ handed' = target
  /\ UNCHANGED <<kind, downloads, rechecking>>
  /\ UNCHANGED <<offerVars, checkVars>>

\* begin_install: a package is verified once more
InstallPackage ==
  /\ kind = "package" /\ target # None0 /\ ready # None0
  /\ rechecking = None0
  /\ rechecking' = ready
  /\ UNCHANGED <<kind, phase, downloads, handed>>
  /\ UNCHANGED <<offerVars, checkVars>>

\* verify_existing succeeds and package_handed_over
HandOver ==
  /\ rechecking # None0
  /\ phase' = "installing"
  /\ handed' = rechecking
  /\ rechecking' = None0
  /\ Kept(ready)
  /\ UNCHANGED <<kind, target, checkVars, downloads>>

\* verify_existing fails and package_rejected
PackageRejected ==
  /\ rechecking # None0
  /\ rechecking' = None0
  /\ phase' = "failed"
  /\ Kept(None0)
  /\ UNCHANGED <<kind, target, checkVars, downloads, handed>>

\* report_install, of a host that was handed something
ReportInstall(outcome) ==
  /\ handed # None0
  /\ handed' = IF outcome = "started" THEN handed ELSE None0
  /\ phase' = CASE outcome = "started" -> "installing"
                [] outcome = "completed" -> IF kind = "store" /\ target # None0 THEN "settled" ELSE phase
                [] outcome = "cancelled" -> IF ready # None0 THEN "ready" ELSE "settled"
                [] outcome \in {"failed", "bad"} -> "failed"
  /\ IF outcome = "bad" THEN Kept(None0) ELSE Kept(ready)
  /\ UNCHANGED <<kind, target, checkVars, downloads, rechecking>>

\* defer: an optional update that failed goes back to being offered
Defer ==
  /\ phase = "failed"
  /\ target # None0
  /\ phase' = "settled"
  /\ UNCHANGED <<kind, offerVars, checkVars, taskVars>>

\* The process ends; restore evaluates the stored manifest, which may name
\* another build by now, and finds the stored package
Relaunch(offer) ==
  /\ target' = offer
  /\ LET kept == savedPackage # None0 /\ savedPackage = offer IN
     /\ ready' = IF kept THEN savedPackage ELSE None0
     /\ phase' = IF kept THEN "ready" ELSE "settled"
  /\ checkRounds' = 0 /\ manualCheck' = FALSE
  /\ queued' = [t \in Triggers |-> 0]
  /\ fetching' = FALSE
  /\ downloads' = [t \in DownloadTasks |-> None0]
  /\ rechecking' = None0 /\ handed' = None0
  /\ UNCHANGED <<kind, checkDue, savedPackage>>

UpdateNext ==
  \/ \E manual \in BOOLEAN : RequestCheck(manual)
  \/ \E trigger \in Triggers :
       SpawnCheck(trigger) \/ CheckUnavailable(trigger) \/ TakeTurn(trigger)
  \/ \E offer \in Builds \union {None0} :
       FinishCheck(offer) \/ Rejected(offer) \/ Relaunch(offer)
  \/ CheckFails \/ CheckInterval
  \/ \E task \in DownloadTasks :
       \/ BeginDownload(task) \/ BeginVerifying(task)
       \/ DownloadReady(task) \/ DownloadFailed(task)
  \/ InstallPlan \/ InstallPackage \/ HandOver \/ PackageRejected
  \/ \E outcome \in {"started", "completed", "cancelled", "failed", "bad"} : ReportInstall(outcome)
  \/ Defer

UpdateSpec == UpdateInit /\ [][UpdateNext]_updateVars

-----------------------------------------------------------------------------
(* Properties                                                               *)

\* The package that is ready is the offered one, and the phase "ready" has a
\* package, however checks, downloads, installs and restarts overlap: a package
\* whose release was withdrawn while it was being downloaded is dropped
\* (state.rs:445, state.rs:749).
ReadyIsOffered ==
  /\ ready # None0 => ready = target
  /\ phase = "ready" => ready # None0

\* The machine shows "checking", and remembers a manual request, only while a
\* round is alive that will end it: every way out of run_check counts its round
\* out, "or the state stops at checking" (update/mod.rs:340).
CheckingHasRound ==
  /\ checkRounds = queued["scheduled"] + queued["pushed"] + (IF fetching THEN 1 ELSE 0)
  /\ phase = "checking" \/ manualCheck => checkRounds > 0

\* One file is downloaded at a time ("one file at a time, the caller sees to it
\* that there is no other", resumable.rs:1).
OneDownload == Cardinality({t \in DownloadTasks : downloads[t] # None0}) <= 1

\* A package that is no longer the offered one is withdrawn (state.rs:445), so it
\* is not handed to the installer.
HandedIsOffered ==
  [][handed = None0 /\ handed' # None0 => handed' = target]_updateVars
=============================================================================
