------------------------------ MODULE MCAccess ------------------------------
(* Health of an access point, its records on disk, the manifest store, the   *)
(* refresh schedule and the update centre for TLC: in a behaviour one of     *)
(* them moves, so their state spaces add up.                                 *)
EXTENDS AccessHealth, HealthFlush, ManifestStore, RefreshSchedule, UpdateMachine

VARIABLE part   \* the component that moves

accessPartVars == <<part, healthVars, flushVars, storeVars, refreshVars, updateVars>>

Order == <<"n1", "n2", "n3">>

AccessInit ==
    /\ part \in {"health", "flush", "store", "refresh", "update"}
    /\ HealthInit /\ FlushInit /\ StoreInit /\ RefreshInit /\ UpdateInit
    /\ part # "health" => health = Healthy
    /\ part # "refresh" => directory = 0
    /\ part # "update" => kind = "package"

OnHealth(A) == part = "health" /\ A /\ UNCHANGED <<part, flushVars, storeVars, refreshVars, updateVars>>
OnFlush(A) == part = "flush" /\ A /\ UNCHANGED <<part, healthVars, storeVars, refreshVars, updateVars>>
OnStore(A) == part = "store" /\ A /\ UNCHANGED <<part, healthVars, flushVars, refreshVars, updateVars>>
OnRefresh(A) == part = "refresh" /\ A /\ UNCHANGED <<part, healthVars, flushVars, storeVars, updateVars>>
OnUpdate(A) == part = "update" /\ A /\ UNCHANGED <<part, healthVars, flushVars, storeVars, refreshVars>>

HealthPart ==
    \/ OnHealth(Dial)
    \/ OnHealth(ConnectElsewhere)
    \/ OnHealth(DialDropped)
    \/ OnHealth(Heartbeat)
    \/ \E race \in Races(TRUE), mismatch \in BOOLEAN : OnHealth(Connected(race, mismatch))
    \/ \E result \in {"failure", "neutral"} : OnHealth(ConnectFailed(result))
    \/ \E result \in {"failure", "neutral", "none"} : OnHealth(LinkLost(result))
    \/ OnHealth(Request)
    \/ OnHealth(ProbePreferred)
    \/ \E result \in Results \cup {"none"} : OnHealth(RequestEnds(result))
    \/ \E result \in Results : OnHealth(ProbeEnds(result))
    \/ OnHealth(Tick)
    \/ OnHealth(SetNetwork)

FlushPart ==
    \/ \E n \in Networks : OnFlush(Change(n, Kinds))
    \/ \E n \in Networks : OnFlush(Change(n, {"udp"}))
    \/ \E force \in BOOLEAN : OnFlush(Flush(force))
    \/ \E batch \in writing : OnFlush(FlushStored(batch))
    \/ \E batch \in writing : OnFlush(FlushFails(batch))
    \/ OnFlush(FlushTick)
    \/ OnFlush(Restart)

StorePart ==
    \/ \E a \in Actors : OnStore(Lock(a))
    \/ \E a \in Actors : OnStore(Rollback(a))
    \/ \E a \in Actors : OnStore(ReadFails(a))
    \/ \E a \in Actors : OnStore(Write(a))
    \/ \E a \in Actors : OnStore(WriteFails(a))
    \/ \E a \in Actors : OnStore(Install(a))
    \/ OnStore(Boot)
    \/ \E serial \in Serials : OnStore(Import(serial))
    \/ OnStore(OpenRound)
    \/ OnStore(Ask)
    \/ \E followed \in BOOLEAN : OnStore(Answer(followed))
    \/ OnStore(NoDocument)
    \/ \E serial \in Serials : OnStore(Ingest(serial))
    \/ OnStore(CloseRound)
    \/ OnStore(Die)
    \/ \E d \in Docs : OnStore(Damage(d))

RefreshPart ==
    \/ OnRefresh(Manual)
    \/ \E serial \in 1 .. Newest, at \in BOOLEAN : OnRefresh(Notified(serial, at))
    \/ OnRefresh(EnterRecovering)
    \/ OnRefresh(LeaveRecovering)
    \/ OnRefresh(Suspend)
    \/ OnRefresh(Wake)
    \/ \E serial \in 1 .. Newest : OnRefresh(ImportRecovery(serial))
    \/ OnRefresh(BackgroundTime)
    \/ OnRefresh(NoticeTime)
    \/ OnRefresh(RecoveringTime)
    \/ OnRefresh(OpenSources)
    \/ \E serial \in 1 .. Newest : OnRefresh(SourceAdopted(serial))
    \/ OnRefresh(SourceConfirmed)
    \/ OnRefresh(SourceFailed)
    \/ OnRefresh(Report)

UpdatePart ==
    \/ \E byHand \in BOOLEAN : OnUpdate(RequestCheck(byHand))
    \/ \E trigger \in Triggers : OnUpdate(SpawnCheck(trigger))
    \/ \E trigger \in Triggers : OnUpdate(CheckUnavailable(trigger))
    \/ \E trigger \in Triggers : OnUpdate(TakeTurn(trigger))
    \/ \E offer \in Builds \union {None0} : OnUpdate(FinishCheck(offer))
    \/ OnUpdate(CheckFails)
    \/ \E offer \in Builds \union {None0} : OnUpdate(Rejected(offer))
    \/ OnUpdate(CheckInterval)
    \/ \E task \in DownloadTasks : OnUpdate(BeginDownload(task))
    \/ \E task \in DownloadTasks : OnUpdate(BeginVerifying(task))
    \/ \E task \in DownloadTasks : OnUpdate(DownloadReady(task))
    \/ \E task \in DownloadTasks : OnUpdate(DownloadFailed(task))
    \/ OnUpdate(InstallPlan)
    \/ OnUpdate(InstallPackage)
    \/ OnUpdate(HandOver)
    \/ OnUpdate(PackageRejected)
    \/ \E outcome \in {"started", "completed", "cancelled", "failed", "bad"} : OnUpdate(ReportInstall(outcome))
    \/ OnUpdate(Defer)
    \/ \E offer \in Builds \union {None0} : OnUpdate(Relaunch(offer))

AccessNext == HealthPart \/ FlushPart \/ StorePart \/ RefreshPart \/ UpdatePart

\* The fairness of HealthLiveSpec and RefreshLiveSpec.
AccessSpec ==
    /\ AccessInit /\ [][AccessNext]_accessPartVars
    /\ WF_accessPartVars(OnHealth(Tick))
    /\ WF_accessPartVars(OnRefresh(BackgroundTime)) /\ WF_accessPartVars(OnRefresh(NoticeTime))
    /\ WF_accessPartVars(OnRefresh(OpenSources)) /\ WF_accessPartVars(OnRefresh(Report))
    /\ WF_accessPartVars(OnRefresh(SourceConfirmed \/ SourceFailed
                                      \/ \E s \in 1 .. Newest : SourceAdopted(s)))
=============================================================================
