---------------------------- MODULE OutboxProofs ----------------------------
(***************************************************************************)
(* What the queue as a whole does for its messages, for every value of the *)
(* constants: it writes them in order the first time, a pause charges      *)
(* nothing to them, and it implements OutboxContract.  The invariant of    *)
(* ReliableQueueProofs is the basis of all three.                          *)
(***************************************************************************)
EXTENDS ReliableQueueProofs

-----------------------------------------------------------------------------
(* The order of first writes                                               *)

\* Whatever the server, the acks, the results or a table of the actor know of was written.
WrittenIsAttempted ==
    /\ attempted \subseteq 1..enqueued
    /\ wire \cup awaiting \cup sendFailed \subseteq attempted
    /\ writing # NoJob => writing.m \in attempted
    /\ \A i \in 1..Len(results) : results[i].m \in attempted
    /\ \A m \in Msgs :
          srv[m] # "none" \/ backoff[m] > 0 \/ (\E kind \in AckKinds : <<m, kind>> \in acks)
          => m \in attempted

\* While an older message waits for its first write, a younger one was not written, is in
\* flight only behind it, and has its frames behind it.
QueuedInOrder ==
    \A m, n \in Own : m < n /\ m \in pending \ attempted =>
        /\ n \notin attempted
        /\ n \in inFlight => m \in inFlight
        /\ \A j \in 1..Len(writerQ) : writerQ[j].m = n /\ writerQ[j].live =>
              \E i \in 1..(j - 1) : writerQ[i].m = m /\ writerQ[i].live

\* The steps that leave the writer's queue alone take an entry out of flight only when it was
\* written or leaves the table.
CalmStep ==
    /\ UNCHANGED <<writerQ, attempted>> /\ pending' \subseteq pending /\ inFlight' \subseteq inFlight
    /\ \A m \in inFlight \ inFlight' : m \notin pending' \/ m \in attempted

\* The steps that void the dispatches.
CutStep ==
    /\ UNCHANGED attempted /\ pending' \subseteq pending /\ inFlight' = {}
    /\ \A i \in 1..Len(writerQ') : ~writerQ'[i].live

\* Voided dispatches are not live, and a voided result is of the same message.
LEMMA BumpVoids ==
    ASSUME WriterType, BumpGeneration
    PROVE  /\ \A i \in 1..Len(writerQ') : ~writerQ'[i].live
           /\ \A i \in 1..Len(results') : i \in 1..Len(results) /\ results'[i].m = results[i].m
           /\ writing' # NoJob => writing # NoJob /\ writing'.m = writing.m
<1>1. /\ Len(writerQ) \in Nat /\ Len(results) \in Nat
      /\ writerQ' \in Seq(Jobs) /\ results' \in Seq(Jobs)
  BY BumpTypes, ChannelShape DEF WriterType
<1>2. DOMAIN writerQ' = 1..Len(writerQ') /\ DOMAIN writerQ' = 1..Len(writerQ)
  BY <1>1, ChannelShape, SMTT(40) DEF BumpGeneration
<1>3. DOMAIN results' = 1..Len(results') /\ DOMAIN results' = 1..Len(results)
  BY <1>1, ChannelShape DEF BumpGeneration
<1>4. \A i \in 1..Len(writerQ) : ~writerQ'[i].live
  BY DEF BumpGeneration, Stale
<1>5. \A i \in 1..Len(results) : results'[i].m = results[i].m
  BY DEF BumpGeneration, Stale
<1>6. Stale(NoJob) = NoJob /\ writing'.m = writing.m
  BY DEF BumpGeneration, Stale, NoJob
<1> QED
  BY <1>2, <1>3, <1>4, <1>5, <1>6 DEF BumpGeneration

\* A dispatch appends a live frame, or finds the writer full.
LEMMA DispatchAppends ==
    ASSUME WriterType, NEW m \in Msgs, NEW r \in 0..MaxRetries, Dispatch(m, r)
    PROVE  /\ Len(writerQ) \in Nat
           /\ \/ writerQ' = writerQ /\ ~(Len(writerQ) < WriterCap)
              \/ /\ Len(writerQ') = Len(writerQ) + 1
                 /\ \A i \in 1..Len(writerQ) : writerQ'[i] = writerQ[i]
                 /\ writerQ'[Len(writerQ) + 1].m = m /\ writerQ'[Len(writerQ) + 1].live
<1> DEFINE job == [m |-> m, r |-> r, live |-> TRUE]
<1>1. job \in Jobs /\ job.m = m /\ job.live
  BY DEF Jobs
<1>2. writerQ \in Seq(Jobs) /\ Len(writerQ) \in Nat
  BY ChannelShape DEF WriterType
<1>3. writerQ' = IF Len(writerQ) < WriterCap THEN Append(writerQ, job) ELSE writerQ
  BY DEF Dispatch
<1> HIDE DEF job
<1>4. CASE Len(writerQ) < WriterCap
  BY <1>1, <1>2, <1>3, <1>4, ChannelSend
<1> QED
  BY <1>2, <1>3, <1>4

\* The first element leaves a queue of jobs, the others move up.
LEMMA TailMoves ==
    ASSUME NEW q \in Seq(Jobs), q # <<>>
    PROVE  /\ Len(q) \in Nat /\ 1 \in 1..Len(q) /\ Head(q) = q[1] /\ Len(Tail(q)) = Len(q) - 1
           /\ \A i \in 1..Len(Tail(q)) : i + 1 \in 1..Len(q) /\ Tail(q)[i] = q[i + 1]
<1>1. Len(q) \in Nat /\ Len(q) # 0
  BY ChannelShape, ChannelEmpty
<1>2. Head(q) = q[1] /\ Len(Tail(q)) = Len(q) - 1
  BY ChannelReceive
<1>3. \A i \in 1..Len(Tail(q)) : Tail(q)[i] = q[i + 1]
  BY ChannelReceive
<1> QED
  BY <1>1, <1>2, <1>3

\* Every step is one of six kinds, as far as the order of first writes goes.
LEMMA StepKinds ==
    ASSUME QueueInv, WrittenIsAttempted, [Next]_vars
    PROVE  \/ CalmStep \/ CutStep \/ EnqueuePush \/ WriterTakes
           \/ \E m \in Msgs : NextDispatches(m) \/ ExpireRetries(m)
<1> USE DEF store, tracking, retries, flow, writer, control, server, history
<1>1. ASSUME \/ EnqueueSave \/ EnqueuePushFails \/ SaveOutcome \/ SaveOutcomeFails \/ NextStops
             \/ ExpireDone \/ DropDone \/ ResultIgnored \/ ResultWhilePaused \/ ResultRetries
             \/ TickExpires \/ Pause \/ NetworkLoses \/ UNCHANGED vars
      PROVE  CalmStep
  BY <1>1, ZenonT(40) DEF CalmStep, EnqueueSave, EnqueuePushFails, SaveOutcome, SaveOutcomeFails, NextStops,
     ExpireDone, DropDone, ResultIgnored, ResultWhilePaused, ResultRetries, TakeResult,
     TickExpires, Pause, NetworkLoses, ServerUnchanged, vars
<1>2. ASSUME NEW m \in Msgs,
             \/ NextWriterFull(m) \/ NextDropsTerminal(m) \/ NextGivesUp(m) \/ AckDurableOrphan(m)
             \/ AckIgnored(m) \/ DeadlinePasses(m)
      PROVE  CalmStep
  BY <1>2, ZenonT(40) DEF CalmStep, NextWriterFull, NextDropsTerminal, NextGivesUp, Settle, AckDurableOrphan,
     AckIgnored, DeadlinePasses
<1>3. ASSUME NEW m \in Msgs, Server(m) \/ ConvergesPush(m) \/ SyncSaves(m) PROVE CalmStep
  BY <1>3, ZenonT(40) DEF CalmStep, Server, ServerStores, ServerAccepts, ServerPersists, ServerRejects,
     ServerUnchanged, ConvergesPush, SyncSaves
<1>4. ASSUME NEW m \in Msgs, NEW r \in 0..MaxRetries, BackoffElapses(m, r) PROVE CalmStep
  BY <1>4 DEF CalmStep, BackoffElapses
<1>5. ASSUME NEW cutoff \in Msgs, ExpireStalePending(cutoff) PROVE CalmStep
  BY <1>5, SMTT(40) DEF CalmStep, ExpireStalePending
<1>6. ASSUME NEW ok \in BOOLEAN, NEW reached \in BOOLEAN,
             WriterFinishes(ok, reached) \/ WriterAbandons(reached)
      PROVE  CalmStep
  BY <1>6, SMTT(40) DEF CalmStep, WriterFinishes, WriterAbandons
<1>7. ASSUME NEW m \in Msgs, AckDurable(m) \/ AckFails(m) \/ ExpireFails(m) \/ DropOne(m)
      PROVE  CalmStep
  BY <1>7, SMTT(40) DEF CalmStep, AckDurable, AckFails, ExpireFails, DropOne, Settle, Untrack
<1>8. ASSUME ResultFails PROVE CalmStep
  BY <1>8, ZenonT(40) DEF CalmStep, ResultFails, TakeResult, Settle, Untrack
<1>9. ASSUME NEW m \in Msgs, AckAccepted(m) \/ AckBusyRetries(m) PROVE CalmStep
  <2>1. m \in attempted
    BY <1>9, Zenon DEF AckAccepted, AckBusyRetries, TakeAck, AckKinds, WrittenIsAttempted
  <2> QED BY <1>9, <2>1 DEF CalmStep, AckAccepted, AckBusyRetries, Untrack
<1>10. ASSUME TickReconciles PROVE CalmStep
  BY <1>10, SMTT(40) DEF CalmStep, TickReconciles
<1>11. ASSUME Resume(FALSE) PROVE CalmStep
  BY <1>11, ZenonT(40) DEF CalmStep, Resume, WrittenIsAttempted
<1>12. ASSUME Resume(TRUE) PROVE CutStep
  <2>1. BumpGeneration
    BY <1>12, ZenonT(40) DEF Resume
  <2>2. \A i \in 1..Len(writerQ') : ~writerQ'[i].live
    BY <2>1, BumpVoids, SMTT(40) DEF QueueInv, TypeOK
  <2> QED BY <1>12, <2>2, ZenonT(40) DEF CutStep, Resume
<1>13. ASSUME ResetPendingOnLogin PROVE CutStep
  <2>1. \A i \in 1..Len(writerQ') : ~writerQ'[i].live
    BY <1>13, BumpVoids, SMTT(40) DEF ResetPendingOnLogin, QueueInv, TypeOK
  <2> QED BY <1>13, <2>1, SMTT(40) DEF CutStep, ResetPendingOnLogin
<1>14. ASSUME Crash PROVE CutStep
  <2>1. 1..Len(writerQ') = {}
    BY <1>14, ChannelEmpty DEF Crash
  <2> QED BY <1>14, <2>1 DEF CutStep, Crash
<1>15. ASSUME NEW resend \in BOOLEAN, Resume(resend) PROVE CalmStep \/ CutStep
  BY <1>11, <1>12, <1>15, Zenon
<1> HIDE DEF CalmStep, CutStep
<1> QED
  BY <1>1, <1>2, <1>3, <1>4, <1>5, <1>6, <1>7, <1>8, <1>9, <1>10, <1>13, <1>14, <1>15, Zenon
  DEF Next, Handler, Result, Tick, Writer, Ack, Disruption

\* What is known of a message follows from a write of it, in every step.
LEMMA AttemptStep ==
    ASSUME QueueInv, WrittenIsAttempted, [Next]_vars
    PROVE  WrittenIsAttempted'
<1> USE DEF store, tracking, retries, flow, writer, control, server, history
<1> DEFINE Less ==
      /\ attempted' = attempted /\ enqueued' = enqueued /\ writing' = writing
      /\ wire' \subseteq wire /\ awaiting' \subseteq awaiting /\ sendFailed' \subseteq sendFailed
      /\ srv' = srv /\ acks' \subseteq acks
      /\ \A m \in Msgs : backoff'[m] > 0 => backoff[m] > 0
<1>1. ASSUME Less, UNCHANGED results PROVE WrittenIsAttempted'
  BY <1>1, SMTT(40) DEF WrittenIsAttempted
<1>2. ASSUME Less, \A i \in 1..Len(results') : \E j \in 1..Len(results) : results'[i].m = results[j].m
      PROVE  WrittenIsAttempted'
  BY <1>2 DEF WrittenIsAttempted
<1>3. /\ WriterType /\ enqueued \in Nat
      /\ backoff \in [Msgs -> 0..MaxRetries] /\ retry \in [Msgs -> 0..MaxRetries]
  BY ConstantsAssumption, SMTT(40) DEF QueueInv, TypeOK, StoreType, RetryType
<1>4. ASSUME EnqueueSave PROVE WrittenIsAttempted'
  <2>1. 1..enqueued \subseteq 1..enqueued'
    BY <1>3, <1>4, SMTT(40) DEF EnqueueSave
  <2> QED BY <1>4, <2>1 DEF EnqueueSave, WrittenIsAttempted
<1>5. ASSUME \/ EnqueuePush \/ EnqueuePushFails \/ SaveOutcome \/ SaveOutcomeFails \/ NextStops
             \/ ExpireDone \/ DropDone \/ TickExpires \/ Pause \/ UNCHANGED vars
      PROVE  WrittenIsAttempted'
  <2>1. Less /\ UNCHANGED results
    BY <1>5, ZenonT(40) DEF EnqueuePush, EnqueuePushFails, SaveOutcome, SaveOutcomeFails, NextStops,
       ExpireDone, DropDone, TickExpires, Pause, vars
  <2> QED BY <1>1, <2>1, SMTT(40)
<1>6. ASSUME NEW m \in Msgs,
             \/ NextWriterFull(m) \/ NextDropsTerminal(m) \/ NextGivesUp(m) \/ DeadlinePasses(m)
             \/ SyncSaves(m)
      PROVE  WrittenIsAttempted'
  <2>1. Less /\ UNCHANGED results
    BY <1>6, ZenonT(40) DEF NextWriterFull, NextDropsTerminal, NextGivesUp, Settle, DeadlinePasses, SyncSaves
  <2> QED BY <1>1, <2>1, SMTT(40)
<1>7. ASSUME NEW m \in Msgs, AckDurable(m) \/ AckDurableOrphan(m) \/ AckFails(m) \/ AckIgnored(m)
      PROVE  WrittenIsAttempted'
  <2>1. ASSUME AckDurable(m) PROVE Less /\ UNCHANGED results
    BY <1>3, <2>1, SMTT(40) DEF AckDurable, TakeAck, Settle, Untrack
  <2>2. ASSUME AckDurableOrphan(m) PROVE Less /\ UNCHANGED results
    BY <2>2, SMTT(40) DEF AckDurableOrphan, TakeAck
  <2>3. ASSUME AckFails(m) PROVE Less /\ UNCHANGED results
    BY <1>3, <2>3, SMTT(40) DEF AckFails, TakeAck, Settle, Untrack
  <2>4. ASSUME AckIgnored(m) PROVE Less /\ UNCHANGED results
    BY <2>4, Zenon DEF AckIgnored, TakeAck
  <2> QED BY <1>1, <1>7, <2>1, <2>2, <2>3, <2>4, ZenonT(40)
<1>8. ASSUME NEW m \in Msgs, ExpireFails(m) \/ DropOne(m) PROVE WrittenIsAttempted'
  <2>1. Less /\ UNCHANGED results
    BY <1>3, <1>8, SMTT(40) DEF ExpireFails, Expiring, DropOne, Settle, Untrack
  <2> QED BY <1>1, <2>1
<1>9. ASSUME NEW m \in Msgs, NEW r \in 0..MaxRetries, BackoffElapses(m, r) PROVE WrittenIsAttempted'
  <2>1. Less /\ UNCHANGED results
    BY <1>3, <1>9, SMTT(40) DEF BackoffElapses
  <2> QED BY <1>1, <2>1, SMTT(40)
<1>10. ASSUME NEW cutoff \in Msgs, ExpireStalePending(cutoff) PROVE WrittenIsAttempted'
  <2>1. Less /\ UNCHANGED results
    BY <1>10, SMTT(40) DEF ExpireStalePending
  <2> QED BY <1>1, <2>1
<1>11. ASSUME NetworkLoses \/ TickReconciles PROVE WrittenIsAttempted'
  <2>1. Less /\ UNCHANGED results
    BY <1>11, ZenonT(40) DEF NetworkLoses, ServerUnchanged, TickReconciles
  <2> QED BY <1>1, <2>1
<1>12. ASSUME NEW m \in Msgs, NextDispatches(m) PROVE WrittenIsAttempted'
  <2>1. Less /\ UNCHANGED results
    BY <1>12, SMTT(40) DEF NextDispatches, Dispatch
  <2> QED BY <1>1, <2>1
<1>13. ASSUME NEW m \in Msgs, ExpireRetries(m) PROVE WrittenIsAttempted'
  <2>1. Less /\ UNCHANGED results
    BY <1>13, Zenon DEF ExpireRetries, Expiring, Dispatch
  <2> QED BY <1>1, <2>1
<1>14. ASSUME NEW m \in Msgs, AckAccepted(m) \/ AckBusyRetries(m) PROVE WrittenIsAttempted'
  <2>1. m \in attempted
    BY <1>14, Zenon DEF AckAccepted, AckBusyRetries, TakeAck, AckKinds, WrittenIsAttempted
  <2>2. \A n \in Msgs : n # m => backoff'[n] = backoff[n]
    BY <1>3, <1>14, ZenonT(40) DEF AckAccepted, AckBusyRetries
  <2>3. /\ UNCHANGED <<attempted, enqueued, wire, srv, writing, results>> /\ acks' \subseteq acks
        /\ awaiting' \subseteq awaiting \cup {m} /\ sendFailed' \subseteq sendFailed
    BY <1>14 DEF AckAccepted, AckBusyRetries, TakeAck, Untrack
  <2> QED BY <2>1, <2>2, <2>3, Zenon DEF WrittenIsAttempted
<1>15. ASSUME TakeResult
       PROVE  /\ \A i \in 1..Len(results') : \E j \in 1..Len(results) : results'[i].m = results[j].m
              /\ Head(results).m \in attempted
  <2>1. results \in Seq(Jobs) /\ results # <<>> /\ results' = Tail(results)
    BY <1>3, <1>15, SMTT(40) DEF TakeResult, WriterType
  <2> QED BY <2>1, TailMoves DEF WrittenIsAttempted
<1>16. ASSUME ResultIgnored \/ ResultFails PROVE WrittenIsAttempted'
  <2>1. Less /\ TakeResult
    BY <1>16, ZenonT(40) DEF ResultIgnored, ResultFails, TakeResult, Settle, Untrack
  <2> QED BY <1>2, <1>15, <2>1, SMTT(40)
<1>17. ASSUME ResultWhilePaused \/ ResultRetries PROVE WrittenIsAttempted'
  <2>1. /\ TakeResult /\ UNCHANGED <<attempted, enqueued, wire, srv, acks, awaiting, backoff, writing>>
        /\ sendFailed' = sendFailed \cup {Head(results).m}
    BY <1>17, ZenonT(40) DEF ResultWhilePaused, ResultRetries, TakeResult
  <2>2. /\ \A i \in 1..Len(results') : \E j \in 1..Len(results) : results'[i].m = results[j].m
        /\ Head(results).m \in attempted
    BY <1>15, <2>1, Zenon
  <2> QED BY <2>1, <2>2, SMTT(40) DEF WrittenIsAttempted
<1>18. ASSUME NEW resend \in BOOLEAN, Resume(resend) PROVE WrittenIsAttempted'
  <2>1. /\ UNCHANGED <<attempted, enqueued, wire, srv, acks, awaiting>> /\ sendFailed' = {}
        /\ BumpGeneration \/ UNCHANGED <<results, writing>>
    BY <1>18, ZenonT(40) DEF Resume
  <2>2. \A m \in Msgs : backoff'[m] > 0 => backoff[m] > 0
    BY <1>18, SMTT(40) DEF Resume
  <2>3. /\ \A i \in 1..Len(results') : i \in 1..Len(results) /\ results'[i].m = results[i].m
        /\ writing' # NoJob => writing # NoJob /\ writing'.m = writing.m
    BY <1>3, <2>1, BumpVoids, ZenonT(40)
  <2> QED BY <2>1, <2>2, <2>3, Zenon DEF WrittenIsAttempted
<1>19. ASSUME ResetPendingOnLogin PROVE WrittenIsAttempted'
  <2>1. /\ UNCHANGED <<attempted, enqueued, wire, srv, acks>> /\ sendFailed' = {} /\ awaiting' = {}
        /\ BumpGeneration /\ \A m \in Msgs : ~(backoff'[m] > 0)
    BY <1>19, SMTT(40) DEF ResetPendingOnLogin
  <2>2. /\ \A i \in 1..Len(results') : i \in 1..Len(results) /\ results'[i].m = results[i].m
        /\ writing' # NoJob => writing # NoJob /\ writing'.m = writing.m
    BY <1>3, <2>1, BumpVoids, ZenonT(40)
  <2> QED BY <2>1, <2>2, SMTT(40) DEF WrittenIsAttempted
<1>20. ASSUME Crash PROVE WrittenIsAttempted'
  <2>1. /\ UNCHANGED <<attempted, enqueued, wire, srv>> /\ sendFailed' = {} /\ awaiting' = {}
        /\ acks' = {} /\ writing' = NoJob /\ results' = <<>> /\ \A m \in Msgs : ~(backoff'[m] > 0)
    BY <1>20 DEF Crash
  <2>2. 1..Len(results') = {}
    BY <2>1, ChannelEmpty
  <2> QED BY <2>1, <2>2, SMTT(40) DEF WrittenIsAttempted
<1>21. ASSUME WriterTakes PROVE WrittenIsAttempted'
  <2>1. /\ UNCHANGED <<enqueued, wire, srv, acks, awaiting, sendFailed, backoff, results>>
        /\ attempted \subseteq attempted' /\ attempted' \subseteq attempted \cup {Head(writerQ).m}
        /\ writing' # NoJob => writing' = writing \/ writing'.m \in attempted'
    BY <1>21, SMTT(40) DEF WriterTakes
  <2>2. writerQ \in Seq(Jobs) /\ writerQ # <<>>
    BY <1>3, <1>21 DEF WriterType, WriterTakes
  <2>3. Head(writerQ).m \in Launched
    BY <2>2, TailMoves DEF QueueInv, OnlyLaunchedLeaves
  <2>4. Head(writerQ).m \in 1..enqueued
    BY <1>3, <2>3, ConstantsAssumption, SMTT(40) DEF Launched
  <2> QED BY <2>1, <2>4, ZenonT(40) DEF WrittenIsAttempted
<1>22. ASSUME NEW ok \in BOOLEAN, NEW reached \in BOOLEAN, WriterFinishes(ok, reached)
       PROVE  WrittenIsAttempted'
  <2>1. /\ UNCHANGED <<attempted, enqueued, srv, acks, awaiting, sendFailed, backoff>>
        /\ wire' \subseteq wire \cup {writing.m} /\ writing' = NoJob /\ writing # NoJob
        /\ results' = results \/ results' = Append(results, writing)
    BY <1>22, SMTT(40) DEF WriterFinishes
  <2>2. writing \in Jobs /\ results \in Seq(Jobs) /\ writing.m \in attempted
    BY <1>3, <2>1, SMTT(40) DEF WriterType, WrittenIsAttempted
  <2>3. \A i \in 1..Len(results') : results'[i].m \in attempted
    <3>1. CASE results' = results
      BY <3>1, SMTT(40) DEF WrittenIsAttempted
    <3>2. CASE results' = Append(results, writing)
      <4>1. /\ Len(results) \in Nat /\ Len(results') = Len(results) + 1
            /\ \A i \in 1..Len(results) : results'[i] = results[i]
            /\ results'[Len(results) + 1] = writing
        BY <2>2, <3>2, ChannelSend, ChannelShape, SMTT(40)
      <4> QED BY <2>2, <4>1, SMTT(40) DEF WrittenIsAttempted
    <3> QED BY <2>1, <3>1, <3>2, SMTT(40)
  <2> QED BY <2>1, <2>2, <2>3, ZenonT(40) DEF WrittenIsAttempted
<1>23. ASSUME NEW reached \in BOOLEAN, WriterAbandons(reached) PROVE WrittenIsAttempted'
  BY <1>23, ZenonT(40) DEF WriterAbandons, WrittenIsAttempted
<1>24. ASSUME NEW m \in Msgs, Server(m) PROVE WrittenIsAttempted'
  <2>1. m \in attempted
    BY <1>24, SMTT(40) DEF Server, ServerStores, ServerAccepts, ServerPersists, ServerRejects,
       WrittenIsAttempted
  <2>2. /\ ServerUnchanged /\ wire' \subseteq wire
        /\ \A n \in Msgs, kind \in AckKinds : <<n, kind>> \in acks' => <<n, kind>> \in acks \/ n = m
    BY <1>24, SMTT(40) DEF Server, ServerStores, ServerAccepts, ServerPersists, ServerRejects, Answers
  <2>3. \A n \in Msgs : n # m => srv'[n] = srv[n]
    BY <1>24, SMTT(40) DEF Server, ServerStores, ServerAccepts, ServerPersists, ServerRejects, QueueInv,
       TypeOK, ServerType
  <2>4. UNCHANGED <<attempted, enqueued, awaiting, sendFailed, writing, results, backoff>>
    BY <2>2 DEF ServerUnchanged
  <2>5. ASSUME NEW n \in Msgs,
               \/ srv'[n] # "none" \/ backoff'[n] > 0
               \/ \E kind \in AckKinds : <<n, kind>> \in acks'
        PROVE  n \in attempted'
    <3>1. CASE n = m
      BY <2>1, <2>4, <3>1, SMTT(40)
    <3>2. CASE n # m
      <4>1. srv[n] # "none" \/ backoff[n] > 0 \/ \E kind \in AckKinds : <<n, kind>> \in acks
        BY <2>2, <2>3, <2>4, <2>5, <3>2, ZenonT(40)
      <4> QED BY <2>4, <4>1, ZenonT(40) DEF WrittenIsAttempted
    <3> QED BY <3>1, <3>2
  <2> QED BY <2>2, <2>4, <2>5, ZenonT(40) DEF WrittenIsAttempted
<1>25. ASSUME NEW m \in Msgs, ConvergesPush(m) PROVE WrittenIsAttempted'
  <2>1. m \in attempted
    BY <1>25, Zenon DEF ConvergesPush, WrittenIsAttempted
  <2>2. /\ ServerUnchanged /\ wire' = wire /\ srv' = srv
        /\ \A n \in Msgs, kind \in AckKinds : <<n, kind>> \in acks' => <<n, kind>> \in acks \/ n = m
    BY <1>25 DEF ConvergesPush, Answers
  <2> QED BY <2>1, <2>2, ZenonT(40) DEF ServerUnchanged, WrittenIsAttempted
<1> HIDE DEF Less
<1> QED
  BY <1>4, <1>5, <1>6, <1>7, <1>8, <1>9, <1>10, <1>11, <1>12, <1>13, <1>14, <1>16, <1>17, <1>18,
     <1>19, <1>20, <1>21, <1>22, <1>23, <1>24, <1>25, Zenon
  DEF Next, Handler, Result, Tick, Writer, Ack, Disruption

\* A first send keeps its frame until it is written.
LEMMA FrameStep ==
    ASSUME QueueInv, WrittenIsAttempted, UnwrittenHasFrame, [Next]_vars
    PROVE  UnwrittenHasFrame'
<1>1. WriterType /\ retry \in [Msgs -> 0..MaxRetries]
  BY DEF QueueInv, TypeOK, RetryType
<1>2. ASSUME CalmStep PROVE UnwrittenHasFrame'
  BY <1>2, SMTT(40) DEF CalmStep, UnwrittenHasFrame
<1>3. ASSUME CutStep PROVE UnwrittenHasFrame'
  BY <1>3, SMTT(40) DEF CutStep, UnwrittenHasFrame
<1>4. ASSUME EnqueuePush PROVE UnwrittenHasFrame'
  BY <1>4 DEF EnqueuePush, UnwrittenHasFrame, tracking, writer, history
<1>5. ASSUME WriterTakes PROVE UnwrittenHasFrame'
  <2>1. writerQ \in Seq(Jobs) /\ writerQ # <<>> /\ writerQ' = Tail(writerQ) /\ inFlight' = inFlight
    BY <1>1, <1>5, SMTT(40) DEF WriterType, WriterTakes, tracking
  <2>2. /\ Len(writerQ) \in Nat /\ Head(writerQ) = writerQ[1] /\ Len(writerQ') = Len(writerQ) - 1
        /\ \A i \in 1..Len(writerQ') : writerQ'[i] = writerQ[i + 1]
    BY <2>1, TailMoves, SMTT(40)
  <2>3. /\ attempted \subseteq attempted'
        /\ Head(writerQ).live => Head(writerQ).m \in attempted'
    BY <1>5 DEF WriterTakes
  <2> SUFFICES ASSUME NEW m \in inFlight \ attempted'
               PROVE  \E i \in 1..Len(writerQ') : writerQ'[i].m = m /\ writerQ'[i].live
    BY <2>1, SMTT(40) DEF UnwrittenHasFrame
  <2>4. PICK i \in 1..Len(writerQ) : writerQ[i].m = m /\ writerQ[i].live
    BY <2>3, SMTT(40) DEF UnwrittenHasFrame
  <2>5. i # 1
    BY <2>2, <2>3, <2>4, SMTT(40)
  <2>6. i - 1 \in 1..Len(writerQ') /\ (i - 1) + 1 = i
    BY <2>2, <2>5, SMTT(40)
  <2>7. writerQ'[i - 1] = writerQ[i]
    BY <2>2, <2>6, SMTT(40)
  <2> QED BY <2>4, <2>6, <2>7, SMTT(40)
<1>6. ASSUME NEW m \in Msgs, NEW r \in 0..MaxRetries, Dispatch(m, r), UNCHANGED attempted,
             m \in inFlight \cup attempted \/ Len(writerQ) < WriterCap
      PROVE  UnwrittenHasFrame'
  <2>1. Len(writerQ) \in Nat /\ inFlight' = inFlight \cup {m}
    BY <1>1, <1>6, ChannelShape, SMTT(40) DEF WriterType, Dispatch
  <2>2. CASE writerQ' = writerQ /\ ~(Len(writerQ) < WriterCap)
    BY <1>6, <2>1, <2>2, SMTT(40) DEF UnwrittenHasFrame
  <2>3. CASE /\ Len(writerQ') = Len(writerQ) + 1
             /\ \A i \in 1..Len(writerQ) : writerQ'[i] = writerQ[i]
             /\ writerQ'[Len(writerQ) + 1].m = m /\ writerQ'[Len(writerQ) + 1].live
    <3>1. 1..Len(writerQ) \subseteq 1..Len(writerQ') /\ Len(writerQ) + 1 \in 1..Len(writerQ')
      BY <2>1, <2>3, SMTT(40)
    <3> SUFFICES ASSUME NEW n \in inFlight' \ attempted
                 PROVE  \E i \in 1..Len(writerQ') : writerQ'[i].m = n /\ writerQ'[i].live
      BY <1>6, SMTT(40) DEF UnwrittenHasFrame
    <3>2. CASE n = m
      BY <2>3, <3>1, <3>2, SMTT(40)
    <3>3. CASE n # m
      <4>1. PICK i \in 1..Len(writerQ) : writerQ[i].m = n /\ writerQ[i].live
        BY <2>1, <3>3 DEF UnwrittenHasFrame
      <4> QED BY <2>3, <3>1, <4>1, SMTT(40)
    <3> QED BY <3>2, <3>3, SMTT(40)
  <2> QED BY <1>1, <1>6, <2>2, <2>3, DispatchAppends, SMTT(40)
<1>7. ASSUME NEW m \in Msgs, NextDispatches(m) PROVE UnwrittenHasFrame'
  <2>1. Dispatch(m, retry[m]) /\ UNCHANGED attempted /\ Len(writerQ) < WriterCap
    BY <1>7 DEF NextDispatches, history
  <2> QED BY <1>1, <1>6, <2>1
<1>8. ASSUME NEW m \in Msgs, ExpireRetries(m) PROVE UnwrittenHasFrame'
  <2>1. /\ Dispatch(m, retry[m] + 1) /\ UNCHANGED attempted
        /\ m \in todo /\ worker = "expire" /\ retry[m] < MaxRetries
    BY <1>8, SMTT(40) DEF ExpireRetries, Expiring, history
  <2>2. m \in inFlight \cup attempted
    BY <2>1 DEF QueueInv, ModesAgree, WrittenIsAttempted
  <2>3. retry[m] + 1 \in 0..MaxRetries
    BY <1>1, <2>1, ConstantsAssumption
  <2> QED BY <1>6, <2>1, <2>2, <2>3, SMTT(40)
<1> QED
  BY <1>2, <1>3, <1>4, <1>5, <1>7, <1>8, StepKinds

\* Frames stay behind the first frame of every older message that was not written.
LEMMA OrderStep ==
    ASSUME QueueInv, WrittenIsAttempted, UnwrittenHasFrame, QueuedInOrder, [Next]_vars
    PROVE  QueuedInOrder'
<1>1. WriterType /\ retry \in [Msgs -> 0..MaxRetries] /\ enqueued \in Nat /\ pending \subseteq Msgs
  BY ConstantsAssumption, SMTT(40) DEF QueueInv, TypeOK, RetryType, StoreType
<1>2. ASSUME CalmStep PROVE QueuedInOrder'
  BY <1>2, SMTT(40) DEF CalmStep, QueuedInOrder
<1>3. ASSUME CutStep PROVE QueuedInOrder'
  BY <1>3, Zenon DEF CutStep, QueuedInOrder
<1>4. ASSUME EnqueuePush PROVE QueuedInOrder'
  <2>1. /\ pending' = pending \cup {enqueued}
        /\ UNCHANGED <<inFlight, writerQ, attempted>>
    BY <1>4, Zenon DEF EnqueuePush, tracking, writer, history
  <2>2. \A n \in Own : n > enqueued =>
           /\ n \notin attempted \cup inFlight
           /\ \A j \in 1..Len(writerQ) : writerQ[j].m # n
    BY <1>1, ConstantsAssumption, SMTT(40) DEF Own, Msgs, QueueInv, OnlyLaunchedLeaves, Launched,
       WrittenIsAttempted
  <2> QED BY <2>1, <2>2, SMTT(40) DEF QueuedInOrder, Own, Msgs
<1>5. ASSUME WriterTakes PROVE QueuedInOrder'
  <2>1. /\ writerQ \in Seq(Jobs) /\ writerQ # <<>> /\ writerQ' = Tail(writerQ)
        /\ UNCHANGED <<inFlight, pending>>
    BY <1>1, <1>5 DEF WriterType, WriterTakes, tracking, store
  <2>2. /\ Len(writerQ) \in Nat /\ Head(writerQ) = writerQ[1] /\ Len(writerQ') = Len(writerQ) - 1
        /\ 1 \in 1..Len(writerQ)
        /\ \A i \in 1..Len(writerQ') : i + 1 \in 1..Len(writerQ) /\ writerQ'[i] = writerQ[i + 1]
    BY <2>1, TailMoves, SMTT(40)
  <2>3. /\ attempted' = IF Head(writerQ).live THEN attempted \cup {Head(writerQ).m} ELSE attempted
    BY <1>5, SMTT(40) DEF WriterTakes
  <2> SUFFICES ASSUME NEW m \in Own, NEW n \in Own, m < n, m \in pending \ attempted'
               PROVE  /\ n \notin attempted'
                      /\ n \in inFlight => m \in inFlight
                      /\ \A j \in 1..Len(writerQ') : writerQ'[j].m = n /\ writerQ'[j].live =>
                            \E i \in 1..(j - 1) : writerQ'[i].m = m /\ writerQ'[i].live
    BY <2>1, SMTT(40) DEF QueuedInOrder
  <2>4. m \in pending \ attempted /\ ~(writerQ[1].m = m /\ writerQ[1].live)
    BY <2>2, <2>3, SMTT(40)
  <2>5. /\ n \notin attempted /\ (n \in inFlight => m \in inFlight)
        /\ \A j \in 1..Len(writerQ) : writerQ[j].m = n /\ writerQ[j].live =>
              \E i \in 1..(j - 1) : writerQ[i].m = m /\ writerQ[i].live
    BY <2>4, SMTT(40) DEF QueuedInOrder
  <2>6. ~(writerQ[1].m = n /\ writerQ[1].live)
    BY <2>2, <2>5, SMTT(40)
  <2>7. n \notin attempted'
    BY <2>2, <2>3, <2>5, <2>6, SMTT(40)
  <2>8. ASSUME NEW j \in 1..Len(writerQ'), writerQ'[j].m = n, writerQ'[j].live
        PROVE  \E i \in 1..(j - 1) : writerQ'[i].m = m /\ writerQ'[i].live
    <3>1. j + 1 \in 1..Len(writerQ) /\ writerQ[j + 1].m = n /\ writerQ[j + 1].live
      BY <2>2, <2>8, Zenon
    <3>2. PICK i \in 1..((j + 1) - 1) : writerQ[i].m = m /\ writerQ[i].live
      BY <2>5, <3>1, SMTT(40)
    <3>3. i # 1
      BY <2>4, <3>2, SMTT(40)
    <3>4. i - 1 \in 1..(j - 1) /\ i - 1 \in 1..Len(writerQ') /\ (i - 1) + 1 = i
      BY <2>2, <3>3, SMTT(40)
    <3>5. writerQ'[i - 1] = writerQ[i]
      BY <2>2, <3>4, SMTT(40)
    <3> QED BY <3>2, <3>4, <3>5, SMTT(40)
  <2> QED BY <2>5, <2>7, <2>8, SMTT(40)
<1>6. ASSUME NEW k \in Msgs, NEW r \in 0..MaxRetries, Dispatch(k, r), UNCHANGED <<attempted, pending>>,
             \A m \in Own : m < k /\ m \in pending \ attempted => m \in inFlight
      PROVE  QueuedInOrder'
  <2>1. Len(writerQ) \in Nat /\ inFlight' = inFlight \cup {k}
    BY <1>1, <1>6, ChannelShape, SMTT(40) DEF WriterType, Dispatch
  <2> SUFFICES ASSUME NEW m \in Own, NEW n \in Own, m < n, m \in pending \ attempted
               PROVE  /\ n \notin attempted
                      /\ n \in inFlight' => m \in inFlight'
                      /\ \A j \in 1..Len(writerQ') : writerQ'[j].m = n /\ writerQ'[j].live =>
                            \E i \in 1..(j - 1) : writerQ'[i].m = m /\ writerQ'[i].live
    <3>1. pending' = pending /\ attempted' = attempted
      BY <1>6
    <3> QED BY <3>1, ZenonT(60) DEF QueuedInOrder
  <2>2. /\ n \notin attempted /\ (n \in inFlight => m \in inFlight)
        /\ \A j \in 1..Len(writerQ) : writerQ[j].m = n /\ writerQ[j].live =>
              \E i \in 1..(j - 1) : writerQ[i].m = m /\ writerQ[i].live
    BY Zenon DEF QueuedInOrder
  <2>3. n \in inFlight' => m \in inFlight'
    BY <1>6, <2>1, <2>2, SMTT(40)
  <2>4. CASE writerQ' = writerQ
    BY <2>2, <2>3, <2>4, SMTT(40)
  <2>5. CASE /\ Len(writerQ') = Len(writerQ) + 1
             /\ \A i \in 1..Len(writerQ) : writerQ'[i] = writerQ[i]
             /\ writerQ'[Len(writerQ) + 1].m = k /\ writerQ'[Len(writerQ) + 1].live
    <3> SUFFICES ASSUME NEW j \in 1..Len(writerQ'), writerQ'[j].m = n, writerQ'[j].live
                 PROVE  \E i \in 1..(j - 1) : writerQ'[i].m = m /\ writerQ'[i].live
      BY <2>2, <2>3, ZenonT(40)
    <3>1. CASE j \in 1..Len(writerQ)
      <4>1. PICK i \in 1..(j - 1) : writerQ[i].m = m /\ writerQ[i].live
        BY <2>2, <2>5, <3>1, SMTT(40)
      <4>2. i \in 1..Len(writerQ)
        BY <2>1, <3>1, SMTT(40)
      <4> QED BY <2>5, <4>1, <4>2, SMTT(40)
    <3>2. CASE j = Len(writerQ) + 1
      <4>1. m \in inFlight \ attempted
        BY <1>6, <2>5, <3>2, Zenon
      <4>2. PICK i \in 1..Len(writerQ) : writerQ[i].m = m /\ writerQ[i].live
        BY <4>1, SMTT(40) DEF UnwrittenHasFrame
      <4>3. i \in 1..(j - 1)
        BY <2>1, <3>2, SMTT(40)
      <4> QED BY <2>5, <4>2, <4>3, Zenon
    <3>3. j \in 1..Len(writerQ) \/ j = Len(writerQ) + 1
      BY <2>1, <2>5, SMTT(40)
    <3> QED BY <3>1, <3>2, <3>3, SMTT(40)
  <2>6. \/ writerQ' = writerQ
        \/ /\ Len(writerQ') = Len(writerQ) + 1
           /\ \A i \in 1..Len(writerQ) : writerQ'[i] = writerQ[i]
           /\ writerQ'[Len(writerQ) + 1].m = k /\ writerQ'[Len(writerQ) + 1].live
    BY <1>1, <1>6, DispatchAppends, Zenon
  <2> QED BY <2>4, <2>5, <2>6, Zenon
<1>7. ASSUME NEW k \in Msgs, NextDispatches(k) PROVE QueuedInOrder'
  <2>1. Dispatch(k, retry[k]) /\ UNCHANGED <<attempted, pending>> /\ Picks(k)
    BY <1>7 DEF NextDispatches, history, store
  <2>2. ASSUME NEW m \in Own, m < k, m \in pending \ attempted PROVE m \in inFlight
    <3>1. m \in Msgs /\ k \in Int /\ m \in Int
      BY ConstantsAssumption DEF Own, Msgs
    <3>2. m \notin Candidates
      BY <2>1, <2>2, <3>1, SMTT(40) DEF Picks
    <3>3. m \notin awaiting /\ ~(backoff[m] > 0)
      BY <2>2, <3>1, SMTT(40) DEF WrittenIsAttempted
    <3> QED BY <2>2, <3>1, <3>2, <3>3 DEF Candidates
  <2> QED BY <1>1, <1>6, <2>1, <2>2, SMTT(40)
<1>8. ASSUME NEW k \in Msgs, ExpireRetries(k) PROVE QueuedInOrder'
  <2>1. /\ Dispatch(k, retry[k] + 1) /\ UNCHANGED <<attempted, pending>>
        /\ k \in todo /\ worker = "expire" /\ retry[k] < MaxRetries
    BY <1>8, SMTT(40) DEF ExpireRetries, Expiring, history, store
  <2>2. k \in inFlight \cup attempted /\ k \in Own
    <3>1. k \in inFlight \cup awaiting
      BY <2>1, Zenon DEF QueueInv, ModesAgree
    <3>2. k \in Launched
      BY <3>1 DEF QueueInv, OnlyLaunchedLeaves
    <3>3. k \in Own
      BY <3>2, ConstantsAssumption DEF Own, Launched, Foreign, Msgs
    <3>4. awaiting \subseteq attempted
      BY Zenon DEF WrittenIsAttempted
    <3> QED BY <3>1, <3>3, <3>4, Zenon
  <2>3. \A m \in Own : m < k /\ m \in pending \ attempted => m \in inFlight
    BY <2>2, SMTT(40) DEF QueuedInOrder
  <2>4. retry[k] + 1 \in 0..MaxRetries
    BY <1>1, <2>1, ConstantsAssumption
  <2> QED BY <1>6, <2>1, <2>3, <2>4, ZenonT(40)
<1> QED
  BY <1>2, <1>3, <1>4, <1>5, <1>7, <1>8, StepKinds, ZenonT(40)

-----------------------------------------------------------------------------
(* The queue implements its contract: the rows and the server's copies     *)

\* A message has a row exactly when it was handed in.
HandedInHasRow ==
    \A m \in Own : (m <= enqueued) <=> (lrow[m] # "none" \/ srow[m])

\* Every step but six leaves the rows and the server's copies alone.
LEMMA RowSteps ==
    ASSUME [Next]_vars
    PROVE  \/ UNCHANGED <<enqueued, lrow, srow, srv>>
           \/ EnqueueSave \/ SaveOutcome
           \/ \E resend \in BOOLEAN : Resume(resend)
           \/ \E m \in Msgs : AckDurableOrphan(m) \/ Server(m) \/ SyncSaves(m)
<1> USE DEF store, tracking, retries, flow, writer, control, server, history
<1> DEFINE Same == UNCHANGED <<enqueued, lrow, srow, srv>>
<1>1. ASSUME \/ EnqueuePush \/ EnqueuePushFails \/ SaveOutcomeFails \/ NextStops \/ ExpireDone
             \/ DropDone \/ TickExpires \/ TickReconciles \/ Pause \/ ResetPendingOnLogin \/ Crash
             \/ NetworkLoses \/ UNCHANGED vars
      PROVE  Same
  BY <1>1, ZenonT(40) DEF EnqueuePush, EnqueuePushFails, SaveOutcomeFails, NextStops, ExpireDone, DropDone,
     TickExpires, TickReconciles, Pause, ResetPendingOnLogin, Crash, NetworkLoses,
     ServerUnchanged, vars
<1>2. ASSUME NEW m \in Msgs,
             \/ NextWriterFull(m) \/ NextDispatches(m) \/ NextGivesUp(m) \/ NextDropsTerminal(m)
             \/ ExpireRetries(m) \/ ExpireFails(m) \/ DropOne(m) \/ DeadlinePasses(m)
             \/ ConvergesPush(m)
      PROVE  Same
  BY <1>2, ZenonT(60) DEF NextWriterFull, NextDispatches, NextGivesUp, NextDropsTerminal, ExpireRetries,
     ExpireFails, DropOne, DeadlinePasses, ConvergesPush, ServerUnchanged
<1>3. ASSUME ResultIgnored \/ ResultWhilePaused \/ ResultRetries \/ ResultFails PROVE Same
  BY <1>3, ZenonT(40) DEF ResultIgnored, ResultWhilePaused, ResultRetries, ResultFails
<1>4. ASSUME NEW ok \in BOOLEAN, NEW reached \in BOOLEAN,
             WriterTakes \/ WriterFinishes(ok, reached) \/ WriterAbandons(reached)
      PROVE  Same
  BY <1>4 DEF WriterTakes, WriterFinishes, WriterAbandons
<1>5. ASSUME NEW m \in Msgs,
             AckDurable(m) \/ AckAccepted(m) \/ AckBusyRetries(m) \/ AckFails(m) \/ AckIgnored(m)
      PROVE  Same
  BY <1>5, Zenon DEF AckDurable, AckAccepted, AckBusyRetries, AckFails, AckIgnored, TakeAck
<1>6. ASSUME NEW m \in Msgs, NEW r \in 0..MaxRetries, BackoffElapses(m, r) PROVE Same
  BY <1>6, Zenon DEF BackoffElapses
<1>7. ASSUME NEW cutoff \in Msgs, ExpireStalePending(cutoff) PROVE Same
  BY <1>7 DEF ExpireStalePending
<1> HIDE DEF Same
<1>8. Same => UNCHANGED <<enqueued, lrow, srow, srv>>
  BY DEF Same
<1> QED
  BY <1>1, <1>2, <1>3, <1>4, <1>5, <1>6, <1>7, <1>8, Zenon
  DEF Next, Handler, Result, Tick, Writer, Ack, Disruption

\* A row is made when a message is handed in, and from then on the message has one.
LEMMA HandedInStep ==
    ASSUME QueueInv, HandedInHasRow, [Next]_vars
    PROVE  HandedInHasRow'
<1>1. /\ enqueued \in F..N /\ lrow \in [Msgs -> LocalRow] /\ srow \in [Msgs -> BOOLEAN]
      /\ Own \subseteq Msgs /\ Msgs \subseteq Int /\ N \in Nat /\ F \in Nat
  BY ConstantsAssumption DEF QueueInv, TypeOK, StoreType, Own, Msgs
<1>2. ASSUME UNCHANGED <<enqueued, lrow, srow>> PROVE HandedInHasRow'
  BY <1>2, Zenon DEF HandedInHasRow
<1>3. ASSUME EnqueueSave PROVE HandedInHasRow'
  <2>1. /\ enqueued' = enqueued + 1 /\ lrow' = [lrow EXCEPT ![enqueued + 1] = "sending"]
        /\ srow' = srow
    BY <1>3 DEF EnqueueSave
  <2> QED BY <1>1, <2>1 DEF HandedInHasRow
<1>4. ASSUME SaveOutcome PROVE HandedInHasRow'
  <2>1. /\ enqueued' = enqueued
        /\ lrow' = [lrow EXCEPT ![saving.m] = IF saving.as = "sent" THEN "none" ELSE "failed"]
        /\ srow' = [srow EXCEPT ![saving.m] = srow[saving.m] \/ saving.as = "sent"]
    BY <1>4, Zenon DEF SaveOutcome
  <2>2. saving.m <= enqueued /\ saving.m \in Msgs
    BY <1>4, Zenon DEF SaveOutcome, QueueInv, TypeOK, ControlType, Saves, OnlyLaunchedLeaves
  <2> QED BY <1>1, <2>1, <2>2, Zenon DEF HandedInHasRow
<1>5. ASSUME NEW resend \in BOOLEAN, Resume(resend) PROVE HandedInHasRow'
  <2>1. /\ enqueued' = enqueued /\ srow' = srow
        /\ lrow' = [m \in Msgs |-> IF m \in CrossAccount \cup OrphanSending THEN "failed" ELSE lrow[m]]
    BY <1>5, Zenon DEF Resume
  <2>2. \A m \in CrossAccount \cup OrphanSending : lrow[m] # "none"
    BY DEF CrossAccount, OrphanSending
  <2> QED BY <1>1, <2>1, <2>2, Zenon DEF HandedInHasRow
<1>6. ASSUME NEW m \in Msgs, AckDurableOrphan(m) PROVE HandedInHasRow'
  <2>1. /\ enqueued' = enqueued
        /\ IF lrow[m] # "none" /\ ~srow[m]
           THEN lrow' = [lrow EXCEPT ![m] = "none"] /\ srow' = [srow EXCEPT ![m] = TRUE]
           ELSE UNCHANGED <<lrow, srow>>
    BY <1>6, Zenon DEF AckDurableOrphan
  <2> QED BY <1>1, <2>1, Zenon DEF HandedInHasRow
<1>7. ASSUME NEW m \in Msgs, Server(m) PROVE HandedInHasRow'
  BY <1>2, <1>7, Zenon DEF Server, ServerStores, ServerAccepts, ServerPersists, ServerRejects,
     ServerUnchanged, store
<1>8. ASSUME NEW m \in Msgs, SyncSaves(m) PROVE HandedInHasRow'
  <2>1. /\ enqueued' = enqueued /\ srow' = [srow EXCEPT ![m] = TRUE]
        /\ lrow' = IF lrow[m] = "sending" THEN [lrow EXCEPT ![m] = "none"] ELSE lrow
        /\ srv[m] = "stored"
    BY <1>8, ZenonT(40) DEF SyncSaves
  <2>2. m <= enqueued
    BY <1>1, <2>1 DEF QueueInv, OnlyLaunchedLeaves, Launched
  <2> QED BY <1>1, <2>1, <2>2, SMTT(40) DEF HandedInHasRow
<1> QED BY <1>2, <1>3, <1>4, <1>5, <1>6, <1>7, <1>8, RowSteps, ZenonT(40)

\* Every step is a step of the contract, or changes nothing the application sees.
LEMMA ContractStep ==
    ASSUME QueueInv, HandedInHasRow, [Next]_vars
    PROVE  [Contract!Next]_<<[m \in Own |-> View(m)], {m \in Own : srv[m] = "stored"}>>
<1> DEFINE status == [m \in Own |-> View(m)]
           stored == {m \in Own : srv[m] = "stored"}
           Goal == Contract!Next \/ UNCHANGED <<status, stored>>
<1> SUFFICES Goal
  OBVIOUS
<1>1. /\ enqueued \in F..N /\ lrow \in [Msgs -> LocalRow] /\ srow \in [Msgs -> BOOLEAN]
      /\ Own \subseteq Msgs /\ Msgs \subseteq Int /\ N \in Nat /\ F \in Nat
      /\ srv \in [Msgs -> {"none", "accepted", "stored"}]
  BY ConstantsAssumption DEF QueueInv, TypeOK, StoreType, ServerType, Own, Msgs
<1>2. ASSUME UNCHANGED <<lrow, srow, srv>> PROVE Goal
  BY <1>2, Zenon DEF View
\* One row becomes `sent' or `failed', or a message gets its first one.
<1>3. ASSUME NEW m \in Msgs, UNCHANGED srv,
             \A n \in Own : n # m => View(n)' = View(n),
             m \in Own => \/ View(m)' = View(m)
                          \/ View(m) = "none" /\ View(m)' = "sending"
                          \/ View(m) \in {"sending", "failed"} /\ View(m)' = "sent" /\ srv[m] = "stored"
                          \/ View(m) = "sending" /\ View(m)' = "failed"
      PROVE  Goal
  <2>1. stored' = stored
    BY <1>3, SMTT(40)
  <2>2. CASE m \notin Own \/ View(m)' = View(m)
    <3>1. status' = status
      BY <1>3, <2>2
    <3> QED BY <2>1, <3>1, SMTT(40)
  <2>3. ASSUME m \in Own, NEW s, View(m)' = s PROVE status' = [status EXCEPT ![m] = s]
    BY <1>3, <2>3, ZenonT(40)
  <2>4. CASE m \in Own /\ View(m) = "none" /\ View(m)' = "sending"
    <3>1. Contract!Hand(m)
      BY <2>1, <2>3, <2>4, ZenonT(40) DEF Contract!Hand
    <3> QED BY <2>4, <3>1, SMTT(40) DEF Contract!Next
  <2>5. CASE m \in Own /\ View(m) \in {"sending", "failed"} /\ View(m)' = "sent" /\ srv[m] = "stored"
    <3>1. Contract!Confirm(m)
      BY <2>1, <2>3, <2>5, ZenonT(40) DEF Contract!Confirm
    <3> QED BY <2>5, <3>1, SMTT(40) DEF Contract!Next
  <2>6. CASE m \in Own /\ View(m) = "sending" /\ View(m)' = "failed"
    <3>1. status' = [n \in Own |-> IF n \in {m} THEN "failed" ELSE status[n]]
      BY <1>3, <2>6, Zenon
    <3>2. Contract!GiveUp({m})
      BY <2>1, <2>6, <3>1 DEF Contract!GiveUp
    <3>3. {m} \in SUBSET Own
      BY <2>6, Zenon
    <3> QED BY <3>2, <3>3, SMTT(40) DEF Contract!Next
  <2> QED BY <1>3, <2>2, <2>4, <2>5, <2>6, SMTT(40)
<1>4. ASSUME EnqueueSave PROVE Goal
  <2>1. /\ enqueued + 1 \in Msgs /\ lrow' = [lrow EXCEPT ![enqueued + 1] = "sending"]
        /\ srow' = srow /\ srv' = srv
    BY <1>1, <1>4, ConstantsAssumption DEF EnqueueSave, server, Msgs
  <2> PICK k \in Msgs : k = enqueued + 1
    BY <2>1
  <2>2. k \in Own => View(k) = "none" /\ ~srow[k]
    BY <1>1, SMTT(40) DEF HandedInHasRow, View
  <2>3. \A n \in Own : n # k => View(n)' = View(n)
    BY <1>1, <2>1, SMTT(40) DEF View
  <2>4. k \in Own => View(k)' = "sending"
    BY <1>1, <2>1, <2>2, ZenonT(40) DEF View
  <2> QED BY <1>3, <2>1, <2>2, <2>3, <2>4, ZenonT(40)
<1>5. ASSUME SaveOutcome PROVE Goal
  <2>1. /\ saving.m <= enqueued /\ saving.m \in Msgs /\ saving.as \in {"sent", "failed"}
        /\ saving # NoSave
    BY <1>5, ZenonT(40) DEF SaveOutcome, QueueInv, TypeOK, ControlType, Saves, OnlyLaunchedLeaves
  <2> PICK k \in Msgs : k = saving.m
    BY <2>1, Zenon
  <2>2. /\ lrow' = [lrow EXCEPT ![k] = IF saving.as = "sent" THEN "none" ELSE "failed"]
        /\ srow' = [srow EXCEPT ![k] = srow[k] \/ saving.as = "sent"]
        /\ srv' = srv /\ k <= enqueued
    BY <1>5, <2>1 DEF SaveOutcome, server
  <2>3. saving.as = "sent" => srv[k] = "stored"
    <3>1. saving = [m |-> k, as |-> saving.as]
      BY <2>1, SMTT(40) DEF QueueInv, TypeOK, ControlType, Saves
    <3> QED BY <3>1, Zenon DEF QueueInv, SentIsStored
  <2>4. \A n \in Own : n # k => View(n)' = View(n)
    BY <1>1, <2>2, SMTT(40) DEF View
  <2>5. k \in Own => View(k) \in {"sent", "sending", "failed"}
    BY <1>1, <2>2, SMTT(40) DEF HandedInHasRow, View, LocalRow
  <2>6. CASE saving.as = "sent"
    <3>1. View(k)' = "sent"
      BY <1>1, <2>2, <2>6, ZenonT(40) DEF View
    <3> QED BY <1>3, <2>2, <2>3, <2>4, <2>5, <2>6, <3>1, SMTT(40)
  <2>7. CASE saving.as = "failed"
    <3>1. View(k)' = IF srow[k] THEN "sent" ELSE "failed"
      BY <1>1, <2>2, <2>7, Zenon DEF View
    <3>2. k \in Own => View(k)' = View(k) \/ (View(k) = "sending" /\ View(k)' = "failed")
      BY <1>1, <2>5, <3>1, Zenon DEF View, LocalRow
    <3> QED BY <1>3, <2>2, <2>4, <3>2, ZenonT(40)
  <2> QED BY <2>1, <2>6, <2>7, SMTT(40)
<1>6. ASSUME NEW resend \in BOOLEAN, Resume(resend) PROVE Goal
  <2>1. /\ srow' = srow /\ srv' = srv
        /\ lrow' = [m \in Msgs |-> IF m \in CrossAccount \cup OrphanSending THEN "failed" ELSE lrow[m]]
    BY <1>6, ZenonT(40) DEF Resume, server
  <2>2. CrossAccount \cap Own = {} /\ OrphanSending \in SUBSET Own
    BY DEF CrossAccount, OrphanSending, Own
  <2>3. \A m \in OrphanSending : View(m) = "sending" /\ ~srow[m]
    BY <1>1, <2>2, ZenonT(40) DEF OrphanSending, QueueInv, RowsAgree, View
  <2>4. stored' = stored
    BY <2>1, Zenon
  <2>5. \A m \in Own : View(m)' = IF m \in OrphanSending THEN "failed" ELSE View(m)
    BY <1>1, <2>1, <2>2, <2>3, ZenonT(40) DEF View
  <2>6. status' = [m \in Own |-> IF m \in OrphanSending THEN "failed" ELSE status[m]]
    BY <2>5, Zenon
  <2>7. Contract!GiveUp(OrphanSending)
    BY <2>2, <2>3, <2>4, <2>6, Zenon DEF Contract!GiveUp
  <2> QED BY <2>2, <2>7, SMTT(40) DEF Contract!Next
<1>7. ASSUME NEW m \in Msgs, AckDurableOrphan(m) PROVE Goal
  <2>1. /\ srv' = srv /\ <<m, "durable">> \in acks
        /\ IF lrow[m] # "none" /\ ~srow[m]
           THEN lrow' = [lrow EXCEPT ![m] = "none"] /\ srow' = [srow EXCEPT ![m] = TRUE]
           ELSE UNCHANGED <<lrow, srow>>
    BY <1>7 DEF AckDurableOrphan, TakeAck
  <2>2. srv[m] = "stored"
    BY <2>1, Zenon DEF QueueInv, RowsAgree
  <2>3. CASE lrow[m] # "none" /\ ~srow[m]
    <3>1. View(m)' = "sent" /\ View(m) \in {"sending", "failed"}
      BY <1>1, <2>1, <2>3, SMTT(40) DEF View, LocalRow
    <3>2. \A n \in Own : n # m => View(n)' = View(n)
      BY <1>1, <2>1, <2>3, Zenon DEF View
    <3> QED BY <1>3, <2>1, <2>2, <3>1, <3>2, Zenon
  <2> QED BY <1>2, <2>1, <2>3, Zenon
<1>8. ASSUME NEW m \in Msgs, SyncSaves(m) PROVE Goal
  <2>1. /\ srv' = srv /\ srv[m] = "stored" /\ ~srow[m] /\ srow' = [srow EXCEPT ![m] = TRUE]
        /\ lrow' = IF lrow[m] = "sending" THEN [lrow EXCEPT ![m] = "none"] ELSE lrow
    BY <1>8, ZenonT(40) DEF SyncSaves, server
  <2>2. m <= enqueued
    <3>1. m \in Launched
      BY <1>1, <1>8, <2>1, ZenonT(40) DEF QueueInv, OnlyLaunchedLeaves
    <3> QED BY <3>1 DEF Launched
  <2>3. m \in Own => View(m) \in {"sending", "failed"}
    BY <1>1, <2>1, <2>2, Zenon DEF HandedInHasRow, View, LocalRow
  <2>4. View(m)' = "sent" /\ \A n \in Own : n # m => View(n)' = View(n)
    BY <1>1, <2>1, Zenon DEF View
  <2> QED BY <1>3, <2>1, <2>3, <2>4, SMTT(40)
<1>9. ASSUME NEW m \in Msgs, Server(m) PROVE Goal
  <2>1. UNCHANGED <<lrow, srow>>
    BY <1>9, Zenon DEF Server, ServerStores, ServerAccepts, ServerPersists, ServerRejects,
       ServerUnchanged, store
  <2>2. status' = status
    BY <2>1, SMTT(40) DEF View
  <2>3. \/ srv' = srv
        \/ srv' = [srv EXCEPT ![m] = "stored"] /\ m \in Launched
        \/ srv' = [srv EXCEPT ![m] = "accepted"] /\ srv[m] # "stored"
    BY <1>9, ZenonT(40) DEF Server, ServerStores, ServerAccepts, ServerPersists, ServerRejects, QueueInv,
       OnlyLaunchedLeaves
  <2>4. CASE srv' = [srv EXCEPT ![m] = "stored"] /\ m \in Launched
    <3>1. m \in Own /\ m <= enqueued
      BY <1>1, <2>4 DEF Launched, Own, Foreign, Msgs
    <3>2. stored' = stored \cup {m}
      BY <1>1, <2>4, <3>1, SMTT(40)
    <3>3. status[m] # "none"
      BY <1>1, <3>1, Zenon DEF HandedInHasRow, View
    <3>4. Contract!Store(m)
      BY <2>2, <3>2, <3>3, Zenon DEF Contract!Store
    <3> QED BY <3>1, <3>4, Zenon DEF Contract!Next
  <2>5. CASE srv' = srv \/ (srv' = [srv EXCEPT ![m] = "accepted"] /\ srv[m] # "stored")
    <3>1. stored' = stored
      BY <1>1, <2>5, Zenon
    <3> QED BY <2>2, <3>1
  <2> QED BY <2>3, <2>4, <2>5, Zenon
<1> HIDE DEF Goal
<1> QED BY <1>2, <1>4, <1>5, <1>6, <1>7, <1>8, <1>9, RowSteps, ZenonT(40)

-----------------------------------------------------------------------------
(* What a pause charges                                                    *)

\* A step charges an attempt to a message, or fails it, only for an ack, in a loop over the
\* expired or dropped entries, or with the link up.
LEMMA ChargeStep ==
    ASSUME QueueInv, [Next]_vars, paused, NEW n \in Msgs,
           n \notin todo, <<n, "busy">> \notin acks, <<n, "refused">> \notin acks
    PROVE  /\ ~(retry'[n] > retry[n])
           /\ saving' = saving \/ saving' # [m |-> n, as |-> "failed"]
<1> USE DEF store, tracking, retries, flow, writer, control, server, history
<1> DEFINE Free == /\ ~(retry'[n] > retry[n])
                   /\ saving' = saving \/ saving' # [m |-> n, as |-> "failed"]
<1>1. retry \in [Msgs -> Nat] /\ Msgs \subseteq Nat \ {0} /\ MaxRetries \in Nat
  BY ConstantsAssumption, SMTT(40) DEF QueueInv, TypeOK, RetryType, Msgs
<1>2. NoSave # [m |-> n, as |-> "failed"]
  BY <1>1, Zenon DEF NoSave
<1>3. ASSUME UNCHANGED <<retry, saving>> PROVE Free
  BY <1>1, <1>3, SMTT(40)
<1>4. ASSUME \A k \in Msgs : retry'[k] = 0 \/ retry'[k] = retry[k], saving' \in {saving, NoSave}
      PROVE  Free
  BY <1>1, <1>2, <1>4, SMTT(40)
<1>5. ASSUME NEW k \in Msgs, NEW as \in {"sent", "failed"}, Settle(k, as), as = "sent" \/ k # n
      PROVE  Free
  <2>1. saving' # [m |-> n, as |-> "failed"]
    BY <1>5, ZenonT(40) DEF Settle
  <2>2. retry'[n] \in {0, retry[n]}
    BY <1>1, <1>5 DEF Settle
  <2> QED BY <1>1, <2>1, <2>2
<1>6. ASSUME \/ EnqueueSave \/ EnqueuePush \/ EnqueuePushFails \/ NextStops \/ ExpireDone
             \/ DropDone \/ TickExpires \/ Pause \/ ResetPendingOnLogin \/ NetworkLoses
             \/ UNCHANGED vars
      PROVE  Free
  BY <1>3, <1>6, Zenon DEF EnqueueSave, EnqueuePush, EnqueuePushFails, NextStops, ExpireDone, DropDone,
     TickExpires, Pause, ResetPendingOnLogin, NetworkLoses, ServerUnchanged, vars
<1>7. ASSUME SaveOutcome \/ SaveOutcomeFails \/ TickReconciles \/ Crash PROVE Free
  <2>1. saving' \in {saving, NoSave}
    BY <1>7, ZenonT(40) DEF SaveOutcome, SaveOutcomeFails, TickReconciles, Crash
  <2>2. \A k \in Msgs : retry'[k] = 0 \/ retry'[k] = retry[k]
    BY <1>7, ZenonT(40) DEF SaveOutcome, SaveOutcomeFails, TickReconciles, Crash
  <2> QED BY <1>4, <2>1, <2>2, SMTT(40)
<1>8. ASSUME NEW resend \in BOOLEAN, Resume(resend) PROVE Free
  <2>1. saving' = saving /\ \A k \in Msgs : retry'[k] = 0 \/ retry'[k] = retry[k]
    BY <1>8, ZenonT(40) DEF Resume
  <2> QED BY <1>4, <2>1, SMTT(40)
<1>9. ASSUME NEW k \in Msgs,
             NextWriterFull(k) \/ NextDispatches(k) \/ NextGivesUp(k) \/ NextDropsTerminal(k)
      PROVE  FALSE
  BY <1>9, ZenonT(40) DEF NextWriterFull, NextDispatches, NextGivesUp, NextDropsTerminal, Picks, MaySend
<1>10. ASSUME NEW k \in Msgs, ExpireRetries(k) PROVE Free
  <2>1. k # n /\ saving' = saving /\ retry' = [retry EXCEPT ![k] = retry[k] + 1]
    BY <1>10 DEF ExpireRetries, Expiring
  <2>2. retry'[n] = retry[n]
    BY <1>1, <2>1, Zenon
  <2> QED BY <1>1, <2>1, <2>2, SMTT(40)
<1>11. ASSUME NEW k \in Msgs, ExpireFails(k) \/ DropOne(k) PROVE Free
  <2>1. k # n /\ Settle(k, "failed")
    BY <1>11, ZenonT(40) DEF ExpireFails, DropOne, Expiring
  <2> QED BY <1>5, <2>1, SMTT(40)
<1>12. ASSUME NEW k \in Msgs, DeadlinePasses(k) \/ ConvergesPush(k) \/ Server(k) \/ SyncSaves(k)
       PROVE  Free
  BY <1>3, <1>12, Zenon DEF DeadlinePasses, ConvergesPush, SyncSaves, Server, ServerStores,
     ServerAccepts, ServerPersists, ServerRejects, ServerUnchanged
<1>13. ASSUME Result PROVE Free
  BY <1>3, <1>13, ZenonT(40) DEF Result, ResultIgnored, ResultWhilePaused, ResultRetries, ResultFails
<1>14. ASSUME Writer PROVE Free
  BY <1>3, <1>14, Zenon DEF Writer, WriterTakes, WriterFinishes, WriterAbandons
<1>15. ASSUME NEW k \in Msgs, AckDurableOrphan(k) \/ AckAccepted(k) \/ AckIgnored(k) PROVE Free
  BY <1>3, <1>15, ZenonT(40) DEF AckDurableOrphan, AckAccepted, AckIgnored
<1>16. ASSUME NEW k \in Msgs, AckDurable(k) PROVE Free
  BY <1>5, <1>16, Zenon DEF AckDurable
<1>17. ASSUME NEW k \in Msgs, AckFails(k) PROVE Free
  <2>1. k # n /\ Settle(k, "failed")
    BY <1>17, Zenon DEF AckFails, TakeAck
  <2> QED BY <1>5, <2>1, SMTT(40)
<1>18. ASSUME NEW k \in Msgs, AckBusyRetries(k) PROVE Free
  <2>1. k # n /\ saving' = saving /\ retry' = [retry EXCEPT ![k] = retry[k] + 1]
    BY <1>18, Zenon DEF AckBusyRetries, TakeAck
  <2>2. retry'[n] = retry[n]
    BY <1>1, <2>1
  <2> QED BY <1>1, <2>1, <2>2
<1>19. ASSUME NEW k \in Msgs, NEW r \in 0..MaxRetries, BackoffElapses(k, r) PROVE Free
  BY <1>3, <1>19, ZenonT(40) DEF BackoffElapses
<1>20. ASSUME NEW cutoff \in Msgs, ExpireStalePending(cutoff) PROVE Free
  BY <1>3, <1>20 DEF ExpireStalePending
<1> HIDE DEF Free
<1>21. Free
  BY <1>6, <1>7, <1>8, <1>9, <1>10, <1>11, <1>12, <1>13, <1>14, <1>15, <1>16, <1>17, <1>18, <1>19,
     <1>20, Zenon
  DEF Next, Handler, Tick, Ack, Disruption
<1> QED BY <1>21 DEF Free

\* While the link is down no step charges an attempt to a message or fails it, unless the server
\* answered for it or the session drops the queue (handle_send_attempt_finished, check_timeout).
THEOREM PauseIsFree == Spec => PauseChargesNothing
<1>1. QueueInv /\ [Next]_vars
      => [paused /\ paused' => \A m \in Msgs :
            (retry'[m] > retry[m] \/ (saving' = [m |-> m, as |-> "failed"] /\ saving # saving'))
            => \/ m \in todo
               \/ <<m, "busy">> \in acks \/ <<m, "refused">> \in acks]_vars
  BY ChargeStep
<1> QED
  BY <1>1, QueueInvHolds, PTL DEF Spec, PauseChargesNothing

-----------------------------------------------------------------------------
(* The order of first writes: the theorems                                 *)

\* What the order of first writes rests on: QueueInv, what was written is recorded, an unwritten
\* entry in flight has its frame, and frames queue in the order of the messages.
OrderInv == QueueInv /\ WrittenIsAttempted /\ UnwrittenHasFrame /\ QueuedInOrder

\* Nothing is written or queued at the start.
LEMMA OrderInvInit == Init => OrderInv
<1> SUFFICES ASSUME Init PROVE OrderInv
  OBVIOUS
<1>1. Len(writerQ) = 0 /\ Len(results) = 0
  BY Zenon DEF Init
<1>2. enqueued \in Nat
  BY ConstantsAssumption, SMTT(40) DEF Init
<1>3. WrittenIsAttempted
  BY <1>1, <1>2, SMTT(40) DEF Init, WrittenIsAttempted
<1>4. UnwrittenHasFrame
  BY Zenon DEF Init, UnwrittenHasFrame
<1>5. QueuedInOrder
  BY <1>1 DEF Init, QueuedInOrder, Own
<1> QED BY <1>3, <1>4, <1>5, QueueInvInit, SMTT(40) DEF OrderInv

\* OrderInv is inductive.
LEMMA OrderInvStep == OrderInv /\ [Next]_vars => OrderInv'
BY QueueInvStep, AttemptStep, FrameStep, OrderStep, SMTT(40) DEF OrderInv

\* OrderInv holds in every reachable state.
THEOREM OrderInvHolds == Spec => []OrderInv
BY OrderInvInit, OrderInvStep, PTL DEF Spec

\* An entry in flight that was never written has its frame in the writer's queue: a full writer
\* never costs a message its first send (dispatch_send_attempt).
THEOREM FirstSendHasFrame == Spec => []UnwrittenHasFrame
<1>1. OrderInv => UnwrittenHasFrame
  BY Zenon DEF OrderInv
<1> QED BY <1>1, OrderInvHolds, PTL

\* The writer starts messages in the order they were handed in, the first time each: retries,
\* reconnects, full writers and restarts never let a younger message overtake an older one that
\* waits for its first write (list_oldest_excluding, run_writer).
THEOREM FirstWritesInOrder == Spec => []FirstWriteInOrder
<1>1. OrderInv => FirstWriteInOrder
  BY DEF OrderInv, QueuedInOrder, FirstWriteInOrder, Own
<1> QED BY <1>1, OrderInvHolds, PTL

-----------------------------------------------------------------------------
(* The queue implements its contract: the theorems                         *)

\* At the start no message of this account has a row.
LEMMA ContractInit == Init => HandedInHasRow /\ Contract!Init
<1> SUFFICES ASSUME Init PROVE HandedInHasRow /\ Contract!Init
  BY Zenon
<1>1. \A m \in Own : m \in Msgs /\ m \notin Foreign /\ ~(m <= enqueued)
  BY ConstantsAssumption, SMTT(40) DEF Init, Own, Msgs, Foreign
<1>2. \A m \in Own : lrow[m] = "none" /\ srow[m] = FALSE /\ srv[m] = "none"
  BY <1>1 DEF Init
<1>3. HandedInHasRow
  BY <1>1, <1>2, Zenon DEF HandedInHasRow
<1>4. Contract!Init
  BY <1>2 DEF Contract!Init, View
<1> QED BY <1>3, <1>4

\* A message has a row exactly from the moment it was handed in, in every reachable state.
THEOREM HandedInHolds == Spec => []HandedInHasRow
<1>1. Init => HandedInHasRow
  BY ContractInit
<1>2. QueueInv /\ HandedInHasRow /\ [Next]_vars => HandedInHasRow'
  BY HandedInStep
<1> QED BY <1>1, <1>2, QueueInvHolds, PTL DEF Spec

\* The queue, its writer and its store implement OutboxContract: every step shows the
\* application a step of the contract or nothing, so `sent' is shown only for what the server
\* has and is never taken back, through lost and late acks, reconnects, resets and crashes.
THEOREM QueueKeepsContract == Spec => ContractHolds
<1>1. Init => Contract!Init
  BY ContractInit, Zenon
<1>2. QueueInv /\ HandedInHasRow /\ [Next]_vars
      => [Contract!Next]_<<[m \in Own |-> View(m)], {m \in Own : srv[m] = "stored"}>>
  BY ContractStep
<1> QED
  BY <1>1, <1>2, QueueInvHolds, HandedInHolds, PTL DEF Spec, ContractHolds, Contract!Spec

=============================================================================
