------------------------ MODULE ReliableQueueProofs ------------------------
(* The type invariant of ReliableQueue, facts about the writer's jobs,     *)
(* QueueInv, its inductive invariant, one lemma per conjunct, and the      *)
(* safety theorems that follow from it, for every value of the constants.  *)
EXTENDS ReliableQueue, TLAPS

---------------------------------------------------------------------------
(* The writer's channel as a sequence                                      *)

\* A channel is a function on its positions.
LEMMA ChannelShape ==
    ASSUME NEW S, NEW q \in Seq(S)
    PROVE  Len(q) \in Nat /\ q \in [1..Len(q) -> S] /\ DOMAIN q = 1..Len(q)
OBVIOUS

\* An empty channel has no position, and only an empty one has none.
LEMMA ChannelEmpty ==
    ASSUME NEW S
    PROVE  /\ <<>> \in Seq(S) /\ Len(<<>>) = 0
           /\ \A q \in Seq(S) : q # <<>> => Len(q) \in Nat \ {0}
OBVIOUS

\* What is sent last is received last; nothing before it moves.
LEMMA ChannelSend ==
    ASSUME NEW S, NEW q \in Seq(S), NEW x \in S
    PROVE  /\ Append(q, x) \in Seq(S) /\ Append(q, x) # <<>> /\ Len(Append(q, x)) = Len(q) + 1
           /\ \A i \in 1..Len(q) : Append(q, x)[i] = q[i]
           /\ Append(q, x)[Len(q) + 1] = x
OBVIOUS

\* Receiving takes the first and moves the others up by one.
LEMMA ChannelReceive ==
    ASSUME NEW S, NEW q \in Seq(S), q # <<>>
    PROVE  /\ Head(q) \in S /\ Tail(q) \in Seq(S) /\ Len(Tail(q)) = Len(q) - 1
           /\ \A i \in 1..Len(Tail(q)) : Tail(q)[i] = q[i + 1]
OBVIOUS

---------------------------------------------------------------------------
(* The type invariant                                                      *)

\* note_success and note_congestion keep the adaptive window between 1 and the configured maximum.
LEMMA WindowTypes ==
    ASSUME FlowType, NoteSuccess \/ NoteCongestion
    PROVE  window' \in 1..MaxInFlight /\ successes' \in 0..MaxInFlight
BY ConstantsAssumption DEF NoteSuccess, NoteCongestion, FlowType

\* The fields of a job handed to the writer have their types.
LEMMA JobFields ==
    ASSUME NEW job \in Jobs
    PROVE  job.m \in Msgs /\ job.r \in 0..MaxRetries /\ job.live \in BOOLEAN
BY DEF Jobs

\* The job built by dispatch_send_attempt is a job.
LEMMA NewJob ==
    ASSUME NEW m \in Msgs, NEW r \in 0..MaxRetries
    PROVE  [m |-> m, r |-> r, live |-> TRUE] \in Jobs
BY DEF Jobs

\* Taking the oldest job of a channel yields a job and leaves a channel of jobs.
LEMMA HeadJob ==
    ASSUME NEW q \in Seq(Jobs), q # <<>>
    PROVE  /\ Head(q) \in Jobs /\ Tail(q) \in Seq(Jobs)
           /\ Head(q).m \in Msgs /\ Head(q).r \in 0..MaxRetries
BY ChannelReceive, JobFields

\* An ack put in transit has the type of an ack.
LEMMA NewAck ==
    ASSUME ServerType, NEW m \in Msgs, NEW kind \in AckKinds, acks' = acks \cup {<<m, kind>>}
    PROVE  acks' \subseteq Msgs \X AckKinds
BY DEF ServerType

\* Marking a job as of an old generation keeps its type.
LEMMA StaleTypes ==
    ASSUME NEW job \in Jobs \cup {NoJob}
    PROVE  /\ Stale(job) \in Jobs \cup {NoJob}
           /\ job \in Jobs => Stale(job) \in Jobs
<1>1. CASE job \in Jobs
  <2>1. job.m \in Msgs /\ job.r \in 0..MaxRetries
    BY <1>1, JobFields
  <2> QED
    BY <2>1 DEF Stale, Jobs
<1>2. CASE job = NoJob
  <2>1. Stale(NoJob) = NoJob
    BY DEF Stale, NoJob
  <2>2. NoJob \notin Jobs
    BY ConstantsAssumption DEF NoJob, Jobs, Msgs
  <2> QED
    BY <1>2, <2>1, <2>2
<1> QED
  BY <1>1, <1>2

\* Marking all jobs of a channel keeps the type of the channel.
LEMMA StaleSeq ==
    ASSUME NEW q \in Seq(Jobs)
    PROVE  [i \in 1..Len(q) |-> Stale(q[i])] \in Seq(Jobs)
<1>1. \A i \in 1..Len(q) : Stale(q[i]) \in Jobs
  BY StaleTypes
<1> QED
  BY <1>1, ChannelShape

\* bump_dispatch_generation keeps the types of the writer's state.
LEMMA BumpTypes ==
    ASSUME WriterType, BumpGeneration
    PROVE  WriterType'
BY StaleTypes, StaleSeq DEF WriterType, BumpGeneration

\* The initial state is well typed.
LEMMA TypeInit == Init => TypeOK
<1> SUFFICES ASSUME Init PROVE TypeOK
  OBVIOUS
<1>1. StoreType
  BY ConstantsAssumption DEF Init, StoreType, LocalRow, Foreign, Msgs
<1>2. FlowType
  BY ConstantsAssumption DEF Init, FlowType, InitialWindow
<1>3. TrackingType /\ RetryType /\ WriterType
  BY ConstantsAssumption DEF Init, TrackingType, RetryType, WriterType
<1>4. ControlType /\ ServerType /\ HistoryType
  BY SMTT(40) DEF Init, ControlType, Modes, ServerType, HistoryType
<1> QED
  BY <1>1, <1>2, <1>3, <1>4 DEF TypeOK

\* Every step keeps the types: one case per action, one step per group of variables it changes.
LEMMA TypeStep == TypeOK /\ ModesAgree /\ [Next]_vars => TypeOK'
<1> SUFFICES ASSUME TypeOK, ModesAgree, [Next]_vars PROVE TypeOK'
  OBVIOUS
<1> USE ConstantsAssumption DEF TypeOK, ModesAgree, Msgs, store, tracking, retries, flow, writer,
   control, server, history
<1>1. CASE EnqueueSave
  <2>1. StoreType'
    BY <1>1 DEF EnqueueSave, StoreType, LocalRow, Foreign
  <2>2. ControlType'
    BY <1>1 DEF EnqueueSave, ControlType, Modes, Saves, NoSave
  <2> QED
    BY <1>1, <2>1, <2>2, Zenon DEF EnqueueSave, Idle, TrackingType, RetryType, FlowType, WriterType,
       ServerType, HistoryType
<1>2. CASE EnqueuePush
  <2>1. StoreType'
    BY <1>2, ModesAgree DEF EnqueuePush, StoreType, LocalRow, Foreign
  <2>2. ControlType'
    BY <1>2, ModesAgree DEF EnqueuePush, ControlType, Modes, Saves, NoSave
  <2> QED
    BY <1>2, <2>1, <2>2, Zenon DEF EnqueuePush, TrackingType, RetryType, FlowType, WriterType,
       ServerType, HistoryType
<1>3. CASE EnqueuePushFails
  <2>1. ControlType'
    BY <1>3, ModesAgree DEF EnqueuePushFails, ControlType, Modes, Saves, NoSave
  <2>2. HistoryType'
    BY <1>3, ModesAgree, Zenon DEF EnqueuePushFails, HistoryType
  <2> QED
    BY <1>3, <2>1, <2>2, Zenon DEF EnqueuePushFails, StoreType, TrackingType, RetryType, FlowType,
       WriterType, ServerType
<1>4. CASE SaveOutcome
  <2>1. StoreType'
    BY <1>4, Zenon DEF SaveOutcome, StoreType, LocalRow, Foreign
  <2>2. ControlType'
    BY <1>4 DEF SaveOutcome, ControlType, Modes, Saves, NoSave
  <2> QED
    BY <1>4, <2>1, <2>2, Zenon DEF SaveOutcome, TrackingType, RetryType, FlowType, WriterType,
       ServerType, HistoryType
<1>5. CASE SaveOutcomeFails
  <2>1. ControlType'
    BY <1>5, Zenon DEF SaveOutcomeFails, ControlType, Modes, Saves, NoSave
  <2>2. HistoryType'
    BY <1>5, Zenon DEF SaveOutcomeFails, ControlType, Saves, NoSave, HistoryType
  <2> QED
    BY <1>5, <2>1, <2>2, Zenon DEF SaveOutcomeFails, StoreType, TrackingType, RetryType, FlowType,
       WriterType, ServerType
<1>6. ASSUME NEW m \in Msgs, AckDurable(m) PROVE TypeOK'
  <2>1. StoreType'
    BY <1>6 DEF AckDurable, Settle, StoreType, LocalRow, Foreign
  <2>2. TrackingType'
    BY <1>6 DEF AckDurable, Untrack, TrackingType
  <2>3. RetryType'
    BY <1>6 DEF AckDurable, Settle, RetryType
  <2>4. FlowType'
    BY <1>6, WindowTypes DEF AckDurable, FlowType
  <2>5. ControlType'
    BY <1>6 DEF AckDurable, TakeAck, Settle, ControlType, Modes, Saves, NoSave
  <2>6. ServerType'
    BY <1>6 DEF AckDurable, TakeAck, ServerType, AckKinds
  <2> QED
    BY <1>6, <2>1, <2>2, <2>3, <2>4, <2>5, <2>6, SMTT(40) DEF AckDurable, TakeAck, Idle, Settle, Untrack,
       WriterType, HistoryType
<1>7. ASSUME NEW m \in Msgs, AckDurableOrphan(m) PROVE TypeOK'
  <2>1. StoreType'
    BY <1>7, Zenon DEF AckDurableOrphan, StoreType, LocalRow, Foreign
  <2>2. ControlType'
    BY <1>7 DEF AckDurableOrphan, TakeAck, ControlType, Modes, Saves, NoSave
  <2>3. ServerType'
    BY <1>7 DEF AckDurableOrphan, TakeAck, ServerType, AckKinds
  <2> QED
    BY <1>7, <2>1, <2>2, <2>3, Zenon DEF AckDurableOrphan, TakeAck, Idle, TrackingType, RetryType,
       FlowType, WriterType, HistoryType
<1>8. ASSUME NEW m \in Msgs, AckAccepted(m) PROVE TypeOK'
  <2>1. TrackingType'
    BY <1>8 DEF AckAccepted, TrackingType
  <2>2. RetryType'
    BY <1>8 DEF AckAccepted, RetryType
  <2>3. FlowType'
    BY <1>8, WindowTypes DEF AckAccepted, FlowType
  <2>4. ControlType'
    BY <1>8 DEF AckAccepted, TakeAck, ControlType, Modes, Saves, NoSave
  <2>5. ServerType'
    BY <1>8 DEF AckAccepted, TakeAck, ServerType, AckKinds
  <2> QED
    BY <1>8, <2>1, <2>2, <2>3, <2>4, <2>5, SMTT(40) DEF AckAccepted, TakeAck, Idle, StoreType, WriterType,
       HistoryType
<1>9. ASSUME NEW m \in Msgs, AckBusyRetries(m) PROVE TypeOK'
  <2>1. TrackingType'
    BY <1>9 DEF AckBusyRetries, Untrack, TrackingType
  <2>2. RetryType'
    BY <1>9, SMTT(40) DEF AckBusyRetries, RetryType
  <2>3. FlowType'
    BY <1>9, WindowTypes DEF AckBusyRetries, FlowType
  <2>4. ControlType'
    BY <1>9 DEF AckBusyRetries, TakeAck, ControlType, Modes, Saves, NoSave
  <2>5. ServerType'
    BY <1>9 DEF AckBusyRetries, TakeAck, ServerType, AckKinds
  <2> QED
    BY <1>9, <2>1, <2>2, <2>3, <2>4, <2>5, Zenon DEF AckBusyRetries, TakeAck, Idle, Untrack, StoreType,
       WriterType, HistoryType
<1>10. ASSUME NEW m \in Msgs, AckFails(m) PROVE TypeOK'
  <2>1. StoreType'
    BY <1>10 DEF AckFails, Settle, StoreType, LocalRow, Foreign
  <2>2. TrackingType'
    BY <1>10 DEF AckFails, Untrack, TrackingType
  <2>3. RetryType'
    BY <1>10 DEF AckFails, Settle, RetryType
  <2>4. ControlType'
    BY <1>10, Zenon DEF AckFails, TakeAck, Settle, ControlType, Modes, Saves, NoSave
  <2>5. ServerType'
    BY <1>10, Zenon DEF AckFails, TakeAck, ServerType, AckKinds
  <2> QED
    BY <1>10, <2>1, <2>2, <2>3, <2>4, <2>5, SMTT(40) DEF AckFails, TakeAck, Idle, Settle, Untrack,
       FlowType, WriterType, HistoryType
<1>11. ASSUME NEW m \in Msgs, AckIgnored(m) PROVE TypeOK'
  <2>1. ControlType'
    BY <1>11, SMTT(40) DEF AckIgnored, TakeAck, ControlType, Modes, Saves, NoSave
  <2>2. ServerType'
    BY <1>11 DEF AckIgnored, TakeAck, ServerType, AckKinds
  <2> QED
    BY <1>11, <2>1, <2>2, Zenon DEF AckIgnored, TakeAck, Idle, StoreType, TrackingType, RetryType,
       FlowType, WriterType, HistoryType
<1>12. CASE ResultIgnored
  <2>1. WriterType'
    BY <1>12 DEF ResultIgnored, TakeResult, WriterType
  <2> QED
    BY <1>12, <2>1, Zenon DEF ResultIgnored, TakeResult, Idle, StoreType, TrackingType, RetryType,
       FlowType, ControlType, ServerType, HistoryType
<1>13. CASE ResultWhilePaused
  <2>1. TrackingType'
    BY <1>13, Zenon DEF ResultWhilePaused, Charged, TrackingType
  <2>2. WriterType'
    BY <1>13, SMTT(40) DEF ResultWhilePaused, TakeResult, WriterType
  <2> QED
    BY <1>13, <2>1, <2>2, Zenon DEF ResultWhilePaused, TakeResult, Idle, Charged, StoreType, RetryType,
       FlowType, ControlType, ServerType, HistoryType
<1>14. CASE ResultRetries
  <2>1. TrackingType'
    BY <1>14, Zenon DEF ResultRetries, Charged, TrackingType
  <2>2. RetryType'
    <3>1. Head(results).m \in Msgs /\ Head(results).r \in 0..MaxRetries
      BY <1>14, HeadJob, SMTT(40) DEF ResultRetries, TakeResult, WriterType
    <3>2. retry' \in [Msgs -> 0..MaxRetries]
      BY <1>14, <3>1, SMTT(40) DEF ResultRetries, RetryType
    <3> QED
      BY <1>14, <3>2, SMTT(40) DEF ResultRetries, RetryType
  <2>3. FlowType'
    BY <1>14, WindowTypes DEF ResultRetries, FlowType
  <2>4. WriterType'
    BY <1>14, SMTT(40) DEF ResultRetries, TakeResult, WriterType
  <2> QED
    BY <1>14, <2>1, <2>2, <2>3, <2>4, SMTT(40) DEF ResultRetries, TakeResult, Idle, Charged, StoreType,
       ControlType, ServerType, HistoryType
<1>15. CASE ResultFails
  <2>1. StoreType'
    BY <1>15, Zenon DEF ResultFails, Settle, StoreType, LocalRow, Foreign
  <2>2. TrackingType'
    BY <1>15, Zenon DEF ResultFails, Untrack, TrackingType
  <2>3. RetryType'
    <3>1. retry' = [retry EXCEPT ![Head(results).m] = 0] /\ UNCHANGED <<backoff, timers>>
      BY <1>15, Zenon DEF ResultFails, Settle
    <3>2. 0 \in 0..MaxRetries
      OBVIOUS
    <3> QED
      BY <3>1, <3>2, Zenon DEF RetryType
  <2>4. FlowType'
    BY <1>15, WindowTypes DEF ResultFails, FlowType
  <2>5. WriterType'
    BY <1>15 DEF ResultFails, TakeResult, WriterType
  <2>6. ControlType'
    BY <1>15, HeadJob, ZenonT(40) DEF ResultFails, Settle, TakeResult, WriterType, ControlType, Modes, Saves,
       NoSave
  <2> QED
    BY <1>15, <2>1, <2>2, <2>3, <2>4, <2>5, <2>6, SMTT(40) DEF ResultFails, TakeResult, Idle, Charged,
       Settle, Untrack, ServerType, HistoryType
<1>16. CASE NextStops
  <2>1. ControlType'
    BY <1>16 DEF NextStops, ControlType, Modes, Saves, NoSave
  <2> QED
    BY <1>16, <2>1, Zenon DEF NextStops, StoreType, TrackingType, RetryType, FlowType, WriterType,
       ServerType, HistoryType
<1>17. ASSUME NEW m \in Msgs, NextWriterFull(m) PROVE TypeOK'
  <2>1. ControlType'
    BY <1>17 DEF NextWriterFull, ControlType, Modes, Saves, NoSave
  <2> QED
    BY <1>17, <2>1, ZenonT(40) DEF NextWriterFull, StoreType, TrackingType, RetryType, FlowType, WriterType,
       ServerType, HistoryType
<1>18. ASSUME NEW m \in Msgs, NextDispatches(m) PROVE TypeOK'
  <2>1. TrackingType'
    BY <1>18, Zenon DEF NextDispatches, Dispatch, TrackingType
  <2>2. WriterType'
    BY <1>18, NewJob, SMTT(40) DEF NextDispatches, Dispatch, RetryType, WriterType
  <2> QED
    BY <1>18, <2>1, <2>2, ZenonT(40) DEF NextDispatches, Dispatch, StoreType, RetryType, FlowType,
       ControlType, ServerType, HistoryType
<1>19. ASSUME NEW m \in Msgs, NextGivesUp(m) PROVE TypeOK'
  <2>1. StoreType'
    BY <1>19, Zenon DEF NextGivesUp, Settle, StoreType, LocalRow, Foreign
  <2>2. RetryType'
    BY <1>19, SMTT(40) DEF NextGivesUp, Settle, RetryType
  <2>3. ControlType'
    BY <1>19, Zenon DEF NextGivesUp, Settle, ControlType, Modes, Saves, NoSave
  <2> QED
    BY <1>19, <2>1, <2>2, <2>3, Zenon DEF NextGivesUp, Settle, TrackingType, FlowType, WriterType,
       ServerType, HistoryType
<1>20. ASSUME NEW m \in Msgs, NextDropsTerminal(m) PROVE TypeOK'
  <2>1. StoreType'
    BY <1>20, Zenon DEF NextDropsTerminal, StoreType, LocalRow, Foreign
  <2>2. RetryType'
    BY <1>20, SMTT(40) DEF NextDropsTerminal, RetryType
  <2> QED
    BY <1>20, <2>1, <2>2, Zenon DEF NextDropsTerminal, TrackingType, FlowType, WriterType, ControlType,
       ServerType, HistoryType
<1>21. ASSUME NEW m \in Msgs, DeadlinePasses(m) PROVE TypeOK'
  <2>1. TrackingType'
    BY <1>21 DEF DeadlinePasses, TrackingType
  <2> QED
    BY <1>21, <2>1, ZenonT(40) DEF DeadlinePasses, StoreType, RetryType, FlowType, WriterType, ControlType,
       ServerType, HistoryType
<1>22. CASE TickReconciles
  <2>1. StoreType'
    BY <1>22, Zenon DEF TickReconciles, StoreType, LocalRow, Foreign
  <2>2. TrackingType'
    BY <1>22, ZenonT(40) DEF TickReconciles, TrackingType
  <2>3. RetryType'
    <3>1. /\ \E S : retry' = [m \in Msgs |-> IF m \in S THEN 0 ELSE retry[m]]
          /\ UNCHANGED <<backoff, timers>>
      BY <1>22, ZenonT(40) DEF TickReconciles
    <3> QED BY <3>1, SMTT(30) DEF RetryType
  <2>4. ControlType'
    BY <1>22, ZenonT(40) DEF TickReconciles, ControlType, Modes, Saves, NoSave
  <2> QED
    BY <1>22, <2>1, <2>2, <2>3, <2>4, Zenon DEF TickReconciles, Terminal, Idle, FlowType, WriterType,
       ServerType, HistoryType
<1>23. CASE TickExpires
  <2>1. ControlType'
    BY <1>23, Zenon DEF TickExpires, TrackingType, ControlType, Modes, Saves, NoSave
  <2> QED
    BY <1>23, <2>1, ZenonT(40) DEF TickExpires, Idle, StoreType, TrackingType, RetryType, FlowType,
       WriterType, ServerType, HistoryType
<1>24. ASSUME NEW m \in Msgs, ExpireRetries(m) PROVE TypeOK'
  <2>1. TrackingType'
    BY <1>24, Zenon DEF ExpireRetries, Dispatch, TrackingType
  <2>2. RetryType'
    <3>1. retry' = [retry EXCEPT ![m] = retry[m] + 1] /\ UNCHANGED <<backoff, timers>>
      BY <1>24, Zenon DEF ExpireRetries
    <3>2. retry[m] + 1 \in 0..MaxRetries
      BY <1>24 DEF ExpireRetries, RetryType
    <3> QED
      BY <3>1, <3>2, Zenon DEF RetryType
  <2>3. FlowType'
    BY <1>24, WindowTypes DEF ExpireRetries, Expiring, FlowType
  <2>4. WriterType'
    BY <1>24, NewJob, SMTT(40) DEF ExpireRetries, Dispatch, RetryType, WriterType
  <2>5. ControlType'
    BY <1>24, Zenon DEF ExpireRetries, Expiring, ControlType, Modes, Saves, NoSave
  <2> QED
    BY <1>24, <2>1, <2>2, <2>3, <2>4, <2>5, Zenon DEF ExpireRetries, Expiring, Dispatch, StoreType,
       ServerType, HistoryType
<1>25. ASSUME NEW m \in Msgs, ExpireFails(m) PROVE TypeOK'
  <2>1. StoreType'
    BY <1>25, SMTT(40) DEF ExpireFails, Settle, StoreType, LocalRow, Foreign
  <2>2. TrackingType'
    BY <1>25, Zenon DEF ExpireFails, Untrack, TrackingType
  <2>3. RetryType'
    BY <1>25, SMTT(40) DEF ExpireFails, Settle, RetryType
  <2>4. FlowType'
    BY <1>25, WindowTypes, Zenon DEF ExpireFails, Expiring, FlowType
  <2>5. ControlType'
    BY <1>25, SMTT(40) DEF ExpireFails, Expiring, Settle, ControlType, Modes, Saves, NoSave
  <2> QED
    BY <1>25, <2>1, <2>2, <2>3, <2>4, <2>5, Zenon DEF ExpireFails, Expiring, Settle, Untrack,
       WriterType, ServerType, HistoryType
<1>26. CASE ExpireDone
  <2>1. ControlType'
    BY <1>26, Zenon DEF ExpireDone, ControlType, Modes, Saves, NoSave
  <2> QED
    BY <1>26, <2>1, ZenonT(40) DEF ExpireDone, StoreType, TrackingType, RetryType, FlowType, WriterType,
       ServerType, HistoryType
<1>27. ASSUME NEW m \in Msgs, NEW r \in 0..MaxRetries, BackoffElapses(m, r) PROVE TypeOK'
  <2>1. RetryType'
    <3>1. backoff' \in [Msgs -> 0..MaxRetries]
      BY <1>27, SMTT(40) DEF BackoffElapses, RetryType
    <3>2. timers' \subseteq timers
      BY <1>27, Zenon DEF BackoffElapses
    <3> QED
      BY <1>27, <3>1, <3>2, Zenon DEF BackoffElapses, RetryType
  <2>2. ControlType'
    BY <1>27, SMTT(40) DEF BackoffElapses, ControlType, Modes, Saves, NoSave
  <2> QED
    BY <1>27, <2>1, <2>2, Zenon DEF BackoffElapses, Idle, StoreType, TrackingType, FlowType, WriterType,
       ServerType, HistoryType
<1>28. CASE Pause
  <2>1. FlowType'
    BY <1>28, SMTT(40) DEF Pause, FlowType
  <2> QED
    BY <1>28, <2>1, ZenonT(40) DEF Pause, Idle, StoreType, TrackingType, RetryType, WriterType, ControlType,
       ServerType, HistoryType
<1>29. ASSUME NEW resend \in BOOLEAN, Resume(resend) PROVE TypeOK'
  <2>1. StoreType'
    BY <1>29, Zenon DEF Resume, StoreType, LocalRow, Foreign
  <2>2. TrackingType'
    BY <1>29, ZenonT(40) DEF Resume, TrackingType
  <2>3. RetryType'
    BY <1>29, SMTT(30) DEF Resume, RetryType
  <2>4. FlowType'
    BY <1>29, ZenonT(40) DEF Resume, FlowType
  <2>5. WriterType'
    BY <1>29, BumpTypes, SMTT(40) DEF Resume, WriterType
  <2>6. ControlType'
    BY <1>29, ZenonT(40) DEF Resume, ControlType, Modes, Saves, NoSave
  <2>7. HistoryType'
    BY <1>29, ZenonT(40) DEF Resume, HistoryType
  <2> QED
    BY <1>29, <2>1, <2>2, <2>3, <2>4, <2>5, <2>6, <2>7, ZenonT(40) DEF Resume, Idle, ServerType
<1>30. CASE ResetPendingOnLogin
  <2>1. TrackingType'
    BY <1>30, Zenon DEF ResetPendingOnLogin, TrackingType
  <2>2. RetryType'
    BY <1>30, SMTT(40) DEF ResetPendingOnLogin, RetryType
  <2>3. WriterType'
    BY <1>30, BumpTypes, Zenon DEF ResetPendingOnLogin, WriterType
  <2>4. ControlType'
    BY <1>30, SMTT(40) DEF ResetPendingOnLogin, StoreType, ControlType, Modes, Saves, NoSave
  <2> QED
    BY <1>30, <2>1, <2>2, <2>3, <2>4, ZenonT(40) DEF ResetPendingOnLogin, Idle, StoreType, FlowType,
       ServerType, HistoryType
<1>31. ASSUME NEW cutoff \in Msgs, ExpireStalePending(cutoff) PROVE TypeOK'
  <2>1. ControlType'
    BY <1>31, ZenonT(40) DEF ExpireStalePending, StoreType, ControlType, Modes, Saves, NoSave
  <2> QED
    BY <1>31, <2>1, Zenon DEF ExpireStalePending, Idle, StoreType, TrackingType, RetryType, FlowType,
       WriterType, ServerType, HistoryType
<1>32. ASSUME NEW m \in Msgs, DropOne(m) PROVE TypeOK'
  <2>1. StoreType'
    BY <1>32, Zenon DEF DropOne, Settle, StoreType, LocalRow, Foreign
  <2>2. TrackingType'
    BY <1>32, Zenon DEF DropOne, Untrack, TrackingType
  <2>3. RetryType'
    BY <1>32, SMTT(30) DEF DropOne, Settle, RetryType
  <2>4. ControlType'
    BY <1>32, SMTT(40) DEF DropOne, Settle, ControlType, Modes, Saves, NoSave
  <2> QED
    BY <1>32, <2>1, <2>2, <2>3, <2>4, Zenon DEF DropOne, Settle, Untrack, FlowType, WriterType,
       ServerType, HistoryType
<1>33. CASE DropDone
  <2>1. ControlType'
    BY <1>33, SMTT(40) DEF DropDone, ControlType, Modes, Saves, NoSave
  <2> QED
    BY <1>33, <2>1, ZenonT(40) DEF DropDone, StoreType, TrackingType, RetryType, FlowType, WriterType,
       ServerType, HistoryType
<1>34. CASE WriterTakes
  <2>1. WriterType'
    BY <1>34, SMTT(40) DEF WriterTakes, WriterType
  <2>2. HistoryType'
    <3>1. Head(writerQ).m \in Msgs
      BY <1>34, HeadJob DEF WriterTakes, WriterType
    <3> QED
      BY <1>34, <3>1, ZenonT(40) DEF WriterTakes, HistoryType
  <2> QED
    BY <1>34, <2>1, <2>2, ZenonT(40) DEF WriterTakes, StoreType, TrackingType, RetryType, FlowType,
       ControlType, ServerType
<1>35. ASSUME NEW ok \in BOOLEAN, NEW reached \in BOOLEAN, WriterFinishes(ok, reached) PROVE TypeOK'
  <2>1. WriterType'
    BY <1>35, SMTT(40) DEF WriterFinishes, WriterType
  <2>2. ServerType'
    BY <1>35, JobFields, Zenon DEF WriterFinishes, WriterType, ServerType, AckKinds
  <2> QED
    BY <1>35, <2>1, <2>2, Zenon DEF WriterFinishes, StoreType, TrackingType, RetryType, FlowType,
       ControlType, HistoryType
<1>36. ASSUME NEW reached \in BOOLEAN, WriterAbandons(reached) PROVE TypeOK'
  <2>1. WriterType'
    BY <1>36 DEF WriterAbandons, WriterType
  <2>2. ServerType'
    BY <1>36, JobFields, ZenonT(40) DEF WriterAbandons, WriterType, ServerType, AckKinds
  <2> QED
    BY <1>36, <2>1, <2>2, Zenon DEF WriterAbandons, StoreType, TrackingType, RetryType, FlowType,
       ControlType, HistoryType
<1>37. ASSUME NEW m \in Msgs, ServerStores(m) PROVE TypeOK'
  <2>1. ServerType'
    BY <1>37, NewAck, ZenonT(40) DEF ServerStores, Answers, ServerType, AckKinds
  <2> QED
    BY <1>37, <2>1, Zenon DEF ServerStores, Answers, ServerUnchanged, StoreType, TrackingType,
       RetryType, FlowType, WriterType, ControlType, HistoryType
<1>38. ASSUME NEW m \in Msgs, ServerAccepts(m) PROVE TypeOK'
  <2>1. ServerType'
    BY <1>38, NewAck, Zenon DEF ServerAccepts, Answers, ServerType, AckKinds
  <2> QED
    BY <1>38, <2>1, Zenon DEF ServerAccepts, Answers, ServerUnchanged, StoreType, TrackingType,
       RetryType, FlowType, WriterType, ControlType, HistoryType
<1>39. ASSUME NEW m \in Msgs, ServerPersists(m) PROVE TypeOK'
  <2>1. ServerType'
    BY <1>39 DEF ServerPersists, Answers, ServerType, AckKinds
  <2> QED
    BY <1>39, <2>1, ZenonT(40) DEF ServerPersists, Answers, ServerUnchanged, StoreType, TrackingType,
       RetryType, FlowType, WriterType, ControlType, HistoryType
<1>40. ASSUME NEW m \in Msgs, NEW kind \in {"busy", "refused"}, ServerRejects(m, kind) PROVE TypeOK'
  <2>1. ServerType'
    BY <1>40, SMTT(40) DEF ServerRejects, Answers, ServerType, AckKinds
  <2> QED
    BY <1>40, <2>1, ZenonT(40) DEF ServerRejects, Answers, ServerUnchanged, StoreType, TrackingType,
       RetryType, FlowType, WriterType, ControlType, HistoryType
<1>41. CASE NetworkLoses
  <2>1. ServerType'
    BY <1>41, ZenonT(40) DEF NetworkLoses, ServerType, AckKinds
  <2> QED
    BY <1>41, <2>1, ZenonT(40) DEF NetworkLoses, ServerUnchanged, StoreType, TrackingType, RetryType,
       FlowType, WriterType, ControlType, HistoryType
<1>42. ASSUME NEW m \in Msgs, ConvergesPush(m) PROVE TypeOK'
  <2>1. ServerType'
    BY <1>42, SMTT(40) DEF ConvergesPush, Answers, ServerType, AckKinds
  <2> QED
    BY <1>42, <2>1, Zenon DEF ConvergesPush, Answers, ServerUnchanged, StoreType, TrackingType,
       RetryType, FlowType, WriterType, ControlType, HistoryType
<1>43. ASSUME NEW m \in Msgs, SyncSaves(m) PROVE TypeOK'
  <2>1. StoreType'
    BY <1>43, Zenon DEF SyncSaves, StoreType, LocalRow, Foreign
  <2> QED
    BY <1>43, <2>1, ZenonT(40) DEF SyncSaves, TrackingType, RetryType, FlowType, WriterType, ControlType,
       ServerType, HistoryType
<1>44. CASE Crash
  <2>1. TrackingType'
    BY <1>44, Zenon DEF Crash, TrackingType
  <2>2. RetryType'
    BY <1>44, SMTT(40) DEF Crash, RetryType
  <2>3. FlowType'
    BY <1>44, SMTT(40) DEF Crash, InitialWindow, FlowType
  <2>4. WriterType'
    BY <1>44, SMTT(40) DEF Crash, WriterType
  <2>5. ControlType'
    BY <1>44, Zenon DEF Crash, ControlType, Modes, Saves, NoSave
  <2>6. ServerType'
    BY <1>44, SMTT(40) DEF Crash, ServerType, AckKinds
  <2>7. HistoryType'
    BY <1>44, Zenon DEF Crash, HistoryType
  <2> QED
    BY <1>44, <2>1, <2>2, <2>3, <2>4, <2>5, <2>6, <2>7, ZenonT(40) DEF Crash, StoreType
<1>45. CASE UNCHANGED vars
  BY <1>45, Zenon DEF vars, StoreType, TrackingType, RetryType, FlowType, WriterType, ControlType,
     ServerType, HistoryType
<1> QED
  BY <1>1, <1>2, <1>3, <1>4, <1>5, <1>6, <1>7, <1>8, <1>9, <1>10, <1>11, <1>12, <1>13, <1>14,
     <1>15, <1>16, <1>17, <1>18, <1>19, <1>20, <1>21, <1>22, <1>23, <1>24, <1>25, <1>26, <1>27,
     <1>28, <1>29, <1>30, <1>31, <1>32, <1>33, <1>34, <1>35, <1>36, <1>37, <1>38, <1>39, <1>40,
     <1>41, <1>42, <1>43, <1>44, <1>45, ZenonT(40)
  DEF Next, Handler, Result, Tick, Writer, Ack, Server, Disruption

---------------------------------------------------------------------------
(* QueueInv                                                                *)

\* bump_dispatch_generation changes no message id and invents no frame.
LEMMA BumpKeeps ==
    ASSUME WriterType, BumpGeneration
    PROVE  /\ \A i \in 1..Len(writerQ') : i \in 1..Len(writerQ) /\ writerQ'[i].m = writerQ[i].m
           /\ writing' # NoJob => writing # NoJob /\ writing'.m = writing.m
<1>1. Len(writerQ) \in Nat /\ writerQ' \in Seq(Jobs)
  BY BumpTypes, ChannelShape DEF WriterType
<1>2. DOMAIN writerQ' = 1..Len(writerQ') /\ DOMAIN writerQ' = 1..Len(writerQ)
  BY <1>1, ChannelShape DEF BumpGeneration
<1>3. \A i \in 1..Len(writerQ) : writerQ'[i].m = writerQ[i].m
  BY DEF BumpGeneration, Stale
<1>4. Stale(NoJob) = NoJob /\ writing'.m = writing.m
  BY Zenon DEF BumpGeneration, Stale, NoJob
<1> QED
  BY <1>2, <1>3, <1>4 DEF BumpGeneration

\* Settling a pending message brings no new message out of the store.
LEMMA SettleKeepsLaunched ==
    ASSUME TypeOK, OnlyLaunchedLeaves, NEW m \in pending, NEW outcome, Settle(m, outcome),
           UNCHANGED <<enqueued, writerQ, writing, srv, wire>>,
           inFlight' \subseteq inFlight, awaiting' \subseteq awaiting, acks' \subseteq acks
    PROVE  OnlyLaunchedLeaves'
<1>1. saving'.m = m /\ pending' \subseteq pending
  BY DEF Settle
<1>2. enqueued \in Int /\ m \in 1..enqueued
  BY ConstantsAssumption, SMTT(40) DEF OnlyLaunchedLeaves, TypeOK, StoreType
<1> QED
  BY <1>1, <1>2 DEF OnlyLaunchedLeaves, Launched

\* Dispatching a launched message (in a try_send_next round or after a timeout) brings no other one out.
LEMMA DispatchKeepsLaunched ==
    ASSUME TypeOK, OnlyLaunchedLeaves, NEW m \in Launched, NEW r \in 0..MaxRetries, Dispatch(m, r),
           UNCHANGED <<store, writing, saving, server>>
    PROVE  OnlyLaunchedLeaves'
<1> DEFINE job == [m |-> m, r |-> r, live |-> TRUE]
<1>1. m \in Msgs /\ Len(writerQ) \in Nat
  BY ConstantsAssumption, ChannelShape DEF Launched, Msgs, TypeOK, StoreType, WriterType
<1>2. job \in Jobs /\ job.m = m
  BY <1>1, Zenon DEF Jobs
<1>3. \A i \in 1..Len(writerQ') : writerQ'[i].m \in Launched
  <2>1. CASE writerQ' = writerQ
    BY <2>1, ZenonT(40) DEF OnlyLaunchedLeaves
  <2>2. CASE writerQ' = Append(writerQ, job)
    <3>1. \A i \in 1..Len(writerQ) : writerQ[i].m \in Launched
      BY Zenon DEF OnlyLaunchedLeaves
    <3>2. writerQ \in Seq(Jobs)
      BY Zenon DEF TypeOK, WriterType
    <3> HIDE DEF job
    <3>3. /\ Len(writerQ') = Len(writerQ) + 1 /\ writerQ'[Len(writerQ) + 1] = job
          /\ \A i \in 1..Len(writerQ) : writerQ'[i] = writerQ[i]
      BY <1>2, <2>2, <3>2, ChannelSend
    <3> QED BY <1>1, <1>2, <3>1, <3>3, SMTT(40)
  <2> QED
    BY <2>1, <2>2, SMTT(40) DEF Dispatch
<1> QED
  BY <1>3 DEF Dispatch, OnlyLaunchedLeaves, Launched, store, server

\* An answer of the server to a launched message brings no other one out.
LEMMA AnswerKeepsLaunched ==
    ASSUME OnlyLaunchedLeaves, NEW m \in Launched, NEW kind, acks' = acks \cup {<<m, kind>>},
           wire' \subseteq wire, \A n \in Msgs : srv'[n] = srv[n] \/ n = m,
           UNCHANGED <<enqueued, pending, inFlight, awaiting, writerQ, writing, saving>>
    PROVE  OnlyLaunchedLeaves'
<1>1. Launched' = Launched
  BY DEF Launched
<1>2. \A n \in Msgs : srv'[n] # "none" => n \in Launched
  BY Zenon DEF OnlyLaunchedLeaves
<1>3. \A n \in Msgs, k \in AckKinds : <<n, k>> \in acks' => n \in Launched
  BY DEF OnlyLaunchedLeaves
<1> HIDE DEF Launched
<1> QED BY <1>1, <1>2, <1>3, Zenon DEF OnlyLaunchedLeaves

-----------------------------------------------------------------------------
\* Every step keeps the mode of the actor and its work list consistent.
LEMMA ModesStep ==
    ASSUME TypeOK, ModesAgree, TrackedIsPending, [Next]_vars
    PROVE  ModesAgree'
<1> USE ConstantsAssumption DEF ModesAgree, Msgs, store, tracking, retries, flow, writer,
   control, server, history
<1>1. ASSUME EnqueueSave PROVE ModesAgree'
  BY <1>1 DEF EnqueueSave, Idle, TypeOK, StoreType, Foreign, NoSave
<1>2. ASSUME EnqueuePush PROVE ModesAgree'
  BY <1>2, Zenon DEF EnqueuePush
<1>3. ASSUME EnqueuePushFails PROVE ModesAgree'
  BY <1>3, Zenon DEF EnqueuePushFails
<1>4. ASSUME SaveOutcome PROVE ModesAgree'
  BY <1>4, Zenon DEF SaveOutcome
<1>5. ASSUME SaveOutcomeFails PROVE ModesAgree'
  BY <1>5, Zenon DEF SaveOutcomeFails
<1>6. ASSUME NEW m \in Msgs, AckDurable(m) PROVE ModesAgree'
  BY <1>6, Zenon DEF AckDurable, TakeAck, Idle, Settle
<1>7. ASSUME NEW m \in Msgs, AckDurableOrphan(m) PROVE ModesAgree'
  BY <1>7, Zenon DEF AckDurableOrphan, TakeAck, Idle
<1>8. ASSUME NEW m \in Msgs, AckAccepted(m) PROVE ModesAgree'
  BY <1>8, Zenon DEF AckAccepted, TakeAck, Idle
<1>9. ASSUME NEW m \in Msgs, AckBusyRetries(m) PROVE ModesAgree'
  BY <1>9, Zenon DEF AckBusyRetries, TakeAck, Idle
<1>10. ASSUME NEW m \in Msgs, AckFails(m) PROVE ModesAgree'
  BY <1>10, Zenon DEF AckFails, TakeAck, Idle, Settle
<1>11. ASSUME NEW m \in Msgs, AckIgnored(m) PROVE ModesAgree'
  BY <1>11, Zenon DEF AckIgnored, TakeAck, Idle
<1>12. ASSUME ResultFails PROVE ModesAgree'
  BY <1>12, Zenon DEF ResultFails, TakeResult, Idle, Settle
<1>13. ASSUME NextStops PROVE ModesAgree'
  BY <1>13, Zenon DEF NextStops
<1>14. ASSUME NEW m \in Msgs, NextWriterFull(m) PROVE ModesAgree'
  BY <1>14, Zenon DEF NextWriterFull, Picks, MaySend
<1>15. ASSUME NEW m \in Msgs, NextDispatches(m) PROVE ModesAgree'
  BY <1>15, Zenon DEF NextDispatches, Dispatch
<1>16. ASSUME NEW m \in Msgs, NextGivesUp(m) PROVE ModesAgree'
  BY <1>16, SMTT(40) DEF NextGivesUp, Settle, Picks, MaySend
<1>17. ASSUME TickReconciles PROVE ModesAgree'
  BY <1>17, ZenonT(40) DEF TickReconciles, Idle
<1>18. ASSUME TickExpires PROVE ModesAgree'
  BY <1>18, Zenon DEF TickExpires, TrackedIsPending
<1>19. ASSUME NEW m \in Msgs, ExpireRetries(m) PROVE ModesAgree'
  BY <1>19, Zenon DEF ExpireRetries, Expiring, Dispatch
<1>20. ASSUME NEW m \in Msgs, ExpireFails(m) PROVE ModesAgree'
  BY <1>20, Zenon DEF ExpireFails, Expiring, Settle, Untrack
<1>21. ASSUME ExpireDone PROVE ModesAgree'
  BY <1>21, Zenon DEF ExpireDone
<1>22. ASSUME NEW m \in Msgs, NEW r \in 0..MaxRetries, BackoffElapses(m, r) PROVE ModesAgree'
  BY <1>22, Zenon DEF BackoffElapses, Idle
<1>23. ASSUME NEW resend \in BOOLEAN, Resume(resend) PROVE ModesAgree'
  BY <1>23, Zenon DEF Resume, Idle
<1>24. ASSUME ResetPendingOnLogin PROVE ModesAgree'
  BY <1>24, Zenon DEF ResetPendingOnLogin
<1>25. ASSUME NEW cutoff \in Msgs, ExpireStalePending(cutoff) PROVE ModesAgree'
  BY <1>25, Zenon DEF ExpireStalePending
<1>26. ASSUME NEW m \in Msgs, DropOne(m) PROVE ModesAgree'
  BY <1>26, Zenon DEF DropOne, Settle
<1>27. ASSUME DropDone PROVE ModesAgree'
  BY <1>27, Zenon DEF DropDone
<1>28. ASSUME Crash PROVE ModesAgree'
  BY <1>28 DEF Crash
<1>29. ASSUME \/ ResultIgnored \/ ResultWhilePaused \/ ResultRetries \/ Pause \/ WriterTakes
                 \/ NetworkLoses
              \/ \E m \in Msgs : NextDropsTerminal(m) \/ DeadlinePasses(m) \/ ServerStores(m)
                                 \/ ServerAccepts(m) \/ ServerPersists(m) \/ ConvergesPush(m)
                                 \/ SyncSaves(m)
              \/ \E ok \in BOOLEAN, reached \in BOOLEAN : WriterFinishes(ok, reached)
              \/ \E reached \in BOOLEAN : WriterAbandons(reached)
              \/ \E m \in Msgs, kind \in {"busy", "refused"} : ServerRejects(m, kind)
              \/ UNCHANGED vars
     PROVE  ModesAgree'
  BY <1>29, ZenonT(90) DEF ResultIgnored, TakeResult, Idle, ResultWhilePaused, Charged,
          ResultRetries, NextDropsTerminal, DeadlinePasses, Pause, WriterTakes, WriterFinishes,
          WriterAbandons, ServerStores, Answers, ServerUnchanged, ServerAccepts, ServerPersists,
          ServerRejects, NetworkLoses, ConvergesPush, SyncSaves, vars
<1> QED
  BY <1>1, <1>2, <1>3, <1>4, <1>5, <1>6, <1>7, <1>8, <1>9, <1>10, <1>11, <1>12, <1>13, <1>14,
          <1>15, <1>16, <1>17, <1>18, <1>19, <1>20, <1>21, <1>22, <1>23, <1>24, <1>25, <1>26,
          <1>27, <1>28, <1>29, ZenonT(40) DEF Next, Handler, Result, Tick, Writer, Ack, Server,
          Disruption

-----------------------------------------------------------------------------
\* Every step keeps the memory tables disjoint and inside the persisted queue.
LEMMA TrackedStep ==
    ASSUME TypeOK, ModesAgree, OnlyLaunchedLeaves, TrackedIsPending, [Next]_vars
    PROVE  TrackedIsPending'
<1> USE ConstantsAssumption DEF TrackedIsPending, Msgs, store, tracking, retries, flow, writer,
   control, server, history
<1>1. ASSUME EnqueuePush PROVE TrackedIsPending'
  BY <1>1, Zenon DEF EnqueuePush
<1>2. ASSUME SaveOutcomeFails PROVE TrackedIsPending'
  BY <1>2, Zenon DEF SaveOutcomeFails
<1>3. ASSUME NEW m \in Msgs, AckDurable(m) PROVE TrackedIsPending'
  <2>1. todo = {} /\ UNCHANGED todo
    BY <1>3, Zenon DEF AckDurable, TakeAck, Idle, ModesAgree
  <2>2. backoff' \in [Msgs -> 0..MaxRetries] /\ backoff'[m] = 0 /\ \A n \in Msgs \ {m} :
     backoff'[n] = backoff[n]
    BY <1>3, SMTT(40) DEF AckDurable, TypeOK, RetryType
  <2> QED
    BY <1>3, <2>1, <2>2, SMTT(40) DEF AckDurable, Settle, Untrack
<1>4. ASSUME NEW m \in Msgs, AckAccepted(m) PROVE TrackedIsPending'
  BY <1>4, SMTT(40) DEF AckAccepted, TakeAck, TypeOK, RetryType
<1>5. ASSUME NEW m \in Msgs, AckBusyRetries(m) PROVE TrackedIsPending'
  BY <1>5, SMTT(40) DEF AckBusyRetries, TakeAck, Untrack
<1>6. ASSUME NEW m \in Msgs, AckFails(m) PROVE TrackedIsPending'
  BY <1>6, SMTT(40) DEF AckFails, TakeAck, Idle, Settle, Untrack, TypeOK, StoreType, RetryType, ModesAgree
<1>7. ASSUME ResultWhilePaused PROVE TrackedIsPending'
  BY <1>7, Zenon DEF ResultWhilePaused, Charged
<1>8. ASSUME ResultRetries PROVE TrackedIsPending'
  BY <1>8, SMTT(40) DEF ResultRetries, Charged
<1>9. ASSUME ResultFails PROVE TrackedIsPending'
  BY <1>9, HeadJob, ZenonT(40) DEF ResultFails, TakeResult, Idle, Charged, Settle, Untrack, ModesAgree
<1>10. ASSUME NEW m \in Msgs, NextDispatches(m) PROVE TrackedIsPending'
  BY <1>10, SMTT(40) DEF NextDispatches, Dispatch, Picks, Candidates
<1>11. ASSUME NEW m \in Msgs, NextGivesUp(m) PROVE TrackedIsPending'
  BY <1>11, ZenonT(40) DEF NextGivesUp, Settle, Picks, MaySend, ModesAgree, Candidates
<1>12. ASSUME NEW m \in Msgs, NextDropsTerminal(m) PROVE TrackedIsPending'
  BY <1>12, ZenonT(40) DEF NextDropsTerminal, Picks, MaySend, ModesAgree, Candidates
<1>13. ASSUME NEW m \in Msgs, DeadlinePasses(m) PROVE TrackedIsPending'
  BY <1>13, SMTT(40) DEF DeadlinePasses
<1>14. ASSUME TickReconciles PROVE TrackedIsPending'
  BY <1>14, ZenonT(40) DEF TickReconciles, Terminal, Idle, ModesAgree
<1>15. ASSUME TickExpires PROVE TrackedIsPending'
  BY <1>15, Zenon DEF TickExpires
<1>16. ASSUME NEW m \in Msgs, ExpireRetries(m) PROVE TrackedIsPending'
  BY <1>16, SMTT(40) DEF ExpireRetries, Expiring, Dispatch, ModesAgree
<1>17. ASSUME NEW m \in Msgs, ExpireFails(m) PROVE TrackedIsPending'
  BY <1>17, ZenonT(40) DEF ExpireFails, Expiring, Settle, Untrack, ModesAgree
<1>18. ASSUME NEW m \in Msgs, NEW r \in 0..MaxRetries, BackoffElapses(m, r) PROVE TrackedIsPending'
  BY <1>18, SMTT(40) DEF BackoffElapses
<1>19. ASSUME NEW resend \in BOOLEAN, Resume(resend) PROVE TrackedIsPending'
  <2>1. /\ todo' = {} /\ awaiting' = awaiting /\ sendFailed' = {} /\ inFlight' \subseteq inFlight
        /\ due' \subseteq inFlight' \cup awaiting /\ pending' = pending \ CrossAccount
    BY <1>19, Zenon DEF Resume, Idle, ModesAgree
  <2>2. \A m \in Msgs : backoff'[m] > 0 => backoff[m] > 0 /\ m \notin CrossAccount
    BY <1>19, SMTT(40) DEF Resume
  <2>3. (inFlight \cup awaiting) \cap CrossAccount = {}
    <3> HIDE DEF TrackedIsPending
    <3>1. \A m \in CrossAccount : m <= F
      BY DEF CrossAccount, Foreign
    <3>2. \A m \in inFlight \cup awaiting : m \in Nat /\ m > F
      BY DEF OnlyLaunchedLeaves, Launched
    <3> QED BY <3>1, <3>2, SMTT(40)
  <2> QED BY <2>1, <2>2, <2>3, ZenonT(40)
<1>20. ASSUME ResetPendingOnLogin PROVE TrackedIsPending'
  BY <1>20 DEF ResetPendingOnLogin
<1>21. ASSUME NEW cutoff \in Msgs, ExpireStalePending(cutoff) PROVE TrackedIsPending'
  BY <1>21, Zenon DEF ExpireStalePending
<1>22. ASSUME NEW m \in Msgs, DropOne(m) PROVE TrackedIsPending'
  BY <1>22, SMTT(40) DEF DropOne, Settle, Untrack, TypeOK, RetryType
<1>23. ASSUME Crash PROVE TrackedIsPending'
  BY <1>23 DEF Crash
<1>24. ASSUME \/ EnqueueSave \/ EnqueuePushFails \/ SaveOutcome \/ ResultIgnored \/ NextStops
                 \/ ExpireDone \/ Pause \/ DropDone \/ WriterTakes \/ NetworkLoses
              \/ \E m \in Msgs : AckDurableOrphan(m) \/ AckIgnored(m) \/ NextWriterFull(m)
                                 \/ ServerStores(m) \/ ServerAccepts(m) \/ ServerPersists(m)
                                 \/ ConvergesPush(m) \/ SyncSaves(m)
              \/ \E ok \in BOOLEAN, reached \in BOOLEAN : WriterFinishes(ok, reached)
              \/ \E reached \in BOOLEAN : WriterAbandons(reached)
              \/ \E m \in Msgs, kind \in {"busy", "refused"} : ServerRejects(m, kind)
              \/ UNCHANGED vars
     PROVE  TrackedIsPending'
  BY <1>24, ZenonT(40) DEF EnqueueSave, Idle, EnqueuePushFails, SaveOutcome, AckDurableOrphan, TakeAck,
     AckIgnored, ResultIgnored, TakeResult, NextStops, NextWriterFull, ExpireDone, Pause, DropDone,
     WriterTakes, WriterFinishes, WriterAbandons, ServerStores, Answers, ServerUnchanged,
     ServerAccepts, ServerPersists, ServerRejects, NetworkLoses, ConvergesPush, SyncSaves, vars
<1> QED
  BY <1>1, <1>2, <1>3, <1>4, <1>5, <1>6, <1>7, <1>8, <1>9, <1>10, <1>11, <1>12, <1>13, <1>14,
     <1>15, <1>16, <1>17, <1>18, <1>19, <1>20, <1>21, <1>22, <1>23, <1>24, Zenon
  DEF Next, Handler, Result, Tick, Writer, Ack, Server, Disruption

-----------------------------------------------------------------------------
\* Every step keeps messages of other accounts, and ordinals not yet handed out, off the wire.
LEMMA LaunchedStep ==
    ASSUME TypeOK, ModesAgree, OnlyLaunchedLeaves, TrackedIsPending, [Next]_vars
    PROVE  OnlyLaunchedLeaves'
<1> USE ConstantsAssumption DEF OnlyLaunchedLeaves, Launched, Msgs, store, tracking, retries,
   flow, writer, control, server, history
<1>1. ASSUME EnqueueSave PROVE OnlyLaunchedLeaves'
  BY <1>1, SMTT(40) DEF EnqueueSave, Idle, TypeOK, StoreType
<1>2. ASSUME EnqueuePush PROVE OnlyLaunchedLeaves'
  BY <1>2, SMTT(40) DEF EnqueuePush, TypeOK, StoreType, ModesAgree, Foreign
<1>3. ASSUME SaveOutcome PROVE OnlyLaunchedLeaves'
  BY <1>3, ZenonT(40) DEF SaveOutcome
<1>4. ASSUME SaveOutcomeFails PROVE OnlyLaunchedLeaves'
  BY <1>4 DEF SaveOutcomeFails
<1>5. ASSUME NEW m \in Msgs, AckDurable(m) PROVE OnlyLaunchedLeaves'
  <2>1. m \in pending /\ acks' \subseteq acks
    BY <1>5, ZenonT(40) DEF AckDurable, TakeAck
  <2> QED
    BY <1>5, <2>1, SettleKeepsLaunched, ZenonT(40) DEF AckDurable, TakeAck, Untrack
<1>6. ASSUME NEW m \in Msgs, AckDurableOrphan(m) PROVE OnlyLaunchedLeaves'
  BY <1>6, ZenonT(40) DEF AckDurableOrphan, TakeAck
<1>7. ASSUME NEW m \in Msgs, AckAccepted(m) PROVE OnlyLaunchedLeaves'
  BY <1>7, SMTT(40) DEF AckAccepted, TakeAck, TypeOK, ServerType
<1>8. ASSUME NEW m \in Msgs, AckBusyRetries(m) PROVE OnlyLaunchedLeaves'
  BY <1>8 DEF AckBusyRetries, TakeAck, Untrack
<1>9. ASSUME NEW m \in Msgs, AckFails(m) PROVE OnlyLaunchedLeaves'
  <2>1. m \in pending /\ acks' \subseteq acks
    BY <1>9, ZenonT(40) DEF AckFails, TakeAck
  <2> QED
    BY <1>9, <2>1, SettleKeepsLaunched, ZenonT(40) DEF AckFails, TakeAck, Untrack
<1>10. ASSUME NEW m \in Msgs, AckIgnored(m) PROVE OnlyLaunchedLeaves'
  BY <1>10 DEF AckIgnored, TakeAck
<1>11. ASSUME ResultFails PROVE OnlyLaunchedLeaves'
  <2>1. Head(results).m \in pending
    BY <1>11, ZenonT(40) DEF ResultFails, Charged, TrackedIsPending
  <2> QED
    BY <1>11, <2>1, SettleKeepsLaunched, ZenonT(40) DEF ResultFails, TakeResult, Untrack
<1>12. ASSUME NEW m \in Msgs, NextDispatches(m) PROVE OnlyLaunchedLeaves'
  <2>3. m \in pending /\ m \notin Foreign
    <3> HIDE DEF OnlyLaunchedLeaves, Launched, Msgs
    <3> QED
      BY <1>12, Zenon DEF NextDispatches, Picks, Sendable, Candidates
  <2>4. pending \subseteq 1..enqueued /\ enqueued \in Nat
    BY SMTT(30) DEF TypeOK, StoreType
  <2>1. m \in Launched
    <3> HIDE DEF OnlyLaunchedLeaves
    <3> QED
      BY <2>3, <2>4, SMTT(40) DEF Foreign
  <2>2. retry[m] \in 0..MaxRetries
    BY ZenonT(40) DEF TypeOK, RetryType
  <2> QED
    BY <1>12, <2>1, <2>2, DispatchKeepsLaunched, ZenonT(40) DEF NextDispatches
<1>13. ASSUME NEW m \in Msgs, NextGivesUp(m) PROVE OnlyLaunchedLeaves'
  <2>1. m \in pending
    BY <1>13, ZenonT(40) DEF NextGivesUp, Picks, Candidates
  <2> QED
    BY <1>13, <2>1, SettleKeepsLaunched, ZenonT(40) DEF NextGivesUp
<1>14. ASSUME NEW m \in Msgs, NextDropsTerminal(m) PROVE OnlyLaunchedLeaves'
  BY <1>14, Zenon DEF NextDropsTerminal
<1>15. ASSUME TickReconciles PROVE OnlyLaunchedLeaves'
  BY <1>15, Zenon DEF TickReconciles
<1>16. ASSUME NEW m \in Msgs, ExpireRetries(m) PROVE OnlyLaunchedLeaves'
  <2>1. m \in Launched
    BY <1>16, ZenonT(40) DEF ExpireRetries, Expiring, ModesAgree
  <2>2. retry[m] + 1 \in 0..MaxRetries
    <3> HIDE DEF OnlyLaunchedLeaves
    <3> QED BY <1>16, SMTT(40) DEF ExpireRetries, TypeOK, RetryType
  <2> QED
    BY <1>16, <2>1, <2>2, DispatchKeepsLaunched, ZenonT(40) DEF ExpireRetries
<1>17. ASSUME NEW m \in Msgs, ExpireFails(m) PROVE OnlyLaunchedLeaves'
  <2>1. m \in pending
    BY <1>17, ZenonT(40) DEF ExpireFails, Expiring, TrackedIsPending
  <2> QED
    BY <1>17, <2>1, SettleKeepsLaunched, ZenonT(40) DEF ExpireFails, Expiring, Untrack
<1>18. ASSUME NEW resend \in BOOLEAN, Resume(resend) PROVE OnlyLaunchedLeaves'
  <2>1. /\ \A i \in 1..Len(writerQ') : writerQ'[i].m \in Launched
        /\ writing' # NoJob => writing'.m \in Launched
    BY <1>18, BumpKeeps, ZenonT(40) DEF Resume, TypeOK
  <2>2. inFlight' \subseteq inFlight /\ pending' \subseteq pending
    BY <1>18, ZenonT(40) DEF Resume
  <2> QED
    BY <1>18, <2>1, <2>2, Zenon DEF Resume
<1>19. ASSUME ResetPendingOnLogin PROVE OnlyLaunchedLeaves'
  <2>1. /\ \A i \in 1..Len(writerQ') : writerQ'[i].m \in Launched
        /\ writing' # NoJob => writing'.m \in Launched
    BY <1>19, BumpKeeps, ZenonT(40) DEF ResetPendingOnLogin, TypeOK
  <2> QED
    BY <1>19, <2>1, Zenon DEF ResetPendingOnLogin
<1>20. ASSUME NEW m \in Msgs, DropOne(m) PROVE OnlyLaunchedLeaves'
  <2>1. m \in pending
    <3> HIDE DEF OnlyLaunchedLeaves
    <3> QED BY <1>20, SMTT(40) DEF DropOne, TrackedIsPending
  <2> QED
    BY <1>20, <2>1, SettleKeepsLaunched, Zenon DEF DropOne, Untrack
<1>21. ASSUME WriterTakes PROVE OnlyLaunchedLeaves'
  <2>1. Head(writerQ) = writerQ[1] /\ Len(writerQ) \in Nat \ {0}
    BY <1>21, ChannelReceive, ChannelEmpty, SMTT(40) DEF WriterTakes
  <2>2. \A i \in 1..Len(writerQ') : writerQ'[i].m \in Launched
    <3>1. \A i \in 1..Len(writerQ) : writerQ[i].m \in Launched
      BY Zenon DEF OnlyLaunchedLeaves
    <3>2. writerQ \in Seq(Jobs) /\ writerQ # <<>> /\ writerQ' = Tail(writerQ)
      BY <1>21, Zenon DEF WriterTakes, TypeOK, WriterType
    <3>3. Len(writerQ') = Len(writerQ) - 1 /\ \A i \in 1..Len(writerQ') : writerQ'[i] = writerQ[i + 1]
      BY <3>2, ChannelReceive, Zenon
    <3> HIDE DEF OnlyLaunchedLeaves, Launched
    <3> QED BY <2>1, <3>1, <3>3, SMTT(40)
  <2>3. writing' # NoJob => writing'.m \in Launched
    BY <1>21, <2>1, SMTT(40) DEF WriterTakes
  <2> QED
    BY <1>21, <2>2, <2>3, ZenonT(60) DEF WriterTakes
<1>22. ASSUME NEW ok \in BOOLEAN, NEW reached \in BOOLEAN, WriterFinishes(ok, reached)
       PROVE  OnlyLaunchedLeaves'
  BY <1>22, ZenonT(40) DEF WriterFinishes
<1>23. ASSUME NEW reached \in BOOLEAN, WriterAbandons(reached) PROVE OnlyLaunchedLeaves'
  BY <1>23, Zenon DEF WriterAbandons
<1>24. ASSUME NEW m \in Msgs, ServerStores(m) PROVE OnlyLaunchedLeaves'
  BY <1>24, SMTT(40) DEF ServerStores, Answers, ServerUnchanged
<1>25. ASSUME NEW m \in Msgs, ServerAccepts(m) PROVE OnlyLaunchedLeaves'
  <2> HIDE DEF Launched, Msgs
  <2>1. m \in Launched /\ wire' \subseteq wire
    BY <1>25, Zenon DEF ServerAccepts
  <2>2. \A n \in Msgs : srv'[n] = srv[n] \/ n = m
    <3> HIDE DEF OnlyLaunchedLeaves
    <3> QED BY <1>25 DEF ServerAccepts, TypeOK, ServerType
  <2> HIDE DEF OnlyLaunchedLeaves
  <2> QED BY <1>25, <2>1, <2>2, AnswerKeepsLaunched, Zenon DEF ServerAccepts, Answers, ServerUnchanged
<1>26. ASSUME NEW m \in Msgs, ServerPersists(m) PROVE OnlyLaunchedLeaves'
  <2> HIDE DEF Launched, Msgs
  <2>1. m \in Launched /\ wire' \subseteq wire
    BY <1>26 DEF ServerPersists
  <2>2. \A n \in Msgs : srv'[n] = srv[n] \/ n = m
    <3> HIDE DEF OnlyLaunchedLeaves
    <3> QED BY <1>26 DEF ServerPersists, TypeOK, ServerType
  <2> HIDE DEF OnlyLaunchedLeaves
  <2> QED BY <1>26, <2>1, <2>2, AnswerKeepsLaunched, Zenon DEF ServerPersists, Answers, ServerUnchanged
<1>27. ASSUME NEW m \in Msgs, NEW kind \in {"busy", "refused"}, ServerRejects(m, kind)
       PROVE  OnlyLaunchedLeaves'
  BY <1>27, Zenon DEF ServerRejects, Answers, ServerUnchanged
<1>28. ASSUME NetworkLoses PROVE OnlyLaunchedLeaves'
  BY <1>28, ZenonT(40) DEF NetworkLoses, ServerUnchanged
<1>29. ASSUME NEW m \in Msgs, ConvergesPush(m) PROVE OnlyLaunchedLeaves'
  BY <1>29, Zenon DEF ConvergesPush, Answers, ServerUnchanged
<1>30. ASSUME Crash PROVE OnlyLaunchedLeaves'
  <2>1. /\ pending' = pending /\ enqueued' = enqueued /\ wire' = wire /\ srv' = srv
        /\ inFlight' = {} /\ awaiting' = {} /\ acks' = {}
        /\ writing' = NoJob /\ saving' = NoSave
    BY <1>30, Zenon DEF Crash
  <2>2. 1..Len(writerQ') = {}
    <3> HIDE DEF OnlyLaunchedLeaves
    <3> QED
      BY <1>30, ChannelEmpty, SMTT(40) DEF Crash
  <2> QED
    BY <2>1, <2>2, ZenonT(40)
<1>31. ASSUME \/ EnqueuePushFails \/ ResultIgnored \/ ResultWhilePaused \/ ResultRetries
                 \/ NextStops \/ TickExpires \/ ExpireDone \/ Pause \/ DropDone
              \/ \E m \in Msgs : NextWriterFull(m) \/ DeadlinePasses(m) \/ SyncSaves(m)
              \/ \E m \in Msgs, r \in 0..MaxRetries : BackoffElapses(m, r)
              \/ \E cutoff \in Msgs : ExpireStalePending(cutoff)
              \/ UNCHANGED vars
     PROVE  OnlyLaunchedLeaves'
  BY <1>31, ZenonT(40) DEF EnqueuePushFails, ResultIgnored, TakeResult, Idle, ResultWhilePaused, Charged,
     ResultRetries, NextStops, NextWriterFull, DeadlinePasses, TickExpires, ExpireDone,
     BackoffElapses, Pause, ExpireStalePending, DropDone, SyncSaves, vars
<1> QED
  BY <1>1, <1>2, <1>3, <1>4, <1>5, <1>6, <1>7, <1>8, <1>9, <1>10, <1>11, <1>12, <1>13, <1>14,
          <1>15, <1>16, <1>17, <1>18, <1>19, <1>20, <1>21, <1>22, <1>23, <1>24, <1>25, <1>26,
          <1>27, <1>28, <1>29, <1>30, <1>31, ZenonT(40) DEF Next, Handler, Result, Tick, Writer,
          Ack, Server, Disruption

-----------------------------------------------------------------------------
\* Every step keeps rows and acks in agreement with what the server has stored.
LEMMA RowsStep ==
    ASSUME TypeOK, OnlyLaunchedLeaves, RowsAgree, SentIsStored, [Next]_vars
    PROVE  RowsAgree' /\ SentIsStored'
<1> USE ConstantsAssumption DEF RowsAgree, SentIsStored, Msgs, store, tracking, retries, flow,
   writer, control, server, history
<1>1. ASSUME EnqueueSave PROVE RowsAgree' /\ SentIsStored'
  <2>2. enqueued + 1 \in Msgs /\ enqueued + 1 \notin Launched
    <3> HIDE DEF RowsAgree, SentIsStored
    <3> QED
      BY <1>1, SMTT(40) DEF EnqueueSave, Launched, TypeOK, StoreType
  <2>3. \A m \in Msgs : srv[m] # "none" => m \in Launched
    BY  Zenon DEF OnlyLaunchedLeaves
  <2>4. \A m \in Msgs : srow[m] => srv[m] = "stored"
    BY  DEF SentIsStored
  <2>1. enqueued + 1 \in Msgs /\ ~srow[enqueued + 1]
    <3> HIDE DEF RowsAgree, SentIsStored, Msgs
    <3> QED
      BY <2>2, <2>3, <2>4, Zenon
  <2> QED
    BY <1>1, <2>1, SMTT(40) DEF EnqueueSave
<1>2. ASSUME SaveOutcome PROVE RowsAgree' /\ SentIsStored'
  BY <1>2, Zenon DEF SaveOutcome, TypeOK, StoreType, ControlType, Saves, NoSave
<1>3. ASSUME SaveOutcomeFails PROVE RowsAgree' /\ SentIsStored'
  BY <1>3, Zenon DEF SaveOutcomeFails, Saves, NoSave
<1>4. ASSUME NEW m \in Msgs, AckDurable(m) PROVE RowsAgree' /\ SentIsStored'
  BY <1>4, Zenon DEF AckDurable, TakeAck, Settle
<1>5. ASSUME NEW m \in Msgs, AckDurableOrphan(m) PROVE RowsAgree' /\ SentIsStored'
  BY <1>5, ZenonT(40) DEF AckDurableOrphan, TakeAck, TypeOK, StoreType
<1>6. ASSUME NEW m \in Msgs, AckAccepted(m) PROVE RowsAgree' /\ SentIsStored'
  BY <1>6, Zenon DEF AckAccepted, TakeAck
<1>7. ASSUME NEW m \in Msgs, AckBusyRetries(m) PROVE RowsAgree' /\ SentIsStored'
  BY <1>7, Zenon DEF AckBusyRetries, TakeAck
<1>8. ASSUME NEW m \in Msgs, AckFails(m) PROVE RowsAgree' /\ SentIsStored'
  BY <1>8, Zenon DEF AckFails, TakeAck, Settle
<1>9. ASSUME NEW m \in Msgs, AckIgnored(m) PROVE RowsAgree' /\ SentIsStored'
  BY <1>9, SMTT(40) DEF AckIgnored, TakeAck
<1>10. ASSUME ResultFails PROVE RowsAgree' /\ SentIsStored'
  BY <1>10, ZenonT(40) DEF ResultFails, Settle
<1>11. ASSUME NEW m \in Msgs, NextGivesUp(m) PROVE RowsAgree' /\ SentIsStored'
  BY <1>11, Zenon DEF NextGivesUp, Settle
<1>12. ASSUME NEW m \in Msgs, ExpireFails(m) PROVE RowsAgree' /\ SentIsStored'
  BY <1>12, Zenon DEF ExpireFails, Expiring, Settle
<1>13. ASSUME NEW resend \in BOOLEAN, Resume(resend) PROVE RowsAgree' /\ SentIsStored'
  BY <1>13, Zenon DEF Resume
<1>14. ASSUME NEW m \in Msgs, DropOne(m) PROVE RowsAgree' /\ SentIsStored'
  BY <1>14, Zenon DEF DropOne, Settle
<1>15. ASSUME NEW m \in Msgs, ServerStores(m) PROVE RowsAgree' /\ SentIsStored'
  BY <1>15, Zenon DEF ServerStores, Answers, ServerUnchanged, TypeOK, ServerType
<1>16. ASSUME NEW m \in Msgs, ServerAccepts(m) PROVE RowsAgree' /\ SentIsStored'
  BY <1>16, SMTT(40) DEF ServerAccepts, Answers, ServerUnchanged
<1>17. ASSUME NEW m \in Msgs, ServerPersists(m) PROVE RowsAgree' /\ SentIsStored'
  BY <1>17, Zenon DEF ServerPersists, Answers, ServerUnchanged, TypeOK, ServerType
<1>18. ASSUME NEW m \in Msgs, NEW kind \in {"busy", "refused"}, ServerRejects(m, kind)
       PROVE  RowsAgree' /\ SentIsStored'
  BY <1>18, Zenon DEF ServerRejects, Answers, ServerUnchanged
<1>19. ASSUME NetworkLoses PROVE RowsAgree' /\ SentIsStored'
  BY <1>19, Zenon DEF NetworkLoses, ServerUnchanged
<1>20. ASSUME NEW m \in Msgs, ConvergesPush(m) PROVE RowsAgree' /\ SentIsStored'
  BY <1>20, Zenon DEF ConvergesPush, Answers, ServerUnchanged
<1>21. ASSUME NEW m \in Msgs, SyncSaves(m) PROVE RowsAgree' /\ SentIsStored'
  BY <1>21 DEF SyncSaves, TypeOK, StoreType
<1>22. ASSUME Crash PROVE RowsAgree' /\ SentIsStored'
  BY <1>22, Zenon DEF Crash, NoSave
<1>23. ASSUME \/ EnqueuePush \/ EnqueuePushFails \/ ResultIgnored \/ ResultWhilePaused
                 \/ ResultRetries \/ NextStops \/ TickReconciles \/ TickExpires \/ ExpireDone
                 \/ Pause \/ ResetPendingOnLogin \/ DropDone \/ WriterTakes
              \/ \E m \in Msgs : NextWriterFull(m) \/ NextDispatches(m) \/ NextDropsTerminal(m)
                                 \/ DeadlinePasses(m) \/ ExpireRetries(m)
              \/ \E m \in Msgs, r \in 0..MaxRetries : BackoffElapses(m, r)
              \/ \E cutoff \in Msgs : ExpireStalePending(cutoff)
              \/ \E ok \in BOOLEAN, reached \in BOOLEAN : WriterFinishes(ok, reached)
              \/ \E reached \in BOOLEAN : WriterAbandons(reached)
              \/ UNCHANGED vars
     PROVE  RowsAgree' /\ SentIsStored'
  BY <1>23, Zenon DEF EnqueuePush, EnqueuePushFails, ResultIgnored, ResultWhilePaused,
          ResultRetries, NextStops, NextWriterFull, NextDispatches, Dispatch, NextDropsTerminal,
          DeadlinePasses, TickReconciles, TickExpires, ExpireRetries, Expiring, ExpireDone,
          BackoffElapses, Pause, ResetPendingOnLogin, ExpireStalePending, DropDone, WriterTakes,
          WriterFinishes, WriterAbandons, vars
<1> QED
  BY <1>1, <1>2, <1>3, <1>4, <1>5, <1>6, <1>7, <1>8, <1>9, <1>10, <1>11, <1>12, <1>13, <1>14,
          <1>15, <1>16, <1>17, <1>18, <1>19, <1>20, <1>21, <1>22, <1>23, ZenonT(40) DEF Next,
          Handler, Result, Tick, Writer, Ack, Server, Disruption

-----------------------------------------------------------------------------
\* Every step keeps each `sending' row owned by the queue, by the running handler or by a recorded fault.
LEMMA SendingStep ==
    ASSUME TypeOK, ModesAgree, OnlyLaunchedLeaves, RowsAgree, SendingIsOwned, [Next]_vars
    PROVE  SendingIsOwned'
<1> USE ConstantsAssumption DEF SendingIsOwned, Msgs, store, tracking, retries, flow, writer,
   control, server, history
<1>1. ASSUME EnqueueSave PROVE SendingIsOwned'
  BY <1>1, SMTT(40) DEF EnqueueSave, Idle
<1>2. ASSUME EnqueuePush PROVE SendingIsOwned'
  BY <1>2, Zenon DEF EnqueuePush
<1>3. ASSUME EnqueuePushFails PROVE SendingIsOwned'
  BY <1>3, Zenon DEF EnqueuePushFails
<1>4. ASSUME SaveOutcome PROVE SendingIsOwned'
  BY <1>4, Zenon DEF SaveOutcome, TypeOK, StoreType
<1>5. ASSUME SaveOutcomeFails PROVE SendingIsOwned'
  BY <1>5, Zenon DEF SaveOutcomeFails
<1>6. ASSUME NEW m \in Msgs, AckDurable(m) PROVE SendingIsOwned'
  BY <1>6, SMTT(40) DEF AckDurable, TakeAck, Idle, Settle, NoSave
<1>7. ASSUME NEW m \in Msgs, AckDurableOrphan(m) PROVE SendingIsOwned'
  BY <1>7, Zenon DEF AckDurableOrphan, TakeAck, Idle, TypeOK, StoreType
<1>8. ASSUME NEW m \in Msgs, AckAccepted(m) PROVE SendingIsOwned'
  BY <1>8, Zenon DEF AckAccepted, TakeAck, Idle
<1>9. ASSUME NEW m \in Msgs, AckBusyRetries(m) PROVE SendingIsOwned'
  BY <1>9, Zenon DEF AckBusyRetries, TakeAck, Idle
<1>10. ASSUME NEW m \in Msgs, AckFails(m) PROVE SendingIsOwned'
  BY <1>10, SMTT(40) DEF AckFails, TakeAck, Idle, Settle, NoSave
<1>11. ASSUME NEW m \in Msgs, AckIgnored(m) PROVE SendingIsOwned'
  BY <1>11, Zenon DEF AckIgnored, TakeAck, Idle
<1>12. ASSUME ResultFails PROVE SendingIsOwned'
  <2>1. saving'.m = Head(results).m /\ pending' = pending \ {Head(results).m}
    BY <1>12, Zenon DEF ResultFails, Settle
  <2>2. saving = NoSave /\ worker = "idle" /\ UNCHANGED <<lrow, orphans>>
    BY <1>12, Zenon DEF ResultFails, TakeResult, Idle
  <2> QED
    BY <2>1, <2>2, SMTT(40) DEF NoSave
<1>13. ASSUME NextStops PROVE SendingIsOwned'
  BY <1>13, Zenon DEF NextStops
<1>14. ASSUME NEW m \in Msgs, NextWriterFull(m) PROVE SendingIsOwned'
  BY <1>14, ZenonT(40) DEF NextWriterFull, Picks, MaySend
<1>15. ASSUME NEW m \in Msgs, NextGivesUp(m) PROVE SendingIsOwned'
  BY <1>15 DEF NextGivesUp, Settle, Picks, MaySend, NoSave
<1>16. ASSUME NEW m \in Msgs, NextDropsTerminal(m) PROVE SendingIsOwned'
  BY <1>16, Zenon DEF NextDropsTerminal, View, Terminal, RowsAgree
<1>17. ASSUME TickReconciles PROVE SendingIsOwned'
  BY <1>17, Zenon DEF TickReconciles, Terminal, Idle, View, RowsAgree
<1>18. ASSUME TickExpires PROVE SendingIsOwned'
  BY <1>18, Zenon DEF TickExpires, Idle
<1>19. ASSUME NEW m \in Msgs, ExpireFails(m) PROVE SendingIsOwned'
  BY <1>19, SMTT(40) DEF ExpireFails, Expiring, Settle, NoSave
<1>20. ASSUME ExpireDone PROVE SendingIsOwned'
  BY <1>20, Zenon DEF ExpireDone
<1>21. ASSUME NEW m \in Msgs, NEW r \in 0..MaxRetries, BackoffElapses(m, r) PROVE SendingIsOwned'
  BY <1>21, Zenon DEF BackoffElapses, Idle
<1>22. ASSUME NEW resend \in BOOLEAN, Resume(resend) PROVE SendingIsOwned'
  BY <1>22, Zenon DEF Resume, Idle, OrphanSending, CrossAccount, Foreign
<1>23. ASSUME ResetPendingOnLogin PROVE SendingIsOwned'
  BY <1>23, Zenon DEF ResetPendingOnLogin, Idle
<1>24. ASSUME NEW cutoff \in Msgs, ExpireStalePending(cutoff) PROVE SendingIsOwned'
  BY <1>24, Zenon DEF ExpireStalePending, Idle
<1>25. ASSUME NEW m \in Msgs, DropOne(m) PROVE SendingIsOwned'
  BY <1>25, SMTT(40) DEF DropOne, Settle, NoSave
<1>26. ASSUME DropDone PROVE SendingIsOwned'
  BY <1>26, Zenon DEF DropDone
<1>27. ASSUME NEW m \in Msgs, SyncSaves(m) PROVE SendingIsOwned'
  BY <1>27, SMTT(40) DEF SyncSaves
<1>28. ASSUME Crash PROVE SendingIsOwned'
  BY <1>28 DEF Crash, TypeOK, StoreType, ControlType, HistoryType
<1>29. ASSUME \/ ResultIgnored \/ ResultWhilePaused \/ ResultRetries \/ Pause \/ WriterTakes
                 \/ NetworkLoses
              \/ \E m \in Msgs : NextDispatches(m) \/ DeadlinePasses(m) \/ ExpireRetries(m)
                                 \/ ServerStores(m) \/ ServerAccepts(m) \/ ServerPersists(m)
                                 \/ ConvergesPush(m)
              \/ \E ok \in BOOLEAN, reached \in BOOLEAN : WriterFinishes(ok, reached)
              \/ \E reached \in BOOLEAN : WriterAbandons(reached)
              \/ \E m \in Msgs, kind \in {"busy", "refused"} : ServerRejects(m, kind)
              \/ UNCHANGED vars
     PROVE  SendingIsOwned'
  <2> DEFINE Same == /\ UNCHANGED <<lrow, pending, saving, enqueued, orphans>>
                     /\ worker = "enqueue" => worker' = "enqueue"
  <2>1. ASSUME ResultIgnored \/ ResultWhilePaused \/ ResultRetries \/ Pause \/ UNCHANGED vars
        PROVE  Same
    <3> HIDE DEF SendingIsOwned
    <3> QED
      BY <2>1, ZenonT(40) DEF ResultIgnored, TakeResult, Idle, ResultWhilePaused, ResultRetries, Pause, vars
  <2>2. ASSUME NEW m \in Msgs, NextDispatches(m) \/ DeadlinePasses(m) \/ ExpireRetries(m)
        PROVE  Same
    <3> HIDE DEF SendingIsOwned
    <3> QED
      BY <2>2, ZenonT(40) DEF NextDispatches, Picks, MaySend, Dispatch, DeadlinePasses, ExpireRetries, Expiring
  <2>3. ASSUME \/ WriterTakes
               \/ \E ok \in BOOLEAN, reached \in BOOLEAN : WriterFinishes(ok, reached)
               \/ \E reached \in BOOLEAN : WriterAbandons(reached)
        PROVE  Same
    <3> HIDE DEF SendingIsOwned
    <3> QED
      BY <2>3, ZenonT(40) DEF WriterTakes, WriterFinishes, WriterAbandons
  <2>4. ASSUME \/ NetworkLoses
               \/ \E m \in Msgs : ServerStores(m) \/ ServerAccepts(m) \/ ServerPersists(m)
                                  \/ ConvergesPush(m)
               \/ \E m \in Msgs, kind \in {"busy", "refused"} : ServerRejects(m, kind)
        PROVE  Same
    <3> HIDE DEF SendingIsOwned
    <3> QED
      BY <2>4, ZenonT(40) DEF NetworkLoses, ServerStores, Answers, ServerUnchanged, ServerAccepts,
         ServerPersists, ServerRejects, ConvergesPush
  <2>5. Same
    <3> HIDE DEF SendingIsOwned, Same
    <3> QED
      BY <1>29, <2>1, <2>2, <2>3, <2>4
  <2> QED
    BY <2>5, SMTT(40)
<1> QED
  BY <1>1, <1>2, <1>3, <1>4, <1>5, <1>6, <1>7, <1>8, <1>9, <1>10, <1>11, <1>12, <1>13, <1>14,
     <1>15, <1>16, <1>17, <1>18, <1>19, <1>20, <1>21, <1>22, <1>23, <1>24, <1>25, <1>26, <1>27,
     <1>28, <1>29, ZenonT(40)
  DEF Next, Handler, Result, Tick, Writer, Ack, Server, Disruption

-----------------------------------------------------------------------------
\* The initial state satisfies the inductive invariant.
LEMMA QueueInvInit == Init => QueueInv
<1> SUFFICES ASSUME Init PROVE QueueInv
  OBVIOUS
<1>1. TypeOK
  BY TypeInit, Zenon
<1>2. ModesAgree /\ TrackedIsPending
  BY SMTT(40) DEF Init, ModesAgree, TrackedIsPending
<1>3. OnlyLaunchedLeaves
  BY ConstantsAssumption, SMTT(40) DEF Init, OnlyLaunchedLeaves, Foreign
<1>4. RowsAgree /\ SentIsStored
  BY ZenonT(40) DEF Init, RowsAgree, SentIsStored, NoSave
<1>5. SendingIsOwned
  BY DEF Init, SendingIsOwned
<1> QED
  BY <1>1, <1>2, <1>3, <1>4, <1>5 DEF QueueInv

\* QueueInv is inductive: this collects the step lemmas of its conjuncts.
LEMMA QueueInvStep == QueueInv /\ [Next]_vars => QueueInv'
BY TypeStep, ModesStep, TrackedStep, LaunchedStep, RowsStep, SendingStep DEF QueueInv

\* The queue's state is consistent in every reachable state: QueueInv is an invariant.
THEOREM QueueInvHolds == Spec => []QueueInv
BY QueueInvInit, QueueInvStep, PTL DEF Spec

\* Every variable keeps its type, for any number of messages, retry budget, window and channel size.
THEOREM TypeCorrect == Spec => []TypeOK
<1>1. QueueInv => TypeOK
  BY DEF QueueInv
<1> QED
  BY <1>1, QueueInvHolds, PTL

\* What the actor tracks in memory is always in the persisted queue, and in one table only: no
\* timeout, backoff, reconnect or restart makes it send or fail a message it has already settled.
THEOREM TrackedSafe == Spec => []TrackedIsPending
<1>1. QueueInv => TrackedIsPending
  BY DEF QueueInv
<1> QED
  BY <1>1, QueueInvHolds, PTL

\* No message is left showing `sending' without an owner, except by a crash or a failed store
\* write, and those the next resume heals (recover_pending_for_current_user).
THEOREM NoStrandedSending == Spec => []SendingIsOwned
<1>1. QueueInv => SendingIsOwned
  BY DEF QueueInv
<1> QED
  BY <1>1, QueueInvHolds, PTL

\* A message shows as sent only if the server has persisted it.
THEOREM SentOnlyWhenStored == Spec => []SentIsStored
<1>1. QueueInv => SentIsStored
  BY DEF QueueInv
<1> QED
  BY <1>1, QueueInvHolds, PTL

=============================================================================
