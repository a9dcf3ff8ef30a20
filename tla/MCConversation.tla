----------------------------- MODULE MCConversation -----------------------------
(* The sync of one conversation and its read position for TLC: in a behaviour *)
(* one of them moves, so their state spaces add up.                            *)
EXTENDS ConversationSync, ReadReceipts

VARIABLE part   \* the component that moves

conversationVars == <<part, vars, readVars>>

\* Every interleaving over two connections with one message, and two messages over one
\* connection whose row is not raced for.
ReadSurroundings ==
    {[seqs |-> 1, links |-> 2, allow |-> {"race", "behind", "stale", "unread"}],
     [seqs |-> 2, links |-> 1, allow |-> {}]}

ConversationInit ==
    /\ part \in {"sync", "read"}
    /\ Init /\ ReadInit
    /\ part = "sync" => readEnv.links = 1
    /\ part = "read" => env = {"push", "event"}

OnSync(A) == part = "sync" /\ A /\ UNCHANGED <<part, readVars>>
OnRead(A) == part = "read" /\ A /\ UNCHANGED <<part, vars>>

SyncPart ==
    \/ OnSync(Grow)
    \/ OnSync(ReadPing)
    \/ \E s \in Seqs : OnSync(ReadPush(s))
    \/ \E s \in Seqs : OnSync(ReadWire(s))
    \/ \E s \in Seqs : OnSync(ReadEvent(s))
    \/ OnSync(ApplyEvent)
    \/ OnSync(UndoEvent)
    \/ OnSync(WorkerTakes)
    \/ \E a \in Savers : OnSync(SaveBatch(a))
    \/ \E a \in Savers : OnSync(ReadCursor(a))
    \/ \E a \in Savers : OnSync(ReadWindow(a))
    \/ \E a \in Savers : OnSync(Advance(a))
    \/ OnSync(BackoffEnds)
    \/ OnSync(HostPulls)
    \/ OnSync(PullAgain)
    \/ \E t \in Pulls : OnSync(Begin(t))
    \/ \E t \in Pulls : OnSync(Answer(t))
    \/ \E t \in Pulls : OnSync(ApplyEvents(t))
    \/ \E t \in Pulls : OnSync(StorePage(t))
    \/ \E t \in Pulls : OnSync(ProvePage(t))
    \/ \E t \in Pulls : OnSync(SaveCursor(t))
    \/ \E t \in Pulls : OnSync(StoreSnapshot(t))
    \/ \E t \in Pulls : OnSync(Adopt(t))
    \/ \E t \in Pulls : OnSync(Fail(t))
    \/ OnSync(ReadMark)
    \/ OnSync(DeleteRows)
    \/ OnSync(MarkCleared)
    \/ OnSync(Crash)

ReadPart ==
    \/ \E r \in Readers : OnRead(MarkRead(r))
    \/ \E r \in Readers : OnRead(ReadAckSent(r))
    \/ \E r \in Readers : OnRead(MarkReadFails(r))
    \/ \E r \in Readers : OnRead(ReadStored(r))
    \/ \E r \in Readers : OnRead(Recount(r))
    \/ OnRead(MarkUnread)
    \/ OnRead(PushList)
    \/ OnRead(PushSent)
    \/ OnRead(PushFails)
    \/ OnRead(RememberReadAck)
    \/ \E mode \in {"push", "sync"} : OnRead(Persist(mode))
    \/ OnRead(ReadPrevious)
    \/ OnRead(ProjectNewest)
    \/ OnRead(ProjectUnread)
    \/ \E kind \in {"summary", "snapshot"} : OnRead(Summarize(kind))
    \/ OnRead(SaveSummary)
    \/ OnRead(SaveSnapshot)
    \/ OnRead(OverwriteRead)
    \/ OnRead(ServerMessage)
    \/ OnRead(ReadElsewhere)
    \/ OnRead(Dies)
    \/ OnRead(Lost)
    \/ OnRead(LinkUp)
    \/ OnRead(ReplayAcks)
    \/ OnRead(ReplayFails)
    \/ OnRead(Ready)
    \/ OnRead(RestartApp)

ConversationNext == SyncPart \/ ReadPart

ConversationSpec == ConversationInit /\ [][ConversationNext]_conversationVars

\* The sync alone, with the fairness of its tasks.
SyncInit == ConversationInit /\ part = "sync"

SyncLiveSpec == SyncInit /\ [][ConversationNext]_conversationVars /\ SyncFairness
=============================================================================
