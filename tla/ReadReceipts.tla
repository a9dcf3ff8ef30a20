---------------------------- MODULE ReadReceipts ----------------------------
(* The read position of one conversation: the row of the conversation list, *)
(* mark_read, the projection of new messages, summaries and snapshots of    *)
(* the server, and the two ways a position reaches the server again after a *)
(* receipt was written into a dying connection: the ledger of receipts,     *)
(* replayed on the next connection, and the periodic push of positions.     *)
(* Messages are stored without gaps here (ConversationSync has the gaps).   *)
EXTENDS Naturals, FiniteSets, FiniteSetsExt

CONSTANTS
    Own,        \* the messages this user sent
    Readers,    \* concurrent mark_read calls
    ReadEnvs    \* the surroundings of a behaviour: how many messages, how many connections (the last is not lost),
                \* and what may happen ("race", "behind", "stale", "unread")

ASSUME ReadAssumption ==
    /\ Own \subseteq Nat
    /\ ReadEnvs \subseteq
          [seqs : Nat, links : Nat, allow : SUBSET {"race", "behind", "stale", "unread"}]

VARIABLES
    readEnv,    \* the surroundings of this behaviour
    row,        \* the conversation's row: max_seq, last_read_seq, unread_count
    top,        \* the newest stored message (get_local_max_seq)
    readAcked,  \* the stored cursor read_ack:<conversation>, 0 if there is none
    remote,     \* the server's newest message and read position
    receipts,   \* the ledger's entry: its position, written late, to be replayed
    wire,       \* the connection: up, dying (writes succeed, nothing arrives) or down
    onlineOnce, \* the session has been ready before
    replaying,  \* link_up(Reconnected) has yet to replay the ledger
    reading,    \* the mark_read calls
    pushing,    \* push_local_read_states
    projecting, \* the projection of a batch of messages
    summary,    \* a summary or snapshot row on its way from the server
    asked,      \* history: the highest position a user asked to mark as read
    forfeited,  \* history: the highest position whose last copy was lost
    wires       \* connections so far

readVars == <<readEnv, row, top, readAcked, remote, receipts, wire, onlineOnce, replaying,
              reading, pushing, projecting, summary, asked, forfeited, wires>>

Nothing == [pc |-> "idle", seq |-> 0, unread |-> 0]
NoSummary == [kind |-> "none", max |-> 0, read |-> 0, unread |-> 0]
NoRow == [max |-> 0, read |-> 0, unread |-> 0]
NoBatch == [pc |-> "idle", mode |-> "push", batch |-> {}, prev |-> NoRow, snap |-> NoSummary]
NoReceipt == [seq |-> 0, late |-> FALSE, due |-> FALSE]

Greater(a, b) == IF a > b THEN a ELSE b
Lesser(a, b) == IF a < b THEN a ELSE b
Minus(a, b) == IF a > b THEN a - b ELSE 0          \* saturating_sub
PeerIn(S) == Cardinality(S \ Own)                 \* messages of others in S

-----------------------------------------------------------------------------
(* ReadPosition and its users, as pure functions                            *)

NormalizeForUnreadDelta(p) ==
    IF p.read = 0 /\ 0 < p.unread /\ p.unread < p.max
    THEN [p EXCEPT !.read = p.max - p.unread] ELSE p

NormalizeLocal(p) ==
    LET q == NormalizeForUnreadDelta(p)
    IN  IF q.unread = 0 /\ q.read < q.max THEN [q EXCEPT !.read = q.max] ELSE q

\* The position to report, 0 for none.
AckReadSeq(p) == NormalizeLocal(p).read

\* Wrong: what the row counts as unread survives a newer summary.
KeepsLocalUnread(old, new) ==
    LET local == NormalizeForUnreadDelta(old)
        incoming == NormalizeForUnreadDelta(new)
        max == Greater(incoming.max, local.max)
        read == Greater(incoming.read, local.read)
    IN  [max |-> max, read |-> read, unread |-> Lesser(local.unread, Minus(max, read))]

MergeWithIncomingSummary(old, new) ==
    LET local == NormalizeForUnreadDelta(old)
        incoming == NormalizeForUnreadDelta(new)
        max == Greater(incoming.max, local.max)
        read == Greater(incoming.read, local.read)
        newest == IF incoming.max <= local.max THEN local ELSE incoming
    IN  [max |-> max, read |-> read,
         unread |-> IF local.max > 0 /\ local.read >= max THEN 0
                    ELSE Lesser(newest.unread, Minus(max, read))]

PlanMarkRead(p, localMax, requested) ==
    LET effective == Greater(localMax, p.max)
        next == Lesser(Greater(Lesser(requested, effective), p.read), effective)
    IN  [pc |-> "ack", seq |-> next, unread |-> IF next >= effective THEN 0 ELSE p.unread]

ShouldCountUnread(seq, prev, mode) ==
    \/ seq > prev.read /\ seq > prev.read + prev.unread
    \/ /\ mode = "push" /\ prev.unread = 0 /\ prev.max > 0
       /\ seq >= prev.max /\ seq >= prev.read

ReadSeqForUnreadWindow(prev, max, unread) == Lesser(prev.read, Minus(max, unread))

-----------------------------------------------------------------------------
ReadInit ==
    /\ readEnv \in ReadEnvs
    /\ row = NoRow /\ top = 0 /\ readAcked = 0
    /\ remote = [max |-> 0, read |-> 0]
    /\ receipts = NoReceipt /\ wire = "down" /\ onlineOnce = FALSE /\ replaying = FALSE
    /\ reading = [r \in Readers |-> Nothing] /\ pushing = Nothing
    /\ projecting = NoBatch /\ summary = NoSummary
    /\ asked = 0 /\ forfeited = 0 /\ wires = 0

\* The store has no lock over the several reads and writes of one operation on the row:
\* "race" lets another operation, the push or the end of the process come between them.
Alone ==
    \/ "race" \in readEnv.allow
    \/ projecting.pc \in {"idle", "previous"} /\ \A r \in Readers : reading[r].pc # "recount"

\* AckLedger::record: the highest position, written when.
Record(seq) ==
    IF receipts.seq > seq THEN receipts
    ELSE [seq |-> seq, late |-> wire = "dying", due |-> FALSE]

\* Wrong: a receipt that was sent is not recorded.
SentUnrecorded(seq) ==
    /\ wire # "down"
    /\ remote' = IF wire = "up" THEN [remote EXCEPT !.read = Greater(@, seq)] ELSE remote
    /\ UNCHANGED <<receipts, forfeited>>

\* PacketSender::send_ack that returns Ok.  A receipt below the recorded one leaves the
\* entry and its time as they are, so nothing keeps it if the connection is dying.
SendAck(seq) ==
    /\ wire # "down"
    /\ remote' = IF wire = "up" THEN [remote EXCEPT !.read = Greater(@, seq)] ELSE remote
    /\ receipts' = Record(seq)
    /\ forfeited' = IF wire = "dying" /\ seq < receipts.seq THEN Greater(forfeited, seq)
                    ELSE forfeited

\* The residual loss that push_local_read_states accepts: a position it has written, and has
\* remembered or is about to, loses its last copy before the server has got it.
Forfeit ==
    LET written == Greater(readAcked, IF pushing.pc = "remember" THEN pushing.seq ELSE 0)
    IN  forfeited' = IF written > remote.read THEN Greater(forfeited, written) ELSE forfeited

-----------------------------------------------------------------------------
(* mark_read: plan, receipt, row, recount                                   *)

MarkRead(r) ==
    /\ reading[r].pc = "idle" /\ row.max > 0
    /\ \E s \in 1..top :
          /\ reading' = [reading EXCEPT ![r] = PlanMarkRead(row, top, s)]
          /\ asked' = Greater(asked, s)
    /\ UNCHANGED <<readEnv, row, top, readAcked, remote, receipts, wire, onlineOnce,
                   replaying, pushing, projecting, summary, forfeited, wires>>

ReadAckSent(r) ==
    /\ reading[r].pc = "ack"
    /\ SendAck(reading[r].seq)
    /\ reading' = [reading EXCEPT ![r].pc = "update"]
    /\ UNCHANGED <<readEnv, row, top, readAcked, wire, onlineOnce, replaying, pushing,
                   projecting, summary, asked, wires>>

\* The receipt cannot be written, or the row cannot: mark_read returns the error, the row
\* stays.
MarkReadFails(r) ==
    /\ reading[r].pc \in {"ack", "update"}
    /\ reading' = [reading EXCEPT ![r] = Nothing]
    /\ UNCHANGED <<readEnv, row, top, readAcked, remote, receipts, wire, onlineOnce,
                   replaying, pushing, projecting, summary, asked, forfeited, wires>>

\* update_unread.  "behind": the summary names messages that are not stored yet.
ReadStored(r) ==
    /\ reading[r].pc = "update" /\ Alone
    /\ "behind" \in readEnv.allow \/ row.max <= top
    /\ row' = [max |-> Greater(row.max, reading[r].seq), read |-> reading[r].seq,
               unread |-> reading[r].unread]
    /\ reading' = [reading EXCEPT ![r].pc = "recount"]
    /\ UNCHANGED <<readEnv, top, readAcked, remote, receipts, wire, onlineOnce, replaying,
                   pushing, projecting, summary, asked, forfeited, wires>>

\* recompute_unread_for_user: the stored messages of others above the position.
Recount(r) ==
    /\ reading[r].pc = "recount"
    /\ row' = [row EXCEPT !.unread = PeerIn((row.read + 1)..top)]
    /\ reading' = [reading EXCEPT ![r] = Nothing]
    /\ UNCHANGED <<readEnv, top, readAcked, remote, receipts, wire, onlineOnce, replaying,
                   pushing, projecting, summary, asked, forfeited, wires>>

\* mark_unread, of the store alone.  "unread": of a conversation with unread messages.
MarkUnread ==
    /\ row.max > 0 /\ Alone
    /\ "unread" \in readEnv.allow \/ row.unread = 0
    /\ row' = [row EXCEPT !.read = row.max - 1, !.unread = 1]
    /\ UNCHANGED <<readEnv, top, readAcked, remote, receipts, wire, onlineOnce, replaying,
                   reading, pushing, projecting, summary, asked, forfeited, wires>>

-----------------------------------------------------------------------------
(* push_local_read_states: list, receipt, cursor                            *)

PushList ==
    /\ wire # "down" /\ ~replaying /\ pushing.pc = "idle"
    /\ Alone
    /\ LET seq == AckReadSeq(row)
       IN  /\ seq > 0 /\ (readAcked = 0 \/ seq > readAcked)
           /\ pushing' = [pc |-> "send", seq |-> seq, unread |-> 0]
    /\ UNCHANGED <<readEnv, row, top, readAcked, remote, receipts, wire, onlineOnce,
                   replaying, reading, projecting, summary, asked, forfeited, wires>>

PushSent ==
    /\ pushing.pc = "send"
    /\ SendAck(pushing.seq)
    /\ pushing' = [pushing EXCEPT !.pc = "remember"]
    /\ UNCHANGED <<readEnv, row, top, readAcked, wire, onlineOnce, replaying, reading,
                   projecting, summary, asked, wires>>

\* The receipt cannot be written, or its cursor cannot be stored: it is pushed again.
PushFails ==
    /\ pushing.pc # "idle"
    /\ pushing' = Nothing
    /\ UNCHANGED <<readEnv, row, top, readAcked, remote, receipts, wire, onlineOnce,
                   replaying, reading, projecting, summary, asked, forfeited, wires>>

RememberReadAck ==
    /\ pushing.pc = "remember"
    /\ readAcked' = pushing.seq
    /\ pushing' = Nothing
    /\ UNCHANGED <<readEnv, row, top, remote, receipts, wire, onlineOnce, replaying,
                   reading, projecting, summary, asked, forfeited, wires>>

-----------------------------------------------------------------------------
(* apply_messages: store, read the row, newest message, unread count        *)

\* A pushed message, or the rest of the conversation by a sync.
Persist(mode) ==
    /\ projecting.pc = "idle" /\ wire = "up" /\ top < remote.max
    /\ LET upto == IF mode = "push" THEN top + 1 ELSE remote.max
       IN  /\ top' = upto
           /\ projecting' = [NoBatch EXCEPT !.pc = "previous", !.mode = mode,
                                            !.batch = (top + 1)..upto]
    /\ UNCHANGED <<readEnv, row, readAcked, remote, receipts, wire, onlineOnce, replaying,
                   reading, pushing, summary, asked, forfeited, wires>>

ReadPrevious ==
    /\ projecting.pc = "previous" /\ Alone
    /\ projecting' = [projecting EXCEPT !.pc = "newest", !.prev = row]
    /\ UNCHANGED <<readEnv, row, top, readAcked, remote, receipts, wire, onlineOnce,
                   replaying, reading, pushing, summary, asked, forfeited, wires>>

\* The shell of a new conversation, or update_last_message.
ProjectNewest ==
    /\ projecting.pc = "newest"
    /\ row' = [row EXCEPT !.max = Greater(@, Max(projecting.batch))]
    /\ projecting' = [projecting EXCEPT !.pc = "unread"]
    /\ UNCHANGED <<readEnv, top, readAcked, remote, receipts, wire, onlineOnce, replaying,
                   reading, pushing, summary, asked, forfeited, wires>>

ProjectUnread ==
    /\ projecting.pc = "unread"
    /\ LET prev == NormalizeForUnreadDelta(projecting.prev)
           max == Greater(prev.max, Max(projecting.batch))
           new == {s \in projecting.batch \ Own : ShouldCountUnread(s, prev, projecting.mode)}
           unread == projecting.prev.unread + Cardinality(new)
           read == ReadSeqForUnreadWindow(prev, max, unread)
       IN  row' = IF new = {} THEN row
                  ELSE [max |-> Greater(row.max, read), read |-> read, unread |-> unread]
    /\ projecting' = IF projecting.mode = "snapshot" THEN [projecting EXCEPT !.pc = "overwrite"]
                     ELSE NoBatch
    /\ UNCHANGED <<readEnv, top, readAcked, remote, receipts, wire, onlineOnce, replaying,
                   reading, pushing, summary, asked, forfeited, wires>>

-----------------------------------------------------------------------------
(* What the server sends about the conversation                             *)

\* A conversation summary or a snapshot row leaves the server.
Summarize(kind) ==
    /\ wire = "up" /\ summary = NoSummary /\ remote.max > 0
    /\ summary' = [kind |-> kind, max |-> remote.max, read |-> remote.read,
                   unread |-> PeerIn((remote.read + 1)..remote.max)]
    /\ UNCHANGED <<readEnv, row, top, readAcked, remote, receipts, wire, onlineOnce,
                   replaying, reading, pushing, projecting, asked, forfeited, wires>>

\* save_batch of the conversation list.
SaveSummary ==
    /\ summary.kind = "summary" /\ Alone
    /\ LET merged == MergeWithIncomingSummary(row, summary)
       IN  row' = [merged EXCEPT !.unread = Lesser(@, Minus(merged.max, merged.read))]
    /\ summary' = NoSummary
    /\ UNCHANGED <<readEnv, top, readAcked, remote, receipts, wire, onlineOnce, replaying,
                   reading, pushing, projecting, asked, forfeited, wires>>

\* apply_snapshot_row: its new messages first, by the same projection.
SaveSnapshot ==
    /\ summary.kind = "snapshot" /\ projecting.pc = "idle" /\ Alone
    /\ top' = Greater(top, summary.max)
    /\ projecting' = [pc |-> IF summary.max > top THEN "previous" ELSE "overwrite",
                      mode |-> "snapshot", batch |-> (top + 1)..summary.max,
                      prev |-> NoRow, snap |-> summary]
    /\ summary' = NoSummary
    /\ UNCHANGED <<readEnv, row, readAcked, remote, receipts, wire, onlineOnce, replaying,
                   reading, pushing, asked, forfeited, wires>>

\* The rest of apply_snapshot_row: the snapshot's position and count replace the row's.
\* "stale": messages arrived since the snapshot was taken.
OverwriteRead ==
    /\ projecting.pc = "overwrite"
    /\ "stale" \in readEnv.allow \/ projecting.snap.max >= row.max
    /\ row' = IF row.max = 0 THEN row
              ELSE [max |-> Greater(row.max, projecting.snap.read),
                    read |-> projecting.snap.read, unread |-> projecting.snap.unread]
    /\ projecting' = NoBatch
    /\ UNCHANGED <<readEnv, top, readAcked, remote, receipts, wire, onlineOnce, replaying,
                   reading, pushing, summary, asked, forfeited, wires>>

ServerMessage ==
    /\ remote.max < readEnv.seqs
    /\ remote' = [remote EXCEPT !.max = @ + 1]
    /\ UNCHANGED <<readEnv, row, top, readAcked, receipts, wire, onlineOnce, replaying,
                   reading, pushing, projecting, summary, asked, forfeited, wires>>

\* The user reads on another device.
ReadElsewhere ==
    /\ \E s \in (remote.read + 1)..remote.max :
          /\ remote' = [remote EXCEPT !.read = s]
          /\ asked' = Greater(asked, s)
    /\ UNCHANGED <<readEnv, row, top, readAcked, receipts, wire, onlineOnce, replaying,
                   reading, pushing, projecting, summary, forfeited, wires>>

-----------------------------------------------------------------------------
(* The connection                                                           *)

Dies ==
    /\ wire = "up" /\ wires < readEnv.links /\ wire' = "dying"
    /\ UNCHANGED <<readEnv, row, top, readAcked, remote, receipts, onlineOnce, replaying,
                   reading, pushing, projecting, summary, asked, forfeited, wires>>

\* on_lost: what was written while the connection was dying is inside the replay window
\* (ACK_REPLAY_WINDOW_MS covers the detection), older entries may be or not.  A replay that
\* is under way is dropped with the supervisor's operation.
Lost ==
    /\ wire # "down" /\ wires < readEnv.links /\ wire' = "down"
    /\ \E due \in BOOLEAN :
          /\ receipts.late => due
          /\ receipts' = [receipts EXCEPT !.late = FALSE, !.due = due]
          /\ IF due THEN UNCHANGED forfeited ELSE Forfeit
    /\ replaying' = FALSE /\ summary' = NoSummary
    /\ UNCHANGED <<readEnv, row, top, readAcked, remote, onlineOnce, reading, pushing,
                   projecting, asked, wires>>

\* link_up: the ledger is replayed unless the session was never ready (LinkUp::First).
LinkUp ==
    /\ wire = "down" /\ wires < readEnv.links
    /\ wire' = "up" /\ wires' = wires + 1
    /\ replaying' = (onlineOnce /\ receipts.due)
    /\ IF onlineOnce THEN UNCHANGED forfeited ELSE Forfeit
    /\ UNCHANGED <<readEnv, row, top, readAcked, remote, receipts, onlineOnce, reading,
                   pushing, projecting, summary, asked>>

ReplayAcks ==
    /\ replaying
    /\ SendAck(receipts.seq)
    /\ replaying' = FALSE
    /\ UNCHANGED <<readEnv, row, top, readAcked, wire, onlineOnce, reading, pushing,
                   projecting, summary, asked, wires>>

ReplayFails ==
    /\ replaying /\ replaying' = FALSE
    /\ Forfeit
    /\ UNCHANGED <<readEnv, row, top, readAcked, remote, receipts, wire, onlineOnce,
                   reading, pushing, projecting, summary, asked, wires>>

\* on_ready.
Ready ==
    /\ wire # "down" /\ ~replaying /\ ~onlineOnce
    /\ onlineOnce' = TRUE
    /\ UNCHANGED <<readEnv, row, top, readAcked, remote, receipts, wire, replaying, reading,
                   pushing, projecting, summary, asked, forfeited, wires>>

\* The process ends and starts again: the ledger and everything under way is gone.
RestartApp ==
    /\ wires < readEnv.links
    /\ Alone /\ ("race" \in readEnv.allow \/ projecting.pc = "idle")
    /\ Forfeit
    /\ receipts' = NoReceipt /\ wire' = "down" /\ onlineOnce' = FALSE /\ replaying' = FALSE
    /\ reading' = [r \in Readers |-> Nothing] /\ pushing' = Nothing
    /\ projecting' = NoBatch /\ summary' = NoSummary
    /\ UNCHANGED <<readEnv, row, top, readAcked, remote, asked, wires>>

ReadNext ==
    \/ \E r \in Readers :
          MarkRead(r) \/ ReadAckSent(r) \/ MarkReadFails(r) \/ ReadStored(r) \/ Recount(r)
    \/ MarkUnread
    \/ PushList \/ PushSent \/ PushFails \/ RememberReadAck
    \/ \E mode \in {"push", "sync"} : Persist(mode)
    \/ ReadPrevious \/ ProjectNewest \/ ProjectUnread
    \/ \E kind \in {"summary", "snapshot"} : Summarize(kind)
    \/ SaveSummary \/ SaveSnapshot \/ OverwriteRead
    \/ ServerMessage \/ ReadElsewhere
    \/ Dies \/ Lost \/ LinkUp \/ ReplayAcks \/ ReplayFails \/ Ready \/ RestartApp

ReadSpec == ReadInit /\ [][ReadNext]_readVars

-----------------------------------------------------------------------------
(* Properties                                                               *)

ReadTypeOK ==
    /\ \A p \in {row, projecting.prev} :
          p.max \in 0..readEnv.seqs /\ p.read \in 0..readEnv.seqs /\ p.unread \in Nat
    /\ top \in 0..readEnv.seqs /\ readAcked \in 0..readEnv.seqs
    /\ remote.max \in 0..readEnv.seqs /\ remote.read \in 0..remote.max
    /\ receipts.seq \in 0..readEnv.seqs /\ wire \in {"up", "dying", "down"}

\* A position this device has stored as read is never forgotten: the server has it, the
\* periodic push has yet to report it ("the position is recorded only after the send
\* succeeded", sync_protocol_adapter.rs:552), or the ledger will replay it on the next
\* connection.  The one exception is the loss the comment at sync_protocol_adapter.rs:553
\* accepts: the push wrote into a dying connection and the ledger's copy is gone as well.
ReadIsReportable ==
    LET kept == receipts.late \/ replaying \/ (wire = "down" /\ receipts.due)
    IN  \/ row.read <= remote.read
        \/ row.read > readAcked
        \/ row.read <= receipts.seq /\ kept
        \/ row.read <= forfeited

\* The server is told "read" only for messages that a user asked to mark as read: neither
\* summaries that are merged, snapshots, counting, replays nor repairs of a row
\* (ReadPosition::ack_read_seq, "the read position to report") run ahead of the user.
ReportedIsRead == \A m \in (1..remote.read) \ Own : m <= asked

\* ReportedIsRead as far as the code keeps it: while the row's operations do not interleave
\* and its maximum, its count and the stored messages speak of the same messages.
OnlyReadIsReported == readEnv.allow = {} => ReportedIsRead
=============================================================================
