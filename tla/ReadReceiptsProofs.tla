-------------------------- MODULE ReadReceiptsProofs --------------------------
(***************************************************************************)
(* Proofs about ReadReceipts, for any set of readers, any number of        *)
(* messages and connections: a read position that left the row is not      *)
(* lost, and the server is told "read" only for what a user asked to mark  *)
(* as read, while the user's own messages come first.                      *)
(***************************************************************************)
EXTENDS ReadReceipts, TLAPS

-----------------------------------------------------------------------------
(* A read position is not lost                                              *)

\* The numbers of a conversation row.
Position == [max : Nat, read : Nat, unread : Nat]
\* A mark-read call or a push of the ledger, between two of its awaits.
CallOfRead ==
    [pc : {"idle", "ack", "update", "recount", "send", "remember"}, seq : Nat, unread : Nat]
\* What the server says of a conversation.
Summaries == [kind : {"none", "summary", "snapshot"}, max : Nat, read : Nat, unread : Nat]
\* A batch or summary on its way into the row.
Projections ==
    [pc : {"idle", "previous", "newest", "unread", "overwrite"},
     mode : {"push", "sync", "snapshot"}, batch : SUBSET Nat, prev : Position, snap : Summaries]

\* A batch that is projected is a run of messages, so it has a newest one.
BatchIsRun ==
    projecting.pc \in {"previous", "newest", "unread"} =>
        \E a, b \in Nat : a <= b /\ projecting.batch = a..b

\* The values the variables take.
ReadShape ==
    /\ row \in Position /\ top \in Nat /\ readAcked \in Nat /\ forfeited \in Nat
    /\ remote \in [max : Nat, read : Nat]
    /\ receipts \in [seq : Nat, late : BOOLEAN, due : BOOLEAN]
    /\ wire \in {"up", "dying", "down"} /\ onlineOnce \in BOOLEAN /\ replaying \in BOOLEAN
    /\ reading \in [Readers -> CallOfRead] /\ pushing \in CallOfRead
    /\ summary \in Summaries /\ projecting \in Projections
    /\ BatchIsRun

\* The ledger will bring its position to the server.
LedgerKeeps == receipts.late \/ replaying \/ (wire = "down" /\ receipts.due)

\* The server has the position, the ledger keeps it, or its loss is accepted.
IsSafe(seq) ==
    \/ seq <= remote.read
    \/ seq <= receipts.seq /\ LedgerKeeps
    \/ seq <= forfeited

\* What the push has written and stored, or is about to store, is safe.
PushedIsSafe ==
    /\ IsSafe(readAcked)
    /\ pushing.pc = "remember" => IsSafe(pushing.seq)
    /\ wire = "down" => ~replaying

\* The inductive invariant of the read position.
ReadInv == ReadShape /\ PushedIsSafe

\* The repairs of a row give a row, and the position to report is a number.
LEMMA PositionType ==
    ASSUME NEW p \in Position
    PROVE  NormalizeForUnreadDelta(p) \in Position /\ AckReadSeq(p) \in Nat
<1>1. NormalizeForUnreadDelta(p) \in Position
  <2>1. CASE p.read = 0 /\ 0 < p.unread /\ p.unread < p.max
    <3>1. p.max - p.unread \in Nat
      BY <2>1 DEF Position
    <3> QED BY <2>1, <3>1 DEF NormalizeForUnreadDelta, Position
  <2>2. CASE ~(p.read = 0 /\ 0 < p.unread /\ p.unread < p.max)
    BY <2>2 DEF NormalizeForUnreadDelta
  <2> QED BY <2>1, <2>2
<1> DEFINE q == NormalizeForUnreadDelta(p)
<1>2. AckReadSeq(p) = (IF q.unread = 0 /\ q.read < q.max THEN [q EXCEPT !.read = q.max] ELSE q).read
  BY DEF AckReadSeq, NormalizeLocal
<1>3. q \in Position
  BY <1>1
<1> HIDE DEF q
<1> QED BY <1>1, <1>2, <1>3 DEF Position

\* A row merged with a summary is a row.
LEMMA MergeType ==
    ASSUME NEW p \in Position, NEW s \in Summaries
    PROVE  LET m == MergeWithIncomingSummary(p, s)
           IN  [m EXCEPT !.unread = Lesser(@, Minus(m.max, m.read))] \in Position
<1> DEFINE local == NormalizeForUnreadDelta(p)
           incoming == NormalizeForUnreadDelta(s)
           max == Greater(incoming.max, local.max)
           read == Greater(incoming.read, local.read)
           newest == IF incoming.max <= local.max THEN local ELSE incoming
           unread == IF local.max > 0 /\ local.read >= max THEN 0
                     ELSE Lesser(newest.unread, Minus(max, read))
<1>1. local.max \in Nat /\ local.read \in Nat /\ local.unread \in Nat
  BY PositionType DEF Position
<1>2. incoming.max \in Nat /\ incoming.read \in Nat /\ incoming.unread \in Nat
  <2>1. CASE s.read = 0 /\ 0 < s.unread /\ s.unread < s.max
    <3>1. s.max - s.unread \in Nat
      BY <2>1 DEF Summaries
    <3> QED BY <2>1, <3>1 DEF NormalizeForUnreadDelta, Summaries
  <2>2. CASE ~(s.read = 0 /\ 0 < s.unread /\ s.unread < s.max)
    BY <2>2 DEF NormalizeForUnreadDelta, Summaries
  <2> QED BY <2>1, <2>2
<1>3. MergeWithIncomingSummary(p, s) = [max |-> max, read |-> read, unread |-> unread]
  BY DEF MergeWithIncomingSummary
<1> HIDE DEF local, incoming
<1>4. max \in Nat /\ read \in Nat /\ newest.unread \in Nat
  BY <1>1, <1>2 DEF Greater
<1> HIDE DEF max, read, newest
<1>5. Minus(max, read) \in Nat
  BY <1>4 DEF Minus
<1>6. unread \in Nat
  BY <1>4, <1>5 DEF Lesser
<1> HIDE DEF unread
<1>7. Lesser(unread, Minus(max, read)) \in Nat
  BY <1>5, <1>6 DEF Lesser
<1> QED BY <1>3, <1>4, <1>7 DEF Position

\* What the proofs use of finite sets: a set of messages up to t has a size, and at least t - b
\* members if it has all messages above b.  CountingHolds, further down, takes it from the
\* library's theorems, which only the lemmas after it have in sight.
Counting ==
    /\ Cardinality({}) = 0
    /\ \A a, t \in Nat : \A S \in SUBSET (a..t) :
          /\ Cardinality(S) \in Nat
          /\ \A b \in Nat : (b + 1)..t \in SUBSET S => t <= Cardinality(S) + b

\* The newest message of a batch, and its size, are numbers.
LEMMA BatchFacts ==
    ASSUME Counting, NEW a \in Nat, NEW b \in Nat
    PROVE  /\ a <= b => Max(a..b) \in Nat
           /\ \A S \in SUBSET (a..b) : Cardinality(S) \in Nat
<1>1. ASSUME a <= b PROVE Max(a..b) \in Nat
  <2>1. b \in a..b /\ \A y \in a..b : b >= y
    BY <1>1
  <2>2. Max(a..b) \in a..b
    BY <2>1 DEF Max
  <2> QED BY <2>2
<1>2. \A S \in SUBSET (a..b) : Cardinality(S) \in Nat
  BY Zenon DEF Counting
<1> QED BY <1>1, <1>2

\* A receipt that was written leaves the ledger and the server with positions.
LEMMA SendType ==
    ASSUME ReadShape, NEW seq \in Nat, SendAck(seq)
    PROVE  /\ remote' \in [max : Nat, read : Nat] /\ forfeited' \in Nat
           /\ receipts' \in [seq : Nat, late : BOOLEAN, due : BOOLEAN]
<1>1. remote' \in [max : Nat, read : Nat]
  BY DEF ReadShape, SendAck, Greater
<1>2. forfeited' \in Nat
  BY DEF ReadShape, SendAck, Greater
<1>3. receipts' \in [seq : Nat, late : BOOLEAN, due : BOOLEAN]
  <2>1. (wire = "dying") \in BOOLEAN
    OBVIOUS
  <2> QED BY <2>1 DEF ReadShape, SendAck, Record
<1> QED BY <1>1, <1>2, <1>3

\* Whatever is forfeited is a number.
LEMMA ForfeitType ==
    ASSUME ReadShape, Forfeit
    PROVE  forfeited' \in Nat /\ forfeited' >= forfeited
<1> DEFINE written == Greater(readAcked, IF pushing.pc = "remember" THEN pushing.seq ELSE 0)
<1>1. written \in Nat
  BY DEF ReadShape, CallOfRead, Greater
<1>2. forfeited' = IF written > remote.read THEN Greater(forfeited, written) ELSE forfeited
  BY DEF Forfeit
<1> HIDE DEF written
<1> QED BY <1>1, <1>2 DEF ReadShape, Greater

\* The row, its calls and its batches keep their shape.
LEMMA ReadShapeStep == ASSUME Counting, ReadShape, [ReadNext]_readVars PROVE ReadShape'
<1> DEFINE Receipts == [seq : Nat, late : BOOLEAN, due : BOOLEAN]
<1>1. ASSUME NEW r \in Readers, MarkRead(r) PROVE ReadShape'
  <2>1. PICK s \in 1..top : reading' = [reading EXCEPT ![r] = PlanMarkRead(row, top, s)]
    BY <1>1, Zenon DEF MarkRead
  <2>2. s \in Nat /\ row.max \in Nat /\ row.read \in Nat /\ row.unread \in Nat /\ top \in Nat
    BY DEF ReadShape, Position
  <2>3. PlanMarkRead(row, top, s) \in CallOfRead
    BY <2>2 DEF PlanMarkRead, CallOfRead, Greater, Lesser
  <2>4. reading' \in [Readers -> CallOfRead]
    BY <2>1, <2>3 DEF ReadShape
  <2> QED BY <1>1, <2>4 DEF MarkRead, ReadShape, BatchIsRun
<1>2. ASSUME NEW r \in Readers, ReadAckSent(r) PROVE ReadShape'
  <2>1. reading[r] \in CallOfRead
    BY DEF ReadShape
  <2>2. [reading[r] EXCEPT !.pc = "update"] \in CallOfRead /\ reading[r].seq \in Nat
    BY <2>1 DEF CallOfRead
  <2>3. reading' \in [Readers -> CallOfRead]
    BY <1>2, <2>2 DEF ReadAckSent, ReadShape
  <2>4. SendAck(reading[r].seq)
    BY <1>2 DEF ReadAckSent
  <2>5. remote' \in [max : Nat, read : Nat] /\ forfeited' \in Nat /\ receipts' \in Receipts
    BY <2>2, <2>4, SendType, SMTT(40)
  <2> QED BY <1>2, <2>3, <2>5 DEF ReadAckSent, ReadShape, BatchIsRun
<1>3. ASSUME NEW r \in Readers, MarkReadFails(r) PROVE ReadShape'
  <2>1. reading' \in [Readers -> CallOfRead]
    BY <1>3 DEF MarkReadFails, ReadShape, CallOfRead, Nothing
  <2> QED BY <1>3, <2>1 DEF MarkReadFails, ReadShape, BatchIsRun
<1>4. ASSUME NEW r \in Readers, ReadStored(r) PROVE ReadShape'
  <2>1. reading[r] \in CallOfRead
    BY DEF ReadShape
  <2>2. [reading[r] EXCEPT !.pc = "recount"] \in CallOfRead
    BY <2>1 DEF CallOfRead
  <2>3. reading' \in [Readers -> CallOfRead]
    BY <1>4, <2>2 DEF ReadStored, ReadShape
  <2>4. row' \in Position
    BY <1>4, <2>1 DEF ReadStored, ReadShape, CallOfRead, Position, Greater
  <2> QED BY <1>4, <2>3, <2>4 DEF ReadStored, ReadShape, BatchIsRun
<1>5. ASSUME NEW r \in Readers, Recount(r) PROVE ReadShape'
  <2>1. row \in Position /\ top \in Nat
    BY DEF ReadShape
  <2>2. row.read + 1 \in Nat
    BY <2>1 DEF Position
  <2>3. PeerIn((row.read + 1)..top) \in Nat
    BY <2>1, <2>2, BatchFacts, Zenon DEF PeerIn
  <2>4. row' \in Position
    BY <1>5, <2>1, <2>3 DEF Recount, Position
  <2>5. reading' \in [Readers -> CallOfRead]
    BY <1>5 DEF Recount, ReadShape, CallOfRead, Nothing
  <2> QED BY <1>5, <2>4, <2>5 DEF Recount, ReadShape, BatchIsRun
<1>6. ASSUME MarkUnread PROVE ReadShape'
  <2>1. row \in Position /\ row.max > 0
    BY <1>6 DEF ReadShape, MarkUnread
  <2>2. row.max - 1 \in Nat
    BY <2>1 DEF Position
  <2>3. row' = [row EXCEPT !.read = row.max - 1, !.unread = 1]
    BY <1>6 DEF MarkUnread
  <2>4. row' \in Position
    BY <2>1, <2>2, <2>3, Zenon DEF Position
  <2> QED BY <1>6, <2>4 DEF MarkUnread, ReadShape, BatchIsRun
<1>7. ASSUME PushList PROVE ReadShape'
  <2>1. AckReadSeq(row) \in Nat
    BY PositionType DEF ReadShape
  <2>2. pushing' \in CallOfRead
    BY <1>7, <2>1 DEF PushList, CallOfRead
  <2> QED BY <1>7, <2>2 DEF PushList, ReadShape, BatchIsRun
<1>8. ASSUME PushSent PROVE ReadShape'
  <2>1. pushing' \in CallOfRead /\ pushing.seq \in Nat
    BY <1>8 DEF PushSent, ReadShape, CallOfRead
  <2>2. SendAck(pushing.seq)
    BY <1>8 DEF PushSent
  <2>3. remote' \in [max : Nat, read : Nat] /\ forfeited' \in Nat /\ receipts' \in Receipts
    BY <2>1, <2>2, SendType, SMTT(40)
  <2> QED BY <1>8, <2>1, <2>3 DEF PushSent, ReadShape, BatchIsRun
<1>9. ASSUME PushFails PROVE ReadShape'
  BY <1>9 DEF PushFails, ReadShape, BatchIsRun, CallOfRead, Nothing
<1>10. ASSUME RememberReadAck PROVE ReadShape'
  BY <1>10 DEF RememberReadAck, ReadShape, BatchIsRun, CallOfRead, Nothing
<1>11. ASSUME NEW mode \in {"push", "sync"}, Persist(mode) PROVE ReadShape'
  <2> DEFINE upto == IF mode = "push" THEN top + 1 ELSE remote.max
  <2>1. top \in Nat /\ remote.max \in Nat /\ top < remote.max
    BY <1>11 DEF Persist, ReadShape
  <2>2. upto \in Nat /\ top + 1 \in Nat /\ top + 1 <= upto
    BY <2>1
  <2>3. top' = upto /\ projecting' = [NoBatch EXCEPT !.pc = "previous", !.mode = mode,
                                                     !.batch = (top + 1)..upto]
    BY <1>11 DEF Persist
  <2> HIDE DEF upto
  <2>4. NoRow \in Position /\ NoSummary \in Summaries
    BY DEF NoRow, NoSummary, Position, Summaries
  <2>5. (top + 1)..upto \in SUBSET Nat
    BY <2>2
  <2>6. projecting' = [pc |-> "previous", mode |-> mode, batch |-> (top + 1)..upto,
                       prev |-> NoRow, snap |-> NoSummary]
    BY <2>3, Zenon DEF NoBatch
  <2>7. projecting' \in Projections /\ projecting'.batch = (top + 1)..upto
    BY <2>4, <2>5, <2>6 DEF Projections
  <2>8. BatchIsRun'
    BY <2>2, <2>7 DEF BatchIsRun
  <2> QED BY <1>11, <2>2, <2>3, <2>7, <2>8 DEF Persist, ReadShape
<1>12. ASSUME ReadPrevious PROVE ReadShape'
  <2>1. projecting \in Projections /\ row \in Position
    BY DEF ReadShape
  <2>2. projecting' = [projecting EXCEPT !.pc = "newest", !.prev = row]
    BY <1>12 DEF ReadPrevious
  <2>3. projecting' \in Projections /\ projecting'.batch = projecting.batch
    BY <2>1, <2>2, Zenon DEF Projections
  <2>4. BatchIsRun'
    BY <1>12, <2>3 DEF ReadPrevious, BatchIsRun, ReadShape
  <2> QED BY <1>12, <2>3, <2>4 DEF ReadPrevious, ReadShape
<1>13. ASSUME ProjectNewest PROVE ReadShape'
  <2>1. projecting \in Projections /\ row \in Position
    BY DEF ReadShape
  <2>2. PICK a, b \in Nat : a <= b /\ projecting.batch = a..b
    BY <1>13 DEF ProjectNewest, ReadShape, BatchIsRun
  <2>3. Max(projecting.batch) \in Nat
    BY <2>2, BatchFacts
  <2>4. row' \in Position
    BY <1>13, <2>1, <2>3 DEF ProjectNewest, Position, Greater
  <2>5. projecting' \in Projections /\ projecting'.batch = projecting.batch
    BY <1>13, <2>1 DEF ProjectNewest, Projections
  <2>6. BatchIsRun'
    BY <2>2, <2>5 DEF BatchIsRun
  <2> QED BY <1>13, <2>4, <2>5, <2>6 DEF ProjectNewest, ReadShape
<1>14. ASSUME ProjectUnread PROVE ReadShape'
  <2> DEFINE prev == NormalizeForUnreadDelta(projecting.prev)
             max == Greater(prev.max, Max(projecting.batch))
             new == {s \in projecting.batch \ Own : ShouldCountUnread(s, prev, projecting.mode)}
             unread == projecting.prev.unread + Cardinality(new)
             read == ReadSeqForUnreadWindow(prev, max, unread)
  <2>1. projecting \in Projections /\ row \in Position /\ projecting.prev \in Position
    BY DEF ReadShape, Projections
  <2>2. PICK a, b \in Nat : a <= b /\ projecting.batch = a..b
    BY <1>14 DEF ProjectUnread, ReadShape, BatchIsRun
  <2>3. Max(projecting.batch) \in Nat
    BY <2>2, BatchFacts
  <2>4. new \in SUBSET (a..b)
    BY <2>2
  <2>5. row' = IF new = {} THEN row
               ELSE [max |-> Greater(row.max, read), read |-> read, unread |-> unread]
    BY <1>14 DEF ProjectUnread
  <2>6. prev \in Position
    BY <2>1, PositionType
  <2> HIDE DEF new, prev
  <2>7. unread \in Nat
    <3>1. Cardinality(new) \in Nat
      BY <2>4, BatchFacts, ZenonT(40)
    <3> QED BY <2>1, <3>1 DEF Position
  <2>8. max \in Nat
    BY <2>3, <2>6 DEF Position, Greater
  <2> HIDE DEF unread, max
  <2>9. read \in Nat
    BY <2>6, <2>7, <2>8 DEF ReadSeqForUnreadWindow, Lesser, Minus, Position
  <2> HIDE DEF read
  <2>10. row' \in Position
    BY <2>1, <2>5, <2>7, <2>9 DEF Position, Greater
  <2>11. [projecting EXCEPT !.pc = "overwrite"] \in Projections
    BY <2>1, SMTT(40) DEF Projections
  <2>12. NoBatch \in Projections
    BY DEF NoBatch, NoRow, NoSummary, Projections, Position, Summaries
  <2>13. projecting' \in Projections /\ projecting'.pc \in {"overwrite", "idle"}
    BY <1>14, <2>1, <2>11, <2>12 DEF ProjectUnread, NoBatch, Projections
  <2>14. BatchIsRun'
    BY <2>13, SMTT(40) DEF BatchIsRun
  <2> QED BY <1>14, <2>10, <2>13, <2>14 DEF ProjectUnread, ReadShape
<1>15. ASSUME NEW kind \in {"summary", "snapshot"}, Summarize(kind) PROVE ReadShape'
  <2>1. remote.max \in Nat /\ remote.read \in Nat /\ remote.read + 1 \in Nat
    BY DEF ReadShape
  <2>2. PeerIn((remote.read + 1)..remote.max) \in Nat
    BY <2>1, BatchFacts, Zenon DEF PeerIn
  <2>3. summary' \in Summaries
    BY <1>15, <2>1, <2>2 DEF Summarize, Summaries
  <2> QED BY <1>15, <2>3 DEF Summarize, ReadShape, BatchIsRun
<1>16. ASSUME SaveSummary PROVE ReadShape'
  <2>1. row \in Position /\ summary \in Summaries
    BY DEF ReadShape
  <2>2. row' \in Position
    BY <1>16, <2>1, MergeType DEF SaveSummary
  <2>3. summary' \in Summaries
    BY <1>16 DEF SaveSummary, NoSummary, Summaries
  <2> QED BY <1>16, <2>2, <2>3 DEF SaveSummary, ReadShape, BatchIsRun
<1>17. ASSUME SaveSnapshot PROVE ReadShape'
  <2>1. top \in Nat /\ summary \in Summaries /\ summary.max \in Nat
    BY DEF ReadShape, Summaries
  <2>2. NoRow \in Position /\ NoSummary \in Summaries
    BY DEF NoRow, NoSummary, Position, Summaries
  <2> DEFINE stage == IF summary.max > top THEN "previous" ELSE "overwrite"
  <2>3. projecting' = [pc |-> stage, mode |-> "snapshot", batch |-> (top + 1)..summary.max,
                       prev |-> NoRow, snap |-> summary]
    BY <1>17 DEF SaveSnapshot
  <2>4. (stage = "previous") => top + 1 <= summary.max
    BY <2>1
  <2>5. stage \in {"previous", "overwrite"}
    OBVIOUS
  <2> HIDE DEF stage
  <2>6. (top + 1)..summary.max \in SUBSET Nat /\ top + 1 \in Nat
    BY <2>1
  <2>7. projecting' \in Projections
    BY <2>1, <2>2, <2>3, <2>5, <2>6, SMTT(40) DEF Projections
  <2>8. projecting'.pc = stage /\ projecting'.batch = (top + 1)..summary.max
    BY <2>3
  <2>9. BatchIsRun'
    BY <2>1, <2>4, <2>5, <2>6, <2>8, SMTT(40) DEF BatchIsRun
  <2>10. top' \in Nat /\ summary' \in Summaries
    BY <1>17, <2>1, <2>2, SMTT(40) DEF SaveSnapshot, Greater
  <2> QED BY <1>17, <2>7, <2>9, <2>10 DEF SaveSnapshot, ReadShape
<1>18. ASSUME OverwriteRead PROVE ReadShape'
  <2>1. row \in Position /\ projecting.snap \in Summaries
    BY SMTT(40) DEF ReadShape, Projections
  <2>2. row' \in Position
    BY <1>18, <2>1, ZenonT(40) DEF OverwriteRead, Position, Summaries, Greater
  <2>3. projecting' \in Projections /\ projecting'.pc = "idle"
    BY <1>18 DEF OverwriteRead, NoBatch, NoRow, NoSummary, Projections, Position, Summaries
  <2>4. BatchIsRun'
    BY <2>3 DEF BatchIsRun
  <2> QED BY <1>18, <2>2, <2>3, <2>4 DEF OverwriteRead, ReadShape
<1>19. ASSUME ServerMessage PROVE ReadShape'
  <2>1. remote' \in [max : Nat, read : Nat]
    BY <1>19 DEF ServerMessage, ReadShape
  <2> QED BY <1>19, <2>1 DEF ServerMessage, ReadShape, BatchIsRun
<1>20. ASSUME ReadElsewhere PROVE ReadShape'
  <2>1. PICK s \in (remote.read + 1)..remote.max : remote' = [remote EXCEPT !.read = s]
    BY <1>20 DEF ReadElsewhere
  <2>2. remote' \in [max : Nat, read : Nat]
    BY <2>1, SMTT(40) DEF ReadShape
  <2> QED BY <1>20, <2>2 DEF ReadElsewhere, ReadShape, BatchIsRun
<1>21. ASSUME Dies PROVE ReadShape'
  BY <1>21 DEF Dies, ReadShape, BatchIsRun
<1>22. ASSUME Lost PROVE ReadShape'
  <2>1. PICK due \in BOOLEAN :
           /\ receipts' = [receipts EXCEPT !.late = FALSE, !.due = due]
           /\ IF due THEN UNCHANGED forfeited ELSE Forfeit
    BY <1>22, Zenon DEF Lost
  <2>2. receipts' \in Receipts
    BY <2>1, Zenon DEF ReadShape
  <2>3. forfeited' \in Nat
    BY <2>1, ForfeitType DEF ReadShape
  <2>4. summary' \in Summaries
    BY <1>22 DEF Lost, NoSummary, Summaries
  <2> QED BY <1>22, <2>2, <2>3, <2>4, Zenon DEF Lost, ReadShape, BatchIsRun
<1>23. ASSUME LinkUp PROVE ReadShape'
  <2>1. forfeited' \in Nat
    BY <1>23, ForfeitType DEF LinkUp, ReadShape
  <2>2. replaying' \in BOOLEAN
    BY <1>23, Zenon DEF LinkUp
  <2> QED BY <1>23, <2>1, <2>2, Zenon DEF LinkUp, ReadShape, BatchIsRun
<1>24. ASSUME ReplayAcks PROVE ReadShape'
  <2>1. SendAck(receipts.seq) /\ receipts.seq \in Nat
    BY <1>24 DEF ReplayAcks, ReadShape
  <2>2. remote' \in [max : Nat, read : Nat] /\ forfeited' \in Nat /\ receipts' \in Receipts
    BY <2>1, SendType
  <2> QED BY <1>24, <2>2, Zenon DEF ReplayAcks, ReadShape, BatchIsRun
<1>25. ASSUME ReplayFails PROVE ReadShape'
  BY <1>25, ForfeitType, Zenon DEF ReplayFails, ReadShape, BatchIsRun
<1>26. ASSUME Ready PROVE ReadShape'
  BY <1>26 DEF Ready, ReadShape, BatchIsRun
<1>27. ASSUME RestartApp PROVE ReadShape'
  <2>1. receipts' \in Receipts /\ pushing' \in CallOfRead /\ reading' \in [Readers -> CallOfRead]
    BY <1>27, SMTT(40) DEF RestartApp, NoReceipt, Nothing, CallOfRead
  <2>2. projecting' \in Projections /\ projecting'.pc = "idle" /\ summary' \in Summaries
    BY <1>27 DEF RestartApp, NoBatch, NoRow, NoSummary, Projections, Position, Summaries
  <2>3. BatchIsRun'
    BY <2>2 DEF BatchIsRun
  <2>4. forfeited' \in Nat
    BY <1>27, ForfeitType, SMTT(40) DEF RestartApp
  <2> QED BY <1>27, <2>1, <2>2, <2>3, <2>4, Zenon DEF RestartApp, ReadShape
<1>28. CASE UNCHANGED readVars
  BY <1>28 DEF readVars, ReadShape, BatchIsRun
<1> QED
  BY <1>1, <1>2, <1>3, <1>4, <1>5, <1>6, <1>7, <1>8, <1>9, <1>10, <1>11, <1>12, <1>13, <1>14,
     <1>15, <1>16, <1>17, <1>18, <1>19, <1>20, <1>21, <1>22, <1>23, <1>24, <1>25, <1>26, <1>27,
     <1>28, Zenon DEF ReadNext

\* A receipt that was written is safe, and so is what was safe before; the ledger's own
\* position may end its replay with it.
LEMMA SendIsSafe ==
    ASSUME ReadShape, NEW seq \in Nat, SendAck(seq), UNCHANGED wire,
           replaying' = replaying \/ seq = receipts.seq
    PROVE  IsSafe(seq)' /\ \A x \in Nat : IsSafe(x) => IsSafe(x)'
<1>1. /\ receipts.seq \in Nat /\ remote.read \in Nat /\ forfeited \in Nat
      /\ wire \in {"up", "dying"}
  BY DEF ReadShape, SendAck
<1>2. remote' \in [max : Nat, read : Nat] /\ forfeited' \in Nat
  BY SendType
<1>3. /\ remote'.read >= remote.read /\ forfeited' >= forfeited
      /\ wire = "up" => remote'.read >= seq
  BY <1>1 DEF SendAck, ReadShape, Greater
<1>4. CASE receipts.seq > seq
  <2>1. receipts' = receipts /\ replaying' = replaying
    BY <1>1, <1>4 DEF SendAck, Record
  <2>2. wire = "dying" => forfeited' >= seq
    BY <1>1, <1>4 DEF SendAck, Greater
  <2>3. IsSafe(seq)'
    BY <1>1, <1>2, <1>3, <2>2 DEF IsSafe
  <2>4. LedgerKeeps' = LedgerKeeps
    BY <2>1 DEF LedgerKeeps
  <2> QED BY <1>1, <1>2, <1>3, <2>1, <2>3, <2>4 DEF IsSafe
<1>5. CASE ~(receipts.seq > seq)
  <2>1. receipts' = [seq |-> seq, late |-> wire = "dying", due |-> FALSE]
    BY <1>5 DEF SendAck, Record
  <2>2. receipts'.seq = seq /\ (wire = "dying" => receipts'.late)
    BY <2>1, Zenon
  <2>3. wire = "dying" => LedgerKeeps'
    BY <2>2 DEF LedgerKeeps
  <2>4. IsSafe(seq)'
    BY <1>1, <1>2, <1>3, <2>2, <2>3 DEF IsSafe
  <2>5. ASSUME NEW x \in Nat, IsSafe(x) PROVE IsSafe(x)'
    <3>1. CASE x <= receipts.seq
      <4>1. x <= seq
        BY <1>1, <1>5, <3>1
      <4> QED BY <1>1, <1>2, <1>3, <2>2, <2>3, <4>1 DEF IsSafe
    <3>2. CASE ~(x <= receipts.seq)
      BY <1>1, <1>2, <1>3, <2>5, <3>2 DEF IsSafe
    <3> QED BY <3>1, <3>2
  <2> QED BY <2>4, <2>5 DEF IsSafe
<1> QED BY <1>4, <1>5

\* What the push wrote is with the server or accepted as lost once it is forfeited.
LEMMA ForfeitIsSafe ==
    ASSUME ReadShape, Forfeit, UNCHANGED remote
    PROVE  /\ readAcked <= remote'.read \/ readAcked <= forfeited'
           /\ pushing.pc = "remember" =>
                 pushing.seq <= remote'.read \/ pushing.seq <= forfeited'
<1> DEFINE written == Greater(readAcked, IF pushing.pc = "remember" THEN pushing.seq ELSE 0)
<1>1. readAcked \in Nat /\ pushing.seq \in Nat /\ remote.read \in Nat /\ forfeited \in Nat
  BY DEF ReadShape, CallOfRead
<1>2. /\ written \in Nat /\ readAcked <= written
      /\ pushing.pc = "remember" => pushing.seq <= written
  BY <1>1 DEF Greater
<1>3. forfeited' = IF written > remote.read THEN Greater(forfeited, written) ELSE forfeited
  BY DEF Forfeit
<1> HIDE DEF written
<1>4. written <= remote.read \/ (forfeited' \in Nat /\ written <= forfeited')
  BY <1>1, <1>2, <1>3 DEF Greater
<1> QED BY <1>1, <1>2, <1>4

\* What the push wrote stays safe, whatever the connection and the ledger do.
LEMMA PushedStep == ReadInv /\ [ReadNext]_readVars => PushedIsSafe'
<1> SUFFICES ASSUME ReadShape, PushedIsSafe, [ReadNext]_readVars PROVE PushedIsSafe'
  BY DEF ReadInv
<1> DEFINE Same == UNCHANGED <<remote, receipts, wire, replaying, forfeited>>
<1>0. /\ readAcked \in Nat /\ pushing.seq \in Nat /\ receipts.seq \in Nat /\ remote.read \in Nat
      /\ forfeited \in Nat
  BY DEF ReadShape, CallOfRead
<1>1. ASSUME Same, UNCHANGED <<readAcked, pushing>> PROVE PushedIsSafe'
  BY <1>1 DEF PushedIsSafe, IsSafe, LedgerKeeps
<1>2. ASSUME Same, UNCHANGED readAcked, pushing'.pc # "remember" PROVE PushedIsSafe'
  BY <1>2 DEF PushedIsSafe, IsSafe, LedgerKeeps
<1>3. ASSUME NEW r \in Readers,
             MarkRead(r) \/ MarkReadFails(r) \/ ReadStored(r) \/ Recount(r)
      PROVE  Same /\ UNCHANGED <<readAcked, pushing>>
  BY <1>3, Zenon DEF MarkRead, MarkReadFails, ReadStored, Recount
<1>4. ASSUME MarkUnread \/ ReadPrevious \/ ProjectNewest \/ ProjectUnread
      PROVE  Same /\ UNCHANGED <<readAcked, pushing>>
  BY <1>4, Zenon DEF MarkUnread, ReadPrevious, ProjectNewest, ProjectUnread
<1>5. ASSUME SaveSummary \/ SaveSnapshot \/ OverwriteRead \/ Ready
      PROVE  Same /\ UNCHANGED <<readAcked, pushing>>
  BY <1>5, Zenon DEF SaveSummary, SaveSnapshot, OverwriteRead, Ready
<1>6. ASSUME NEW mode \in {"push", "sync"}, Persist(mode)
      PROVE  Same /\ UNCHANGED <<readAcked, pushing>>
  BY <1>6, Zenon DEF Persist
<1>7. ASSUME NEW kind \in {"summary", "snapshot"}, Summarize(kind)
      PROVE  Same /\ UNCHANGED <<readAcked, pushing>>
  BY <1>7, Zenon DEF Summarize
<1>8. ASSUME NEW seq \in Nat, SendAck(seq), UNCHANGED <<wire, readAcked>>,
             replaying' = replaying \/ (seq = receipts.seq /\ ~replaying'),
             \/ UNCHANGED pushing
             \/ seq = pushing.seq /\ pushing' = [pushing EXCEPT !.pc = "remember"]
      PROVE  PushedIsSafe'
  <2>1. IsSafe(seq)' /\ \A x \in Nat : IsSafe(x) => IsSafe(x)'
    BY <1>8, SendIsSafe
  <2>2. IsSafe(readAcked)'
    BY <1>0, <1>8, <2>1 DEF PushedIsSafe, IsSafe
  <2>3. pushing'.seq = pushing.seq
    BY <1>8 DEF ReadShape, CallOfRead
  <2>4. (pushing.pc = "remember" => IsSafe(pushing.seq)')
    BY <1>0, <1>8, <2>1, <2>3 DEF PushedIsSafe, IsSafe
  <2>5. pushing'.pc = "remember" => IsSafe(pushing.seq)'
    BY <1>8, <2>1, <2>3, <2>4 DEF IsSafe
  <2>6. wire' = "down" => ~replaying'
    BY <1>8 DEF SendAck
  <2> QED BY <2>2, <2>5, <2>6 DEF PushedIsSafe
<1>9. ASSUME NEW r \in Readers, ReadAckSent(r) PROVE PushedIsSafe'
  <2>1. reading[r].seq \in Nat
    BY DEF ReadShape, CallOfRead
  <2> QED BY <1>8, <1>9, <2>1 DEF ReadAckSent
<1>10. ASSUME PushList PROVE PushedIsSafe'
  <2>1. pushing'.pc = "send"
    BY <1>10 DEF PushList
  <2> QED BY <1>2, <1>10, <2>1, SMTT(40) DEF PushList
<1>11. ASSUME PushSent PROVE PushedIsSafe'
  BY <1>0, <1>8, <1>11 DEF PushSent
<1>12. ASSUME PushFails PROVE PushedIsSafe'
  <2>1. pushing'.pc = "idle"
    BY <1>12 DEF PushFails, Nothing
  <2> QED BY <1>2, <1>12, <2>1 DEF PushFails
<1>13. ASSUME RememberReadAck PROVE PushedIsSafe'
  <2>1. pushing'.pc = "idle" /\ readAcked' = pushing.seq /\ Same /\ IsSafe(pushing.seq)
    BY <1>13 DEF RememberReadAck, Nothing, PushedIsSafe
  <2> QED BY <2>1 DEF PushedIsSafe, IsSafe, LedgerKeeps
<1>14. ASSUME UNCHANGED <<receipts, replaying, forfeited, readAcked, pushing>>,
              remote'.read \in Nat, remote'.read >= remote.read,
              wire' = wire \/ (wire = "up" /\ wire' = "dying")
       PROVE  PushedIsSafe'
  BY <1>0, <1>14 DEF PushedIsSafe, IsSafe, LedgerKeeps
<1>15. ASSUME ServerMessage PROVE PushedIsSafe'
  <2>1. remote'.read = remote.read
    BY <1>15 DEF ServerMessage, ReadShape
  <2> QED BY <1>0, <1>14, <1>15, <2>1 DEF ServerMessage
<1>16. ASSUME ReadElsewhere PROVE PushedIsSafe'
  <2>1. PICK s \in (remote.read + 1)..remote.max : remote' = [remote EXCEPT !.read = s]
    BY <1>16 DEF ReadElsewhere
  <2>2. remote'.read \in Nat /\ remote'.read >= remote.read
    BY <1>0, <2>1 DEF ReadShape
  <2> QED BY <1>14, <1>16, <2>2 DEF ReadElsewhere
<1>17. ASSUME Dies PROVE PushedIsSafe'
  BY <1>0, <1>14, <1>17 DEF Dies
<1>18. ASSUME Forfeit, UNCHANGED <<remote, readAcked>>, wire' = "down" => ~replaying',
              UNCHANGED pushing \/ pushing'.pc # "remember"
       PROVE  PushedIsSafe'
  <2>1. /\ readAcked <= remote'.read \/ readAcked <= forfeited'
        /\ pushing.pc = "remember" => pushing.seq <= remote'.read \/ pushing.seq <= forfeited'
    BY <1>18, ForfeitIsSafe
  <2>2. IsSafe(readAcked)'
    BY <1>18, <2>1 DEF IsSafe
  <2>3. pushing'.pc = "remember" => IsSafe(pushing.seq)'
    BY <1>18, <2>1 DEF IsSafe
  <2> QED BY <1>18, <2>2, <2>3 DEF PushedIsSafe
<1>19. ASSUME Lost PROVE PushedIsSafe'
  <2>1. PICK due \in BOOLEAN :
           /\ receipts' = [receipts EXCEPT !.late = FALSE, !.due = due]
           /\ IF due THEN UNCHANGED forfeited ELSE Forfeit
    BY <1>19, Zenon DEF Lost
  <2>2. wire' = "down" /\ ~replaying' /\ UNCHANGED <<remote, readAcked, pushing>>
    BY <1>19 DEF Lost
  <2>3. CASE due
    <3>1. receipts'.due /\ receipts'.seq = receipts.seq /\ UNCHANGED forfeited
      BY <2>1, <2>3 DEF ReadShape
    <3>2. LedgerKeeps'
      BY <2>2, <3>1 DEF LedgerKeeps
    <3> QED BY <2>2, <3>1, <3>2 DEF PushedIsSafe, IsSafe
  <2>4. CASE ~due
    BY <1>18, <2>1, <2>2, <2>4
  <2> QED BY <2>3, <2>4
<1>20. ASSUME LinkUp PROVE PushedIsSafe'
  <2>1. /\ wire = "down" /\ wire' = "up" /\ replaying' = (onlineOnce /\ receipts.due)
        /\ UNCHANGED <<remote, receipts, readAcked, pushing>>
    BY <1>20 DEF LinkUp
  <2>2. CASE onlineOnce
    <3>1. UNCHANGED forfeited
      BY <1>20, <2>2 DEF LinkUp
    <3>2. LedgerKeeps => LedgerKeeps'
      BY <2>1, <2>2, Zenon DEF LedgerKeeps, PushedIsSafe
    <3> QED BY <2>1, <3>1, <3>2 DEF PushedIsSafe, IsSafe
  <2>3. CASE ~onlineOnce
    BY <1>18, <1>20, <2>1, <2>3 DEF LinkUp
  <2> QED BY <2>2, <2>3
<1>21. ASSUME ReplayAcks PROVE PushedIsSafe'
  BY <1>0, <1>8, <1>21, ZenonT(40) DEF ReplayAcks
<1>22. ASSUME ReplayFails PROVE PushedIsSafe'
  BY <1>18, <1>22, SMTT(40) DEF ReplayFails
<1>23. ASSUME RestartApp PROVE PushedIsSafe'
  <2>1. pushing'.pc # "remember" /\ ~replaying'
    BY <1>23 DEF RestartApp, Nothing
  <2> QED BY <1>18, <1>23, <2>1, SMTT(40) DEF RestartApp
<1>24. CASE UNCHANGED readVars
  BY <1>1, <1>24 DEF readVars
<1> HIDE DEF Same
<1> QED
  BY <1>1, <1>3, <1>4, <1>5, <1>6, <1>7, <1>9, <1>10, <1>11, <1>12, <1>13, <1>15, <1>16, <1>17,
     <1>19, <1>20, <1>21, <1>22, <1>23, <1>24, Zenon DEF ReadNext

\* Every behaviour begins with a row of that shape and nothing pushed.
LEMMA ReadInvInit == ReadInit => ReadInv
<1> SUFFICES ASSUME ReadInit PROVE ReadInv
  BY Zenon
<1>1. projecting \in Projections /\ row \in Position /\ summary \in Summaries
  BY DEF ReadInit, NoBatch, NoRow, NoSummary, Projections, Position, Summaries
<1>2. pushing \in CallOfRead /\ reading \in [Readers -> CallOfRead] /\ pushing.pc = "idle"
  BY DEF ReadInit, Nothing, CallOfRead
<1>3. BatchIsRun
  BY DEF ReadInit, NoBatch, BatchIsRun
<1>4. ReadShape
  BY <1>1, <1>2, <1>3, Zenon DEF ReadInit, NoReceipt, ReadShape
<1>5. PushedIsSafe
  BY <1>2 DEF ReadInit, PushedIsSafe, IsSafe
<1> QED BY <1>4, <1>5 DEF ReadInv

-----------------------------------------------------------------------------
(* What is reported as read: ReadReceipts while nothing of readEnv.allow happens *)

\* The user's own messages are the oldest of the conversation.  Without this OnlyReadIsReported
\* does not hold: an own message that follows an unread one is not counted, so the row's
\* maximum less its count is past the unread message.
OwnComesFirst == \E k \in Nat : Own = 1..k

\* The highest position that may be reported while the first k messages are the user's own.
Cap(k) == Greater(k, asked)

\* A row or summary that reports nothing past the cap, by its position or by its count.
SafeAt(p, cap) == p.read <= cap /\ p.max <= p.unread + cap

\* No mark_read call has stored its position and not yet counted.
NoRecount == \A r \in Readers : reading[r].pc # "recount"

\* Every position that may still reach the server was asked for.
SeqsAsked(k) ==
    /\ asked \in Nat
    /\ remote.read <= Cap(k) /\ receipts.seq <= Cap(k) /\ pushing.seq <= Cap(k)
    /\ row.read <= Cap(k)
    /\ \A r \in Readers : reading[r].seq <= Cap(k)
    /\ SafeAt(summary, Cap(k)) /\ SafeAt(projecting.prev, Cap(k))
    /\ SafeAt(projecting.snap, Cap(k))

\* Between two operations the row is safe; inside a projection it is the row that was read,
\* but for the newest message.
RowAsked(k) ==
    /\ projecting.pc \in {"idle", "previous"} /\ NoRecount => SafeAt(row, Cap(k))
    /\ projecting.pc = "newest" => row = projecting.prev
    /\ projecting.pc = "unread" =>
          /\ row.unread = projecting.prev.unread
          /\ row.max = Greater(projecting.prev.max, top)

\* A call that counts is the only operation on the row, and what is stored reaches the row's
\* maximum.
RecountAlone ==
    \A r \in Readers : reading[r].pc = "recount" =>
        /\ row.max <= top /\ projecting.pc \in {"idle", "previous"}
        /\ \A q \in Readers : reading[q].pc = "recount" => q = r

\* What is stored is in the row or in the batch that is being projected, without a gap between
\* the two; a call asks for no more than either has.
TopProjected ==
    /\ projecting.pc \in {"idle", "overwrite"} => top <= row.max
    /\ projecting.pc = "previous" =>
          \E a \in Nat : projecting.batch = (a + 1)..top /\ a < top /\ a <= row.max
    /\ projecting.pc \in {"newest", "unread"} =>
          \E a \in Nat : projecting.batch = (a + 1)..top /\ a < top /\ a <= projecting.prev.max
    /\ \A r \in Readers : reading[r].seq <= Greater(top, row.max)

ReadSafe(k) == SeqsAsked(k) /\ RowAsked(k) /\ RecountAlone /\ TopProjected

\* A repair of a safe row reports no more than the cap, and neither does the row.
LEMMA SafePosition ==
    ASSUME NEW cap \in Nat, NEW p, p.max \in Nat, p.read \in Nat, p.unread \in Nat,
           p \in Position \/ p \in Summaries, SafeAt(p, cap)
    PROVE  /\ NormalizeForUnreadDelta(p).read \in Nat
           /\ NormalizeForUnreadDelta(p).read <= cap
           /\ NormalizeForUnreadDelta(p).max = p.max
           /\ NormalizeForUnreadDelta(p).unread = p.unread
<1>1. CASE p.read = 0 /\ 0 < p.unread /\ p.unread < p.max
  <2>1. /\ NormalizeForUnreadDelta(p).read = p.max - p.unread
        /\ NormalizeForUnreadDelta(p).max = p.max
        /\ NormalizeForUnreadDelta(p).unread = p.unread
    BY <1>1 DEF NormalizeForUnreadDelta, Position, Summaries
  <2> QED BY <1>1, <2>1 DEF SafeAt
<1>2. CASE ~(p.read = 0 /\ 0 < p.unread /\ p.unread < p.max)
  BY <1>2 DEF NormalizeForUnreadDelta, SafeAt
<1> QED BY <1>1, <1>2

\* The position to report of a safe row is not past the cap.
LEMMA SafeReport ==
    ASSUME NEW cap \in Nat, NEW p \in Position, SafeAt(p, cap)
    PROVE  AckReadSeq(p) <= cap
<1> DEFINE q == NormalizeForUnreadDelta(p)
<1>1. p.max \in Nat /\ p.read \in Nat /\ p.unread \in Nat
  BY DEF Position
<1>2. q \in Position /\ q.read <= cap /\ q.max = p.max /\ q.unread = p.unread
  BY <1>1, SafePosition, PositionType
<1>3. AckReadSeq(p) = (IF q.unread = 0 /\ q.read < q.max THEN [q EXCEPT !.read = q.max] ELSE q).read
  BY DEF AckReadSeq, NormalizeLocal
<1> HIDE DEF q
<1> QED BY <1>1, <1>2, <1>3 DEF Position, SafeAt

\* A row merged with a summary is safe if both were, and loses no messages.
LEMMA SafeMerge ==
    ASSUME NEW cap \in Nat, NEW p \in Position, NEW s \in Summaries,
           SafeAt(p, cap), SafeAt(s, cap), NEW m, m = MergeWithIncomingSummary(p, s),
           NEW w, w = [m EXCEPT !.unread = Lesser(@, Minus(m.max, m.read))]
    PROVE  SafeAt(w, cap) /\ w.max >= p.max
<1> DEFINE local == NormalizeForUnreadDelta(p)
           incoming == NormalizeForUnreadDelta(s)
           max == Greater(incoming.max, local.max)
           read == Greater(incoming.read, local.read)
           newest == IF incoming.max <= local.max THEN local ELSE incoming
           unread == IF local.max > 0 /\ local.read >= max THEN 0
                     ELSE Lesser(newest.unread, Minus(max, read))
<1>1. /\ local.max = p.max /\ p.max \in Nat /\ local.unread = p.unread /\ p.unread \in Nat
      /\ local.read \in Nat /\ local.read <= cap
  <2>1. p.max \in Nat /\ p.read \in Nat /\ p.unread \in Nat
    BY DEF Position
  <2> QED BY <2>1, SafePosition
<1>2. /\ incoming.max = s.max /\ s.max \in Nat /\ incoming.unread = s.unread /\ s.unread \in Nat
      /\ incoming.read \in Nat /\ incoming.read <= cap
  <2>1. s.max \in Nat /\ s.read \in Nat /\ s.unread \in Nat
    BY DEF Summaries
  <2> QED BY <2>1, SafePosition
<1>3. m = [max |-> max, read |-> read, unread |-> unread]
  BY DEF MergeWithIncomingSummary
<1>4. local.max <= local.unread + cap /\ incoming.max <= incoming.unread + cap
  BY <1>1, <1>2 DEF SafeAt
<1> HIDE DEF local, incoming
<1>5. /\ max \in Nat /\ read \in Nat /\ read <= cap /\ newest.unread \in Nat
      /\ max <= newest.unread + cap /\ p.max <= max /\ local.read <= read
  BY <1>1, <1>2, <1>4 DEF Greater
<1> HIDE DEF max, read, newest
<1>6. Minus(max, read) \in Nat /\ max <= Minus(max, read) + cap
  BY <1>5 DEF Minus
<1>7. unread \in Nat /\ max <= unread + cap
  BY <1>1, <1>5, <1>6 DEF Lesser
<1> HIDE DEF unread
<1>8. w = [max |-> max, read |-> read, unread |-> Lesser(unread, Minus(max, read))]
  BY <1>3
<1>9. max <= Lesser(unread, Minus(max, read)) + cap
  BY <1>5, <1>6, <1>7 DEF Lesser
<1> QED BY <1>5, <1>8, <1>9 DEF SafeAt

\* The messages of others above a position: all that is stored above it and above the own ones.
LEMMA PeerCount ==
    ASSUME Counting, NEW k \in Nat, Own = 1..k, NEW r \in Nat, NEW t \in Nat, NEW cap \in Nat,
           r <= cap, k <= cap
    PROVE  t <= PeerIn((r + 1)..t) + cap /\ PeerIn((r + 1)..t) \in Nat
<1> DEFINE S == ((r + 1)..t) \ Own
<1>1. (cap + 1)..t \in SUBSET S /\ S \in SUBSET ((r + 1)..t) /\ r + 1 \in Nat
  OBVIOUS
<1>2. PeerIn((r + 1)..t) = Cardinality(S)
  BY DEF PeerIn
<1> HIDE DEF S
<1> QED BY <1>1, <1>2, Zenon DEF Counting

\* A set of messages up to t that has all those above b is as large as t is above b.
LEMMA NewCount ==
    ASSUME Counting, NEW a \in Nat, NEW b \in Nat, NEW t \in Nat, NEW new \in SUBSET ((a + 1)..t),
           (b + 1)..t \in SUBSET new
    PROVE  t <= Cardinality(new) + b /\ Cardinality(new) \in Nat
<1>1. a + 1 \in Nat
  OBVIOUS
<1> QED BY <1>1, Zenon DEF Counting

\* The newest message of a batch.
LEMMA NewestOfBatch ==
    ASSUME NEW a \in Nat, NEW t \in Nat, a < t
    PROVE  Max((a + 1)..t) = t
<1>1. t \in (a + 1)..t /\ \A y \in (a + 1)..t : t >= y
  OBVIOUS
<1>2. Max((a + 1)..t) \in (a + 1)..t /\ \A y \in (a + 1)..t : Max((a + 1)..t) >= y
  BY <1>1, Zenon DEF Max
<1> QED BY <1>1, <1>2

\* What is safe stays safe when the user asks for more.
LEMMA SafeGrows ==
    ASSUME NEW c \in Nat, NEW d \in Nat, c <= d, NEW p, p \in Position \/ p \in Summaries,
           SafeAt(p, c)
    PROVE  SafeAt(p, d)
<1>1. p.max \in Nat /\ p.read \in Nat /\ p.unread \in Nat
  BY DEF Position, Summaries
<1> QED BY <1>1 DEF SafeAt

\* What may be reported only grows.
LEMMA CapGrows ==
    ASSUME NEW k \in Nat, asked \in Nat, asked' \in Nat, asked' >= asked
    PROVE  Cap(k) \in Nat /\ Cap(k)' \in Nat /\ Cap(k) <= Cap(k)'
BY DEF Cap, Greater

\* A step that leaves the row, the stored messages and the batch alone, and the calls but for
\* their plans, keeps every position asked for if the positions it changes are.
LEMMA QuietStep ==
    ASSUME ReadShape, NEW k \in Nat, ReadSafe(k),
           UNCHANGED <<row, top, projecting>>, asked' \in Nat, asked' >= asked,
           remote'.read <= Cap(k)', receipts'.seq <= Cap(k)', pushing'.seq <= Cap(k)',
           SafeAt(summary, Cap(k))' \/ UNCHANGED summary,
           \/ UNCHANGED reading
           \/ \A q \in Readers :
                 /\ reading'[q].seq <= Cap(k)' /\ reading'[q].seq <= Greater(top, row.max)
                 /\ reading'[q].pc = "recount" <=> reading[q].pc = "recount"
    PROVE  ReadSafe(k)'
<1>1. /\ row \in Position /\ row.read \in Nat
      /\ projecting.prev \in Position /\ projecting.snap \in Summaries /\ summary \in Summaries
      /\ \A r \in Readers : reading[r].seq \in Nat
  BY DEF ReadShape, Projections, CallOfRead, Position
<1>2. Cap(k) \in Nat /\ Cap(k)' \in Nat /\ Cap(k) <= Cap(k)'
  <2>1. asked \in Nat
    BY Zenon DEF ReadSafe, SeqsAsked
  <2> QED BY <2>1, CapGrows
<1> DEFINE c == Cap(k)
           d == Cap(k)'
<1> HIDE DEF c, d
<1>3. c \in Nat /\ d \in Nat /\ c <= d
  BY <1>2, Zenon DEF c, d
<1>4. /\ SafeAt(summary, c) /\ SafeAt(projecting.prev, c) /\ SafeAt(projecting.snap, c)
      /\ row.read <= c /\ \A r \in Readers : reading[r].seq <= c
      /\ \A r \in Readers : reading[r].seq <= Greater(top, row.max)
  BY Zenon DEF ReadSafe, SeqsAsked, TopProjected, c
<1>5. SafeAt(summary, d) /\ SafeAt(projecting.prev, d) /\ SafeAt(projecting.snap, d)
  BY <1>1, <1>3, <1>4, SafeGrows, Zenon
<1>6. row.read <= d /\ \A r \in Readers : reading[r].seq <= d
  BY <1>1, <1>3, <1>4
<1>7. \A q \in Readers :
         /\ reading'[q].seq <= d /\ reading'[q].seq <= Greater(top, row.max)
         /\ reading'[q].pc = "recount" <=> reading[q].pc = "recount"
  BY <1>4, <1>6, Zenon DEF d
<1>8. SeqsAsked(k)'
  <2>1. SafeAt(summary', d)
    BY <1>5, Zenon DEF d, SafeAt
  <2> QED BY <1>5, <1>6, <1>7, <2>1, Zenon DEF SeqsAsked, SafeAt, d
<1>9. RowAsked(k)'
  <2>1. SafeAt(row, c) => SafeAt(row, d)
    BY <1>1, <1>3, SafeGrows
  <2>2. NoRecount' <=> NoRecount
    BY <1>7, Zenon DEF NoRecount
  <2> QED BY <2>1, <2>2, Zenon DEF ReadSafe, RowAsked, SafeAt, c, d
<1>10. RecountAlone'
  BY <1>7, Zenon DEF ReadSafe, RecountAlone
<1>11. TopProjected'
  BY <1>7, Zenon DEF ReadSafe, TopProjected
<1> QED BY <1>8, <1>9, <1>10, <1>11, SMTT(40) DEF ReadSafe

\* A receipt that was written reports its position and no other.
LEMMA SendAsked ==
    ASSUME ReadShape, NEW cap \in Nat, NEW seq \in Nat, SendAck(seq), seq <= cap,
           remote.read <= cap, receipts.seq <= cap
    PROVE  remote'.read <= cap /\ receipts'.seq <= cap
<1>1. remote.read \in Nat /\ receipts.seq \in Nat
  BY DEF ReadShape
<1>2. remote'.read <= cap
  BY <1>1 DEF SendAck, ReadShape, Greater
<1>3. receipts' = receipts \/ receipts'.seq = seq
  BY DEF SendAck, Record
<1> QED BY <1>2, <1>3

\* What the server does, the push of positions and the connection report nothing that was not
\* asked for.
LEMMA ReportStep ==
    ASSUME Counting, ReadShape, NEW k \in Nat, Own = 1..k, readEnv.allow = {}, ReadSafe(k),
           \/ PushList \/ PushSent \/ PushFails \/ RememberReadAck
           \/ \E kind \in {"summary", "snapshot"} : Summarize(kind)
           \/ ServerMessage \/ ReadElsewhere
           \/ Dies \/ Lost \/ LinkUp \/ ReplayAcks \/ ReplayFails \/ Ready
    PROVE  ReadSafe(k)'
<1>1. /\ row \in Position /\ remote.read \in Nat /\ remote.max \in Nat /\ receipts.seq \in Nat
      /\ pushing.seq \in Nat
  BY DEF ReadShape, CallOfRead
<1>2. /\ asked \in Nat /\ remote.read <= Cap(k) /\ receipts.seq <= Cap(k)
      /\ pushing.seq <= Cap(k)
  BY Zenon DEF ReadSafe, SeqsAsked
<1>3. Cap(k) \in Nat /\ k <= Cap(k)
  BY <1>2 DEF Cap, Greater
<1>4. asked' = asked => Cap(k)' = Cap(k)
  BY DEF Cap
<1>5. SafeAt(NoSummary, Cap(k))
  BY <1>3 DEF NoSummary, SafeAt
<1>6. ASSUME UNCHANGED <<row, top, projecting, reading, asked>>,
             remote'.read <= Cap(k), receipts'.seq <= Cap(k), pushing'.seq <= Cap(k),
             UNCHANGED summary \/ SafeAt(summary', Cap(k))
      PROVE  ReadSafe(k)'
  <2>1. asked' \in Nat /\ asked' >= asked /\ Cap(k)' = Cap(k)
    BY <1>2, <1>4, <1>6
  <2>2. UNCHANGED <<row, top, projecting>> /\ UNCHANGED reading
    BY <1>6
  <2>3. SafeAt(summary, Cap(k))' \/ UNCHANGED summary
    BY <1>6, <2>1, Zenon DEF SafeAt
  <2> QED BY <1>6, <2>1, <2>2, <2>3, QuietStep, Zenon
<1>7. CASE PushList
  <2>1. projecting.pc \in {"idle", "previous"} /\ NoRecount
    BY <1>7 DEF PushList, Alone, NoRecount
  <2>2. SafeAt(row, Cap(k))
    BY <2>1, Zenon DEF ReadSafe, RowAsked
  <2>3. AckReadSeq(row) <= Cap(k)
    BY <1>1, <1>3, <2>2, SafeReport, Zenon
  <2>4. pushing'.seq <= Cap(k)
    BY <1>7, <2>3 DEF PushList
  <2> QED BY <1>2, <1>6, <1>7, <2>4, Zenon DEF PushList
<1>8. CASE PushSent
  <2>1. SendAck(pushing.seq)
    BY <1>8, Zenon DEF PushSent
  <2>2. remote'.read <= Cap(k) /\ receipts'.seq <= Cap(k)
    BY <1>1, <1>2, <1>3, <2>1, SendAsked
  <2>3. pushing'.seq = pushing.seq
    BY <1>8 DEF PushSent, ReadShape, CallOfRead
  <2> QED BY <1>2, <1>6, <1>8, <2>2, <2>3, Zenon DEF PushSent
<1>9. CASE PushFails \/ RememberReadAck
  <2>1. pushing'.seq = 0
    BY <1>9 DEF PushFails, RememberReadAck, Nothing
  <2>2. pushing'.seq <= Cap(k)
    BY <1>3, <2>1
  <2> QED BY <1>2, <1>6, <1>9, <2>2, Zenon DEF PushFails, RememberReadAck
<1>10. ASSUME NEW kind \in {"summary", "snapshot"}, Summarize(kind) PROVE ReadSafe(k)'
  <2> DEFINE n == PeerIn((remote.read + 1)..remote.max)
  <2>1. remote.max <= n + Cap(k)
    BY <1>1, <1>2, <1>3, PeerCount, Zenon
  <2>2. summary' = [kind |-> kind, max |-> remote.max, read |-> remote.read, unread |-> n]
    BY <1>10, SMTT(40) DEF Summarize
  <2> HIDE DEF n
  <2>3. SafeAt(summary', Cap(k))
    BY <1>2, <2>1, <2>2 DEF SafeAt
  <2> QED BY <1>2, <1>6, <1>10, <2>3, Zenon DEF Summarize
<1>11. CASE ServerMessage
  <2>1. remote'.read = remote.read
    BY <1>11 DEF ServerMessage, ReadShape
  <2> QED BY <1>2, <1>6, <1>11, <2>1, Zenon DEF ServerMessage
<1>12. CASE ReadElsewhere
  <2>1. PICK s \in (remote.read + 1)..remote.max :
           remote' = [remote EXCEPT !.read = s] /\ asked' = Greater(asked, s)
    BY <1>12 DEF ReadElsewhere
  <2>2. s \in Nat /\ remote'.read = s
    BY <1>1, <2>1 DEF ReadShape
  <2>3. asked' \in Nat /\ asked' >= asked /\ asked' >= s
    BY <1>2, <2>1, <2>2 DEF Greater
  <2>4. Cap(k)' \in Nat /\ Cap(k) <= Cap(k)' /\ s <= Cap(k)'
    BY <1>2, <2>2, <2>3 DEF Cap, Greater
  <2>5. /\ UNCHANGED <<row, top, projecting>> /\ UNCHANGED reading /\ UNCHANGED summary
        /\ UNCHANGED <<receipts, pushing>>
    BY <1>12 DEF ReadElsewhere
  <2>6. remote'.read <= Cap(k)' /\ receipts'.seq <= Cap(k)' /\ pushing'.seq <= Cap(k)'
    BY <1>1, <1>2, <1>3, <2>2, <2>4, <2>5
  <2> QED BY <2>3, <2>5, <2>6, QuietStep, Zenon
<1>13. CASE Dies \/ LinkUp \/ ReplayFails \/ Ready
  <2>1. UNCHANGED <<row, top, projecting, reading, asked, remote, receipts, pushing, summary>>
    BY <1>13, Zenon DEF Dies, LinkUp, ReplayFails, Ready
  <2> QED BY <1>2, <1>6, <2>1, Zenon
<1>14. CASE Lost
  <2>1. UNCHANGED <<row, top, projecting, reading, asked, remote, pushing>> /\ summary' = NoSummary
    BY <1>14, Zenon DEF Lost
  <2>2. PICK due \in BOOLEAN : receipts' = [receipts EXCEPT !.late = FALSE, !.due = due]
    BY <1>14, Zenon DEF Lost
  <2>3. receipts'.seq = receipts.seq
    BY <2>2 DEF ReadShape
  <2> QED BY <1>2, <1>5, <1>6, <2>1, <2>3, Zenon
<1>15. CASE ReplayAcks
  <2>1. SendAck(receipts.seq)
    BY <1>15 DEF ReplayAcks
  <2>2. remote'.read <= Cap(k) /\ receipts'.seq <= Cap(k)
    BY <1>1, <1>2, <1>3, <2>1, SendAsked, SMTT(40)
  <2> QED BY <1>2, <1>6, <1>15, <2>2, Zenon DEF ReplayAcks
<1> QED BY <1>7, <1>8, <1>9, <1>10, <1>11, <1>12, <1>13, <1>14, <1>15, Zenon

\* A plan reads no further than was asked or read before, and no further than the conversation.
LEMMA PlanFacts ==
    ASSUME NEW p \in Position, NEW t \in Nat, NEW s \in Nat
    PROVE  /\ PlanMarkRead(p, t, s).pc = "ack" /\ PlanMarkRead(p, t, s).seq \in Nat
           /\ PlanMarkRead(p, t, s).seq <= Greater(t, p.max)
           /\ PlanMarkRead(p, t, s).seq <= Greater(s, p.read)
<1>1. p.max \in Nat /\ p.read \in Nat
  BY DEF Position
<1> DEFINE e == Greater(t, p.max)
<1>2. e \in Nat
  BY <1>1, Zenon DEF Greater
<1>3. /\ PlanMarkRead(p, t, s).pc = "ack"
      /\ PlanMarkRead(p, t, s).seq = Lesser(Greater(Lesser(s, e), p.read), e)
  BY DEF PlanMarkRead
<1> HIDE DEF e
<1>4. Lesser(Greater(Lesser(s, e), p.read), e) \in Nat
      /\ Lesser(Greater(Lesser(s, e), p.read), e) <= e
      /\ Lesser(Greater(Lesser(s, e), p.read), e) <= Greater(s, p.read)
  BY <1>1, <1>2 DEF Greater, Lesser
<1> QED BY <1>3, <1>4, Zenon DEF e

\* Planning, its receipt and its failure ask for no more than the user did.
LEMMA PlanStep ==
    ASSUME ReadShape, NEW k \in Nat, ReadSafe(k), NEW r \in Readers,
           MarkRead(r) \/ ReadAckSent(r) \/ MarkReadFails(r)
    PROVE  ReadSafe(k)'
<1>1. /\ row \in Position /\ row.read \in Nat /\ row.max \in Nat /\ top \in Nat
      /\ remote.read \in Nat /\ receipts.seq \in Nat /\ pushing.seq \in Nat
      /\ reading \in [Readers -> CallOfRead]
  BY DEF ReadShape, CallOfRead, Position
<1>2. /\ asked \in Nat /\ remote.read <= Cap(k) /\ receipts.seq <= Cap(k)
      /\ pushing.seq <= Cap(k) /\ row.read <= Cap(k)
      /\ \A q \in Readers : reading[q].seq <= Cap(k) /\ reading[q].seq <= Greater(top, row.max)
  BY Zenon DEF ReadSafe, SeqsAsked, TopProjected
<1>3. Cap(k) \in Nat /\ Greater(top, row.max) \in Nat
  BY <1>1, <1>2 DEF Cap, Greater
<1>4. \A q \in Readers : reading[q].seq \in Nat
  BY <1>1 DEF CallOfRead
<1>5. CASE MarkRead(r)
  <2>1. PICK s \in 1..top : /\ reading' = [reading EXCEPT ![r] = PlanMarkRead(row, top, s)]
                            /\ asked' = Greater(asked, s)
    BY <1>5, Zenon DEF MarkRead
  <2> DEFINE w == PlanMarkRead(row, top, s)
  <2>2. s \in Nat /\ reading[r].pc = "idle"
    BY <1>1, <1>5, SMTT(40) DEF MarkRead
  <2>3. /\ w.pc = "ack" /\ w.seq \in Nat /\ w.seq <= Greater(top, row.max)
        /\ w.seq <= Greater(s, row.read)
    BY <1>1, <2>2, PlanFacts
  <2>4. reading' = [reading EXCEPT ![r] = w]
    BY <2>1
  <2> HIDE DEF w
  <2>5. asked' \in Nat /\ asked' >= asked /\ asked' >= s
    BY <1>2, <2>1, <2>2, SMTT(40) DEF Greater
  <2>6. Cap(k)' \in Nat /\ Cap(k) <= Cap(k)' /\ s <= Cap(k)'
    BY <1>2, <2>2, <2>5, SMTT(40) DEF Cap, Greater
  <2>7. w.seq <= Cap(k)'
    BY <1>1, <1>2, <1>3, <2>2, <2>3, <2>6, SMTT(40) DEF Greater
  <2>8. ASSUME NEW q \in Readers
        PROVE  /\ reading'[q].seq <= Cap(k)' /\ reading'[q].seq <= Greater(top, row.max)
               /\ reading'[q].pc = "recount" <=> reading[q].pc = "recount"
    <3>1. CASE q = r
      <4>1. reading'[q] = w
        BY <1>1, <2>4, <3>1, SMTT(40)
      <4> QED BY <2>2, <2>3, <2>7, <3>1, <4>1, SMTT(40)
    <3>2. CASE q # r
      <4>1. reading'[q] = reading[q]
        BY <1>1, <2>4, <3>2, Zenon
      <4>2. reading[q].seq <= Cap(k)'
        BY <1>2, <1>3, <1>4, <2>6, SMTT(40)
      <4> QED BY <1>2, <4>1, <4>2, ZenonT(40)
    <3> QED BY <3>1, <3>2, Zenon
  <2>9. UNCHANGED <<row, top, projecting>> /\ UNCHANGED summary /\ UNCHANGED <<remote, receipts, pushing>>
    BY <1>5 DEF MarkRead
  <2>10. remote'.read <= Cap(k)' /\ receipts'.seq <= Cap(k)' /\ pushing'.seq <= Cap(k)'
    BY <1>1, <1>2, <1>3, <2>6, <2>9
  <2> QED BY <2>5, <2>8, <2>9, <2>10, QuietStep, Zenon
<1>6. CASE ReadAckSent(r)
  <2>1. SendAck(reading[r].seq)
    BY <1>6 DEF ReadAckSent
  <2>2. remote'.read <= Cap(k) /\ receipts'.seq <= Cap(k)
    BY <1>1, <1>2, <1>3, <1>4, <2>1, SendAsked
  <2>3. ASSUME NEW q \in Readers
        PROVE  /\ reading'[q].seq = reading[q].seq
               /\ reading'[q].pc = "recount" <=> reading[q].pc = "recount"
    BY <1>1, <1>6 DEF ReadAckSent, CallOfRead
  <2>4. UNCHANGED <<row, top, projecting>> /\ UNCHANGED summary /\ UNCHANGED <<asked, pushing>>
    BY <1>6, Zenon DEF ReadAckSent
  <2>5. Cap(k)' = Cap(k) /\ asked' \in Nat /\ asked' >= asked
    BY <1>2, <2>4 DEF Cap
  <2> QED BY <1>2, <2>2, <2>3, <2>4, <2>5, QuietStep, Zenon
<1>7. CASE MarkReadFails(r)
  <2>1. ASSUME NEW q \in Readers
        PROVE  /\ reading'[q].seq <= Cap(k) /\ reading'[q].seq <= Greater(top, row.max)
               /\ reading'[q].pc = "recount" <=> reading[q].pc = "recount"
    <3>1. CASE q = r
      <4>1. reading'[q] = Nothing
        BY <1>1, <1>7, <3>1, Zenon DEF MarkReadFails
      <4> QED BY <1>3, <1>7, <3>1, <4>1, SMTT(40) DEF MarkReadFails, Nothing
    <3>2. CASE q # r
      BY <1>1, <1>2, <1>7, <3>2, SMTT(40) DEF MarkReadFails
    <3> QED BY <3>1, <3>2, Zenon
  <2>2. UNCHANGED <<row, top, projecting>> /\ UNCHANGED summary /\ UNCHANGED <<asked, remote, receipts, pushing>>
    BY <1>7, SMTT(40) DEF MarkReadFails
  <2>3. Cap(k)' = Cap(k) /\ asked' \in Nat /\ asked' >= asked
    <3>1. asked' = asked /\ asked \in Nat
      BY <1>2, <2>2, Zenon
    <3> QED BY <3>1 DEF Cap
  <2> QED BY <1>2, <2>1, <2>2, <2>3, QuietStep, Zenon
<1> QED BY <1>5, <1>6, <1>7

\* A step that asks for nothing new keeps every position asked for if what it changes is.
LEMMA SeqsStep ==
    ASSUME NEW k \in Nat, SeqsAsked(k), UNCHANGED <<asked, remote>>,
           UNCHANGED receipts \/ receipts'.seq <= Cap(k),
           UNCHANGED pushing \/ pushing'.seq <= Cap(k),
           UNCHANGED row \/ row'.read <= Cap(k),
           UNCHANGED reading \/ \A q \in Readers : reading'[q].seq <= Cap(k),
           UNCHANGED summary \/ SafeAt(summary', Cap(k)),
           projecting'.prev = projecting.prev \/ SafeAt(projecting'.prev, Cap(k)),
           projecting'.snap = projecting.snap \/ SafeAt(projecting'.snap, Cap(k))
    PROVE  SeqsAsked(k)'
<1>1. Cap(k)' = Cap(k)
  BY Zenon DEF Cap
<1> QED BY <1>1, Zenon DEF SeqsAsked, SafeAt

\* Storing the position of a plan and counting again leaves the row safe.
LEMMA StoreReadStep ==
    ASSUME Counting, ReadShape, NEW k \in Nat, Own = 1..k, readEnv.allow = {}, ReadSafe(k),
           NEW r \in Readers, ReadStored(r) \/ Recount(r)
    PROVE  ReadSafe(k)'
<1>1. /\ row \in Position /\ row.read \in Nat /\ row.max \in Nat /\ row.unread \in Nat
      /\ top \in Nat /\ reading \in [Readers -> CallOfRead] /\ reading[r].seq \in Nat
  BY SMTT(40) DEF ReadShape, CallOfRead, Position
<1>2. /\ asked \in Nat /\ row.read <= Cap(k) /\ SeqsAsked(k) /\ RecountAlone /\ TopProjected
      /\ \A q \in Readers : reading[q].seq <= Cap(k) /\ reading[q].seq <= Greater(top, row.max)
  BY Zenon DEF ReadSafe, SeqsAsked, TopProjected
<1>3. Cap(k) \in Nat /\ k <= Cap(k)
  BY <1>2 DEF Cap, Greater
<1>4. UNCHANGED <<top, projecting, asked, remote, receipts, pushing, summary>>
  BY Zenon DEF ReadStored, Recount
<1>5. \A q \in Readers : reading[q].seq \in Nat
  BY <1>1, SMTT(40) DEF CallOfRead
<1>6. Cap(k)' = Cap(k)
  BY <1>4, SMTT(40) DEF Cap
<1>7. CASE ReadStored(r)
  <2>1. /\ projecting.pc \in {"idle", "previous"} /\ NoRecount /\ row.max <= top
        /\ reading[r].pc = "update"
    BY <1>7 DEF ReadStored, Alone, NoRecount
  <2>2. row' = [max |-> Greater(row.max, reading[r].seq), read |-> reading[r].seq,
                unread |-> reading[r].unread]
    BY <1>7, SMTT(40) DEF ReadStored
  <2>3. reading[r].seq <= top
    BY <1>1, <1>2, <2>1, SMTT(40) DEF Greater
  <2>4. row'.max \in Nat /\ row'.max >= row.max /\ row'.max <= top /\ row'.read <= Cap(k)
    <3>1. row'.max = Greater(row.max, reading[r].seq) /\ row'.read = reading[r].seq
      BY <2>2
    <3>2. row.max \in Nat /\ reading[r].seq \in Nat /\ top \in Nat /\ row.max <= top
      BY <1>1, <2>1, Zenon
    <3>3. row'.max \in Nat /\ row'.max >= row.max /\ row'.max <= top
      BY <2>3, <3>1, <3>2, SMTT(40) DEF Greater
    <3> QED BY <1>2, <3>1, <3>3, Zenon
  <2>5. \A q \in Readers : /\ reading'[q].seq = reading[q].seq
                           /\ reading'[q].pc = "recount" <=> q = r
    <3> TAKE q \in Readers
    <3>1. reading' = [reading EXCEPT ![r].pc = "recount"]
      BY <1>7 DEF ReadStored
    <3>2. CASE q = r
      BY <1>1, <3>1, <3>2 DEF CallOfRead
    <3>3. CASE q # r
      BY <1>1, <2>1, <3>1, <3>3 DEF NoRecount
    <3> QED BY <3>2, <3>3
  <2>6. SeqsAsked(k)'
    BY <1>2, <1>4, <2>4, <2>5, SeqsStep, Zenon
  <2>7. RowAsked(k)'
    <3>1. ~NoRecount'
      BY <2>5, Zenon DEF NoRecount
    <3> QED BY <1>4, <2>1, <3>1 DEF RowAsked
  <2>8. RecountAlone'
    BY <1>4, <2>1, <2>4, <2>5, Zenon DEF RecountAlone
  <2>9. TopProjected'
    <3>1. \A q \in Readers : reading'[q].seq <= Greater(top, row'.max)
      BY <1>1, <1>2, <1>5, <2>4, <2>5, SMTT(40) DEF Greater
    <3>2. projecting.pc = "idle" => top <= row'.max
      BY <1>1, <1>2, <2>4, SMTT(40) DEF TopProjected
    <3>3. projecting.pc = "previous" =>
             \E a \in Nat : projecting.batch = (a + 1)..top /\ a < top /\ a <= row'.max
      BY <1>1, <1>2, <2>4, SMTT(40) DEF TopProjected
    <3> QED BY <1>4, <2>1, <3>1, <3>2, <3>3, Zenon DEF TopProjected
  <2> QED BY <2>6, <2>7, <2>8, <2>9 DEF ReadSafe
<1>8. CASE Recount(r)
  <2>1. /\ row.max <= top /\ projecting.pc \in {"idle", "previous"}
        /\ \A q \in Readers : reading[q].pc = "recount" => q = r
    BY <1>2, <1>8, Zenon DEF Recount, RecountAlone
  <2> DEFINE n == PeerIn((row.read + 1)..top)
  <2>2. top <= n + Cap(k) /\ n \in Nat
    BY <1>1, <1>2, <1>3, PeerCount
  <2>3. row' = [row EXCEPT !.unread = n]
    BY <1>8 DEF Recount
  <2> HIDE DEF n
  <2>4. row'.max = row.max /\ row'.read = row.read /\ row'.unread = n
    BY <1>1, <2>3, SMTT(40) DEF Position
  <2>5. SafeAt(row', Cap(k))
    <3>1. row.read <= Cap(k) /\ row.max <= top /\ top <= n + Cap(k)
      BY <1>2, <2>1, <2>2, Zenon
    <3>2. row.max \in Nat /\ top \in Nat /\ Cap(k) \in Nat /\ n \in Nat
      BY <1>1, <1>3, <2>2, Zenon
    <3>3. row.max <= n + Cap(k)
      BY <3>1, <3>2
    <3> QED BY <2>4, <3>1, <3>3, Zenon DEF SafeAt
  <2>6. \A q \in Readers :
           /\ reading'[q].pc # "recount"
           /\ reading'[q].seq <= Cap(k) /\ reading'[q].seq <= Greater(top, row.max)
    <3> TAKE q \in Readers
    <3>1. reading' = [reading EXCEPT ![r] = Nothing]
      BY <1>8, Zenon DEF Recount
    <3>2. CASE q = r
      <4>1. reading'[q] = Nothing
        BY <1>1, <3>1, <3>2, Zenon
      <4> QED BY <1>1, <1>3, <4>1, SMTT(40) DEF Nothing, Greater
    <3>3. CASE q # r
      BY <1>1, <1>2, <2>1, <3>1, <3>3
    <3> QED BY <3>2, <3>3, Zenon
  <2>7. SeqsAsked(k)'
    BY <1>2, <1>4, <2>4, <2>6, SeqsStep, Zenon
  <2>8. RowAsked(k)'
    BY <1>4, <1>6, <2>1, <2>5, ZenonT(40) DEF RowAsked, SafeAt
  <2>9. RecountAlone'
    BY <2>6 DEF RecountAlone
  <2>10. TopProjected'
    BY <1>2, <1>4, <2>4, <2>6, Zenon DEF TopProjected
  <2> QED BY <2>7, <2>8, <2>9, <2>10 DEF ReadSafe
<1> QED BY <1>7, <1>8, Zenon

\* mark_unread, a merged summary and a restart find the row between two operations and leave it
\* safe.
LEMMA AloneStep ==
    ASSUME ReadShape, NEW k \in Nat, readEnv.allow = {}, ReadSafe(k),
           MarkUnread \/ SaveSummary \/ RestartApp
    PROVE  ReadSafe(k)'
<1>1. /\ row \in Position /\ row.read \in Nat /\ row.max \in Nat /\ row.unread \in Nat
      /\ top \in Nat /\ summary \in Summaries
      /\ \A q \in Readers : reading[q].seq \in Nat
  BY DEF ReadShape, CallOfRead, Position
<1>2. /\ asked \in Nat /\ row.read <= Cap(k) /\ SeqsAsked(k) /\ TopProjected /\ RowAsked(k)
      /\ SafeAt(summary, Cap(k))
      /\ \A q \in Readers : reading[q].seq <= Cap(k) /\ reading[q].seq <= Greater(top, row.max)
  BY Zenon DEF ReadSafe, SeqsAsked, TopProjected
<1>3. Cap(k) \in Nat
  BY <1>2 DEF Cap, Greater
<1>4. UNCHANGED <<top, asked, remote>>
  BY Zenon DEF MarkUnread, SaveSummary, RestartApp
<1>5. Cap(k)' = Cap(k)
  BY <1>4 DEF Cap
<1>6. projecting.pc \in {"idle", "previous"} /\ NoRecount
  BY DEF MarkUnread, SaveSummary, RestartApp, Alone, NoRecount
<1>7. SafeAt(row, Cap(k))
  BY <1>2, <1>6, Zenon DEF RowAsked
<1>8. SafeAt(NoSummary, Cap(k)) /\ SafeAt(NoRow, Cap(k))
  BY <1>3 DEF NoSummary, NoRow, SafeAt
<1>9. ASSUME UNCHANGED <<projecting, reading, receipts, pushing>>, row' \in Position,
             SafeAt(row', Cap(k)), row'.max >= row.max,
             UNCHANGED summary \/ summary' = NoSummary
      PROVE  ReadSafe(k)'
  <2>1. row'.max \in Nat /\ row'.read <= Cap(k)
    BY <1>9 DEF Position, SafeAt
  <2>2. SeqsAsked(k)'
    BY <1>2, <1>4, <1>8, <1>9, <2>1, SeqsStep, Zenon
  <2>3. RowAsked(k)'
    BY <1>5, <1>6, <1>9, Zenon DEF RowAsked, SafeAt
  <2>4. RecountAlone'
    BY <1>6, <1>9, Zenon DEF RecountAlone, NoRecount
  <2>5. TopProjected'
    <3>1. \A q \in Readers : reading[q].seq <= Greater(top, row'.max)
      BY <1>1, <1>2, <1>9, <2>1, SMTT(40) DEF Greater
    <3>2. projecting.pc = "idle" => top <= row'.max
      BY <1>1, <1>2, <1>9, <2>1, SMTT(40) DEF TopProjected
    <3>3. projecting.pc = "previous" =>
             \E a \in Nat : projecting.batch = (a + 1)..top /\ a < top /\ a <= row'.max
      BY <1>1, <1>2, <1>9, <2>1 DEF TopProjected
    <3> QED BY <1>4, <1>6, <1>9, <3>1, <3>2, <3>3, Zenon DEF TopProjected
  <2> QED BY <2>2, <2>3, <2>4, <2>5, SMTT(40) DEF ReadSafe
<1>10. CASE MarkUnread
  <2>1. row.max > 0 /\ row.unread = 0 /\ row' = [row EXCEPT !.read = row.max - 1, !.unread = 1]
    BY <1>10 DEF MarkUnread
  <2>2. row.max - 1 \in Nat
    BY <1>1, <2>1
  <2>3. row' \in Position /\ row'.max = row.max /\ row'.read = row.max - 1 /\ row'.unread = 1
    BY <1>1, <2>1, <2>2, Zenon DEF Position
  <2>4. SafeAt(row', Cap(k)) /\ row'.max >= row.max
    BY <1>1, <1>3, <1>7, <2>1, <2>3 DEF SafeAt
  <2> QED BY <1>9, <1>10, <2>3, <2>4, Zenon DEF MarkUnread
<1>11. CASE SaveSummary
  <2> DEFINE m == MergeWithIncomingSummary(row, summary)
             w == [m EXCEPT !.unread = Lesser(@, Minus(m.max, m.read))]
  <2>1. row' = w /\ summary' = NoSummary
    BY <1>11 DEF SaveSummary
  <2>2. w \in Position
    BY <1>1, MergeType
  <2>3. SafeAt(w, Cap(k)) /\ w.max >= row.max
    BY <1>1, <1>2, <1>3, <1>7, SafeMerge, Zenon
  <2> HIDE DEF m, w
  <2> QED BY <1>9, <1>11, <2>1, <2>2, <2>3, Zenon DEF SaveSummary
<1>12. CASE RestartApp
  <2>1. /\ row' = row /\ receipts' = NoReceipt /\ pushing' = Nothing /\ summary' = NoSummary
        /\ projecting' = NoBatch /\ reading' = [r \in Readers |-> Nothing]
        /\ projecting.pc = "idle"
    BY <1>12, Zenon DEF RestartApp
  <2>2. /\ projecting'.pc = "idle" /\ projecting'.prev = NoRow /\ projecting'.snap = NoSummary
        /\ \A q \in Readers : reading'[q].seq = 0 /\ reading'[q].pc = "idle"
        /\ receipts'.seq = 0 /\ pushing'.seq = 0
    BY <2>1 DEF NoBatch, Nothing, NoReceipt
  <2>3. 0 <= Cap(k) /\ 0 <= Greater(top, row.max)
    BY <1>1, <1>3 DEF Greater
  <2>4. SeqsAsked(k)'
    <3>1. SafeAt(projecting'.prev, Cap(k)) /\ SafeAt(projecting'.snap, Cap(k))
      BY <1>8, <2>2
    <3>2. \A q \in Readers : reading'[q].seq <= Cap(k)
      BY <2>2, <2>3, Zenon
    <3> QED BY <1>2, <1>4, <1>8, <2>1, <2>2, <2>3, <3>1, <3>2, SeqsStep, Zenon
  <2>5. RowAsked(k)'
    BY <1>5, <1>7, <2>1, <2>2, SMTT(40) DEF RowAsked, SafeAt
  <2>6. RecountAlone'
    BY <2>2, Zenon DEF RecountAlone
  <2>7. TopProjected'
    BY <1>2, <1>4, <2>1, <2>2, <2>3, SMTT(40) DEF TopProjected
  <2> QED BY <2>4, <2>5, <2>6, <2>7 DEF ReadSafe
<1> QED BY <1>10, <1>11, <1>12, SMTT(40)

\* A batch that is stored is announced to the row, and the row is read.
LEMMA BatchStep ==
    ASSUME ReadShape, NEW k \in Nat, readEnv.allow = {}, ReadSafe(k),
           \/ \E mode \in {"push", "sync"} : Persist(mode)
           \/ SaveSnapshot \/ ReadPrevious
    PROVE  ReadSafe(k)'
<1>1. /\ row \in Position /\ row.read \in Nat /\ row.max \in Nat /\ row.unread \in Nat
      /\ top \in Nat /\ summary \in Summaries /\ summary.max \in Nat /\ remote.max \in Nat
      /\ \A q \in Readers : reading[q].seq \in Nat
      /\ projecting \in Projections
  BY DEF ReadShape, CallOfRead, Position, Summaries
<1>2. /\ asked \in Nat /\ SeqsAsked(k) /\ TopProjected /\ RowAsked(k) /\ RecountAlone
      /\ SafeAt(summary, Cap(k))
      /\ \A q \in Readers : reading[q].seq <= Cap(k) /\ reading[q].seq <= Greater(top, row.max)
  BY Zenon DEF ReadSafe, SeqsAsked, TopProjected
<1>3. Cap(k) \in Nat
  BY <1>2 DEF Cap, Greater
<1>4. UNCHANGED <<row, reading, asked, remote, receipts, pushing>>
  BY Zenon DEF Persist, SaveSnapshot, ReadPrevious
<1>5. Cap(k)' = Cap(k)
  BY <1>4, Zenon DEF Cap
<1>6. SafeAt(NoSummary, Cap(k)) /\ SafeAt(NoRow, Cap(k))
  BY <1>3 DEF NoSummary, NoRow, SafeAt
<1>7. ASSUME NEW upto \in Nat, top < upto, top' = upto, projecting.pc = "idle",
             projecting'.pc = "previous", projecting'.batch = (top + 1)..upto,
             projecting'.prev = NoRow, SafeAt(projecting'.snap, Cap(k)),
             UNCHANGED summary \/ summary' = NoSummary
      PROVE  ReadSafe(k)'
  <2>1. SeqsAsked(k)'
    <3>1. SafeAt(projecting'.prev, Cap(k)) /\ (UNCHANGED summary \/ SafeAt(summary', Cap(k)))
      BY <1>6, <1>7
    <3> QED BY <1>2, <1>4, <1>7, <3>1, SeqsStep, Zenon
  <2>2. NoRecount' = NoRecount
    BY <1>4, Zenon DEF NoRecount
  <2>3. RowAsked(k)'
    BY <1>2, <1>4, <1>5, <1>7, <2>2, SMTT(40) DEF RowAsked, SafeAt
  <2>4. RecountAlone'
    <3>1. row.max <= top => row.max <= top'
      BY <1>1, <1>7, SMTT(40)
    <3> QED BY <1>2, <1>4, <1>7, <3>1, ZenonT(40) DEF RecountAlone
  <2>5. TopProjected'
    <3>1. \A q \in Readers : reading[q].seq <= Greater(upto, row.max)
      BY <1>1, <1>2, <1>7, SMTT(40) DEF Greater
    <3>2. top <= row.max
      BY <1>2, <1>7 DEF TopProjected
    <3>3. /\ top \in Nat /\ projecting'.batch = (top + 1)..top' /\ top < top' /\ top <= row'.max
          /\ \A q \in Readers : reading'[q].seq <= Greater(top', row'.max)
      BY <1>1, <1>4, <1>7, <3>1, <3>2, Zenon
    <3> QED BY <1>7, <3>3, Zenon DEF TopProjected
  <2> QED BY <2>1, <2>3, <2>4, <2>5 DEF ReadSafe
<1>8. ASSUME NEW mode \in {"push", "sync"}, Persist(mode) PROVE ReadSafe(k)'
  <2> DEFINE upto == IF mode = "push" THEN top + 1 ELSE remote.max
  <2>1. projecting.pc = "idle" /\ top < remote.max /\ UNCHANGED summary
    BY <1>8, SMTT(40) DEF Persist
  <2>2. upto \in Nat /\ top < upto
    BY <1>1, <2>1
  <2>3. top' = upto /\ projecting' = [NoBatch EXCEPT !.pc = "previous", !.mode = mode,
                                                     !.batch = (top + 1)..upto]
    BY <1>8 DEF Persist
  <2> HIDE DEF upto
  <2>4. projecting' = [pc |-> "previous", mode |-> mode, batch |-> (top + 1)..upto,
                       prev |-> NoRow, snap |-> NoSummary]
    BY <2>3, Zenon DEF NoBatch
  <2>5. /\ projecting'.pc = "previous" /\ projecting'.batch = (top + 1)..upto
        /\ projecting'.prev = NoRow /\ projecting'.snap = NoSummary
    BY <2>4, Zenon
  <2>6. SafeAt(projecting'.snap, Cap(k))
    BY <1>6, <2>5, Zenon
  <2> QED BY <1>7, <2>1, <2>2, <2>3, <2>5, <2>6, Zenon
<1>9. CASE SaveSnapshot
  <2>1. /\ projecting.pc = "idle" /\ NoRecount /\ top' = Greater(top, summary.max)
        /\ summary' = NoSummary
    BY <1>9, Zenon DEF SaveSnapshot, Alone, NoRecount
  <2>2. projecting' = [pc |-> IF summary.max > top THEN "previous" ELSE "overwrite",
                       mode |-> "snapshot", batch |-> (top + 1)..summary.max,
                       prev |-> NoRow, snap |-> summary]
    BY <1>9, Zenon DEF SaveSnapshot
  <2>3. /\ projecting'.pc = IF summary.max > top THEN "previous" ELSE "overwrite"
        /\ projecting'.batch = (top + 1)..summary.max
        /\ projecting'.prev = NoRow /\ projecting'.snap = summary
    BY <2>2, Zenon
  <2>4. SafeAt(projecting'.snap, Cap(k))
    BY <1>2, <2>3, Zenon
  <2>5. CASE summary.max > top
    <3>1. top < summary.max /\ top' = summary.max /\ projecting'.pc = "previous"
      BY <1>1, <2>1, <2>3, <2>5, SMTT(40) DEF Greater
    <3> QED BY <1>1, <1>7, <2>1, <2>3, <2>4, <3>1, Zenon
  <2>6. CASE ~(summary.max > top)
    <3>1. top' = top /\ projecting'.pc = "overwrite"
      BY <1>1, <2>1, <2>3, <2>6 DEF Greater
    <3>2. SeqsAsked(k)'
      <4>1. SafeAt(projecting'.prev, Cap(k)) /\ SafeAt(summary', Cap(k))
        BY <1>6, <2>1, <2>3, Zenon
      <4> QED BY <1>2, <1>4, <2>4, <4>1, SeqsStep, Zenon
    <3>3. RowAsked(k)'
      BY <3>1, Zenon DEF RowAsked
    <3>4. RecountAlone'
      BY <1>4, <2>1, Zenon DEF RecountAlone, NoRecount
    <3>5. TopProjected'
      BY <1>2, <1>4, <2>1, <3>1, SMTT(40) DEF TopProjected
    <3> QED BY <3>2, <3>3, <3>4, <3>5, Zenon DEF ReadSafe
  <2> QED BY <2>5, <2>6, Zenon
<1>10. CASE ReadPrevious
  <2>1. /\ projecting.pc = "previous" /\ NoRecount /\ UNCHANGED <<top, summary>>
        /\ projecting' = [projecting EXCEPT !.pc = "newest", !.prev = row]
    BY <1>10 DEF ReadPrevious, Alone, NoRecount
  <2>2. /\ projecting'.pc = "newest" /\ projecting'.prev = row
        /\ projecting'.batch = projecting.batch /\ projecting'.snap = projecting.snap
    BY <1>1, <2>1 DEF Projections
  <2>3. SafeAt(row, Cap(k))
    BY <1>2, <2>1 DEF RowAsked
  <2>4. SeqsAsked(k)'
    <3>1. SafeAt(projecting'.prev, Cap(k))
      BY <2>2, <2>3, Zenon
    <3> QED BY <1>2, <1>4, <2>1, <2>2, <3>1, SeqsStep, Zenon
  <2>5. RowAsked(k)'
    BY <1>4, <2>2, Zenon DEF RowAsked
  <2>6. RecountAlone'
    BY <1>4, <2>1 DEF RecountAlone, NoRecount
  <2>7. TopProjected'
    BY <1>2, <1>4, <2>1, <2>2, SMTT(40) DEF TopProjected
  <2> QED BY <2>4, <2>5, <2>6, <2>7 DEF ReadSafe
<1> QED BY <1>8, <1>9, <1>10, Zenon

\* The newest message, the count and the snapshot's position leave the row safe: a batch adds to
\* the count whatever it adds to the maximum above the cap.
LEMMA ProjectStep ==
    ASSUME Counting, ReadShape, NEW k \in Nat, Own = 1..k, readEnv.allow = {}, ReadSafe(k),
           ProjectNewest \/ ProjectUnread \/ OverwriteRead
    PROVE  ReadSafe(k)'
<1>1. /\ row \in Position /\ row.read \in Nat /\ row.max \in Nat /\ row.unread \in Nat
      /\ top \in Nat /\ projecting \in Projections
      /\ \A q \in Readers : reading[q].seq \in Nat
  BY SMTT(40) DEF ReadShape, CallOfRead, Position
<1>2. projecting.prev \in Position /\ projecting.snap \in Summaries
  BY <1>1 DEF Projections
<1>3. /\ projecting.prev.max \in Nat /\ projecting.prev.read \in Nat /\ projecting.prev.unread \in Nat
      /\ projecting.snap.max \in Nat /\ projecting.snap.read \in Nat /\ projecting.snap.unread \in Nat
  BY <1>2, Zenon DEF Position, Summaries
<1>4. /\ asked \in Nat /\ row.read <= Cap(k) /\ SeqsAsked(k) /\ TopProjected /\ RowAsked(k) /\ RecountAlone
      /\ SafeAt(projecting.prev, Cap(k)) /\ SafeAt(projecting.snap, Cap(k))
      /\ \A q \in Readers : reading[q].seq <= Greater(top, row.max)
  BY Zenon DEF ReadSafe, SeqsAsked, TopProjected
<1>5. Cap(k) \in Nat /\ k <= Cap(k)
  BY <1>4 DEF Cap, Greater
<1>6. UNCHANGED <<top, reading, asked, remote, receipts, pushing, summary>>
  BY Zenon DEF ProjectNewest, ProjectUnread, OverwriteRead
<1>7. Cap(k)' = Cap(k)
  BY <1>6, Zenon DEF Cap
<1>8. SafeAt(NoSummary, Cap(k)) /\ SafeAt(NoRow, Cap(k))
  BY <1>5 DEF NoSummary, NoRow, SafeAt
<1>9. NoRecount
  BY <1>4 DEF ProjectNewest, ProjectUnread, OverwriteRead, RecountAlone, NoRecount
<1>10. RecountAlone'
  BY <1>6, <1>9, Zenon DEF RecountAlone, NoRecount
<1>11. ASSUME row' \in Position, SafeAt(row', Cap(k)), row'.max >= row.max, top <= row.max,
              \/ projecting' = NoBatch
              \/ projecting' = [projecting EXCEPT !.pc = "overwrite"]
       PROVE  ReadSafe(k)'
  <2>1. row'.max \in Nat /\ row'.read <= Cap(k) /\ top <= row'.max
    BY <1>1, <1>11 DEF Position, SafeAt
  <2>2. /\ projecting'.pc \in {"idle", "overwrite"}
        /\ projecting'.prev = projecting.prev \/ SafeAt(projecting'.prev, Cap(k))
        /\ projecting'.snap = projecting.snap \/ SafeAt(projecting'.snap, Cap(k))
    <3>1. CASE projecting' = NoBatch
      <4>1. projecting'.pc = "idle" /\ projecting'.prev = NoRow /\ projecting'.snap = NoSummary
        BY <3>1, Zenon DEF NoBatch
      <4> QED BY <1>8, <4>1, SMTT(40)
    <3>2. CASE projecting' = [projecting EXCEPT !.pc = "overwrite"]
      BY <1>1, <3>2 DEF Projections
    <3> QED BY <1>11, <3>1, <3>2, Zenon
  <2>3. SeqsAsked(k)'
    BY <1>4, <1>6, <2>1, <2>2, SeqsStep, Zenon
  <2>4. RowAsked(k)'
    BY <1>7, <1>11, <2>2, SMTT(40) DEF RowAsked, SafeAt
  <2>5. TopProjected'
    <3>1. \A q \in Readers : reading[q].seq <= Greater(top, row'.max)
      BY <1>1, <1>4, <1>11, <2>1, SMTT(40) DEF Greater
    <3> QED BY <1>6, <2>1, <2>2, <3>1, ZenonT(40) DEF TopProjected
  <2> QED BY <1>10, <2>3, <2>4, <2>5, SMTT(40) DEF ReadSafe
<1>12. CASE ProjectNewest
  <2>1. projecting.pc = "newest" /\ projecting' = [projecting EXCEPT !.pc = "unread"]
    BY <1>12 DEF ProjectNewest
  <2>2. PICK a \in Nat :
           projecting.batch = (a + 1)..top /\ a < top /\ a <= projecting.prev.max
    BY <1>4, <2>1, SMTT(40) DEF TopProjected
  <2>3. Max(projecting.batch) = top
    BY <1>1, <2>2, NewestOfBatch
  <2>4. row' = [row EXCEPT !.max = Greater(@, top)] /\ row = projecting.prev
    BY <1>4, <1>12, <2>1, <2>3 DEF ProjectNewest, RowAsked
  <2>5. /\ row'.max = Greater(row.max, top) /\ row'.read = row.read /\ row'.unread = row.unread
    BY <1>1, <2>4 DEF Position
  <2>6. /\ projecting'.pc = "unread" /\ projecting'.prev = projecting.prev
        /\ projecting'.batch = projecting.batch /\ projecting'.snap = projecting.snap
    BY <1>1, <2>1 DEF Projections
  <2>7. SeqsAsked(k)'
    BY <1>4, <1>6, <2>5, <2>6, SeqsStep, Zenon
  <2>8. RowAsked(k)'
    BY <1>6, <2>4, <2>5, <2>6, Zenon DEF RowAsked
  <2>9. TopProjected'
    <3>1. \A q \in Readers : reading[q].seq <= Greater(top, row'.max)
      BY <1>1, <1>4, <2>5, SMTT(40) DEF Greater
    <3> QED BY <1>6, <2>2, <2>6, <3>1, Zenon DEF TopProjected
  <2> QED BY <1>10, <2>7, <2>8, <2>9 DEF ReadSafe
<1>13. CASE ProjectUnread
  <2> DEFINE p == projecting.prev
             prev == NormalizeForUnreadDelta(p)
             max == Greater(prev.max, Max(projecting.batch))
             new == {s \in projecting.batch \ Own : ShouldCountUnread(s, prev, projecting.mode)}
             unread == p.unread + Cardinality(new)
             read == ReadSeqForUnreadWindow(prev, max, unread)
  <2>0. p.max \in Nat /\ p.unread \in Nat /\ p.max <= p.unread + Cap(k)
    BY <1>3, <1>4 DEF SafeAt
  <2>1. /\ projecting.pc = "unread"
        /\ \/ projecting' = NoBatch
           \/ projecting' = [projecting EXCEPT !.pc = "overwrite"]
    BY <1>13 DEF ProjectUnread
  <2>2. row' = IF new = {} THEN row
               ELSE [max |-> Greater(row.max, read), read |-> read, unread |-> unread]
    BY <1>13 DEF ProjectUnread
  <2>3. PICK a \in Nat : projecting.batch = (a + 1)..top /\ a < top /\ a <= p.max
    BY <1>4, <2>1, SMTT(40) DEF TopProjected
  <2>4. Max(projecting.batch) = top
    BY <1>1, <2>3, NewestOfBatch
  <2>5. row.unread = p.unread /\ row.max = Greater(p.max, top)
    BY <1>4, <2>1, Zenon DEF RowAsked
  <2>6. prev.read \in Nat /\ prev.read <= Cap(k) /\ prev.max = p.max /\ prev.unread = p.unread
    BY <1>2, <1>3, <1>4, <1>5, SafePosition, Zenon
  <2> HIDE DEF prev
  <2>7. new = {s \in ((a + 1)..top) \ Own : ShouldCountUnread(s, prev, projecting.mode)}
    BY <2>3
  <2> HIDE DEF new
  <2> DEFINE n == Cardinality(new)
             c == Cap(k)
             u == p.unread
             x == p.max
             y == prev.read
  <2> HIDE DEF n, c, u, x, y
  <2>8. /\ c \in Nat /\ u \in Nat /\ x \in Nat /\ y \in Nat
        /\ k <= c /\ a <= x /\ x <= u + c /\ y <= c /\ prev.unread = u
    BY <1>5, <2>0, <2>3, <2>6, Zenon DEF c, u, x, y
  <2>9. top <= n + (u + c) /\ n \in Nat
    <3>1. u + c \in Nat /\ a <= u + c /\ k <= u + c /\ y + u <= u + c
      BY <2>8
    <3> DEFINE b == u + c
    <3> HIDE DEF b
    <3>2. b \in Nat /\ a <= b /\ k <= b /\ y + u <= b
      BY <3>1, Zenon DEF b
    <3>3. (b + 1)..top \in SUBSET new
      <4> SUFFICES ASSUME NEW s \in (b + 1)..top PROVE s \in new
        OBVIOUS
      <4>1. s \in ((a + 1)..top) \ Own /\ s > y /\ s > y + u
        BY <1>1, <2>8, <3>2
      <4>2. ShouldCountUnread(s, prev, projecting.mode)
        BY <2>8, <4>1, Zenon DEF ShouldCountUnread, y
      <4> QED BY <2>7, <4>1, <4>2, Zenon
    <3>4. new \in SUBSET ((a + 1)..top)
      BY <2>7, Zenon
    <3>5. top <= Cardinality(new) + b /\ Cardinality(new) \in Nat
      BY <1>1, <3>2, <3>3, <3>4, NewCount, Zenon
    <3> QED BY <3>5, Zenon DEF b, n
  <2>10. /\ unread \in Nat /\ row.max <= unread + Cap(k) /\ top <= row.max
         /\ n = 0 => unread = row.unread
    <3>1. unread = u + n /\ row.max = Greater(x, top) /\ row.unread = u
      BY <2>5, Zenon DEF n, u, x
    <3> HIDE DEF unread
    <3>2. unread \in Nat /\ row.max <= unread + c /\ top <= row.max
      BY <1>1, <2>8, <2>9, <3>1, SMTT(40) DEF Greater
    <3>3. n = 0 => unread = row.unread
      BY <2>8, <3>1
    <3> QED BY <3>2, <3>3, Zenon DEF c
  <2>11. CASE new = {}
    <3>1. row' = row /\ n = 0
      BY <2>2, <2>11, ZenonT(40) DEF n, Counting
    <3>2. SafeAt(row', Cap(k))
      BY <1>4, <2>10, <3>1, Zenon DEF SafeAt
    <3>3. row'.max >= row.max
      BY <1>1, <3>1
    <3> QED BY <1>1, <1>11, <2>1, <2>10, <3>1, <3>2, <3>3, Zenon
  <2>12. CASE new # {}
    <3>1. row' = [max |-> Greater(row.max, read), read |-> read, unread |-> unread]
      BY <2>2, <2>12, Zenon
    <3>2. max \in Nat /\ max = row.max
      <4>1. max = row.max
        BY <2>4, <2>5, <2>6, Zenon
      <4> QED BY <1>1, <4>1, Zenon
    <3> HIDE DEF max, unread
    <3>3. read \in Nat /\ read <= Cap(k) /\ read <= row.max
      BY <1>5, <2>6, <2>10, <3>2, SMTT(40) DEF ReadSeqForUnreadWindow, Lesser, Minus
    <3> HIDE DEF read
    <3>4. row' \in Position /\ row'.max = row.max /\ SafeAt(row', Cap(k))
      BY <1>1, <2>10, <3>1, <3>3, SMTT(40) DEF Position, SafeAt, Greater
    <3>5. row'.max >= row.max
      BY <1>1, <3>4
    <3> QED BY <1>11, <2>1, <2>10, <3>4, <3>5, Zenon
  <2> QED BY <2>11, <2>12, Zenon
<1>14. CASE OverwriteRead
  <2>1. /\ projecting.pc = "overwrite" /\ projecting.snap.max >= row.max
        /\ projecting' = NoBatch
        /\ row' = IF row.max = 0 THEN row
                  ELSE [max |-> Greater(row.max, projecting.snap.read),
                        read |-> projecting.snap.read, unread |-> projecting.snap.unread]
    BY <1>14, Zenon DEF OverwriteRead
  <2>2. top <= row.max
    BY <1>4, <2>1, Zenon DEF TopProjected
  <2>3. CASE row.max = 0
    <3>1. row' = row /\ SafeAt(row', Cap(k)) /\ row'.max >= row.max
      <4>1. row' = row
        BY <2>1, <2>3, Zenon
      <4>2. row.max \in Nat /\ row.unread \in Nat /\ row.read <= Cap(k) /\ Cap(k) \in Nat
        BY <1>1, <1>4, <1>5, Zenon
      <4> QED BY <2>3, <4>1, <4>2 DEF SafeAt
    <3> QED BY <1>1, <1>11, <2>1, <2>2, <3>1, Zenon
  <2>4. CASE row.max # 0
    <3>1. /\ row' \in Position /\ row'.max = Greater(row.max, projecting.snap.read)
          /\ row'.read = projecting.snap.read /\ row'.unread = projecting.snap.unread
      BY <1>1, <1>3, <2>1, <2>4, Zenon DEF Position, Greater
    <3> DEFINE r == projecting.snap.read
               u == projecting.snap.unread
               x == projecting.snap.max
    <3>2. r \in Nat /\ u \in Nat /\ x \in Nat /\ r <= Cap(k) /\ x <= u + Cap(k) /\ x >= row.max
      BY <1>3, <1>4, <2>1, Zenon DEF SafeAt
    <3> HIDE DEF r, u, x
    <3>3. Greater(row.max, r) <= u + Cap(k) /\ Greater(row.max, r) >= row.max
      BY <1>1, <1>5, <3>2 DEF Greater
    <3>4. SafeAt(row', Cap(k)) /\ row'.max >= row.max
      BY <3>1, <3>2, <3>3, Zenon DEF SafeAt, r, u
    <3> QED BY <1>11, <2>1, <2>2, <3>1, <3>4, Zenon
  <2> QED BY <2>3, <2>4, SMTT(40)
<1> QED BY <1>12, <1>13, <1>14, Zenon

\* The user's surroundings are chosen once.
LEMMA SurroundingsStay == [ReadNext]_readVars => UNCHANGED readEnv
<1> SUFFICES ASSUME [ReadNext]_readVars PROVE UNCHANGED readEnv
  OBVIOUS
<1>1. ASSUME NEW r \in Readers,
             \/ MarkRead(r) \/ ReadAckSent(r) \/ MarkReadFails(r) \/ ReadStored(r) \/ Recount(r)
      PROVE  UNCHANGED readEnv
  BY <1>1, Zenon DEF MarkRead, ReadAckSent, MarkReadFails, ReadStored, Recount
<1>2. ASSUME \/ MarkUnread \/ PushList \/ PushSent \/ PushFails \/ RememberReadAck
             \/ ReadPrevious \/ ProjectNewest \/ ProjectUnread
      PROVE  UNCHANGED readEnv
  BY <1>2, Zenon DEF MarkUnread, PushList, PushSent, PushFails, RememberReadAck,
                     ReadPrevious, ProjectNewest, ProjectUnread
<1>3. ASSUME \/ \E mode \in {"push", "sync"} : Persist(mode)
             \/ \E kind \in {"summary", "snapshot"} : Summarize(kind)
             \/ SaveSummary \/ SaveSnapshot \/ OverwriteRead \/ ServerMessage \/ ReadElsewhere
      PROVE  UNCHANGED readEnv
  BY <1>3, Zenon DEF Persist, Summarize, SaveSummary, SaveSnapshot, OverwriteRead,
                     ServerMessage, ReadElsewhere
<1>4. ASSUME Dies \/ Lost \/ LinkUp \/ ReplayAcks \/ ReplayFails \/ Ready \/ RestartApp
      PROVE  UNCHANGED readEnv
  BY <1>4, Zenon DEF Dies, Lost, LinkUp, ReplayAcks, ReplayFails, Ready, RestartApp
<1>5. CASE UNCHANGED readVars
  BY <1>5 DEF readVars
<1> QED BY <1>1, <1>2, <1>3, <1>4, <1>5, Zenon DEF ReadNext

\* Every step keeps every position asked for while nothing of readEnv.allow happens.
LEMMA ReadSafeStep ==
    ASSUME Counting, NEW k \in Nat, Own = 1..k, ReadShape, readEnv.allow = {}, ReadSafe(k),
           [ReadNext]_readVars
    PROVE  ReadSafe(k)'
<1>1. CASE UNCHANGED readVars
  BY <1>1, Zenon DEF readVars, ReadSafe, SeqsAsked, RowAsked, RecountAlone, TopProjected, Cap,
                     SafeAt, NoRecount
<1> QED BY <1>1, ReportStep, PlanStep, StoreReadStep, AloneStep, BatchStep, ProjectStep, Zenon
           DEF ReadNext

-----------------------------------------------------------------------------
(* The theorems                                                             *)

INSTANCE FiniteSetTheorems

\* What the lemmas above assume of finite sets.
LEMMA CountingHolds == Counting
<1>1. ASSUME NEW a \in Nat, NEW t \in Nat, NEW S \in SUBSET (a..t)
      PROVE  /\ Cardinality(S) \in Nat
             /\ \A b \in Nat : (b + 1)..t \in SUBSET S => t <= Cardinality(S) + b
  <2>1. IsFiniteSet(a..t)
    BY FS_Interval
  <2>2. IsFiniteSet(S)
    BY <2>1, FS_Subset, Zenon
  <2>3. Cardinality(S) \in Nat
    BY <2>2, FS_CardinalityType
  <2>4. ASSUME NEW b \in Nat, (b + 1)..t \in SUBSET S PROVE t <= Cardinality(S) + b
    <3>1. Cardinality((b + 1)..t) <= Cardinality(S)
      BY <2>2, <2>4, FS_Subset, ZenonT(40)
    <3>2. Cardinality((b + 1)..t) = IF b + 1 > t THEN 0 ELSE t - (b + 1) + 1
      BY FS_Interval
    <3> QED BY <2>3, <3>1, <3>2
  <2> QED BY <2>3, <2>4
<1> QED BY <1>1, FS_EmptySet, Zenon DEF Counting

\* A position this device has stored as read is never forgotten, for any number of readers,
\* messages and connections: the server has it, the push has yet to report it, the ledger
\* replays it, or it is the loss that push_local_read_states accepts.
THEOREM ReadPositionIsKept == ReadSpec => []ReadIsReportable
<1>1. ReadInit => ReadInv
  BY ReadInvInit
<1>2. ReadInv /\ [ReadNext]_readVars => ReadInv'
  BY CountingHolds, ReadShapeStep, PushedStep, ZenonT(40) DEF ReadInv
<1>3. ReadInv => ReadIsReportable
  BY DEF ReadInv, ReadShape, Position, PushedIsSafe, IsSafe, LedgerKeeps, ReadIsReportable
<1> QED BY <1>1, <1>2, <1>3, PTL DEF ReadSpec

\* The server is told "read" only for messages a user asked to mark as read, for any number of
\* readers, messages and connections, while the row's operations do not interleave, its
\* maximum, its count and the stored messages speak of the same messages, and the user's own
\* messages come first: no merged summary, snapshot, count, replay or repair runs ahead of
\* the user.
THEOREM ReportsAreAskedFor == OwnComesFirst => (ReadSpec => []OnlyReadIsReported)
<1> SUFFICES ASSUME OwnComesFirst PROVE ReadSpec => []OnlyReadIsReported
  OBVIOUS
<1>1. PICK k \in Nat : Own = 1..k
  BY DEF OwnComesFirst
<1> DEFINE Inv == ReadInv /\ (readEnv.allow = {} => ReadSafe(k))
<1>2. ReadInit => Inv
  <2> SUFFICES ASSUME ReadInit PROVE ReadInv /\ ReadSafe(k)
    OBVIOUS
  <2>1. ReadInv
    BY ReadInvInit, Zenon
  <2>2. 0 <= Cap(k) /\ SafeAt(NoRow, Cap(k)) /\ SafeAt(NoSummary, Cap(k))
    BY SMTT(40) DEF ReadInit, Cap, Greater, SafeAt, NoRow, NoSummary
  <2>3. /\ projecting.pc = "idle" /\ projecting.prev = NoRow /\ projecting.snap = NoSummary
        /\ \A r \in Readers : reading[r].seq = 0 /\ reading[r].pc = "idle"
        /\ receipts.seq = 0 /\ pushing.seq = 0 /\ row = NoRow /\ row.read = 0 /\ row.max = 0
        /\ summary = NoSummary /\ top = 0 /\ asked = 0 /\ remote.read = 0
    BY Zenon DEF ReadInit, NoBatch, Nothing, NoReceipt, NoRow
  <2>4. SeqsAsked(k)
    BY <2>2, <2>3, ZenonT(40) DEF SeqsAsked
  <2>5. RowAsked(k) /\ RecountAlone /\ TopProjected
    BY <2>2, <2>3 DEF RowAsked, RecountAlone, TopProjected, Greater
  <2> QED BY <2>1, <2>4, <2>5, ZenonT(40) DEF ReadSafe
<1>3. Inv /\ [ReadNext]_readVars => Inv'
  <2> SUFFICES ASSUME Inv, [ReadNext]_readVars PROVE Inv'
    OBVIOUS
  <2>1. ReadInv'
    BY CountingHolds, ReadShapeStep, PushedStep, ZenonT(40) DEF ReadInv
  <2>2. readEnv' = readEnv
    BY SurroundingsStay
  <2>3. readEnv.allow = {} => ReadSafe(k)'
    BY <1>1, CountingHolds, ReadSafeStep, ZenonT(40) DEF ReadInv
  <2> QED BY <2>1, <2>2, <2>3, ZenonT(40)
<1>4. Inv => OnlyReadIsReported
  <2> SUFFICES ASSUME ReadShape, ReadSafe(k), NEW m \in (1..remote.read) \ Own PROVE m <= asked
    BY Zenon DEF ReadInv, OnlyReadIsReported, ReportedIsRead
  <2>1. remote.read \in Nat /\ remote.read <= Cap(k) /\ asked \in Nat
    BY Zenon DEF ReadShape, ReadSafe, SeqsAsked
  <2>2. m \in Nat /\ m <= remote.read /\ m > k
    BY <1>1, <2>1
  <2> QED BY <2>1, <2>2, SMTT(40) DEF Cap, Greater
<1> QED BY <1>2, <1>3, <1>4, PTL DEF ReadSpec
=============================================================================
