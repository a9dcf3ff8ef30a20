------------------------ MODULE ConversationSyncProofs ------------------------
(***************************************************************************)
(* Proofs about ConversationSync, for every number of messages, every page *)
(* size and every behaviour of the environment: the registry of applied    *)
(* events holds none that was rolled back, a repair or waterline state     *)
(* that says a pull is in flight has one, and neither the sync cursor nor  *)
(* the proven ranges ever pass a message that is not stored, cleared or    *)
(* left to backfill, unless a message is stored while the history is being *)
(* cleared.                                                                *)
(***************************************************************************)
EXTENDS ConversationSync, TLAPS

---------------------------------------------------------------------------
(* The registry of applied events *)

\* The event being applied is a record with these fields.
EventShape == event = [seq |-> event.seq, failed |-> event.failed]

\* 0 stands for no event and is nobody's number.
RegistryInv == EventShape /\ 0 \notin applied /\ RegistryIsApplied

\* A new dispatcher has applied nothing.
LEMMA RegistryInit == Init => RegistryInv
BY DEF Init, RegistryInv, EventShape, RegistryIsApplied, NoEvent

\* No step forgets the effect of an event, and only the reader touches the registry: it records
\* the event it is applying and takes it back when it fails (rollback_applied_event).
LEMMA RegistryStep == RegistryInv /\ [Next]_vars => RegistryInv'
<1> SUFFICES ASSUME RegistryInv, [Next]_vars PROVE RegistryInv'
    OBVIOUS
<1> USE DEF RegistryInv, EventShape, RegistryIsApplied, server, store, marks, memory, inbox
<1> DEFINE Still == UNCHANGED <<applied, event>> /\ done \subseteq done'
<1>1. Still => RegistryInv'
    OBVIOUS
<1>2. ASSUME NEW e \in Seqs, ReadEvent(e) PROVE RegistryInv'
    <2>1. e # 0
        BY DEF Seqs
    <2>2. CASE e \in seen
        BY <1>2, <2>2 DEF ReadEvent
    <2>3. CASE e \notin seen
        <3>1. event.seq = 0 /\ event' = [seq |-> e, failed |-> FALSE]
            BY <1>2, <2>3 DEF ReadEvent, ReaderIdle, NoEvent
        <3>2. applied' = applied \cup {e} /\ done' = done
            BY <1>2, <2>3 DEF ReadEvent
        <3> QED
            BY <2>1, <3>1, <3>2
    <2> QED
        BY <2>2, <2>3
<1>3. CASE ApplyEvent
    BY <1>3 DEF ApplyEvent, NoEvent
<1>4. CASE UndoEvent
    BY <1>4 DEF UndoEvent, Rollback, NoEvent
<1>5. CASE Crash
    BY <1>5, SMTT(40) DEF Crash, NoEvent
<1>6. CASE Grow \/ ReadPing \/ \E s \in Seqs : ReadPush(s) \/ ReadWire(s)
    BY <1>1, <1>6, ZenonT(40) DEF Grow, ReadPing, ReadPush, ReadWire
<1>7. CASE WorkerTakes \/ BackoffEnds \/ HostPulls \/ PullAgain
    BY <1>1, <1>7, Zenon DEF WorkerTakes, BackoffEnds, HostPulls, PullAgain
<1>8. ASSUME NEW a \in Savers, Stores(a) PROVE RegistryInv'
    BY <1>1, <1>8 DEF Stores, SaveBatch, ReadCursor, ReadWindow, Advance
<1>9. ASSUME NEW t \in Pulls, Steps(t) \/ Fail(t) PROVE RegistryInv'
    <2>1. CASE Begin(t) \/ Answer(t) \/ Fail(t)
        BY <1>1, <2>1, Zenon DEF Begin, Answer, Fail
    <2>2. CASE ApplyEvents(t)
        BY <1>1, <2>2 DEF ApplyEvents
    <2>3. CASE StorePage(t) \/ ProvePage(t)
        BY <1>1, <2>3, Zenon DEF StorePage, ProvePage
    <2>4. CASE SaveCursor(t) \/ StoreSnapshot(t) \/ Adopt(t)
        BY <1>1, <2>4, Zenon DEF SaveCursor, StoreSnapshot, Adopt
    <2> QED
        BY <1>9, <2>1, <2>2, <2>3, <2>4 DEF Steps
<1>10. CASE ReadMark \/ DeleteRows \/ MarkCleared
    BY <1>1, <1>10, Zenon DEF ReadMark, DeleteRows, MarkCleared
<1>11. CASE UNCHANGED vars
    BY <1>1, <1>11 DEF vars
<1> QED
    BY <1>2, <1>3, <1>4, <1>5, <1>6, <1>7, <1>8, <1>9, <1>10, <1>11 DEF Next

\* The registry that stands for filled numbers (AppliedEventSeqs) only holds events whose effect
\* is stored, and the one that is being applied: rolling back forgets both the key and the number.
THEOREM RegistryHolds == Spec => []RegistryIsApplied
<1>1. RegistryInv => RegistryIsApplied
    BY DEF RegistryInv
<1> QED
    BY RegistryInit, RegistryStep, <1>1, PTL DEF Spec

---------------------------------------------------------------------------
(* States that say a pull is in flight *)

\* The records and functions have the fields the steps change.
FlightShape ==
    /\ DOMAIN pull = Pulls /\ \A t \in Pulls : "pc" \in DOMAIN pull[t]
    /\ "flying" \in DOMAIN fix /\ "flying" \in DOMAIN water
    /\ fix.flying \in BOOLEAN /\ water.flying \in BOOLEAN

\* The inductive invariant behind FlightIsReal.
FlightInv == FlightShape /\ FlightIsReal

\* A new dispatcher has no pull and no state.
LEMMA FlightInit == Init => FlightInv
BY DEF Init, FlightInv, FlightShape, FlightIsReal, NoPull, NoFix, NoWater, Pulls

\* What a step of one pull does to the others.
LEMMA OnePull ==
    ASSUME FlightShape, NEW t \in Pulls, NEW r, Pull(t, r), "pc" \in DOMAIN r
    PROVE  /\ DOMAIN pull' = Pulls /\ \A u \in Pulls : "pc" \in DOMAIN pull'[u]
           /\ pull'[t] = r /\ \A u \in Pulls \ {t} : pull'[u] = pull[u]
BY SMTT(40) DEF Pull, FlightShape

\* A fresh pull with some of its fields set has a program counter.
LEMMA FreshPull ==
    ASSUME NEW r, NEW c,
           \/ r = [NoPull EXCEPT !.pc = c]
           \/ \E s, f : r = [NoPull EXCEPT !.pc = c, !.start = s, !.from = f]
           \/ \E s, f, l : r = [NoPull EXCEPT !.pc = c, !.start = s, !.from = f, !.last = l]
           \/ \E m, f : r = [NoPull EXCEPT !.pc = c, !.mode = m, !.from = f]
    PROVE  "pc" \in DOMAIN r /\ r.pc = c
BY ZenonT(40) DEF NoPull

\* A running pull goes on, or the host starts one.
LEMMA PullGoesOn ==
    ASSUME FlightInv, NEW t \in Pulls, NEW r,
           pull[t].pc # "idle" \/ t = "host",
           Pull(t, r), UNCHANGED <<fix, water>>, "pc" \in DOMAIN r, r.pc # "idle"
    PROVE  FlightInv'
BY OnePull DEF FlightInv, FlightShape, FlightIsReal, Pulls

\* A pull that ends settles the state it was started for.
LEMMA PullEnds ==
    ASSUME FlightInv, NEW t \in Pulls, NEW ok \in BOOLEAN, pull[t].pc # "idle", Ends(t, ok)
    PROVE  FlightInv'
<1>1. "pc" \in DOMAIN NoPull /\ NoPull.pc = "idle"
    BY DEF NoPull
<1>2. CASE t = "host"
    BY <1>1, <1>2, OnePull DEF Ends, FlightInv, FlightShape, FlightIsReal, Pulls
<1>3. CASE t = "fix"
    <2>1. Pull(t, NoPull) /\ water' = water
        BY <1>3 DEF Ends
    <2>2. "flying" \in DOMAIN fix' /\ fix'.flying = FALSE
        BY <1>3 DEF Ends, NoFix, FlightInv, FlightShape
    <2> QED
        BY <1>1, <1>3, <2>1, <2>2, OnePull, Zenon DEF FlightInv, FlightShape, FlightIsReal, Pulls
<1>4. CASE t = "water" /\ ~water.pending
    <2>1. Pull(t, NoPull) /\ fix' = fix
        BY <1>4 DEF Ends
    <2>2. "flying" \in DOMAIN water' /\ water'.flying = FALSE
        BY <1>4 DEF Ends, NoWater
    <2> QED
        BY <1>1, <1>4, <2>1, <2>2, OnePull, ZenonT(40) DEF FlightInv, FlightShape, FlightIsReal, Pulls
<1>5. CASE t = "water" /\ water.pending
    <2> DEFINE r == [NoPull EXCEPT !.pc = "again"]
    <2>1. Pull(t, r) /\ fix' = fix
        BY <1>5, SMTT(40) DEF Ends
    <2>2. "pc" \in DOMAIN r /\ r.pc = "again"
        BY FreshPull, Zenon
    <2>3. "flying" \in DOMAIN water' /\ water'.flying = water.flying
        BY <1>5, Zenon DEF Ends, FlightInv, FlightShape
    <2> HIDE DEF r
    <2> QED
        BY <1>5, <2>1, <2>2, <2>3, OnePull DEF FlightInv, FlightShape, FlightIsReal, Pulls
<1> QED
    BY <1>2, <1>3, <1>4, <1>5 DEF Pulls

\* After a page the loop ends or asks for the next one.
LEMMA PullProceeds ==
    ASSUME FlightInv, NEW t \in Pulls, NEW next, NEW more, pull[t].pc # "idle",
           Proceeds(t, next, more)
    PROVE  FlightInv'
<1>1. CASE Ends(t, TRUE)
    BY <1>1, PullEnds, Zenon
<1>2. ASSUME NEW r, Pull(t, r), UNCHANGED <<fix, water>>, "pc" \in DOMAIN r, r.pc = "ask"
      PROVE  FlightInv'
    BY <1>2, PullGoesOn
<1> DEFINE last == [NoPull EXCEPT !.pc = "ask", !.start = pull[t].start, !.from = pull[t].from,
                                  !.last = TRUE]
           further == [NoPull EXCEPT !.pc = "ask", !.start = pull[t].start, !.from = next]
<1>3. "pc" \in DOMAIN last /\ last.pc = "ask" /\ "pc" \in DOMAIN further /\ further.pc = "ask"
    BY FreshPull, Zenon
<1>4. Ends(t, TRUE) \/ (UNCHANGED <<fix, water>> /\ (Pull(t, last) \/ Pull(t, further)))
    BY Zenon DEF Proceeds
<1> HIDE DEF last, further
<1> QED
    BY <1>1, <1>2, <1>3, <1>4, Zenon

\* A ping starts a pull with its state, or joins the one there is.
LEMMA PingStarts ==
    ASSUME FlightInv, NEW target, NEW A, Ping(target, A), UNCHANGED fix
    PROVE  FlightInv'
<1>1. CASE UNCHANGED <<water, pull>>
    BY <1>1 DEF FlightInv, FlightShape, FlightIsReal
<1>2. CASE UNCHANGED pull /\ \E x : water' = [water EXCEPT !.pending = TRUE, !.next = x]
    <2>1. "flying" \in DOMAIN water' /\ water'.flying = water.flying
        BY <1>2 DEF FlightInv, FlightShape
    <2> QED
        BY <1>2, <2>1 DEF FlightInv, FlightShape, FlightIsReal
<1>3. CASE /\ water' = [NoWater EXCEPT !.flying = TRUE, !.goal = target]
           /\ Pull("water", [NoPull EXCEPT !.pc = "begin"])
    <2>1. "flying" \in DOMAIN water' /\ water'.flying = TRUE
        BY <1>3 DEF NoWater
    <2> DEFINE r == [NoPull EXCEPT !.pc = "begin"]
    <2>2. Pull("water", r) /\ "pc" \in DOMAIN r /\ r.pc = "begin"
        BY <1>3, FreshPull, Zenon
    <2> HIDE DEF r
    <2>3. "water" \in Pulls
        BY DEF Pulls
    <2> QED
        BY <2>1, <2>2, <2>3, OnePull, Zenon DEF FlightInv, FlightShape, FlightIsReal, Pulls
<1> QED
    BY <1>1, <1>2, <1>3, Zenon DEF Ping, Pull

\* A gap starts a pull with its state, or leaves or forgets the state.
LEMMA RepairStarts ==
    ASSUME FlightInv, NEW s, Repair(s), UNCHANGED water
    PROVE  FlightInv'
<1>1. CASE UNCHANGED <<fix, pull>>
    BY <1>1 DEF FlightInv, FlightShape, FlightIsReal
<1>2. CASE fix' = NoFix /\ UNCHANGED pull
    BY <1>2 DEF NoFix, FlightInv, FlightShape, FlightIsReal
<1>3. CASE /\ \E g, x : fix' = [flying |-> TRUE, gap |-> g, progress |-> x, early |-> TRUE]
           /\ Pull("fix", [NoPull EXCEPT !.pc = "ask", !.start = s.gap, !.from = s.gap])
    <2>1. "flying" \in DOMAIN fix' /\ fix'.flying = TRUE
        BY <1>3
    <2> DEFINE r == [NoPull EXCEPT !.pc = "ask", !.start = s.gap, !.from = s.gap]
    <2>2. Pull("fix", r) /\ "pc" \in DOMAIN r /\ r.pc = "ask"
        BY <1>3, FreshPull, Zenon
    <2> HIDE DEF r
    <2>3. "fix" \in Pulls
        BY DEF Pulls
    <2> QED
        BY <2>1, <2>2, <2>3, OnePull, ZenonT(40) DEF FlightInv, FlightShape, FlightIsReal, Pulls
<1> QED
    BY <1>1, <1>2, <1>3 DEF Repair, Pull

\* Whatever a step notes in a running pull, it has a program counter.
LEMMA NotedPull ==
    ASSUME NEW q, NEW r, NEW c, "pc" \in DOMAIN q,
           \/ r = [q EXCEPT !.pc = c]
           \/ \E x, y : r = [q EXCEPT !.pc = c, !.start = x, !.from = y]
           \/ \E x, y : r = [q EXCEPT !.pc = c, !.items = x, !.top = y]
           \/ \E x, y, z : r = [q EXCEPT !.pc = c, !.base = x, !.known = y, !.good = z]
    PROVE  "pc" \in DOMAIN r /\ r.pc = c
BY Zenon

\* Every step of a pull moves it on, ends it, or goes to its next page.
LEMMA StepsKeepFlight ==
    ASSUME FlightInv, NEW t \in Pulls, Steps(t) \/ Fail(t)
    PROVE  FlightInv'
<1>1. ASSUME pull[t].pc # "idle", NEW r, NEW c, c # "idle", Pull(t, r), UNCHANGED <<fix, water>>,
             "pc" \in DOMAIN r /\ r.pc = c
      PROVE  FlightInv'
    BY <1>1, PullGoesOn
<1>2. "pc" \in DOMAIN pull[t]
    BY DEF FlightInv, FlightShape
<1>3. CASE Begin(t)
    <2> DEFINE r == [pull[t] EXCEPT !.pc = "ask", !.start = LocalStart, !.from = LocalStart]
    <2>1. "pc" \in DOMAIN r /\ r.pc = "ask"
        BY <1>2, NotedPull, Zenon
    <2>2. pull[t].pc # "idle" /\ Pull(t, r) /\ UNCHANGED <<fix, water>>
        BY <1>3 DEF Begin
    <2> HIDE DEF r
    <2> QED
        BY <1>1, <2>1, <2>2, SMTT(40)
<1>4. CASE Answer(t)
    <2> DEFINE r == [pull[t] EXCEPT !.pc = "apply", !.items = Items(t), !.top = head]
               q == [pull[t] EXCEPT !.pc = "snapshot"]
    <2>1. "pc" \in DOMAIN r /\ r.pc = "apply" /\ "pc" \in DOMAIN q /\ q.pc = "snapshot"
        BY <1>2, NotedPull, Zenon
    <2>2. pull[t].pc # "idle" /\ (Pull(t, r) \/ Pull(t, q)) /\ UNCHANGED <<fix, water>>
        BY <1>4 DEF Answer
    <2> HIDE DEF r, q
    <2> QED
        BY <1>1, <2>1, <2>2, SMTT(40)
<1>5. CASE ApplyEvents(t)
    <2> DEFINE good == {s \in pull[t].items \ (Events \ seen') : s > Known(t)}
               r == [pull[t] EXCEPT !.pc = "store", !.base = cursor, !.known = Known(t),
                                    !.good = good]
    <2>1. "pc" \in DOMAIN r /\ r.pc = "store"
        <3> HIDE DEF good
        <3> QED
            BY <1>2, NotedPull, Zenon
    <2>2. pull[t].pc # "idle" /\ Pull(t, r) /\ UNCHANGED <<fix, water>>
        BY <1>5 DEF ApplyEvents
    <2> HIDE DEF r
    <2> QED
        BY <1>1, <2>1, <2>2, SMTT(40)
<1>6. CASE StorePage(t)
    <2> DEFINE r == [pull[t] EXCEPT !.pc = "prove"]
    <2>1. "pc" \in DOMAIN r /\ r.pc = "prove"
        BY <1>2, NotedPull, Zenon
    <2>2. pull[t].pc # "idle" /\ ((Pull(t, r) /\ UNCHANGED <<fix, water>>) \/ Ends(t, FALSE))
        BY <1>6, Zenon DEF StorePage
    <2> HIDE DEF r
    <2> QED
        BY <1>1, <2>1, <2>2, PullEnds, Zenon
<1>7. CASE ProvePage(t)
    <2> DEFINE r == [pull[t] EXCEPT !.pc = "save"]
    <2>1. "pc" \in DOMAIN r /\ r.pc = "save"
        BY <1>2, NotedPull, Zenon
    <2>2. pull[t].pc # "idle" /\ ((Pull(t, r) /\ UNCHANGED <<fix, water>>) \/ Ends(t, TRUE))
        BY <1>7, Zenon DEF ProvePage
    <2> HIDE DEF r
    <2> QED
        BY <1>1, <2>1, <2>2, PullEnds, Zenon
<1>8. CASE SaveCursor(t)
    <2>1. /\ pull[t].pc # "idle"
          /\ Ends(t, FALSE) \/ \E next, more : Proceeds(t, next, more)
        BY <1>8, Zenon DEF SaveCursor
    <2> QED
        BY <2>1, PullEnds, PullProceeds, Zenon
<1>9. CASE StoreSnapshot(t)
    <2> DEFINE newest == Newest(Messages \cap 1..head, Page)
               r == [pull[t] EXCEPT !.pc = "adopt", !.items = newest, !.top = head]
    <2>1. "pc" \in DOMAIN r /\ r.pc = "adopt"
        BY <1>2, NotedPull, Zenon
    <2>2. pull[t].pc # "idle" /\ ((Pull(t, r) /\ UNCHANGED <<fix, water>>) \/ Ends(t, FALSE))
        BY <1>9, Zenon DEF StoreSnapshot
    <2> HIDE DEF r
    <2> QED
        BY <1>1, <2>1, <2>2, PullEnds, Zenon
<1>10. CASE Adopt(t)
    <2>1. /\ pull[t].pc # "idle"
          /\ Ends(t, FALSE) \/ \E next, more : Proceeds(t, next, more)
        BY <1>10, Zenon DEF Adopt
    <2> QED
        BY <2>1, PullEnds, PullProceeds, Zenon
<1>11. CASE Fail(t)
    BY <1>11, PullEnds, Zenon DEF Fail
<1> QED
    BY <1>3, <1>4, <1>5, <1>6, <1>7, <1>8, <1>9, <1>10, <1>11, SMTT(40) DEF Steps

\* No step of the reader, the worker, a pull, the user or a restart breaks the invariant.
LEMMA FlightStep == FlightInv /\ [Next]_vars => FlightInv'
<1> SUFFICES ASSUME FlightInv, [Next]_vars PROVE FlightInv'
    OBVIOUS
<1>1. UNCHANGED <<fix, water, pull>> => FlightInv'
    BY DEF FlightInv, FlightShape, FlightIsReal
<1>2. CASE ReadPing
    BY <1>2, PingStarts DEF ReadPing
<1>3. ASSUME NEW e \in Seqs, ReadEvent(e) PROVE FlightInv'
    <2>1. UNCHANGED fix /\ (UNCHANGED <<water, pull>> \/ Ping(e, applied'))
        BY <1>3 DEF ReadEvent
    <2> QED
        BY <1>1, <2>1, PingStarts
<1>4. ASSUME NEW a \in Savers, Stores(a) PROVE FlightInv'
    <2>1. CASE Advance(a)
        BY <2>1, RepairStarts DEF Advance
    <2>2. CASE SaveBatch(a) \/ ReadCursor(a) \/ ReadWindow(a)
        BY <1>1, <2>2 DEF SaveBatch, ReadCursor, ReadWindow
    <2> QED
        BY <1>4, <2>1, <2>2 DEF Stores
<1>5. CASE BackoffEnds
    <2>1. "flying" \in DOMAIN fix' /\ fix'.flying = fix.flying
        BY <1>5, SMTT(40) DEF BackoffEnds, FlightInv, FlightShape
    <2> QED
        BY <1>5, <2>1 DEF BackoffEnds, FlightInv, FlightShape, FlightIsReal
<1>6. CASE HostPulls
    <2>1. "host" \in Pulls /\ UNCHANGED <<fix, water>>
        BY <1>6, Zenon DEF HostPulls, Pulls
    <2>2. ASSUME NEW r, Pull("host", r), "pc" \in DOMAIN r, r.pc # "idle" PROVE FlightInv'
        BY <2>1, <2>2, PullGoesOn
    <2>3. CASE Pull("host", [NoPull EXCEPT !.pc = "begin"])
        <3> DEFINE r == [NoPull EXCEPT !.pc = "begin"]
        <3>1. Pull("host", r) /\ "pc" \in DOMAIN r /\ r.pc = "begin"
            BY <2>3, FreshPull, Zenon
        <3> HIDE DEF r
        <3> QED
            BY <2>2, <3>1, SMTT(40)
    <2>4. ASSUME NEW m, NEW s,
                 Pull("host", [NoPull EXCEPT !.pc = "ask", !.mode = m, !.from = s])
          PROVE  FlightInv'
        <3> DEFINE r == [NoPull EXCEPT !.pc = "ask", !.mode = m, !.from = s]
        <3>1. Pull("host", r) /\ "pc" \in DOMAIN r /\ r.pc = "ask"
            BY <2>4, FreshPull, Zenon
        <3> HIDE DEF r
        <3> QED
            BY <2>2, <3>1, SMTT(40)
    <2> QED
        BY <1>6, <2>3, <2>4, ZenonT(40) DEF HostPulls
<1>7. CASE PullAgain
    <2> DEFINE r == [NoPull EXCEPT !.pc = "begin"]
    <2>1. /\ pull["water"].pc # "idle" /\ fix' = fix
          /\ \/ water' = NoWater /\ Pull("water", NoPull)
             \/ UNCHANGED water /\ Pull("water", r)
        BY <1>7, SMTT(40) DEF PullAgain
    <2>2. "pc" \in DOMAIN r /\ r.pc = "begin" /\ "water" \in Pulls
        BY FreshPull, ZenonT(40) DEF Pulls
    <2>3. /\ "pc" \in DOMAIN NoPull /\ NoPull.pc = "idle"
          /\ "flying" \in DOMAIN NoWater /\ NoWater.flying = FALSE
        BY DEF NoPull, NoWater
    <2> HIDE DEF r
    <2>4. CASE water' = NoWater /\ Pull("water", NoPull)
        BY <2>1, <2>2, <2>3, <2>4, OnePull, ZenonT(40) DEF FlightInv, FlightShape, FlightIsReal, Pulls
    <2> QED
        BY <2>1, <2>2, <2>4, PullGoesOn
<1>8. ASSUME NEW t \in Pulls, Steps(t) \/ Fail(t) PROVE FlightInv'
    BY <1>8, StepsKeepFlight
<1>9. CASE Crash
    BY <1>9 DEF Crash, FlightInv, FlightShape, FlightIsReal, NoPull, NoFix, NoWater, Pulls
<1>10. CASE Grow \/ ApplyEvent \/ UndoEvent \/ WorkerTakes
    BY <1>1, <1>10 DEF Grow, ApplyEvent, UndoEvent, WorkerTakes
<1>11. ASSUME NEW s \in Seqs, ReadPush(s) \/ ReadWire(s) PROVE FlightInv'
    BY <1>1, <1>11 DEF ReadPush, ReadWire
<1>12. CASE ReadMark \/ DeleteRows \/ MarkCleared
    BY <1>1, <1>12, Zenon DEF ReadMark, DeleteRows, MarkCleared
<1>13. CASE UNCHANGED vars
    BY <1>1, <1>13 DEF vars
<1> QED
    BY <1>2, <1>3, <1>4, <1>5, <1>6, <1>7, <1>8, <1>9, <1>10, <1>11, <1>12, <1>13, SMTT(40) DEF Next

\* A repair state (SeqRepairState.in_flight) or ping state (WaterlinePullState.in_flight) never
\* outlives its pull, however the pulls, the gaps, the pings and their failures interleave: no
\* conversation is left with all its later gaps or pings dropped.
THEOREM FlightHolds == Spec => []FlightIsReal
<1>1. FlightInv => FlightIsReal
    BY DEF FlightInv
<1> QED
    BY FlightInit, FlightStep, <1>1, PTL DEF Spec

---------------------------------------------------------------------------
(* Sequence arithmetic *)

\* What the proofs use of numbers and of finite sets: a set of numbers that is not empty has a
\* least one, and a set of sequence numbers has a size, which grows with the set.  NumbersHold,
\* further down, takes it from the library's theorems, which only what follows has in sight.
Numbers ==
    /\ \A S \in SUBSET Nat : S # {} => \E s \in S : \A t \in S : s <= t
    /\ Cardinality({}) = 0
    /\ \A S \in SUBSET (1..N) : /\ Cardinality(S) \in Nat
                                /\ \A T \in SUBSET S : Cardinality(T) <= Cardinality(S)

\* A set of numbers that is not empty has a least one.
LEMMA MinExists ==
    ASSUME Numbers, NEW S \in SUBSET Nat, S # {}
    PROVE  \E s \in S : \A t \in S : s <= t
BY Zenon DEF Numbers

\* What max_contiguous_seq finds: from base on, every number up to it is in S, and the next is not.
LEMMA ContiguousFacts ==
    ASSUME Numbers, NEW base \in 0..N, NEW S, N + 1 \notin S
    PROVE  /\ Contiguous(base, S) \in base..N
           /\ base + 1..Contiguous(base, S) \subseteq S
           /\ Contiguous(base, S) + 1 \notin S
<1> DEFINE T == {k \in base..N : k + 1 \notin S}
<1> DEFINE P(k) == base + 1..k \subseteq S /\ k + 1 \notin S
<1>1. T \in SUBSET Nat /\ N \in T /\ N \in Nat
    BY SyncAssumption
<1>2. PICK k \in T : \A t \in T : k <= t
    BY <1>1, MinExists, Zenon
<1>3. \A j \in base + 1..k : j \in S
    <2> TAKE j \in base + 1..k
    <2>1. j - 1 \in base..N /\ j - 1 < k /\ (j - 1) + 1 = j
        BY <1>1, <1>2
    <2> QED
        BY <1>1, <1>2, <2>1
<1>4. P(k) /\ k \in base..N
    BY <1>2, <1>3
<1> HIDE DEF P
<1>5. LET c == CHOOSE i \in base..N : P(i) IN c \in base..N /\ P(c)
    BY <1>4
<1> QED
    BY <1>5 DEF P, Contiguous

\* The lowest number of a set is one of its least ones ...
LEMMA LowestFacts ==
    ASSUME Numbers, NEW S \in SUBSET Nat, S # {}
    PROVE  Lowest(S) \in S /\ \A t \in S : Lowest(S) <= t
BY MinExists, Zenon DEF Lowest

\* ... and the highest one of its greatest.
LEMMA HighestFacts ==
    ASSUME Numbers, NEW S \in SUBSET (0..N), S # {}
    PROVE  Highest(S) \in S /\ \A t \in S : t <= Highest(S)
<1> DEFINE T == {n \in 0..N : \A t \in S : t <= n}
<1>1. T \in SUBSET Nat /\ N \in T /\ N \in Nat
    BY SyncAssumption
<1>2. PICK n \in T : \A t \in T : n <= t
    BY <1>1, MinExists, Zenon
<1>3. n \in S
    <2> SUFFICES ASSUME n \notin S PROVE FALSE
        OBVIOUS
    <2>1. PICK s \in S : TRUE
        BY Zenon
    <2>2. n - 1 \in 0..N /\ \A t \in S : t <= n - 1
        BY <1>1, <1>2, <2>1
    <2> QED
        BY <1>2, <2>2
<1> QED
    BY <1>2, <1>3, Zenon DEF Highest

\* A page of the newest numbers of S leaves out only older ones, and is empty only where S is.
LEMMA NewestFacts ==
    ASSUME Numbers, NEW S \in SUBSET Seqs
    PROVE  /\ Newest(S, Page) \subseteq S
           /\ \A s \in Newest(S, Page), u \in S : u > s => u \in Newest(S, Page)
           /\ Newest(S, Page) = {} => S = {}
<1> DEFINE Above(s) == {t \in S : t > s}
<1>0. \A t \in S : t \in Nat
    BY SyncAssumption DEF Seqs
<1>1. \A s \in S : Above(s) \in SUBSET (1..N) /\ Cardinality(Above(s)) \in Nat
    <2> TAKE s \in S
    <2>1. Above(s) \in SUBSET (1..N)
        BY Zenon DEF Seqs
    <2> HIDE DEF Above
    <2> QED
        BY <2>1, Zenon DEF Numbers
<1>2. \A s, u \in S : u > s => Cardinality(Above(u)) <= Cardinality(Above(s))
    <2> SUFFICES ASSUME NEW s \in S, NEW u \in S, u > s
                 PROVE  Cardinality(Above(u)) <= Cardinality(Above(s))
        OBVIOUS
    <2>1. \A t \in S : t > u => t > s
        BY <1>0
    <2>2. Above(u) \in SUBSET Above(s)
        BY <2>1
    <2>3. Above(s) \in SUBSET (1..N)
        BY <1>1, Zenon
    <2> HIDE DEF Above
    <2> QED
        BY <2>2, <2>3, Zenon DEF Numbers
<1>3. Newest(S, Page) = {s \in S : Cardinality(Above(s)) < Page}
    BY DEF Newest
<1>4. S # {} => Newest(S, Page) # {}
    <2> SUFFICES ASSUME S # {} PROVE Highest(S) \in Newest(S, Page)
        OBVIOUS
    <2>1. Highest(S) \in S /\ \A t \in S : t <= Highest(S)
        BY HighestFacts, SyncAssumption DEF Seqs
    <2>2. \A t \in S : ~(t > Highest(S))
        BY <1>0, <2>1
    <2>3. Cardinality({}) = 0 /\ 0 < Page
        BY SyncAssumption DEF Numbers
    <2>4. Above(Highest(S)) = {}
        BY <2>2
    <2> HIDE DEF Above
    <2> QED
        BY <1>3, <2>1, <2>3, <2>4
<1> HIDE DEF Above
<1> QED
    BY <1>1, <1>2, <1>3, <1>4, SyncAssumption

\* The highest of some numbers, or 0.
LEMMA HighestType ==
    ASSUME Numbers, NEW S \in SUBSET (0..N)
    PROVE  Highest(S) \in 0..N
<1>1. CASE S = {}
    BY <1>1, SyncAssumption DEF Highest
<1>2. CASE S # {}
    BY <1>2, HighestFacts, Zenon
<1> QED
    BY <1>1, <1>2

\* A number is a message, an event or absent, and not two of them.
LEMMA MessageSets ==
    /\ Messages \subseteq Seqs /\ Seqs \subseteq 0..N /\ Seqs \subseteq Nat /\ N + 1 \notin Seqs
    /\ Events \subseteq Seqs /\ Absent \subseteq Seqs /\ N \in Nat
    /\ Messages \cap Events = {} /\ Messages \cap Absent = {}
BY SyncAssumption DEF Messages, Seqs

\* The three gaps that are looked for are numbers or NoGap.
LEMMA FirstGapType ==
    ASSUME Numbers, NEW base \in 0..N, NEW S \in SUBSET Seqs
    PROVE  FirstGap(base, S) \in -1..N
<1>1. Contiguous(base, S) \in 0..N
    BY ContiguousFacts, MessageSets
<1> QED
    BY <1>1, MessageSets DEF FirstGap, NoGap

\* The gap inside the loaded messages is a number or NoGap.
LEMMA InternalGapType ==
    ASSUME Numbers, NEW base \in 0..N, NEW S \in SUBSET Seqs
    PROVE  InternalGap(base, S) \in -1..N
<1> DEFINE from == {s \in S : s >= base}
           ends == {s \in from : s + 1 \notin from /\ \E t \in from : t > s}
<1>1. ends \in SUBSET Nat /\ ends \subseteq 0..N
    BY MessageSets, Zenon
<1>2. InternalGap(base, S) = IF ends = {} THEN NoGap ELSE Lowest(ends)
    BY DEF InternalGap
<1> HIDE DEF ends
<1>3. CASE ends = {}
    BY <1>2, <1>3, MessageSets DEF NoGap
<1>4. CASE ends # {}
    <2>1. Lowest(ends) \in ends
        BY <1>1, <1>4, LowestFacts
    <2>2. Lowest(ends) \in 0..N
        BY <1>1, <2>1, Zenon
    <2> QED
        BY <1>2, <1>4, <2>2, MessageSets
<1> QED
    BY <1>3, <1>4

\* So is the gap a repair starts from.
LEMMA RepairGapType ==
    ASSUME Numbers, NEW base \in 0..N, NEW before \in 0..N, NEW S \in SUBSET Seqs
    PROVE  RepairGap(base, before, S) \in -1..N
<1> DEFINE recent == Larger(base, before)
           tail == IF recent > 0 THEN FirstGap(recent, S) ELSE NoGap
<1>1. recent \in 0..N
    BY DEF Larger
<1>2. RepairGap(base, before, S) = Larger(FirstGap(base, S), Larger(InternalGap(recent, S), tail))
    BY DEF RepairGap
<1>3. tail \in -1..N
    <2> HIDE DEF recent
    <2>1. FirstGap(recent, S) \in -1..N /\ NoGap \in -1..N
        BY <1>1, FirstGapType, MessageSets DEF NoGap
    <2> QED
        BY <2>1
<1>4. FirstGap(base, S) \in -1..N
    BY FirstGapType
<1>5. InternalGap(recent, S) \in -1..N
    <2> HIDE DEF recent
    <2> QED
        BY <1>1, InternalGapType
<1> HIDE DEF recent, tail
<1> QED
    BY <1>2, <1>3, <1>4, <1>5 DEF Larger

---------------------------------------------------------------------------
(* The cursor and the proven ranges *)

\* The states of a save and of a pull.
SaveRec == [pc: {"idle", "save", "cursor", "window", "advance"}, batch: SUBSET Messages,
            base: 0..N, best: 0..N, gap: -1..N]

\* Only paging back may start above the last number.
PullRec ==
    {p \in [pc: PullPcs, mode: {"sync", "after", "before"}, start: 0..N, from: 0..N + 1,
            last: BOOLEAN, items: SUBSET Seqs, top: 0..N, base: 0..N, known: 0..N,
            good: SUBSET Seqs] : p.mode # "before" => p.from <= N}

\* The part of the type invariant the argument needs.
CoverShape ==
    /\ head \in 0..N /\ rows \subseteq Messages /\ cursor \in 0..N /\ floor \in 0..N
    /\ applied \subseteq Events /\ queue \subseteq Messages
    /\ saver \in [Savers -> SaveRec] /\ pull \in [Pulls -> PullRec]
    /\ clear \in [on: BOOLEAN, deleted: BOOLEAN, mark: 0..N]

\* The messages that are stored or cleared, and those that are also left to backfill.
Stored == {m \in Messages : m \in rows \/ m <= floor}
Kept   == {m \in Messages : m \in rows \/ m <= floor \/ m \in lazy}

\* Of the numbers S, the set T holds the highest ones.
UpClosed(T, S) == T \subseteq S /\ \A s \in T, u \in S : u > s => u \in T

\* The messages below a number.
Before(n) == {m \in Messages : m < n}

\* What persist_durable_batch knows: its batch is stored before it reads the cursor, and what it
\* read and computed since still lies behind the cursor it will save.
SaverFacts(s, stored, kept) ==
    /\ s.pc \in {"cursor", "window", "advance"} => s.batch \subseteq stored
    /\ s.pc \in {"window", "advance"} => Messages \cap 1..s.base \subseteq kept
    /\ s.pc = "advance" => Messages \cap 1..s.best \subseteq kept

\* What a pull knows of its page: a page asked without a start has the newest numbers, its counted
\* numbers are above the known one, and once stored its messages above that have rows.
PullFacts(p, stored) ==
    /\ p.pc \in {"apply", "store", "prove", "save"} /\ p.mode = "before" =>
          UpClosed(p.items, Before(p.from)) /\ (p.items = {} => Before(p.from) = {})
    /\ p.pc \in {"apply", "store", "prove", "save"} /\ p.mode # "before" /\ (p.last \/ p.from = 0)
          => UpClosed(p.items, 1..p.top)
    /\ p.pc \in {"store", "prove", "save"} => p.good \subseteq {s \in p.items : s > p.known}
    /\ p.pc \in {"store", "prove", "save"} /\ p.mode = "before" => p.known = 0
    /\ p.pc \in {"prove", "save"} => {m \in p.items \cap Messages : m > p.known} \subseteq stored
    /\ p.pc = "adopt" => UpClosed(p.items, Messages \cap 1..p.top) /\ p.items \subseteq stored

\* The inductive invariant behind CursorCoversMessages and CoverageIsTrue.
CoverInv ==
    /\ CoverShape
    /\ Messages \cap 1..cursor \subseteq Kept /\ Messages \cap covered \subseteq Stored
    /\ \A a \in Savers : SaverFacts(saver[a], Stored, Kept)
    /\ \A t \in Pulls : PullFacts(pull[t], Stored)
    /\ clear.deleted => clear.mark <= floor

\* A pull that does not hold a page.
Quiet == {"idle", "begin", "ask", "again", "snapshot"}

\* The forms in which the steps write a pull ...
LEMMA PullTo ==
    ASSUME NEW p \in PullRec, NEW c \in PullPcs, NEW r, r = [p EXCEPT !.pc = c]
    PROVE  /\ r \in PullRec /\ r.pc = c
           /\ r.mode = p.mode /\ r.from = p.from /\ r.last = p.last /\ r.items = p.items
           /\ r.top = p.top /\ r.known = p.known /\ r.good = p.good
BY DEF PullRec

\* A pull that is idle, and a saver that is.
LEMMA NoPullFields == NoPull \in PullRec /\ NoPull.pc = "idle"
BY SyncAssumption DEF NoPull, PullRec, PullPcs

\* ... and the ones in which they write a saver.
LEMMA NoSaveFields == NoSave \in SaveRec /\ NoSave.pc = "idle"
BY SyncAssumption DEF NoSave, SaveRec

\* A batch that is taken up, and one that is stored.
LEMMA SaveNew ==
    ASSUME NEW b \in SUBSET Messages, NEW r, r = [NoSave EXCEPT !.pc = "save", !.batch = b]
    PROVE  r \in SaveRec /\ r.pc = "save"
<1>1. 0 \in 0..N /\ 0 \in -1..N
    BY SyncAssumption
<1> QED
    BY <1>1, Zenon DEF NoSave, SaveRec

\* A save that moves to its cursor step keeps its batch.
LEMMA SaveTo ==
    ASSUME NEW s \in SaveRec, NEW r, r = [s EXCEPT !.pc = "cursor"]
    PROVE  r \in SaveRec /\ r.pc = "cursor" /\ r.batch = s.batch
BY DEF SaveRec

\* A step writes pulls that are well formed, and the ones it changes hold no page.
Settles ==
    /\ pull' \in [Pulls -> PullRec]
    /\ \A t \in Pulls : pull'[t] = pull[t] \/ pull'[t].pc \in Quiet

\* A pull that is set to an idle or asking state settles.
LEMMA OneSettles ==
    ASSUME pull \in [Pulls -> PullRec], NEW t \in Pulls, NEW r \in PullRec, r.pc \in Quiet,
           Pull(t, r)
    PROVE  Settles
BY DEF Settles, Pull

\* The end of a pull, the end of a page, a ping and a gap all leave pulls without a page.
LEMMA EndsSettles ==
    ASSUME pull \in [Pulls -> PullRec], NEW t \in Pulls, NEW ok, Ends(t, ok)
    PROVE  Settles
<1> DEFINE r == [NoPull EXCEPT !.pc = "again"]
<1>1. Pull(t, NoPull) \/ Pull(t, r)
    BY DEF Ends
<1>2. r \in PullRec /\ r.pc = "again"
    BY NoPullFields, PullTo DEF PullPcs
<1> HIDE DEF r
<1> QED
    BY <1>1, <1>2, NoPullFields, OneSettles DEF Quiet

\* A pull that asks for its next page, or ends, holds none.
LEMMA ProceedsSettles ==
    ASSUME pull \in [Pulls -> PullRec], NEW t \in Pulls, NEW next \in 0..N, NEW more,
           Proceeds(t, next, more)
    PROVE  Settles
<1> DEFINE last == [NoPull EXCEPT !.pc = "ask", !.start = pull[t].start, !.from = pull[t].from,
                                  !.last = TRUE]
           further == [NoPull EXCEPT !.pc = "ask", !.start = pull[t].start, !.from = next]
<1>1. Ends(t, TRUE) \/ (Pull(t, last) /\ pull[t].mode = "sync") \/ Pull(t, further)
    BY Zenon DEF Proceeds
<1>2. /\ pull[t].start \in 0..N /\ pull[t].from \in 0..N + 1 /\ next \in 0..N + 1
      /\ next <= N /\ (pull[t].mode = "sync" => pull[t].from <= N) /\ 0 \in 0..N
    BY SyncAssumption DEF PullRec
<1>3. pull[t].mode = "sync" => last \in PullRec /\ last.pc = "ask"
    BY <1>2, Zenon DEF NoPull, PullRec, PullPcs
<1>4. further \in PullRec /\ further.pc = "ask"
    BY <1>2, Zenon DEF NoPull, PullRec, PullPcs
<1> HIDE DEF last, further
<1> QED
    BY <1>1, <1>3, <1>4, OneSettles, EndsSettles, Zenon DEF Quiet

\* A ping starts a pull that holds no page yet, or none.
LEMMA PingSettles ==
    ASSUME pull \in [Pulls -> PullRec], NEW target, NEW A, Ping(target, A)
    PROVE  Settles
<1> DEFINE r == [NoPull EXCEPT !.pc = "begin"]
<1>1. UNCHANGED pull \/ Pull("water", r)
    BY DEF Ping, Pull
<1>2. r \in PullRec /\ r.pc = "begin" /\ "water" \in Pulls
    BY NoPullFields, PullTo DEF PullPcs, Pulls
<1> HIDE DEF r
<1>3. UNCHANGED pull => Settles
    BY DEF Settles
<1> QED
    BY <1>1, <1>2, <1>3, OneSettles DEF Quiet

\* A repair starts a pull that holds no page yet, or none.
LEMMA RepairSettles ==
    ASSUME pull \in [Pulls -> PullRec], NEW s \in SaveRec, Repair(s)
    PROVE  Settles
<1> DEFINE r == [NoPull EXCEPT !.pc = "ask", !.start = s.gap, !.from = s.gap]
<1>1. UNCHANGED pull \/ (Pull("fix", r) /\ s.gap # -1)
    BY DEF Repair, Pull, NoGap
<1>2. (s.gap # -1 => s.gap \in 0..N /\ s.gap \in 0..N + 1 /\ s.gap <= N) /\ 0 \in 0..N
    BY SyncAssumption DEF SaveRec
<1>3. s.gap # -1 => r \in PullRec /\ r.pc = "ask"
    BY <1>2, Zenon DEF NoPull, PullRec, PullPcs
<1>4. "fix" \in Pulls
    BY DEF Pulls
<1> HIDE DEF r
<1>5. UNCHANGED pull => Settles
    BY DEF Settles
<1> QED
    BY <1>1, <1>3, <1>4, <1>5, OneSettles DEF Quiet

\* What a saver or a pull knows stays true while messages are only added to the stored ones.
LEMMA SaverGrows ==
    ASSUME NEW s, NEW H, NEW K, NEW H2, NEW K2, H \subseteq H2, K \subseteq K2, SaverFacts(s, H, K)
    PROVE  SaverFacts(s, H2, K2)
BY DEF SaverFacts

\* The same of a pull.
LEMMA PullGrows ==
    ASSUME NEW p, NEW H, NEW H2, H \subseteq H2, PullFacts(p, H)
    PROVE  PullFacts(p, H2)
BY DEF PullFacts

\* A pull without a page, and a saver that has stored nothing, claim nothing.
LEMMA QuietPull == ASSUME NEW p, NEW H, p.pc \in Quiet PROVE PullFacts(p, H)
BY DEF Quiet, PullFacts

\* The same of a saver before its messages are stored.
LEMMA QuietSaver == ASSUME NEW s, NEW H, NEW K, s.pc \in {"idle", "save"} PROVE SaverFacts(s, H, K)
BY DEF SaverFacts

\* A row more loses no message.
LEMMA RowsGrow ==
    ASSUME rows \subseteq rows', floor' = floor, lazy \subseteq lazy'
    PROVE  Stored \subseteq Stored' /\ Kept \subseteq Kept'
BY DEF Stored, Kept

\* The invariant survives a step that loses no stored message, if the cursor, the ranges and
\* the records the step changed claim only stored ones.
LEMMA CoverFrame ==
    ASSUME CoverInv, CoverShape', Stored \subseteq Stored', Kept \subseteq Kept',
           Messages \cap 1..cursor' \subseteq Kept', Messages \cap covered' \subseteq Stored',
           \A a \in Savers : saver'[a] = saver[a] \/ SaverFacts(saver'[a], Stored', Kept'),
           \A t \in Pulls : pull'[t] = pull[t] \/ PullFacts(pull'[t], Stored'),
           clear'.deleted => clear'.mark <= floor'
    PROVE  CoverInv'
<1>1. \A a \in Savers : SaverFacts(saver'[a], Stored', Kept')
    BY SaverGrows DEF CoverInv
<1>2. \A t \in Pulls : PullFacts(pull'[t], Stored')
    BY PullGrows DEF CoverInv
<1> QED
    BY <1>1, <1>2 DEF CoverInv

\* Savers that change are idle or hold a batch that is not stored yet.
Files ==
    /\ saver' \in [Savers -> SaveRec]
    /\ \A a \in Savers : saver'[a] = saver[a] \/ saver'[a].pc \in {"idle", "save"}

\* A saver that goes idle or takes up a batch.
LEMMA OneFiles ==
    ASSUME saver \in [Savers -> SaveRec], NEW a \in Savers, NEW r \in SaveRec,
           r.pc \in {"idle", "save"}, Saver(a, r)
    PROVE  Files
BY DEF Files, Saver

\* A step that changes no number in the store, and no page and no window.
LEMMA CoverQuiet ==
    ASSUME CoverInv, UNCHANGED <<rows, floor, lazy, cursor, covered>>,
           head' \in 0..N, applied' \subseteq Events, queue' \subseteq Messages,
           Files \/ UNCHANGED saver, Settles \/ UNCHANGED pull,
           clear' \in [on: BOOLEAN, deleted: BOOLEAN, mark: 0..N],
           clear'.deleted => clear'.mark <= floor'
    PROVE  CoverInv'
<1>1. Files /\ Settles
    BY DEF Files, Settles, CoverInv, CoverShape
<1>2. CoverShape'
    BY <1>1 DEF CoverShape, CoverInv, Files, Settles
<1>3. Stored' = Stored /\ Kept' = Kept
    BY DEF Stored, Kept
<1>4. Messages \cap 1..cursor' \subseteq Kept' /\ Messages \cap covered' \subseteq Stored'
    BY <1>3 DEF CoverInv
<1>5. \A a \in Savers : saver'[a] = saver[a] \/ SaverFacts(saver'[a], Stored', Kept')
    BY <1>1, QuietSaver DEF Files
<1>6. \A t \in Pulls : pull'[t] = pull[t] \/ PullFacts(pull'[t], Stored')
    BY <1>1, QuietPull DEF Settles
<1> QED
    BY <1>2, <1>3, <1>4, <1>5, <1>6, CoverFrame, SMTT(40)

\* Storing a batch moves the cursor only over messages that are stored: the window read after the
\* write holds rows, the batch and events, and no other step takes a stored message away.
LEMMA SaversKeepCover ==
    ASSUME Numbers, CoverInv, NEW a \in Savers, Stores(a)
    PROVE  CoverInv'
<1> DEFINE s == saver[a]
<1>1. s \in SaveRec /\ saver \in [Savers -> SaveRec] /\ CoverShape /\ pull \in [Pulls -> PullRec]
    BY DEF CoverInv, CoverShape
<1>2. SaverFacts(s, Stored, Kept)
    BY DEF CoverInv
<1>3. ASSUME NEW r \in SaveRec, Saver(a, r)
      PROVE  /\ saver' \in [Savers -> SaveRec] /\ saver'[a] = r
             /\ \A b \in Savers \ {a} : saver'[b] = saver[b]
    BY <1>1, <1>3 DEF Saver
<1>4. ASSUME NEW r \in SaveRec, Saver(a, r), SaverFacts(r, Stored', Kept')
      PROVE  /\ saver' \in [Savers -> SaveRec]
             /\ \A b \in Savers : saver'[b] = saver[b] \/ SaverFacts(saver'[b], Stored', Kept')
    BY <1>3, <1>4, Zenon
<1>5. CASE SaveBatch(a)
    <2> DEFINE r == [s EXCEPT !.pc = "cursor"]
    <2>1. /\ s.pc = "save" /\ rows \subseteq rows' /\ rows' \subseteq rows \cup s.batch
          /\ UNCHANGED <<head, cursor, floor, covered, applied, queue, pull, clear, lazy>>
          /\ (Saver(a, r) /\ rows' = rows \cup s.batch) \/ Saver(a, NoSave)
        BY <1>5 DEF SaveBatch, server, marks, memory
    <2>2. r \in SaveRec /\ r.pc = "cursor" /\ r.batch = s.batch
        BY <1>1, SaveTo
    <2>3. Stored \subseteq Stored' /\ Kept \subseteq Kept'
        BY <2>1, RowsGrow
    <2>4. s.batch \subseteq Messages
        BY <1>1 DEF SaveRec
    <2> HIDE DEF r, s
    <2>5. rows' = rows \cup s.batch => s.batch \subseteq Stored'
        BY <2>4 DEF Stored
    <2>6. rows' = rows \cup s.batch => SaverFacts(r, Stored', Kept')
        BY <2>2, <2>5 DEF SaverFacts
    <2>7. SaverFacts(NoSave, Stored', Kept')
        BY NoSaveFields, QuietSaver, SMTT(40)
    <2>8. /\ saver' \in [Savers -> SaveRec]
          /\ \A b \in Savers : saver'[b] = saver[b] \/ SaverFacts(saver'[b], Stored', Kept')
        BY <1>4, <2>1, <2>2, <2>6, <2>7, NoSaveFields, ZenonT(40)
    <2>9. CoverShape'
        BY <1>1, <2>1, <2>4, <2>8, Zenon DEF CoverShape
    <2>10. Messages \cap 1..cursor' \subseteq Kept' /\ Messages \cap covered' \subseteq Stored'
        BY <2>1, <2>3, Zenon DEF CoverInv
    <2>11. clear'.deleted => clear'.mark <= floor'
        BY <2>1 DEF CoverInv
    <2> QED
        BY <2>1, <2>3, <2>8, <2>9, <2>10, <2>11, CoverFrame, SMTT(40)
<1>6. ASSUME UNCHANGED <<head, rows, floor, covered, applied, queue, clear, lazy>>,
             cursor' \in 0..N, Messages \cap 1..cursor' \subseteq Kept',
             Settles \/ UNCHANGED pull,
             NEW r \in SaveRec, Saver(a, r), SaverFacts(r, Stored', Kept')
      PROVE  CoverInv'
    <2>1. Stored \subseteq Stored' /\ Kept \subseteq Kept' /\ Stored' = Stored
        BY <1>6 DEF Stored, Kept
    <2>2. Settles
        BY <1>1, <1>6 DEF Settles
    <2>3. /\ saver' \in [Savers -> SaveRec]
          /\ \A b \in Savers : saver'[b] = saver[b] \/ SaverFacts(saver'[b], Stored', Kept')
        BY <1>4, <1>6
    <2>4. CoverShape'
        BY <1>1, <1>6, <2>2, <2>3 DEF CoverShape, Settles
    <2>5. \A t \in Pulls : pull'[t] = pull[t] \/ PullFacts(pull'[t], Stored')
        BY <2>2, QuietPull DEF Settles
    <2>6. Messages \cap covered' \subseteq Stored' /\ (clear'.deleted => clear'.mark <= floor')
        BY <1>6, <2>1 DEF CoverInv
    <2> QED
        BY <1>6, <2>1, <2>3, <2>4, <2>5, <2>6, CoverFrame, SMTT(40)
<1>7. UNCHANGED <<rows, floor, lazy>> => Stored' = Stored /\ Kept' = Kept
    BY DEF Stored, Kept
<1>8. CASE ReadCursor(a)
    <2> DEFINE r == [s EXCEPT !.pc = "window", !.base = cursor]
    <2>1. /\ s.pc = "cursor" /\ Saver(a, r)
          /\ UNCHANGED <<head, rows, cursor, floor, covered, applied, queue, pull, clear, lazy>>
        BY <1>8 DEF ReadCursor, server, store, marks, memory
    <2>2. cursor \in 0..N /\ Messages \cap 1..cursor \subseteq Kept
        BY DEF CoverInv, CoverShape
    <2>3. r \in SaveRec /\ r.pc = "window" /\ r.batch = s.batch /\ r.base = cursor
        <3> HIDE DEF s
        <3> QED
            BY <1>1, <2>2, ZenonT(40) DEF SaveRec
    <2> HIDE DEF r, s
    <2>4. SaverFacts(r, Stored, Kept)
        BY <1>2, <2>1, <2>2, <2>3, Zenon DEF SaverFacts
    <2> QED
        BY <1>6, <1>7, <2>1, <2>2, <2>3, <2>4, SMTT(40)
<1>9. CASE ReadWindow(a)
    <2> DEFINE tail   == LocalTail(s.batch)
               events == {e \in applied : s.base < e /\ e <= Highest(s.batch)}
               window == tail \cup s.batch \cup events
               best   == Contiguous(s.base, window)
               gap    == RepairGap(s.base, Highest(tail), window)
               r      == [s EXCEPT !.pc = "advance", !.best = best, !.gap = gap]
    <2>1. /\ s.pc = "window" /\ Saver(a, r)
          /\ UNCHANGED <<head, rows, cursor, floor, covered, applied, queue, pull, clear, lazy>>
        BY <1>9 DEF ReadWindow, server, store, marks, memory
    <2>2. /\ s.batch \subseteq Messages /\ s.base \in 0..N /\ rows \subseteq Messages
          /\ applied \subseteq Events
        BY <1>1 DEF SaveRec, CoverShape
    <2>3. tail \subseteq rows
        BY DEF LocalTail, Visible
    <2>4. events \subseteq Events
        BY <2>2
    <2> HIDE DEF tail, events, s
    <2>5. window \subseteq Seqs /\ tail \in SUBSET (0..N)
        BY <2>2, <2>3, <2>4, MessageSets, Zenon
    <2>6. best \in s.base..N /\ s.base + 1..best \subseteq window
        <3> HIDE DEF window
        <3> QED
            BY <2>2, <2>5, ContiguousFacts, MessageSets, Zenon
    <2>7. best \in 0..N
        BY <2>2, <2>6
    <2>8. gap \in -1..N
        <3> HIDE DEF window
        <3> QED
            BY <2>2, <2>5, HighestType, RepairGapType
    <2> HIDE DEF best, gap
    <2>9. r \in SaveRec /\ r.pc = "advance" /\ r.batch = s.batch /\ r.base = s.base /\ r.best = best
        BY <1>1, <2>7, <2>8, Zenon DEF SaveRec
    <2>10. s.batch \subseteq Stored /\ Messages \cap 1..s.base \subseteq Kept
        BY <1>2, <2>1 DEF SaverFacts
    <2>11. Messages \cap window \subseteq Kept
        BY <2>3, <2>4, <2>10, MessageSets, Zenon DEF Stored, Kept
    <2> HIDE DEF window, r
    <2>12. Messages \cap 1..best \subseteq Kept
        <3> SUFFICES ASSUME NEW m \in Messages, m \in 1..best PROVE m \in Kept
            OBVIOUS
        <3>1. m \in 1..s.base \/ m \in s.base + 1..best
            BY <2>2, <2>7, MessageSets, SMTT(40)
        <3> QED
            BY <2>6, <2>10, <2>11, <3>1
    <2>13. SaverFacts(r, Stored, Kept)
        BY <2>9, <2>10, <2>12, SMTT(40) DEF SaverFacts
    <2>14. cursor \in 0..N /\ Messages \cap 1..cursor \subseteq Kept
        BY DEF CoverInv, CoverShape
    <2> QED
        BY <1>6, <1>7, <2>1, <2>9, <2>13, <2>14, SMTT(40)
<1>10. CASE Advance(a)
    <2>1. /\ s.pc = "advance" /\ Saver(a, NoSave) /\ Repair(s)
          /\ cursor' = Larger(cursor, s.best) \/ cursor' = cursor
          /\ UNCHANGED <<head, rows, floor, covered, applied, queue, clear, lazy>>
        BY <1>10 DEF Advance, server, memory
    <2>2. Settles
        BY <1>1, <2>1, RepairSettles, ZenonT(40)
    <2>3. /\ cursor \in 0..N /\ Messages \cap 1..cursor \subseteq Kept /\ s.best \in 0..N
          /\ Messages \cap 1..s.best \subseteq Kept
        BY <1>1, <1>2, <2>1, SMTT(40) DEF CoverInv, CoverShape, SaveRec, SaverFacts
    <2>4. cursor' = cursor \/ cursor' = s.best
        BY <2>1, ZenonT(40) DEF Larger
    <2>5. SaverFacts(NoSave, Stored', Kept')
        BY NoSaveFields, QuietSaver
    <2> HIDE DEF s
    <2> QED
        BY <1>6, <1>7, <2>1, <2>2, <2>3, <2>4, <2>5, NoSaveFields, ZenonT(40)
<1> QED
    BY <1>5, <1>8, <1>9, <1>10, SMTT(40) DEF Stores

\* The same for the steps of a pull, which change no floor and no batch.
LEMMA PullFrame ==
    ASSUME CoverInv, NEW t \in Pulls, UNCHANGED <<head, floor, applied, queue, saver, clear>>,
           rows \subseteq rows', rows' \subseteq Messages, lazy \subseteq lazy', cursor' \in 0..N,
           Messages \cap 1..cursor' \subseteq Kept', Messages \cap covered' \subseteq Stored',
           Settles \/ \E r \in PullRec : Pull(t, r) /\ PullFacts(r, Stored')
    PROVE  CoverInv'
<1>1. pull \in [Pulls -> PullRec] /\ CoverShape
    BY DEF CoverInv, CoverShape
<1>2. Stored \subseteq Stored' /\ Kept \subseteq Kept'
    BY RowsGrow
<1>3. /\ pull' \in [Pulls -> PullRec]
      /\ \A u \in Pulls : pull'[u] = pull[u] \/ PullFacts(pull'[u], Stored')
    <2>1. CASE Settles
        BY <2>1, QuietPull DEF Settles
    <2>2. ASSUME NEW r \in PullRec, Pull(t, r), PullFacts(r, Stored')
          PROVE  /\ pull' \in [Pulls -> PullRec]
                 /\ \A u \in Pulls : pull'[u] = pull[u] \/ PullFacts(pull'[u], Stored')
        BY <1>1, <2>2 DEF Pull
    <2> QED
        BY <2>1, <2>2
<1>4. CoverShape'
    BY <1>1, <1>3 DEF CoverShape
<1>5. clear'.deleted => clear'.mark <= floor'
    BY DEF CoverInv
<1> QED
    BY <1>2, <1>3, <1>4, <1>5, CoverFrame, ZenonT(40)

\* A step of a pull that leaves the store as it is.
LEMMA PullStill ==
    ASSUME CoverInv, NEW t \in Pulls,
           UNCHANGED <<head, rows, cursor, floor, covered, applied, queue, saver, clear, lazy>>,
           Settles \/ \E r \in PullRec : Pull(t, r) /\ PullFacts(r, Stored)
    PROVE  CoverInv'
<1>1. Stored' = Stored /\ Kept' = Kept
    BY DEF Stored, Kept
<1>2. rows \subseteq Messages /\ cursor \in 0..N
    BY DEF CoverInv, CoverShape
<1>3. Messages \cap 1..cursor' \subseteq Kept' /\ Messages \cap covered' \subseteq Stored'
    BY <1>1 DEF CoverInv
<1> QED
    BY <1>1, <1>2, <1>3, PullFrame

\* Asking for a page changes nothing in the store.
LEMMA BeginKeepsCover == ASSUME Numbers, CoverInv, NEW t \in Pulls, Begin(t) PROVE CoverInv'
<1>1. /\ pull \in [Pulls -> PullRec] /\ pull[t] \in PullRec /\ rows \subseteq Messages
      /\ cursor \in 0..N /\ floor \in 0..N
    BY DEF CoverInv, CoverShape
<1>2. LocalStart \in 0..N
    <2>1. Highest(rows) \in 0..N
        BY <1>1, HighestType, MessageSets
    <2> QED
        BY <1>1, <2>1, MessageSets DEF LocalStart, Larger, Smaller
<1> DEFINE r == [pull[t] EXCEPT !.pc = "ask", !.start = LocalStart, !.from = LocalStart]
<1>3. /\ Pull(t, r)
      /\ UNCHANGED <<head, rows, cursor, floor, covered, applied, queue, saver, clear, lazy>>
    BY DEF Begin, server, store, marks, memory, inbox
<1>4. r \in PullRec /\ r.pc = "ask"
    <2> DEFINE p == pull[t]
               from == LocalStart
    <2>1. from \in 0..N /\ from \in 0..N + 1 /\ from <= N
        BY <1>2, MessageSets
    <2>2. p \in PullRec /\ r = [p EXCEPT !.pc = "ask", !.start = from, !.from = from]
        BY <1>1
    <2> HIDE DEF p, from, r
    <2> QED
        BY <2>1, <2>2, ZenonT(40) DEF PullRec, PullPcs
<1> HIDE DEF r
<1>5. Settles
    BY <1>1, <1>3, <1>4, OneSettles, Zenon DEF Quiet
<1> QED
    BY <1>3, <1>5, PullStill

\* An answer is a page of the newest numbers, or of those after the asked one.
LEMMA AnswerKeepsCover == ASSUME Numbers, CoverInv, NEW t \in Pulls, Answer(t) PROVE CoverInv'
<1> DEFINE p == pull[t]
           r == [p EXCEPT !.pc = "apply", !.items = Items(t), !.top = head]
           q == [p EXCEPT !.pc = "snapshot"]
<1>1. pull \in [Pulls -> PullRec] /\ p \in PullRec /\ head \in 0..N
    BY DEF CoverInv, CoverShape
<1>2. /\ Pull(t, r) \/ Pull(t, q)
      /\ UNCHANGED <<head, rows, cursor, floor, covered, applied, queue, saver, clear, lazy>>
    BY DEF Answer, server, store, marks, memory, inbox
<1>3. Before(p.from) \subseteq Seqs /\ 1..head \subseteq Seqs
    <2>1. Before(p.from) \subseteq Seqs
        BY MessageSets, ZenonT(40) DEF Before
    <2>2. 1..head \subseteq 1..N
        BY <1>1, MessageSets, SMTT(40)
    <2> QED
        BY <2>1, <2>2 DEF Seqs
<1>4. p.mode = "before" =>
         /\ UpClosed(Items(t), Before(p.from))
         /\ Items(t) = {} => Before(p.from) = {}
    <2>1. p.mode = "before" => Items(t) = Newest(Before(p.from), Page)
        BY DEF Items, Before
    <2> QED
        BY <1>3, <2>1, NewestFacts DEF UpClosed
<1>5. p.mode # "before" /\ (p.last \/ p.from = 0) => UpClosed(Items(t), 1..head)
    <2>1. p.mode # "before" /\ (p.last \/ p.from = 0) => Asked(t) = 0
        BY DEF Asked
    <2>2. p.mode # "before" /\ Asked(t) = 0 => Items(t) = Newest(1..head, Page)
        BY DEF Items
    <2>3. UpClosed(Newest(1..head, Page), 1..head)
        BY <1>3, NewestFacts, Zenon DEF UpClosed
    <2> QED
        BY <2>1, <2>2, <2>3, SMTT(40)
<1>6. Items(t) \subseteq Seqs
    <2>1. CASE p.mode = "before"
        BY <1>3, <1>4, <2>1 DEF UpClosed
    <2>2. CASE p.mode # "before" /\ Asked(t) = 0
        BY <1>3, <2>2, NewestFacts, Zenon DEF Items
    <2>3. CASE p.mode # "before" /\ Asked(t) # 0
        BY <1>3, <2>3 DEF Items
    <2> QED
        BY <2>1, <2>2, <2>3, SMTT(40)
<1>7. /\ r \in PullRec /\ r.pc = "apply" /\ r.items = Items(t) /\ r.top = head
      /\ r.mode = p.mode /\ r.from = p.from /\ r.last = p.last
    <2> DEFINE items == Items(t)
    <2>1. items \in SUBSET Seqs /\ r = [p EXCEPT !.pc = "apply", !.items = items, !.top = head]
        BY <1>6
    <2> HIDE DEF items, p
    <2> QED
        BY <1>1, <2>1, ZenonT(40) DEF PullRec, PullPcs
<1>8. q \in PullRec /\ q.pc = "snapshot"
    <2> HIDE DEF p
    <2> QED
        BY <1>1, PullTo DEF PullPcs
<1> HIDE DEF p, q, r
<1>9. PullFacts(r, Stored)
    BY <1>4, <1>5, <1>7 DEF PullFacts
<1>10. Pull(t, q) => Settles
    BY <1>1, <1>8, OneSettles, SMTT(40) DEF Quiet
<1> QED
    BY <1>2, <1>7, <1>9, <1>10, PullStill, SMTT(40)

\* Applying the events of a page fixes the known number and what counts.
LEMMA ApplyKeepsCover == ASSUME CoverInv, NEW t \in Pulls, ApplyEvents(t) PROVE CoverInv'
<1> DEFINE p == pull[t]
           good == {s \in p.items \ (Events \ seen') : s > Known(t)}
           r == [p EXCEPT !.pc = "store", !.base = cursor, !.known = Known(t), !.good = good]
<1>1. /\ pull \in [Pulls -> PullRec] /\ p \in PullRec /\ PullFacts(p, Stored)
      /\ cursor \in 0..N /\ floor \in 0..N
    BY DEF CoverInv, CoverShape
<1>2. /\ p.pc = "apply" /\ Pull(t, r)
      /\ UNCHANGED <<head, rows, cursor, floor, covered, applied, queue, saver, clear, lazy>>
    BY SMTT(40) DEF ApplyEvents, server, marks, inbox
<1>3. Known(t) \in 0..N /\ (p.mode = "before" => Known(t) = 0)
    <2>1. p.mode \in {"sync", "after", "before"} /\ (p.mode # "before" => p.from \in 0..N)
        BY <1>1, MessageSets DEF PullRec
    <2>2. p.mode # "before" => Asked(t) \in 0..N
        BY <2>1, MessageSets DEF Asked
    <2>3. CASE p.mode = "before"
        BY <2>3, MessageSets DEF Known
    <2>4. CASE p.mode = "sync"
        BY <1>1, <2>2, <2>4, MessageSets DEF Known, Larger, Smaller
    <2>5. CASE p.mode = "after"
        BY <1>1, <2>2, <2>5, MessageSets, Zenon DEF Known, Larger
    <2> QED
        BY <2>1, <2>3, <2>4, <2>5, SMTT(40)
<1>4. good \in SUBSET Seqs /\ good \subseteq {s \in p.items : s > Known(t)}
    BY <1>1 DEF PullRec
<1>5. /\ r \in PullRec /\ r.pc = "store" /\ r.known = Known(t) /\ r.good = good
      /\ r.mode = p.mode /\ r.from = p.from /\ r.last = p.last
      /\ r.items = p.items /\ r.top = p.top
    <2> DEFINE known == Known(t)
    <2>1. /\ known \in 0..N /\ known = Known(t)
          /\ r = [p EXCEPT !.pc = "store", !.base = cursor, !.known = known, !.good = good]
        BY <1>3, SMTT(40)
    <2> HIDE DEF known, good, p, r
    <2> QED
        BY <1>1, <1>4, <2>1, ZenonT(40) DEF PullRec, PullPcs
<1> HIDE DEF p, good, r
<1>6. PullFacts(r, Stored)
    BY <1>1, <1>2, <1>3, <1>4, <1>5, ZenonT(40) DEF PullFacts
<1> QED
    BY <1>2, <1>5, <1>6, PullStill, SMTT(40)

\* Storing a page gives every message above the known number a row, or it was cleared.
LEMMA StoreKeepsCover == ASSUME CoverInv, NEW t \in Pulls, StorePage(t) PROVE CoverInv'
<1> DEFINE p == pull[t]
           new == Fresh(p.items, p.known)
           r == [p EXCEPT !.pc = "prove"]
<1>1. /\ pull \in [Pulls -> PullRec] /\ p \in PullRec /\ PullFacts(p, Stored)
      /\ cursor \in 0..N /\ floor \in 0..N /\ rows \subseteq Messages
    BY DEF CoverInv, CoverShape
<1>2. /\ p.pc = "store" /\ rows \subseteq rows' /\ rows' \subseteq rows \cup new
      /\ (rows' = rows \cup new /\ Pull(t, r)) \/ Ends(t, FALSE)
      /\ UNCHANGED <<head, cursor, floor, covered, applied, queue, saver, clear, lazy>>
    BY ZenonT(40) DEF StorePage, server, marks, memory, inbox
<1>3. /\ r \in PullRec /\ r.pc = "prove"
      /\ r.mode = p.mode /\ r.from = p.from /\ r.last = p.last /\ r.items = p.items
      /\ r.top = p.top /\ r.known = p.known /\ r.good = p.good
    <2> HIDE DEF p
    <2> QED
        BY <1>1, PullTo DEF PullPcs
<1>4. Stored \subseteq Stored' /\ Kept \subseteq Kept'
    BY <1>2, RowsGrow
<1>5. rows' = rows \cup new => {m \in p.items \cap Messages : m > p.known} \subseteq Stored'
    <2> SUFFICES ASSUME rows' = rows \cup new, NEW m \in p.items \cap Messages, m > p.known
                 PROVE  m \in Stored'
        <3> HIDE DEF new, p
        <3> QED
            OBVIOUS
    <2>1. m \in Nat /\ floor \in Nat
        BY <1>1, SyncAssumption, SMTT(40) DEF Messages, Seqs
    <2>2. m > floor => m \in new
        BY DEF Fresh
    <2> QED
        BY <1>2, <2>1, <2>2 DEF Stored
<1>6. new \subseteq Messages
    BY DEF Fresh
<1>7. Messages \cap 1..cursor' \subseteq Kept' /\ Messages \cap covered' \subseteq Stored'
    BY <1>2, <1>4 DEF CoverInv
<1>8. PullFacts(p, Stored')
    BY <1>1, <1>4, PullGrows, SMTT(40)
<1> HIDE DEF p, new, r
<1>9. rows' = rows \cup new => PullFacts(r, Stored')
    BY <1>2, <1>3, <1>5, <1>8, ZenonT(40) DEF PullFacts
<1>10. Ends(t, FALSE) => Settles
    BY <1>1, EndsSettles, Zenon
<1>11. rows' \subseteq Messages
    BY <1>1, <1>2, <1>6, Zenon
<1> QED
    BY <1>1, <1>2, <1>3, <1>7, <1>9, <1>10, <1>11, PullFrame, Zenon

\* How far a page runs on from its start: every message of the run was on the page.
LEMMA SafeFacts ==
    ASSUME Numbers, NEW p \in PullRec, NEW H, PullFacts(p, H), p.pc \in {"prove", "save"}
    PROVE  /\ Safe(p) \in p.known..N /\ p.known \in 0..N
           /\ Messages \cap (p.known + 1..Safe(p)) \subseteq H
<1>1. p.good \subseteq Seqs /\ p.known \in 0..N /\ p.good \subseteq p.items
    BY DEF PullRec, PullFacts
<1>2. Safe(p) \in p.known..N /\ p.known + 1..Safe(p) \subseteq p.good
    BY <1>1, ContiguousFacts, MessageSets, ZenonT(40) DEF Safe
<1>3. \A m \in p.known + 1..Safe(p) : m > p.known
    BY <1>1, <1>2, SMTT(40)
<1>4. {m \in p.items \cap Messages : m > p.known} \subseteq H
    BY DEF PullFacts
<1> QED
    BY <1>1, <1>2, <1>3, <1>4, Zenon

\* A page of older messages proves what lies between its oldest and the message it started from.
LEMMA BackfillIsStored ==
    ASSUME Numbers, NEW p \in PullRec, NEW H, PullFacts(p, H), p.pc \in {"prove", "save"}, p.mode = "before"
    PROVE  Messages \cap BackfillRange(p) \subseteq H
<1>1. /\ UpClosed(p.items, Before(p.from)) /\ (p.items = {} => Before(p.from) = {})
      /\ {m \in p.items \cap Messages : m > 0} \subseteq H
      /\ p.from \in 0..N + 1 /\ p.items \in SUBSET Nat
    BY MessageSets, Zenon DEF PullFacts, PullRec
<1> SUFFICES ASSUME NEW m \in Messages, m \in BackfillRange(p) PROVE m \in p.items
    <2>1. \A m \in Messages : m > 0
        BY SyncAssumption DEF Messages, Seqs
    <2> QED
        BY <1>1, <2>1, Zenon
<1>2. m \in Nat /\ m < p.from /\ m \in Before(p.from)
    <2>1. m \in Nat
        BY MessageSets
    <2>2. m < p.from
        BY <1>1, <2>1 DEF BackfillRange
    <2> QED
        BY <2>1, <2>2 DEF Before
<1>3. p.items # {}
    BY <1>1, <1>2, SMTT(40)
<1>4. Lowest(p.items) \in p.items
    BY <1>1, <1>3, LowestFacts, Zenon
<1>5. m >= Lowest(p.items)
    BY <1>1, <1>2, <1>4, SMTT(40) DEF BackfillRange
<1> QED
    BY <1>1, <1>2, <1>4, <1>5, MessageSets DEF UpClosed

\* A page of the newest numbers proves what lies above its first counted one.
LEMMA TailIsStored ==
    ASSUME Numbers, NEW t \in Pulls, pull[t] \in PullRec, NEW H, PullFacts(pull[t], H),
           pull[t].pc \in {"prove", "save"}, Tail(t)
    PROVE  Messages \cap TailRange(t) \subseteq H
<1> DEFINE p == pull[t]
<1>1. p.mode # "before" /\ (p.last \/ p.from = 0)
    BY Zenon DEF Tail, Asked
<1>0. {m \in p.items \cap Messages : m > p.known} \subseteq H
    BY DEF PullFacts
<1>2. /\ UpClosed(p.items, 1..p.top) /\ p.good \subseteq {s \in p.items : s > p.known}
      /\ p.good \in SUBSET Nat /\ p.known \in Nat /\ p.top \in Nat
    <2>1. UpClosed(p.items, 1..p.top) /\ p.good \subseteq {s \in p.items : s > p.known}
        BY <1>1, Zenon DEF PullFacts
    <2>2. p.good \subseteq Seqs /\ p.known \in 0..N /\ p.top \in 0..N
        BY DEF PullRec
    <2> HIDE DEF p
    <2> QED
        BY <2>1, <2>2, SyncAssumption, SMTT(40) DEF Seqs
<1> HIDE DEF p
<1> SUFFICES ASSUME NEW m \in Messages, m \in TailRange(t) PROVE m \in p.items /\ m > p.known
    BY <1>0, Zenon
<1>3. p.good # {} /\ m \in Lowest(p.good)..p.top
    BY Zenon DEF TailRange, p
<1>4. Lowest(p.good) \in p.good
    BY <1>2, <1>3, LowestFacts, Zenon
<1>5. Lowest(p.good) \in p.items /\ Lowest(p.good) > p.known /\ Lowest(p.good) \in Nat
    BY <1>2, <1>4, SMTT(40)
<1>6. m \in Nat /\ m >= 1
    BY MessageSets, SMTT(40) DEF Seqs
<1>7. m \in 1..p.top /\ m >= Lowest(p.good) /\ m > p.known
    BY <1>2, <1>3, <1>5, <1>6, SMTT(40)
<1> QED
    BY <1>2, <1>5, <1>6, <1>7, SMTT(40) DEF UpClosed

\* The three ranges a page may prove hold only stored messages.
LEMMA ProveKeepsCover == ASSUME Numbers, CoverInv, NEW t \in Pulls, ProvePage(t) PROVE CoverInv'
<1> DEFINE p == pull[t]
           range == (p.known + 1..Safe(p)) \cup (IF p.mode = "before" THEN BackfillRange(p)
                                               ELSE IF Tail(t) THEN TailRange(t) ELSE {})
           r == [p EXCEPT !.pc = "save"]
<1>1. /\ pull \in [Pulls -> PullRec] /\ p \in PullRec /\ PullFacts(p, Stored)
      /\ cursor \in 0..N /\ rows \subseteq Messages
    BY DEF CoverInv, CoverShape
<1>2. /\ p.pc = "prove" /\ Prove(range) /\ (Ends(t, TRUE) \/ Pull(t, r))
      /\ UNCHANGED <<head, rows, cursor, floor, applied, queue, saver, clear, lazy>>
    BY Zenon DEF ProvePage, server, memory, inbox
<1>3. Messages \cap range \subseteq Stored
    <2>1. Messages \cap (p.known + 1..Safe(p)) \subseteq Stored
        BY <1>1, <1>2, SafeFacts
    <2>2. p.mode = "before" => Messages \cap BackfillRange(p) \subseteq Stored
        BY <1>1, <1>2, BackfillIsStored
    <2>3. Tail(t) => Messages \cap TailRange(t) \subseteq Stored
        BY <1>1, <1>2, TailIsStored
    <2> QED
        BY <2>1, <2>2, <2>3
<1>4. Stored' = Stored /\ Kept' = Kept
    BY <1>2 DEF Stored, Kept
<1>5. /\ r \in PullRec /\ r.pc = "save"
      /\ r.mode = p.mode /\ r.from = p.from /\ r.last = p.last /\ r.items = p.items
      /\ r.top = p.top /\ r.known = p.known /\ r.good = p.good
    <2> HIDE DEF p
    <2> QED
        BY <1>1, PullTo, SMTT(40) DEF PullPcs
<1> HIDE DEF p, range, r
<1>6. PullFacts(r, Stored)
    BY <1>1, <1>2, <1>5, ZenonT(40) DEF PullFacts
<1>7. covered' \subseteq covered \cup range
    BY <1>2 DEF Prove
<1>8. Messages \cap 1..cursor' \subseteq Kept' /\ Messages \cap covered' \subseteq Stored'
    BY <1>2, <1>3, <1>4, <1>7, SMTT(40) DEF CoverInv
<1>9. Ends(t, TRUE) => Settles
    BY <1>1, EndsSettles, ZenonT(40)
<1> QED
    BY <1>1, <1>2, <1>4, <1>5, <1>6, <1>8, <1>9, PullFrame, Zenon

\* The cursor after a page: a tail page leaves what it does not hold to backfill, any other one
\* moves the cursor only as far as rows and tombstones reach.
LEMMA SaveCursorKeepsCover == ASSUME Numbers, CoverInv, NEW t \in Pulls, SaveCursor(t) PROVE CoverInv'
<1> DEFINE p == pull[t]
           known == Larger(cursor, floor)
<1>1. /\ pull \in [Pulls -> PullRec] /\ p \in PullRec /\ PullFacts(p, Stored)
      /\ cursor \in 0..N /\ floor \in 0..N /\ rows \subseteq Messages
      /\ Messages \cap 1..cursor \subseteq Kept /\ Messages \cap covered \subseteq Stored
    BY SMTT(40) DEF CoverInv, CoverShape
<1>2. /\ p.pc = "save"
      /\ UNCHANGED <<head, rows, floor, applied, queue, saver, clear>>
    BY ZenonT(40) DEF SaveCursor, server, memory, inbox
<1>3. p.known \in 0..N /\ Safe(p) \in 0..N /\ Safe(p) \in p.known..N /\ p.top \in 0..N
    <2>1. p.known \in 0..N /\ Safe(p) \in p.known..N
        BY <1>1, <1>2, SafeFacts, SMTT(40)
    <2>2. p.top \in 0..N
        BY <1>1 DEF PullRec
    <2> QED
        BY <2>1, <2>2, SMTT(40)
<1>4. CASE Tail(t) /\ cursor' = Larger(cursor, p.top) /\ UNCHANGED covered
           /\ lazy' = lazy \cup (1..p.top \ (p.items \cap Messages)) /\ Proceeds(t, p.top, FALSE)
    <2>1. Settles
        BY <1>1, <1>3, <1>4, ProceedsSettles, ZenonT(40)
    <2>2. Safe(p) = 0
        BY <1>4 DEF Tail
    <2>3. p.known = 0
        BY <1>3, <2>2
    <2>4. \A m \in Messages : m > 0
        BY SyncAssumption, SMTT(40) DEF Messages, Seqs
    <2>5. p.items \cap Messages \subseteq Stored
        <3>1. {m \in p.items \cap Messages : m > p.known} \subseteq Stored
            BY <1>1, <1>2, ZenonT(40) DEF PullFacts
        <3> HIDE DEF p
        <3> QED
            BY <2>3, <2>4, <3>1, SMTT(40)
    <2>6. Stored' = Stored /\ Kept \subseteq Kept' /\ Stored \subseteq Kept'
        BY <1>2, <1>4, SMTT(40) DEF Stored, Kept
    <2> HIDE DEF p
    <2>7. Messages \cap 1..p.top \subseteq Kept'
        <3> SUFFICES ASSUME NEW m \in Messages, m \in 1..p.top PROVE m \in Kept'
            OBVIOUS
        <3>1. CASE m \in p.items
            BY <2>5, <2>6, <3>1
        <3>2. CASE m \notin p.items
            <4>1. m \in lazy'
                BY <1>4, <3>2, SMTT(40)
            <4> QED
                BY <4>1, SMTT(40) DEF Kept
        <3> QED
            BY <3>1, <3>2
    <2>8. cursor' = cursor \/ cursor' = p.top
        BY <1>4 DEF Larger
    <2>9. cursor' \in 0..N /\ Messages \cap 1..cursor' \subseteq Kept'
        BY <1>1, <1>3, <2>6, <2>7, <2>8, ZenonT(40)
    <2>10. lazy \subseteq lazy' /\ Messages \cap covered' \subseteq Stored'
        BY <1>1, <1>4, <2>6, Zenon
    <2> QED
        BY <1>1, <1>2, <2>1, <2>9, <2>10, PullFrame, SMTT(40)
<1>5. CASE ~Tail(t) /\ SavePage(p) /\ UNCHANGED lazy /\ Proceeds(t, Safe(p), p.top > Safe(p))
    <2>1. Settles
        BY <1>1, <1>3, <1>5, ProceedsSettles, Zenon
    <2>2. Stored' = Stored /\ Kept' = Kept
        BY <1>2, <1>5, Zenon DEF Stored, Kept
    <2>3. CASE UNCHANGED <<cursor, covered>>
        BY <1>1, <1>2, <1>5, <2>1, <2>2, <2>3, PullFrame, ZenonT(40)
    <2>4. CASE cursor' = Materialized(p) /\ Prove(known + 1..Materialized(p)) /\ Moves(p)
        <3> DEFINE held == {m \in Visible : m <= Safe(p)} \cup (p.items \cap Absent \cap p.good)
                   run == Contiguous(known, held)
        <3>1. known \in 0..N
            BY <1>1 DEF Larger
        <3>2. held \subseteq rows \cup Absent
            BY DEF Visible
        <3> HIDE DEF known, held
        <3>3. N + 1 \notin held
            BY <1>1, <3>2, MessageSets
        <3>4. run \in known..N /\ known + 1..run \subseteq held
            BY <3>1, <3>3, ContiguousFacts, SMTT(40)
        <3> HIDE DEF run
        <3>5. Materialized(p) = Smaller(run, Safe(p)) /\ Materialized(p) > known
            <4>1. Materialized(p) = Smaller(run, Safe(p))
                BY Zenon DEF Materialized, run, held, known
            <4>2. Materialized(p) > known
                BY <2>4, Zenon DEF Moves, known
            <4> QED BY <4>1, <4>2, Zenon
        <3>6. Materialized(p) \in 0..N /\ Materialized(p) <= run
            BY <1>3, <3>1, <3>4, <3>5, MessageSets, SMTT(40) DEF Smaller
        <3> DEFINE top == Materialized(p)
        <3> HIDE DEF top
        <3>7. top \in 0..N /\ top <= run /\ cursor' = top /\ Prove(known + 1..top)
            BY <2>4, <3>6 DEF top
        <3>8. known + 1..top \subseteq held
            BY <3>1, <3>4, <3>7, MessageSets, SMTT(40)
        <3>9. Messages \cap (known + 1..top) \subseteq Stored
            BY <3>2, <3>8, MessageSets DEF Stored
        <3>10. \A m \in Messages : m <= floor => m \in Stored
            BY DEF Stored
        <3>11. Stored \subseteq Kept
            BY DEF Stored, Kept
        <3>12. Messages \cap 1..cursor' \subseteq Kept'
            <4> SUFFICES ASSUME NEW m \in Messages, m \in 1..top PROVE m \in Kept
                BY <2>2, <3>7, SMTT(40)
            <4>1. m \in 1..cursor \/ m <= floor \/ m \in known + 1..top
                BY <1>1, <3>7 DEF known, Larger
            <4> QED
                BY <1>1, <3>9, <3>10, <3>11, <4>1, SMTT(40)
        <3>13. covered' \subseteq covered \cup (known + 1..top)
            BY <3>7 DEF Prove
        <3>14. Messages \cap covered' \subseteq Stored'
            BY <1>1, <2>2, <3>9, <3>13, ZenonT(40)
        <3> QED
            BY <1>1, <1>2, <1>5, <2>1, <3>7, <3>12, <3>14, PullFrame, ZenonT(40)
    <2> QED
        BY <1>5, <2>3, <2>4, Zenon DEF SavePage
<1>6. CASE UNCHANGED <<cursor, covered, lazy>> /\ Ends(t, FALSE)
    <2>1. Settles
        BY <1>1, <1>6, EndsSettles, Zenon
    <2>2. Stored' = Stored /\ Kept' = Kept
        BY <1>2, <1>6 DEF Stored, Kept
    <2> QED
        BY <1>1, <1>2, <1>6, <2>1, <2>2, PullFrame, SMTT(40)
<1> QED
    BY <1>4, <1>5, <1>6, Zenon DEF SaveCursor

\* A snapshot stores the newest messages.
LEMMA SnapshotKeepsCover == ASSUME Numbers, CoverInv, NEW t \in Pulls, StoreSnapshot(t) PROVE CoverInv'
<1> DEFINE p == pull[t]
           newest == Newest(Messages \cap 1..head, Page)
           new == Fresh(newest, 0)
           r == [p EXCEPT !.pc = "adopt", !.items = newest, !.top = head]
<1>1. /\ pull \in [Pulls -> PullRec] /\ p \in PullRec /\ head \in 0..N
      /\ cursor \in 0..N /\ floor \in 0..N /\ rows \subseteq Messages
    BY DEF CoverInv, CoverShape
<1>2. /\ rows \subseteq rows' /\ rows' \subseteq rows \cup new
      /\ (rows' = rows \cup new /\ Pull(t, r)) \/ Ends(t, FALSE)
      /\ UNCHANGED <<head, cursor, floor, covered, applied, queue, saver, clear, lazy>>
    BY Zenon DEF StoreSnapshot, server, marks, memory, inbox
<1>3. UpClosed(newest, Messages \cap 1..head) /\ newest \subseteq Messages
    <2>1. Messages \cap 1..head \in SUBSET Seqs
        BY MessageSets
    <2> QED
        BY <2>1, NewestFacts, Zenon DEF UpClosed
<1>4. new \subseteq Messages
    BY DEF Fresh
<1>5. rows' = rows \cup new => newest \subseteq Stored'
    <2> SUFFICES ASSUME rows' = rows \cup new, NEW m \in newest PROVE m \in Stored'
        <3> HIDE DEF newest, new
        <3> QED
            OBVIOUS
    <2>1. m \in Messages
        BY <1>3, SMTT(40)
    <2>2. m \in Nat /\ floor \in Nat /\ m > 0
        BY <1>1, <2>1, SyncAssumption, SMTT(40) DEF Messages, Seqs
    <2> HIDE DEF newest
    <2>3. m > floor => m \in new
        BY <2>1, <2>2 DEF Fresh
    <2> HIDE DEF new
    <2> QED
        BY <1>2, <2>1, <2>2, <2>3, SMTT(40) DEF Stored
<1> HIDE DEF p, newest, new
<1>6. newest \in SUBSET Seqs
    BY <1>3, MessageSets
<1>7. r \in PullRec /\ r.pc = "adopt" /\ r.items = newest /\ r.top = head
    BY <1>1, <1>6, Zenon DEF PullRec, PullPcs
<1> HIDE DEF r
<1>8. rows' = rows \cup new => PullFacts(r, Stored')
    BY <1>3, <1>5, <1>7, SMTT(40) DEF PullFacts
<1>9. Stored \subseteq Stored' /\ Kept \subseteq Kept'
    BY <1>2, RowsGrow, SMTT(40)
<1>10. Messages \cap 1..cursor' \subseteq Kept' /\ Messages \cap covered' \subseteq Stored'
    BY <1>2, <1>9 DEF CoverInv
<1>11. Ends(t, FALSE) => Settles
    BY <1>1, EndsSettles, ZenonT(40)
<1>12. rows' \subseteq Messages
    BY <1>1, <1>2, <1>4, SMTT(40)
<1> QED
    BY <1>1, <1>2, <1>7, <1>8, <1>10, <1>11, <1>12, PullFrame, Zenon

\* What lies between the oldest and the newest message of a snapshot is on it.
LEMMA AdoptKeepsCover == ASSUME Numbers, CoverInv, NEW t \in Pulls, Adopt(t) PROVE CoverInv'
<1> DEFINE p == pull[t]
           range == IF p.items = {} THEN {} ELSE Lowest(p.items)..Highest(p.items)
<1>1. /\ pull \in [Pulls -> PullRec] /\ p \in PullRec /\ PullFacts(p, Stored)
      /\ cursor \in 0..N /\ rows \subseteq Messages
      /\ Messages \cap 1..cursor \subseteq Kept /\ Messages \cap covered \subseteq Stored
    BY SMTT(40) DEF CoverInv, CoverShape
<1>2. /\ p.pc = "adopt" /\ Prove(range)
      /\ \/ /\ cursor' = Larger(cursor, p.top) /\ lazy' = lazy \cup (1..p.top \ p.items)
            /\ Proceeds(t, p.top, FALSE)
         \/ UNCHANGED <<cursor, lazy>> /\ Ends(t, FALSE)
      /\ UNCHANGED <<head, rows, floor, applied, queue, saver, clear>>
    BY ZenonT(40) DEF Adopt, server, memory, inbox
<1>3. /\ UpClosed(p.items, Messages \cap 1..p.top) /\ p.items \subseteq Stored
      /\ p.top \in 0..N /\ p.items \subseteq Seqs
    BY <1>1, <1>2, SMTT(40) DEF PullFacts, PullRec
<1> HIDE DEF p
<1>4. Messages \cap range \subseteq Stored
    <2> SUFFICES ASSUME NEW m \in Messages, m \in range PROVE m \in p.items
        BY <1>3, SMTT(40)
    <2>1. p.items # {} /\ m \in Lowest(p.items)..Highest(p.items)
        OBVIOUS
    <2>2. p.items \in SUBSET Nat /\ p.items \in SUBSET (0..N)
        BY <1>3, MessageSets, ZenonT(40)
    <2>3. Lowest(p.items) \in p.items /\ Highest(p.items) \in p.items
        BY <2>1, <2>2, LowestFacts, HighestFacts, SMTT(40)
    <2>4. m \in Nat /\ m > 0 /\ p.top \in Nat
        BY <1>3, SyncAssumption, SMTT(40) DEF Messages, Seqs
    <2>5. Highest(p.items) \in Nat /\ Lowest(p.items) \in Nat /\ Highest(p.items) <= p.top
        BY <1>3, <2>2, <2>3, SMTT(40) DEF UpClosed
    <2>6. m \in Messages \cap 1..p.top /\ m >= Lowest(p.items)
        BY <2>1, <2>4, <2>5, SMTT(40)
    <2>7. m = Lowest(p.items) \/ m > Lowest(p.items)
        BY <2>4, <2>5, <2>6, SMTT(40)
    <2> QED
        BY <1>3, <2>3, <2>6, <2>7, ZenonT(40) DEF UpClosed
<1> HIDE DEF range
<1>5. /\ Stored' = Stored /\ Kept \subseteq Kept' /\ Stored \subseteq Kept' /\ lazy \subseteq lazy'
    BY <1>2, ZenonT(40) DEF Stored, Kept
<1>6. covered' \subseteq covered \cup range
    BY <1>2 DEF Prove
<1>7. Messages \cap covered' \subseteq Stored'
    BY <1>1, <1>4, <1>5, <1>6, SMTT(40)
<1>8. lazy' = lazy \cup (1..p.top \ p.items) => Messages \cap 1..p.top \subseteq Kept'
    <2> SUFFICES ASSUME lazy' = lazy \cup (1..p.top \ p.items), NEW m \in Messages, m \in 1..p.top
                 PROVE  m \in Kept'
        OBVIOUS
    <2>1. CASE m \in p.items
        BY <1>3, <1>5, <2>1, SMTT(40)
    <2>2. CASE m \notin p.items
        BY <2>2, Zenon DEF Kept
    <2> QED
        BY <2>1, <2>2, SMTT(40)
<1>9. cursor' \in 0..N /\ Messages \cap 1..cursor' \subseteq Kept'
    <2>1. cursor' = cursor \/ (cursor' = p.top /\ lazy' = lazy \cup (1..p.top \ p.items))
        BY <1>2, ZenonT(40) DEF Larger
    <2> QED
        BY <1>1, <1>3, <1>5, <1>8, <2>1, SMTT(40)
<1>10. Settles
    BY <1>1, <1>2, <1>3, EndsSettles, ProceedsSettles, Zenon
<1> QED
    BY <1>1, <1>2, <1>5, <1>7, <1>9, <1>10, PullFrame, Zenon

\* Every step of a pull keeps the invariant.
LEMMA PullsKeepCover == ASSUME Numbers, CoverInv, NEW t \in Pulls, Steps(t) \/ Fail(t) PROVE CoverInv'
<1>1. CASE Fail(t)
    <2>1. pull \in [Pulls -> PullRec]
        BY DEF CoverInv, CoverShape
    <2>2. Settles
        BY <1>1, <2>1, EndsSettles, ZenonT(40) DEF Fail
    <2> QED
        BY <1>1, <2>2, PullStill, ZenonT(40) DEF Fail, server, store, marks, memory, inbox
<1> QED
    BY <1>1, BeginKeepsCover, AnswerKeepsCover, ApplyKeepsCover, StoreKeepsCover, ProveKeepsCover,
       SaveCursorKeepsCover, SnapshotKeepsCover, AdoptKeepsCover, SMTT(40) DEF Steps

\* Clearing deletes rows only below the floor it sets, and marks as proven what lies below it.
LEMMA ClearKeepsCover ==
    ASSUME Numbers, CoverInv, "race" \notin env, ReadMark \/ DeleteRows \/ MarkCleared
    PROVE  CoverInv'
<1> DEFINE ClearRec == [on: BOOLEAN, deleted: BOOLEAN, mark: 0..N]
<1>1. /\ CoverShape /\ head \in 0..N /\ rows \subseteq Messages /\ cursor \in 0..N /\ floor \in 0..N
      /\ applied \subseteq Events /\ queue \subseteq Messages /\ clear \in ClearRec
      /\ Messages \cap 1..cursor \subseteq Kept /\ Messages \cap covered \subseteq Stored
      /\ clear.deleted => clear.mark <= floor
    BY SMTT(40) DEF CoverInv, CoverShape
<1>2. CASE ReadMark
    <2>1. UNCHANGED <<head, rows, floor, lazy, cursor, covered, applied, queue, saver, pull>>
        BY <1>2, ZenonT(40) DEF ReadMark, server, store, marks, memory, inbox
    <2>2. PICK mark \in Larger(floor, Larger(cursor, Highest(rows)))..head :
              clear' = [NoClear EXCEPT !.on = TRUE, !.mark = mark]
        BY <1>2, ZenonT(40) DEF ReadMark
    <2>3. Highest(rows) \in 0..N
        BY <1>1, HighestType, MessageSets
    <2>4. mark \in 0..N
        BY <1>1, <2>2, <2>3, MessageSets DEF Larger
    <2>5. clear' \in ClearRec /\ clear'.deleted = FALSE
        BY <2>2, <2>4, Zenon DEF NoClear
    <2> QED
        BY <1>1, <2>1, <2>5, CoverQuiet, SMTT(40)
<1>3. CASE DeleteRows
    <2>1. /\ UNCHANGED <<head, lazy, cursor, covered, applied, queue, saver, pull>>
          /\ rows \subseteq 1..clear.mark /\ rows' = {} /\ floor' = Larger(floor, clear.mark)
          /\ clear' = [clear EXCEPT !.deleted = TRUE]
        BY <1>3 DEF DeleteRows, server, memory, inbox
    <2>2. clear' \in ClearRec /\ clear'.mark = clear.mark /\ clear.mark \in 0..N
        BY <1>1, <2>1, ZenonT(40)
    <2>3. floor' \in 0..N /\ floor <= floor' /\ clear.mark <= floor'
        BY <1>1, <2>1, <2>2, SMTT(40) DEF Larger
    <2>4. \A m \in Messages : m \in rows \/ m <= floor => m <= floor'
        <3> SUFFICES ASSUME NEW m \in Messages, m \in rows \/ m <= floor PROVE m <= floor'
            BY SMTT(40)
        <3>1. m \in Nat /\ floor \in Nat /\ floor' \in Nat /\ clear.mark \in Nat
            BY <1>1, <2>2, <2>3, SyncAssumption, SMTT(40) DEF Messages, Seqs
        <3>2. m <= clear.mark \/ m <= floor
            BY <2>1
        <3> QED
            BY <2>3, <3>1, <3>2, SMTT(40)
    <2>5. Stored \subseteq Stored' /\ Kept \subseteq Kept'
        BY <2>1, <2>4 DEF Stored, Kept
    <2>6. CoverShape'
        BY <1>1, <2>1, <2>2, <2>3, SMTT(40) DEF CoverShape
    <2>7. Messages \cap 1..cursor' \subseteq Kept' /\ Messages \cap covered' \subseteq Stored'
        BY <1>1, <2>1, <2>5, SMTT(40)
    <2> QED
        BY <2>1, <2>2, <2>3, <2>5, <2>6, <2>7, CoverFrame, SMTT(40)
<1>4. CASE MarkCleared
    <2>1. /\ UNCHANGED <<head, rows, floor, lazy, applied, queue, saver, pull>>
          /\ clear.deleted /\ clear' = NoClear
          /\ covered' \subseteq covered \cup 1..clear.mark
          /\ cursor' = cursor \/ cursor' = clear.mark
        BY <1>4, SMTT(40) DEF MarkCleared, server, memory, inbox, Larger
    <2>2. clear.mark \in 0..N /\ clear.mark <= floor
        BY <1>1, <2>1, SMTT(40)
    <2>3. clear' \in ClearRec /\ clear'.deleted = FALSE
        BY <2>1, SyncAssumption, SMTT(40) DEF NoClear
    <2>4. Messages \cap 1..clear.mark \subseteq Stored
        <3> SUFFICES ASSUME NEW m \in Messages, m \in 1..clear.mark PROVE m <= floor
            BY DEF Stored
        <3> QED
            BY <1>1, <2>2
    <2>5. Stored' = Stored /\ Kept' = Kept /\ Stored \subseteq Kept
        BY <2>1, SMTT(40) DEF Stored, Kept
    <2>6. Messages \cap 1..cursor' \subseteq Kept' /\ Messages \cap covered' \subseteq Stored'
        BY <1>1, <2>1, <2>4, <2>5, Zenon
    <2>7. CoverShape'
        BY <1>1, <2>1, <2>2, <2>3, Zenon DEF CoverShape
    <2> QED
        BY <2>1, <2>3, <2>5, <2>6, <2>7, CoverFrame, ZenonT(40)
<1> QED
    BY <1>2, <1>3, <1>4, SMTT(40)

\* An empty store claims nothing.
LEMMA CoverInit == Init => CoverInv
<1> SUFFICES ASSUME Init PROVE CoverInv
    OBVIOUS
<1>1. /\ head = 0 /\ rows = {} /\ cursor = 0 /\ floor = 0 /\ covered = {} /\ applied = {}
      /\ queue = {} /\ saver = [a \in Savers |-> NoSave] /\ pull = [t \in Pulls |-> NoPull]
      /\ clear = NoClear
    BY Zenon DEF Init
<1>2. CoverShape
    BY <1>1, NoSaveFields, NoPullFields, SyncAssumption, SMTT(40) DEF CoverShape, NoClear
<1>3. \A a \in Savers : SaverFacts(saver[a], Stored, Kept)
    BY <1>1, NoSaveFields, QuietSaver, SMTT(40)
<1>4. \A t \in Pulls : PullFacts(pull[t], Stored)
    BY <1>1, NoPullFields, QuietPull, SMTT(40) DEF Quiet
<1>5. Messages \cap 1..cursor \subseteq Kept /\ Messages \cap covered \subseteq Stored
    BY <1>1, SMTT(40)
<1>6. clear.deleted => clear.mark <= floor
    BY <1>1, Zenon DEF NoClear
<1> QED
    BY <1>2, <1>3, <1>4, <1>5, <1>6, SMTT(40) DEF CoverInv

\* No step of the reader, the worker, a pull, the user or a restart breaks the invariant.
LEMMA CoverStep == ASSUME Numbers, CoverInv, "race" \notin env, [Next]_vars PROVE CoverInv'
<1>1. /\ CoverShape /\ head \in 0..N /\ applied \subseteq Events /\ queue \subseteq Messages
      /\ saver \in [Savers -> SaveRec] /\ pull \in [Pulls -> PullRec]
      /\ clear \in [on: BOOLEAN, deleted: BOOLEAN, mark: 0..N]
      /\ clear.deleted => clear.mark <= floor
    BY SMTT(40) DEF CoverInv, CoverShape
<1> USE DEF server, store, marks, memory, inbox
<1>2. ASSUME UNCHANGED <<rows, floor, lazy, cursor, covered, clear>>, head' \in 0..N,
             applied' \subseteq Events, queue' \subseteq Messages,
             Files \/ UNCHANGED saver, Settles \/ UNCHANGED pull
      PROVE  CoverInv'
    BY <1>1, <1>2, CoverQuiet, Zenon
<1>3. CASE Grow
    <2>1. head' \in 0..N
        BY <1>1, <1>3, SyncAssumption, SMTT(40) DEF Grow
    <2> QED
        BY <1>1, <1>2, <1>3, <2>1, Zenon DEF Grow
<1>4. CASE ReadPing
    BY <1>1, <1>2, <1>4, PingSettles, Zenon DEF ReadPing
<1>5. ASSUME NEW m \in Seqs, ReadPush(m) PROVE CoverInv'
    BY <1>1, <1>2, <1>5 DEF ReadPush
<1>6. ASSUME NEW m \in Seqs, ReadWire(m) PROVE CoverInv'
    <2> DEFINE r == [NoSave EXCEPT !.pc = "save", !.batch = {m}]
    <2>1. m \in Messages /\ Saver("reader", r) /\ "reader" \in Savers
        BY <1>6, SMTT(40) DEF ReadWire, Saver, Savers
    <2>2. r \in SaveRec /\ r.pc = "save"
        <3> DEFINE b == {m}
        <3>1. b \in SUBSET Messages /\ r = [NoSave EXCEPT !.pc = "save", !.batch = b]
            BY <2>1, SMTT(40)
        <3> HIDE DEF b, r
        <3> QED
            BY <3>1, SaveNew, Zenon
    <2> HIDE DEF r
    <2>3. Files
        BY <1>1, <2>1, <2>2, OneFiles, Zenon
    <2> QED
        BY <1>1, <1>2, <1>6, <2>3, SMTT(40) DEF ReadWire
<1>7. ASSUME NEW e \in Seqs, ReadEvent(e) PROVE CoverInv'
    <2>1. /\ UNCHANGED <<rows, floor, lazy, cursor, covered, clear, head, queue, saver>>
          /\ applied' \subseteq applied \cup {e} /\ e \in Events
          /\ UNCHANGED pull \/ Ping(e, applied')
        BY <1>7, SMTT(40) DEF ReadEvent
    <2>2. Settles \/ UNCHANGED pull
        BY <1>1, <2>1, PingSettles
    <2> QED
        BY <1>1, <1>2, <2>1, <2>2, SMTT(40)
<1>8. CASE ApplyEvent
    BY <1>1, <1>2, <1>8, Zenon DEF ApplyEvent
<1>9. CASE UndoEvent
    BY <1>1, <1>2, <1>9, SMTT(40) DEF UndoEvent, Rollback
<1>10. CASE WorkerTakes
    <2> DEFINE r == [NoSave EXCEPT !.pc = "save", !.batch = queue]
    <2>1. Saver("worker", r) /\ "worker" \in Savers
        BY <1>10, SMTT(40) DEF WorkerTakes, Savers
    <2>2. r \in SaveRec /\ r.pc = "save"
        BY <1>1, SaveNew, ZenonT(40)
    <2> HIDE DEF r
    <2>3. Files
        BY <1>1, <2>1, <2>2, OneFiles, SMTT(40)
    <2> QED
        BY <1>1, <1>2, <1>10, <2>3, SMTT(40) DEF WorkerTakes
<1>11. ASSUME NEW a \in Savers, Stores(a) PROVE CoverInv'
    BY <1>11, SaversKeepCover
<1>12. CASE BackoffEnds
    BY <1>1, <1>2, <1>12, SMTT(40) DEF BackoffEnds
<1>13. CASE HostPulls
    <2>1. "host" \in Pulls
        BY DEF Pulls
    <2>2. ASSUME Pull("host", [NoPull EXCEPT !.pc = "begin"]) PROVE Settles
        <3> DEFINE r == [NoPull EXCEPT !.pc = "begin"]
        <3>1. r \in PullRec /\ r.pc = "begin"
            BY NoPullFields, PullTo, SMTT(40) DEF PullPcs
        <3> HIDE DEF r
        <3> QED
            BY <1>1, <2>1, <2>2, <3>1, OneSettles, ZenonT(40) DEF r, Quiet
    <2>3. ASSUME NEW m \in {"after", "before"}, NEW s \in 0..N + 1, m = "after" => s <= N,
                 Pull("host", [NoPull EXCEPT !.pc = "ask", !.mode = m, !.from = s])
          PROVE  Settles
        <3> DEFINE r == [NoPull EXCEPT !.pc = "ask", !.mode = m, !.from = s]
        <3>1. r \in PullRec /\ r.pc = "ask"
            <4>1. 0 \in 0..N
                BY SyncAssumption
            <4> QED
                BY <2>3, <4>1, ZenonT(40) DEF NoPull, PullRec, PullPcs
        <3>2. Pull("host", r)
            BY <2>3
        <3> HIDE DEF r
        <3> QED
            BY <1>1, <2>1, <3>1, <3>2, OneSettles, SMTT(40) DEF Quiet
    <2>4. Settles
        <3>1. \A s \in 0..head : s \in 0..N + 1 /\ s <= N
            BY <1>1, MessageSets, SMTT(40)
        <3>2. \A s \in 1..head + 1 : s \in 0..N + 1
            BY <1>1, MessageSets
        <3> QED
            BY <1>13, <2>2, <2>3, <3>1, <3>2, Zenon DEF HostPulls
    <2> QED
        BY <1>1, <1>2, <1>13, <2>4, ZenonT(40) DEF HostPulls
<1>14. CASE PullAgain
    <2> DEFINE r == [NoPull EXCEPT !.pc = "begin"]
    <2>1. Pull("water", NoPull) \/ Pull("water", r)
        BY <1>14 DEF PullAgain
    <2>2. r \in PullRec /\ r.pc = "begin" /\ "water" \in Pulls
        BY NoPullFields, PullTo, SMTT(40) DEF PullPcs, Pulls
    <2> HIDE DEF r
    <2>3. Settles
        BY <1>1, <2>1, <2>2, NoPullFields, OneSettles, SMTT(40) DEF Quiet
    <2> QED
        BY <1>1, <1>2, <1>14, <2>3, SMTT(40) DEF PullAgain
<1>15. ASSUME NEW t \in Pulls, Steps(t) \/ Fail(t) PROVE CoverInv'
    BY <1>15, PullsKeepCover
<1>16. CASE ReadMark \/ DeleteRows \/ MarkCleared
    BY <1>16, ClearKeepsCover, Zenon
<1>17. CASE Crash
    <2>1. /\ UNCHANGED <<head, rows, floor, lazy, cursor, covered>> /\ applied' = {} /\ queue' = {}
          /\ saver' = [a \in Savers |-> NoSave] /\ pull' = [t \in Pulls |-> NoPull]
          /\ clear' = NoClear
        BY <1>17, Zenon DEF Crash
    <2>2. Files /\ Settles
        BY <2>1, NoSaveFields, NoPullFields, Zenon DEF Files, Settles, Quiet
    <2>3. clear' \in [on: BOOLEAN, deleted: BOOLEAN, mark: 0..N] /\ clear'.deleted = FALSE
        BY <2>1, SyncAssumption, SMTT(40) DEF NoClear
    <2> QED
        BY <1>1, <2>1, <2>2, <2>3, CoverQuiet, ZenonT(40)
<1>18. CASE UNCHANGED vars
    BY <1>1, <1>2, <1>18, SMTT(40) DEF vars
<1> QED
    BY <1>3, <1>4, <1>5, <1>6, <1>7, <1>8, <1>9, <1>10, <1>11, <1>12, <1>13, <1>14, <1>15, <1>16,
       <1>17, <1>18, ZenonT(40) DEF Next

\* What the environment may do is fixed at the start.
LEMMA EnvStays == [Next]_vars => env' = env
<1> SUFFICES ASSUME [Next]_vars PROVE env' = env
    BY SMTT(40)
<1> USE DEF server
<1>1. CASE \/ Grow \/ ReadPing \/ ApplyEvent \/ UndoEvent \/ WorkerTakes \/ BackoffEnds
           \/ HostPulls \/ PullAgain \/ ReadMark \/ DeleteRows \/ MarkCleared \/ Crash
    BY <1>1, Zenon DEF Grow, ReadPing, ApplyEvent, UndoEvent, WorkerTakes, BackoffEnds, HostPulls,
                PullAgain, ReadMark, DeleteRows, MarkCleared, Crash
<1>2. ASSUME NEW s \in Seqs, ReadPush(s) \/ ReadWire(s) \/ ReadEvent(s) PROVE env' = env
    BY <1>2 DEF ReadPush, ReadWire, ReadEvent
<1>3. ASSUME NEW a \in Savers, Stores(a) PROVE env' = env
    BY <1>3, SMTT(40) DEF Stores, SaveBatch, ReadCursor, ReadWindow, Advance
<1>4. ASSUME NEW t \in Pulls, Steps(t) \/ Fail(t) PROVE env' = env
    BY <1>4, ZenonT(40) DEF Steps, Fail, Begin, Answer, ApplyEvents, StorePage, ProvePage,
                            SaveCursor, StoreSnapshot, Adopt
<1>5. CASE UNCHANGED vars
    BY <1>5 DEF vars
<1> QED
    BY <1>1, <1>2, <1>3, <1>4, <1>5, SMTT(40) DEF Next

\* The invariant, where no message is stored while the history is being cleared.
RacelessCover == "race" \notin env => CoverInv

INSTANCE FiniteSetTheorems

\* What the lemmas above assume of numbers and of finite sets.
LEMMA NumbersHold == Numbers
<1>1. ASSUME NEW S \in SUBSET Nat, S # {} PROVE \E s \in S : \A t \in S : s <= t
    <2> DEFINE R == OpToRel(<, Nat)
    <2>1. IsWellFoundedOn(R, Nat)
        BY NatLessThanWellFounded, Zenon
    <2> HIDE DEF R
    <2>2. PICK x \in S : \A y \in S : ~(<<y, x>> \in R)
        BY <1>1, <2>1, WFMin, Zenon
    <2>3. \A a, b \in Nat : b < a => <<b, a>> \in R
        BY DEF R, OpToRel
    <2>4. \A y \in S : x \in Nat /\ y \in Nat /\ ~(y < x)
        BY <2>2, <2>3, Zenon
    <2> QED
        BY <2>4
<1>2. ASSUME NEW S \in SUBSET (1..N)
      PROVE  Cardinality(S) \in Nat /\ \A T \in SUBSET S : Cardinality(T) <= Cardinality(S)
    <2>1. IsFiniteSet(1..N)
        BY SyncAssumption, FS_Interval
    <2>2. IsFiniteSet(S)
        BY <2>1, FS_Subset, Zenon
    <2> QED
        BY <2>2, FS_Subset, FS_CardinalityType, Zenon
<1> QED
    BY <1>1, <1>2, FS_EmptySet, Zenon DEF Numbers

\* The invariant is inductive.
LEMMA RacelessStep == RacelessCover /\ [Next]_vars => RacelessCover'
BY NumbersHold, CoverStep, EnvStays DEF RacelessCover

\* The sync cursor never passes a message that a later sync would then not ask for again: every
\* message at or below it is stored, was cleared, or was left to backfill by an adopted tail page or
\* snapshot (save_cursor_with_remote, repair_message_seq_after_persist, whatever runs in between).
\* A message stored between the two halves of a clear is the exception: SyncClearRace.cfg shows it.
THEOREM CursorHolds == Spec => []("race" \notin env => CursorCoversMessages)
<1>1. RacelessCover => ("race" \notin env => CursorCoversMessages)
    BY DEF RacelessCover, CoverInv, Kept, CursorCoversMessages
<1>2. Init => RacelessCover
    BY CoverInit, Zenon DEF RacelessCover
<1> QED
    BY <1>1, <1>2, RacelessStep, PTL DEF Spec

\* The ranges recorded as proven (record_coverage) hide no gap: paging back, which reads only the
\* local store inside a range, misses no message.
THEOREM CoverageHolds == Spec => []("race" \notin env => CoverageIsTrue)
<1>1. RacelessCover => ("race" \notin env => CoverageIsTrue)
    BY DEF RacelessCover, CoverInv, Stored, CoverageIsTrue
<1>2. Init => RacelessCover
    BY CoverInit DEF RacelessCover
<1> QED
    BY <1>1, <1>2, RacelessStep, PTL DEF Spec

=============================================================================
