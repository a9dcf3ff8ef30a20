------------------------------ MODULE HealthFlush ------------------------------
(***************************************************************************)
(* access/src/health/book.rs: how the health book reaches the disk.        *)
(* Results are recorded while a batch is written, batches fail, networks   *)
(* are evicted, and the process ends at any time.                          *)
(*                                                                         *)
(* Each network has two records, the health of its access points and its   *)
(* UDP memory.  A record's value is the number of the change that wrote it *)
(* last, which is also its touched_ms; 0 is no record.  The retention of   *)
(* 30 days is left out.                                                    *)
(***************************************************************************)
EXTENDS Naturals, FiniteSets, Sequences

CONSTANTS
    Networks,       \* network fingerprints
    ScanOrder,      \* the order in which the store lists them (by their hash)
    MaxNetworks,    \* networks the book holds (32 in the code)
    FlushInterval,  \* FLUSH_INTERVAL_MS, in ticks
    MaxChanges      \* bound: results recorded

ASSUME FlushAssumption ==
    /\ ScanOrder \in Seq(Networks)
    /\ {ScanOrder[i] : i \in 1..Len(ScanOrder)} = Networks /\ Len(ScanOrder) = Cardinality(Networks)
    /\ MaxNetworks \in Nat \ {0} /\ FlushInterval \in Nat /\ MaxChanges \in Nat

VARIABLES
    records,    \* the book: network -> kind -> change number
    marked,     \* the records with their dirty mark set
    unsaved,    \* BookState.dirty
    due,        \* ticks until the next flush that is not forced
    writing,    \* batches the store has not answered
    stored,     \* the store: network -> kind -> change number
    changes     \* changes so far

flushVars == <<records, marked, unsaved, due, writing, stored, changes>>

Kinds == {"ap", "udp"}
Nothing == [k \in Kinds |-> 0]

FlushInit ==
    /\ records = [n \in Networks |-> Nothing] /\ stored = records
    /\ marked = {} /\ unsaved = FALSE /\ due = 0 /\ writing = {} /\ changes = 0

-----------------------------------------------------------------------------
Held(book) == {n \in Networks : book[n] # Nothing}
Touched(book, n) == IF book[n]["ap"] > book[n]["udp"] THEN book[n]["ap"] ELSE book[n]["udp"]
Oldest(book) == CHOOSE n \in Held(book) : \A m \in Held(book) : Touched(book, n) <= Touched(book, m)

\* net_mut: room for a network the book does not hold
Room(book, n) ==
    IF n \notin Held(book) /\ Cardinality(Held(book)) >= MaxNetworks
    THEN [book EXCEPT ![Oldest(book)] = Nothing]
    ELSE book

Put(book, n, kinds, value) ==
    [Room(book, n) EXCEPT ![n] = [k \in Kinds |-> IF k \in kinds THEN value ELSE @[k]]]

Present(book, pairs) == {p \in pairs : book[p[1]][p[2]] # 0}

\* record changes both records of the network, note_quic_silence the UDP memory.
Change(n, kinds) ==
    /\ changes < MaxChanges
    /\ changes' = changes + 1
    /\ records' = Put(records, n, kinds, changes + 1)
    /\ marked' = Present(records', marked \cup ({n} \X kinds))
    /\ unsaved' = TRUE
    /\ UNCHANGED <<due, writing, stored>>

\* flush, up to the write: marked records are taken and their marks cleared.
Take ==
    /\ unsaved' = FALSE /\ due' = FlushInterval /\ marked' = {}
    /\ writing' = writing \cup {[p \in marked |-> records[p[1]][p[2]]]}
    /\ UNCHANGED <<records, stored, changes>>

\* Wrong: without the gate, two flushes write at once.
FlushUngated(force) == unsaved /\ (force \/ due = 0) /\ Take

\* The gate is held until the store has answered.
Flush(force) == writing = {} /\ unsaved /\ (force \/ due = 0) /\ Take

Written(batch) ==
    [n \in Networks |-> [k \in Kinds |-> IF <<n, k>> \in DOMAIN batch THEN batch[<<n, k>>]
                                         ELSE stored[n][k]]]

FlushStored(batch) ==
    /\ stored' = Written(batch)
    /\ writing' = writing \ {batch}
    /\ UNCHANGED <<records, marked, unsaved, due, changes>>

\* Wrong: the marks of a batch that was not written stay cleared.
FlushForgotten(batch) ==
    /\ writing' = writing \ {batch}
    /\ UNCHANGED <<records, marked, unsaved, due, stored, changes>>

\* The batch was not written: what is still held is marked again.
FlushFails(batch) ==
    /\ marked' = marked \cup Present(records, DOMAIN batch)
    /\ unsaved' = TRUE
    /\ writing' = writing \ {batch}
    /\ UNCHANGED <<records, due, stored, changes>>

FlushTick ==
    /\ due > 0 /\ due' = due - 1
    /\ UNCHANGED <<records, marked, unsaved, writing, stored, changes>>

\* The entries of the store in the order of a scan, the health of access points first.
Scanned(i) ==
    IF i <= Len(ScanOrder) THEN <<ScanOrder[i], "ap">> ELSE <<ScanOrder[i - Len(ScanOrder)], "udp">>

\* load: each record in turn makes room for its network.
LoadEntry(disk, book, p) ==
    IF disk[p[1]][p[2]] = 0 THEN book ELSE Put(book, p[1], {p[2]}, disk[p[1]][p[2]])

Load(disk) ==
    LET loaded[i \in 0 .. 2 * Len(ScanOrder)] ==
            IF i = 0 THEN [n \in Networks |-> Nothing] ELSE LoadEntry(disk, loaded[i - 1], Scanned(i))
    IN  loaded[2 * Len(ScanOrder)]

\* The process ends, its last batch written or not, and starts again; a store
\* that cannot be read leaves the book empty.
Restart ==
    /\ \/ \E batch \in writing : stored' = Written(batch)
       \/ UNCHANGED stored
    /\ \/ records' = Load(stored') /\ due' = FlushInterval
       \/ records' = [n \in Networks |-> Nothing] /\ due' = 0
    /\ marked' = {} /\ unsaved' = FALSE /\ writing' = {}
    /\ UNCHANGED changes

FlushNext ==
    \/ \E n \in Networks : Change(n, Kinds) \/ Change(n, {"udp"})
    \/ \E force \in BOOLEAN : Flush(force)
    \/ \E batch \in writing : FlushStored(batch) \/ FlushFails(batch)
    \/ FlushTick \/ Restart

FlushSpec == FlushInit /\ [][FlushNext]_flushVars

-----------------------------------------------------------------------------
\* A record the book holds is on disk unless it is marked or being written, and
\* nothing is marked while the book says it has nothing to write: no result is
\* lost to a batch that fails, to results that arrive during a write, to a
\* second flush or to an eviction.  HealthBook::flush.
CleanIsOnDisk ==
    /\ \A p \in Present(records, Networks \X Kinds) :
          p \notin marked /\ (\A batch \in writing : p \notin DOMAIN batch)
          => stored[p[1]][p[2]] = records[p[1]][p[2]]
    /\ ~unsaved => marked = {}

\* "beyond the limit the network unused for longest is evicted" (MAX_NETWORKS):
\* what is held was used after what the disk has and the book has not.
HoldsNewest ==
    \A n \in Held(records), m \in Networks :
        m \notin Held(records) /\ Touched(stored, m) > 0 /\ Cardinality(Held(records)) = MaxNetworks
        => Touched(stored, m) < Touched(records, n)
=============================================================================
