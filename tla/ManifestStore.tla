--------------------------- MODULE ManifestStore ---------------------------
(***************************************************************************)
(* The signed documents of the access layer (the access manifest and the   *)
(* key state): how one that has been verified reaches the store            *)
(* (ManifestStore::commit) and the memory of the process (AccessKernel),   *)
(* how both are rebuilt at start-up, and what a bootstrap source is asked  *)
(* for (the ETag of the source book).                                      *)
(*                                                                         *)
(* A document is its serial.  Two actors bring documents in: the refresh   *)
(* round, which ingests one answer at a time, and the import of a recovery *)
(* link.  The store may fail a read or a write, the process may die        *)
(* anywhere, one of the two stored keys may become unreadable, and the     *)
(* verification of a stored document may fail at start-up (its key was     *)
(* revoked or its certificate expired).                                    *)
(*                                                                         *)
(* Of the bootstrap sources one is followed, with its entry of the book;   *)
(* the others answer with anything.                                        *)
(***************************************************************************)
EXTENDS Integers

CONSTANTS
  Docs,        \* the document types in play, a subset of {"access", "keys"}
  MaxSerial,   \* bound: the serials that are ever published
  Seed         \* the serial of the manifest built into the application

ASSUME StoreAssumption ==
  /\ Docs \subseteq {"access", "keys"}
  /\ MaxSerial \in Nat \ {0}
  /\ Seed \in 0 .. MaxSerial

VARIABLES
  up,         \* the kernel is assembled
  lkg,        \* the store: the record and the highest serial of a document, 0 absent
  cache,      \* max_cache: the highest serial as it was read, or Unread
  gate,       \* who holds the commit gate, or "free"
  held,       \* the serials in memory: the directory's and the key state's
  refused,    \* the stored serial this process could not use, 0 none
  jobs,       \* where an actor is with the document it accepts
  run,        \* the refresh round
  book,       \* the followed source: an ETag, as the serial of the document it
              \* belongs to, and the serial the book files it under
  savedBook   \* the stored book

storeVars == <<up, lkg, cache, gate, held, refused, jobs, run, book, savedBook>>

Actors == {"round", "import"}
Serials == 1 .. MaxSerial
Unread == -1
NoJob == [stage |-> "none", doc |-> "access", serial |-> 0]
NoTags == [d \in Docs |-> 0]
\* stage: "idle", "open" (waiting for answers), "keys" and "access" (ingesting
\* that part of an answer); the followed source is asked once, with tags
NoRun == [stage |-> "idle", seen |-> NoTags, asked |-> "no", tags |-> NoTags, followed |-> FALSE]
NoBook == [d \in Docs |-> [tag |-> 0, serial |-> 0]]

StoreInit ==
  /\ up = FALSE
  /\ lkg = [d \in Docs |-> [current |-> 0, max |-> 0]]
  /\ cache = [d \in Docs |-> Unread]
  /\ gate = "free"
  /\ held = [d \in Docs |-> 0]
  /\ refused = [d \in Docs |-> 0]
  /\ jobs = [a \in Actors |-> NoJob]
  /\ run = NoRun
  /\ book = NoBook
  /\ savedBook = NoBook

-----------------------------------------------------------------------------
(* The store                                                                *)

\* The highest serial ever accepted: the serial key, or the record when that
\* key is unreadable
Accepted(l) == IF l.max # 0 THEN l.max ELSE l.current

\* max_serial
Known(d) == IF cache[d] = Unread THEN Accepted(lkg[d]) ELSE cache[d]

\* The store operations of a commit, applied as one: the record and its serial
Stored(l, d, serial) == [l EXCEPT ![d] = [current |-> serial, max |-> serial]]

\* Wrong: the commits do not wait for each other
LockUngated(a) ==
  LET d == jobs[a].doc  s == jobs[a].serial IN
  /\ jobs[a].stage = "commit"
  /\ s >= Known(d)
  /\ cache' = [cache EXCEPT ![d] = Known(d)]
  /\ jobs' = [jobs EXCEPT ![a].stage = "write"]
  /\ UNCHANGED <<up, lkg, gate, held, refused, run, book, savedBook>>

\* commit takes the gate and reads: a serial below the highest one is refused,
\* the document that is already stored needs no write
Lock(a) ==
  LET d == jobs[a].doc  s == jobs[a].serial IN
  /\ jobs[a].stage = "commit"
  /\ gate = "free"
  /\ s >= Known(d)
  /\ cache' = [cache EXCEPT ![d] = Known(d)]
  /\ IF s = Known(d) /\ lkg[d].current = s
       THEN /\ jobs' = [jobs EXCEPT ![a].stage = "install"]
            /\ UNCHANGED gate
       ELSE /\ jobs' = [jobs EXCEPT ![a].stage = "write"]
            /\ gate' = a
  /\ UNCHANGED <<up, lkg, held, refused, run, book, savedBook>>

\* What follows the document of an actor: after the key state of an answer, the
\* round ingests the manifest of the same answer
After(a) ==
  run' = IF a = "round"
           THEN [run EXCEPT !.stage = IF @ = "keys" THEN "access" ELSE "open",
                            !.followed = @ /\ run.stage = "keys"]
           ELSE run

\* check_serial refuses the document: nothing is installed
Rollback(a) ==
  LET d == jobs[a].doc IN
  /\ jobs[a].stage = "commit"
  /\ gate = "free"
  /\ jobs[a].serial < Known(d)
  /\ cache' = [cache EXCEPT ![d] = Known(d)]
  /\ jobs' = [jobs EXCEPT ![a] = NoJob]
  /\ After(a)
  /\ UNCHANGED <<up, lkg, gate, held, refused, book, savedBook>>

\* A read fails, of the highest serial or of the record after it: the document
\* is used without having been stored
ReadFails(a) ==
  LET d == jobs[a].doc IN
  /\ jobs[a].stage = "commit"
  /\ gate = "free"
  /\ \E read \in BOOLEAN :
       /\ IF read THEN jobs[a].serial >= Known(d) ELSE cache[d] = Unread
       /\ cache' = IF read THEN [cache EXCEPT ![d] = Known(d)] ELSE cache
  /\ jobs' = [jobs EXCEPT ![a].stage = "install"]
  /\ UNCHANGED <<up, lkg, gate, held, refused, run, book, savedBook>>

\* The write succeeds and the gate is released
Write(a) ==
  LET d == jobs[a].doc  s == jobs[a].serial IN
  /\ jobs[a].stage = "write"
  /\ lkg' = Stored(lkg, d, s)
  /\ cache' = [cache EXCEPT ![d] = IF s > @ THEN s ELSE @]
  /\ gate' = "free"
  /\ jobs' = [jobs EXCEPT ![a].stage = "install"]
  /\ UNCHANGED <<up, held, refused, run, book, savedBook>>

\* The write fails: the document is used without having been stored
WriteFails(a) ==
  /\ jobs[a].stage = "write"
  /\ gate' = "free"
  /\ jobs' = [jobs EXCEPT ![a].stage = "install"]
  /\ UNCHANGED <<up, lkg, cache, held, refused, run, book, savedBook>>

-----------------------------------------------------------------------------
(* The memory                                                               *)

\* Wrong: the last document to arrive replaces the one in memory
Replaced(old, serial) == serial

\* replace_if_newer of the directory, with_keystate of the trust store
Newer(old, serial) == IF serial > old THEN serial ELSE old

\* The end of accept_manifest, accept_recovery and accept_keystate, and what the
\* round writes in the book: the ETag of the answer goes under the serial the
\* kernel reports, which is the directory's when the document changed nothing
Install(a) ==
  LET d == jobs[a].doc  s == jobs[a].serial  now == Newer(held[d], s) IN
  /\ jobs[a].stage = "install"
  /\ held' = [held EXCEPT ![d] = now]
  /\ book' = IF a = "round" /\ run.followed
               THEN [book EXCEPT ![d] = [tag |-> s, serial |-> IF d = "access" THEN now ELSE s]]
               ELSE book
  /\ jobs' = [jobs EXCEPT ![a] = NoJob]
  /\ After(a)
  /\ UNCHANGED <<up, lkg, cache, gate, refused, savedBook>>

\* AccessKernel::bootstrap.  The stored documents are verified again; the seed
\* replaces a manifest that is older or unusable, and is stored unless it is
\* older than what was accepted before.
Boot ==
  /\ ~up
  /\ up' = TRUE
  /\ book' = savedBook
  /\ \E bad \in SUBSET Docs, seed \in {0, Seed}, fails \in BOOLEAN :
       LET usable(d) == IF d \in bad THEN 0 ELSE lkg[d].current
           chosen == "access" \in Docs /\ seed > usable("access")
           top == Accepted(lkg["access"])
           writes == /\ chosen /\ ~fails
                     /\ seed > top \/ (seed = top /\ lkg["access"].current # seed)
       IN /\ refused' = [d \in Docs |-> IF d \in bad THEN lkg[d].current ELSE 0]
          /\ held' = [d \in Docs |-> IF d = "access" /\ chosen THEN seed ELSE usable(d)]
          /\ lkg' = IF writes THEN Stored(lkg, "access", seed) ELSE lkg
          /\ cache' = IF chosen THEN [cache EXCEPT !["access"] = IF writes THEN seed ELSE top]
                      ELSE cache
  /\ UNCHANGED <<gate, jobs, run, savedBook>>

\* import_recovery: a recovery link was verified
Import(serial) ==
  /\ up /\ "access" \in Docs
  /\ jobs["import"].stage = "none"
  /\ jobs' = [jobs EXCEPT !["import"] = [stage |-> "commit", doc |-> "access", serial |-> serial]]
  /\ UNCHANGED <<up, lkg, cache, gate, held, refused, run, book, savedBook>>

-----------------------------------------------------------------------------
(* The round                                                                *)

\* refresh: the round reads the serials in memory once
OpenRound ==
  /\ up
  /\ run.stage = "idle"
  /\ run' = [NoRun EXCEPT !.stage = "open", !.seen = held]
  /\ UNCHANGED <<up, lkg, cache, gate, held, refused, jobs, book, savedBook>>

\* Wrong: the ETag on file is sent whatever document is in memory
TagsUnchecked(seen) == [d \in Docs |-> book[d].tag]

\* access_etag and keys_etag: the ETag is sent only while the document it is
\* filed under is the one in memory
Tags(seen) == [d \in Docs |-> IF book[d].serial = seen[d] /\ seen[d] # 0 THEN book[d].tag ELSE 0]

\* The followed source is asked; one that has been demoted is asked without ETag
Ask ==
  /\ run.stage = "open"
  /\ run.asked = "no"
  /\ \E demoted \in BOOLEAN :
       run' = [run EXCEPT !.asked = "sent", !.tags = IF demoted THEN NoTags ELSE Tags(run.seen)]
  /\ UNCHANGED <<up, lkg, cache, gate, held, refused, jobs, book, savedBook>>

\* An answer arrives, of the followed source or of another one
Answer(followed) ==
  /\ run.stage = "open"
  /\ followed => run.asked = "sent"
  /\ run' = [run EXCEPT !.stage = "keys", !.followed = followed,
                        !.asked = IF followed THEN "answered" ELSE @]
  /\ UNCHANGED <<up, lkg, cache, gate, held, refused, jobs, book, savedBook>>

\* ingest_keys and ingest_access on an answer without a document to accept: the
\* fetch failed, the document was not verified, or the source answered 304
NoDocument ==
  /\ run.stage \in {"keys", "access"}
  /\ jobs["round"].stage = "none"
  /\ After("round")
  /\ UNCHANGED <<up, lkg, cache, gate, held, refused, jobs, book, savedBook>>

\* ingest_keys and ingest_document: a verified document is accepted; a source
\* that was asked with the ETag of this document would have answered 304
Ingest(serial) ==
  /\ run.stage \in Docs
  /\ jobs["round"].stage = "none"
  /\ run.followed => run.tags[run.stage] # serial
  /\ jobs' = [jobs EXCEPT !["round"] = [stage |-> "commit", doc |-> run.stage, serial |-> serial]]
  /\ UNCHANGED <<up, lkg, cache, gate, held, refused, run, book, savedBook>>

\* The end of the round: the book is stored; a failure goes unnoticed
CloseRound ==
  /\ run.stage = "open"
  /\ run' = NoRun
  /\ savedBook' \in {book, savedBook}
  /\ UNCHANGED <<up, lkg, cache, gate, held, refused, jobs, book>>

-----------------------------------------------------------------------------
(* The environment                                                          *)

\* The process dies: the store keeps what it has
Die ==
  /\ up
  /\ up' = FALSE
  /\ cache' = [d \in Docs |-> Unread]
  /\ gate' = "free"
  /\ held' = [d \in Docs |-> 0]
  /\ refused' = [d \in Docs |-> 0]
  /\ jobs' = [a \in Actors |-> NoJob]
  /\ run' = NoRun
  /\ book' = NoBook
  /\ UNCHANGED <<lkg, savedBook>>

\* One of the two keys of a document becomes unreadable
Damage(d) ==
  /\ ~up
  /\ lkg[d].current # 0 /\ lkg[d].max # 0
  /\ \E key \in {"current", "max"} : lkg' = [lkg EXCEPT ![d][key] = 0]
  /\ UNCHANGED <<up, cache, gate, held, refused, jobs, run, book, savedBook>>

StoreNext ==
  \/ \E a \in Actors :
       \/ Lock(a) \/ Rollback(a) \/ ReadFails(a) \/ Write(a) \/ WriteFails(a) \/ Install(a)
  \/ Boot
  \/ \E serial \in Serials : Import(serial) \/ Ingest(serial)
  \/ OpenRound \/ Ask \/ NoDocument \/ CloseRound
  \/ \E followed \in BOOLEAN : Answer(followed)
  \/ Die
  \/ \E d \in Docs : Damage(d)

StoreSpec == StoreInit /\ [][StoreNext]_storeVars

-----------------------------------------------------------------------------
(* Properties                                                               *)

\* The highest serial the store vouches for never goes back, with two documents
\* verified at the same time, failing reads and writes, deaths of the process
\* and one damaged key (manifests.rs: commit is serialised "or the disk would go
\* back").
StoredNeverGoesBack ==
  [][\A d \in Docs : Accepted(lkg'[d]) >= Accepted(lkg[d])]_storeVars

\* What is in memory is never older than the stored document, unless this
\* process could not use that document at start-up: of two documents accepted at
\* the same time the older one, installed last, does not replace the newer one.
MemoryIsNotBehind ==
  up => \A d \in Docs :
          \/ lkg[d].current <= held[d]
          \/ lkg[d].current = refused[d]
          \/ \E a \in Actors : jobs[a].stage = "install" /\ jobs[a].doc = d

\* A 304 never hides a document this process does not have: the ETag a source is
\* asked with belongs to a document that is not newer than the one in memory,
\* across failed writes, restarts and concurrent imports (sources.rs:20).
NotModifiedMissesNothing ==
  \A d \in Docs : run.tags[d] <= held[d]

\* An ETag is only sent for the document in memory (sources.rs:20, as the
\* comment says it).
EtagOfHeldDocument ==
  run.asked = "sent" => \A d \in Docs : run.tags[d] \in {0, run.seen[d]}
=============================================================================
