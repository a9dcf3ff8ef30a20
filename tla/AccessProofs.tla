----------------------------- MODULE AccessProofs -----------------------------
(***************************************************************************)
(* Proofs about the access crate.  For any set of documents, any number of *)
(* serials and any seed: the store never goes back, memory is not behind   *)
(* it, and a 304 hides nothing.  For any networks, any limit and any number *)
(* of results: what the health book holds is on disk, marked or being      *)
(* written.                                                                *)
(***************************************************************************)
EXTENDS ManifestStore, HealthFlush, TLAPS

-----------------------------------------------------------------------------
(* The manifest store                                                      *)

Job == [stage : {"none", "commit", "write", "install"},
        doc : {"access", "keys"}, serial : Nat]
Round == [stage : {"idle", "open", "keys", "access"}, seen : [Docs -> Nat],
          asked : {"no", "sent", "answered"}, tags : [Docs -> Nat], followed : BOOLEAN]

\* The values the variables take.
StoreTypeOK ==
  /\ up \in BOOLEAN
  /\ lkg \in [Docs -> [current : Nat, max : Nat]]
  /\ cache \in [Docs -> Nat \cup {Unread}]
  /\ gate \in Actors \cup {"free"}
  /\ held \in [Docs -> Nat]
  /\ refused \in [Docs -> Nat]
  /\ jobs \in [Actors -> Job]
  /\ run \in Round
  /\ book \in [Docs -> [tag : Nat, serial : Nat]]
  /\ savedBook \in [Docs -> [tag : Nat, serial : Nat]]

\* Nothing is in flight while the process is down.
DownIsEmpty ==
  ~up => /\ \A d \in Docs : cache[d] = Unread
         /\ jobs = [a \in Actors |-> NoJob]
         /\ run = NoRun

\* The two keys of a document agree while both are readable, and the cache holds
\* what the store vouches for.
StoreAgrees ==
  \A d \in Docs :
    /\ lkg[d].current # 0 /\ lkg[d].max # 0 => lkg[d].current = lkg[d].max
    /\ cache[d] # Unread => cache[d] = Accepted(lkg[d])

\* A document in flight is one of Docs; the one that is being written holds the
\* gate, and the store vouches for nothing newer.
WriteIsForward ==
  \A a \in Actors :
    /\ jobs[a].stage # "none" => jobs[a].doc \in Docs /\ jobs[a].serial > 0
    /\ jobs[a].stage = "write" =>
         /\ gate = a
         /\ cache[jobs[a].doc] # Unread
         /\ jobs[a].serial >= Accepted(lkg[jobs[a].doc])

\* A stored document that memory is behind of is about to be installed.
BehindIsInstalled ==
  up => \A d \in Docs :
          \/ lkg[d].current <= held[d]
          \/ lkg[d].current = refused[d]
          \/ \E a \in Actors : /\ jobs[a].stage = "install" /\ jobs[a].doc = d
                               /\ jobs[a].serial >= lkg[d].current

\* An ETag is filed under a serial that is not older than its document; a round
\* asks with the ETags of serials it saw in memory.
TagsAreSeen ==
  \A d \in Docs :
    /\ book[d].tag <= book[d].serial
    /\ savedBook[d].tag <= savedBook[d].serial
    /\ run.tags[d] <= run.seen[d]
    /\ run.seen[d] <= held[d]

\* The inductive invariant.
StoreInv ==
  /\ StoreTypeOK
  /\ DownIsEmpty
  /\ StoreAgrees
  /\ WriteIsForward
  /\ BehindIsInstalled
  /\ TagsAreSeen

USE DEF Unread, Actors, Serials

-----------------------------------------------------------------------------
(* What the helpers return                                                  *)

\* The store vouches for a number, and right after a commit for its serial.
LEMMA AcceptedFacts ==
  ASSUME NEW l \in [current : Nat, max : Nat]
  PROVE  /\ Accepted(l) \in Nat
         /\ l.current = l.max => Accepted(l) = l.current
         /\ (l.current # 0 /\ l.max # 0 => l.current = l.max) => l.current <= Accepted(l)
BY DEF Accepted

\* max_serial returns what the store vouches for, from the cache or from disk.
LEMMA KnownIsAccepted ==
  ASSUME StoreTypeOK, StoreAgrees, NEW d \in Docs
  PROVE  Known(d) = Accepted(lkg[d]) /\ Known(d) \in Nat
<1>1. lkg[d] \in [current : Nat, max : Nat]
  BY DEF StoreTypeOK
<1> QED
  BY <1>1, AcceptedFacts DEF StoreAgrees, Known

\* An answer is left behind without touching what the round saw or asked.
LEMMA AfterFacts ==
  ASSUME StoreTypeOK, NEW a \in Actors, After(a)
  PROVE  run' \in Round /\ run'.seen = run.seen /\ run'.tags = run.tags
BY Zenon DEF StoreTypeOK, Round, After

\* An actor moves on with its document.
LEMMA StageFacts ==
  ASSUME StoreTypeOK, NEW a \in Actors, NEW st \in {"write", "install"},
         jobs' = [jobs EXCEPT ![a].stage = st]
  PROVE  /\ jobs' \in [Actors -> Job]
         /\ jobs'[a].stage = st /\ jobs'[a].doc = jobs[a].doc /\ jobs'[a].serial = jobs[a].serial
         /\ \A b \in Actors : b # a => jobs'[b] = jobs[b]
<1>1. jobs[a] \in Job
  BY DEF StoreTypeOK
<1>2. [jobs[a] EXCEPT !.stage = st] \in Job
  BY <1>1 DEF Job
<1>3. jobs'[a] = [jobs[a] EXCEPT !.stage = st]
  BY DEF StoreTypeOK
<1> QED
  BY <1>1, <1>2, <1>3 DEF StoreTypeOK, Job

\* An actor is done with its document.
LEMMA DoneFacts ==
  ASSUME StoreTypeOK, NEW a \in Actors, jobs' = [jobs EXCEPT ![a] = NoJob]
  PROVE  /\ jobs' \in [Actors -> Job]
         /\ jobs'[a].stage = "none"
         /\ \A b \in Actors : b # a => jobs'[b] = jobs[b]
<1>1. NoJob \in Job /\ NoJob.stage = "none"
  BY DEF Job, NoJob
<1> QED
  BY <1>1 DEF StoreTypeOK

-----------------------------------------------------------------------------
(* Init                                                                     *)

\* A fresh installation.
LEMMA StoreInvInit == StoreInit => StoreInv
<1> SUFFICES ASSUME StoreInit PROVE StoreInv
  OBVIOUS
<1> USE DEF StoreInit
<1>1. StoreTypeOK
  <2>1. run \in Round
    BY DEF Round, NoRun, NoTags
  <2>2. jobs \in [Actors -> Job]
    BY DEF Job, NoJob
  <2> QED
    BY <2>1, <2>2, Zenon DEF StoreTypeOK, NoBook
<1>2. DownIsEmpty
  BY DEF DownIsEmpty
<1>3. StoreAgrees
  BY Zenon DEF StoreAgrees
<1>4. WriteIsForward
  BY DEF WriteIsForward, NoJob
<1>5. BehindIsInstalled
  BY Zenon DEF BehindIsInstalled
<1>6. TagsAreSeen
  <2>1. run.tags = [d \in Docs |-> 0] /\ run.seen = [d \in Docs |-> 0]
    BY DEF NoRun, NoTags
  <2>2. \A d \in Docs : book[d].tag = 0 /\ book[d].serial = 0
                       /\ savedBook[d].tag = 0 /\ savedBook[d].serial = 0
    BY Zenon DEF NoBook
  <2>3. \A d \in Docs : held[d] = 0 /\ run.tags[d] = 0 /\ run.seen[d] = 0
    BY <2>1, Zenon
  <2> SUFFICES ASSUME NEW d \in Docs
               PROVE  /\ book[d].tag <= book[d].serial
                      /\ savedBook[d].tag <= savedBook[d].serial
                      /\ run.tags[d] <= run.seen[d]
                      /\ run.seen[d] <= held[d]
    BY Zenon DEF TagsAreSeen
  <2> HIDE DEF StoreInit
  <2> QED
    BY <2>2, <2>3
<1> QED
  BY <1>1, <1>2, <1>3, <1>4, <1>5, <1>6 DEF StoreInv

-----------------------------------------------------------------------------
(* The steps                                                                *)

\* Lock: the gate is taken for a serial that is not below the accepted one, or
\* the document is the stored one.
LEMMA LockStep ==
  ASSUME StoreInv, NEW a \in Actors, Lock(a)
  PROVE  StoreInv' /\ lkg' = lkg
<1> USE DEF StoreInv
<1> DEFINE d == jobs[a].doc
<1> DEFINE s == jobs[a].serial
<1>1. d \in Docs /\ s \in Nat /\ s > 0
  BY DEF WriteIsForward, StoreTypeOK, Job, Lock
<1>2. Known(d) = Accepted(lkg[d]) /\ Known(d) \in Nat
  BY <1>1, KnownIsAccepted
<1>3. UNCHANGED <<up, lkg, held, refused, run, book, savedBook>>
  BY DEF Lock
<1>4. s >= Known(d) /\ cache' = [cache EXCEPT ![d] = Known(d)]
  BY DEF Lock
<1>5. \/ jobs' = [jobs EXCEPT ![a].stage = "install"] /\ gate' = gate
      \/ jobs' = [jobs EXCEPT ![a].stage = "write"] /\ gate' = a
  BY DEF Lock
<1>6. gate = "free" /\ jobs[a].stage = "commit"
  BY DEF Lock
<1>a. /\ jobs' \in [Actors -> Job]
      /\ jobs'[a].stage \in {"write", "install"} /\ jobs'[a].doc = d /\ jobs'[a].serial = s
      /\ \A b \in Actors : b # a => jobs'[b] = jobs[b]
      /\ jobs'[a].stage = "write" => gate' = a
  BY <1>5, StageFacts
<1>b. \A b \in Actors : jobs[b].stage # "write"
  BY <1>6 DEF WriteIsForward
<1>c. cache'[d] = Known(d) /\ cache' \in [Docs -> Nat \cup {Unread}]
      /\ \A e \in Docs : e # d => cache'[e] = cache[e]
  BY <1>1, <1>2, <1>4 DEF StoreTypeOK
<1> HIDE DEF d, s
<1>7. StoreTypeOK'
  BY <1>a, <1>c, <1>3, <1>5 DEF StoreTypeOK
<1>8. DownIsEmpty'
  <2>1. up
    BY <1>6 DEF DownIsEmpty, NoJob
  <2> QED
    BY <2>1, <1>3 DEF DownIsEmpty
<1>9. StoreAgrees'
  BY <1>1, <1>2, <1>3, <1>4 DEF StoreAgrees, StoreTypeOK
<1>10. WriteIsForward'
  BY <1>1, <1>2, <1>3, <1>4, <1>6, <1>a, <1>b, <1>c DEF WriteIsForward
<1>11. BehindIsInstalled'
  BY <1>3, <1>6, <1>a DEF BehindIsInstalled
<1>12. TagsAreSeen'
  BY <1>3 DEF TagsAreSeen
<1> QED
  BY <1>3, <1>7, <1>8, <1>9, <1>10, <1>11, <1>12

\* Rollback and ReadFails store nothing; the read may have filled the cache.
LEMMA RollbackStep ==
  ASSUME StoreInv, NEW a \in Actors, Rollback(a)
  PROVE  StoreInv' /\ lkg' = lkg
<1> USE DEF StoreInv
<1> DEFINE d == jobs[a].doc
<1>1. d \in Docs
  BY DEF WriteIsForward, StoreTypeOK, Job, Rollback
<1>2. Known(d) = Accepted(lkg[d]) /\ Known(d) \in Nat
  BY <1>1, KnownIsAccepted
<1>3. UNCHANGED <<up, lkg, gate, held, refused, book, savedBook>>
  BY DEF Rollback
<1>4. /\ cache' = [cache EXCEPT ![d] = Known(d)]
      /\ jobs' = [jobs EXCEPT ![a] = NoJob]
      /\ jobs[a].stage = "commit"
  BY DEF Rollback
<1>5. run' \in Round /\ run'.seen = run.seen /\ run'.tags = run.tags
  BY AfterFacts DEF Rollback
<1> HIDE DEF d
<1>6. StoreTypeOK'
  BY <1>1, <1>2, <1>3, <1>4, <1>5 DEF StoreTypeOK, Job, NoJob
<1>7. DownIsEmpty'
  <2>1. up
    BY <1>4 DEF DownIsEmpty, NoJob
  <2> QED
    BY <2>1, <1>3 DEF DownIsEmpty
<1>8. StoreAgrees'
  BY <1>1, <1>2, <1>3, <1>4 DEF StoreAgrees, StoreTypeOK
<1>9. WriteIsForward'
  BY <1>1, <1>2, <1>3, <1>4 DEF WriteIsForward, StoreTypeOK, Job, NoJob
<1>10. BehindIsInstalled'
  BY <1>3, <1>4 DEF BehindIsInstalled, StoreTypeOK, Job, NoJob
<1>11. TagsAreSeen'
  BY <1>3, <1>5 DEF TagsAreSeen
<1> QED
  BY <1>3, <1>6, <1>7, <1>8, <1>9, <1>10, <1>11

\* A failed read: the document goes to memory only.
LEMMA ReadFailsStep ==
  ASSUME StoreInv, NEW a \in Actors, ReadFails(a)
  PROVE  StoreInv' /\ lkg' = lkg
<1> USE DEF StoreInv
<1> DEFINE d == jobs[a].doc
<1>1. d \in Docs
  BY DEF WriteIsForward, StoreTypeOK, Job, ReadFails
<1>2. Known(d) = Accepted(lkg[d]) /\ Known(d) \in Nat
  BY <1>1, KnownIsAccepted
<1>3. UNCHANGED <<up, lkg, gate, held, refused, run, book, savedBook>>
  BY DEF ReadFails
<1>4. /\ cache' = cache \/ cache' = [cache EXCEPT ![d] = Known(d)]
      /\ jobs' = [jobs EXCEPT ![a].stage = "install"]
      /\ jobs[a].stage = "commit"
  BY DEF ReadFails
<1> HIDE DEF d
<1>a. /\ jobs' \in [Actors -> Job]
      /\ jobs'[a].stage = "install" /\ jobs'[a].doc = d /\ jobs'[a].serial = jobs[a].serial
      /\ \A b \in Actors : b # a => jobs'[b] = jobs[b]
  BY <1>4, StageFacts, Zenon DEF d
<1>5. StoreTypeOK'
  BY <1>a, <1>1, <1>2, <1>3, <1>4 DEF StoreTypeOK
<1>6. DownIsEmpty'
  <2>1. up
    BY <1>4 DEF DownIsEmpty, NoJob
  <2> QED
    BY <2>1, <1>3 DEF DownIsEmpty
<1>7. StoreAgrees'
  BY <1>1, <1>2, <1>3, <1>4 DEF StoreAgrees, StoreTypeOK
<1>8. WriteIsForward'
  BY <1>1, <1>2, <1>3, <1>4 DEF WriteIsForward, StoreTypeOK, Job
<1>9. BehindIsInstalled'
  BY <1>3, <1>4 DEF BehindIsInstalled, StoreTypeOK, Job
<1>10. TagsAreSeen'
  BY <1>3 DEF TagsAreSeen
<1> QED
  BY <1>3, <1>5, <1>6, <1>7, <1>8, <1>9, <1>10

\* Write: the one step of a running process that changes the store.
LEMMA WriteStep ==
  ASSUME StoreInv, NEW a \in Actors, Write(a)
  PROVE  StoreInv' /\ \A d \in Docs : Accepted(lkg'[d]) >= Accepted(lkg[d])
<1> USE DEF StoreInv
<1> DEFINE d == jobs[a].doc
<1> DEFINE s == jobs[a].serial
<1>1. /\ d \in Docs /\ s \in Nat /\ s > 0
      /\ gate = a /\ cache[d] # Unread /\ s >= Accepted(lkg[d])
  BY DEF WriteIsForward, StoreTypeOK, Job, Write
<1>2. cache[d] = Accepted(lkg[d]) /\ cache[d] \in Nat
  BY <1>1 DEF StoreAgrees, StoreTypeOK
<1>3. UNCHANGED <<up, held, refused, run, book, savedBook>>
  BY DEF Write
<1>4. /\ lkg' = [lkg EXCEPT ![d] = [current |-> s, max |-> s]]
      /\ gate' = "free"
      /\ jobs' = [jobs EXCEPT ![a].stage = "install"]
      /\ jobs[a].stage = "write"
  BY DEF Write, Stored
<1>5. cache' = [cache EXCEPT ![d] = s]
  <2>1. cache' = [cache EXCEPT ![d] = IF s > cache[d] THEN s ELSE cache[d]]
    BY DEF Write
  <2>2. s > cache[d] \/ s = cache[d]
    BY <1>1, <1>2
  <2> QED
    BY <2>1, <2>2, Zenon
<1>6. Accepted(lkg'[d]) = s /\ lkg'[d].current = s /\ lkg'[d].max = s
  BY <1>1, <1>4 DEF Accepted, StoreTypeOK
<1> HIDE DEF d, s
<1>7. StoreTypeOK'
  <2>1. lkg' \in [Docs -> [current : Nat, max : Nat]]
    <3>1. [current |-> s, max |-> s] \in [current : Nat, max : Nat]
      BY <1>1
    <3> QED BY <1>4, <3>1, Zenon DEF StoreTypeOK
  <2>2. cache' \in [Docs -> Nat \cup {Unread}]
    BY <1>1, <1>5, Zenon DEF StoreTypeOK
  <2>3. jobs' \in [Actors -> Job]
    BY <1>4, ZenonT(60) DEF StoreTypeOK, Job
  <2>4. gate' \in Actors \cup {"free"}
    BY <1>4
  <2> QED
    BY <1>3, <2>1, <2>2, <2>3, <2>4, Zenon DEF StoreTypeOK
<1>8. DownIsEmpty'
  <2>1. up
    BY <1>4 DEF DownIsEmpty, NoJob
  <2> QED
    BY <2>1, <1>3 DEF DownIsEmpty
<1>9. StoreAgrees'
  BY <1>1, <1>4, <1>5, <1>6 DEF StoreAgrees, StoreTypeOK
<1>10. WriteIsForward'
  <2>1. \A b \in Actors : b # a => jobs[b].stage # "write" /\ jobs'[b] = jobs[b]
    BY <1>1, <1>4 DEF WriteIsForward, StoreTypeOK
  <2>2. jobs'[a].stage = "install" /\ jobs'[a].doc = d /\ jobs'[a].serial = s
    BY <1>4 DEF StoreTypeOK, Job, d, s
  <2> QED
    BY <1>1, <2>1, <2>2 DEF WriteIsForward
<1>11. BehindIsInstalled'
  <2>1. jobs'[a].stage = "install" /\ jobs'[a].doc = d /\ jobs'[a].serial = s
    BY <1>4 DEF StoreTypeOK, Job, d, s
  <2>2. \A b \in Actors : jobs[b].stage = "install" => jobs'[b] = jobs[b]
    BY <1>4 DEF StoreTypeOK
  <2>3. \A e \in Docs : e # d => lkg'[e] = lkg[e]
    BY <1>4 DEF StoreTypeOK
  <2> QED
    BY <1>1, <1>3, <1>6, <2>1, <2>2, <2>3 DEF BehindIsInstalled
<1>12. TagsAreSeen'
  BY <1>3 DEF TagsAreSeen
<1>13. \A e \in Docs : Accepted(lkg'[e]) >= Accepted(lkg[e])
  <2> SUFFICES ASSUME NEW e \in Docs PROVE Accepted(lkg'[e]) >= Accepted(lkg[e])
    OBVIOUS
  <2>1. CASE e = d
    BY <1>1, <1>6, <2>1
  <2>2. CASE e # d
    <3>1. lkg'[e] = lkg[e] /\ lkg[e] \in [current : Nat, max : Nat]
      BY <1>4, <2>2 DEF StoreTypeOK
    <3> QED
      BY <3>1, AcceptedFacts
  <2> QED
    BY <2>1, <2>2
<1> QED
  BY <1>7, <1>8, <1>9, <1>10, <1>11, <1>12, <1>13

\* A failed write leaves the store and its cache as they were.
LEMMA WriteFailsStep ==
  ASSUME StoreInv, NEW a \in Actors, WriteFails(a)
  PROVE  StoreInv' /\ lkg' = lkg
<1> USE DEF StoreInv
<1>1. UNCHANGED <<up, lkg, cache, held, refused, run, book, savedBook>>
  BY DEF WriteFails
<1>2. /\ gate' = "free" /\ gate = a
      /\ jobs' = [jobs EXCEPT ![a].stage = "install"]
      /\ jobs[a].stage = "write"
  BY DEF WriteFails, WriteIsForward
<1>3. /\ jobs' \in [Actors -> Job]
      /\ jobs'[a].stage = "install" /\ jobs'[a].doc = jobs[a].doc
      /\ jobs'[a].serial = jobs[a].serial
      /\ \A b \in Actors : b # a => jobs'[b] = jobs[b]
  BY <1>2, StageFacts, Zenon
<1>4. StoreTypeOK'
  BY <1>1, <1>2, <1>3 DEF StoreTypeOK
<1>5. DownIsEmpty'
  <2>1. up
    BY <1>2 DEF DownIsEmpty, NoJob
  <2> QED
    BY <2>1, <1>1 DEF DownIsEmpty
<1>6. StoreAgrees'
  BY <1>1 DEF StoreAgrees
<1>7. WriteIsForward'
  BY <1>1, <1>2, <1>3 DEF WriteIsForward
<1>8. BehindIsInstalled'
  BY <1>1, <1>2, <1>3 DEF BehindIsInstalled
<1>9. TagsAreSeen'
  BY <1>1 DEF TagsAreSeen
<1> QED
  BY <1>1, <1>4, <1>5, <1>6, <1>7, <1>8, <1>9

\* Install: memory takes the newer document, the book the ETag of the answer.
LEMMA InstallStep ==
  ASSUME StoreInv, NEW a \in Actors, Install(a)
  PROVE  StoreInv' /\ lkg' = lkg
<1> USE DEF StoreInv
<1> DEFINE d == jobs[a].doc
<1> DEFINE s == jobs[a].serial
<1> DEFINE now == Newer(held[d], s)
<1>1. d \in Docs /\ s \in Nat /\ jobs[a].stage = "install"
  BY DEF WriteIsForward, StoreTypeOK, Job, Install
<1>2. now \in Nat /\ now >= held[d] /\ now >= s
  BY <1>1 DEF Newer, StoreTypeOK
<1>3. UNCHANGED <<up, lkg, cache, gate, refused, savedBook>>
  BY DEF Install
<1>4. /\ held' = [held EXCEPT ![d] = now]
      /\ jobs' = [jobs EXCEPT ![a] = NoJob]
  BY DEF Install
<1>5. \/ book' = book
      \/ book' = [book EXCEPT ![d] = [tag |-> s, serial |-> now]]
      \/ book' = [book EXCEPT ![d] = [tag |-> s, serial |-> s]]
  BY Zenon DEF Install
<1>6. run' \in Round /\ run'.seen = run.seen /\ run'.tags = run.tags
  BY AfterFacts DEF Install
<1>7. /\ jobs' \in [Actors -> Job]
      /\ jobs'[a].stage = "none"
      /\ \A b \in Actors : b # a => jobs'[b] = jobs[b]
  BY <1>4, DoneFacts, Zenon
<1> HIDE DEF d, s, now
<1>8. held' \in [Docs -> Nat] /\ held'[d] = now /\ \A e \in Docs : held'[e] >= held[e]
  BY <1>1, <1>2, <1>4 DEF StoreTypeOK
<1>9. /\ book' \in [Docs -> [tag : Nat, serial : Nat]]
      /\ \A e \in Docs : book'[e].tag <= book'[e].serial
  <2>1. book \in [Docs -> [tag : Nat, serial : Nat]] /\ \A e \in Docs : book[e].tag <= book[e].serial
    BY DEF StoreTypeOK, TagsAreSeen
  <2>2. ASSUME NEW n \in Nat, n >= s, book' = [book EXCEPT ![d] = [tag |-> s, serial |-> n]]
        PROVE  /\ book' \in [Docs -> [tag : Nat, serial : Nat]]
               /\ \A e \in Docs : book'[e].tag <= book'[e].serial
    <3>1. [tag |-> s, serial |-> n] \in [tag : Nat, serial : Nat]
      BY <1>1
    <3>2. book' \in [Docs -> [tag : Nat, serial : Nat]]
      BY <2>1, <2>2, <3>1, ZenonT(40)
    <3>3. \A e \in Docs : book'[e] = IF e = d THEN [tag |-> s, serial |-> n] ELSE book[e]
      BY <2>1, <2>2
    <3> QED
      BY <1>1, <2>1, <2>2, <3>2, <3>3
  <2>3. s >= s
    BY <1>1
  <2> QED
    BY <1>1, <1>2, <1>5, <2>1, <2>2, <2>3
<1>10. StoreTypeOK'
  BY <1>3, <1>6, <1>7, <1>8, <1>9 DEF StoreTypeOK
<1>11. DownIsEmpty'
  <2>1. up
    BY <1>1 DEF DownIsEmpty, NoJob
  <2> QED
    BY <2>1, <1>3 DEF DownIsEmpty
<1>12. StoreAgrees'
  BY <1>3 DEF StoreAgrees
<1>13. WriteIsForward'
  BY <1>3, <1>7 DEF WriteIsForward
<1>14. BehindIsInstalled'
  <2> SUFFICES ASSUME up, NEW e \in Docs
               PROVE  \/ lkg[e].current <= held'[e]
                      \/ lkg[e].current = refused[e]
                      \/ \E b \in Actors : /\ jobs'[b].stage = "install" /\ jobs'[b].doc = e
                                           /\ jobs'[b].serial >= lkg[e].current
    BY <1>3 DEF BehindIsInstalled
  <2>1. lkg[e].current \in Nat /\ held[e] \in Nat /\ held'[e] \in Nat
    BY <1>8 DEF StoreTypeOK
  <2>2. CASE lkg[e].current <= held[e]
    BY <2>1, <2>2, <1>8
  <2>3. CASE \E b \in Actors : /\ jobs[b].stage = "install" /\ jobs[b].doc = e
                               /\ jobs[b].serial >= lkg[e].current
    <3>1. PICK b \in Actors : /\ jobs[b].stage = "install" /\ jobs[b].doc = e
                              /\ jobs[b].serial >= lkg[e].current
      BY <2>3
    <3>2. CASE b = a
      BY <1>1, <1>2, <1>8, <2>1, <3>1, <3>2 DEF d, s
    <3>3. CASE b # a
      BY <1>7, <3>1, <3>3
    <3> QED
      BY <3>2, <3>3
  <2> QED
    BY <2>2, <2>3 DEF BehindIsInstalled
<1>15. TagsAreSeen'
  <2>1. \A e \in Docs : run.seen[e] \in Nat /\ held[e] \in Nat /\ held'[e] \in Nat
    BY <1>8 DEF StoreTypeOK, Round
  <2> QED
    BY <1>3, <1>6, <1>8, <1>9, <2>1 DEF TagsAreSeen
<1> QED
  BY <1>3, <1>10, <1>11, <1>12, <1>13, <1>14, <1>15

\* Boot: the seed is stored only when it is not below what was accepted, and it
\* replaces in memory only what it is newer than.
LEMMA BootStep ==
  ASSUME StoreInv, Boot
  PROVE  StoreInv' /\ \A d \in Docs : Accepted(lkg'[d]) >= Accepted(lkg[d])
<1> USE DEF StoreInv
<1>1. /\ ~up /\ up' = TRUE /\ book' = savedBook
      /\ UNCHANGED <<gate, jobs, run, savedBook>>
  BY DEF Boot
<1>2. PICK bad \in SUBSET Docs, seed \in {0, Seed}, fails \in BOOLEAN :
        LET usable(d) == IF d \in bad THEN 0 ELSE lkg[d].current
            chosen == "access" \in Docs /\ seed > usable("access")
            top == Accepted(lkg["access"])
            writes == /\ chosen /\ ~fails
                      /\ seed > top \/ (seed = top /\ lkg["access"].current # seed)
        IN /\ refused' = [d \in Docs |-> IF d \in bad THEN lkg[d].current ELSE 0]
           /\ held' = [d \in Docs |-> IF d = "access" /\ chosen THEN seed ELSE usable(d)]
           /\ lkg' = IF writes THEN Stored(lkg, "access", seed) ELSE lkg
           /\ cache' = IF chosen THEN [cache EXCEPT !["access"] = IF writes THEN seed ELSE top]
                       ELSE cache
  BY Zenon DEF Boot
<1> DEFINE usable(d) == IF d \in bad THEN 0 ELSE lkg[d].current
<1> DEFINE chosen == "access" \in Docs /\ seed > usable("access")
<1> DEFINE top == Accepted(lkg["access"])
<1> DEFINE writes == /\ chosen /\ ~fails
                     /\ seed > top \/ (seed = top /\ lkg["access"].current # seed)
<1>3. /\ refused' = [d \in Docs |-> IF d \in bad THEN lkg[d].current ELSE 0]
      /\ held' = [d \in Docs |-> IF d = "access" /\ chosen THEN seed ELSE usable(d)]
  BY <1>2
<1>4. /\ writes => lkg' = [lkg EXCEPT !["access"] = [current |-> seed, max |-> seed]]
      /\ ~writes => lkg' = lkg
  BY <1>2 DEF Stored
<1>5. /\ writes => cache' = [cache EXCEPT !["access"] = seed]
      /\ ~writes => cache' = cache \/ ("access" \in Docs /\ cache' = [cache EXCEPT !["access"] = top])
  BY <1>2, Zenon
<1>6. seed \in Nat
  BY StoreAssumption
<1>7. \A d \in Docs : usable(d) \in Nat /\ lkg[d] \in [current : Nat, max : Nat] /\ Accepted(lkg[d]) \in Nat
  BY AcceptedFacts DEF StoreTypeOK
<1>8. writes => /\ "access" \in Docs /\ seed > 0 /\ seed >= Accepted(lkg["access"])
                /\ lkg'["access"] = [current |-> seed, max |-> seed]
                /\ Accepted(lkg'["access"]) = seed
                /\ cache'["access"] = seed /\ held'["access"] = seed
                /\ \A d \in Docs : d # "access" => lkg'[d] = lkg[d] /\ cache'[d] = cache[d]
  <2> SUFFICES ASSUME writes
               PROVE  /\ "access" \in Docs /\ seed > 0 /\ seed >= Accepted(lkg["access"])
                      /\ lkg'["access"] = [current |-> seed, max |-> seed]
                      /\ Accepted(lkg'["access"]) = seed
                      /\ cache'["access"] = seed /\ held'["access"] = seed
                      /\ \A d \in Docs : d # "access" => lkg'[d] = lkg[d] /\ cache'[d] = cache[d]
    OBVIOUS
  <2>1. "access" \in Docs /\ seed > usable("access") /\ seed >= top /\ chosen
    BY <1>6, <1>7
  <2>2. seed > 0
    BY <2>1, <1>6, <1>7
  <2>3. lkg'["access"] = [current |-> seed, max |-> seed] /\ cache'["access"] = seed
    BY <1>4, <1>5, <2>1, Zenon DEF StoreTypeOK
  <2>4. Accepted(lkg'["access"]) = seed
    BY <2>3, <1>6, AcceptedFacts
  <2>5. held'["access"] = seed
    BY <1>3, <2>1
  <2>6. \A d \in Docs : d # "access" => lkg'[d] = lkg[d] /\ cache'[d] = cache[d]
    BY <1>4, <1>5 DEF StoreTypeOK
  <2> QED
    BY <2>1, <2>2, <2>3, <2>4, <2>5, <2>6
<1>9. \A d \in Docs : /\ held'[d] \in Nat /\ refused'[d] \in Nat
                      /\ lkg[d].current <= held'[d] \/ lkg[d].current = refused'[d]
  <2> SUFFICES ASSUME NEW d \in Docs
               PROVE  /\ held'[d] \in Nat /\ refused'[d] \in Nat
                      /\ lkg[d].current <= held'[d] \/ lkg[d].current = refused'[d]
    OBVIOUS
  <2>1. lkg[d].current \in Nat
    BY <1>7
  <2>2. CASE d = "access" /\ chosen
    BY <1>3, <1>6, <1>7, <2>1, <2>2
  <2>3. CASE ~(d = "access" /\ chosen)
    <3>1. held'[d] = usable(d)
      BY <1>3, <2>3
    <3>2. refused'[d] = IF d \in bad THEN lkg[d].current ELSE 0
      BY <1>3
    <3> QED
      BY <2>1, <3>1, <3>2
  <2> QED
    BY <2>2, <2>3
<1>10. ~writes => \A d \in Docs : lkg'[d] = lkg[d] /\ cache'[d] \in {cache[d], Accepted(lkg[d])}
  BY <1>4, <1>5 DEF StoreTypeOK
<1> HIDE DEF writes, chosen, usable, top
<1>11. StoreTypeOK'
  <2>1. held' \in [Docs -> Nat] /\ refused' \in [Docs -> Nat]
    BY <1>3, <1>9
  <2>2. lkg' \in [Docs -> [current : Nat, max : Nat]]
    <3>1. lkg \in [Docs -> [current : Nat, max : Nat]]
      BY DEF StoreTypeOK
    <3>2. [current |-> seed, max |-> seed] \in [current : Nat, max : Nat]
      BY <1>6
    <3> HIDE DEF StoreInv
    <3>3. CASE writes
      BY <1>4, <3>1, <3>2, <3>3
    <3>4. CASE ~writes
      BY <1>4, <3>1, <3>4
    <3> QED
      BY <3>3, <3>4
  <2>3. cache' \in [Docs -> Nat \cup {Unread}]
    BY <1>5, <1>6, <1>7, SMTT(40) DEF StoreTypeOK, top
  <2> QED
    BY <1>1, <2>1, <2>2, <2>3 DEF StoreTypeOK
<1>12. DownIsEmpty'
  BY <1>1 DEF DownIsEmpty
<1>13. StoreAgrees'
  BY <1>8, <1>10 DEF StoreAgrees
<1>14. WriteIsForward'
  BY <1>1 DEF DownIsEmpty, WriteIsForward, NoJob
<1>15. BehindIsInstalled'
  <2>1. ASSUME NEW d \in Docs PROVE lkg'[d].current <= held'[d] \/ lkg'[d].current = refused'[d]
    BY <1>6, <1>8, <1>9, <1>10
  <2> QED
    BY <2>1 DEF BehindIsInstalled
<1>16. TagsAreSeen'
  <2>1. \A d \in Docs : run.tags[d] = 0 /\ run.seen[d] = 0
    BY <1>1, SMTT(40) DEF DownIsEmpty, NoRun, NoTags
  <2> QED
    BY <1>1, <1>9, <2>1 DEF TagsAreSeen
<1>17. \A d \in Docs : Accepted(lkg'[d]) >= Accepted(lkg[d])
  BY <1>6, <1>7, <1>8, <1>10
<1> QED
  BY <1>11, <1>12, <1>13, <1>14, <1>15, <1>16, <1>17

\* A document that was verified is about to be committed.
LEMMA BeginStep ==
  ASSUME StoreInv, up, NEW a \in Actors, NEW d \in Docs, NEW serial \in Serials,
         jobs[a].stage = "none",
         jobs' = [jobs EXCEPT ![a] = [stage |-> "commit", doc |-> d, serial |-> serial]],
         UNCHANGED <<up, lkg, cache, gate, held, refused, run, book, savedBook>>
  PROVE  StoreInv' /\ lkg' = lkg
<1> USE DEF StoreInv
<1> DEFINE job == [stage |-> "commit", doc |-> d, serial |-> serial]
<1>1. serial \in Nat /\ serial > 0
  BY StoreAssumption
<1>2. job \in Job /\ job.stage = "commit" /\ job.doc = d /\ job.serial = serial
  BY <1>1, StoreAssumption DEF Job
<1>3. jobs' \in [Actors -> Job] /\ jobs'[a] = job /\ \A b \in Actors : b # a => jobs'[b] = jobs[b]
  BY <1>2 DEF StoreTypeOK
<1> HIDE DEF job
<1>4. StoreTypeOK'
  BY <1>3 DEF StoreTypeOK
<1>5. WriteIsForward'
  BY <1>1, <1>2, <1>3, SMTT(40) DEF WriteIsForward
<1>6. BehindIsInstalled'
  BY <1>2, <1>3, SMTT(40) DEF BehindIsInstalled
<1>7. DownIsEmpty' /\ StoreAgrees' /\ TagsAreSeen'
  BY DEF DownIsEmpty, StoreAgrees, TagsAreSeen
<1> QED
  BY <1>4, <1>5, <1>6, <1>7

\* The round itself touches neither the store nor memory; it asks with ETags of
\* documents it saw in memory.
LEMMA RoundStep ==
  ASSUME StoreInv,
         OpenRound \/ Ask \/ NoDocument \/ CloseRound \/ (\E followed \in BOOLEAN : Answer(followed))
  PROVE  StoreInv' /\ lkg' = lkg
<1> USE DEF StoreInv
<1>1. UNCHANGED <<up, lkg, cache, gate, held, refused, jobs, book>>
  BY Zenon DEF OpenRound, Ask, NoDocument, CloseRound, Answer
<1>2. up
  <2>1. ~up => run.stage = "idle"
    BY SMTT(40) DEF DownIsEmpty, NoRun
  <2>2. up \/ run.stage # "idle"
    BY ZenonT(40) DEF OpenRound, Ask, NoDocument, CloseRound, Answer
  <2> QED
    BY <2>1, <2>2
<1>3. savedBook' \in {book, savedBook}
  BY Zenon DEF OpenRound, Ask, NoDocument, CloseRound, Answer
<1>4. /\ run' \in Round
      /\ \A d \in Docs : run'.tags[d] <= run'.seen[d] /\ run'.seen[d] <= held[d]
  <2>1. /\ run \in Round /\ held \in [Docs -> Nat]
        /\ \A d \in Docs : run.tags[d] <= run.seen[d] /\ run.seen[d] <= held[d]
    BY DEF StoreTypeOK, TagsAreSeen
  <2>2. NoTags \in [Docs -> Nat] /\ \A d \in Docs : NoTags[d] = 0
    BY DEF NoTags
  <2>3. NoRun \in Round /\ NoRun.seen = NoTags /\ NoRun.tags = NoTags
    BY <2>2 DEF NoRun, Round
  <2>4. CASE OpenRound
    <3>1. run' = [NoRun EXCEPT !.stage = "open", !.seen = held]
      BY <2>4 DEF OpenRound
    <3>2. run' \in Round /\ run'.seen = held /\ run'.tags = NoTags
      BY <3>1, <2>1, <2>3, Zenon DEF Round
    <3> QED
      BY <3>2, <2>1, <2>2
  <2>5. CASE Ask
    <3>1. PICK demoted \in BOOLEAN :
            run' = [run EXCEPT !.asked = "sent", !.tags = IF demoted THEN NoTags ELSE Tags(run.seen)]
      BY <2>5, Zenon DEF Ask
    <3>2. run.seen \in [Docs -> Nat]
      BY <2>1 DEF Round
    <3>3. /\ Tags(run.seen) \in [Docs -> Nat]
          /\ \A d \in Docs : Tags(run.seen)[d] <= run.seen[d]
      BY <3>2 DEF Tags, StoreTypeOK, TagsAreSeen
    <3> DEFINE sent == IF demoted THEN NoTags ELSE Tags(run.seen)
    <3>4. sent \in [Docs -> Nat] /\ \A d \in Docs : sent[d] <= run.seen[d]
      BY <2>2, <3>2, <3>3
    <3>5. run' = [run EXCEPT !.asked = "sent", !.tags = sent]
      BY <3>1
    <3> HIDE DEF sent
    <3>6. run' \in Round /\ run'.seen = run.seen /\ run'.tags = sent
      BY <2>1, <3>4, <3>5, ZenonT(40) DEF Round
    <3> QED
      BY <2>1, <3>4, <3>6
  <2>6. CASE NoDocument
    BY <2>1, <2>6, AfterFacts DEF NoDocument
  <2>7. CASE CloseRound
    <3>1. run' = NoRun
      BY <2>7 DEF CloseRound
    <3> QED
      BY <2>1, <2>2, <2>3, <3>1
  <2>8. CASE \E followed \in BOOLEAN : Answer(followed)
    <3>1. run' \in Round /\ run'.seen = run.seen /\ run'.tags = run.tags
      BY <2>1, <2>8, ZenonT(40) DEF Answer, Round
    <3> QED
      BY <2>1, <3>1, SMTT(40)
  <2> QED
    BY <2>4, <2>5, <2>6, <2>7, <2>8
<1>5. StoreTypeOK'
  BY <1>1, <1>3, <1>4 DEF StoreTypeOK
<1>6. DownIsEmpty'
  BY <1>1, <1>2 DEF DownIsEmpty
<1>7. StoreAgrees' /\ WriteIsForward' /\ BehindIsInstalled'
  BY <1>1, SMTT(60) DEF StoreAgrees, WriteIsForward, BehindIsInstalled
<1>8. TagsAreSeen'
  BY <1>1, <1>3, <1>4 DEF TagsAreSeen
<1> QED
  BY <1>1, <1>5, <1>6, <1>7, <1>8, SMTT(40)

\* The process dies: only the store is left.
LEMMA DieStep ==
  ASSUME StoreInv, Die
  PROVE  StoreInv' /\ lkg' = lkg
<1> USE DEF StoreInv
<1>1. /\ up' = FALSE /\ lkg' = lkg /\ savedBook' = savedBook /\ gate' = "free"
      /\ cache' = [d \in Docs |-> Unread]
      /\ held' = [d \in Docs |-> 0] /\ refused' = [d \in Docs |-> 0]
      /\ jobs' = [a \in Actors |-> NoJob] /\ run' = NoRun /\ book' = NoBook
  BY DEF Die
<1>2. NoRun \in Round /\ \A d \in Docs : NoRun.seen[d] = 0 /\ NoRun.tags[d] = 0
  BY DEF Round, NoRun, NoTags
<1>3. NoJob \in Job /\ NoJob.stage = "none"
  BY DEF Job, NoJob
<1>4. StoreTypeOK'
  BY <1>1, <1>2, <1>3, ZenonT(40) DEF StoreTypeOK, NoBook
<1>5. DownIsEmpty'
  BY <1>1 DEF DownIsEmpty
<1>6. StoreAgrees'
  BY <1>1 DEF StoreAgrees
<1>7. WriteIsForward'
  BY <1>1, <1>3 DEF WriteIsForward
<1>8. BehindIsInstalled'
  BY <1>1 DEF BehindIsInstalled
<1>9. TagsAreSeen'
  BY <1>1, <1>2, SMTT(40) DEF TagsAreSeen, NoBook
<1> QED
  BY <1>1, <1>4, <1>5, <1>6, <1>7, <1>8, <1>9

\* One damaged key: the other one says the same.
LEMMA DamageStep ==
  ASSUME StoreInv, NEW d \in Docs, Damage(d)
  PROVE  StoreInv' /\ \A e \in Docs : Accepted(lkg'[e]) >= Accepted(lkg[e])
<1> USE DEF StoreInv
<1>1. ~up /\ UNCHANGED <<up, cache, gate, held, refused, jobs, run, book, savedBook>>
  BY SMTT(40) DEF Damage
<1>2. lkg[d].current = lkg[d].max /\ lkg[d].current # 0 /\ lkg[d].current \in Nat
  BY DEF Damage, StoreAgrees, StoreTypeOK
<1>3. \/ lkg' = [lkg EXCEPT ![d].current = 0]
      \/ lkg' = [lkg EXCEPT ![d].max = 0]
  BY ZenonT(40) DEF Damage
<1>4. /\ lkg' \in [Docs -> [current : Nat, max : Nat]]
      /\ lkg'[d].current = 0 \/ lkg'[d].max = 0
      /\ lkg'[d].current \in {0, lkg[d].max} /\ lkg'[d].max \in {0, lkg[d].max}
      /\ lkg'[d].current # 0 \/ lkg'[d].max # 0
      /\ \A e \in Docs : e # d => lkg'[e] = lkg[e]
  BY <1>2, <1>3, SMTT(40) DEF StoreTypeOK
<1>5. Accepted(lkg'[d]) = Accepted(lkg[d])
  BY <1>2, <1>4 DEF Accepted
<1>6. StoreTypeOK'
  BY <1>1, <1>4, SMTT(40) DEF StoreTypeOK
<1>7. StoreAgrees'
  BY <1>1, <1>4, ZenonT(40) DEF StoreAgrees, DownIsEmpty
<1>8. WriteIsForward'
  BY <1>1, ZenonT(40) DEF WriteIsForward, DownIsEmpty, NoJob
<1>9. DownIsEmpty' /\ BehindIsInstalled' /\ TagsAreSeen'
  <2>1. DownIsEmpty'
    BY <1>1, Zenon DEF DownIsEmpty
  <2>2. BehindIsInstalled'
    BY <1>1, Zenon DEF BehindIsInstalled
  <2>3. TagsAreSeen'
    BY <1>1, Zenon DEF TagsAreSeen
  <2> QED BY <2>1, <2>2, <2>3
<1>10. \A e \in Docs : Accepted(lkg'[e]) >= Accepted(lkg[e])
  <2>1. \A e \in Docs : Accepted(lkg[e]) \in Nat
    BY AcceptedFacts, SMTT(40) DEF StoreTypeOK
  <2> QED
    BY <1>4, <1>5, <2>1
<1> QED
  BY <1>6, <1>7, <1>8, <1>9, <1>10

-----------------------------------------------------------------------------
(* The theorems                                                             *)

\* Every step keeps the invariant and never takes the store back.
LEMMA StoreStep ==
  StoreInv /\ [StoreNext]_storeVars
    => StoreInv' /\ \A d \in Docs : Accepted(lkg'[d]) >= Accepted(lkg[d])
<1> SUFFICES ASSUME StoreInv, [StoreNext]_storeVars
             PROVE  StoreInv' /\ \A d \in Docs : Accepted(lkg'[d]) >= Accepted(lkg[d])
  OBVIOUS
<1> DEFINE StillKept == StoreInv' /\ lkg' = lkg
<1>1. StillKept => StoreInv' /\ \A d \in Docs : Accepted(lkg'[d]) >= Accepted(lkg[d])
  <2>1. \A d \in Docs : Accepted(lkg[d]) \in Nat
    BY AcceptedFacts DEF StoreInv, StoreTypeOK
  <2> QED
    BY <2>1
<1>2. ASSUME NEW a \in Actors, Lock(a) \/ Rollback(a) \/ ReadFails(a) \/ WriteFails(a) \/ Install(a)
      PROVE  StillKept
  BY <1>2, LockStep, RollbackStep, ReadFailsStep, WriteFailsStep, InstallStep, SMTT(40)
<1>3. ASSUME NEW serial \in Serials, Import(serial) PROVE StillKept
  <2>1. /\ up /\ "access" \in Docs /\ "import" \in Actors /\ jobs["import"].stage = "none"
        /\ jobs' = [jobs EXCEPT !["import"] =
                       [stage |-> "commit", doc |-> "access", serial |-> serial]]
        /\ UNCHANGED <<up, lkg, cache, gate, held, refused, run, book, savedBook>>
    BY <1>3 DEF Import
  <2> QED
    BY <2>1, BeginStep, Zenon
<1>4. ASSUME NEW serial \in Serials, Ingest(serial) PROVE StillKept
  <2>1. /\ run.stage \in Docs /\ "round" \in Actors /\ jobs["round"].stage = "none"
        /\ jobs' = [jobs EXCEPT !["round"] =
                       [stage |-> "commit", doc |-> run.stage, serial |-> serial]]
        /\ UNCHANGED <<up, lkg, cache, gate, held, refused, run, book, savedBook>>
    BY <1>4 DEF Ingest
  <2>2. up
    BY <2>1, StoreAssumption DEF StoreInv, DownIsEmpty, NoRun
  <2> QED
    BY <2>1, <2>2, BeginStep, ZenonT(40)
<1>5. CASE OpenRound \/ Ask \/ NoDocument \/ CloseRound \/ \E followed \in BOOLEAN : Answer(followed)
  BY <1>1, <1>5, RoundStep
<1>6. CASE Die
  BY <1>1, <1>6, DieStep, SMTT(40)
<1>7. CASE UNCHANGED storeVars
  <2>1. StoreTypeOK' /\ DownIsEmpty'
    BY <1>7, ZenonT(40) DEF storeVars, StoreInv, StoreTypeOK, DownIsEmpty
  <2>2. StoreAgrees' /\ WriteIsForward'
    BY <1>7, ZenonT(40) DEF storeVars, StoreInv, StoreAgrees, WriteIsForward
  <2>3. BehindIsInstalled' /\ TagsAreSeen'
    BY <1>7, ZenonT(40) DEF storeVars, StoreInv, BehindIsInstalled, TagsAreSeen
  <2>4. StoreInv'
    BY <2>1, <2>2, <2>3 DEF StoreInv
  <2> QED
    BY <1>1, <1>7, <2>4, SMTT(40) DEF storeVars
<1>8. ASSUME NEW a \in Actors, Write(a)
      PROVE  StoreInv' /\ \A d \in Docs : Accepted(lkg'[d]) >= Accepted(lkg[d])
  BY <1>8, WriteStep
<1>9. CASE Boot
  BY <1>9, BootStep
<1>10. ASSUME NEW d \in Docs, Damage(d)
       PROVE  StoreInv' /\ \A e \in Docs : Accepted(lkg'[e]) >= Accepted(lkg[e])
  BY <1>10, DamageStep
<1> HIDE DEF StillKept
<1> QED
  BY <1>1, <1>2, <1>3, <1>4, <1>5, <1>6, <1>7, <1>8, <1>9, <1>10, ZenonT(40) DEF StoreNext

\* The invariant holds in every reachable state.
THEOREM StoreInvHolds == StoreSpec => []StoreInv
BY StoreInvInit, StoreStep, PTL DEF StoreSpec

\* For any number of serials: of two documents committed at the same time, with
\* failing reads and writes, deaths and a damaged key, the store keeps the newest
\* serial it accepted (commit, check_serial and max_serial).
THEOREM StoreNeverGoesBack == StoreSpec => StoredNeverGoesBack
<1>1. StoreInv /\ [StoreNext]_storeVars
        => [\A d \in Docs : Accepted(lkg'[d]) >= Accepted(lkg[d])]_storeVars
  BY StoreStep
<1> QED
  BY <1>1, StoreInvHolds, PTL DEF StoreSpec, StoredNeverGoesBack

\* For any number of serials: memory is behind the store only until the document
\* that was just written is installed (replace_if_newer, with_keystate).
THEOREM MemoryKeepsUp == StoreSpec => []MemoryIsNotBehind
<1>1. StoreInv => MemoryIsNotBehind
  BY ZenonT(40) DEF StoreInv, BehindIsInstalled, MemoryIsNotBehind
<1> QED
  BY <1>1, StoreInvHolds, PTL

\* For any number of serials: the ETag a source is asked with is never that of a
\* document newer than the one in memory, so a 304 hides nothing (access_etag).
THEOREM NothingIsHidden == StoreSpec => []NotModifiedMissesNothing
<1>1. StoreInv => NotModifiedMissesNothing
  <2> SUFFICES ASSUME StoreInv, NEW d \in Docs PROVE run.tags[d] <= held[d]
    BY ZenonT(40) DEF NotModifiedMissesNothing
  <2>1. run.tags[d] \in Nat /\ run.seen[d] \in Nat /\ held[d] \in Nat
    BY DEF StoreInv, StoreTypeOK, Round
  <2> QED
    BY <2>1 DEF StoreInv, TagsAreSeen
<1> QED
  BY <1>1, StoreInvHolds, PTL

-----------------------------------------------------------------------------
(* What load makes of the store                                             *)

\* The records of every network.
Books == [Networks -> [Kinds -> Nat]]

INSTANCE WellFoundedInduction

\* A set of numbers that is not empty has a least one.
LEMMA LeastNumber ==
    ASSUME NEW T \in SUBSET Nat, T # {}
    PROVE  \E x \in T : \A y \in T : x <= y
<1>1. PICK x \in T : \A y \in T : ~(<<y, x>> \in OpToRel(<, Nat))
  BY WFMin, NatLessThanWellFounded, Zenon
<1>2. \A y \in T : ~(y < x)
  BY <1>1, Zenon DEF OpToRel
<1> QED BY <1>2

\* net_mut: making room empties one network at most and invents nothing.
LEMMA RoomFacts ==
    ASSUME NEW b \in Books, NEW n \in Networks
    PROVE  Room(b, n) \in Books /\ \A m \in Networks : Room(b, n)[m] \in {b[m], Nothing}
<1>1. Nothing \in [Kinds -> Nat]
  BY DEF Nothing
<1> DEFINE old == Oldest(b)
<1>2. [b EXCEPT ![old] = Nothing] \in Books
  BY <1>1, Zenon DEF Books
<1>3. \A m \in Networks : [b EXCEPT ![old] = Nothing][m] \in {b[m], Nothing}
  BY DEF Books
<1> QED BY <1>2, <1>3, Zenon DEF Room

\* net_mut and the record: what is written has the value, the rest is as before or gone.
LEMMA PutFacts ==
    ASSUME NEW b \in Books, NEW n \in Networks, NEW kinds \in SUBSET Kinds, NEW value \in Nat
    PROVE  /\ Put(b, n, kinds, value) \in Books
           /\ \A k \in kinds : Put(b, n, kinds, value)[n][k] = value
           /\ \A m \in Networks, k \in Kinds :
                 m # n \/ k \notin kinds => Put(b, n, kinds, value)[m][k] \in {b[m][k], 0}
<1> DEFINE room == Room(b, n)
<1>1. room \in Books /\ \A m \in Networks : room[m] \in {b[m], Nothing}
  BY RoomFacts
<1>2. Put(b, n, kinds, value) =
          [m \in Networks |-> IF m = n THEN [k \in Kinds |-> IF k \in kinds THEN value ELSE room[n][k]]
                              ELSE room[m]]
  BY <1>1, Zenon DEF Put, Books
<1>3. \A m \in Networks, k \in Kinds : room[m][k] \in {b[m][k], 0}
  BY <1>1 DEF Nothing
<1> HIDE DEF room
<1> QED BY <1>1, <1>2, <1>3, SMTT(40) DEF Books

\* The table that load fills exists: every entry follows from the one before.
LEMMA LoadedExists ==
    ASSUME NEW disk, NEW size \in Nat
    PROVE  \E g : g = [i \in 0..size |->
                         IF i = 0 THEN [n \in Networks |-> Nothing]
                         ELSE LoadEntry(disk, g[i - 1], Scanned(i))]
<1> DEFINE Base == [n \in Networks |-> Nothing]
<1> DEFINE F(g, x) == g = [i \in 0..x |-> IF i = 0 THEN Base ELSE LoadEntry(disk, g[i - 1], Scanned(i))]
<1> DEFINE T == {x \in Nat : ~\E g : F(g, x)}
<1>1. ASSUME T # {} PROVE FALSE
  <2>1. PICK x \in T : \A y \in T : x <= y
    BY <1>1, LeastNumber, Zenon
  <2>2. CASE x = 0
    <3> DEFINE g == [i \in 0..0 |-> Base]
    <3>1. \A i \in 0..0 : i = 0
      OBVIOUS
    <3>2. F(g, 0)
      BY <3>1, Zenon
    <3> QED BY <2>1, <2>2, <3>2, Zenon
  <2>3. CASE x # 0
    <3>1. x - 1 \in Nat /\ x - 1 \notin T
      <4>1. x \in Nat
        BY <2>1
      <4> HIDE DEF T
      <4> QED BY <2>1, <2>3, <4>1
    <3>2. PICK h : F(h, x - 1)
      BY <3>1, Zenon
    <3> DEFINE g == [i \in 0..x |-> IF i = x THEN LoadEntry(disk, h[x - 1], Scanned(x)) ELSE h[i]]
    <3>3. \A i \in 0..x : g[i] = IF i = 0 THEN Base ELSE LoadEntry(disk, g[i - 1], Scanned(i))
      <4> SUFFICES ASSUME NEW i \in 0..x
                   PROVE  g[i] = IF i = 0 THEN Base ELSE LoadEntry(disk, g[i - 1], Scanned(i))
        BY ZenonT(40)
      <4>1. CASE i = x
        <5>1. g[i - 1] = h[x - 1] /\ i # 0
          BY <2>3, <4>1
        <5> QED BY <4>1, <5>1
      <4>2. CASE i # x
        <5>1. i \in 0..(x - 1) /\ g[i] = h[i]
          BY <4>2
        <5>2. h[i] = IF i = 0 THEN Base ELSE LoadEntry(disk, h[i - 1], Scanned(i))
          BY <3>2, <5>1, Zenon
        <5>3. i # 0 => g[i - 1] = h[i - 1]
          BY <4>2, SMTT(40)
        <5> QED BY <5>1, <5>2, <5>3, Zenon
      <4> QED BY <4>1, <4>2, Zenon
    <3>4. F(g, x)
      BY <3>3
    <3> QED BY <2>1, <3>4, Zenon
  <2> QED BY <2>2, <2>3
<1>2. size \notin T
  BY <1>1, Zenon
<1> QED BY <1>2

\* What load makes of a store holds no record but those of the store, as they are there.
Honest(b, disk) ==
    b \in Books /\ \A n \in Networks, k \in Kinds : b[n][k] \in {disk[n][k], 0}

\* Every entry of the scan names a network and a kind of record.
LEMMA ScannedTypes ==
    ASSUME NEW i \in 1 .. 2 * Len(ScanOrder)
    PROVE  Scanned(i)[1] \in Networks /\ Scanned(i)[2] \in Kinds
<1>1. Len(ScanOrder) \in Nat /\ \A j \in 1..Len(ScanOrder) : ScanOrder[j] \in Networks
  BY FlushAssumption
<1> QED BY <1>1 DEF Scanned, Kinds

\* HealthBook::load invents and changes nothing, whichever networks it evicts: by the least
\* entry of the scan after which it would have.
LEMMA LoadIsHonest ==
    ASSUME NEW disk \in Books
    PROVE  Honest(Load(disk), disk)
<1> DEFINE size == 2 * Len(ScanOrder)
<1> DEFINE Base == [n \in Networks |-> Nothing]
<1> DEFINE F(g) == g = [i \in 0..size |-> IF i = 0 THEN Base ELSE LoadEntry(disk, g[i - 1], Scanned(i))]
<1>1. size \in Nat
  BY FlushAssumption
<1> DEFINE loaded == CHOOSE g : F(g)
<1>2. F(loaded)
  <2> HIDE DEF size
  <2>1. \E g : F(g)
    BY <1>1, LoadedExists, Zenon
  <2> QED BY <2>1, Zenon
<1>3. Load(disk) = loaded[size]
  BY DEF Load
<1> HIDE DEF loaded, size
<1>4. Honest(Base, disk)
  BY DEF Honest, Books, Nothing
<1>5. ASSUME NEW b, Honest(b, disk), NEW i \in 1..size
      PROVE  Honest(LoadEntry(disk, b, Scanned(i)), disk)
  <2> DEFINE n == Scanned(i)[1]
  <2> DEFINE k == Scanned(i)[2]
  <2>1. n \in Networks /\ k \in Kinds /\ {k} \in SUBSET Kinds
    BY ScannedTypes DEF size
  <2> DEFINE v == disk[n][k]
  <2>2. v \in Nat
    BY <2>1 DEF Books
  <2> HIDE DEF n, k, v
  <2> DEFINE new == Put(b, n, {k}, v)
  <2>3. Honest(new, disk)
    <3>1. b \in Books
      BY <1>5 DEF Honest
    <3>2. /\ new \in Books
          /\ \A l \in {k} : new[n][l] = v
          /\ \A m \in Networks, l \in Kinds : m # n \/ l \notin {k} => new[m][l] \in {b[m][l], 0}
      BY <2>1, <2>2, <3>1, PutFacts, ZenonT(40)
    <3> HIDE DEF new
    <3> QED BY <1>5, <3>2 DEF Honest, v
  <2> QED BY <1>5, <2>3 DEF LoadEntry, n, k, v
<1> DEFINE T == {i \in 0..size : ~Honest(loaded[i], disk)}
<1>6. ASSUME T # {} PROVE FALSE
  <2>1. PICK x \in T : \A y \in T : x <= y
    <3>1. T \in SUBSET Nat
      BY <1>1
    <3> HIDE DEF T
    <3> QED BY <1>6, <3>1, LeastNumber
  <2>2. x # 0
    BY <1>1, <1>2, <1>4, <2>1
  <2>3. x - 1 \in 0..size /\ x - 1 \notin T /\ x \in 1..size
    BY <1>1, <2>1, <2>2
  <2>4. loaded[x] = LoadEntry(disk, loaded[x - 1], Scanned(x))
    BY <1>2, <2>2, <2>3, Zenon
  <2> QED BY <1>5, <2>1, <2>3, <2>4
<1> QED BY <1>1, <1>3, <1>6

-----------------------------------------------------------------------------
(* The book and the store                                                   *)

\* The records of the book.
Pairs == Networks \X Kinds

\* The values the variables take.
FlushTypeOK ==
    /\ records \in Books /\ stored \in Books /\ changes \in Nat /\ marked \in SUBSET Pairs
    /\ \A batch \in writing : DOMAIN batch \in SUBSET Pairs /\ \A p \in DOMAIN batch : batch[p] \in Nat

\* The gate admits one batch.
OneBatch == \A batch, other \in writing : batch = other

\* A record of a batch that has not changed since it was taken is what the batch writes.
BatchIsCurrent ==
    \A batch \in writing, n \in Networks, k \in Kinds :
        <<n, k>> \in DOMAIN batch /\ <<n, k>> \notin marked /\ records[n][k] # 0
        => batch[<<n, k>>] = records[n][k]

\* CleanIsOnDisk, network by network.
Clean ==
    \A n \in Networks, k \in Kinds :
        records[n][k] # 0 /\ <<n, k>> \notin marked /\ (\A batch \in writing : <<n, k>> \notin DOMAIN batch)
        => stored[n][k] = records[n][k]

\* The inductive invariant of the book and its store.
FlushInv ==
    /\ FlushTypeOK /\ OneBatch /\ BatchIsCurrent /\ Clean
    /\ ~unsaved => marked = {}

\* An empty book has nothing to write.
LEMMA FlushInvInit == FlushInit => FlushInv
<1> SUFFICES ASSUME FlushInit PROVE FlushInv
  OBVIOUS
<1>1. records \in Books /\ stored = records
  BY DEF FlushInit, Books, Nothing
<1> QED BY <1>1 DEF FlushInit, FlushInv, FlushTypeOK, OneBatch, BatchIsCurrent, Clean, Pairs

\* record, note_quic_silence: what changes is marked, what is evicted is no longer held.
LEMMA ChangeStep ==
    ASSUME FlushInv, NEW n0 \in Networks, NEW kinds \in SUBSET Kinds, Change(n0, kinds)
    PROVE  FlushInv'
<1> USE DEF FlushInv
<1>1. changes + 1 \in Nat /\ records \in Books /\ stored \in Books
  BY DEF FlushTypeOK
<1>2. /\ records' \in Books
      /\ \A n \in Networks, k \in Kinds :
            n # n0 \/ k \notin kinds => records'[n][k] \in {records[n][k], 0}
  <2> DEFINE value == changes + 1
  <2> HIDE DEF value
  <2>1. records' = Put(records, n0, kinds, value)
    BY DEF Change, value
  <2>2. value \in Nat
    BY <1>1 DEF value
  <2> QED BY <1>1, <2>1, <2>2, PutFacts, ZenonT(40)
<1>3. marked' \in SUBSET Pairs
  BY DEF Change, Present, FlushTypeOK, Pairs
<1>4. \A n \in Networks, k \in Kinds :
         records'[n][k] # 0 /\ <<n, k>> \notin marked'
         => <<n, k>> \notin marked /\ records[n][k] = records'[n][k]
  <2> SUFFICES ASSUME NEW n \in Networks, NEW k \in Kinds, records'[n][k] # 0, <<n, k>> \notin marked'
               PROVE  <<n, k>> \notin marked /\ records[n][k] = records'[n][k]
    OBVIOUS
  <2>1. <<n, k>> \notin marked \cup ({n0} \X kinds)
    BY DEF Change, Present
  <2>2. n # n0 \/ k \notin kinds
    BY <2>1
  <2> QED BY <1>2, <2>1, <2>2
<1>5. writing' = writing /\ stored' = stored /\ unsaved' = TRUE /\ changes' = changes + 1
  BY DEF Change
<1>6. FlushTypeOK'
  BY <1>1, <1>2, <1>3, <1>5, SMTT(40) DEF FlushTypeOK
<1>7. OneBatch'
  BY <1>5 DEF OneBatch
<1>8. BatchIsCurrent'
  BY <1>4, <1>5, SMTT(40) DEF BatchIsCurrent
<1>9. Clean'
  BY <1>4, <1>5 DEF Clean
<1> QED BY <1>5, <1>6, <1>7, <1>8, <1>9

\* flush up to the write: what was marked is in the batch.
LEMMA TakeStep ==
    ASSUME FlushInv, writing = {}, Take
    PROVE  FlushInv'
<1> USE DEF FlushInv
<1> DEFINE batch == [p \in marked |-> records[p[1]][p[2]]]
<1>1. writing' = {batch} /\ marked' = {} /\ UNCHANGED <<records, stored, changes>>
  BY DEF Take
<1>2. /\ DOMAIN batch = marked
      /\ \A n \in Networks, k \in Kinds : <<n, k>> \in marked => batch[<<n, k>>] = records[n][k]
  OBVIOUS
<1>3. \A p \in marked : batch[p] \in Nat
  BY DEF FlushTypeOK, Books, Pairs
<1> HIDE DEF batch
<1>4. FlushTypeOK'
  BY <1>1, <1>2, <1>3 DEF FlushTypeOK
<1>5. OneBatch'
  BY <1>1, Zenon DEF OneBatch
<1>6. BatchIsCurrent'
  BY <1>1, <1>2 DEF BatchIsCurrent
<1>7. Clean'
  BY <1>1, <1>2, Zenon DEF Clean
<1> QED BY <1>1, <1>4, <1>5, <1>6, <1>7, SMTT(40)

\* What the store holds once it has written a batch.
LEMMA WrittenFacts ==
    ASSUME FlushTypeOK, NEW batch \in writing
    PROVE  /\ Written(batch) \in Books
           /\ \A n \in Networks, k \in Kinds :
                 Written(batch)[n][k] = IF <<n, k>> \in DOMAIN batch THEN batch[<<n, k>>] ELSE stored[n][k]
BY DEF Written, FlushTypeOK, Books

\* A batch that was written: what changed meanwhile is marked.
LEMMA StoredStep ==
    ASSUME FlushInv, NEW batch \in writing, FlushStored(batch)
    PROVE  FlushInv'
<1> USE DEF FlushInv
<1>1. /\ stored' = Written(batch) /\ writing' = {}
      /\ UNCHANGED <<records, marked, unsaved, changes>>
  BY Zenon DEF FlushStored, OneBatch
<1>2. FlushTypeOK'
  BY <1>1, WrittenFacts DEF FlushTypeOK
<1>3. Clean'
  <2> SUFFICES ASSUME NEW n \in Networks, NEW k \in Kinds, records[n][k] # 0, <<n, k>> \notin marked
               PROVE  Written(batch)[n][k] = records[n][k]
    BY <1>1, Zenon DEF Clean
  <2>1. CASE <<n, k>> \in DOMAIN batch
    BY <2>1, WrittenFacts, Zenon DEF BatchIsCurrent
  <2>2. CASE <<n, k>> \notin DOMAIN batch
    <3>1. \A other \in writing : <<n, k>> \notin DOMAIN other
      BY <2>2, Zenon DEF OneBatch
    <3> QED BY <2>2, <3>1, WrittenFacts DEF Clean
  <2> QED BY <2>1, <2>2, Zenon
<1> QED BY <1>1, <1>2, <1>3 DEF OneBatch, BatchIsCurrent

\* A batch that was not written: what it held and is still held is marked again.
LEMMA FailsStep ==
    ASSUME FlushInv, NEW batch \in writing, FlushFails(batch)
    PROVE  FlushInv'
<1> USE DEF FlushInv
<1>1. /\ marked' = marked \cup Present(records, DOMAIN batch) /\ writing' = {} /\ unsaved'
      /\ UNCHANGED <<records, stored, changes>>
  BY DEF FlushFails, OneBatch
<1>2. FlushTypeOK'
  BY <1>1 DEF FlushTypeOK, Present
<1>3. Clean'
  <2> SUFFICES ASSUME NEW n \in Networks, NEW k \in Kinds, records[n][k] # 0, <<n, k>> \notin marked'
               PROVE  stored[n][k] = records[n][k]
    BY <1>1 DEF Clean
  <2>1. <<n, k>> \notin marked /\ <<n, k>> \notin DOMAIN batch
    BY <1>1 DEF Present
  <2>2. \A other \in writing : <<n, k>> \notin DOMAIN other
    BY <2>1, Zenon DEF OneBatch
  <2> QED BY <2>1, <2>2, Zenon DEF Clean
<1> QED BY <1>1, <1>2, <1>3 DEF OneBatch, BatchIsCurrent

\* A book that is loaded holds what the store has.
LEMMA RestartStep ==
    ASSUME FlushInv, Restart
    PROVE  FlushInv'
<1> USE DEF FlushInv
<1>1. stored' \in Books
  BY WrittenFacts DEF Restart, FlushTypeOK
<1>2. marked' = {} /\ ~unsaved' /\ writing' = {} /\ changes' = changes
  BY DEF Restart
<1>3. Honest(records', stored')
  <2>1. CASE records' = Load(stored')
    BY <1>1, <2>1, LoadIsHonest, SMTT(40)
  <2>2. CASE records' = [n \in Networks |-> Nothing]
    BY <2>2, Zenon DEF Honest, Books, Nothing
  <2> QED BY <2>1, <2>2 DEF Restart
<1>4. FlushTypeOK'
  BY <1>1, <1>2, <1>3 DEF FlushTypeOK, Honest
<1>5. Clean'
  BY <1>2, <1>3 DEF Clean, Honest
<1> QED BY <1>2, <1>4, <1>5, Zenon DEF OneBatch, BatchIsCurrent

\* Every step keeps the invariant.
LEMMA FlushStep == FlushInv /\ [FlushNext]_flushVars => FlushInv'
<1> SUFFICES ASSUME FlushInv, [FlushNext]_flushVars PROVE FlushInv'
  OBVIOUS
<1>1. ASSUME NEW n \in Networks, Change(n, Kinds) \/ Change(n, {"udp"}) PROVE FlushInv'
  <2>1. Kinds \in SUBSET Kinds /\ {"udp"} \in SUBSET Kinds
    BY DEF Kinds
  <2> QED BY <1>1, <2>1, ChangeStep, SMTT(40)
<1>2. ASSUME NEW force \in BOOLEAN, Flush(force) PROVE FlushInv'
  BY <1>2, TakeStep DEF Flush
<1>3. ASSUME NEW batch \in writing, FlushStored(batch) \/ FlushFails(batch) PROVE FlushInv'
  BY <1>3, StoredStep, FailsStep, Zenon
<1>4. CASE FlushTick \/ UNCHANGED flushVars
  BY <1>4 DEF FlushTick, flushVars, FlushInv, FlushTypeOK, OneBatch, BatchIsCurrent, Clean
<1>5. CASE Restart
  BY <1>5, RestartStep
<1> QED BY <1>1, <1>2, <1>3, <1>4, <1>5, SMTT(40) DEF FlushNext

\* HealthBook::flush loses no result: what the book holds, unmarked and not being written, is
\* on disk, for any number of networks, also after a batch that fails, an eviction, results
\* that arrive during a write, and a restart whose load evicts networks again.
THEOREM CleanHolds == FlushSpec => []CleanIsOnDisk
<1>1. FlushInv => CleanIsOnDisk
  <2> SUFFICES ASSUME FlushInv PROVE CleanIsOnDisk
    BY Zenon
  <2>1. ASSUME NEW p \in Present(records, Networks \X Kinds), p \notin marked,
               \A batch \in writing : p \notin DOMAIN batch
        PROVE  stored[p[1]][p[2]] = records[p[1]][p[2]]
    <3>0. p \in Networks \X Kinds
      BY Zenon DEF Present
    <3>1. PICK n \in Networks, k \in Kinds : p = <<n, k>>
      BY <3>0
    <3> QED BY <2>1, <3>1, SMTT(40) DEF FlushInv, Clean, Present
  <2> QED BY <2>1, Zenon DEF CleanIsOnDisk, FlushInv
<1> QED BY <1>1, FlushInvInit, FlushStep, PTL DEF FlushSpec

===============================================================================
