------------------------------ MODULE PushProofs ------------------------------
(***************************************************************************)
(* Proofs about the push tokens, for any number of sessions, endpoints,    *)
(* tokens and bindings: the journal on disk knows every binding, and the   *)
(* status counts none that is not bound.                                   *)
(***************************************************************************)
EXTENDS PushLifecycle, TLAPS

-----------------------------------------------------------------------------
(* Push tokens *)

\* The values of the records.
SessionRec == [epoch: Nat, user: Users]
ViewRec    == [id: Nat, version: Nat]
PutRec     == [id: Nat, endpoint: Endpoints, user: Users, version: Nat]
AttemptRec == [epoch: Nat, token: Tokens \cup {NoOne}, confirmed: BOOLEAN]

\* A session is of the past, or of the user of this generation.
OfItsUser(s) == s \in SessionRec /\ s.epoch <= generation /\ (s.epoch = generation => s.user = account)

\* The part of the type invariant the argument needs.
StoreShape ==
    /\ generation \in Nat /\ bindings \in Nat /\ account \in Users \cup {NoOne}
    /\ desired \in Tokens \cup {NoOne} /\ root \in Endpoints \cup {NoOne}
    /\ DOMAIN saved = Endpoints /\ binding \in [Endpoints -> [Users -> ViewRec]]
    /\ puts \subseteq PutRec
    /\ attempts \in [DOMAIN attempts -> AttemptRec] /\ DOMAIN attempts \subseteq Nat

\* A session stays attached, and a run waits for an answer, only while a journal is open.
SessionOpen == attached # NoOne => root \in Endpoints /\ OfItsUser(attached)

RunShape ==
    /\ run = [pc |-> run.pc, todo |-> run.todo, id |-> run.id, session |-> run.session,
              token |-> run.token, view |-> run.view]
    /\ run.token \in Tokens \cup {NoOne}
    /\ run.pc \in {"inspect", "version", "put"} => root \in Endpoints /\ OfItsUser(run.session)
    /\ run.pc = "version" /\ run.view # NoOne => run.view \in ViewRec
    /\ run.pc = "entries" => run.view = NoOne

PushShape == StoreShape /\ SessionOpen /\ RunShape

\* What is bound, or may yet be, is in the journal in memory as well, so that no write of the
\* journal loses it; and nothing bound has been revoked.
JournalKnows ==
    /\ \A e \in Endpoints, u \in Users : binding[e][u].id # 0 => binding[e][u].id \notin revoked
    /\ root \in Endpoints =>
          /\ \A u \in Users : binding[root][u].id # 0 => binding[root][u].id \in entries
          /\ \A p \in puts : p.endpoint = root => p.id \in entries \cup revoked

JournalInv == PushShape /\ BindingIsRevocable /\ JournalKnows

\* Bindings are numbered in the order they are attempted.
Numbered ==
    /\ \A e \in Endpoints, u \in Users : binding[e][u].id <= bindings
    /\ \A p \in puts : p.id <= bindings
    /\ \A id \in DOMAIN attempts : id # 0 /\ id <= bindings /\ attempts[id].epoch <= generation

\* No registration on the wire is newer than what the server has, and none can replace the last
\* one attempted once the server has it.
Versioned ==
    /\ \A p \in puts :
          /\ p.version <= binding[p.endpoint][p.user].version
          /\ binding[p.endpoint][p.user].id = bindings /\ bindings # 0 =>
                p.version # binding[p.endpoint][p.user].version
    /\ run.pc = "version" /\ run.view # NoOne =>
          run.view.version <= binding[root][run.session.user].version

\* The last binding attempted is bound for this user, unless its revocation was asked for.
LastBound(u, id) == id = bindings /\ id \notin revoked \cup posts => binding[root][u].id = id

\* An answer the run has not looked at yet is still true of the last binding attempted.
RunKnows ==
    /\ run.pc \in {"put", "inspect"} => run.id \in DOMAIN attempts /\ attempts[run.id].epoch = run.session.epoch
    /\ run.pc = "put" =>
          /\ run.id = bindings
          /\ \A p \in puts : p.id = run.id => p.endpoint = root /\ p.user = run.session.user
          /\ run.view # NoOne => LastBound(run.session.user, run.id)
    /\ run.pc = "inspect" /\ run.view # NoOne /\ run.view.id = run.id => LastBound(run.session.user, run.id)

\* What is confirmed in this generation is bound for its user.
ConfirmedHere ==
    root \in Endpoints =>
       \A id \in DOMAIN attempts :
          attempts[id].confirmed /\ attempts[id].epoch = generation =>
             account \in Users /\ LastBound(account, id)

ConfirmInv == PushShape /\ Numbered /\ Versioned /\ RunKnows /\ ConfirmedHere

\* The initial state satisfies the invariants.
LEMMA PushStarts == PushInit => JournalInv /\ ConfirmInv
<1> SUFFICES ASSUME PushInit PROVE JournalInv /\ ConfirmInv
  OBVIOUS
<1>1. /\ run.pc = "idle" /\ run.token = NoOne
      /\ run = [pc |-> run.pc, todo |-> run.todo, id |-> run.id, session |-> run.session, token |-> run.token, view |-> run.view]
  BY DEF PushInit, Idle
<1>2. binding \in [Endpoints -> [Users -> ViewRec]] /\ \A e \in Endpoints, u \in Users : binding[e][u].id = 0
  BY DEF PushInit, ViewRec
<1>3. DOMAIN attempts = {} /\ attempts \in [DOMAIN attempts -> AttemptRec]
  BY SMTT(40) DEF PushInit
<1>4. PushShape
  BY <1>1, <1>2, <1>3 DEF PushInit, PushShape, StoreShape, SessionOpen, RunShape
<1>5. BindingIsRevocable /\ JournalKnows
  BY <1>2, PushAssumption DEF PushInit, BindingIsRevocable, JournalKnows
<1>6. Numbered
  BY <1>2, <1>3, SMTT(40) DEF PushInit, Numbered
<1>7. Versioned /\ RunKnows
  BY <1>1 DEF PushInit, Versioned, RunKnows
<1>8. ConfirmedHere
  BY <1>3, Zenon DEF ConfirmedHere
<1> QED
  BY <1>4, <1>5, <1>6, <1>7, <1>8 DEF JournalInv, ConfirmInv

\* The runs that may be written.
LEMMA IdleRun ==
    ASSUME run' = Idle
    PROVE  RunShape' /\ run'.pc = "idle"
BY DEF Idle, RunShape

\* An answer is kept for the run.
LEMMA RunAnswered ==
    ASSUME RunShape, NEW v, run' = [run EXCEPT !.view = v]
    PROVE  run' = [pc |-> run.pc, todo |-> run.todo, id |-> run.id, session |-> run.session, token |-> run.token, view |-> v]
<1> DEFINE r == run
<1>1. r = [pc |-> r.pc, todo |-> r.todo, id |-> r.id, session |-> r.session, token |-> r.token, view |-> r.view]
  BY DEF RunShape
<1>2. run' = [r EXCEPT !.view = v]
  BY DEF r
<1> HIDE DEF r
<1>3. [r EXCEPT !.view = v]
         = [pc |-> r.pc, todo |-> r.todo, id |-> r.id, session |-> r.session, token |-> r.token, view |-> v]
  BY <1>1
<1> QED
  BY <1>2, <1>3 DEF r

\* The run waits for a revocation.
LEMMA RunAsks ==
    ASSUME RunShape, NEW i, AskRevoke(i)
    PROVE  run' = [pc |-> "revoke", todo |-> run.todo, id |-> i, session |-> run.session, token |-> run.token, view |-> run.view]
<1>0. run = [pc |-> run.pc, todo |-> run.todo, id |-> run.id, session |-> run.session, token |-> run.token, view |-> run.view]
  BY DEF RunShape
<1> DEFINE a == [run EXCEPT !.pc = "revoke"]
<1>1. a = [pc |-> "revoke", todo |-> run.todo, id |-> run.id, session |-> run.session, token |-> run.token, view |-> run.view]
  BY <1>0
<1> HIDE DEF a
<1> DEFINE b == [a EXCEPT !.id = i]
<1>2. b = [pc |-> "revoke", todo |-> run.todo, id |-> i, session |-> run.session, token |-> run.token, view |-> run.view]
  BY <1>1
<1> HIDE DEF b
<1> QED
  BY <1>2 DEF a, b, AskRevoke

\* The run waits for a registration.
LEMMA RunPuts ==
    ASSUME RunShape, NEW i, run' = [run EXCEPT !.pc = "put", !.id = i, !.view = NoOne]
    PROVE  run' = [pc |-> "put", todo |-> run.todo, id |-> i, session |-> run.session, token |-> run.token, view |-> NoOne]
<1>0. run = [pc |-> run.pc, todo |-> run.todo, id |-> run.id, session |-> run.session, token |-> run.token, view |-> run.view]
  BY DEF RunShape
<1> DEFINE a == [run EXCEPT !.pc = "put"]
<1>1. a = [pc |-> "put", todo |-> run.todo, id |-> run.id, session |-> run.session, token |-> run.token, view |-> run.view]
  BY <1>0
<1> HIDE DEF a
<1> DEFINE b == [a EXCEPT !.id = i]
<1>2. b = [pc |-> "put", todo |-> run.todo, id |-> i, session |-> run.session, token |-> run.token, view |-> run.view]
  BY <1>1
<1> HIDE DEF b
<1> DEFINE c == [b EXCEPT !.view = NoOne]
<1>3. c = [pc |-> "put", todo |-> run.todo, id |-> i, session |-> run.session, token |-> run.token, view |-> NoOne]
  BY <1>2
<1> HIDE DEF c
<1> QED
  BY <1>3 DEF a, b, c

\* The run waits for the state of a binding.
LEMMA RunInspects ==
    ASSUME RunShape, NEW i, NEW s, run' = [run EXCEPT !.pc = "inspect", !.id = i, !.session = s]
    PROVE  run' = [pc |-> "inspect", todo |-> run.todo, id |-> i, session |-> s, token |-> run.token, view |-> run.view]
<1>0. run = [pc |-> run.pc, todo |-> run.todo, id |-> run.id, session |-> run.session, token |-> run.token, view |-> run.view]
  BY DEF RunShape
<1> DEFINE a == [run EXCEPT !.pc = "inspect"]
<1>1. a = [pc |-> "inspect", todo |-> run.todo, id |-> run.id, session |-> run.session, token |-> run.token, view |-> run.view]
  BY <1>0
<1> HIDE DEF a
<1> DEFINE b == [a EXCEPT !.id = i]
<1>2. b = [pc |-> "inspect", todo |-> run.todo, id |-> i, session |-> run.session, token |-> run.token, view |-> run.view]
  BY <1>1
<1> HIDE DEF b
<1> DEFINE c == [b EXCEPT !.session = s]
<1>3. c = [pc |-> "inspect", todo |-> run.todo, id |-> i, session |-> s, token |-> run.token, view |-> run.view]
  BY <1>2
<1> HIDE DEF c
<1> QED
  BY <1>3 DEF a, b, c

\* The run goes on with the next entry.
LEMMA RunGoesOn ==
    ASSUME RunShape, NEW i, NextEntry(i)
    PROVE  run' = [pc |-> "entries", todo |-> run.todo \ {i}, id |-> 0, session |-> run.session, token |-> run.token, view |-> NoOne]
<1>0. run = [pc |-> run.pc, todo |-> run.todo, id |-> run.id, session |-> run.session, token |-> run.token, view |-> run.view]
  BY DEF RunShape
<1> DEFINE a == [run EXCEPT !.pc = "entries"]
<1>1. a = [pc |-> "entries", todo |-> run.todo, id |-> run.id, session |-> run.session, token |-> run.token, view |-> run.view]
  BY <1>0
<1> HIDE DEF a
<1> DEFINE b == [a EXCEPT !.todo = run.todo \ {i}]
<1>2. b = [pc |-> "entries", todo |-> run.todo \ {i}, id |-> run.id, session |-> run.session, token |-> run.token, view |-> run.view]
  BY <1>1
<1> HIDE DEF b
<1> DEFINE c == [b EXCEPT !.id = 0]
<1>3. c = [pc |-> "entries", todo |-> run.todo \ {i}, id |-> 0, session |-> run.session, token |-> run.token, view |-> run.view]
  BY <1>2
<1> HIDE DEF c
<1> DEFINE d == [c EXCEPT !.view = NoOne]
<1>4. d = [pc |-> "entries", todo |-> run.todo \ {i}, id |-> 0, session |-> run.session, token |-> run.token, view |-> NoOne]
  BY <1>3, SMTT(40)
<1> HIDE DEF d
<1> QED
  BY <1>4 DEF a, b, c, d, NextEntry

\* A session of the past stays one.
LEMMA UserOfSession ==
    ASSUME NEW s, generation \in Nat, OfItsUser(s),
           generation' = generation + 1 \/ UNCHANGED <<generation, account>>
    PROVE  OfItsUser(s)'
<1>1. s.epoch \in Nat
  BY DEF OfItsUser, SessionRec
<1> QED
  BY <1>1 DEF OfItsUser

\* Every step keeps the types.
LEMMA PushShapeStep == PushShape /\ [PushNext]_pushVars => PushShape'
<1> SUFFICES ASSUME PushShape, [PushNext]_pushVars PROVE PushShape'
  OBVIOUS
<1>0. StoreShape /\ SessionOpen /\ RunShape
  BY DEF PushShape
<1>a. ASSUME UNCHANGED <<generation, account, desired, root, saved, binding, puts, attempts, bindings>> PROVE StoreShape'
  BY <1>0, <1>a DEF StoreShape
<1>b. ASSUME UNCHANGED <<generation, account, attached, root>> PROVE SessionOpen'
  BY <1>0, <1>b DEF SessionOpen, OfItsUser
<1>c. ASSUME UNCHANGED <<generation, account, root, run>> PROVE RunShape'
  BY <1>0, <1>c DEF RunShape, OfItsUser
<1>v. \A s : Current(s) => s # NoOne
  BY DEF Current
<1>w. run.pc \in {"inspect", "version", "put"} => run.session.user \in Users /\ run.session.epoch \in Nat
  BY <1>0 DEF RunShape, OfItsUser, SessionRec
<1>1. ASSUME NEW u \in Users, NewGeneration(u) PROVE PushShape'
  <2>1. /\ generation' = generation + 1 /\ account' = u
        /\ UNCHANGED <<desired, root, saved, binding, puts, attempts, bindings, attached, run>>
    BY <1>1 DEF NewGeneration, journalVars, serverVars
  <2>2. StoreShape'
    BY <1>0, <2>1 DEF StoreShape
  <2>3. SessionOpen'
    BY <1>0, <2>1, UserOfSession, SMTT(40) DEF SessionOpen, StoreShape
  <2>4. RunShape'
    BY <1>0, <2>1, UserOfSession DEF RunShape, StoreShape
  <2> QED
    BY <2>2, <2>3, <2>4 DEF PushShape
<1>2. ASSUME NEW t \in Tokens \cup {NoOne}, SetToken(t) PROVE PushShape'
  <2>1. /\ desired' = t
        /\ UNCHANGED <<generation, account, root, saved, binding, puts, attempts, bindings, attached, run>>
    BY <1>2 DEF SetToken, journalVars, serverVars
  <2>2. StoreShape'
    BY <1>0, <2>1 DEF StoreShape
  <2> QED
    BY <2>1, <2>2, <1>b, <1>c DEF PushShape
<1>3. ASSUME NEW b \in BOOLEAN, SetPermission(b) PROVE PushShape'
  BY <1>3, <1>a, <1>b, <1>c DEF PushShape, SetPermission, journalVars, serverVars
<1>4. ASSUME Detach PROVE PushShape'
  <2>1. attached' = NoOne /\ UNCHANGED <<generation, account, desired, root, saved, binding, puts, attempts, bindings, run>>
    BY <1>4 DEF Detach, journalVars, serverVars
  <2>2. SessionOpen'
    BY <2>1 DEF SessionOpen
  <2> QED
    BY <2>1, <2>2, <1>a, <1>c DEF PushShape
<1>5. ASSUME NEW e \in Endpoints, Configure(e) \/ Attach(e) PROVE PushShape'
  <2>1. /\ UNCHANGED <<generation, account, desired, saved, binding, puts, bindings, run>> /\ run.pc = "idle"
        /\ root' \in Endpoints \cup {NoOne} /\ (attempts' = attempts \/ attempts' = << >>)
    BY <1>0, <1>5 DEF Configure, Attach, Opens, serverVars, StoreShape
  <2>2. << >> \in [DOMAIN << >> -> AttemptRec] /\ DOMAIN << >> \subseteq Nat
    OBVIOUS
  <2>3. StoreShape'
    BY <1>0, <2>1, <2>2, Zenon DEF StoreShape
  <2>4. RunShape'
    BY <1>0, <2>1 DEF RunShape
  <2>5. SessionOpen'
    <3>1. CASE Configure(e)
      BY <3>1 DEF Configure, SessionOpen
    <3>2. CASE Attach(e)
      <4>1. root' = e /\ attached' = [epoch |-> generation, user |-> account] /\ account \in Users /\ generation \in Nat
        BY <1>0, <3>2 DEF Attach, Opens, StoreShape
      <4>2. OfItsUser(attached)'
        BY <2>1, <4>1 DEF OfItsUser, SessionRec
      <4> QED
        BY <4>1, <4>2, SMTT(40) DEF SessionOpen, OfItsUser
    <3> QED
      BY <1>5, <3>1, <3>2
  <2> QED
    BY <2>3, <2>4, <2>5, SMTT(40) DEF PushShape
<1>6. ASSUME Crash PROVE PushShape'
  <2>1. << >> \in [DOMAIN << >> -> AttemptRec] /\ DOMAIN << >> \subseteq Nat
    OBVIOUS
  <2>2. StoreShape'
    BY <1>0, <1>6, <2>1 DEF StoreShape, Crash, serverVars
  <2> QED
    BY <1>6, <2>2, IdleRun DEF PushShape, Crash, SessionOpen
\* Steps of the run that write neither server nor session.
<1>7. ASSUME StartRun \/ VisitDesired PROVE PushShape'
  <2>1. UNCHANGED <<generation, account, desired, root, saved, binding, puts, attempts, bindings, attached>>
    BY <1>7 DEF StartRun, VisitDesired, clientVars, journalVars, serverVars
  <2>2. RunShape'
    <3>1. CASE StartRun
      BY <3>1, Zenon DEF StartRun, RunShape, Idle
    <3>2. CASE VisitDesired /\ run' = Idle
      BY <3>2, IdleRun, SMTT(40)
    <3>3. CASE VisitDesired /\ run' # Idle
      <4>1. /\ run' = [pc |-> "version", todo |-> {}, id |-> 0, session |-> attached, token |-> desired, view |-> NoOne]
            /\ attached # NoOne
        BY <3>3, Zenon DEF VisitDesired, Idle, Wanted, Current
      <4> QED
        BY <1>0, <2>1, <4>1 DEF RunShape, SessionOpen, StoreShape, OfItsUser
    <3> QED
      BY <1>7, <3>1, <3>2, <3>3
  <2> QED
    BY <2>1, <2>2, <1>a, <1>b DEF PushShape
<1>n. ASSUME NEW i, NextEntry(i), UNCHANGED <<generation, account, root>> PROVE RunShape'
  BY <1>0, <1>n, RunGoesOn DEF RunShape
<1>k. ASSUME NEW i, AskRevoke(i) PROVE RunShape'
  <2>1. run' = [pc |-> "revoke", todo |-> run.todo, id |-> i, session |-> run.session, token |-> run.token, view |-> run.view]
    BY <1>0, <1>k, RunAsks, SMTT(40)
  <2> QED
    BY <1>0, <2>1, SMTT(40) DEF RunShape
<1>f. ASSUME NEW i \in DOMAIN attempts, Confirm(i) PROVE attempts' \in [DOMAIN attempts -> AttemptRec] /\ DOMAIN attempts' = DOMAIN attempts
  BY <1>0, <1>f, Zenon DEF Confirm, AttemptRec, StoreShape
<1>8. ASSUME VisitEntry PROVE PushShape'
  <2>1. UNCHANGED <<generation, account, desired, root, saved, binding, puts, attempts, bindings, attached>>
    BY <1>8 DEF VisitEntry, clientVars, journalVars, serverVars
  <2>2. PICK i : \/ NextEntry(i) \/ AskRevoke(i)
                 \/ Keep(i) /\ run' = [run EXCEPT !.pc = "inspect", !.id = i, !.session = attached]
    BY <1>8, Zenon DEF VisitEntry
  <2>3. RunShape'
    <3>1. CASE NextEntry(i) \/ AskRevoke(i)
      BY <2>1, <3>1, <1>n, <1>k
    <3>2. CASE Keep(i) /\ run' = [run EXCEPT !.pc = "inspect", !.id = i, !.session = attached]
      <4>1. run' = [pc |-> "inspect", todo |-> run.todo, id |-> i, session |-> attached, token |-> run.token, view |-> run.view]
        BY <1>0, <3>2, RunInspects, Zenon
      <4>2. attached # NoOne
        BY <3>2 DEF Keep, Current
      <4> QED
        BY <1>0, <2>1, <4>1, <4>2, SMTT(40) DEF RunShape, SessionOpen, OfItsUser
    <3> QED
      BY <2>2, <3>1, <3>2
  <2> QED
    BY <2>1, <2>3, <1>a, <1>b DEF PushShape
<1>9. ASSUME Inspected PROVE PushShape'
  <2>1. UNCHANGED <<generation, account, desired, root, saved, binding, puts, bindings, attached>>
    BY <1>9 DEF Inspected, clientVars, journalVars, serverVars
  <2>2. attempts' = attempts \/ (Keep(run.id) /\ Confirm(run.id))
    BY <1>9, Zenon DEF Inspected
  <2>3. StoreShape'
    BY <1>0, <2>1, <2>2, <1>f, SMTT(40) DEF StoreShape, Keep
  <2>4. RunShape'
    BY <1>9, <2>1, <1>n, <1>k DEF Inspected
  <2> QED
    BY <2>1, <2>3, <2>4, <1>b DEF PushShape
<1>10. ASSUME Revoked PROVE PushShape'
  <2>1. UNCHANGED <<generation, account, desired, root, binding, puts, bindings, attached>>
    BY <1>10 DEF Revoked, clientVars, serverVars
  <2>2. DOMAIN saved' = Endpoints
    BY <1>0, <1>10 DEF Revoked, StoreShape
  <2>3. attempts' \in [DOMAIN attempts' -> AttemptRec] /\ DOMAIN attempts' \subseteq Nat
    BY <1>0, <1>10 DEF Revoked, StoreShape
  <2>4. StoreShape'
    BY <1>0, <2>1, <2>2, <2>3 DEF StoreShape
  <2>5. RunShape'
    BY <1>10, <2>1, <1>n DEF Revoked
  <2> QED
    BY <2>1, <2>4, <2>5, <1>b DEF PushShape
<1>11. ASSUME RemoveFails \/ NotRegistered PROVE PushShape'
  <2>1. UNCHANGED <<generation, account, desired, root, binding, puts, attempts, attached>> /\ run' = Idle
    BY <1>11 DEF RemoveFails, NotRegistered, clientVars, serverVars
  <2>2. DOMAIN saved' = Endpoints /\ bindings' \in Nat
    BY <1>0, <1>11 DEF RemoveFails, NotRegistered, SaveFails, StoreShape
  <2>3. StoreShape'
    BY <1>0, <2>1, <2>2 DEF StoreShape
  <2> QED
    BY <2>1, <2>3, <1>b, IdleRun DEF PushShape
<1>12. ASSUME Register PROVE PushShape'
  <2>1. UNCHANGED <<generation, account, desired, root, binding, attached>> /\ bindings' = bindings + 1
    BY <1>12, SMTT(40) DEF Register, clientVars, serverVars
  <2>2. /\ run.pc = "version" /\ run.view # NoOne
        /\ run' = [pc |-> "put", todo |-> run.todo, id |-> bindings', session |-> run.session, token |-> run.token, view |-> NoOne]
    BY <1>0, <1>12, RunPuts, Zenon DEF Register
  <2>3. DOMAIN saved' = Endpoints /\ bindings' \in Nat
    BY <1>0, <1>12 DEF Register, StoreShape
  <2>4. puts' \subseteq PutRec
    <3>1. run.view.version \in Nat /\ root \in Endpoints
      BY <1>0, <2>2 DEF RunShape, ViewRec
    <3>2. Put(bindings') \in PutRec
      BY <2>2, <2>3, <3>1, <1>w DEF Put, PutRec
    <3> QED
      BY <1>0, <1>12, <3>2 DEF Register, StoreShape
  <2>5. attempts' \in [DOMAIN attempts' -> AttemptRec] /\ DOMAIN attempts' \subseteq Nat
    <3>1. [epoch |-> run.session.epoch, token |-> run.token, confirmed |-> FALSE] \in AttemptRec
      BY <1>0, <2>2, <1>w DEF AttemptRec, RunShape
    <3> QED
      BY <1>0, <1>12, <2>3, <3>1 DEF Register, StoreShape
  <2>6. StoreShape'
    BY <1>0, <2>1, <2>3, <2>4, <2>5 DEF StoreShape
  <2>7. RunShape'
    BY <1>0, <2>1, <2>2 DEF RunShape, OfItsUser
  <2> QED
    BY <2>1, <2>6, <2>7, <1>b DEF PushShape
<1>13. ASSUME PutAnswered \/ RunFails PROVE PushShape'
  <2>1. UNCHANGED <<generation, account, desired, root, saved, binding, puts, bindings, attached>> /\ run' = Idle
    BY <1>13 DEF PutAnswered, RunFails, clientVars, journalVars, serverVars
  <2>2. attempts' = attempts \/ (Keep(run.id) /\ Confirm(run.id))
    BY <1>13, Zenon DEF PutAnswered, RunFails
  <2>3. StoreShape'
    BY <1>0, <2>1, <2>2, <1>f DEF StoreShape, Keep
  <2> QED
    BY <2>1, <2>3, <1>b, IdleRun DEF PushShape
<1>14. ASSUME ServeInspect PROVE PushShape'
  <2>1. UNCHANGED <<generation, account, desired, root, saved, binding, puts, attempts, bindings, attached>>
    BY <1>14 DEF ServeInspect, clientVars, journalVars, serverVars
  <2>2. /\ run.pc \in {"inspect", "version"} /\ run' = [pc |-> run.pc, todo |-> run.todo, id |-> run.id, session |-> run.session, token |-> run.token,
                                                         view |-> binding[root][run.session.user]]
    BY <1>0, <1>14, RunAnswered DEF ServeInspect
  <2>3. binding[root][run.session.user] \in ViewRec
    BY <1>0, <2>2, <1>w DEF RunShape, StoreShape
  <2>4. RunShape'
    BY <1>0, <2>1, <2>2, <2>3 DEF RunShape, OfItsUser
  <2> QED
    BY <2>1, <2>4, <1>a, <1>b DEF PushShape
<1>15. ASSUME NEW p \in puts, ServePut(p) PROVE PushShape'
  <2>1. UNCHANGED <<generation, account, desired, root, saved, attempts, bindings, attached>> /\ puts' \subseteq puts
    BY <1>15 DEF ServePut, clientVars, journalVars
  <2>2. p \in PutRec /\ p.id \in Nat /\ p.endpoint \in Endpoints /\ p.user \in Users
    BY <1>0 DEF StoreShape, PutRec
  <2>3. binding' \in [Endpoints -> [Users -> ViewRec]]
    <3> DEFINE v == [id |-> p.id, version |-> binding[p.endpoint][p.user].version + 1]
    <3>1. v \in ViewRec
      BY <1>0, <2>2 DEF StoreShape, ViewRec
    <3>2. binding' = binding \/ binding' = [binding EXCEPT ![p.endpoint] = [binding[p.endpoint] EXCEPT ![p.user] = v]]
      BY <1>0, <1>15, <2>2 DEF ServePut, Bind, StoreShape
    <3> HIDE DEF v
    <3> QED
      BY <1>0, <2>2, <3>1, <3>2 DEF StoreShape
  <2>4. StoreShape'
    BY <1>0, <2>1, <2>3 DEF StoreShape
  <2>5. RunShape'
    <3>1. CASE run' = run
      BY <2>1, <3>1, <1>c
    <3>2. CASE run' # run
      <4>1. run.pc = "put" /\ run' = [run EXCEPT !.view = binding'[p.endpoint][p.user]]
        BY <1>15, <3>2 DEF ServePut
      <4>2. run' = [pc |-> run.pc, todo |-> run.todo, id |-> run.id, session |-> run.session, token |-> run.token,
                    view |-> binding'[p.endpoint][p.user]]
        BY <1>0, <4>1, RunAnswered
      <4> QED
        BY <1>0, <2>1, <4>1, <4>2 DEF RunShape, OfItsUser
    <3> QED
      BY <3>1, <3>2
  <2> QED
    BY <2>1, <2>4, <2>5, <1>b DEF PushShape
<1>16. ASSUME NEW id \in posts, ServePost(id) PROVE PushShape'
  <2>1. UNCHANGED <<generation, account, desired, root, saved, attempts, bindings, attached, puts, run>>
    BY <1>16 DEF ServePost, clientVars, journalVars
  <2>2. binding' \in [Endpoints -> [Users -> ViewRec]]
    BY <1>0, <1>16 DEF ServePost, StoreShape, ViewRec
  <2>3. StoreShape'
    BY <1>0, <2>1, <2>2 DEF StoreShape
  <2> QED
    BY <2>1, <2>3, <1>b, <1>c DEF PushShape
<1>17. CASE UNCHANGED pushVars
  BY <1>17, <1>a, <1>b, <1>c DEF PushShape, pushVars, clientVars, journalVars, serverVars
<1> QED
  BY <1>1, <1>2, <1>3, <1>4, <1>5, <1>6, <1>7, <1>8, <1>9, <1>10, <1>11, <1>12, <1>13, <1>14, <1>15, <1>16, <1>17
     DEF PushNext, HostSteps, RunSteps, ServerSteps

\* Every step keeps what may be bound in the journal, on disk and in memory.
LEMMA JournalStep == JournalInv /\ [PushNext]_pushVars => JournalInv'
<1> SUFFICES ASSUME JournalInv, [PushNext]_pushVars PROVE JournalInv'
  OBVIOUS
<1> DEFINE Goal == BindingIsRevocable' /\ JournalKnows'
<1>0. PushShape /\ PushShape' /\ StoreShape /\ BindingIsRevocable /\ JournalKnows
  BY PushShapeStep DEF JournalInv, PushShape
<1>e. NoOne \notin Endpoints
  BY PushAssumption
<1>a. ASSUME UNCHANGED <<root, entries, saved, binding, revoked, puts>> PROVE Goal
  BY <1>0, <1>a DEF BindingIsRevocable, JournalKnows
\* The journal in memory is written, whatever else it then has or has lost.
<1>s. ASSUME NEW next, \A e \in Endpoints : saved'[e] = saved[e] \/ (e = root /\ saved'[e] = next),
             \A u \in Users : root \in Endpoints /\ binding[root][u].id # 0 => binding[root][u].id \in next,
             \A p \in puts : root \in Endpoints /\ p.endpoint = root => p.id \in next \cup revoked,
             UNCHANGED <<binding, revoked, puts>>
      PROVE  BindingIsRevocable'
  BY <1>0, <1>s DEF BindingIsRevocable
<1>1. ASSUME NEW e \in Endpoints, Configure(e) \/ Attach(e) PROVE Goal
  <2>1. UNCHANGED <<saved, binding, revoked, puts>>
    BY <1>1 DEF Configure, Attach, serverVars
  <2>2. BindingIsRevocable'
    BY <1>0, <2>1 DEF BindingIsRevocable
  <2>3. \/ root' = root /\ entries' = entries
        \/ root' = e /\ entries' = saved[e]
        \/ root' = NoOne
    BY <1>1 DEF Configure, Attach, Opens
  <2>4. JournalKnows'
    BY <1>0, <1>e, <2>1, <2>3 DEF BindingIsRevocable, JournalKnows
  <2> QED
    BY <2>2, <2>4
<1>2. ASSUME Crash PROVE Goal
  BY <1>0, <1>2, <1>e DEF Crash, serverVars, BindingIsRevocable, JournalKnows
<1>3. ASSUME Revoked \/ RemoveFails PROVE Goal
  <2>1. UNCHANGED <<root, binding, revoked, puts>> /\ run.id \in revoked
    BY <1>3 DEF Revoked, RemoveFails, serverVars
  <2>2. \A e \in Endpoints : saved'[e] = saved[e] \/ (e = root /\ saved'[e] = entries \ {run.id})
    BY <1>0, <1>3 DEF Revoked, RemoveFails, SaveFails, StoreShape
  <2>3. entries' = entries \/ entries' = entries \ {run.id}
    BY <1>3 DEF Revoked, RemoveFails
  <2>4. /\ \A u \in Users : root \in Endpoints /\ binding[root][u].id # 0 => binding[root][u].id \in entries \ {run.id}
        /\ \A p \in puts : root \in Endpoints /\ p.endpoint = root => p.id \in (entries \ {run.id}) \cup revoked
    BY <1>0, <2>1 DEF JournalKnows
  <2>5. BindingIsRevocable'
    BY <2>1, <2>2, <2>4, <1>s
  <2>6. JournalKnows'
    BY <1>0, <2>1, <2>3, <2>4 DEF JournalKnows
  <2> QED
    BY <2>5, <2>6
<1>4. ASSUME NotRegistered PROVE Goal
  <2>1. UNCHANGED <<root, entries, binding, revoked, puts>>
    BY <1>4 DEF NotRegistered, serverVars
  <2>2. \A e \in Endpoints : saved'[e] = saved[e] \/ (e = root /\ saved'[e] = entries \cup {bindings'})
    BY <1>0, <1>4 DEF NotRegistered, SaveFails, StoreShape
  <2>3. BindingIsRevocable'
    BY <1>0, <2>1, <2>2, <1>s DEF JournalKnows
  <2>4. JournalKnows'
    BY <1>0, <2>1 DEF JournalKnows
  <2> QED
    BY <2>3, <2>4
<1>5. ASSUME Register PROVE Goal
  <2> DEFINE id == bindings'
  <2>1. /\ UNCHANGED <<root, binding, revoked>> /\ entries' = entries \cup {id}
        /\ root \in Endpoints
    BY <1>0, <1>5 DEF Register, serverVars, PushShape, RunShape
  <2>2. \A e \in Endpoints : IF e = root THEN saved'[e] = entries' ELSE saved'[e] = saved[e]
    BY <1>0, <1>5 DEF Register, StoreShape
  <2>3. \A p \in puts' : p \in puts \/ (p.id = id /\ p.endpoint = root)
    BY <1>5 DEF Register, Put
  <2> HIDE DEF id
  <2>4. BindingIsRevocable'
    BY <1>0, <2>1, <2>2, <2>3 DEF BindingIsRevocable, JournalKnows
  <2>5. JournalKnows'
    BY <1>0, <2>1, <2>3 DEF JournalKnows
  <2> QED
    BY <2>4, <2>5
<1>6. ASSUME NEW p \in puts, ServePut(p) PROVE Goal
  <2>1. UNCHANGED <<root, entries, saved, revoked>> /\ puts' \subseteq puts
    BY <1>6 DEF ServePut, journalVars
  <2>2. p.endpoint \in Endpoints /\ p.user \in Users
    BY <1>0 DEF StoreShape, PutRec
  <2>3. \A e \in Endpoints, u \in Users :
           \/ binding'[e][u] = binding[e][u]
           \/ e = p.endpoint /\ binding'[e][u].id = p.id /\ p.id \notin revoked
    BY <1>0, <1>6, <2>2 DEF ServePut, Bind, StoreShape
  <2>4. BindingIsRevocable'
    BY <1>0, <2>1, <2>3 DEF BindingIsRevocable
  <2>5. JournalKnows'
    BY <1>0, <2>1, <2>3 DEF JournalKnows
  <2> QED
    BY <2>4, <2>5
<1>7. ASSUME NEW id \in posts, ServePost(id) PROVE Goal
  <2>1. UNCHANGED <<root, entries, saved, puts>> /\ revoked' = revoked \cup {id}
    BY <1>7 DEF ServePost, journalVars
  <2>2. \A e \in Endpoints, u \in Users :
           \/ binding'[e][u] = binding[e][u] /\ binding[e][u].id # id
           \/ binding'[e][u].id = 0
    BY <1>7 DEF ServePost
  <2>3. BindingIsRevocable'
    BY <1>0, <2>1, <2>2 DEF BindingIsRevocable
  <2>4. JournalKnows'
    BY <1>0, <2>1, <2>2 DEF JournalKnows
  <2> QED
    BY <2>3, <2>4
<1>8. ASSUME \/ \E u \in Users : NewGeneration(u)
             \/ \E t \in Tokens \cup {NoOne} : SetToken(t)
             \/ \E b \in BOOLEAN : SetPermission(b)
             \/ Detach
      PROVE Goal
  <2>1. UNCHANGED <<journalVars, serverVars, puts>>
    BY <1>8 DEF NewGeneration, SetToken, SetPermission, Detach
  <2> QED
    BY <2>1, <1>a DEF journalVars, serverVars
<1>9. ASSUME StartRun \/ VisitEntry \/ Inspected \/ VisitDesired \/ PutAnswered \/ RunFails \/ ServeInspect \/ UNCHANGED pushVars
      PROVE Goal
  <2>1. UNCHANGED <<journalVars, serverVars, puts>>
    BY <1>9 DEF StartRun, VisitEntry, Inspected, VisitDesired, PutAnswered, RunFails, ServeInspect, pushVars
  <2> QED
    BY <2>1, <1>a DEF journalVars, serverVars
<1>10. Goal
  <2> HIDE DEF Goal
  <2> QED
    BY <1>1, <1>2, <1>3, <1>4, <1>5, <1>6, <1>7, <1>8, <1>9 DEF PushNext, HostSteps, RunSteps, ServerSteps
<1> QED
  BY <1>0, <1>10 DEF JournalInv

\* For any number of users, endpoints, tokens and bindings: whatever the server has bound, or a
\* request on the wire may still bind, is in the journal on disk, at every point where the process
\* may end.
THEOREM EveryBindingIsRevocable == PushSpec => []BindingIsRevocable
<1>1. JournalInv => BindingIsRevocable
  BY DEF JournalInv
<1> QED
  BY <1>1, PushStarts, JournalStep, PTL DEF PushSpec

\* Every step keeps what is known about the last binding attempted.
LEMMA ConfirmStep == ConfirmInv /\ [PushNext]_pushVars => ConfirmInv'
<1> SUFFICES ASSUME ConfirmInv, [PushNext]_pushVars PROVE ConfirmInv'
  OBVIOUS
<1> DEFINE Goal == Numbered' /\ Versioned' /\ RunKnows' /\ ConfirmedHere'
<1>0. PushShape /\ PushShape' /\ StoreShape /\ SessionOpen /\ RunShape /\ Numbered /\ Versioned /\ RunKnows /\ ConfirmedHere
  BY PushShapeStep DEF ConfirmInv, PushShape
<1>e. NoOne \notin Endpoints /\ generation \in Nat /\ bindings \in Nat
  BY <1>0, PushAssumption DEF StoreShape
<1>b. \A e \in Endpoints, u \in Users : binding[e][u] \in ViewRec /\ binding[e][u].id \in Nat /\ binding[e][u].version \in Nat
  BY <1>0 DEF StoreShape, ViewRec
<1>p. \A p \in puts : p.id \in Nat /\ p.version \in Nat /\ p.endpoint \in Endpoints /\ p.user \in Users
  BY <1>0 DEF StoreShape, PutRec
<1>t. \A id \in DOMAIN attempts : id \in Nat /\ attempts[id] \in AttemptRec /\ attempts[id].epoch \in Nat /\ attempts[id].confirmed \in BOOLEAN
  BY <1>0 DEF StoreShape, AttemptRec
\* Revocations that are asked for or served only take from what is claimed.
<1>l. ASSUME UNCHANGED <<bindings, root, binding>>, revoked \cup posts \subseteq revoked' \cup posts',
             NEW u, NEW id, LastBound(u, id)
      PROVE  LastBound(u, id)'
  BY <1>l DEF LastBound
<1>n. ASSUME UNCHANGED <<bindings, binding, puts>>, generation <= generation', generation' \in Nat,
             \A id \in DOMAIN attempts' : id \in DOMAIN attempts /\ attempts'[id].epoch = attempts[id].epoch
      PROVE  Numbered'
  BY <1>0, <1>e, <1>t, <1>n, SMTT(40) DEF Numbered
<1>v. ASSUME UNCHANGED <<bindings, binding, puts>>, run'.pc = "version" => run'.view = NoOne \/ UNCHANGED <<run, root>>
      PROVE  Versioned'
  BY <1>0, <1>v, Zenon DEF Versioned
<1>k. ASSUME run'.pc \notin {"put", "inspect"} PROVE RunKnows'
  BY <1>k DEF RunKnows
<1>c. ASSUME UNCHANGED <<bindings, root, binding, generation, account>>, revoked \cup posts \subseteq revoked' \cup posts',
             \A id \in DOMAIN attempts' : id \in DOMAIN attempts /\ attempts'[id] = attempts[id]
      PROVE  ConfirmedHere'
  BY <1>0, <1>c DEF ConfirmedHere, LastBound
<1>a. ASSUME UNCHANGED <<generation, account, root, binding, puts, attempts, bindings, revoked, posts, run>> PROVE Goal
  <2>1. Numbered'
    BY <1>a, <1>n, <1>e
  <2>2. Versioned'
    BY <1>a, <1>v, Zenon
  <2>3. RunKnows'
    BY <1>0, <1>a DEF RunKnows, LastBound
  <2>4. ConfirmedHere'
    BY <1>a, <1>c
  <2> QED
    BY <2>1, <2>2, <2>3, <2>4
\* A run that waits for nothing of the server.
<1>i. ASSUME UNCHANGED <<generation, account, root, binding, puts, bindings, revoked>>, posts \subseteq posts',
             \A id \in DOMAIN attempts' : id \in DOMAIN attempts /\ attempts'[id] = attempts[id],
             run'.pc \notin {"put", "inspect"}, run'.pc = "version" => run'.view = NoOne
      PROVE Goal
  <2>1. Numbered'
    BY <1>i, <1>n, <1>e
  <2>2. Versioned'
    BY <1>i, <1>v
  <2>3. RunKnows'
    BY <1>i, <1>k
  <2>4. ConfirmedHere'
    BY <1>i, <1>c
  <2> QED
    BY <2>1, <2>2, <2>3, <2>4
\* A run that confirms what it knows to be bound.
<1>f. ASSUME UNCHANGED <<generation, account, root, binding, puts, bindings, revoked, posts>>, Keep(run.id), Confirm(run.id),
             run'.pc \in {"entries", "idle"}, run.pc \in {"put", "inspect"}, LastBound(run.session.user, run.id)
      PROVE Goal
  <2>1. \A id \in DOMAIN attempts' : /\ id \in DOMAIN attempts /\ attempts'[id].epoch = attempts[id].epoch
                                     /\ id # run.id => attempts'[id] = attempts[id]
    BY <1>t, <1>f, Zenon DEF Keep, Confirm, AttemptRec
  <2>2. run.session.user = account /\ account \in Users
    BY <1>0, <1>f, Zenon DEF Keep, Current, RunKnows, RunShape, OfItsUser, SessionRec
  <2>3. Numbered'
    BY <1>f, <1>n, <1>e, <2>1
  <2>4. Versioned'
    BY <1>f, <1>v
  <2>5. RunKnows'
    BY <1>f, <1>k, Zenon
  <2>6. ConfirmedHere'
    BY <1>0, <1>f, <2>1, <2>2 DEF ConfirmedHere, LastBound
  <2> QED
    BY <2>3, <2>4, <2>5, <2>6
<1>1. ASSUME NEW u \in Users, NewGeneration(u) PROVE Goal
  <2>1. /\ generation' = generation + 1
        /\ UNCHANGED <<root, binding, puts, attempts, bindings, revoked, posts, run>>
    BY <1>1 DEF NewGeneration, journalVars, serverVars
  <2>2. Numbered'
    BY <2>1, <1>n, <1>e
  <2>3. Versioned'
    BY <2>1, <1>v, Zenon
  <2>4. RunKnows'
    BY <1>0, <2>1, Zenon DEF RunKnows, LastBound
  <2>5. ConfirmedHere'
    BY <1>0, <2>1, <1>e, <1>t DEF ConfirmedHere, Numbered
  <2> QED
    BY <2>2, <2>3, <2>4, <2>5
<1>2. ASSUME NEW e \in Endpoints, Configure(e) \/ Attach(e) PROVE Goal
  <2>1. UNCHANGED <<generation, account, binding, puts, bindings, revoked, posts, run>> /\ run.pc = "idle"
    BY <1>2 DEF Configure, Attach, serverVars
  <2>2. \/ UNCHANGED <<root, attempts>> \/ (root' = NoOne /\ UNCHANGED attempts) \/ attempts' = << >>
    BY <1>2 DEF Configure, Attach, Opens
  <2>3. Numbered'
    BY <2>1, <2>2, <1>n, <1>e
  <2>4. Versioned'
    BY <2>1, <1>v
  <2>5. RunKnows'
    BY <2>1, <1>k
  <2>6. ConfirmedHere'
    <3>1. CASE UNCHANGED <<root, attempts>>
      BY <2>1, <3>1, <1>c
    <3>2. CASE root' = NoOne
      BY <3>2, <1>e DEF ConfirmedHere
    <3>3. CASE attempts' = << >>
      BY <3>3 DEF ConfirmedHere
    <3> QED
      BY <2>2, <3>1, <3>2, <3>3
  <2> QED
    BY <2>3, <2>4, <2>5, <2>6
<1>3. ASSUME Crash PROVE Goal
  <2>1. UNCHANGED <<generation, binding, puts, bindings, revoked, posts>> /\ attempts' = << >> /\ run'.pc = "idle"
    BY <1>3, IdleRun DEF Crash, serverVars
  <2>2. Numbered'
    BY <2>1, <1>n, <1>e
  <2>3. Versioned'
    BY <2>1, <1>v
  <2>4. RunKnows' /\ ConfirmedHere'
    BY <2>1, <1>k DEF ConfirmedHere
  <2> QED
    BY <2>2, <2>3, <2>4
<1>4. ASSUME StartRun \/ VisitDesired \/ RemoveFails \/ RunFails PROVE Goal
  <2>1. UNCHANGED <<generation, account, root, binding, puts, attempts, bindings, revoked, posts>>
    BY <1>4 DEF StartRun, VisitDesired, RemoveFails, RunFails, clientVars, journalVars, serverVars
  <2>2. run'.pc \notin {"put", "inspect"} /\ (run'.pc = "version" => run'.view = NoOne)
    <3>1. CASE run' = Idle
      BY <3>1, IdleRun
    <3>2. CASE StartRun
      BY <3>2 DEF StartRun, Idle
    <3>3. CASE VisitDesired /\ run' # Idle
      BY <3>3, SMTT(40) DEF VisitDesired, Idle
    <3> QED
      BY <1>4, <3>1, <3>2, <3>3 DEF RemoveFails, RunFails
  <2> QED
    BY <2>1, <2>2, <1>i
<1>5. ASSUME VisitEntry PROVE Goal
  <2>1. UNCHANGED <<generation, account, root, binding, puts, attempts, bindings, revoked>>
    BY <1>5 DEF VisitEntry, clientVars, journalVars, serverVars
  <2>2. PICK i : \/ (NextEntry(i) /\ UNCHANGED posts) \/ AskRevoke(i)
                 \/ Keep(i) /\ run' = [run EXCEPT !.pc = "inspect", !.id = i, !.session = attached] /\ UNCHANGED posts
    BY <1>5, Zenon DEF VisitEntry
  <2>3. CASE NextEntry(i) /\ UNCHANGED posts
    <3>1. run'.pc = "entries"
      BY <1>0, <2>3, RunGoesOn
    <3> QED
      BY <2>1, <2>3, <3>1, <1>i
  <2>4. CASE AskRevoke(i)
    <3>1. run'.pc = "revoke" /\ posts \subseteq posts'
      BY <1>0, <2>4, RunAsks, ZenonT(40) DEF AskRevoke
    <3> QED
      BY <2>1, <3>1, <1>i, SMTT(40)
  <2>5. CASE Keep(i) /\ run' = [run EXCEPT !.pc = "inspect", !.id = i, !.session = attached] /\ UNCHANGED posts
    <3>1. run' = [pc |-> "inspect", todo |-> run.todo, id |-> i, session |-> attached, token |-> run.token, view |-> run.view]
      BY <1>0, <2>5, RunInspects, Zenon
    <3>2. run'.pc = "inspect" /\ run'.id = i /\ run'.session = attached /\ run'.view = NoOne
      BY <1>0, <1>5, <3>1 DEF VisitEntry, RunShape
    <3>3. i \in DOMAIN attempts /\ attempts[i].epoch = attached.epoch
      BY <2>5 DEF Keep
    <3>4. RunKnows'
      BY <2>1, <3>2, <3>3 DEF RunKnows
    <3>5. Numbered'
      BY <2>1, <1>n, <1>e
    <3>6. Versioned'
      BY <2>1, <3>2, <1>v
    <3>7. ConfirmedHere'
      BY <2>1, <2>5, <1>c
    <3> QED
      BY <3>4, <3>5, <3>6, <3>7
  <2> QED
    BY <2>2, <2>3, <2>4, <2>5
<1>6. ASSUME Inspected PROVE Goal
  <2>1. UNCHANGED <<generation, account, root, binding, puts, bindings, revoked>> /\ run.pc = "inspect" /\ run.view # NoOne
    BY <1>6 DEF Inspected, clientVars, journalVars, serverVars
  <2>2. CASE AskRevoke(run.id) /\ attempts' = attempts
    <3>1. run'.pc = "revoke" /\ posts \subseteq posts'
      BY <1>0, <2>2, RunAsks, Zenon DEF AskRevoke
    <3> QED
      BY <2>1, <2>2, <3>1, <1>i, SMTT(40)
  <2>3. CASE run.view.id = run.id /\ Keep(run.id) /\ Confirm(run.id) /\ NextEntry(run.id) /\ posts' = posts
    <3>1. run'.pc = "entries"
      BY <1>0, <2>3, RunGoesOn
    <3>2. LastBound(run.session.user, run.id)
      BY <1>0, <2>1, <2>3 DEF RunKnows
    <3> QED
      BY <2>1, <2>3, <3>1, <3>2, <1>f
  <2>4. \/ AskRevoke(run.id) /\ attempts' = attempts
        \/ run.view.id = run.id /\ Keep(run.id) /\ Confirm(run.id) /\ NextEntry(run.id) /\ posts' = posts
    BY <1>6, Zenon DEF Inspected
  <2> QED
    BY <2>2, <2>3, <2>4
<1>7. ASSUME Revoked PROVE Goal
  <2>1. UNCHANGED <<generation, account, root, binding, puts, bindings, revoked, posts>>
    BY <1>7, Zenon DEF Revoked, clientVars, serverVars
  <2>2. run'.pc = "entries"
    BY <1>0, <1>7, RunGoesOn DEF Revoked
  <2>3. \A id \in DOMAIN attempts' : id \in DOMAIN attempts /\ attempts'[id] = attempts[id]
    BY <1>7 DEF Revoked
  <2> QED
    BY <2>1, <2>2, <2>3, <1>i, Zenon
<1>8. ASSUME PutAnswered PROVE Goal
  <2>1. /\ UNCHANGED <<generation, account, root, binding, puts, bindings, revoked, posts>>
        /\ run.pc = "put" /\ run.view # NoOne /\ run'.pc = "idle"
    BY <1>8, IdleRun DEF PutAnswered, clientVars, journalVars, serverVars
  <2>2. CASE attempts' = attempts
    BY <2>1, <2>2, <1>i
  <2>3. CASE Keep(run.id) /\ Confirm(run.id)
    <3>1. LastBound(run.session.user, run.id)
      BY <1>0, <2>1 DEF RunKnows
    <3> QED
      BY <2>1, <2>3, <3>1, <1>f, Zenon
  <2>4. attempts' = attempts \/ (Keep(run.id) /\ Confirm(run.id))
    BY <1>8, Zenon DEF PutAnswered
  <2> QED
    BY <2>2, <2>3, <2>4
\* A new binding: nothing is confirmed or bound under its number yet.
<1>r. ASSUME bindings' = bindings + 1, UNCHANGED <<generation, account, root, binding>>,
             \A id \in DOMAIN attempts' :
                \/ id \in DOMAIN attempts /\ attempts'[id] = attempts[id]
                \/ id = bindings' /\ attempts'[id].epoch <= generation /\ attempts'[id].confirmed = FALSE
      PROVE  /\ \A e \in Endpoints, u \in Users : binding'[e][u].id <= bindings' /\ binding'[e][u].id # bindings'
             /\ \A p \in puts : p.id <= bindings' /\ p.id # bindings'
             /\ \A id \in DOMAIN attempts' : id # 0 /\ id <= bindings' /\ attempts'[id].epoch <= generation'
             /\ ConfirmedHere'
  <2>1. \A e \in Endpoints, u \in Users : binding'[e][u].id <= bindings' /\ binding'[e][u].id # bindings'
    BY <1>0, <1>r, <1>b, <1>e DEF Numbered
  <2>2. \A p \in puts : p.id <= bindings' /\ p.id # bindings'
    BY <1>0, <1>r, <1>p, <1>e DEF Numbered
  <2>3. \A id \in DOMAIN attempts' : id # 0 /\ id <= bindings' /\ attempts'[id].epoch <= generation'
    BY <1>0, <1>r, <1>t, <1>e DEF Numbered
  <2>4. \A id \in DOMAIN attempts : id # bindings'
    BY <1>0, <1>r, <1>t, <1>e DEF Numbered
  <2>5. ConfirmedHere'
    BY <1>0, <1>r, <2>4, SMTT(40) DEF ConfirmedHere, LastBound
  <2> QED
    BY <2>1, <2>2, <2>3, <2>5, Zenon
<1>9. ASSUME NotRegistered PROVE Goal
  <2>1. /\ UNCHANGED <<generation, account, root, binding, puts, attempts, revoked, posts>>
        /\ run'.pc = "idle"
    BY <1>9, IdleRun DEF NotRegistered, clientVars, serverVars
  <2>2. CASE bindings' = bindings
    BY <2>1, <2>2, <1>i
  <2>3. CASE bindings' = bindings + 1
    <3>1. Numbered'
      BY <2>1, <2>3, <1>r, Zenon DEF Numbered
    <3>2. Versioned'
      BY <1>0, <2>1, <2>3, <1>r, <1>p, Zenon DEF Versioned
    <3>3. RunKnows'
      BY <2>1, <1>k
    <3> QED
      BY <2>1, <2>3, <3>1, <3>2, <3>3, <1>r, Zenon
  <2>4. bindings' = bindings \/ bindings' = bindings + 1
    BY <1>9 DEF NotRegistered
  <2> QED
    BY <2>2, <2>3, <2>4, Zenon
<1>10. ASSUME Register PROVE Goal
  <2>1. UNCHANGED <<generation, account, root, binding, revoked, posts>> /\ bindings' = bindings + 1
    BY <1>10 DEF Register, clientVars, serverVars
  <2>2. /\ run.pc = "version" /\ run.view # NoOne /\ root \in Endpoints
        /\ run.view.version <= binding[root][run.session.user].version
        /\ run.session.epoch <= generation /\ run.session.user \in Users
    BY <1>0, <1>10, SMTT(40) DEF Register, RunShape, OfItsUser, SessionRec, Versioned
  <2>3. run' = [pc |-> "put", todo |-> run.todo, id |-> bindings', session |-> run.session, token |-> run.token, view |-> NoOne]
    BY <1>0, <1>10, RunPuts, Zenon DEF Register
  <2>4. run'.pc = "put" /\ run'.id = bindings' /\ run'.session = run.session /\ run'.view = NoOne
    BY <2>3
  <2>5. /\ DOMAIN attempts' = DOMAIN attempts \cup {bindings'}
        /\ \A id \in DOMAIN attempts : id # bindings' => attempts'[id] = attempts[id]
        /\ attempts'[bindings'].epoch = run.session.epoch /\ attempts'[bindings'].confirmed = FALSE
    BY <1>10 DEF Register
  <2>6. \A p \in puts' : \/ p \in puts
                         \/ p.id = bindings' /\ p.endpoint = root /\ p.user = run.session.user /\ p.version = run.view.version
    BY <1>10 DEF Register, Put
  <2>7. \A id \in DOMAIN attempts' :
           \/ id \in DOMAIN attempts /\ attempts'[id] = attempts[id]
           \/ id = bindings' /\ attempts'[id].epoch <= generation /\ attempts'[id].confirmed = FALSE
    BY <2>2, <2>5
  <2>8. /\ \A e \in Endpoints, u \in Users : binding'[e][u].id <= bindings' /\ binding'[e][u].id # bindings'
        /\ \A p \in puts : p.id <= bindings' /\ p.id # bindings'
        /\ \A id \in DOMAIN attempts' : id # 0 /\ id <= bindings' /\ attempts'[id].epoch <= generation'
        /\ ConfirmedHere'
    BY <2>1, <2>7, <1>r, Zenon
  <2>9. Numbered'
    <3>1. bindings' <= bindings'
      BY <1>e, <2>1
    <3>2. \A p \in puts' : p.id <= bindings'
      BY <2>6, <2>8, <3>1, Zenon
    <3> QED BY <2>8, <3>2, Zenon DEF Numbered
  <2>10. Versioned'
    <3>1. \A p \in puts : p.version <= binding'[p.endpoint][p.user].version
      BY <1>0, <2>1, Zenon DEF Versioned
    <3>2. \A p \in puts' : /\ p.version <= binding'[p.endpoint][p.user].version
                            /\ p.endpoint \in Endpoints /\ p.user \in Users
      BY <2>1, <2>2, <2>6, <3>1, <1>p, Zenon
    <3>3. run'.pc # "version"
      BY <2>4
    <3> QED BY <2>8, <3>2, <3>3, Zenon DEF Versioned
  <2>11. RunKnows'
    BY <2>1, <2>4, <2>5, <2>6, <2>8 DEF RunKnows
  <2> QED
    BY <2>8, <2>9, <2>10, <2>11
<1>11. ASSUME ServeInspect PROVE Goal
  <2>1. UNCHANGED <<generation, account, root, binding, puts, attempts, bindings, revoked, posts>>
    BY <1>11 DEF ServeInspect, clientVars, journalVars, serverVars
  <2>2. /\ run.pc \in {"inspect", "version"}
        /\ run' = [pc |-> run.pc, todo |-> run.todo, id |-> run.id, session |-> run.session, token |-> run.token,
                   view |-> binding[root][run.session.user]]
    BY <1>0, <1>11, RunAnswered, SMTT(40) DEF ServeInspect
  <2>3. run'.pc = run.pc /\ run'.id = run.id /\ run'.session = run.session /\ run'.view = binding[root][run.session.user]
    BY <2>2
  <2>4. root \in Endpoints /\ run.session.user \in Users
    BY <1>0, <2>2 DEF RunShape, OfItsUser, SessionRec
  <2>5. Numbered'
    BY <1>0, <2>1, Zenon DEF Numbered
  <2>6. Versioned'
    <3>1. binding[root][run.session.user].version <= binding[root][run.session.user].version
      BY <1>b, <2>4
    <3> QED BY <1>0, <2>1, <2>3, <3>1, Zenon DEF Versioned
  <2>7. RunKnows'
    <3>1. run'.pc # "put"
      BY <2>2, <2>3
    <3>2. run'.pc = "inspect" => run'.id \in DOMAIN attempts' /\ attempts'[run'.id].epoch = run'.session.epoch
      BY <1>0, <2>1, <2>3, Zenon DEF RunKnows
    <3>3. run'.view.id = run'.id => binding'[root'][run'.session.user].id = run'.id
      BY <2>1, <2>3
    <3> QED BY <3>1, <3>2, <3>3, Zenon DEF RunKnows, LastBound
  <2>8. ConfirmedHere'
    BY <2>1, <1>c
  <2> QED
    BY <2>5, <2>6, <2>7, <2>8
<1>12. ASSUME NEW p \in puts, ServePut(p) PROVE Goal
  <2>1. UNCHANGED <<generation, account, root, attempts, bindings, revoked, posts>> /\ puts' = puts \ {p}
    BY <1>12 DEF ServePut, clientVars, journalVars
  <2>2. CASE UNCHANGED <<binding, run>>
    <3>1. Numbered'
      BY <1>0, <2>1, <2>2, Zenon DEF Numbered
    <3>2. Versioned'
      BY <1>0, <2>1, <2>2, Zenon DEF Versioned
    <3>3. RunKnows'
      BY <1>0, <2>1, <2>2 DEF RunKnows, LastBound
    <3>4. ConfirmedHere'
      BY <2>1, <2>2, <1>c
    <3> QED
      BY <3>1, <3>2, <3>3, <3>4, SMTT(40)
  <2>3. ASSUME p.version = binding[p.endpoint][p.user].version, Bind(p.endpoint, p.user, p.id),
               run' = IF run.pc = "put" /\ run.id = p.id THEN [run EXCEPT !.view = binding'[p.endpoint][p.user]] ELSE run
        PROVE  Goal
    <3>1. /\ \A e \in Endpoints, u \in Users :
                e # p.endpoint \/ u # p.user => binding'[e][u] = binding[e][u]
          /\ binding'[p.endpoint][p.user] = [id |-> p.id, version |-> p.version + 1]
      BY <1>0, <1>p, <2>3 DEF Bind, StoreShape
    <3>2. ~(binding[p.endpoint][p.user].id = bindings /\ bindings # 0)
      BY <1>0, <2>3, ZenonT(40) DEF Versioned
    <3>3. \A u \in Users, id \in Nat \ {0} : root \in Endpoints /\ LastBound(u, id) => LastBound(u, id)'
      BY <2>1, <3>1, <3>2, <1>e DEF LastBound
    <3>4. \A e \in Endpoints, u \in Users : binding[e][u].version <= binding'[e][u].version
      BY <1>b, <1>p, <2>3, <3>1, SMTT(40)
    <3>5. binding'[p.endpoint][p.user].id = p.id /\ binding'[p.endpoint][p.user].version = p.version + 1
      BY <3>1, SMTT(40)
    <3>6. Numbered'
      BY <1>0, <2>1, <3>1, <3>5, ZenonT(40) DEF Numbered
    <3>7. \A q \in puts' : /\ q.version <= binding'[q.endpoint][q.user].version
                           /\ binding'[q.endpoint][q.user].id = bindings' /\ bindings' # 0 =>
                                 q.version # binding'[q.endpoint][q.user].version
      <4> SUFFICES ASSUME NEW q \in puts'
                   PROVE  /\ q.version <= binding'[q.endpoint][q.user].version
                          /\ binding'[q.endpoint][q.user].id = bindings' /\ bindings' # 0 =>
                                q.version # binding'[q.endpoint][q.user].version
        OBVIOUS
      <4>1. q \in puts /\ q.version \in Nat /\ q.endpoint \in Endpoints /\ q.user \in Users /\ p.version \in Nat
        BY <2>1, <1>p, Zenon
      <4>2. CASE q.endpoint = p.endpoint /\ q.user = p.user
        <5>1. q.version <= p.version
          BY <1>0, <2>3, <4>1, <4>2, SMTT(40) DEF Versioned
        <5> QED
          BY <3>5, <4>1, <4>2, <5>1
      <4>3. CASE ~(q.endpoint = p.endpoint /\ q.user = p.user)
        <5>1. binding'[q.endpoint][q.user] = binding[q.endpoint][q.user]
          BY <3>1, <4>1, <4>3, SMTT(40)
        <5>2. /\ q.version <= binding[q.endpoint][q.user].version
              /\ binding[q.endpoint][q.user].id = bindings /\ bindings # 0 =>
                    q.version # binding[q.endpoint][q.user].version
          BY <1>0, <4>1, Zenon DEF Versioned
        <5> QED
          BY <2>1, <5>1, <5>2, Zenon
      <4> QED
        BY <4>2, <4>3, Zenon
    <3>8. ConfirmedHere'
      <4> SUFFICES ASSUME root' \in Endpoints, NEW id \in DOMAIN attempts', attempts'[id].confirmed, attempts'[id].epoch = generation'
                   PROVE  account \in Users /\ LastBound(account, id)'
        BY <2>1, Zenon DEF ConfirmedHere
      <4>1. account \in Users /\ LastBound(account, id) /\ id \in Nat \ {0}
        BY <1>0, <1>t, <2>1 DEF ConfirmedHere, Numbered
      <4>2. \A u \in Users : LastBound(u, id) => LastBound(u, id)'
        BY <2>1, <3>3, <4>1, Zenon
      <4>3. LastBound(account, id)'
        BY <2>1, <4>1, <4>2 DEF LastBound
      <4> QED
        BY <4>1, <4>3
    <3>9. CASE run' = run
      <4>1. Versioned'
        <5>1. run.pc = "version" => root \in Endpoints /\ run.session.user \in Users
          BY <1>0, Zenon DEF RunShape, OfItsUser, SessionRec
        <5>2. run.pc = "version" /\ run.view # NoOne => run.view.version \in Nat
          BY <1>0, Zenon DEF RunShape, ViewRec
        <5>3. run.pc = "version" /\ run.view # NoOne => run.view.version <= binding'[root][run.session.user].version
          <6> SUFFICES ASSUME run.pc = "version", run.view # NoOne
                       PROVE  run.view.version <= binding'[root][run.session.user].version
            BY Zenon
          <6>1. run.view.version <= binding[root][run.session.user].version
            BY <1>0, Zenon DEF Versioned
          <6>2. /\ binding[root][run.session.user].version <= binding'[root][run.session.user].version
                /\ binding[root][run.session.user].version \in Nat
            BY <3>4, <5>1, <1>b, Zenon
          <6>3. binding'[root][run.session.user].version \in Nat
            BY <1>0, <2>1, <5>1, SMTT(40) DEF PushShape, StoreShape, ViewRec
          <6> QED
            BY <5>2, <6>1, <6>2, <6>3, SMTT(40)
        <5> QED
          BY <2>1, <3>7, <3>9, <5>3, Zenon DEF Versioned
      <4>2. RunKnows'
        <5>1. run.pc \in {"put", "inspect"} => root \in Endpoints /\ run.session.user \in Users /\ run.id \in Nat \ {0}
          BY <1>0, <1>t DEF RunShape, OfItsUser, SessionRec, RunKnows, Numbered
        <5> QED
          BY <1>0, <2>1, <3>3, <3>9, <5>1, ZenonT(40) DEF RunKnows
      <4> QED
        BY <4>1, <4>2, <3>6, <3>8, Zenon
    <3>10. CASE run' # run
      <4>1. run.pc = "put" /\ run.id = p.id /\ run' = [run EXCEPT !.view = binding'[p.endpoint][p.user]]
        BY <2>3, <3>10
      <4>2. run' = [pc |-> run.pc, todo |-> run.todo, id |-> run.id, session |-> run.session, token |-> run.token,
                    view |-> binding'[p.endpoint][p.user]]
        BY <1>0, <4>1, RunAnswered
      <4>3. run'.pc = "put" /\ run'.id = run.id /\ run'.session = run.session
        BY <4>1, <4>2
      <4>4. p.endpoint = root /\ p.user = run.session.user
        BY <1>0, <4>1, Zenon DEF RunKnows
      <4>5. RunKnows'
        BY <1>0, <2>1, <3>5, <4>1, <4>3, <4>4, ZenonT(40) DEF RunKnows, LastBound
      <4>6. Versioned'
        BY <3>7, <4>3, Zenon DEF Versioned
      <4> QED
        BY <4>5, <4>6, <3>6, <3>8
    <3> QED
      BY <3>9, <3>10
  <2> QED
    BY <1>12, <2>2, <2>3 DEF ServePut
<1>13. ASSUME NEW id \in posts, ServePost(id) PROVE Goal
  <2>1. /\ UNCHANGED <<generation, account, root, attempts, bindings, puts, run>>
        /\ revoked' = revoked \cup {id} /\ posts' = posts \ {id}
    BY <1>13, Zenon DEF ServePost, clientVars, journalVars
  <2>2. \A e \in Endpoints, u \in Users :
           \/ binding'[e][u] = binding[e][u] /\ binding[e][u].id # id
           \/ binding[e][u].id = id /\ binding'[e][u].id = 0 /\ binding'[e][u].version = binding[e][u].version + 1
    BY <1>13, Zenon DEF ServePost
  <2>3. \A u \in Users, i \in Nat : root \in Endpoints /\ LastBound(u, i) => LastBound(u, i)'
    BY <2>1, <2>2, Zenon DEF LastBound
  <2>4. Numbered'
    <3>1. 0 <= bindings
      BY <1>e
    <3>2. \A e \in Endpoints, u \in Users : binding'[e][u].id <= bindings
      BY <1>0, <2>2, <3>1, Zenon DEF Numbered
    <3> QED BY <1>0, <2>1, <3>2, Zenon DEF Numbered
  <2>5. \A e \in Endpoints, u \in Users, n \in Nat : n <= binding[e][u].version => n <= binding'[e][u].version
    <3>1. \A x, y \in Nat : x <= y => x <= y + 1
      OBVIOUS
    <3> QED BY <2>2, <3>1, <1>b, Zenon
  <2>6. Versioned'
    <3>1. run.pc = "version" /\ run.view # NoOne => run.view.version \in Nat /\ root \in Endpoints /\ run.session.user \in Users
      BY <1>0, Zenon DEF RunShape, ViewRec, OfItsUser, SessionRec
    <3>2. run.pc = "version" /\ run.view # NoOne => run.view.version <= binding'[root][run.session.user].version
      BY <1>0, <2>5, <3>1, Zenon DEF Versioned
    <3>3. \A p \in puts : p.version <= binding'[p.endpoint][p.user].version
      BY <1>0, <2>5, <1>p, Zenon DEF Versioned
    <3>4. \A p \in puts : binding'[p.endpoint][p.user].id = bindings /\ bindings # 0 => p.version # binding'[p.endpoint][p.user].version
      BY <1>0, <2>2, <1>p, SMTT(40) DEF Versioned
    <3> QED
      BY <2>1, <3>2, <3>3, <3>4, Zenon DEF Versioned
  <2>7. RunKnows'
    <3>1. run.pc \in {"put", "inspect"} => root \in Endpoints /\ run.session.user \in Users /\ run.id \in Nat
      BY <1>0, <1>t DEF RunShape, OfItsUser, SessionRec, RunKnows
    <3> QED
      BY <1>0, <2>1, <2>3, <3>1, Zenon DEF RunKnows
  <2>8. ConfirmedHere'
    <3> SUFFICES ASSUME root' \in Endpoints, NEW i \in DOMAIN attempts', attempts'[i].confirmed, attempts'[i].epoch = generation'
                 PROVE  account \in Users /\ LastBound(account, i)'
      BY <2>1, Zenon DEF ConfirmedHere
    <3>1. account \in Users /\ LastBound(account, i) /\ i \in Nat
      BY <1>0, <1>t, <2>1, Zenon DEF ConfirmedHere
    <3>2. \A u \in Users : LastBound(u, i) => LastBound(u, i)'
      BY <2>1, <2>3, <3>1, ZenonT(40)
    <3>3. LastBound(account, i)'
      BY <2>1, <3>1, <3>2 DEF LastBound
    <3> QED
      BY <3>1, <3>3
  <2> QED
    BY <2>4, <2>6, <2>7, <2>8
<1>14. ASSUME \/ \E t \in Tokens \cup {NoOne} : SetToken(t)
              \/ \E b \in BOOLEAN : SetPermission(b)
              \/ Detach \/ UNCHANGED pushVars
       PROVE Goal
  <2>1. UNCHANGED <<generation, account, journalVars, serverVars, puts, attempts, bindings, posts, run>>
    BY <1>14 DEF SetToken, SetPermission, Detach, pushVars, clientVars
  <2> QED
    BY <2>1, <1>a, ZenonT(40) DEF journalVars, serverVars
<1>15. Goal
  <2> HIDE DEF Goal
  <2> QED
    BY <1>1, <1>2, <1>3, <1>4, <1>5, <1>6, <1>7, <1>8, <1>9, <1>10, <1>11, <1>12, <1>13, <1>14, ZenonT(40)
       DEF PushNext, HostSteps, RunSteps, ServerSteps
<1> QED
  BY <1>0, <1>15 DEF ConfirmInv

\* For any number of users, endpoints, tokens and bindings: a binding that the status counts as
\* confirmed for this session is bound at the server, if it is the last one attempted and its
\* revocation has not been asked for.
THEOREM ConfirmedBindings == PushSpec => []ConfirmedIsBound
<1>1. ConfirmInv => ConfirmedIsBound
  BY DEF ConfirmInv, PushShape, SessionOpen, OfItsUser, ConfirmedHere, ConfirmedIsBound, Keep, Current, LastBound
<1> QED
  BY <1>1, PushStarts, ConfirmStep, PTL DEF PushSpec

=============================================================================
