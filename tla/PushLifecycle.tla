---------------------------- MODULE PushLifecycle ----------------------------
(***************************************************************************)
(* src/client/push_lifecycle.rs and its journal: the registration of the   *)
(* operating system's push token for the user who is logged in, and its    *)
(* revocation when the session, the token or the permission is gone.       *)
(*                                                                         *)
(* A binding is one attempt to register; it is named by a number taken in  *)
(* order, where the code hashes a random secret.  The journal keeps the    *)
(* secret that revokes a binding, so it is written before the request that *)
(* may create it.  One provider is modelled: providers meet only in the    *)
(* order in which a run visits them.                                       *)
(***************************************************************************)
EXTENDS Naturals, FiniteSets, FiniteSetsExt

CONSTANTS
    Endpoints,      \* deployments (with the device): one journal on disk each
    Users,          \* users who log in
    Tokens,         \* tokens the operating system issues
    NoOne,          \* stands for Rust's None
    JournalMax,     \* entries a journal takes (64 in the code)
    MaxBinding,     \* bound: registrations attempted
    MaxGeneration   \* bound: session generations

ASSUME PushAssumption ==
    /\ NoOne \notin Endpoints \cup Users \cup Tokens
    /\ JournalMax \in Nat /\ MaxBinding \in Nat /\ MaxGeneration \in Nat

VARIABLES
    permission,     \* State.permission
    desired,        \* State.desired of the provider, or NoOne
    generation,     \* the client's session generation, shared as an atomic
    account,        \* the user of that generation
    attached,       \* State.session: [epoch, user], or NoOne
    root,           \* endpoint of the open journal, or NoOne
    entries,        \* Journal.entries in memory
    transport,      \* endpoint requests without a login go to, or NoOne
    attempts,       \* State.attempts: binding -> [epoch, token, confirmed]
    run,            \* the reconcile that holds the io lock
    bindings,       \* how many bindings were named so far
    saved,          \* on disk: endpoint -> entries
    binding,        \* at the server: endpoint -> user -> [id, version]
    revoked,        \* at the server: bindings revoked for good
    puts,           \* registrations on the wire
    posts           \* revocations on the wire

clientVars == <<permission, desired, generation, account, attached>>
journalVars == <<root, entries, transport, saved>>
serverVars == <<binding, revoked>>
pushVars == <<clientVars, journalVars, attempts, run, bindings, serverVars, puts, posts>>

Bindings == 1..MaxBinding
Idle == [pc |-> "idle", todo |-> {}, id |-> 0, session |-> NoOne, token |-> NoOne, view |-> NoOne]
Awaiting == {"inspect", "revoke", "version", "put"}

PushInit ==
    /\ permission = FALSE /\ desired = NoOne
    /\ generation = 0 /\ account = NoOne /\ attached = NoOne
    /\ root = NoOne /\ entries = {} /\ transport = NoOne
    /\ attempts = << >> /\ run = Idle /\ bindings = 0
    /\ saved = [e \in Endpoints |-> {}]
    /\ binding = [e \in Endpoints |-> [u \in Users |-> [id |-> 0, version |-> 0]]]
    /\ revoked = {} /\ puts = {} /\ posts = {}

-----------------------------------------------------------------------------
(* What the client and the host do.                                        *)

\* The client begins or ends a session; the attached one is no longer current.
NewGeneration(u) ==
    /\ generation < MaxGeneration
    /\ generation' = generation + 1
    /\ account' = u
    /\ UNCHANGED <<permission, desired, attached, journalVars, attempts, run, bindings, serverVars, puts, posts>>

\* update and clear
SetToken(t) ==
    /\ t # desired
    /\ desired' = t
    /\ UNCHANGED <<permission, generation, account, attached, journalVars, attempts, run, bindings, serverVars, puts, posts>>

SetPermission(allowed) ==
    /\ allowed # permission
    /\ permission' = allowed
    /\ UNCHANGED <<desired, generation, account, attached, journalVars, attempts, run, bindings, serverVars, puts, posts>>

Detach ==
    /\ attached # NoOne
    /\ attached' = NoOne
    /\ UNCHANGED <<permission, desired, generation, account, journalVars, attempts, run, bindings, serverVars, puts, posts>>

\* configure_locked(e): another endpoint is refused while the open journal has
\* entries; otherwise its journal is opened, which may fail.
Refused(e) == root # e /\ entries # {}

Opens(e) ==
    /\ ~Refused(e)
    /\ root' = e /\ transport' = e
    /\ entries' = IF root = e THEN entries ELSE saved[e]
    /\ attempts' = IF root = e THEN attempts ELSE << >>

Configure(e) ==
    /\ run.pc = "idle" /\ root # e
    /\ attached' = NoOne
    /\ \/ Opens(e)
       \/ Refused(e) /\ UNCHANGED <<root, entries, transport, attempts>>
       \/ ~Refused(e) /\ root' = NoOne /\ entries' = {} /\ UNCHANGED <<transport, attempts>>
    /\ UNCHANGED <<permission, desired, generation, account, run, bindings, saved, serverVars, puts, posts>>

\* attach: only for the generation the caller logged in with.
Attach(e) ==
    /\ run.pc = "idle" /\ account # NoOne
    /\ Opens(e)
    /\ attached' = [epoch |-> generation, user |-> account]
    /\ UNCHANGED <<permission, desired, generation, account, run, bindings, saved, serverVars, puts, posts>>

\* The process ends; the disk, the server and what is on the wire stay.
Crash ==
    /\ root # NoOne
    /\ permission' = FALSE /\ desired' = NoOne /\ account' = NoOne /\ attached' = NoOne
    /\ root' = NoOne /\ entries' = {} /\ transport' = NoOne
    /\ attempts' = << >> /\ run' = Idle
    /\ UNCHANGED <<generation, bindings, saved, serverVars, puts, posts>>

-----------------------------------------------------------------------------
(* reconcile: one run at a time, under the io lock.                        *)

Current(s) == s # NoOne /\ s.epoch = generation

\* Wrong: a binding is kept although its session ended.
KeepOldSession(id) ==
    /\ permission
    /\ id \in DOMAIN attempts
    /\ desired = attempts[id].token

\* keep_unlocked: the binding belongs to the session, the token and the
\* permission of this moment.
Keep(id) ==
    /\ permission
    /\ id \in DOMAIN attempts
    /\ Current(attached)
    /\ attached.epoch = attempts[id].epoch
    /\ desired = attempts[id].token

Confirm(id) == attempts' = [attempts EXCEPT ![id].confirmed = TRUE]

\* Wrong: only the bindings this process attempted are visited.
StartRunAttempted ==
    /\ run.pc = "idle" /\ transport # NoOne
    /\ run' = [Idle EXCEPT !.pc = "entries", !.todo = entries \cap DOMAIN attempts]
    /\ UNCHANGED <<clientVars, journalVars, attempts, bindings, serverVars, puts, posts>>

StartRun ==
    /\ run.pc = "idle" /\ transport # NoOne
    /\ run' = [Idle EXCEPT !.pc = "entries", !.todo = entries]
    /\ UNCHANGED <<clientVars, journalVars, attempts, bindings, serverVars, puts, posts>>

\* Asks the server to revoke the binding.
AskRevoke(id) ==
    /\ run' = [run EXCEPT !.pc = "revoke", !.id = id]
    /\ posts' = posts \cup {id}

NextEntry(id) == run' = [run EXCEPT !.pc = "entries", !.todo = @ \ {id}, !.id = 0, !.view = NoOne]

VisitEntry ==
    /\ run.pc = "entries" /\ run.todo # {}
    /\ LET id == Min(run.todo) IN
       \/ /\ Keep(id) /\ attempts[id].confirmed
          /\ NextEntry(id) /\ UNCHANGED posts
       \/ /\ Keep(id) /\ ~attempts[id].confirmed
          /\ run' = [run EXCEPT !.pc = "inspect", !.id = id, !.session = attached]
          /\ UNCHANGED posts
       \/ ~Keep(id) /\ AskRevoke(id)
    /\ UNCHANGED <<clientVars, journalVars, attempts, bindings, serverVars, puts>>

\* Wrong: any answer to inspect confirms the binding.
AnyAnswerConfirms ==
    /\ run.pc = "inspect" /\ run.view # NoOne
    /\ \/ /\ Keep(run.id)
          /\ Confirm(run.id) /\ NextEntry(run.id) /\ UNCHANGED posts
       \/ /\ ~Keep(run.id)
          /\ AskRevoke(run.id) /\ UNCHANGED attempts
    /\ UNCHANGED <<clientVars, journalVars, bindings, serverVars, puts>>

\* The answer to inspect: active and still wanted is a confirmation.
Inspected ==
    /\ run.pc = "inspect" /\ run.view # NoOne
    /\ \/ /\ run.view.id = run.id /\ Keep(run.id)
          /\ Confirm(run.id) /\ NextEntry(run.id) /\ UNCHANGED posts
       \/ /\ ~(run.view.id = run.id /\ Keep(run.id))
          /\ AskRevoke(run.id) /\ UNCHANGED attempts
    /\ UNCHANGED <<clientVars, journalVars, bindings, serverVars, puts>>

\* Journal.save: a failure after the rename has replaced the file.
SaveFails(next) == saved' \in {saved, [saved EXCEPT ![root] = next]}

\* Wrong: the entry is dropped as soon as the revocation was asked for.
RemoveBeforeAnswer ==
    /\ run.pc = "revoke"
    /\ entries' = entries \ {run.id}
    /\ saved' = [saved EXCEPT ![root] = entries']
    /\ attempts' = [i \in DOMAIN attempts \ {run.id} |-> attempts[i]]
    /\ NextEntry(run.id)
    /\ UNCHANGED <<clientVars, root, transport, bindings, serverVars, puts, posts>>

\* The server confirmed the revocation: the entry goes.
Revoked ==
    /\ run.pc = "revoke" /\ run.id \in revoked /\ run.id \notin posts
    /\ entries' = entries \ {run.id}
    /\ saved' = [saved EXCEPT ![root] = entries']
    /\ attempts' = [i \in DOMAIN attempts \ {run.id} |-> attempts[i]]
    /\ NextEntry(run.id)
    /\ UNCHANGED <<clientVars, root, transport, bindings, serverVars, puts, posts>>

\* The entry cannot be removed: the run ends with an error.
RemoveFails ==
    /\ run.pc = "revoke" /\ run.id \in revoked /\ run.id \notin posts
    /\ SaveFails(entries \ {run.id})
    /\ run' = Idle
    /\ UNCHANGED <<clientVars, root, entries, transport, attempts, bindings, serverVars, puts, posts>>

\* All entries are visited: is there something to register?
Wanted == permission /\ Current(attached) /\ desired # NoOne
Registered == \E id \in DOMAIN attempts : attempts[id].confirmed /\ Keep(id)

VisitDesired ==
    /\ run.pc = "entries" /\ run.todo = {}
    /\ run' = IF Wanted /\ ~Registered
              THEN [Idle EXCEPT !.pc = "version", !.session = attached, !.token = desired]
              ELSE Idle
    /\ UNCHANGED <<clientVars, journalVars, attempts, bindings, serverVars, puts, posts>>

\* What the answer was asked for still holds.
StillDesired ==
    permission /\ Current(run.session) /\ attached = run.session /\ desired = run.token

Put(id) == [id |-> id, endpoint |-> root, user |-> run.session.user, version |-> run.view.version]

\* Wrong: the request leaves before the journal has its entry.
PutThenJournal ==
    /\ run.pc = "version" /\ run.view # NoOne /\ bindings < MaxBinding
    /\ StillDesired /\ Cardinality(entries) < JournalMax
    /\ bindings' = bindings + 1
    /\ puts' = puts \cup {Put(bindings')}
    /\ attempts' = [i \in DOMAIN attempts \cup {bindings'} |->
                       IF i = bindings'
                       THEN [epoch |-> run.session.epoch, token |-> run.token, confirmed |-> FALSE]
                       ELSE attempts[i]]
    /\ run' = [run EXCEPT !.pc = "put", !.id = bindings', !.view = NoOne]
    /\ UNCHANGED <<clientVars, journalVars, serverVars, posts>>

\* The intent is saved, then the registration is sent.
Register ==
    /\ run.pc = "version" /\ run.view # NoOne /\ bindings < MaxBinding
    /\ StillDesired /\ Cardinality(entries) < JournalMax
    /\ bindings' = bindings + 1
    /\ entries' = entries \cup {bindings'}
    /\ saved' = [saved EXCEPT ![root] = entries']
    /\ puts' = puts \cup {Put(bindings')}
    /\ attempts' = [i \in DOMAIN attempts \cup {bindings'} |->
                       IF i = bindings'
                       THEN [epoch |-> run.session.epoch, token |-> run.token, confirmed |-> FALSE]
                       ELSE attempts[i]]
    /\ run' = [run EXCEPT !.pc = "put", !.id = bindings', !.view = NoOne]
    /\ UNCHANGED <<clientVars, root, transport, serverVars, posts>>

\* It is not wanted any more, the journal is full, or its write fails.
NotRegistered ==
    /\ run.pc = "version" /\ run.view # NoOne
    /\ run' = Idle
    /\ \/ /\ ~StillDesired \/ Cardinality(entries) >= JournalMax
          /\ UNCHANGED <<saved, bindings>>
       \/ /\ StillDesired /\ bindings < MaxBinding
          /\ bindings' = bindings + 1
          /\ SaveFails(entries \cup {bindings'})
    /\ UNCHANGED <<clientVars, root, entries, transport, attempts, serverVars, puts, posts>>

\* The server took the registration.
PutAnswered ==
    /\ run.pc = "put" /\ run.view # NoOne
    /\ IF Keep(run.id) THEN Confirm(run.id) ELSE UNCHANGED attempts
    /\ run' = Idle
    /\ UNCHANGED <<clientVars, journalVars, bindings, serverVars, puts, posts>>

\* An error, no answer within five seconds, or twenty seconds for the run.
RunFails ==
    /\ run.pc \in Awaiting
    /\ run' = Idle
    /\ UNCHANGED <<clientVars, journalVars, attempts, bindings, serverVars, puts, posts>>

-----------------------------------------------------------------------------
(* The push service (external): a registration names the version it read,  *)
(* a revocation is final.  A request may be served after the client gave   *)
(* up on it.                                                               *)

Bind(e, u, id) == binding' = [binding EXCEPT ![e][u] = [id |-> id, version |-> @.version + 1]]

ServeInspect ==
    /\ run.pc \in {"inspect", "version"} /\ run.view = NoOne
    /\ run' = [run EXCEPT !.view = binding[root][run.session.user]]
    /\ UNCHANGED <<clientVars, journalVars, attempts, bindings, serverVars, puts, posts>>

ServePut(p) ==
    /\ p \in puts
    /\ puts' = puts \ {p}
    /\ \/ /\ p.version = binding[p.endpoint][p.user].version /\ p.id \notin revoked
          /\ Bind(p.endpoint, p.user, p.id)
          /\ run' = IF run.pc = "put" /\ run.id = p.id
                    THEN [run EXCEPT !.view = binding'[p.endpoint][p.user]] ELSE run
       \/ /\ ~(p.version = binding[p.endpoint][p.user].version /\ p.id \notin revoked)
          /\ UNCHANGED <<binding, run>>
    /\ UNCHANGED <<clientVars, journalVars, attempts, bindings, revoked, posts>>

ServePost(id) ==
    /\ id \in posts
    /\ posts' = posts \ {id}
    /\ revoked' = revoked \cup {id}
    /\ binding' = [e \in Endpoints |-> [u \in Users |->
                     IF binding[e][u].id = id
                     THEN [id |-> 0, version |-> binding[e][u].version + 1]
                     ELSE binding[e][u]]]
    /\ UNCHANGED <<clientVars, journalVars, attempts, run, bindings, puts>>

-----------------------------------------------------------------------------
HostSteps ==
    \/ \E u \in Users : NewGeneration(u)
    \/ \E t \in Tokens \cup {NoOne} : SetToken(t)
    \/ \E b \in BOOLEAN : SetPermission(b)
    \/ Detach
    \/ \E e \in Endpoints : Configure(e) \/ Attach(e)
    \/ Crash

RunSteps ==
    \/ StartRun \/ VisitEntry \/ Inspected \/ Revoked \/ RemoveFails
    \/ VisitDesired \/ Register \/ NotRegistered \/ PutAnswered \/ RunFails

ServerSteps ==
    \/ ServeInspect
    \/ \E p \in puts : ServePut(p)
    \/ \E id \in posts : ServePost(id)

PushNext == HostSteps \/ RunSteps \/ ServerSteps

PushSpec == PushInit /\ [][PushNext]_pushVars

\* The service serves the revocation while the run still waits for it.
ServePostInTime == run.pc = "revoke" /\ ServePost(run.id)

\* Reconcile runs again and again (foreground, network, token and permission
\* changes start it), and its steps go on.  A request is not out of time at every
\* single try, nor does every write of the journal fail.
PushFairness ==
    /\ WF_pushVars(StartRun) /\ WF_pushVars(VisitEntry) /\ WF_pushVars(VisitDesired)
    /\ WF_pushVars(RunFails)
    /\ SF_pushVars(ServeInspect) /\ SF_pushVars(Inspected)
    /\ SF_pushVars(ServePostInTime) /\ SF_pushVars(Revoked)

PushLiveSpec == PushSpec /\ PushFairness

-----------------------------------------------------------------------------
Bound(e, id) == id # 0 /\ \E u \in Users : binding[e][u].id = id

\* push_lifecycle.rs:1, "Intent is saved BEFORE a possible write": whatever the
\* server has bound, now or by a request still on the wire, can be revoked from
\* the journal on disk, through crashes, lost answers and failing writes.
BindingIsRevocable ==
    \A e \in Endpoints :
       /\ \A u \in Users : binding[e][u].id # 0 => binding[e][u].id \in saved[e]
       /\ \A p \in puts : p.endpoint = e => p.id \in saved[e] \cup revoked

\* status counts a provider as registered only for a binding the server has: the
\* last one attempted, unless its revocation has been asked for meanwhile.
ConfirmedIsBound ==
    \A id \in DOMAIN attempts :
       attempts[id].confirmed /\ Keep(id) /\ id = bindings /\ id \notin revoked \cup posts
          => binding[root][attached.user].id = id

\* push_lifecycle.rs:64, "Providers confirmed for the current session": a
\* provider counted in the status is bound at the server.
RegisteredIsBound ==
    \A id \in DOMAIN attempts :
       attempts[id].confirmed /\ Keep(id) => binding[root][attached.user].id = id

\* A binding whose session, token or permission is gone is revoked in the end,
\* as long as its journal is the open one.
UnwantedIsRevoked ==
    \A id \in Bindings : \A e \in Endpoints :
       (Bound(e, id) /\ ~Keep(id)) ~> (~Bound(e, id) \/ Keep(id) \/ root # e)
==============================================================================
