--------------------------- MODULE SessionLifecycle ---------------------------
(***************************************************************************)
(* src/client/im_client*.rs: login, logout, the tokens of a session and    *)
(* the watchers that follow it.                                            *)
(*                                                                         *)
(* IMClientInner sits behind a read-write lock; the API snapshot, the SDK  *)
(* state and the bearer of the shared HTTP context sit outside of it.  A   *)
(* call takes the lock several times and awaits in between, so calls,      *)
(* token operations and watchers interleave at every step below.  What     *)
(* belongs to a session is tied to its generation.                         *)
(***************************************************************************)
EXTENDS Naturals, FiniteSets

CONSTANTS
    Accounts,       \* users of the host
    Nobody,         \* stands for Rust's None
    Calls,          \* calls the host may have in progress at once
    TokenTasks,     \* who is after a token: "link", "timer", "host"
    MaxCalls,       \* bound: calls of the host
    SessionEnv      \* "logins": the host may log in twice at once

ASSUME SessionAssumption == Nobody \notin Accounts /\ MaxCalls \in Nat

VARIABLES
    gen,        \* session_generation and its atomic copy
    user,       \* current_user_id, or Nobody
    token,      \* the user connect_token was made for, or Nobody
    engine,     \* [id, user]: the engine and the user of its stores, or Nobody
    apis,       \* generation of the API snapshot, 0 without one
    state,      \* state_snapshot
    bearer,     \* the user whose token the HTTP context carries, or Nobody
    links,      \* running link supervisors: [engine, session]
    calls,      \* the host's calls: [op, pc, user, gen, engine]
    made,       \* how many calls were made
    tokens,     \* token operations of the link, of the refresh timer, of the host
    watch       \* state snapshot watcher: generation -> where it is, "none" when there is none

innerVars == <<gen, user, token, engine>>
outerVars == <<apis, state, bearer>>
sessionVars == <<innerVars, outerVars, links, calls, made, tokens, watch>>

MaxGen == 3 * MaxCalls
NoCall == [op |-> "none", pc |-> "idle", user |-> Nobody, gen |-> 0, engine |-> 0]
NoToken == [pc |-> "idle", gen |-> 0, user |-> Nobody]

SessionInit ==
    /\ gen = 0 /\ user = Nobody /\ token = Nobody /\ engine = Nobody
    /\ apis = 0 /\ state = "Disconnected" /\ bearer = Nobody
    /\ links = {} /\ calls = [c \in Calls |-> NoCall] /\ made = 0
    /\ tokens = [t \in TokenTasks |-> NoToken]
    /\ watch = [g \in 1..MaxGen |-> "none"]

Goto(c, pc) == calls' = [calls EXCEPT ![c].pc = pc]
Return(c) == calls' = [calls EXCEPT ![c] = NoCall]

\* A new generation is stored and notify_waiters wakes who is registered.
NextGeneration ==
    /\ gen' = gen + 1
    /\ watch' = [g \in DOMAIN watch |->
                   IF watch[g] \in {"registered", "waiting"} THEN "woken" ELSE watch[g]]

-----------------------------------------------------------------------------
(* logout, disconnect and the first half of prepare.                       *)

\* The API snapshot is dropped before the lock is asked for.
BeginCall(c, op, u) ==
    /\ calls[c].pc = "idle" /\ made < MaxCalls
    /\ op = "login" =>
          \/ "logins" \in SessionEnv
          \/ \A d \in Calls : calls[d].op # "login"
    /\ made' = made + 1
    /\ calls' = [calls EXCEPT ![c] = [op |-> op, pc |-> "end", user |-> u, gen |-> 0, engine |-> 0]]
    /\ apis' = 0
    /\ UNCHANGED <<innerVars, state, bearer, links, tokens, watch>>

\* Wrong: the engine of the old session stays in place.
EndKeepsEngine(c) ==
    /\ calls[c].pc = "end"
    /\ NextGeneration
    /\ user' = Nobody /\ token' = Nobody
    /\ calls' = [calls EXCEPT ![c].pc = "wipe",
                              ![c].engine = IF engine = Nobody THEN 0 ELSE engine.id]
    /\ UNCHANGED <<engine, outerVars, links, made, tokens>>

\* Under the lock: the generation moves on and the session is gone.
EndSession(c) ==
    /\ calls[c].pc = "end"
    /\ NextGeneration
    /\ user' = Nobody /\ token' = Nobody /\ engine' = Nobody
    /\ calls' = [calls EXCEPT ![c].pc = "wipe",
                              ![c].engine = IF engine = Nobody THEN 0 ELSE engine.id]
    /\ UNCHANGED <<outerVars, links, made, tokens>>

Wipe(c) ==
    /\ calls[c].pc = "wipe"
    /\ apis' = 0 /\ state' = "Disconnected"
    /\ Goto(c, "auth")
    /\ UNCHANGED <<innerVars, bearer, links, made, tokens, watch>>

ClearBearer(c) ==
    /\ calls[c].pc = "auth"
    /\ bearer' = Nobody
    /\ Goto(c, "stop")
    /\ UNCHANGED <<innerVars, apis, state, links, made, tokens, watch>>

\* Wrong: the engine is dropped without stopping its link.
DropEngineOnly(c) ==
    /\ calls[c].pc = "stop"
    /\ IF calls[c].op = "login" THEN calls' = [calls EXCEPT ![c].pc = "build", ![c].engine = 0] ELSE Return(c)
    /\ UNCHANGED <<innerVars, outerVars, links, made, tokens, watch>>

\* engine.disconnect: the link of the old engine stops.
StopLink(c) ==
    /\ calls[c].pc = "stop"
    /\ links' = {l \in links : l.engine # calls[c].engine}
    /\ IF calls[c].op = "login" THEN calls' = [calls EXCEPT ![c].pc = "build", ![c].engine = 0] ELSE Return(c)
    /\ UNCHANGED <<innerVars, outerVars, made, tokens, watch>>

-----------------------------------------------------------------------------
(* The second half of prepare, and connect.                                *)

\* The stores of the user are open and a new engine takes the place of all of
\* inner.  The generation goes on from the current one.
Install(c) ==
    /\ calls[c].pc = "build"
    /\ NextGeneration
    /\ user' = calls[c].user /\ token' = Nobody
    /\ engine' = [id |-> gen', user |-> calls[c].user]
    /\ apis' = gen' /\ state' = "Disconnected"
    /\ Goto(c, "outbox")
    /\ UNCHANGED <<bearer, links, made, tokens>>

\* The stores or the engine cannot be made, or the identity repair fails.
PrepareFails(c) ==
    /\ calls[c].pc \in {"build", "outbox"}
    /\ Return(c)
    /\ UNCHANGED <<innerVars, outerVars, links, made, tokens, watch>>

\* prepare_outbox works on the engine of the moment; without one it is an error.
PrepareOutbox(c) ==
    /\ calls[c].pc = "outbox"
    /\ IF engine = Nobody THEN Return(c) ELSE Goto(c, "connect")
    /\ UNCHANGED <<innerVars, outerVars, links, made, tokens, watch>>

\* connect_internal reads the generation it will insist on.
ReadGeneration(c) ==
    /\ calls[c].pc = "connect"
    /\ calls' = [calls EXCEPT ![c].pc = "open", ![c].gen = gen]
    /\ UNCHANGED <<innerVars, outerVars, links, made, tokens, watch>>

\* The session starts, with the host's token or (SDK-managed) without one yet.
Open(c) ==
    /\ calls[c].pc = "open"
    /\ gen = calls[c].gen /\ engine # Nobody
    /\ NextGeneration
    /\ user' = calls[c].user
    /\ token' \in {Nobody, calls[c].user}
    /\ apis' = gen'
    /\ calls' = [calls EXCEPT ![c].pc = IF token' = Nobody THEN "empty" ELSE "bearer",
                              ![c].gen = gen', ![c].engine = engine.id]
    /\ UNCHANGED <<engine, state, bearer, links, made, tokens>>

OpenRefused(c) ==
    /\ calls[c].pc = "open"
    /\ gen # calls[c].gen \/ engine = Nobody
    /\ Return(c)
    /\ UNCHANGED <<innerVars, outerVars, links, made, tokens, watch>>

\* The HTTP context gets the token, outside of the lock.
SetBearer(c) ==
    /\ calls[c].pc \in {"bearer", "empty"}
    /\ bearer' = IF calls[c].pc = "bearer" THEN calls[c].user ELSE Nobody
    /\ Goto(c, "watch")
    /\ UNCHANGED <<innerVars, apis, state, links, made, tokens, watch>>

\* The watchers are spawned, then the state is set.
SpawnWatchers(c) ==
    /\ calls[c].pc = "watch"
    /\ watch' = [watch EXCEPT ![calls[c].gen] = "busy"]
    /\ state' = "Connecting"
    /\ Goto(c, "start")
    /\ UNCHANGED <<innerVars, apis, bearer, links, made, tokens>>

\* link.start: the link of this engine follows this session.
StartLink(c) ==
    /\ calls[c].pc = "start"
    /\ links' = {l \in links : l.engine # calls[c].engine}
                   \cup {[engine |-> calls[c].engine, session |-> calls[c].gen]}
    /\ Goto(c, "started")
    /\ UNCHANGED <<innerVars, outerVars, made, tokens, watch>>

\* Wrong: a link that outlives its engine keeps running.
KeepLink(c) ==
    /\ calls[c].pc = "started"
    /\ Return(c)
    /\ UNCHANGED <<innerVars, outerVars, links, made, tokens, watch>>

\* start is answered.  The last handle of a link whose engine is gone is
\* dropped here, which aborts its worker (WorkerGuard).
Started(c) ==
    /\ calls[c].pc = "started"
    /\ links' = {l \in links : l.engine # calls[c].engine
                                 \/ (engine # Nobody /\ engine.id = l.engine)
                                 \/ \E d \in Calls \ {c} :
                                       calls[d].pc \in {"stop", "bearer", "empty", "watch", "start", "started"}
                                          /\ calls[d].engine = l.engine}
    /\ Return(c)
    /\ UNCHANGED <<innerVars, outerVars, made, tokens, watch>>

-----------------------------------------------------------------------------
(* Tokens: token_for_connect and renewal by the link, the refresh timer,   *)
(* and update_access_token of the host.                                    *)

\* The user and the generation are read under the lock; the gateway is asked.
AskToken(t) ==
    /\ tokens[t].pc = "idle" /\ user # Nobody
    /\ \/ t = "link" /\ \E l \in links : l.session = gen
       \/ t = "timer" /\ gen > 0 /\ token # Nobody /\ watch[gen] # "none"
    /\ tokens' = [tokens EXCEPT ![t] =
                     [pc |-> IF token = Nobody THEN "issue" ELSE "refresh", gen |-> gen, user |-> user]]
    /\ UNCHANGED <<innerVars, outerVars, links, calls, made, watch>>

\* The gateway fails or refuses; the link goes on without a new token.
TokenFails(t) ==
    /\ tokens[t].pc \in {"issue", "refresh"}
    /\ tokens' = [tokens EXCEPT ![t] = NoToken]
    /\ UNCHANGED <<innerVars, outerVars, links, calls, made, watch>>

\* Wrong: the answer is stored whatever session there is now.
StoreAnyToken(t) ==
    /\ tokens[t].pc \in {"issue", "refresh"}
    /\ token' = tokens[t].user
    /\ tokens' = [tokens EXCEPT ![t].pc = IF @ = "issue" THEN "issued" ELSE "sync"]
    /\ UNCHANGED <<gen, user, engine, outerVars, links, calls, made, watch>>

\* The answer counts only for the session that asked.  A refresh that comes too
\* late still synchronises the HTTP context.
StoreToken(t) ==
    /\ tokens[t].pc \in {"issue", "refresh"}
    /\ LET same == tokens[t].gen = gen IN
       /\ token' = IF same THEN tokens[t].user ELSE token
       /\ tokens' = [tokens EXCEPT ![t] =
                        IF @.pc = "refresh" THEN [NoToken EXCEPT !.pc = "sync"]
                        ELSE IF same THEN [NoToken EXCEPT !.pc = "issued", !.user = tokens[t].user] ELSE NoToken]
    /\ UNCHANGED <<gen, user, engine, outerVars, links, calls, made, watch>>

\* update_access_token: the host's new token for the user it sees logged in.
UpdateToken ==
    /\ "host" \in TokenTasks /\ tokens["host"].pc = "idle" /\ user # Nobody
    /\ token' = user
    /\ tokens' = [tokens EXCEPT !["host"] = [NoToken EXCEPT !.pc = "sync"]]
    /\ UNCHANGED <<gen, user, engine, outerVars, links, calls, made, watch>>

\* sync_core_http_context takes user and token under the lock ...
SyncBearer(t) ==
    /\ tokens[t].pc = "sync"
    /\ tokens' = [tokens EXCEPT ![t] =
                     IF user # Nobody /\ token # Nobody /\ state = "Online"
                     THEN [NoToken EXCEPT !.pc = "issued", !.user = token] ELSE NoToken]
    /\ UNCHANGED <<innerVars, outerVars, links, calls, made, watch>>

\* ... and the HTTP context gets the token after it is released.
TokenBearer(t) ==
    /\ tokens[t].pc = "issued"
    /\ bearer' = tokens[t].user
    /\ tokens' = [tokens EXCEPT ![t] = NoToken]
    /\ UNCHANGED <<innerVars, apis, state, links, calls, made, watch>>

-----------------------------------------------------------------------------
(* The state snapshot watcher of a session (SessionEndWatch::ended).       *)

\* Wrong: the end is looked for first, and waited for afterwards.
CheckThenRegister(g) ==
    /\ watch[g] = "busy"
    /\ watch' = [watch EXCEPT ![g] = IF gen = g THEN "checked" ELSE "none"]
    /\ UNCHANGED <<innerVars, outerVars, links, calls, made, tokens>>

\* notified().enable(): from here on a notification is not missed ...
RegisterWatch(g) ==
    /\ watch[g] = "busy"
    /\ watch' = [watch EXCEPT ![g] = "registered"]
    /\ UNCHANGED <<innerVars, outerVars, links, calls, made, tokens>>

\* ... and only then the generation is compared.
CheckEnd(g) ==
    /\ watch[g] \in {"registered", "checked", "woken"}
    /\ watch' = [watch EXCEPT ![g] =
                   CASE @ = "registered" -> IF gen = g THEN "waiting" ELSE "none"
                     [] @ = "woken" -> "busy"
                     [] OTHER -> "waiting"]
    /\ UNCHANGED <<innerVars, outerVars, links, calls, made, tokens>>

\* A connection status arrives; it is stored if the session is current.
WatchEvent(g) ==
    /\ watch[g] = "waiting" /\ \E l \in links : l.session = g
    /\ watch' = [watch EXCEPT ![g] = IF gen = g THEN "store" ELSE "none"]
    /\ UNCHANGED <<innerVars, outerVars, links, calls, made, tokens>>

StoreState(g) ==
    /\ watch[g] = "store"
    /\ state' = "Online"
    /\ watch' = [watch EXCEPT ![g] = "busy"]
    /\ UNCHANGED <<innerVars, apis, bearer, links, calls, made, tokens>>

-----------------------------------------------------------------------------
CallSteps(c) ==
    \/ EndSession(c) \/ Wipe(c) \/ ClearBearer(c) \/ StopLink(c)
    \/ Install(c) \/ PrepareFails(c) \/ PrepareOutbox(c)
    \/ ReadGeneration(c) \/ Open(c) \/ OpenRefused(c) \/ SetBearer(c)
    \/ SpawnWatchers(c) \/ StartLink(c) \/ Started(c)

TokenSteps(t) ==
    \/ AskToken(t) \/ TokenFails(t) \/ StoreToken(t) \/ SyncBearer(t) \/ TokenBearer(t)

WatchSteps(g) == RegisterWatch(g) \/ CheckEnd(g) \/ StoreState(g)

SessionNext ==
    \/ \E c \in Calls :
          \/ BeginCall(c, "logout", Nobody)
          \/ \E u \in Accounts : BeginCall(c, "login", u)
          \/ CallSteps(c)
    \/ \E t \in TokenTasks : TokenSteps(t)
    \/ UpdateToken
    \/ \E g \in DOMAIN watch : WatchSteps(g) \/ WatchEvent(g)

SessionSpec == SessionInit /\ [][SessionNext]_sessionVars

\* A watcher is a task of its own that is never blocked between two awaits.
SessionFairness == \A g \in 1..MaxGen : WF_sessionVars(WatchSteps(g))

SessionLiveSpec == SessionSpec /\ SessionFairness

-----------------------------------------------------------------------------
\* connect_token belongs to the user who is logged in: an answer of the gateway
\* asked for by an earlier session is never stored into this one.
TokenOfUser == user # Nobody => token \in {Nobody, user}

\* A session works on the stores of its own user, and prepare goes on with the
\* engine it installed ("login ... ensures session isolation").
StoreOfUser ==
    engine # Nobody =>
       /\ user = engine.user
       /\ \A c \in Calls : calls[c].pc \in {"outbox", "connect", "open"} => calls[c].user = engine.user

\* With no call in progress a running link is that of the current session:
\* a start that loses against a logout leaves no link behind.
NoOrphanLink ==
    (\A c \in Calls : calls[c].pc = "idle") =>
       \A l \in links : engine # Nobody /\ l.engine = engine.id /\ l.session = gen

\* "Logs out and clears the SDK's session context": with no user and nothing in
\* progress the SDK is disconnected and the HTTP context carries no token.
LogoutIsClean ==
    /\ \A c \in Calls : calls[c].pc = "idle"
    /\ \A t \in TokenTasks : tokens[t].pc = "idle"
    /\ \A g \in DOMAIN watch : watch[g] # "store"
    /\ user = Nobody
    => state = "Disconnected" /\ bearer = Nobody

\* A watcher never waits for the end of a session that is over: between its look at
\* the generation and its wait no notification is missed (SessionEndWatch::ended).
WatcherIsWoken == \A g \in DOMAIN watch : watch[g] = "waiting" => gen = g

\* A watcher of a session that ended stops, without waiting for another event.
WatcherEnds ==
    \A g \in 1..MaxGen :
       (watch[g] # "none" /\ gen # g) ~> watch[g] = "none"
===============================================================================
