----------------------------- MODULE ClientProofs -----------------------------
(***************************************************************************)
(* Proofs about the client: the order of the enqueue stamps; the session   *)
(* with its tokens, stores, links and watchers; and the update centre, whose *)
(* ready package is the offered one and whose "checking" has a round that  *)
(* will end it; for any number of messages, accounts, calls, builds, checks *)
(* and downloads.                                                          *)
(***************************************************************************)
EXTENDS EnqueueClock, SessionLifecycle, UpdateMachine, TLAPS

-----------------------------------------------------------------------------
(* Enqueue stamps *)

\* A stamp is later than the clock it was taken from.
LEMMA StampIsLater ==
    ASSUME ClockTypeOK
    PROVE  next_enqueue_ms \in Nat /\ next_enqueue_ms > last
BY ClockConstants DEF ClockTypeOK, next_enqueue_ms

\* The initial state satisfies the invariant.
LEMMA ClockInit == Init => ClockInv
<1> SUFFICES ASSUME Init PROVE ClockInv
  OBVIOUS
<1>1. ClockTypeOK
  BY ClockConstants, Zenon DEF Init, ClockTypeOK
<1>2. pending = {} /\ Latest(last)
  BY SMTT(40) DEF Init, Latest
<1> QED
  BY <1>1, <1>2 DEF ClockInv, Distinct, StampsFollowSendOrder

\* Every step keeps the invariant.
LEMMA ClockStep == ClockInv /\ [Next]_vars => ClockInv'
<1> SUFFICES ASSUME ClockInv, [Next]_vars PROVE ClockInv'
  OBVIOUS
<1> USE DEF ClockInv, ClockTypeOK, Distinct, StampsFollowSendOrder
<1>1. ASSUME NEW id \in Ids, Enqueue(id) PROVE ClockInv'
  <2>1. next_enqueue_ms \in Nat /\ next_enqueue_ms > last
    BY StampIsLater
  <2>2. ClockTypeOK'
    BY <1>1, <2>1 DEF Enqueue
  <2>3. /\ ord'[id] = count + 1 /\ at'[id] = next_enqueue_ms
        /\ \A a \in pending' \ {id} : /\ a \in pending /\ ord'[a] = ord[a] /\ at'[a] = at[a]
                                      /\ ord[a] <= count /\ at[a] <= last
    BY <1>1 DEF Enqueue, Latest
  <2>4. Distinct' /\ StampsFollowSendOrder'
    BY <1>1, <2>1, <2>2, <2>3 DEF Enqueue
  <2> QED
    BY <1>1, <2>1, <2>2, <2>3, <2>4 DEF Enqueue, Latest
<1>2. CASE EnqueueFails
  BY <1>2, StampIsLater DEF EnqueueFails, Latest
<1>3. ASSUME NEW id \in Ids, Pop(id) PROVE ClockInv'
  BY <1>3 DEF Pop, Latest
<1>4. CASE NotePersisted
  BY <1>4 DEF NotePersisted, Latest
<1>5. CASE Restart
  BY <1>5, Zenon DEF Restart
<1>6. ASSUME NEW t \in 0..MaxTime, WallClockMoves(t) PROVE ClockInv'
  BY <1>6 DEF WallClockMoves, Latest
<1>7. CASE UNCHANGED vars
  BY <1>7 DEF vars, Latest
<1> QED
  BY <1>1, <1>2, <1>3, <1>4, <1>5, <1>6, <1>7 DEF Next

\* For any number of messages, enqueues and clock values: the pending table is always read in the
\* order the application sent, across clock jumps and restarts.
THEOREM SendOrderKept == Spec => []StampsFollowSendOrder
<1>1. ClockInv => StampsFollowSendOrder
  BY DEF ClockInv
<1> QED
  BY <1>1, ClockInit, ClockStep, PTL DEF Spec

-----------------------------------------------------------------------------
(* Sessions *)

\* The steps of a login from prepare on, and those in which a call holds the engine it is about
\* to stop or has started.
LoginPcs == {"build", "outbox", "connect", "open", "bearer", "empty", "watch", "start", "started"}
OpenPcs  == {"bearer", "empty", "watch", "start", "started"}
HolderPcs == {"wipe", "auth", "stop", "started"}

CallRec == [op: {"none", "login", "logout"},
            pc: {"idle", "end", "wipe", "auth", "stop"} \cup LoginPcs,
            user: Accounts \cup {Nobody}, gen: Nat, engine: Nat]

TokenRec == [pc: {"idle", "issue", "refresh", "sync", "issued"}, gen: Nat,
             user: Accounts \cup {Nobody}]

\* The part of the type invariant the argument needs; what is numbered by the generation is
\* not ahead of it.
SessionShape ==
    /\ gen \in Nat /\ user \in Accounts \cup {Nobody} /\ token \in Accounts \cup {Nobody}
    /\ calls \in [Calls -> CallRec] /\ tokens \in [TokenTasks -> TokenRec]
    /\ engine # Nobody => engine.id \in Nat /\ engine.id <= gen
    /\ \A c \in Calls : calls[c].gen <= gen /\ calls[c].engine <= gen
    /\ \A t \in TokenTasks : tokens[t].gen <= gen
    /\ \A l \in links : l.engine \in Nat /\ l.engine <= gen

\* A token that was asked for in this generation is for its user.
TokenAsked ==
    \A t \in TokenTasks :
       tokens[t].pc \in {"issue", "refresh"} /\ tokens[t].gen = gen => tokens[t].user = user

\* The host logs in once at a time, and only a login comes to prepare and connect.
OneLogin ==
    /\ \A c \in Calls : calls[c].pc \in LoginPcs => calls[c].op = "login"
    /\ \A c, d \in Calls : calls[c].op = "login" /\ calls[d].op = "login" => c = d

\* What a login finds on its way: no engine until it has installed its own, no link of that engine
\* until it starts one, and the generation it opened while the engine is there.
LoginAlone ==
    \A c \in Calls :
       /\ calls[c].op = "login" /\ calls[c].pc \in {"wipe", "auth", "stop", "build"} => engine = Nobody
       /\ calls[c].pc \in {"outbox", "connect", "open"} /\ engine # Nobody =>
             \A l \in links : l.engine # engine.id
       /\ calls[c].pc \in OpenPcs /\ engine # Nobody =>
             calls[c].gen = gen /\ calls[c].engine = engine.id

\* Every link is that of the session, or a call still holds its engine.
LinksHeld ==
    /\ \A l \in links : engine # Nobody /\ l.engine = engine.id => l.session = gen
    /\ \A l \in links : \/ engine # Nobody /\ l.engine = engine.id
                        \/ \E d \in Calls : calls[d].pc \in HolderPcs /\ calls[d].engine = l.engine

\* The inductive invariants: about tokens for any host, about stores and links for a host that
\* logs in once at a time.
TokenInv == SessionShape /\ TokenAsked /\ TokenOfUser
LinkInv  == SessionShape /\ OneLogin /\ LoginAlone /\ LinksHeld /\ StoreOfUser

\* No watcher looks at the generation before it has registered.
WatchInv == WatcherIsWoken /\ \A g \in DOMAIN watch : watch[g] # "checked"

\* The initial state satisfies the invariants.
LEMMA SessionStarts == SessionInit => TokenInv /\ LinkInv /\ WatchInv
<1> SUFFICES ASSUME SessionInit PROVE TokenInv /\ LinkInv /\ WatchInv
  OBVIOUS
<1>1. NoCall \in CallRec /\ NoToken \in TokenRec
  BY DEF NoCall, NoToken, CallRec, TokenRec
<1>2. \A c \in Calls : calls[c] = NoCall /\ calls[c].op = "none" /\ calls[c].pc = "idle"
                       /\ calls[c].gen = 0 /\ calls[c].engine = 0
  BY DEF SessionInit, NoCall
<1>3. \A t \in TokenTasks : tokens[t].pc = "idle" /\ tokens[t].gen = 0
  BY DEF SessionInit, NoToken
<1>4. SessionShape
  BY <1>1, <1>2, <1>3 DEF SessionInit, SessionShape
<1>5. OneLogin /\ LoginAlone /\ LinksHeld /\ StoreOfUser
  BY <1>2 DEF SessionInit, OneLogin, LoginAlone, LinksHeld, StoreOfUser, LoginPcs, OpenPcs
<1>6. TokenAsked /\ TokenOfUser
  BY <1>3 DEF SessionInit, TokenAsked, TokenOfUser
<1>7. WatchInv
  BY DEF SessionInit, WatchInv, WatcherIsWoken
<1> QED
  BY <1>4, <1>5, <1>6, <1>7 DEF TokenInv, LinkInv

\* A call changes one entry of calls.
LEMMA CallEntries ==
    ASSUME SessionShape, NEW c \in Calls, NEW r, calls' = [calls EXCEPT ![c] = r]
    PROVE  /\ calls'[c] = r
           /\ \A d \in Calls : d # c => calls'[d] = calls[d]
           /\ r \in CallRec => calls' \in [Calls -> CallRec]
BY DEF SessionShape

\* Every step keeps the types, and no number runs ahead of the generation.
LEMMA ShapeStep == SessionShape /\ [SessionNext]_sessionVars => SessionShape'
<1> SUFFICES ASSUME SessionShape, [SessionNext]_sessionVars PROVE SessionShape'
  OBVIOUS
<1> DEFINE Mine(r) == /\ r \in CallRec /\ r.gen <= gen' /\ r.engine <= gen'
<1> DEFINE Asked(r) == /\ r \in TokenRec /\ r.gen <= gen'
<1>0. /\ gen \in Nat /\ gen + 1 \in Nat /\ gen <= gen + 1 /\ 0 \in Nat /\ gen <= gen
      /\ gen' = gen \/ gen' = gen + 1 => gen' \in Nat /\ gen <= gen' /\ 0 <= gen' /\ gen' <= gen'
  BY DEF SessionShape
<1>n. NoCall \in CallRec /\ NoCall.gen = 0 /\ NoCall.engine = 0 /\ NoToken \in TokenRec /\ NoToken.gen = 0
  BY DEF NoCall, NoToken, CallRec, TokenRec
<1>m. \A c \in Calls : calls[c] \in CallRec /\ calls[c].gen \in Nat /\ calls[c].engine \in Nat
                       /\ calls[c].user \in Accounts \cup {Nobody}
  BY DEF SessionShape, CallRec
<1>t. \A t \in TokenTasks : tokens[t] \in TokenRec /\ tokens[t].gen \in Nat /\ tokens[t].user \in Accounts \cup {Nobody}
  BY DEF SessionShape, TokenRec
<1>c. ASSUME NEW c \in Calls, NEW r, calls' = [calls EXCEPT ![c] = r], Mine(r), gen' = gen \/ gen' = gen + 1
      PROVE  /\ calls' \in [Calls -> CallRec]
             /\ \A d \in Calls : calls'[d].gen <= gen' /\ calls'[d].engine <= gen'
  <2>1. calls'[c] = r /\ (\A d \in Calls : d # c => calls'[d] = calls[d]) /\ calls' \in [Calls -> CallRec]
    BY <1>c, CallEntries, Zenon
  <2>2. \A d \in Calls : calls[d].gen <= gen' /\ calls[d].engine <= gen'
    BY <1>0, <1>m, <1>c DEF SessionShape
  <2> QED
    BY <1>c, <2>1, <2>2, Zenon
<1>k. ASSUME UNCHANGED calls, gen' = gen \/ gen' = gen + 1
      PROVE  /\ calls' \in [Calls -> CallRec]
             /\ \A d \in Calls : calls'[d].gen <= gen' /\ calls'[d].engine <= gen'
  BY <1>0, <1>m, <1>k DEF SessionShape
<1>s. ASSUME NEW t \in TokenTasks, NEW r, tokens' = [tokens EXCEPT ![t] = r], Asked(r), gen' = gen \/ gen' = gen + 1
      PROVE  /\ tokens' \in [TokenTasks -> TokenRec]
             /\ \A d \in TokenTasks : tokens'[d].gen <= gen'
  <2>1. tokens'[t] = r /\ (\A d \in TokenTasks : d # t => tokens'[d] = tokens[d]) /\ tokens' \in [TokenTasks -> TokenRec]
    BY <1>s DEF SessionShape
  <2>2. \A d \in TokenTasks : tokens[d].gen <= gen'
    BY <1>0, <1>t, <1>s DEF SessionShape
  <2> QED
    BY <1>s, <2>1, <2>2, Zenon
<1>u. ASSUME UNCHANGED tokens, gen' = gen \/ gen' = gen + 1
      PROVE  /\ tokens' \in [TokenTasks -> TokenRec]
             /\ \A d \in TokenTasks : tokens'[d].gen <= gen'
  BY <1>0, <1>t, <1>u DEF SessionShape
<1>l. ASSUME links' \subseteq links, gen' = gen \/ gen' = gen + 1
      PROVE  \A l \in links' : l.engine \in Nat /\ l.engine <= gen'
  BY <1>0, <1>l DEF SessionShape
<1>e. ASSUME UNCHANGED engine, gen' = gen \/ gen' = gen + 1
      PROVE  engine' # Nobody => engine'.id \in Nat /\ engine'.id <= gen'
  BY <1>0, <1>e DEF SessionShape
<1> HIDE DEF Mine, Asked
\* What a call may write into its record.
<1>p. ASSUME NEW c \in Calls, NEW p, p \in {"idle", "end", "wipe", "auth", "stop"} \cup LoginPcs, gen' = gen \/ gen' = gen + 1,
             NEW g \in Nat, g <= gen', NEW e \in Nat, e <= gen'
      PROVE  /\ Mine([calls[c] EXCEPT !.pc = p])
             /\ Mine([calls[c] EXCEPT !.pc = p, !.engine = e])
             /\ Mine([calls[c] EXCEPT !.pc = p, !.gen = g])
             /\ Mine([calls[c] EXCEPT !.pc = p, !.gen = g, !.engine = e])
  <2> DEFINE r == calls[c]
  <2>1. r \in CallRec /\ r.gen \in Nat /\ r.engine \in Nat /\ r.gen <= gen' /\ r.engine <= gen'
    BY <1>0, <1>m, <1>p DEF SessionShape
  <2> HIDE DEF r
  <2>2. /\ Mine([r EXCEPT !.pc = p])
        /\ Mine([r EXCEPT !.pc = p, !.engine = e])
        /\ Mine([r EXCEPT !.pc = p, !.gen = g])
        /\ Mine([r EXCEPT !.pc = p, !.gen = g, !.engine = e])
    BY <1>p, <2>1, Zenon DEF Mine, CallRec
  <2> QED
    BY <2>2 DEF r
<1>1. ASSUME NEW c \in Calls, NEW op \in {"login", "logout"}, NEW u \in Accounts \cup {Nobody}, BeginCall(c, op, u)
      PROVE SessionShape'
  <2>1. Mine([op |-> op, pc |-> "end", user |-> u, gen |-> 0, engine |-> 0])
    BY <1>0, <1>1 DEF Mine, CallRec, BeginCall, innerVars
  <2> QED
    BY <1>1, <2>1, <1>c, <1>u, <1>l, <1>e, Zenon DEF BeginCall, innerVars, SessionShape
<1>2. ASSUME NEW c \in Calls, EndSession(c) PROVE SessionShape'
  <2>1. gen' = gen + 1 /\ user' = Nobody /\ token' = Nobody /\ engine' = Nobody /\ UNCHANGED <<links, tokens>>
    BY <1>2 DEF EndSession, NextGeneration
  <2> DEFINE e == IF engine = Nobody THEN 0 ELSE engine.id
  <2>2. /\ e \in Nat /\ e <= gen'
        /\ calls' = [calls EXCEPT ![c].pc = "wipe", ![c].engine = e]
    BY <1>2, <1>0, <2>1 DEF EndSession, SessionShape
  <2> HIDE DEF e
  <2>4. calls' = [calls EXCEPT ![c] = [calls[c] EXCEPT !.pc = "wipe", !.engine = e]]
    BY <2>2, Zenon DEF SessionShape
  <2>3. Mine([calls[c] EXCEPT !.pc = "wipe", !.engine = e])
    BY <1>p, <2>1, <2>2, <1>0, ZenonT(40)
  <2> QED
    BY <2>1, <2>4, <2>3, <1>c, <1>u, <1>l, <1>0, Zenon DEF SessionShape
<1>3. ASSUME NEW c \in Calls, NEW p \in {"idle", "end", "wipe", "auth", "stop"} \cup LoginPcs, Goto(c, p) \/ Return(c),
             UNCHANGED <<innerVars, tokens>>, links' \subseteq links
      PROVE SessionShape'
  <2>1. UNCHANGED <<gen, user, token, engine>>
    BY <1>3 DEF innerVars
  <2>2. CASE Goto(c, p)
    <3>1. Mine([calls[c] EXCEPT !.pc = p])
      BY <1>p, <2>1, <1>0, Zenon
    <3>2. calls' = [calls EXCEPT ![c] = [calls[c] EXCEPT !.pc = p]]
      BY <2>2 DEF Goto, SessionShape
    <3> QED
      BY <1>3, <2>1, <3>1, <3>2, <1>c, <1>u, <1>l, <1>e, Zenon DEF SessionShape
  <2>3. CASE Return(c)
    <3>1. Mine(NoCall) /\ calls' = [calls EXCEPT ![c] = NoCall]
      BY <2>1, <2>3, <1>n, <1>0 DEF Mine, Return
    <3> QED
      BY <1>3, <2>1, <3>1, <1>c, <1>u, <1>l, <1>e, Zenon DEF SessionShape
  <2> QED
    BY <1>3, <2>2, <2>3
<1>4. ASSUME NEW c \in Calls, StopLink(c) PROVE SessionShape'
  <2>1. UNCHANGED <<gen, user, token, engine, tokens>> /\ links' \subseteq links
    BY <1>4 DEF StopLink, innerVars
  <2>2. CASE calls[c].op = "login"
    <3>1. Mine([calls[c] EXCEPT !.pc = "build", !.engine = 0])
      BY <1>p, <2>1, <1>0, Zenon DEF LoginPcs
    <3>2. calls' = [calls EXCEPT ![c] = [calls[c] EXCEPT !.pc = "build", !.engine = 0]]
      BY <1>4, <2>2, Zenon DEF StopLink, SessionShape
    <3> QED
      BY <2>1, <3>1, <3>2, <1>c, <1>u, <1>l, <1>e, Zenon DEF SessionShape
  <2>3. CASE calls[c].op # "login"
    BY <1>3, <1>4, <2>1, <2>3 DEF StopLink, innerVars
  <2> QED
    BY <2>2, <2>3
<1>5. ASSUME NEW c \in Calls, Install(c) PROVE SessionShape'
  <2>1. /\ gen' = gen + 1 /\ user' = calls[c].user /\ token' = Nobody /\ engine' = [id |-> gen + 1, user |-> calls[c].user]
        /\ UNCHANGED <<links, tokens>> /\ Goto(c, "outbox")
    BY <1>5 DEF Install, NextGeneration
  <2>2. Mine([calls[c] EXCEPT !.pc = "outbox"])
    BY <1>p, <2>1, <1>0, Zenon DEF LoginPcs
  <2>3. calls' = [calls EXCEPT ![c] = [calls[c] EXCEPT !.pc = "outbox"]]
    BY <2>1 DEF Goto, SessionShape
  <2>4. engine'.id \in Nat /\ engine'.id <= gen'
    BY <2>1, <1>0
  <2> QED
    BY <2>1, <2>2, <2>3, <2>4, <1>c, <1>u, <1>l, <1>0, <1>m, Zenon DEF SessionShape
<1>6. ASSUME NEW c \in Calls, ReadGeneration(c) PROVE SessionShape'
  <2>1. UNCHANGED <<gen, user, token, engine, tokens, links>>
    BY <1>6 DEF ReadGeneration, innerVars
  <2>2. Mine([calls[c] EXCEPT !.pc = "open", !.gen = gen])
    BY <1>p, <2>1, <1>0, Zenon DEF LoginPcs
  <2>3. calls' = [calls EXCEPT ![c] = [calls[c] EXCEPT !.pc = "open", !.gen = gen]]
    BY <1>6, Zenon DEF ReadGeneration, SessionShape
  <2> QED
    BY <2>1, <2>2, <2>3, <1>c, <1>u, <1>l, <1>e, Zenon DEF SessionShape
<1>7. ASSUME NEW c \in Calls, Open(c) PROVE SessionShape'
  <2>1. /\ gen' = gen + 1 /\ user' = calls[c].user /\ token' \in {Nobody, calls[c].user}
        /\ UNCHANGED <<engine, links, tokens>> /\ engine.id \in Nat /\ engine.id <= gen'
    BY <1>7, <1>0, SMTT(40) DEF Open, NextGeneration, SessionShape
  <2>2. PICK p \in {"empty", "bearer"} :
           calls' = [calls EXCEPT ![c] = [calls[c] EXCEPT !.pc = p, !.gen = gen', !.engine = engine.id]]
    BY <1>7, Zenon DEF Open, SessionShape
  <2>3. Mine([calls[c] EXCEPT !.pc = p, !.gen = gen', !.engine = engine.id])
    BY <1>p, <2>1, <1>0, ZenonT(40) DEF LoginPcs
  <2> QED
    BY <2>1, <2>2, <2>3, <1>c, <1>u, <1>l, <1>e, <1>0, <1>m, Zenon DEF SessionShape
<1>8. ASSUME NEW c \in Calls, StartLink(c) PROVE SessionShape'
  <2>1. UNCHANGED <<gen, user, token, engine, tokens>> /\ Goto(c, "started")
    BY <1>8 DEF StartLink, innerVars
  <2>2. Mine([calls[c] EXCEPT !.pc = "started"])
    BY <1>p, <2>1, <1>0, Zenon DEF LoginPcs
  <2>3. calls' = [calls EXCEPT ![c] = [calls[c] EXCEPT !.pc = "started"]]
    BY <2>1, Zenon DEF Goto, SessionShape
  <2>4. \A l \in links' : l \in links \/ l.engine = calls[c].engine
    BY <1>8, SMTT(40) DEF StartLink
  <2>5. \A l \in links' : l.engine \in Nat /\ l.engine <= gen'
    BY <2>1, <2>4, <1>m DEF SessionShape
  <2> QED
    BY <2>1, <2>2, <2>3, <2>5, <1>c, <1>u, <1>e, Zenon DEF SessionShape
<1>9. ASSUME NEW c \in Calls, CallSteps(c) PROVE SessionShape'
  <2>1. ASSUME Wipe(c) \/ ClearBearer(c) \/ PrepareFails(c) \/ PrepareOutbox(c) \/ OpenRefused(c) \/ SetBearer(c)
               \/ SpawnWatchers(c) \/ Started(c)
        PROVE SessionShape'
    <3>1. \E p \in {"idle", "end", "wipe", "auth", "stop"} \cup LoginPcs : Goto(c, p) \/ Return(c)
      BY <2>1, Zenon DEF Wipe, ClearBearer, PrepareFails, PrepareOutbox, OpenRefused, SetBearer, SpawnWatchers, Started, LoginPcs
    <3>2. UNCHANGED <<innerVars, tokens>> /\ links' \subseteq links
      BY <2>1 DEF Wipe, ClearBearer, PrepareFails, PrepareOutbox, OpenRefused, SetBearer, SpawnWatchers, Started
    <3> QED
      BY <3>1, <3>2, <1>3, Zenon
  <2> QED
    BY <1>9, <2>1, <1>2, <1>4, <1>5, <1>6, <1>7, <1>8 DEF CallSteps
<1>10. ASSUME NEW t \in TokenTasks, NEW r, Asked(r), tokens' = [tokens EXCEPT ![t] = r], UNCHANGED <<gen, user, engine, links, calls>>,
              token' \in Accounts \cup {Nobody}
       PROVE SessionShape'
  BY <1>10, <1>s, <1>k, <1>l, <1>e, Zenon DEF SessionShape
<1>11. ASSUME NEW t \in TokenTasks, TokenSteps(t) PROVE SessionShape'
  <2>1. CASE AskToken(t)
    <3>1. PICK p \in {"issue", "refresh"} : tokens' = [tokens EXCEPT ![t] = [pc |-> p, gen |-> gen, user |-> user]]
      BY <2>1, Zenon DEF AskToken
    <3>2. UNCHANGED <<gen, user, token, engine, links, calls>>
      BY <2>1 DEF AskToken, innerVars
    <3>3. Asked([pc |-> p, gen |-> gen, user |-> user])
      BY <3>2, <1>0 DEF Asked, TokenRec, SessionShape
    <3>4. token' \in Accounts \cup {Nobody}
      BY <3>2 DEF SessionShape
    <3> QED
      BY <1>10, <3>1, <3>2, <3>3, <3>4, Zenon
  <2>2. ASSUME NEW v \in Accounts \cup {Nobody}, NEW p \in {"idle", "sync", "issued"},
               tokens' = [tokens EXCEPT ![t] = [pc |-> p, gen |-> 0, user |-> v]],
               UNCHANGED <<gen, user, engine, links, calls>>, token' \in Accounts \cup {Nobody}
        PROVE SessionShape'
    <3>1. Asked([pc |-> p, gen |-> 0, user |-> v])
      BY <2>2, <1>0 DEF Asked, TokenRec
    <3> QED
      BY <2>2, <3>1, <1>10, Zenon
  <2>3. CASE TokenFails(t) \/ TokenBearer(t)
    <3>1. UNCHANGED <<gen, user, token, engine, links, calls>> /\ tokens' = [tokens EXCEPT ![t] = [pc |-> "idle", gen |-> 0, user |-> Nobody]]
      BY <2>3 DEF TokenFails, TokenBearer, innerVars, NoToken
    <3>2. token' \in Accounts \cup {Nobody}
      BY <3>1 DEF SessionShape
    <3> QED
      BY <3>1, <3>2, <2>2, Zenon
  <2>4. CASE StoreToken(t)
    <3>1. UNCHANGED <<gen, user, engine, links, calls>> /\ token' \in Accounts \cup {Nobody}
      BY <2>4, <1>t DEF StoreToken, SessionShape
    <3>2. PICK r : /\ tokens' = [tokens EXCEPT ![t] = r]
                   /\ r = IF tokens[t].pc = "refresh" THEN [NoToken EXCEPT !.pc = "sync"]
                          ELSE IF tokens[t].gen = gen THEN [NoToken EXCEPT !.pc = "issued", !.user = tokens[t].user] ELSE NoToken
      BY <2>4, Zenon DEF StoreToken, SessionShape
    <3>3. \E p \in {"idle", "sync", "issued"}, v \in Accounts \cup {Nobody} : r = [pc |-> p, gen |-> 0, user |-> v]
      BY <3>2, <1>t, Zenon DEF NoToken
    <3> QED
      BY <3>1, <3>2, <3>3, <2>2, Zenon
  <2>5. CASE SyncBearer(t)
    <3>1. UNCHANGED <<gen, user, token, engine, links, calls>>
      BY <2>5 DEF SyncBearer, innerVars
    <3>2. PICK r : /\ tokens' = [tokens EXCEPT ![t] = r]
                   /\ r = IF user # Nobody /\ token # Nobody /\ state = "Online"
                          THEN [NoToken EXCEPT !.pc = "issued", !.user = token] ELSE NoToken
      BY <2>5, Zenon DEF SyncBearer
    <3>3. \E p \in {"idle", "sync", "issued"}, v \in Accounts \cup {Nobody} : r = [pc |-> p, gen |-> 0, user |-> v]
      BY <3>2, Zenon DEF NoToken, SessionShape
    <3>4. token' \in Accounts \cup {Nobody}
      BY <3>1 DEF SessionShape
    <3> QED
      BY <3>1, <3>2, <3>3, <3>4, <2>2, Zenon
  <2> QED
    BY <1>11, <2>1, <2>3, <2>4, <2>5 DEF TokenSteps
<1>12. ASSUME UpdateToken PROVE SessionShape'
  <2>1. Asked([NoToken EXCEPT !.pc = "sync"])
    BY <1>0, <1>12 DEF Asked, NoToken, TokenRec, UpdateToken
  <2>2. token' \in Accounts \cup {Nobody} /\ UNCHANGED <<gen, user, engine, links, calls>>
    BY <1>12 DEF UpdateToken, SessionShape
  <2> QED
    BY <1>12, <2>1, <2>2, <1>10, Zenon DEF UpdateToken
<1>13. ASSUME UNCHANGED <<gen, user, token, engine, links, calls, tokens>> PROVE SessionShape'
  BY <1>13 DEF SessionShape
<1>14. ASSUME NEW g \in DOMAIN watch, WatchSteps(g) \/ WatchEvent(g) PROVE SessionShape'
  BY <1>13, <1>14 DEF WatchSteps, WatchEvent, RegisterWatch, CheckEnd, StoreState, innerVars
<1>15. CASE UNCHANGED sessionVars
  BY <1>13, <1>15 DEF sessionVars, innerVars
<1> QED
  BY <1>1, <1>9, <1>11, <1>12, <1>14, <1>15 DEF SessionNext

\* Every step keeps what is known about tokens: an answer is stored only in the generation in
\* which it was asked for, and the user does not change within a generation.
LEMMA TokenStep == TokenInv /\ [SessionNext]_sessionVars => TokenInv'
<1> SUFFICES ASSUME TokenInv, [SessionNext]_sessionVars PROVE TokenInv'
  OBVIOUS
<1>0. SessionShape /\ SessionShape' /\ TokenAsked /\ TokenOfUser
  BY ShapeStep DEF TokenInv
<1>1. ASSUME UNCHANGED <<gen, user, token, tokens>> PROVE TokenAsked' /\ TokenOfUser'
  BY <1>0, <1>1 DEF TokenAsked, TokenOfUser
<1>2. ASSUME gen' = gen + 1, token' \in {Nobody, user'}, UNCHANGED tokens PROVE TokenAsked' /\ TokenOfUser'
  <2>1. \A t \in TokenTasks : tokens'[t].gen # gen'
    <3> SUFFICES ASSUME NEW t \in TokenTasks PROVE tokens'[t].gen # gen'
      OBVIOUS
    <3>1. tokens[t].gen \in Nat /\ tokens[t].gen <= gen /\ gen \in Nat
      BY <1>0 DEF SessionShape, TokenRec
    <3> QED
      BY <1>2, <3>1
  <2> QED
    BY <1>2, <2>1 DEF TokenAsked, TokenOfUser
<1>3. ASSUME NEW t \in TokenTasks, UNCHANGED <<gen, user>>, token' \in {Nobody, user} \/ token' = token, NEW r, tokens' = [tokens EXCEPT ![t] = r],
             r.pc \in {"issue", "refresh"} /\ r.gen = gen => r.user = user
      PROVE TokenAsked' /\ TokenOfUser'
  <2>1. tokens'[t] = r /\ \A d \in TokenTasks : d # t => tokens'[d] = tokens[d]
    BY <1>0, <1>3 DEF SessionShape
  <2>2. TokenAsked'
    BY <1>0, <1>3, <2>1 DEF TokenAsked
  <2>3. TokenOfUser'
    BY <1>0, <1>3 DEF TokenOfUser
  <2> QED
    BY <2>2, <2>3, Zenon
<1>4. ASSUME NEW c \in Calls, CallSteps(c) PROVE TokenAsked' /\ TokenOfUser'
  <2>1. CASE EndSession(c)
    BY <1>2, <2>1, Zenon DEF EndSession, NextGeneration
  <2>2. CASE Install(c)
    BY <1>2, <2>2 DEF Install, NextGeneration
  <2>3. CASE Open(c)
    BY <1>2, <2>3 DEF Open, NextGeneration
  <2>4. ASSUME ~EndSession(c), ~Install(c), ~Open(c) PROVE TokenAsked' /\ TokenOfUser'
    <3>1. UNCHANGED <<innerVars, tokens>>
      BY <1>4, <2>4, Zenon DEF CallSteps, Wipe, ClearBearer, StopLink, PrepareFails, PrepareOutbox, ReadGeneration,
         OpenRefused, SetBearer, SpawnWatchers, StartLink, Started
    <3> QED
      BY <3>1, <1>1 DEF innerVars
  <2> QED
    BY <2>1, <2>2, <2>3, <2>4
<1>5. ASSUME NEW t \in TokenTasks, TokenSteps(t) PROVE TokenAsked' /\ TokenOfUser'
  <2>0. NoToken.pc = "idle" /\ [NoToken EXCEPT !.pc = "sync"].pc = "sync"
        /\ \A v : [NoToken EXCEPT !.pc = "issued", !.user = v].pc = "issued"
    BY DEF NoToken
  <2>1. CASE AskToken(t)
    <3>1. UNCHANGED <<gen, user, token>>
      BY <2>1 DEF AskToken, innerVars
    <3> DEFINE r == [pc |-> IF token = Nobody THEN "issue" ELSE "refresh", gen |-> gen, user |-> user]
    <3>2. tokens' = [tokens EXCEPT ![t] = r] /\ r.user = user
      BY <2>1, Zenon DEF AskToken
    <3> HIDE DEF r
    <3> QED
      BY <3>1, <3>2, <1>3, Zenon
  <2>2. CASE TokenFails(t) \/ TokenBearer(t)
    <3>1. UNCHANGED <<gen, user, token>> /\ tokens' = [tokens EXCEPT ![t] = NoToken]
      BY <2>2 DEF TokenFails, TokenBearer, innerVars
    <3> QED
      BY <3>1, <2>0, <1>3, Zenon
  <2>3. CASE StoreToken(t)
    <3>1. UNCHANGED <<gen, user>>
      BY <2>3 DEF StoreToken
    <3>2. token' \in {Nobody, user} \/ token' = token
      BY <2>3, <1>0 DEF StoreToken, TokenAsked
    <3>3. PICK r : /\ tokens' = [tokens EXCEPT ![t] = r]
                   /\ r = IF tokens[t].pc = "refresh" THEN [NoToken EXCEPT !.pc = "sync"]
                          ELSE IF tokens[t].gen = gen THEN [NoToken EXCEPT !.pc = "issued", !.user = tokens[t].user] ELSE NoToken
      BY <2>3, <1>0, Zenon DEF StoreToken, SessionShape
    <3>4. r.pc \in {"sync", "issued", "idle"}
      BY <3>3, <2>0
    <3> QED
      BY <3>1, <3>2, <3>3, <3>4, <1>3, Zenon
  <2>4. CASE SyncBearer(t)
    <3>1. UNCHANGED <<gen, user, token>>
      BY <2>4 DEF SyncBearer, innerVars
    <3>2. PICK r : /\ tokens' = [tokens EXCEPT ![t] = r]
                   /\ r = IF user # Nobody /\ token # Nobody /\ state = "Online"
                          THEN [NoToken EXCEPT !.pc = "issued", !.user = token] ELSE NoToken
      BY <2>4, Zenon DEF SyncBearer
    <3>3. r.pc \in {"issued", "idle"}
      BY <3>2, <2>0
    <3> QED
      BY <3>1, <3>2, <3>3, <1>3, Zenon
  <2> QED
    BY <1>5, <2>1, <2>2, <2>3, <2>4 DEF TokenSteps
<1>6. ASSUME UpdateToken PROVE TokenAsked' /\ TokenOfUser'
  <2> DEFINE r == [NoToken EXCEPT !.pc = "sync"]
  <2>1. tokens' = [tokens EXCEPT !["host"] = r] /\ r.pc = "sync"
    BY <1>6 DEF UpdateToken, NoToken
  <2> HIDE DEF r
  <2> QED
    BY <1>3, <1>6, <2>1, Zenon DEF UpdateToken
<1>7. ASSUME NEW g \in DOMAIN watch, WatchSteps(g) \/ WatchEvent(g) PROVE TokenAsked' /\ TokenOfUser'
  BY <1>1, <1>7 DEF WatchSteps, WatchEvent, RegisterWatch, CheckEnd, StoreState, innerVars
<1>8. ASSUME NEW c \in Calls, NEW op, NEW u, BeginCall(c, op, u) PROVE TokenAsked' /\ TokenOfUser'
  BY <1>1, <1>8 DEF BeginCall, innerVars
<1>9. ASSUME UNCHANGED sessionVars PROVE TokenAsked' /\ TokenOfUser'
  BY <1>1, <1>9 DEF sessionVars, innerVars
<1> QED
  BY <1>0, <1>4, <1>5, <1>6, <1>7, <1>8, <1>9 DEF SessionNext, TokenInv

\* For any number of accounts, calls and token tasks, and also for two logins at once: the token
\* of a session is its user's, whatever answers of the gateway arrive late.
THEOREM TokenIsOwn == SessionSpec => []TokenOfUser
<1>1. TokenInv => TokenOfUser
  BY DEF TokenInv
<1> QED
  BY <1>1, SessionStarts, TokenStep, PTL DEF SessionSpec

\* Every step keeps what is known about watchers: a new generation leaves none waiting.
LEMMA WatchStep == WatchInv /\ [SessionNext]_sessionVars => WatchInv'
<1> SUFFICES ASSUME WatchInv, [SessionNext]_sessionVars PROVE WatchInv'
  OBVIOUS
<1> USE DEF WatchInv, WatcherIsWoken
<1>1. ASSUME UNCHANGED <<gen, watch>> PROVE WatchInv'
  BY <1>1
<1>2. ASSUME NextGeneration PROVE WatchInv'
  <2>1. DOMAIN watch' = DOMAIN watch /\ \A g \in DOMAIN watch' : watch'[g] # "waiting" /\ watch'[g] # "checked"
    BY <1>2 DEF NextGeneration
  <2> QED
    BY <2>1
<1>3. ASSUME UNCHANGED gen, NEW g, NEW w, watch' = [watch EXCEPT ![g] = w], w = "waiting" => gen = g, w # "checked"
      PROVE WatchInv'
  BY <1>3
<1>4. ASSUME NEW c \in Calls, CallSteps(c) PROVE WatchInv'
  <2>1. CASE SpawnWatchers(c)
    BY <2>1, <1>3 DEF SpawnWatchers, innerVars
  <2>2. CASE EndSession(c) \/ Install(c) \/ Open(c)
    BY <2>2, <1>2 DEF EndSession, Install, Open
  <2>3. ASSUME ~SpawnWatchers(c), ~(EndSession(c) \/ Install(c) \/ Open(c)) PROVE WatchInv'
    <3>1. UNCHANGED <<innerVars, watch>>
      BY <1>4, <2>3, Zenon DEF CallSteps, Wipe, ClearBearer, StopLink, PrepareFails, PrepareOutbox, ReadGeneration,
         OpenRefused, SetBearer, StartLink, Started
    <3> QED
      BY <3>1, <1>1 DEF innerVars
  <2> QED
    BY <2>1, <2>2, <2>3
<1>5. ASSUME NEW t \in TokenTasks, TokenSteps(t) PROVE WatchInv'
  BY <1>1, <1>5 DEF TokenSteps, AskToken, TokenFails, StoreToken, SyncBearer, TokenBearer, innerVars
<1>6. ASSUME NEW g \in DOMAIN watch, WatchSteps(g) \/ WatchEvent(g) PROVE WatchInv'
  <2>1. CASE CheckEnd(g)
    <3>1. watch[g] \in {"registered", "woken"}
      BY <2>1, <1>6 DEF CheckEnd
    <3> DEFINE w == IF watch[g] = "woken" THEN "busy" ELSE IF gen = g THEN "waiting" ELSE "none"
    <3>2. watch' = [watch EXCEPT ![g] = w]
      BY <2>1, <3>1, Zenon DEF CheckEnd
    <3>3. w # "checked" /\ (w = "waiting" => gen = g)
      OBVIOUS
    <3> HIDE DEF w
    <3> QED
      BY <2>1, <3>2, <3>3, <1>3 DEF CheckEnd, innerVars
  <2>2. CASE WatchEvent(g)
    <3>1. PICK w : watch' = [watch EXCEPT ![g] = w] /\ w \in {"store", "none"}
      BY <2>2, Zenon DEF WatchEvent
    <3> QED
      BY <2>2, <3>1, <1>3 DEF WatchEvent, innerVars
  <2>3. CASE RegisterWatch(g) \/ StoreState(g)
    BY <2>3, <1>3 DEF RegisterWatch, StoreState, innerVars
  <2> QED
    BY <1>6, <2>1, <2>2, <2>3 DEF WatchSteps
<1>7. CASE UpdateToken \/ UNCHANGED sessionVars
  BY <1>1, <1>7 DEF UpdateToken, sessionVars, innerVars
<1>8. ASSUME NEW c \in Calls, NEW op, NEW u, BeginCall(c, op, u) PROVE WatchInv'
  BY <1>1, <1>8 DEF BeginCall, innerVars
<1> QED
  BY <1>4, <1>5, <1>6, <1>7, <1>8 DEF SessionNext

\* For any number of sessions, and also for two logins at once: no watcher waits for the end of a
\* session that is over, so none depends on an event that may never come.
THEOREM WatchersAreWoken == SessionSpec => []WatcherIsWoken
<1>1. WatchInv => WatcherIsWoken
  BY DEF WatchInv
<1> QED
  BY <1>1, SessionStarts, WatchStep, PTL DEF SessionSpec

\* Every step of a host that logs in once at a time keeps what is known about engines and links.
LEMMA LinkStep ==
    ASSUME "logins" \notin SessionEnv
    PROVE  LinkInv /\ [SessionNext]_sessionVars => LinkInv'
<1> SUFFICES ASSUME LinkInv, [SessionNext]_sessionVars PROVE LinkInv'
  OBVIOUS
<1> DEFINE Goal == OneLogin' /\ LoginAlone' /\ LinksHeld' /\ StoreOfUser'
<1> USE DEF LoginPcs, OpenPcs, HolderPcs
<1>0. SessionShape /\ SessionShape' /\ OneLogin /\ LoginAlone /\ LinksHeld /\ StoreOfUser
  BY ShapeStep DEF LinkInv
<1>m. \A c \in Calls : calls[c].gen \in Nat /\ calls[c].engine \in Nat /\ calls[c].gen <= gen /\ calls[c].engine <= gen
                       /\ calls[c].op \in {"none", "login", "logout"}
  BY <1>0 DEF SessionShape, CallRec
<1>g. gen \in Nat /\ \A l \in links : l.engine \in Nat /\ l.engine <= gen
  BY <1>0, Zenon DEF SessionShape
<1>u. ASSUME UNCHANGED <<gen, user, engine, links, calls>> PROVE Goal
  BY <1>0, <1>u DEF OneLogin, LoginAlone, LinksHeld, StoreOfUser
\* A step within a stage.
<1>s. ASSUME UNCHANGED <<gen, user, engine, links>>, NEW c \in Calls,
             \A d \in Calls : d # c => calls'[d] = calls[d],
             calls'[c].op = calls[c].op, calls'[c].user = calls[c].user, calls'[c].engine = calls[c].engine,
             \/ calls[c].pc \in {"wipe", "auth", "stop"} /\ calls'[c].pc \in {"wipe", "auth", "stop"}
             \/ calls[c].pc \in {"outbox", "connect", "open"} /\ calls'[c].pc \in {"outbox", "connect", "open"}
             \/ /\ calls[c].pc \in {"bearer", "empty", "watch", "start"}
                /\ calls'[c].pc \in {"bearer", "empty", "watch", "start"} /\ calls'[c].gen = calls[c].gen
      PROVE Goal
  <2>1. OneLogin'
    <3>1. \A d \in Calls : calls'[d].op = calls[d].op
      BY <1>s, Zenon
    <3>2. \A d \in Calls : calls'[d].pc \in LoginPcs => calls[d].pc \in LoginPcs
      BY <1>s, Zenon
    <3> HIDE DEF LoginPcs
    <3> QED BY <1>0, <3>1, <3>2, Zenon DEF OneLogin
  <2>2. LoginAlone'
    BY <1>0, <1>s, SMTT(40) DEF LoginAlone, OneLogin
  <2>3. LinksHeld'
    BY <1>0, <1>s, SMTT(40) DEF LinksHeld
  <2>4. StoreOfUser'
    BY <1>0, <1>s, Zenon DEF StoreOfUser
  <2> QED
    BY <2>1, <2>2, <2>3, <2>4, SMTT(40)
\* A call that returns without an engine to answer for.
<1>r. ASSUME UNCHANGED <<gen, user, engine, links>>, NEW c \in Calls, Return(c), calls[c].pc \notin HolderPcs
      PROVE Goal
  <2>0. calls'[c].op = "none" /\ calls'[c].pc = "idle" /\ \A d \in Calls : d # c => calls'[d] = calls[d]
    BY <1>0, <1>r DEF Return, NoCall, SessionShape
  <2>1. OneLogin'
    BY <1>0, <2>0, SMTT(40) DEF OneLogin
  <2>2. LoginAlone'
    BY <1>0, <1>r, <2>0 DEF LoginAlone
  <2>3. LinksHeld'
    BY <1>0, <1>r, <2>0, SMTT(40) DEF LinksHeld
  <2>4. StoreOfUser'
    BY <1>0, <1>r, <2>0 DEF StoreOfUser
  <2> QED
    BY <2>1, <2>2, <2>3, <2>4
<1>1. ASSUME NEW c \in Calls, NEW op \in {"login", "logout"}, NEW u, BeginCall(c, op, u) PROVE Goal
  <2>0. /\ UNCHANGED <<gen, user, engine, links>> /\ calls[c].pc = "idle"
        /\ calls'[c].op = op /\ calls'[c].pc = "end" /\ (\A d \in Calls : d # c => calls'[d] = calls[d])
        /\ op = "login" => \A d \in Calls : calls[d].op # "login"
    BY <1>0, <1>1, Zenon DEF BeginCall, innerVars, SessionShape
  <2>1. OneLogin'
    BY <1>0, <2>0, SMTT(40) DEF OneLogin
  <2>2. LoginAlone'
    BY <1>0, <2>0, ZenonT(40) DEF LoginAlone
  <2>3. LinksHeld'
    BY <1>0, <2>0, SMTT(40) DEF LinksHeld
  <2>4. StoreOfUser'
    BY <1>0, <2>0 DEF StoreOfUser
  <2> QED
    BY <2>1, <2>2, <2>3, <2>4, Zenon
<1>2. ASSUME NEW c \in Calls, EndSession(c) PROVE Goal
  <2>0. /\ engine' = Nobody /\ UNCHANGED links /\ calls[c].pc = "end"
        /\ calls'[c].op = calls[c].op /\ calls'[c].pc = "wipe" /\ (\A d \in Calls : d # c => calls'[d] = calls[d])
        /\ engine # Nobody => calls'[c].engine = engine.id
    BY <1>0, <1>2 DEF EndSession, SessionShape, CallRec
  <2>1. OneLogin'
    BY <1>0, <2>0, SMTT(40) DEF OneLogin
  <2>2. LoginAlone'
    BY <1>0, <2>0 DEF LoginAlone
  <2>3. LinksHeld'
    BY <1>0, <2>0 DEF LinksHeld
  <2>4. StoreOfUser'
    BY <2>0 DEF StoreOfUser
  <2> QED
    BY <2>1, <2>2, <2>3, <2>4
<1>3. ASSUME NEW c \in Calls, StopLink(c) PROVE Goal
  <2>0. /\ UNCHANGED <<gen, user, engine>> /\ calls[c].pc = "stop" /\ links' = {l \in links : l.engine # calls[c].engine}
        /\ \A d \in Calls : d # c => calls'[d] = calls[d]
        /\ \/ calls[c].op = "login" /\ calls'[c].op = "login" /\ calls'[c].pc = "build"
           \/ calls'[c].op = "none" /\ calls'[c].pc = "idle"
    BY <1>0, <1>3 DEF StopLink, Return, NoCall, innerVars, SessionShape, CallRec
  <2>1. OneLogin'
    BY <1>0, <2>0, SMTT(40) DEF OneLogin
  <2>2. LoginAlone'
    BY <1>0, <2>0, ZenonT(40) DEF LoginAlone
  <2>3. LinksHeld'
    BY <1>0, <2>0, SMTT(40) DEF LinksHeld
  <2>4. StoreOfUser'
    BY <1>0, <2>0 DEF StoreOfUser
  <2> QED
    BY <2>1, <2>2, <2>3, <2>4
<1>4. ASSUME NEW c \in Calls, Install(c) PROVE Goal
  <2>0. /\ gen' = gen + 1 /\ user' = calls[c].user /\ engine' = [id |-> gen + 1, user |-> calls[c].user]
        /\ UNCHANGED links /\ calls[c].pc = "build" /\ calls[c].op = "login" /\ engine = Nobody
        /\ calls'[c].op = "login" /\ calls'[c].pc = "outbox" /\ calls'[c].user = calls[c].user
        /\ \A d \in Calls : d # c => calls'[d] = calls[d]
    BY <1>0, <1>4, SMTT(40) DEF Install, NextGeneration, Goto, SessionShape, CallRec, OneLogin, LoginAlone
  <2>1. \A d \in Calls : d # c => calls[d].op # "login" /\ calls[d].pc \notin LoginPcs
    BY <1>0, <2>0 DEF OneLogin
  <2>2. \A l \in links : l.engine # engine'.id
    BY <1>g, <2>0, SMTT(40)
  <2>3. OneLogin'
    BY <1>0, <2>0, ZenonT(40) DEF OneLogin
  <2>4. LoginAlone'
    BY <2>0, <2>1, <2>2, ZenonT(40) DEF LoginAlone
  <2>5. LinksHeld'
    BY <1>0, <2>0, <2>2, Zenon DEF LinksHeld
  <2>6. StoreOfUser'
    BY <2>0, <2>1, Zenon DEF StoreOfUser
  <2> QED
    BY <2>3, <2>4, <2>5, <2>6
<1>5. ASSUME NEW c \in Calls, Open(c) PROVE Goal
  <2>0. /\ gen' = gen + 1 /\ user' = calls[c].user /\ engine # Nobody
        /\ UNCHANGED <<engine, links>> /\ calls[c].pc = "open" /\ calls[c].op = "login"
        /\ calls'[c].op = "login" /\ calls'[c].pc \in {"empty", "bearer"}
        /\ calls'[c].gen = gen' /\ calls'[c].engine = engine.id
        /\ \A d \in Calls : d # c => calls'[d] = calls[d]
    BY <1>0, <1>5 DEF Open, NextGeneration, SessionShape, CallRec, OneLogin
  <2>1. \A d \in Calls : d # c => calls[d].op # "login" /\ calls[d].pc \notin LoginPcs
    BY <1>0, <2>0 DEF OneLogin
  <2>2. \A l \in links : l.engine # engine.id
    BY <1>0, <2>0, Zenon DEF LoginAlone
  <2>3. OneLogin'
    BY <1>0, <2>0, ZenonT(40) DEF OneLogin
  <2>4. LoginAlone'
    BY <2>0, <2>1 DEF LoginAlone
  <2>5. LinksHeld'
    BY <1>0, <2>0, <2>2, SMTT(40) DEF LinksHeld
  <2>6. StoreOfUser'
    BY <1>0, <2>0, <2>1 DEF StoreOfUser
  <2> QED
    BY <2>3, <2>4, <2>5, <2>6
<1>6. ASSUME NEW c \in Calls, StartLink(c) PROVE Goal
  <2>0. /\ UNCHANGED <<gen, user, engine>> /\ calls[c].pc = "start" /\ calls[c].op = "login"
        /\ calls'[c].op = "login" /\ calls'[c].pc = "started"
        /\ calls'[c].gen = calls[c].gen /\ calls'[c].engine = calls[c].engine
        /\ \A d \in Calls : d # c => calls'[d] = calls[d]
    BY <1>0, <1>6 DEF StartLink, Goto, innerVars, SessionShape, CallRec, OneLogin
  <2>1. \A d \in Calls : d # c => calls[d].op # "login" /\ calls[d].pc \notin LoginPcs
    BY <1>0, <2>0, Zenon DEF OneLogin
  <2>2. \A l \in links' : \/ l \in links /\ l.engine # calls[c].engine
                          \/ l.engine = calls[c].engine /\ l.session = calls[c].gen
    BY <1>6, SMTT(40) DEF StartLink
  <2>3. OneLogin'
    BY <1>0, <2>0, ZenonT(40) DEF OneLogin
  <2>4. LoginAlone'
    BY <1>0, <2>0, <2>1, SMTT(40) DEF LoginAlone
  <2>5. LinksHeld'
    <3>1. engine # Nobody => calls[c].gen = gen /\ calls[c].engine = engine.id
      BY <1>0, <2>0, SMTT(40) DEF LoginAlone
    <3> QED
      BY <1>0, <2>0, <2>2, <3>1, Zenon DEF LinksHeld
  <2>6. StoreOfUser'
    BY <1>0, <2>0, SMTT(40) DEF StoreOfUser
  <2> QED
    BY <2>3, <2>4, <2>5, <2>6
<1>7. ASSUME NEW c \in Calls, Started(c) PROVE Goal
  <2>0. /\ UNCHANGED <<gen, user, engine>> /\ calls[c].pc = "started" /\ calls[c].op = "login"
        /\ calls'[c].op = "none" /\ calls'[c].pc = "idle"
        /\ \A d \in Calls : d # c => calls'[d] = calls[d]
    BY <1>0, <1>7, ZenonT(40) DEF Started, Return, NoCall, innerVars, SessionShape, OneLogin
  <2>1. \A d \in Calls : d # c => calls[d].op # "login" /\ calls[d].pc \notin LoginPcs
    BY <1>0, <2>0, SMTT(40) DEF OneLogin
  <2>2. \A l \in links' : /\ l \in links
                          /\ \/ l.engine # calls[c].engine
                             \/ engine # Nobody /\ engine.id = l.engine
                             \/ \E d \in Calls \ {c} : calls[d].pc = "stop" /\ calls[d].engine = l.engine
    BY <1>7, <2>1 DEF Started
  <2>3. OneLogin'
    BY <1>0, <2>0, Zenon DEF OneLogin
  <2>4. LoginAlone'
    BY <1>0, <2>0, <2>1, SMTT(40) DEF LoginAlone
  <2>5. LinksHeld'
    BY <1>0, <2>0, <2>2, SMTT(40) DEF LinksHeld
  <2>6. StoreOfUser'
    BY <1>0, <2>0 DEF StoreOfUser
  <2> QED
    BY <2>3, <2>4, <2>5, <2>6
<1>8. ASSUME NEW c \in Calls, PrepareFails(c) \/ PrepareOutbox(c) \/ OpenRefused(c) PROVE Goal
  <2>1. UNCHANGED <<gen, user, engine, links>> /\ calls[c].pc \in {"build", "outbox", "open"}
    BY <1>8, ZenonT(40) DEF PrepareFails, PrepareOutbox, OpenRefused, innerVars
  <2>2. CASE Return(c)
    BY <1>r, <2>1, <2>2, ZenonT(40)
  <2>3. CASE ~Return(c)
    <3>1. calls[c].pc = "outbox" /\ Goto(c, "connect")
      BY <1>8, <2>3, Zenon DEF PrepareFails, PrepareOutbox, OpenRefused
    <3>2. /\ calls'[c].op = calls[c].op /\ calls'[c].user = calls[c].user /\ calls'[c].engine = calls[c].engine
          /\ calls'[c].pc = "connect" /\ \A d \in Calls : d # c => calls'[d] = calls[d]
      BY <3>1, <1>0 DEF Goto, SessionShape, CallRec
    <3> QED
      BY <2>1, <3>1, <3>2, <1>s, SMTT(40)
  <2> QED
    BY <2>2, <2>3, SMTT(40)
<1>9. ASSUME NEW c \in Calls, Wipe(c) \/ ClearBearer(c) \/ ReadGeneration(c) \/ SetBearer(c) \/ SpawnWatchers(c) PROVE Goal
  <2>1. UNCHANGED <<gen, user, engine, links>>
    BY <1>9, SMTT(40) DEF Wipe, ClearBearer, ReadGeneration, SetBearer, SpawnWatchers, innerVars
  <2>2. CASE Wipe(c) \/ ClearBearer(c) \/ SetBearer(c) \/ SpawnWatchers(c)
    <3>1. PICK p : /\ Goto(c, p)
                   /\ \/ calls[c].pc \in {"wipe", "auth"} /\ p \in {"auth", "stop"}
                      \/ calls[c].pc \in {"bearer", "empty", "watch"} /\ p \in {"watch", "start"}
      BY <2>2 DEF Wipe, ClearBearer, SetBearer, SpawnWatchers
    <3>2. /\ calls'[c].op = calls[c].op /\ calls'[c].user = calls[c].user /\ calls'[c].engine = calls[c].engine
          /\ calls'[c].gen = calls[c].gen
          /\ calls'[c].pc = p /\ \A d \in Calls : d # c => calls'[d] = calls[d]
      BY <3>1, <1>0, SMTT(40) DEF Goto, SessionShape, CallRec
    <3> QED
      BY <2>1, <3>1, <3>2, <1>s, ZenonT(40)
  <2>3. CASE ReadGeneration(c)
    <3>1. /\ calls'[c].op = calls[c].op /\ calls'[c].user = calls[c].user /\ calls'[c].engine = calls[c].engine
          /\ calls[c].pc = "connect" /\ calls'[c].pc = "open" /\ \A d \in Calls : d # c => calls'[d] = calls[d]
      BY <2>3, <1>0 DEF ReadGeneration, SessionShape, CallRec
    <3> QED
      BY <2>1, <3>1, <1>s
  <2> QED
    BY <1>9, <2>2, <2>3
<1>10. ASSUME NEW c \in Calls, CallSteps(c) PROVE Goal
  BY <1>10, <1>2, <1>3, <1>4, <1>5, <1>6, <1>7, <1>8, <1>9, Zenon DEF CallSteps
<1>11. ASSUME NEW t \in TokenTasks, TokenSteps(t) PROVE Goal
  BY <1>u, <1>11 DEF TokenSteps, AskToken, TokenFails, StoreToken, SyncBearer, TokenBearer, innerVars
<1>12. ASSUME NEW g \in DOMAIN watch, WatchSteps(g) \/ WatchEvent(g) PROVE Goal
  BY <1>u, <1>12 DEF WatchSteps, WatchEvent, RegisterWatch, CheckEnd, StoreState, innerVars
<1>13. ASSUME UpdateToken \/ UNCHANGED sessionVars PROVE Goal
  BY <1>u, <1>13 DEF UpdateToken, sessionVars, innerVars
<1>14. Goal
  <2> HIDE DEF Goal
  <2> QED
    BY <1>1, <1>10, <1>11, <1>12, <1>13 DEF SessionNext
<1> QED
  BY <1>0, <1>14 DEF LinkInv

\* For any number of accounts and calls of a host that logs in once at a time: the session works
\* on the stores of its own user, and prepare goes on with the engine it installed.
THEOREM StoresAreOwn ==
    ASSUME "logins" \notin SessionEnv
    PROVE  SessionSpec => []StoreOfUser
<1>1. LinkInv => StoreOfUser
  BY DEF LinkInv
<1>2. LinkInv /\ [SessionNext]_sessionVars => LinkInv'
  BY LinkStep
<1> QED
  BY <1>1, <1>2, SessionStarts, PTL DEF SessionSpec

\* For any number of accounts and calls of a host that logs in once at a time: once its calls have
\* returned, every link that runs is the one of the current session.
THEOREM NoLinkIsLeft ==
    ASSUME "logins" \notin SessionEnv
    PROVE  SessionSpec => []NoOrphanLink
<1>1. LinkInv => NoOrphanLink
  BY DEF LinkInv, LinksHeld, NoOrphanLink, HolderPcs
<1>2. LinkInv /\ [SessionNext]_sessionVars => LinkInv'
  BY LinkStep
<1> QED
  BY <1>1, <1>2, SessionStarts, PTL DEF SessionSpec

-----------------------------------------------------------------------------
(* The update machine                                                      *)

USE DEF None0

-----------------------------------------------------------------------------
(* The package                                                              *)

\* reassess establishes the property whatever package it is given.
LEMMA ReassessOffers ==
  ASSUME NEW offer, NEW package, NEW next, Reassess(offer, package, next),
         next = "ready" => package # None0
  PROVE  ReadyIsOffered'
BY SMTT(40) DEF Reassess, Kept, ReadyIsOffered

\* Every handler that sets the offer, the package or the phase keeps it.
LEMMA ReadyStep == ReadyIsOffered /\ [UpdateNext]_updateVars => ReadyIsOffered'
<1> SUFFICES ASSUME ReadyIsOffered, [UpdateNext]_updateVars PROVE ReadyIsOffered'
  OBVIOUS
<1> USE DEF offerVars, checkVars, taskVars
<1> DEFINE Still == UNCHANGED <<target, ready>> /\ (phase' = "ready" => phase = "ready")
<1>1. Still => ReadyIsOffered'
  BY DEF ReadyIsOffered
<1>2. AfterRound = "ready" => phase = "ready"
  BY DEF AfterRound
<1>3. ASSUME NEW manual \in BOOLEAN, RequestCheck(manual) PROVE Still
  BY <1>3, SMTT(40) DEF RequestCheck
<1>4. ASSUME NEW trigger \in Triggers,
             SpawnCheck(trigger) \/ CheckUnavailable(trigger) \/ TakeTurn(trigger)
      PROVE  Still
  BY <1>2, <1>4 DEF SpawnCheck, CheckUnavailable, TakeTurn
<1>5. ASSUME NEW offer, FinishCheck(offer) PROVE ReadyIsOffered'
  <2>1. Reassess(offer, ready, AfterRound)
    BY <1>5 DEF FinishCheck
  <2>2. AfterRound = "ready" => ready # None0
    BY <1>2 DEF ReadyIsOffered
  <2> HIDE DEF None0
  <2> QED
    BY <2>1, <2>2, ReassessOffers
<1>6. ASSUME NEW offer, Rejected(offer) PROVE ReadyIsOffered'
  <2>1. Reassess(offer, ready, phase) /\ (phase = "ready" => ready # None0)
    BY <1>6 DEF Rejected, ReadyIsOffered
  <2> QED
    BY <2>1, ReassessOffers
<1>7. ASSUME NEW offer, Relaunch(offer) PROVE ReadyIsOffered'
  BY <1>7, SMTT(40) DEF Relaunch, ReadyIsOffered
<1>8. CASE CheckFails \/ CheckInterval \/ Defer
  BY <1>1, <1>2, <1>8 DEF CheckFails, CheckInterval, Defer
<1>9. ASSUME NEW task \in DownloadTasks, BeginDownload(task) \/ BeginVerifying(task) PROVE Still
  BY <1>9 DEF BeginDownload, BeginVerifying
<1>10. ASSUME NEW task \in DownloadTasks, DownloadReady(task) PROVE ReadyIsOffered'
  <2>1. Reassess(target, downloads[task], "ready") /\ downloads[task] # None0
    BY <1>10 DEF DownloadReady
  <2> QED
    BY <2>1, ReassessOffers
<1>11. ASSUME NEW task \in DownloadTasks, DownloadFailed(task) PROVE ReadyIsOffered'
  BY <1>11 DEF DownloadFailed, Kept, ReadyIsOffered
<1>12. CASE InstallPlan \/ InstallPackage
  BY <1>1, <1>12 DEF InstallPlan, InstallPackage
<1>13. CASE HandOver \/ PackageRejected
  BY <1>13 DEF HandOver, PackageRejected, Kept, ReadyIsOffered
<1>14. ASSUME NEW outcome \in {"started", "completed", "cancelled", "failed", "bad"},
              ReportInstall(outcome)
       PROVE  ReadyIsOffered'
  BY <1>14 DEF ReportInstall, Kept, ReadyIsOffered
<1>15. CASE UNCHANGED updateVars
  BY <1>1, <1>15 DEF updateVars
<1> HIDE DEF Still
<1> QED
  BY <1>1, <1>3, <1>4, <1>5, <1>6, <1>7, <1>8, <1>9, <1>10, <1>11, <1>12, <1>13, <1>14, <1>15
     DEF UpdateNext

\* For any builds and overlaps: a package whose release was withdrawn, while it
\* was fetched or while it waited, is never offered for installation (reassess,
\* download_ready, restore).
THEOREM ReadyHolds == UpdateSpec => []ReadyIsOffered
<1>1. UpdateInit => ReadyIsOffered
  BY DEF UpdateInit, ReadyIsOffered
<1> QED
  BY <1>1, ReadyStep, PTL DEF UpdateSpec

-----------------------------------------------------------------------------
(* The rounds                                                               *)

\* The counters, with the property.
RoundInv ==
  /\ checkRounds \in Nat
  /\ queued \in [Triggers -> Nat]
  /\ fetching \in BOOLEAN /\ manualCheck \in BOOLEAN
  /\ CheckingHasRound

\* A round that is counted out leaves "checking" if it was the last one.
LEMMA RoundEndsFacts ==
  ASSUME RoundInv, RoundEnds, checkRounds > 0
  PROVE  /\ checkRounds' = checkRounds - 1 /\ checkRounds' \in Nat
         /\ ~manualCheck' /\ manualCheck' \in BOOLEAN
         /\ AfterRound = "checking" => checkRounds' > 0
<1>1. ~manualCheck' /\ manualCheck' \in BOOLEAN
  BY ZenonT(40) DEF RoundEnds
<1>2. checkRounds' = checkRounds - 1 /\ checkRounds' \in Nat
  BY DEF RoundInv, RoundEnds
<1>3. AfterRound = "checking" => checkRounds # 1
  BY DEF AfterRound
<1> QED
  BY <1>1, <1>2, <1>3 DEF RoundInv

\* A round joins the queue of its trigger.
LEMMA JoinFacts ==
  ASSUME RoundInv, NEW t \in Triggers, queued' = [queued EXCEPT ![t] = @ + 1]
  PROVE  /\ queued' \in [Triggers -> Nat]
         /\ queued'["scheduled"] + queued'["pushed"] = queued["scheduled"] + queued["pushed"] + 1
BY DEF RoundInv, Triggers

\* A round leaves the queue of its trigger.
LEMMA LeaveFacts ==
  ASSUME RoundInv, NEW t \in Triggers, queued[t] > 0, queued' = [queued EXCEPT ![t] = @ - 1]
  PROVE  /\ queued' \in [Triggers -> Nat]
         /\ queued'["scheduled"] + queued'["pushed"] = queued["scheduled"] + queued["pushed"] - 1
         /\ queued["scheduled"] + queued["pushed"] > 0
BY SMTT(40) DEF RoundInv, Triggers

\* Every round is counted in when it is spawned and out on every way it ends.
LEMMA CheckRoundStep == RoundInv /\ [UpdateNext]_updateVars => RoundInv'
<1> SUFFICES ASSUME RoundInv, [UpdateNext]_updateVars PROVE RoundInv'
  OBVIOUS
<1> USE DEF offerVars, checkVars, taskVars
<1> DEFINE Still == UNCHANGED checkVars /\ (phase' = "checking" => phase = "checking")
<1>1. Still => RoundInv'
  BY DEF RoundInv, CheckingHasRound
<1>2. ASSUME NEW manual \in BOOLEAN, RequestCheck(manual) PROVE RoundInv'
  <2>1. CASE checkRounds > 0
    BY <1>2, <2>1 DEF RequestCheck, RoundInv, CheckingHasRound
  <2>2. CASE ~(checkRounds > 0)
    <3>1. /\ checkRounds = 0 /\ checkRounds' = 1 /\ fetching' = fetching
          /\ queued' = [queued EXCEPT !["scheduled"] = @ + 1]
          /\ manualCheck' = (manualCheck \/ manual)
      BY <1>2, <2>2 DEF RequestCheck, RoundInv
    <3>2. queued["scheduled"] \in Nat /\ queued["pushed"] \in Nat /\ "scheduled" \in Triggers
      BY DEF RoundInv, Triggers
    <3>3. /\ queued' \in [Triggers -> Nat]
          /\ queued'["scheduled"] + queued'["pushed"] = queued["scheduled"] + queued["pushed"] + 1
      BY <3>1, <3>2, JoinFacts, Zenon
    <3> QED
      BY <3>1, <3>2, <3>3 DEF RoundInv, CheckingHasRound
  <2> QED
    BY <2>1, <2>2
<1>3. ASSUME NEW t \in Triggers, checkRounds' = checkRounds + 1,
             queued' = [queued EXCEPT ![t] = @ + 1], UNCHANGED <<manualCheck, fetching>>
      PROVE  RoundInv'
  <2>1. queued[t] \in Nat /\ queued[t] + 1 \in Nat
    BY DEF RoundInv, Triggers
  <2>2. queued["scheduled"] \in Nat /\ queued["pushed"] \in Nat
    BY DEF RoundInv, Triggers
  <2>3. /\ queued' \in [Triggers -> Nat]
        /\ queued'["scheduled"] + queued'["pushed"] = queued["scheduled"] + queued["pushed"] + 1
    BY <1>3, JoinFacts, Zenon
  <2> QED
    BY <1>3, <2>2, <2>3 DEF RoundInv, CheckingHasRound
<1>4. ASSUME NEW t \in Triggers, SpawnCheck(t) PROVE RoundInv'
  BY <1>3, <1>4, Zenon DEF SpawnCheck
<1>5. ASSUME NEW t \in Triggers, queued[t] > 0, queued' = [queued EXCEPT ![t] = @ - 1],
             RoundEnds, phase' = AfterRound, fetching' = fetching
      PROVE  RoundInv'
  <2>1. queued[t] \in Nat /\ queued[t] - 1 \in Nat
    BY <1>5 DEF RoundInv, Triggers
  <2>2. queued["scheduled"] \in Nat /\ queued["pushed"] \in Nat
    BY DEF RoundInv, Triggers
  <2>3. /\ queued' \in [Triggers -> Nat]
        /\ queued'["scheduled"] + queued'["pushed"] = queued["scheduled"] + queued["pushed"] - 1
    BY <1>5, LeaveFacts, Zenon
  <2>4. checkRounds > 0
    BY <1>5, <2>2 DEF RoundInv, CheckingHasRound, Triggers
  <2>5. /\ checkRounds' = checkRounds - 1 /\ checkRounds' \in Nat
        /\ ~manualCheck' /\ manualCheck' \in BOOLEAN
        /\ AfterRound = "checking" => checkRounds' > 0
    BY <1>5, <2>4, RoundEndsFacts
  <2> QED
    BY <1>5, <2>2, <2>3, <2>5 DEF RoundInv, CheckingHasRound
<1>6. ASSUME NEW t \in Triggers, CheckUnavailable(t) PROVE RoundInv'
  BY <1>5, <1>6, Zenon DEF CheckUnavailable
<1>7. ASSUME NEW t \in Triggers, TakeTurn(t) PROVE RoundInv'
  <2>1. CASE t = "scheduled" /\ ~manualCheck /\ ~checkDue
    BY <1>5, <1>7, <2>1, Zenon DEF TakeTurn
  <2>2. CASE ~(t = "scheduled" /\ ~manualCheck /\ ~checkDue)
    <3>1. /\ queued[t] > 0 /\ fetching = FALSE /\ fetching' = TRUE
          /\ queued' = [queued EXCEPT ![t] = @ - 1]
          /\ UNCHANGED <<checkRounds, manualCheck, phase>>
      BY <1>7, <2>2 DEF TakeTurn, RoundInv
    <3>2. queued[t] \in Nat /\ queued[t] - 1 \in Nat
      BY <3>1 DEF RoundInv, Triggers
    <3>3. queued["scheduled"] \in Nat /\ queued["pushed"] \in Nat
      BY DEF RoundInv, Triggers
    <3>4. /\ queued' \in [Triggers -> Nat]
          /\ queued'["scheduled"] + queued'["pushed"] = queued["scheduled"] + queued["pushed"] - 1
      BY <3>1, LeaveFacts, Zenon
    <3> QED
      BY <3>1, <3>3, <3>4 DEF RoundInv, CheckingHasRound
  <2> QED
    BY <2>1, <2>2
<1>8. ASSUME fetching, fetching' = FALSE, queued' = queued, RoundEnds,
             phase' = "checking" => AfterRound = "checking"
      PROVE  RoundInv'
  <2>1. queued["scheduled"] \in Nat /\ queued["pushed"] \in Nat
    BY DEF RoundInv, Triggers
  <2>2. checkRounds = queued["scheduled"] + queued["pushed"] + 1
    BY <1>8 DEF RoundInv, CheckingHasRound
  <2>3. checkRounds > 0
    BY <2>1, <2>2
  <2>4. /\ checkRounds' = checkRounds - 1 /\ checkRounds' \in Nat
        /\ ~manualCheck' /\ manualCheck' \in BOOLEAN
        /\ AfterRound = "checking" => checkRounds' > 0
    BY <1>8, <2>3, RoundEndsFacts
  <2>5. fetching' \in BOOLEAN /\ ~fetching' /\ queued' \in [Triggers -> Nat]
    BY <1>8, Zenon DEF RoundInv
  <2>6. checkRounds' = queued'["scheduled"] + queued'["pushed"] + 0
    BY <1>8, <2>1, <2>2, <2>4
  <2> QED
    BY <1>8, <2>4, <2>5, <2>6 DEF RoundInv, CheckingHasRound
<1>9. ASSUME NEW offer, FinishCheck(offer) PROVE RoundInv'
  BY <1>8, <1>9, ZenonT(40) DEF FinishCheck, Reassess
<1>10. CASE CheckFails
  BY <1>8, <1>10, Zenon DEF CheckFails
<1>11. ASSUME NEW offer, Rejected(offer) PROVE RoundInv'
  <2>1. phase' = "checking" => phase = "checking"
    BY <1>11 DEF Rejected, Reassess
  <2>2. CASE UNCHANGED <<checkRounds, queued>>
    BY <1>1, <1>11, <2>1, <2>2 DEF Rejected
  <2>3. CASE /\ checkRounds' = checkRounds + 1
             /\ queued' = [queued EXCEPT !["pushed"] = @ + 1]
    BY <1>3, <1>11, <2>3 DEF Rejected, Triggers
  <2> QED
    BY <1>11, <2>2, <2>3 DEF Rejected
<1>12. ASSUME NEW offer, Relaunch(offer) PROVE RoundInv'
  <2>1. queued' = [t \in Triggers |-> 0] /\ checkRounds' = 0 /\ ~fetching' /\ fetching' \in BOOLEAN
        /\ ~manualCheck' /\ manualCheck' \in BOOLEAN /\ phase' # "checking"
    BY <1>12, ZenonT(40) DEF Relaunch
  <2>2. queued'["scheduled"] = 0 /\ queued'["pushed"] = 0
    BY <2>1 DEF Triggers
  <2> QED
    BY <2>1, <2>2 DEF RoundInv, CheckingHasRound
<1>13. CASE CheckInterval
  BY <1>13, Zenon DEF CheckInterval, RoundInv, CheckingHasRound
<1>14. ASSUME NEW task \in DownloadTasks,
              BeginDownload(task) \/ BeginVerifying(task) \/ DownloadReady(task) \/ DownloadFailed(task)
       PROVE  Still
  BY <1>14, Zenon DEF BeginDownload, BeginVerifying, DownloadReady, DownloadFailed, Reassess
<1>15. CASE InstallPlan \/ InstallPackage \/ HandOver \/ PackageRejected \/ Defer
  BY <1>1, <1>15 DEF InstallPlan, InstallPackage, HandOver, PackageRejected, Defer
<1>16. ASSUME NEW outcome \in {"started", "completed", "cancelled", "failed", "bad"},
              ReportInstall(outcome)
       PROVE  Still
  BY <1>16 DEF ReportInstall
<1>17. CASE UNCHANGED updateVars
  BY <1>1, <1>17 DEF updateVars
<1> HIDE DEF Still
<1> QED
  BY <1>1, <1>2, <1>4, <1>6, <1>7, <1>9, <1>10, <1>11, <1>12, <1>13, <1>14, <1>15, <1>16, <1>17, Zenon
     DEF UpdateNext

\* For any number of overlapping rounds: the machine does not stop at "checking"
\* and a manual request is not remembered without a round that will answer it
\* (end_check_round on every way out of run_check).
THEOREM CheckingHolds == UpdateSpec => []CheckingHasRound
<1>1. UpdateInit => RoundInv
  <2> SUFFICES ASSUME UpdateInit PROVE RoundInv
    OBVIOUS
  <2>1. /\ ~manualCheck /\ manualCheck \in BOOLEAN /\ ~fetching /\ fetching \in BOOLEAN
        /\ phase # "checking" /\ checkRounds = 0
    BY Zenon DEF UpdateInit
  <2>2. queued \in [Triggers -> Nat] /\ queued["scheduled"] = 0 /\ queued["pushed"] = 0
    BY DEF UpdateInit, Triggers
  <2> QED
    BY <2>1, <2>2 DEF RoundInv, CheckingHasRound
<1>2. RoundInv => CheckingHasRound
  BY DEF RoundInv
<1> QED
  BY <1>1, <1>2, CheckRoundStep, PTL DEF UpdateSpec

===============================================================================
