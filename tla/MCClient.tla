------------------------------ MODULE MCClient ------------------------------
(* Push tokens, session lifecycle and enqueue clock for TLC: in a behaviour *)
(* one of them moves, so their state spaces add up.                         *)
EXTENDS PushLifecycle, SessionLifecycle, EnqueueClock

VARIABLE part   \* the component that moves

clientPartVars == <<part, pushVars, sessionVars, vars>>

ClientInit ==
    /\ part \in {"push", "session", "clock"}
    /\ PushInit /\ SessionInit /\ Init
    /\ part # "clock" => now = 0

\* Every endpoint is configured, sessions are attached at one: the journal of another
\* endpoint is refused while the first has entries.
AttachEndpoints == {"e1"}

OnPush(A) == part = "push" /\ A /\ UNCHANGED <<part, sessionVars, vars>>
OnSession(A) == part = "session" /\ A /\ UNCHANGED <<part, pushVars, vars>>
OnClock(A) == part = "clock" /\ A /\ UNCHANGED <<part, pushVars, sessionVars>>

PushPart ==
    \/ \E u \in Users : OnPush(NewGeneration(u))
    \/ \E t \in Tokens \cup {NoOne} : OnPush(SetToken(t))
    \/ \E b \in BOOLEAN : OnPush(SetPermission(b))
    \/ \E e \in Endpoints : OnPush(Configure(e))
    \/ \E e \in AttachEndpoints : OnPush(Attach(e))
    \/ OnPush(Detach)
    \/ OnPush(Crash)
    \/ OnPush(StartRun)
    \/ OnPush(VisitEntry)
    \/ OnPush(Inspected)
    \/ OnPush(Revoked)
    \/ OnPush(RemoveFails)
    \/ OnPush(VisitDesired)
    \/ OnPush(Register)
    \/ OnPush(NotRegistered)
    \/ OnPush(PutAnswered)
    \/ OnPush(RunFails)
    \/ OnPush(ServeInspect)
    \/ \E p \in puts : OnPush(ServePut(p))
    \/ \E id \in posts : OnPush(ServePost(id))

SessionPart ==
    \/ \E c \in Calls : OnSession(BeginCall(c, "logout", Nobody))
    \/ \E c \in Calls, u \in Accounts : OnSession(BeginCall(c, "login", u))
    \/ \E c \in Calls : OnSession(EndSession(c))
    \/ \E c \in Calls : OnSession(Wipe(c))
    \/ \E c \in Calls : OnSession(ClearBearer(c))
    \/ \E c \in Calls : OnSession(StopLink(c))
    \/ \E c \in Calls : OnSession(Install(c))
    \/ \E c \in Calls : OnSession(PrepareFails(c))
    \/ \E c \in Calls : OnSession(PrepareOutbox(c))
    \/ \E c \in Calls : OnSession(ReadGeneration(c))
    \/ \E c \in Calls : OnSession(Open(c))
    \/ \E c \in Calls : OnSession(OpenRefused(c))
    \/ \E c \in Calls : OnSession(SetBearer(c))
    \/ \E c \in Calls : OnSession(SpawnWatchers(c))
    \/ \E c \in Calls : OnSession(StartLink(c))
    \/ \E c \in Calls : OnSession(Started(c))
    \/ \E t \in TokenTasks : OnSession(AskToken(t))
    \/ \E t \in TokenTasks : OnSession(TokenFails(t))
    \/ \E t \in TokenTasks : OnSession(StoreToken(t))
    \/ \E t \in TokenTasks : OnSession(SyncBearer(t))
    \/ \E t \in TokenTasks : OnSession(TokenBearer(t))
    \/ OnSession(UpdateToken)
    \/ \E g \in DOMAIN watch : OnSession(RegisterWatch(g))
    \/ \E g \in DOMAIN watch : OnSession(CheckEnd(g))
    \/ \E g \in DOMAIN watch : OnSession(WatchEvent(g))
    \/ \E g \in DOMAIN watch : OnSession(StoreState(g))

ClockPart ==
    \/ \E id \in Ids : OnClock(Enqueue(id))
    \/ \E id \in Ids : OnClock(Pop(id))
    \/ OnClock(EnqueueFails)
    \/ OnClock(NotePersisted)
    \/ OnClock(Restart)
    \/ \E t \in 0..MaxTime : OnClock(WallClockMoves(t))

ClientNext == PushPart \/ SessionPart \/ ClockPart

ClientSpec ==
    /\ ClientInit /\ [][ClientNext]_clientPartVars
    /\ PushFairness
=============================================================================
