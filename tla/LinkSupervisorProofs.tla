----------------------- MODULE LinkSupervisorProofs -----------------------
(***************************************************************************)
(* Proofs about LinkSupervisor for any number of access points and any     *)
(* behaviour of the environment.  Type correctness comes first, then       *)
(* LinkInv, which is inductive: one lemma for each of its conjuncts, with  *)
(* one step for each handler; the theorems follow.                         *)
(***************************************************************************)
EXTENDS LinkSupervisor, TLAPS

\* The type invariant in four parts, so that each is proved from the updates it needs.
FlagTypes ==
    /\ session \in BOOLEAN /\ reply \in BOOLEAN /\ renewed \in BOOLEAN
    /\ syncing \in BOOLEAN /\ byRtt \in BOOLEAN /\ resume \in BOOLEAN
    /\ net \in BOOLEAN /\ kept \in BOOLEAN
WordTypes ==
    /\ phase \in Phases
    /\ live \in {"none", "current", "stale"} /\ conn \in {"none", "current", "stale"}
    /\ op \in {"none", "directory", "token", "renew", "open", "opened", "sync"}
    /\ directory \in {"loading", "empty", "ready"} /\ outbox \in {"paused", "running"}
TimerTypes ==
    /\ timers \subseteq {"retry", "degraded", "move"}
    /\ lost \subseteq {"current", "stale"}
CountTypes ==
    /\ round \in Rounds \cup {NoRound}
    /\ failed \in 0..RecoveringAfter

\* An aged signal is still a signal.
LEMMA AgedSignals ==
    ASSUME lost \subseteq {"current", "stale"}, AgeSignals
    PROVE  lost' \subseteq {"current", "stale"}
  BY DEF AgeSignals, Age

\* A round in progress is a record of its type, and told apart from no round.
LEMMA RealRound ==
    ASSUME NEW b \in BOOLEAN, NEW t \in 0..Aps
    PROVE  /\ [token |-> b, tried |-> t] \in Rounds
           /\ [token |-> b, tried |-> t] # NoRound
<1>1. t # Aps + 1
  BY LinkAssumption
<1> QED
  BY <1>1 DEF Rounds, NoRound

\* A fresh round.
LEMMA FreshRound ==
    /\ [token |-> FALSE, tried |-> 0] \in Rounds
    /\ [token |-> FALSE, tried |-> 0] # NoRound
<1>1. 0 \in 0..Aps /\ 0 # Aps + 1
  BY LinkAssumption
<1> QED
  BY <1>1 DEF Rounds, NoRound

\* A round that is continued, or given up for lack of a manifest, has its counters in range.
LEMMA RoundCounts ==
    ASSUME NEW dir, NEW armed, NEW failures \in 0..RecoveringAfter, NEW tried \in 0..Aps, NEW waits,
           ContinueRound(dir, armed, failures, tried, waits)
    PROVE  CountTypes'
<1>1. CASE dir = "empty"
  BY <1>1 DEF ContinueRound, CountTypes, RecoveringAfter
<1>2. CASE dir # "empty"
  <2>1. [token |-> FALSE, tried |-> tried] \in Rounds
    BY RealRound, Zenon
  <2> QED
    BY <1>2, <2>1, Zenon DEF ContinueRound, CountTypes
<1> QED
  BY <1>1, <1>2

\* The round of a start call has its counters in range.
LEMMA StartCounts ==
    ASSUME NEW armed, BeginRound(armed, 0, 0, TRUE)
    PROVE  CountTypes'
<1>1. CASE directory = "empty"
  BY <1>1 DEF BeginRound, ContinueRound, CountTypes, RecoveringAfter
<1>2. CASE directory # "empty"
  <2>1. round' = [token |-> FALSE, tried |-> 0] /\ failed' = 0
    BY <1>2 DEF BeginRound, ContinueRound
  <2> QED
    BY <2>1, FreshRound DEF CountTypes, RecoveringAfter
<1> QED
  BY <1>1, <1>2

\* A round that tries one more access point, or is exhausted, has its counters in range.
LEMMA AttemptCounts ==
    ASSUME failed \in 0..RecoveringAfter, NEW tried \in Nat, NextAttempt(tried)
    PROVE  CountTypes'
<1>1. CASE tried < Aps /\ round' = [token |-> TRUE, tried |-> tried] /\ UNCHANGED failed
  BY <1>1, LinkAssumption DEF CountTypes, Rounds
<1>2. CASE RoundExhausted(timers)
  BY <1>2 DEF RoundExhausted, CountTypes, RecoveringAfter
<1> QED
  BY <1>1, <1>2 DEF NextAttempt

\* The number of access points a round has tried is a number, and so is the next one.
LEMMA TriedIsCount ==
    ASSUME CountTypes
    PROVE  round.tried \in Nat /\ (round # NoRound => round.tried \in 0..Aps)
  BY LinkAssumption DEF CountTypes, Rounds, NoRound

\* Every action keeps the flags Boolean.
LEMMA FlagsStep ==
    ASSUME FlagTypes, [Next]_vars
    PROVE  FlagTypes'
<1> USE LinkAssumption
<1>1. CASE StartAgain
  BY <1>1, Zenon DEF StartAgain, Online, Waiting, BeginRound, ContinueRound, DropOp, link, probe,
          outboxes, FlagTypes
<1>2. CASE StartFresh
  BY <1>2, Zenon DEF StartFresh, CloseLink, link, transport, NewSession, BeginRound,
          ContinueRound, probe, FlagTypes
<1>3. CASE Stop
  BY <1>3, Zenon DEF Stop, CloseLink, probe, FlagTypes
<1>4. CASE Nudge
  BY <1>4, Zenon DEF Nudge, Waiting, BeginRound, ContinueRound, DropOp, link, probe, outboxes,
          FlagTypes
<1>5. CASE NetworkDown
  BY <1>5, Zenon DEF NetworkDown, DropOp, session_, link, probe, FlagTypes
<1>6. CASE NetworkUpProbes
  BY <1>6, Zenon DEF NetworkUpProbes, session_, link, attempt, outboxes, transport, FlagTypes
<1>7. CASE NetworkUpSwitches
  BY <1>7, Zenon DEF NetworkUpSwitches, SwitchAway, BeginRound, ContinueRound, FlagTypes
<1>8. CASE NetworkUpConnects
  BY <1>8, Zenon DEF NetworkUpConnects, Waiting, BeginRound, ContinueRound, DropOp, link, probe,
          outboxes, FlagTypes
<1>9. CASE Foreground
  BY <1>9, Zenon DEF Foreground, Waiting, BeginRound, ContinueRound, DropOp, link, probe,
          outboxes, FlagTypes
<1>10. CASE Switch
  BY <1>10, Zenon DEF Switch, SwitchAway, BeginRound, ContinueRound, FlagTypes
<1>11. CASE DirectoryLoads
  BY <1>11, ZenonT(40) DEF DirectoryLoads, ContinueRound, RecoveringAfter, NoRound, link, probe,
          outboxes, transport, FlagTypes
<1>12. CASE DirectoryFails
  BY <1>12, Zenon DEF DirectoryFails, link, probe, outboxes, transport, FlagTypes
<1>13. CASE TokenArrives
  BY <1>13, Zenon DEF TokenArrives, NoRound, transport, NextAttempt, RoundExhausted,
          RecoveringAfter, probe, FlagTypes
<1>14. CASE TokenUnreachable
  BY <1>14, Zenon DEF TokenUnreachable, RoundExhausted, link, probe, outboxes, transport,
          FlagTypes
<1>15. CASE TokenRefused
  BY <1>15, Zenon DEF TokenRefused, Terminate, CloseLink, probe, FlagTypes
<1>16. CASE Connected
  BY <1>16, Zenon DEF Connected, outboxes, transport, FlagTypes
<1>17. CASE Synced
  BY <1>17, Zenon DEF Synced, probe, outboxes, transport, FlagTypes
<1>18. CASE Overloaded
  BY <1>18, Zenon DEF Overloaded, link, probe, outboxes, transport, FlagTypes
<1>19. CASE AuthRejected
  BY <1>19, Zenon DEF AuthRejected, NoRound, link, probe, outboxes, transport, Terminate,
          CloseLink, FlagTypes
<1>20. CASE Rejected
  BY <1>20, Zenon DEF Rejected, Terminate, CloseLink, probe, FlagTypes
<1>21. CASE AttemptFailed
  BY <1>21, Zenon DEF AttemptFailed, transport, NextAttempt, RoundExhausted, RecoveringAfter,
          probe, FlagTypes
<1>22. ASSUME NEW e \in {"current", "stale"}, LostDropped(e)
       PROVE  FlagTypes'
  BY <1>22 DEF LostDropped, session_, link, attempt, probe, outboxes, FlagTypes
<1>23. ASSUME NEW e \in {"current", "stale"}, LostOffline(e)
       PROVE  FlagTypes'
  BY <1>23, Zenon DEF LostOffline, LoseLink, Left, FlagTypes
<1>24. ASSUME NEW e \in {"current", "stale"}, LostFailed(e)
       PROVE  FlagTypes'
  BY <1>24, Zenon DEF LostFailed, LoseLink, BeginRound, ContinueRound, Left, FlagTypes
<1>25. ASSUME NEW e \in {"current", "stale"}, LostDraining(e)
       PROVE  FlagTypes'
  BY <1>25, Zenon DEF LostDraining, LoseLink, Left, FlagTypes
<1>26. ASSUME NEW e \in {"current", "stale"}, LostKicked(e)
       PROVE  FlagTypes'
  BY <1>26, Zenon DEF LostKicked, LoseLink, Left, FlagTypes
<1>27. ASSUME NEW e \in {"current", "stale"}, LostForGood(e)
       PROVE  FlagTypes'
  BY <1>27, Zenon DEF LostForGood, FlagTypes
<1>28. CASE RoundTrip
  BY <1>28, Zenon DEF RoundTrip, session_, link, attempt, outboxes, transport, FlagTypes
<1>29. CASE ProbePasses
  BY <1>29, Zenon DEF ProbePasses, session_, link, attempt, transport, FlagTypes
<1>30. CASE RetryDue
  BY <1>30, Zenon DEF RetryDue, BeginRound, ContinueRound, DropOp, link, probe, outboxes,
          FlagTypes
<1>31. CASE MoveDue
  BY <1>31, Zenon DEF MoveDue, SwitchAway, BeginRound, ContinueRound, session_, link, attempt,
          probe, outboxes, transport, FlagTypes
<1>32. CASE DirectoryChanges
  BY <1>32 DEF DirectoryChanges, Waiting, ContinueRound, DropOp, link, probe, outboxes, FlagTypes
<1>33. CASE Handshake
  BY <1>33 DEF Handshake, session_, link, probe, outboxes, FlagTypes
<1>34. CASE ConnectionEnds
  BY <1>34 DEF ConnectionEnds, session_, link, attempt, probe, outboxes, FlagTypes
<1>35. CASE UNCHANGED vars
  BY <1>35 DEF vars, session_, link, attempt, probe, outboxes, transport, FlagTypes
<1> QED
  BY <1>1, <1>2, <1>3, <1>4, <1>5, <1>6, <1>7, <1>8, <1>9, <1>10, <1>11, <1>12, <1>13, <1>14,
          <1>15, <1>16, <1>17, <1>18, <1>19, <1>20, <1>21, <1>22, <1>23, <1>24, <1>25, <1>26,
          <1>27, <1>28, <1>29, <1>30, <1>31, <1>32, <1>33, <1>34, <1>35 DEF Next, Commands,
          Results, Signals, Timers, Lost

\* Every action keeps the phase, the connections and the operation in their sets.
LEMMA WordsStep ==
    ASSUME WordTypes, [Next]_vars
    PROVE  WordTypes'
<1> USE LinkAssumption
<1>1. CASE StartAgain
  BY <1>1 DEF StartAgain, Online, Waiting, BeginRound, ContinueRound, DropOp, link, probe,
          outboxes, WordTypes, Phases
<1>2. CASE StartFresh
  BY <1>2 DEF StartFresh, CloseLink, link, transport, NewSession, BeginRound, ContinueRound,
          probe, WordTypes, Phases
<1>3. CASE Stop
  BY <1>3 DEF Stop, CloseLink, probe, WordTypes, Phases
<1>4. CASE Nudge
  BY <1>4 DEF Nudge, Waiting, BeginRound, ContinueRound, DropOp, link, probe, outboxes, WordTypes,
          Phases
<1>5. CASE NetworkDown
  BY <1>5 DEF NetworkDown, DropOp, session_, link, probe, WordTypes, Phases
<1>6. CASE NetworkUpProbes
  BY <1>6 DEF NetworkUpProbes, session_, link, attempt, outboxes, transport, WordTypes, Phases
<1>7. CASE NetworkUpSwitches
  BY <1>7 DEF NetworkUpSwitches, SwitchAway, Age, BeginRound, ContinueRound, WordTypes, Phases
<1>8. CASE NetworkUpConnects
  BY <1>8 DEF NetworkUpConnects, Waiting, BeginRound, ContinueRound, DropOp, link, probe,
          outboxes, WordTypes, Phases
<1>9. CASE Foreground
  BY <1>9 DEF Foreground, Waiting, BeginRound, ContinueRound, DropOp, link, probe, outboxes,
          WordTypes, Phases
<1>10. CASE Switch
  BY <1>10 DEF Switch, SwitchAway, Age, BeginRound, ContinueRound, WordTypes, Phases
<1>11. CASE DirectoryLoads
  BY <1>11 DEF DirectoryLoads, ContinueRound, link, probe, outboxes, transport, WordTypes, Phases
<1>12. CASE DirectoryFails
  BY <1>12 DEF DirectoryFails, link, probe, outboxes, transport, WordTypes, Phases
<1>13. CASE TokenArrives
  BY <1>13 DEF TokenArrives, transport, NextAttempt, Age, RoundExhausted, probe, WordTypes, Phases
<1>14. CASE TokenUnreachable
  BY <1>14 DEF TokenUnreachable, RoundExhausted, link, probe, outboxes, transport, WordTypes,
          Phases
<1>15. CASE TokenRefused
  BY <1>15 DEF TokenRefused, Terminate, CloseLink, probe, WordTypes, Phases
<1>16. CASE Connected
  BY <1>16 DEF Connected, outboxes, transport, WordTypes, Phases
<1>17. CASE Synced
  BY <1>17 DEF Synced, probe, outboxes, transport, WordTypes, Phases
<1>18. CASE Overloaded
  BY <1>18 DEF Overloaded, link, probe, outboxes, transport, WordTypes, Phases
<1>19. CASE AuthRejected
  BY <1>19 DEF AuthRejected, link, probe, outboxes, transport, Terminate, CloseLink, WordTypes,
          Phases
<1>20. CASE Rejected
  BY <1>20 DEF Rejected, Terminate, CloseLink, probe, WordTypes, Phases
<1>21. CASE AttemptFailed
  BY <1>21 DEF AttemptFailed, transport, NextAttempt, Age, RoundExhausted, probe, WordTypes,
          Phases
<1>22. ASSUME NEW e \in {"current", "stale"}, LostDropped(e)
       PROVE  WordTypes'
  BY <1>22 DEF LostDropped, session_, link, attempt, probe, outboxes, WordTypes
<1>23. ASSUME NEW e \in {"current", "stale"}, LostOffline(e)
       PROVE  WordTypes'
  BY <1>23 DEF LostOffline, LoseLink, Left, WordTypes, Phases
<1>24. ASSUME NEW e \in {"current", "stale"}, LostFailed(e)
       PROVE  WordTypes'
  BY <1>24 DEF LostFailed, LoseLink, BeginRound, ContinueRound, Left, WordTypes, Phases
<1>25. ASSUME NEW e \in {"current", "stale"}, LostDraining(e)
       PROVE  WordTypes'
  BY <1>25 DEF LostDraining, LoseLink, Left, WordTypes, Phases
<1>26. ASSUME NEW e \in {"current", "stale"}, LostKicked(e)
       PROVE  WordTypes'
  BY <1>26 DEF LostKicked, LoseLink, Left, WordTypes, Phases
<1>27. ASSUME NEW e \in {"current", "stale"}, LostForGood(e)
       PROVE  WordTypes'
  BY <1>27 DEF LostForGood, WordTypes, Phases
<1>28. CASE RoundTrip
  BY <1>28 DEF RoundTrip, session_, link, attempt, outboxes, transport, WordTypes, Phases
<1>29. CASE ProbePasses
  BY <1>29 DEF ProbePasses, session_, link, attempt, transport, WordTypes, Phases
<1>30. CASE RetryDue
  BY <1>30 DEF RetryDue, BeginRound, ContinueRound, DropOp, link, probe, outboxes, WordTypes,
          Phases
<1>31. CASE MoveDue
  BY <1>31 DEF MoveDue, SwitchAway, Age, BeginRound, ContinueRound, session_, link, attempt,
          probe, outboxes, transport, WordTypes, Phases
<1>32. CASE DirectoryChanges
  BY <1>32 DEF DirectoryChanges, Waiting, ContinueRound, DropOp, link, probe, outboxes, WordTypes,
          Phases
<1>33. CASE Handshake
  BY <1>33 DEF Handshake, session_, link, probe, outboxes, WordTypes
<1>34. CASE ConnectionEnds
  BY <1>34 DEF ConnectionEnds, session_, link, attempt, probe, outboxes, WordTypes
<1>35. CASE UNCHANGED vars
  BY <1>35, SMTT(40) DEF vars, session_, link, attempt, probe, outboxes, transport, WordTypes
<1> QED
  BY <1>1, <1>2, <1>3, <1>4, <1>5, <1>6, <1>7, <1>8, <1>9, <1>10, <1>11, <1>12, <1>13, <1>14,
          <1>15, <1>16, <1>17, <1>18, <1>19, <1>20, <1>21, <1>22, <1>23, <1>24, <1>25, <1>26,
          <1>27, <1>28, <1>29, <1>30, <1>31, <1>32, <1>33, <1>34, <1>35 DEF Next, Commands,
          Results, Signals, Timers, Lost

\* Every action arms known deadlines only.
LEMMA TimersStep ==
    ASSUME TimerTypes, [Next]_vars
    PROVE  TimerTypes'
<1> USE LinkAssumption
<1>1. CASE StartAgain
  BY <1>1, Zenon DEF StartAgain, Online, Waiting, BeginRound, ContinueRound, DropOp, link, probe,
          outboxes, TimerTypes
<1>2. CASE StartFresh
  BY <1>2, AgedSignals, Zenon DEF StartFresh, CloseLink, link, transport, NewSession, BeginRound,
          ContinueRound, probe, TimerTypes
<1>3. CASE Stop
  BY <1>3, AgedSignals DEF Stop, CloseLink, probe, TimerTypes
<1>4. CASE Nudge
  BY <1>4, Zenon DEF Nudge, Waiting, BeginRound, ContinueRound, DropOp, link, probe, outboxes,
          TimerTypes
<1>5. CASE NetworkDown
  BY <1>5, Zenon DEF NetworkDown, DropOp, session_, link, probe, TimerTypes
<1>6. CASE NetworkUpProbes
  BY <1>6 DEF NetworkUpProbes, session_, link, attempt, outboxes, transport, TimerTypes
<1>7. CASE NetworkUpSwitches
  BY <1>7, AgedSignals, Zenon DEF NetworkUpSwitches, SwitchAway, BeginRound, ContinueRound,
          TimerTypes
<1>8. CASE NetworkUpConnects
  BY <1>8, Zenon DEF NetworkUpConnects, Waiting, BeginRound, ContinueRound, DropOp, link, probe,
          outboxes, TimerTypes
<1>9. CASE Foreground
  BY <1>9, Zenon DEF Foreground, Waiting, BeginRound, ContinueRound, DropOp, link, probe,
          outboxes, TimerTypes
<1>10. CASE Switch
  BY <1>10, AgedSignals, Zenon DEF Switch, SwitchAway, BeginRound, ContinueRound, TimerTypes
<1>11. CASE DirectoryLoads
  BY <1>11, Zenon DEF DirectoryLoads, ContinueRound, link, probe, outboxes, transport, TimerTypes
<1>12. CASE DirectoryFails
  BY <1>12 DEF DirectoryFails, link, probe, outboxes, transport, TimerTypes
<1>13. CASE TokenArrives
  BY <1>13, AgedSignals, Zenon DEF TokenArrives, transport, NextAttempt, RoundExhausted, probe,
          TimerTypes
<1>14. CASE TokenUnreachable
  BY <1>14 DEF TokenUnreachable, RoundExhausted, link, probe, outboxes, transport, TimerTypes
<1>15. CASE TokenRefused
  BY <1>15, AgedSignals DEF TokenRefused, Terminate, CloseLink, probe, TimerTypes
<1>16. CASE Connected
  BY <1>16 DEF Connected, outboxes, transport, TimerTypes
<1>17. CASE Synced
  BY <1>17 DEF Synced, probe, outboxes, transport, TimerTypes
<1>18. CASE Overloaded
  BY <1>18 DEF Overloaded, link, probe, outboxes, transport, TimerTypes
<1>19. CASE AuthRejected
  BY <1>19, AgedSignals, Zenon DEF AuthRejected, link, probe, outboxes, transport, Terminate,
          CloseLink, TimerTypes
<1>20. CASE Rejected
  BY <1>20, AgedSignals DEF Rejected, Terminate, CloseLink, probe, TimerTypes
<1>21. CASE AttemptFailed
  BY <1>21, AgedSignals, Zenon DEF AttemptFailed, transport, NextAttempt, RoundExhausted, probe,
          TimerTypes
<1>22. ASSUME NEW e \in {"current", "stale"}, LostDropped(e)
       PROVE  TimerTypes'
  BY <1>22 DEF LostDropped, session_, link, attempt, probe, outboxes, TimerTypes
<1>23. ASSUME NEW e \in {"current", "stale"}, LostOffline(e)
       PROVE  TimerTypes'
  BY <1>23 DEF LostOffline, LoseLink, Left, TimerTypes
<1>24. ASSUME NEW e \in {"current", "stale"}, LostFailed(e)
       PROVE  TimerTypes'
  BY <1>24 DEF LostFailed, LoseLink, BeginRound, ContinueRound, Left, TimerTypes
<1>25. ASSUME NEW e \in {"current", "stale"}, LostDraining(e)
       PROVE  TimerTypes'
  BY <1>25 DEF LostDraining, LoseLink, Left, TimerTypes
<1>26. ASSUME NEW e \in {"current", "stale"}, LostKicked(e)
       PROVE  TimerTypes'
  BY <1>26 DEF LostKicked, LoseLink, Left, TimerTypes
<1>27. ASSUME NEW e \in {"current", "stale"}, LostForGood(e)
       PROVE  TimerTypes'
  BY <1>27 DEF LostForGood, Age, TimerTypes
<1>28. CASE RoundTrip
  BY <1>28 DEF RoundTrip, session_, link, attempt, outboxes, transport, TimerTypes
<1>29. CASE ProbePasses
  BY <1>29 DEF ProbePasses, session_, link, attempt, transport, TimerTypes
<1>30. CASE RetryDue
  BY <1>30, Zenon DEF RetryDue, BeginRound, ContinueRound, DropOp, link, probe, outboxes,
          TimerTypes
<1>31. CASE MoveDue
  BY <1>31, AgedSignals, Zenon DEF MoveDue, SwitchAway, BeginRound, ContinueRound, session_, link,
          attempt, probe, outboxes, transport, TimerTypes
<1>32. CASE DirectoryChanges
  BY <1>32, Zenon DEF DirectoryChanges, Waiting, ContinueRound, RecoveringAfter, DropOp, link,
          probe, outboxes, TimerTypes
<1>33. CASE Handshake
  BY <1>33 DEF Handshake, session_, link, probe, outboxes, TimerTypes
<1>34. CASE ConnectionEnds
  BY <1>34 DEF ConnectionEnds, session_, link, attempt, probe, outboxes, TimerTypes
<1>35. CASE UNCHANGED vars
  BY <1>35 DEF vars, session_, link, attempt, probe, outboxes, transport, TimerTypes
<1> QED
  BY <1>1, <1>2, <1>3, <1>4, <1>5, <1>6, <1>7, <1>8, <1>9, <1>10, <1>11, <1>12, <1>13, <1>14,
          <1>15, <1>16, <1>17, <1>18, <1>19, <1>20, <1>21, <1>22, <1>23, <1>24, <1>25, <1>26,
          <1>27, <1>28, <1>29, <1>30, <1>31, <1>32, <1>33, <1>34, <1>35 DEF Next, Commands,
          Results, Signals, Timers, Lost

\* Every action keeps the round and the number of failed rounds in range.
LEMMA CountsStep ==
    ASSUME CountTypes, OpsMatch, [Next]_vars
    PROVE  CountTypes'
<1> USE LinkAssumption
<1>1. CASE StartAgain
  <2>1. CASE phase \in Waiting \cup {"Idle"}
    <3>1. BeginRound(timers, 0, 0, TRUE)
      BY <1>1, <2>1, Zenon DEF StartAgain
    <3> QED
      BY <3>1, StartCounts, Zenon
  <2>2. CASE ~(phase \in Waiting \cup {"Idle"})
    BY <1>1, <2>2 DEF StartAgain, CountTypes
  <2> QED
    BY <2>1, <2>2
<1>2. CASE StartFresh
  <2>1. CASE net
    <3>1. BeginRound({}, 0, 0, TRUE)
      BY <1>2, <2>1, Zenon DEF StartFresh, NewSession
    <3> QED
      BY <3>1, StartCounts, Zenon
  <2>2. CASE ~(net)
    BY <1>2, <2>2 DEF StartFresh, NewSession, CountTypes, RecoveringAfter
  <2> QED
    BY <2>1, <2>2
<1>3. CASE Stop
  BY <1>3 DEF Stop, CloseLink, probe, CountTypes
<1>4. CASE Nudge
  BY <1>4, RoundCounts DEF Nudge, BeginRound, RecoveringAfter, CountTypes
<1>5. CASE NetworkDown
  BY <1>5 DEF NetworkDown, DropOp, session_, link, probe, CountTypes
<1>6. CASE NetworkUpProbes
  BY <1>6 DEF NetworkUpProbes, session_, link, attempt, outboxes, transport, CountTypes
<1>7. CASE NetworkUpSwitches
  BY <1>7, RoundCounts DEF NetworkUpSwitches, SwitchAway, BeginRound, CountTypes
<1>8. CASE NetworkUpConnects
  BY <1>8, RoundCounts DEF NetworkUpConnects, BeginRound, RecoveringAfter, CountTypes
<1>9. CASE Foreground
  BY <1>9, RoundCounts DEF Foreground, BeginRound, CountTypes
<1>10. CASE Switch
  BY <1>10, RoundCounts DEF Switch, SwitchAway, BeginRound, CountTypes
<1>11. CASE DirectoryLoads
  BY <1>11, RoundCounts, TriedIsCount DEF DirectoryLoads, CountTypes, OpsMatch
<1>12. CASE DirectoryFails
  BY <1>12 DEF DirectoryFails, link, probe, outboxes, transport, CountTypes
<1>13. CASE TokenArrives
  BY <1>13, AttemptCounts, TriedIsCount DEF TokenArrives, CountTypes, attempt
<1>14. CASE TokenUnreachable
  BY <1>14 DEF TokenUnreachable, RoundExhausted, RecoveringAfter, link, probe, outboxes,
          transport, CountTypes
<1>15. CASE TokenRefused
  BY <1>15 DEF TokenRefused, Terminate, CloseLink, probe, CountTypes
<1>16. CASE Connected
  BY <1>16 DEF Connected, outboxes, transport, CountTypes
<1>17. CASE Synced
  BY <1>17 DEF Synced, probe, outboxes, transport, CountTypes, RecoveringAfter
<1>18. CASE Overloaded
  BY <1>18 DEF Overloaded, link, probe, outboxes, transport, CountTypes
<1>19. CASE AuthRejected
  BY <1>19 DEF AuthRejected, link, probe, outboxes, transport, Terminate, CloseLink, CountTypes
<1>20. CASE Rejected
  BY <1>20 DEF Rejected, Terminate, CloseLink, probe, CountTypes
<1>21. CASE AttemptFailed
  BY <1>21, AttemptCounts, TriedIsCount DEF AttemptFailed, CountTypes, attempt
<1>22. ASSUME NEW e \in {"current", "stale"}, LostDropped(e)
       PROVE  CountTypes'
  BY <1>22 DEF LostDropped, session_, link, attempt, probe, outboxes, CountTypes
<1>23. ASSUME NEW e \in {"current", "stale"}, LostOffline(e)
       PROVE  CountTypes'
  BY <1>23 DEF LostOffline, LoseLink, Left, CountTypes
<1>24. ASSUME NEW e \in {"current", "stale"}, LostFailed(e)
       PROVE  CountTypes'
  BY <1>24, RoundCounts DEF LostFailed, BeginRound, CountTypes
<1>25. ASSUME NEW e \in {"current", "stale"}, LostDraining(e)
       PROVE  CountTypes'
  BY <1>25 DEF LostDraining, LoseLink, Left, CountTypes
<1>26. ASSUME NEW e \in {"current", "stale"}, LostKicked(e)
       PROVE  CountTypes'
  BY <1>26 DEF LostKicked, LoseLink, Left, CountTypes
<1>27. ASSUME NEW e \in {"current", "stale"}, LostForGood(e)
       PROVE  CountTypes'
  BY <1>27 DEF LostForGood, CountTypes
<1>28. CASE RoundTrip
  BY <1>28 DEF RoundTrip, session_, link, attempt, outboxes, transport, CountTypes
<1>29. CASE ProbePasses
  BY <1>29 DEF ProbePasses, session_, link, attempt, transport, CountTypes
<1>30. CASE RetryDue
  BY <1>30, RoundCounts DEF RetryDue, BeginRound, CountTypes
<1>31. CASE MoveDue
  BY <1>31, RoundCounts DEF MoveDue, SwitchAway, BeginRound, attempt, CountTypes
<1>32. CASE DirectoryChanges
  BY <1>32, RoundCounts DEF DirectoryChanges, CountTypes
<1>33. CASE Handshake
  BY <1>33 DEF Handshake, session_, link, probe, outboxes, CountTypes
<1>34. CASE ConnectionEnds
  BY <1>34 DEF ConnectionEnds, session_, link, attempt, probe, outboxes, CountTypes
<1>35. CASE UNCHANGED vars
  BY <1>35 DEF vars, session_, link, attempt, probe, outboxes, transport, CountTypes
<1> QED
  BY <1>1, <1>2, <1>3, <1>4, <1>5, <1>6, <1>7, <1>8, <1>9, <1>10, <1>11, <1>12, <1>13, <1>14,
          <1>15, <1>16, <1>17, <1>18, <1>19, <1>20, <1>21, <1>22, <1>23, <1>24, <1>25, <1>26,
          <1>27, <1>28, <1>29, <1>30, <1>31, <1>32, <1>33, <1>34, <1>35 DEF Next, Commands,
          Results, Signals, Timers, Lost

\* The type invariant is the conjunction of its four parts.
LEMMA TypeParts ==
    LinkTypeOK <=> FlagTypes /\ WordTypes /\ TimerTypes /\ CountTypes
  BY  DEF LinkTypeOK, FlagTypes, WordTypes, TimerTypes, CountTypes

-----------------------------------------------------------------------------
(* The inductive invariant                                                 *)

\* Every action leaves nothing behind when it ends the session.
LEMMA QuietStep ==
    ASSUME LinkTypeOK, QuietWithoutSession, OpsMatch, [Next]_vars
    PROVE  QuietWithoutSession'
<1> USE LinkAssumption
<1>1. CASE StartAgain
  BY <1>1 DEF StartAgain, Online, Waiting, BeginRound, ContinueRound, DropOp, link, probe,
          outboxes, QuietWithoutSession
<1>2. CASE StartFresh
  BY <1>2 DEF StartFresh, CloseLink, link, transport, NewSession, BeginRound, ContinueRound,
          probe, QuietWithoutSession
<1>3. CASE Stop
  BY <1>3 DEF Stop, CloseLink, probe, QuietWithoutSession
<1>4. CASE Nudge
  BY <1>4 DEF Nudge, Waiting, BeginRound, ContinueRound, DropOp, link, probe, outboxes,
          QuietWithoutSession
<1>5. CASE NetworkDown
  BY <1>5 DEF NetworkDown, DropOp, session_, link, probe, QuietWithoutSession
<1>6. CASE NetworkUpProbes
  BY <1>6 DEF NetworkUpProbes, session_, link, attempt, outboxes, transport, QuietWithoutSession
<1>7. CASE NetworkUpSwitches
  BY <1>7 DEF NetworkUpSwitches, SwitchAway, BeginRound, ContinueRound, QuietWithoutSession
<1>8. CASE NetworkUpConnects
  BY <1>8 DEF NetworkUpConnects, Waiting, BeginRound, ContinueRound, DropOp, link, probe,
          outboxes, QuietWithoutSession
<1>9. CASE Foreground
  BY <1>9 DEF Foreground, Waiting, BeginRound, ContinueRound, DropOp, link, probe, outboxes,
          QuietWithoutSession
<1>10. CASE Switch
  BY <1>10 DEF Switch, SwitchAway, BeginRound, ContinueRound, QuietWithoutSession
<1>11. CASE DirectoryLoads
  BY <1>11 DEF DirectoryLoads, ContinueRound, link, probe, outboxes, transport,
          QuietWithoutSession
<1>12. CASE DirectoryFails
  BY <1>12 DEF DirectoryFails, link, probe, outboxes, transport, QuietWithoutSession, OpsMatch
<1>13. CASE TokenArrives
  BY <1>13 DEF TokenArrives, transport, NextAttempt, RoundExhausted, probe, QuietWithoutSession
<1>14. CASE TokenUnreachable
  BY <1>14 DEF TokenUnreachable, RoundExhausted, link, probe, outboxes, transport,
          QuietWithoutSession
<1>15. CASE TokenRefused
  BY <1>15 DEF TokenRefused, Terminate, CloseLink, probe, QuietWithoutSession
<1>16. CASE Connected
  BY <1>16 DEF Connected, outboxes, transport, QuietWithoutSession
<1>17. CASE Synced
  BY <1>17 DEF Synced, probe, outboxes, transport, QuietWithoutSession
<1>18. CASE Overloaded
  BY <1>18 DEF Overloaded, link, probe, outboxes, transport, QuietWithoutSession
<1>19. CASE AuthRejected
  BY <1>19 DEF AuthRejected, link, probe, outboxes, transport, Terminate, CloseLink,
          QuietWithoutSession
<1>20. CASE Rejected
  BY <1>20 DEF Rejected, Terminate, CloseLink, probe, QuietWithoutSession
<1>21. CASE AttemptFailed
  BY <1>21 DEF AttemptFailed, transport, NextAttempt, RoundExhausted, probe, QuietWithoutSession
<1>22. ASSUME NEW e \in {"current", "stale"}, LostDropped(e)
       PROVE  QuietWithoutSession'
  BY <1>22 DEF LostDropped, session_, link, attempt, probe, outboxes, QuietWithoutSession
<1>23. ASSUME NEW e \in {"current", "stale"}, LostOffline(e)
       PROVE  QuietWithoutSession'
  BY <1>23 DEF LostOffline, LoseLink, Left, QuietWithoutSession
<1>24. ASSUME NEW e \in {"current", "stale"}, LostFailed(e)
       PROVE  QuietWithoutSession'
  BY <1>24 DEF LostFailed, LoseLink, BeginRound, ContinueRound, Left, QuietWithoutSession
<1>25. ASSUME NEW e \in {"current", "stale"}, LostDraining(e)
       PROVE  QuietWithoutSession'
  BY <1>25 DEF LostDraining, LoseLink, Left, QuietWithoutSession
<1>26. ASSUME NEW e \in {"current", "stale"}, LostKicked(e)
       PROVE  QuietWithoutSession'
  BY <1>26 DEF LostKicked, LoseLink, Left, QuietWithoutSession
<1>27. ASSUME NEW e \in {"current", "stale"}, LostForGood(e)
       PROVE  QuietWithoutSession'
  BY <1>27 DEF LostForGood, QuietWithoutSession
<1>28. CASE RoundTrip
  BY <1>28 DEF RoundTrip, session_, link, attempt, outboxes, transport, QuietWithoutSession
<1>29. CASE ProbePasses
  BY <1>29 DEF ProbePasses, session_, link, attempt, transport, QuietWithoutSession
<1>30. CASE RetryDue
  BY <1>30 DEF RetryDue, BeginRound, ContinueRound, DropOp, link, probe, outboxes,
          QuietWithoutSession
<1>31. CASE MoveDue
  BY <1>31 DEF MoveDue, SwitchAway, BeginRound, ContinueRound, session_, link, attempt, probe,
          outboxes, transport, QuietWithoutSession
<1>32. CASE DirectoryChanges
  BY <1>32 DEF DirectoryChanges, Waiting, ContinueRound, DropOp, link, probe, outboxes,
          QuietWithoutSession
<1>33. CASE Handshake
  BY <1>33 DEF Handshake, session_, link, probe, outboxes, QuietWithoutSession
<1>34. CASE ConnectionEnds
  BY <1>34 DEF ConnectionEnds, session_, link, attempt, probe, outboxes, QuietWithoutSession
<1>35. CASE UNCHANGED vars
  BY <1>35 DEF vars, session_, link, attempt, probe, outboxes, transport, LinkTypeOK,
          QuietWithoutSession
<1> QED
  BY <1>1, <1>2, <1>3, <1>4, <1>5, <1>6, <1>7, <1>8, <1>9, <1>10, <1>11, <1>12, <1>13, <1>14,
          <1>15, <1>16, <1>17, <1>18, <1>19, <1>20, <1>21, <1>22, <1>23, <1>24, <1>25, <1>26,
          <1>27, <1>28, <1>29, <1>30, <1>31, <1>32, <1>33, <1>34, <1>35, ZenonT(40) DEF Next, Commands,
          Results, Signals, Timers, Lost

\* Every action keeps a connection apart from the report of its end.
LEMMA EndedStep ==
    ASSUME WordTypes, TimerTypes, EndedIsGone, [Next]_vars
    PROVE  EndedIsGone'
<1> USE LinkAssumption
<1>1. CASE StartAgain
  BY <1>1 DEF StartAgain, Online, Waiting, BeginRound, ContinueRound, DropOp, link, probe,
          outboxes, EndedIsGone
<1>2. CASE StartFresh
  BY <1>2 DEF StartFresh, CloseLink, link, transport, NewSession, BeginRound, ContinueRound,
          probe, EndedIsGone
<1>3. CASE Stop
  BY <1>3 DEF Stop, CloseLink, probe, EndedIsGone
<1>4. CASE Nudge
  BY <1>4 DEF Nudge, Waiting, BeginRound, ContinueRound, DropOp, link, probe, outboxes,
          EndedIsGone
<1>5. CASE NetworkDown
  BY <1>5 DEF NetworkDown, DropOp, session_, link, probe, EndedIsGone
<1>6. CASE NetworkUpProbes
  BY <1>6 DEF NetworkUpProbes, session_, link, attempt, outboxes, transport, EndedIsGone
<1>7. CASE NetworkUpSwitches
  BY <1>7 DEF NetworkUpSwitches, SwitchAway, Age, BeginRound, ContinueRound, EndedIsGone
<1>8. CASE NetworkUpConnects
  BY <1>8 DEF NetworkUpConnects, Waiting, BeginRound, ContinueRound, DropOp, link, probe,
          outboxes, EndedIsGone
<1>9. CASE Foreground
  BY <1>9 DEF Foreground, Waiting, BeginRound, ContinueRound, DropOp, link, probe, outboxes,
          EndedIsGone
<1>10. CASE Switch
  BY <1>10 DEF Switch, SwitchAway, Age, BeginRound, ContinueRound, EndedIsGone
<1>11. CASE DirectoryLoads
  BY <1>11 DEF DirectoryLoads, ContinueRound, link, probe, outboxes, transport, EndedIsGone
<1>12. CASE DirectoryFails
  BY <1>12 DEF DirectoryFails, link, probe, outboxes, transport, EndedIsGone
<1>13. CASE TokenArrives
  BY <1>13 DEF TokenArrives, transport, NextAttempt, Age, AgeSignals, RoundExhausted, probe,
          EndedIsGone
<1>14. CASE TokenUnreachable
  BY <1>14 DEF TokenUnreachable, RoundExhausted, link, probe, outboxes, transport, EndedIsGone
<1>15. CASE TokenRefused
  BY <1>15 DEF TokenRefused, Terminate, CloseLink, probe, EndedIsGone
<1>16. CASE Connected
  BY <1>16 DEF Connected, outboxes, transport, EndedIsGone
<1>17. CASE Synced
  BY <1>17 DEF Synced, probe, outboxes, transport, EndedIsGone
<1>18. CASE Overloaded
  BY <1>18 DEF Overloaded, link, probe, outboxes, transport, EndedIsGone
<1>19. CASE AuthRejected
  BY <1>19 DEF AuthRejected, link, probe, outboxes, transport, Terminate, CloseLink, EndedIsGone
<1>20. CASE Rejected
  BY <1>20 DEF Rejected, Terminate, CloseLink, probe, EndedIsGone
<1>21. CASE AttemptFailed
  BY <1>21 DEF AttemptFailed, transport, NextAttempt, Age, AgeSignals, RoundExhausted, probe,
          EndedIsGone
<1>22. ASSUME NEW e \in {"current", "stale"}, LostDropped(e)
       PROVE  EndedIsGone'
  BY <1>22 DEF LostDropped, session_, link, attempt, probe, outboxes, EndedIsGone
<1>23. ASSUME NEW e \in {"current", "stale"}, LostOffline(e)
       PROVE  EndedIsGone'
  BY <1>23 DEF LostOffline, LoseLink, Left, EndedIsGone
<1>24. ASSUME NEW e \in {"current", "stale"}, LostFailed(e)
       PROVE  EndedIsGone'
  BY <1>24 DEF LostFailed, LoseLink, BeginRound, ContinueRound, Left, EndedIsGone
<1>25. ASSUME NEW e \in {"current", "stale"}, LostDraining(e)
       PROVE  EndedIsGone'
  BY <1>25 DEF LostDraining, LoseLink, Left, EndedIsGone
<1>26. ASSUME NEW e \in {"current", "stale"}, LostKicked(e)
       PROVE  EndedIsGone'
  BY <1>26 DEF LostKicked, LoseLink, Left, EndedIsGone
<1>27. ASSUME NEW e \in {"current", "stale"}, LostForGood(e)
       PROVE  EndedIsGone'
  BY <1>27 DEF LostForGood, EndedIsGone
<1>28. CASE RoundTrip
  BY <1>28 DEF RoundTrip, session_, link, attempt, outboxes, transport, EndedIsGone
<1>29. CASE ProbePasses
  BY <1>29 DEF ProbePasses, session_, link, attempt, transport, EndedIsGone
<1>30. CASE RetryDue
  BY <1>30 DEF RetryDue, BeginRound, ContinueRound, DropOp, link, probe, outboxes, EndedIsGone
<1>31. CASE MoveDue
  BY <1>31 DEF MoveDue, SwitchAway, Age, BeginRound, ContinueRound, session_, link, attempt,
          probe, outboxes, transport, EndedIsGone
<1>32. CASE DirectoryChanges
  BY <1>32 DEF DirectoryChanges, Waiting, ContinueRound, DropOp, link, probe, outboxes,
          EndedIsGone
<1>33. CASE Handshake
  BY <1>33 DEF Handshake, session_, link, probe, outboxes, EndedIsGone
<1>34. CASE ConnectionEnds
  BY <1>34 DEF ConnectionEnds, session_, link, attempt, probe, outboxes, EndedIsGone
<1>35. CASE UNCHANGED vars
  BY <1>35 DEF vars, session_, link, attempt, probe, outboxes, transport, EndedIsGone
<1> QED
  BY <1>1, <1>2, <1>3, <1>4, <1>5, <1>6, <1>7, <1>8, <1>9, <1>10, <1>11, <1>12, <1>13, <1>14,
          <1>15, <1>16, <1>17, <1>18, <1>19, <1>20, <1>21, <1>22, <1>23, <1>24, <1>25, <1>26,
          <1>27, <1>28, <1>29, <1>30, <1>31, <1>32, <1>33, <1>34, <1>35, Zenon DEF Next, Commands,
          Results, Signals, Timers, Lost

\* Every action that terminates the link clears it, and no deadline, result or signal is left to act on it.
LEMMA TerminatedStep ==
    ASSUME QuietWithoutSession, TerminatedIsQuiet, [Next]_vars
    PROVE  TerminatedIsQuiet'
<1> USE LinkAssumption
<1>1. CASE StartAgain
  BY <1>1 DEF StartAgain, Online, Waiting, BeginRound, ContinueRound, DropOp, link, probe,
          outboxes, TerminatedIsQuiet
<1>2. CASE StartFresh
  BY <1>2 DEF StartFresh, CloseLink, link, transport, NewSession, BeginRound, ContinueRound,
          probe, TerminatedIsQuiet
<1>3. CASE Stop
  BY <1>3 DEF Stop, CloseLink, probe, TerminatedIsQuiet
<1>4. CASE Nudge
  BY <1>4 DEF Nudge, Waiting, BeginRound, ContinueRound, DropOp, link, probe, outboxes,
          TerminatedIsQuiet
<1>5. CASE NetworkDown
  BY <1>5 DEF NetworkDown, DropOp, session_, link, probe, TerminatedIsQuiet
<1>6. CASE NetworkUpProbes
  BY <1>6 DEF NetworkUpProbes, session_, link, attempt, outboxes, transport, TerminatedIsQuiet
<1>7. CASE NetworkUpSwitches
  BY <1>7 DEF NetworkUpSwitches, SwitchAway, BeginRound, ContinueRound, TerminatedIsQuiet
<1>8. CASE NetworkUpConnects
  BY <1>8 DEF NetworkUpConnects, Waiting, BeginRound, ContinueRound, DropOp, link, probe,
          outboxes, TerminatedIsQuiet
<1>9. CASE Foreground
  BY <1>9 DEF Foreground, Waiting, BeginRound, ContinueRound, DropOp, link, probe, outboxes,
          TerminatedIsQuiet
<1>10. CASE Switch
  BY <1>10 DEF Switch, SwitchAway, BeginRound, ContinueRound, TerminatedIsQuiet
<1>11. CASE DirectoryLoads
  BY <1>11 DEF DirectoryLoads, ContinueRound, link, probe, outboxes, transport, TerminatedIsQuiet
<1>12. CASE DirectoryFails
  BY <1>12 DEF DirectoryFails, link, probe, outboxes, transport, TerminatedIsQuiet
<1>13. CASE TokenArrives
  BY <1>13 DEF TokenArrives, transport, NextAttempt, RoundExhausted, probe, TerminatedIsQuiet
<1>14. CASE TokenUnreachable
  BY <1>14 DEF TokenUnreachable, RoundExhausted, link, probe, outboxes, transport,
          TerminatedIsQuiet
<1>15. CASE TokenRefused
  BY <1>15 DEF TokenRefused, Terminate, CloseLink, probe, TerminatedIsQuiet
<1>16. CASE Connected
  BY <1>16 DEF Connected, outboxes, transport, TerminatedIsQuiet
<1>17. CASE Synced
  BY <1>17 DEF Synced, probe, outboxes, transport, TerminatedIsQuiet
<1>18. CASE Overloaded
  BY <1>18 DEF Overloaded, link, probe, outboxes, transport, TerminatedIsQuiet
<1>19. CASE AuthRejected
  BY <1>19 DEF AuthRejected, link, probe, outboxes, transport, Terminate, CloseLink,
          TerminatedIsQuiet
<1>20. CASE Rejected
  BY <1>20 DEF Rejected, Terminate, CloseLink, probe, TerminatedIsQuiet
<1>21. CASE AttemptFailed
  BY <1>21 DEF AttemptFailed, transport, NextAttempt, RoundExhausted, probe, TerminatedIsQuiet
<1>22. ASSUME NEW e \in {"current", "stale"}, LostDropped(e)
       PROVE  TerminatedIsQuiet'
  BY <1>22 DEF LostDropped, session_, link, attempt, probe, outboxes, TerminatedIsQuiet
<1>23. ASSUME NEW e \in {"current", "stale"}, LostOffline(e)
       PROVE  TerminatedIsQuiet'
  BY <1>23 DEF LostOffline, LoseLink, Left, TerminatedIsQuiet
<1>24. ASSUME NEW e \in {"current", "stale"}, LostFailed(e)
       PROVE  TerminatedIsQuiet'
  BY <1>24 DEF LostFailed, LoseLink, BeginRound, ContinueRound, Left, TerminatedIsQuiet
<1>25. ASSUME NEW e \in {"current", "stale"}, LostDraining(e)
       PROVE  TerminatedIsQuiet'
  BY <1>25 DEF LostDraining, LoseLink, Left, TerminatedIsQuiet
<1>26. ASSUME NEW e \in {"current", "stale"}, LostKicked(e)
       PROVE  TerminatedIsQuiet'
  BY <1>26 DEF LostKicked, LoseLink, Left, TerminatedIsQuiet
<1>27. ASSUME NEW e \in {"current", "stale"}, LostForGood(e)
       PROVE  TerminatedIsQuiet'
  BY <1>27 DEF LostForGood, TerminatedIsQuiet
<1>28. CASE RoundTrip
  BY <1>28 DEF RoundTrip, session_, link, attempt, outboxes, transport, TerminatedIsQuiet
<1>29. CASE ProbePasses
  BY <1>29 DEF ProbePasses, session_, link, attempt, transport, TerminatedIsQuiet
<1>30. CASE RetryDue
  BY <1>30 DEF RetryDue, BeginRound, ContinueRound, RecoveringAfter, DropOp, link, probe,
          outboxes, TerminatedIsQuiet
<1>31. CASE MoveDue
  BY <1>31 DEF MoveDue, SwitchAway, BeginRound, ContinueRound, session_, link, attempt, probe,
          outboxes, transport, TerminatedIsQuiet
<1>32. CASE DirectoryChanges
  BY <1>32 DEF DirectoryChanges, Waiting, ContinueRound, DropOp, link, probe, outboxes,
          TerminatedIsQuiet
<1>33. CASE Handshake
  BY <1>33 DEF Handshake, session_, link, probe, outboxes, TerminatedIsQuiet
<1>34. CASE ConnectionEnds
  BY <1>34 DEF ConnectionEnds, session_, link, attempt, probe, outboxes, TerminatedIsQuiet
<1>35. CASE UNCHANGED vars
  BY <1>35, Zenon DEF vars, session_, link, attempt, probe, outboxes, transport, TerminatedIsQuiet
<1> QED
  BY <1>1, <1>2, <1>3, <1>4, <1>5, <1>6, <1>7, <1>8, <1>9, <1>10, <1>11, <1>12, <1>13, <1>14,
          <1>15, <1>16, <1>17, <1>18, <1>19, <1>20, <1>21, <1>22, <1>23, <1>24, <1>25, <1>26,
          <1>27, <1>28, <1>29, <1>30, <1>31, <1>32, <1>33, <1>34, <1>35, Zenon DEF Next, Commands,
          Results, Signals, Timers, Lost

\* Every action starts only the operations its state allows.
LEMMA OpsStep ==
    ASSUME LinkTypeOK, OpsMatch, [Next]_vars
    PROVE  OpsMatch'
<1> USE LinkAssumption
<1>1. CASE StartAgain
  BY <1>1, FreshRound, SMTT(40) DEF StartAgain, Online, Waiting, BeginRound, ContinueRound,
          DropOp, link, probe, outboxes, OpsMatch
<1>2. CASE StartFresh
  BY <1>2, FreshRound DEF StartFresh, CloseLink, link, transport, NewSession, BeginRound,
          ContinueRound, probe, OpsMatch
<1>3. CASE Stop
  BY <1>3 DEF Stop, CloseLink, probe, OpsMatch, LinkTypeOK
<1>4. CASE Nudge
  BY <1>4, FreshRound, SMTT(40) DEF Nudge, Waiting, BeginRound, ContinueRound, DropOp, link,
          probe, outboxes, OpsMatch
<1>5. CASE NetworkDown
  BY <1>5, Zenon DEF NetworkDown, DropOp, session_, link, probe, OpsMatch, LinkTypeOK
<1>6. CASE NetworkUpProbes
  BY <1>6, Zenon DEF NetworkUpProbes, session_, link, attempt, outboxes, transport, OpsMatch, LinkTypeOK
<1>7. CASE NetworkUpSwitches
  BY <1>7 DEF NetworkUpSwitches, SwitchAway, BeginRound, ContinueRound, NoRound, OpsMatch,
          LinkTypeOK
<1>8. CASE NetworkUpConnects
  BY <1>8, FreshRound, SMTT(40) DEF NetworkUpConnects, Waiting, BeginRound, ContinueRound, DropOp,
          link, probe, outboxes, OpsMatch
<1>9. CASE Foreground
  BY <1>9, FreshRound, Zenon DEF Foreground, Waiting, BeginRound, ContinueRound, DropOp, link,
          probe, outboxes, OpsMatch
<1>10. CASE Switch
  BY <1>10 DEF Switch, SwitchAway, BeginRound, ContinueRound, NoRound, OpsMatch, LinkTypeOK
<1>11. CASE DirectoryLoads
  BY <1>11 DEF DirectoryLoads, ContinueRound, NoRound, link, probe, outboxes, transport, OpsMatch,
          Rounds, LinkTypeOK
<1>12. CASE DirectoryFails
  BY <1>12, Zenon DEF DirectoryFails, link, probe, outboxes, transport, OpsMatch, LinkTypeOK
<1>13. CASE TokenArrives
  BY <1>13 DEF TokenArrives, NoRound, transport, NextAttempt, RoundExhausted, probe, OpsMatch,
          LinkTypeOK
<1>14. CASE TokenUnreachable
  BY <1>14 DEF TokenUnreachable, RoundExhausted, link, probe, outboxes, transport, OpsMatch,
          LinkTypeOK
<1>15. CASE TokenRefused
  BY <1>15 DEF TokenRefused, Terminate, CloseLink, probe, OpsMatch, LinkTypeOK
<1>16. CASE Connected
  BY <1>16 DEF Connected, outboxes, transport, OpsMatch, LinkTypeOK
<1>17. CASE Synced
  BY <1>17 DEF Synced, probe, outboxes, transport, OpsMatch, LinkTypeOK
<1>18. CASE Overloaded
  BY <1>18, Zenon DEF Overloaded, link, probe, outboxes, transport, OpsMatch, LinkTypeOK
<1>19. CASE AuthRejected
  BY <1>19 DEF AuthRejected, link, probe, outboxes, transport, Terminate, CloseLink, OpsMatch,
          LinkTypeOK
<1>20. CASE Rejected
  BY <1>20, Zenon DEF Rejected, Terminate, CloseLink, probe, OpsMatch, LinkTypeOK
<1>21. CASE AttemptFailed
  BY <1>21 DEF AttemptFailed, NoRound, transport, NextAttempt, RoundExhausted, probe, OpsMatch,
          LinkTypeOK
<1>22. ASSUME NEW e \in {"current", "stale"}, LostDropped(e)
       PROVE  OpsMatch'
  BY <1>22 DEF LostDropped, session_, link, attempt, probe, outboxes, OpsMatch, LinkTypeOK
<1>23. ASSUME NEW e \in {"current", "stale"}, LostOffline(e)
       PROVE  OpsMatch'
  BY <1>23, Zenon DEF LostOffline, LoseLink, Left, OpsMatch, LinkTypeOK
<1>24. ASSUME NEW e \in {"current", "stale"}, LostFailed(e)
       PROVE  OpsMatch'
  BY <1>24 DEF LostFailed, LoseLink, BeginRound, ContinueRound, NoRound, Left, OpsMatch,
          LinkTypeOK
<1>25. ASSUME NEW e \in {"current", "stale"}, LostDraining(e)
       PROVE  OpsMatch'
  BY <1>25 DEF LostDraining, LoseLink, Left, OpsMatch, LinkTypeOK
<1>26. ASSUME NEW e \in {"current", "stale"}, LostKicked(e)
       PROVE  OpsMatch'
  BY <1>26 DEF LostKicked, LoseLink, Left, OpsMatch, LinkTypeOK
<1>27. ASSUME NEW e \in {"current", "stale"}, LostForGood(e)
       PROVE  OpsMatch'
  BY <1>27 DEF LostForGood, OpsMatch, LinkTypeOK
<1>28. CASE RoundTrip
  BY <1>28 DEF RoundTrip, session_, link, attempt, outboxes, transport, OpsMatch, LinkTypeOK
<1>29. CASE ProbePasses
  BY <1>29, Zenon DEF ProbePasses, session_, link, attempt, transport, OpsMatch, LinkTypeOK
<1>30. CASE RetryDue
  BY <1>30, FreshRound, Zenon DEF RetryDue, BeginRound, ContinueRound, DropOp, link, probe,
          outboxes, OpsMatch
<1>31. CASE MoveDue
  BY <1>31, SMTT(40) DEF MoveDue, SwitchAway, BeginRound, ContinueRound, NoRound, session_, link, attempt,
          probe, outboxes, transport, OpsMatch, LinkTypeOK
<1>32. CASE DirectoryChanges
  BY <1>32, FreshRound, SMTT(40) DEF DirectoryChanges, Waiting, ContinueRound, DropOp, link,
          probe, outboxes, OpsMatch
<1>33. CASE Handshake
  BY <1>33 DEF Handshake, session_, link, probe, outboxes, OpsMatch, LinkTypeOK
<1>34. CASE ConnectionEnds
  BY <1>34, Zenon DEF ConnectionEnds, session_, link, attempt, probe, outboxes, OpsMatch, LinkTypeOK
<1>35. CASE UNCHANGED vars
  BY <1>35, SMTT(40) DEF vars, session_, link, attempt, probe, outboxes, transport, LinkTypeOK,
          OpsMatch
<1> QED
  BY <1>1, <1>2, <1>3, <1>4, <1>5, <1>6, <1>7, <1>8, <1>9, <1>10, <1>11, <1>12, <1>13, <1>14,
          <1>15, <1>16, <1>17, <1>18, <1>19, <1>20, <1>21, <1>22, <1>23, <1>24, <1>25, <1>26,
          <1>27, <1>28, <1>29, <1>30, <1>31, <1>32, <1>33, <1>34, <1>35, ZenonT(40) DEF Next, Commands,
          Results, Signals, Timers, Lost

\* Every action leaves a connection, an operation or a scheduled round, or a link that the network wakes.
LEMMA DrivenStep ==
    ASSUME LinkTypeOK, QuietWithoutSession, TerminatedIsQuiet, OpsMatch, Driven, [Next]_vars
    PROVE  Driven'
<1> USE LinkAssumption
<1>1. CASE StartAgain
  BY <1>1, ZenonT(40) DEF StartAgain, Online, Waiting, BeginRound, ContinueRound, DropOp, link, probe,
          outboxes, Driven, LinkTypeOK
<1>2. CASE StartFresh
  BY <1>2 DEF StartFresh, CloseLink, link, transport, NewSession, BeginRound, ContinueRound,
          probe, Driven, Waiting, LinkTypeOK
<1>3. CASE Stop
  BY <1>3, Zenon DEF Stop, CloseLink, probe, Driven, Waiting, LinkTypeOK
<1>4. CASE Nudge
  BY <1>4, Zenon DEF Nudge, Waiting, BeginRound, ContinueRound, DropOp, link, probe, outboxes, Driven,
          LinkTypeOK
<1>5. CASE NetworkDown
  BY <1>5 DEF NetworkDown, DropOp, session_, link, probe, Driven, Waiting, LinkTypeOK,
          QuietWithoutSession, TerminatedIsQuiet
<1>6. CASE NetworkUpProbes
  BY <1>6, Zenon DEF NetworkUpProbes, session_, link, attempt, outboxes, transport, Driven, Waiting,
          LinkTypeOK
<1>7. CASE NetworkUpSwitches
  BY <1>7 DEF NetworkUpSwitches, SwitchAway, BeginRound, ContinueRound, Driven, Waiting,
          LinkTypeOK
<1>8. CASE NetworkUpConnects
  BY <1>8, Zenon DEF NetworkUpConnects, Waiting, BeginRound, ContinueRound, DropOp, link, probe,
          outboxes, Driven, LinkTypeOK
<1>9. CASE Foreground
  BY <1>9, Zenon DEF Foreground, Waiting, BeginRound, ContinueRound, DropOp, link, probe, outboxes,
          Driven, LinkTypeOK
<1>10. CASE Switch
  BY <1>10, Zenon DEF Switch, SwitchAway, BeginRound, ContinueRound, Driven, Waiting, LinkTypeOK
<1>11. CASE DirectoryLoads
  BY <1>11, Zenon DEF DirectoryLoads, ContinueRound, link, probe, outboxes, transport, Driven, OpsMatch,
          Waiting, LinkTypeOK
<1>12. CASE DirectoryFails
  BY <1>12, Zenon DEF DirectoryFails, link, probe, outboxes, transport, Driven, OpsMatch, Waiting,
          LinkTypeOK
<1>13. CASE TokenArrives
  BY <1>13, Zenon DEF TokenArrives, transport, NextAttempt, RoundExhausted, probe, Driven, OpsMatch,
          Waiting, LinkTypeOK
<1>14. CASE TokenUnreachable
  BY <1>14, Zenon DEF TokenUnreachable, RoundExhausted, link, probe, outboxes, transport, Driven,
          Waiting, LinkTypeOK
<1>15. CASE TokenRefused
  BY <1>15 DEF TokenRefused, Terminate, CloseLink, probe, Driven, Waiting, LinkTypeOK
<1>16. CASE Connected
  BY <1>16 DEF Connected, outboxes, transport, Driven, Waiting, LinkTypeOK
<1>17. CASE Synced
  BY <1>17 DEF Synced, probe, outboxes, transport, Driven, OpsMatch, Waiting, LinkTypeOK
<1>18. CASE Overloaded
  BY <1>18, Zenon DEF Overloaded, link, probe, outboxes, transport, Driven, Waiting, LinkTypeOK
<1>19. CASE AuthRejected
  BY <1>19 DEF AuthRejected, link, probe, outboxes, transport, Terminate, CloseLink, Driven,
          OpsMatch, Waiting, LinkTypeOK
<1>20. CASE Rejected
  BY <1>20, Zenon DEF Rejected, Terminate, CloseLink, probe, Driven, Waiting, LinkTypeOK
<1>21. CASE AttemptFailed
  BY <1>21, Zenon DEF AttemptFailed, transport, NextAttempt, RoundExhausted, probe, Driven, OpsMatch,
          Waiting, LinkTypeOK
<1>22. ASSUME NEW e \in {"current", "stale"}, LostDropped(e)
       PROVE  Driven'
  BY <1>22 DEF LostDropped, session_, link, attempt, probe, outboxes, Driven, Waiting, LinkTypeOK
<1>23. ASSUME NEW e \in {"current", "stale"}, LostOffline(e)
       PROVE  Driven'
  BY <1>23, Zenon DEF LostOffline, LoseLink, Left, Driven, Waiting, LinkTypeOK
<1>24. ASSUME NEW e \in {"current", "stale"}, LostFailed(e)
       PROVE  Driven'
  BY <1>24, Zenon DEF LostFailed, LoseLink, BeginRound, ContinueRound, Left, Driven, Waiting, LinkTypeOK
<1>25. ASSUME NEW e \in {"current", "stale"}, LostDraining(e)
       PROVE  Driven'
  BY <1>25, Zenon DEF LostDraining, LoseLink, Left, Driven, Waiting, LinkTypeOK
<1>26. ASSUME NEW e \in {"current", "stale"}, LostKicked(e)
       PROVE  Driven'
  BY <1>26, Zenon DEF LostKicked, LoseLink, Left, Driven, Waiting, LinkTypeOK
<1>27. ASSUME NEW e \in {"current", "stale"}, LostForGood(e)
       PROVE  Driven'
  BY <1>27, Zenon DEF LostForGood, Driven, Waiting, LinkTypeOK
<1>28. CASE RoundTrip
  BY <1>28, Zenon DEF RoundTrip, session_, link, attempt, outboxes, transport, Driven, Waiting,
          LinkTypeOK
<1>29. CASE ProbePasses
  BY <1>29, Zenon DEF ProbePasses, session_, link, attempt, transport, Driven, Waiting, LinkTypeOK
<1>30. CASE RetryDue
  BY <1>30 DEF RetryDue, BeginRound, ContinueRound, DropOp, link, probe, outboxes, Driven,
          Waiting, LinkTypeOK
<1>31. CASE MoveDue
  <2>1. CASE live # "none" /\ SwitchAway(net)
    BY <2>1 DEF SwitchAway, BeginRound, ContinueRound, session_, link, attempt, probe, outboxes,
            transport, Driven, Waiting, LinkTypeOK
  <2>2. CASE timers' = timers \ {"move"} /\ UNCHANGED <<phase, session_, link, attempt, net>>
    BY <2>2, Zenon DEF session_, link, attempt, Driven
  <2> QED
    BY <1>31, <2>1, <2>2, Zenon DEF MoveDue
<1>32. CASE DirectoryChanges
  BY <1>32 DEF DirectoryChanges, Waiting, ContinueRound, DropOp, link, probe, outboxes, Driven,
          LinkTypeOK
<1>33. CASE Handshake
  BY <1>33 DEF Handshake, session_, link, probe, outboxes, Driven, Waiting, LinkTypeOK
<1>34. CASE ConnectionEnds
  BY <1>34, Zenon DEF ConnectionEnds, session_, link, attempt, probe, outboxes, Driven, Waiting,
          LinkTypeOK
<1>35. CASE UNCHANGED vars
  BY <1>35 DEF vars, session_, link, attempt, probe, outboxes, transport, LinkTypeOK, Driven
<1> QED
  BY <1>1, <1>2, <1>3, <1>4, <1>5, <1>6, <1>7, <1>8, <1>9, <1>10, <1>11, <1>12, <1>13, <1>14,
          <1>15, <1>16, <1>17, <1>18, <1>19, <1>20, <1>21, <1>22, <1>23, <1>24, <1>25, <1>26,
          <1>27, <1>28, <1>29, <1>30, <1>31, <1>32, <1>33, <1>34, <1>35, ZenonT(40) DEF Next, Commands,
          Results, Signals, Timers, Lost

\* The initial states satisfy the inductive invariant.
LEMMA LinkInit ==
    Init => LinkInv
<1> SUFFICES ASSUME Init
             PROVE  LinkInv
  OBVIOUS
<1>1. FlagTypes
  BY Zenon DEF Init, FlagTypes
<1>2. WordTypes /\ TimerTypes
  BY DEF Init, WordTypes, TimerTypes, Phases
<1>3. CountTypes
  BY DEF Init, CountTypes, RecoveringAfter
<1>4. EndedIsGone /\ QuietWithoutSession /\ TerminatedIsQuiet /\ OpsMatch /\ Driven
  BY DEF Init, EndedIsGone, QuietWithoutSession, TerminatedIsQuiet, OpsMatch, Driven
<1> QED
  BY <1>1, <1>2, <1>3, <1>4, TypeParts DEF LinkInv

\* Every step of the supervisor and of its environment preserves the inductive invariant.
LEMMA LinkStep ==
    LinkInv /\ [Next]_vars => LinkInv'
<1> SUFFICES ASSUME LinkInv, [Next]_vars
             PROVE  LinkInv'
  OBVIOUS
<1>1. FlagTypes /\ WordTypes /\ TimerTypes /\ CountTypes
  BY TypeParts DEF LinkInv
<1>2. FlagTypes' /\ WordTypes' /\ TimerTypes' /\ CountTypes'
  BY <1>1, FlagsStep, WordsStep, TimersStep, CountsStep DEF LinkInv
<1>3. LinkTypeOK'
  BY <1>2 DEF LinkTypeOK, FlagTypes, WordTypes, TimerTypes, CountTypes
<1>4. EndedIsGone' /\ QuietWithoutSession' /\ TerminatedIsQuiet' /\ OpsMatch' /\ Driven'
  BY <1>1, EndedStep, QuietStep, TerminatedStep, OpsStep, DrivenStep DEF LinkInv
<1> QED
  BY <1>3, <1>4 DEF LinkInv

\* The inductive invariant holds in every reachable state, for any number of access points and
\* whatever the host, the transport, the token source and the directory do.
THEOREM LinkInvHolds ==
    Spec => []LinkInv
  BY LinkInit, LinkStep, PTL DEF Spec

\* While the device has a network and the session is not terminated, the supervisor has a
\* connection, a pending operation or a scheduled round: on_command, on_op, on_lost, on_timer
\* and on_directory_changed never leave it waiting for nothing.
THEOREM NeverStuckHolds ==
    Spec => []NeverStuck
<1>1. LinkInv => NeverStuck
  BY DEF LinkInv, Driven, NeverStuck
<1> QED
  BY <1>1, LinkInvHolds, PTL

\* stop_session and a failed directory leave no operation, deadline, round or connection.
THEOREM QuietHolds ==
    Spec => []QuietWithoutSession
<1>1. LinkInv => QuietWithoutSession
  BY DEF LinkInv
<1> QED
  BY <1>1, LinkInvHolds, PTL

\* A link that terminate has ended stays ended until the host starts or stops it: no result,
\* signal, deadline, network change, foreground change or directory change revives it.
THEOREM TerminatedStaysHolds ==
    Spec => TerminatedStays
<1>1. LinkInv /\ [Next]_vars => [phase = "Terminated" /\ phase' # "Terminated" => StartFresh \/ Stop]_vars
  <2> SUFFICES ASSUME LinkInv, Next, phase = "Terminated"
               PROVE  phase' = "Terminated" \/ StartFresh \/ Stop
    OBVIOUS
  <2>1. live = "none" /\ op = "none" /\ timers = {} /\ session
    BY SMTT(40) DEF LinkInv, TerminatedIsQuiet, QuietWithoutSession
  <2>2. CASE Commands
    BY <2>1, <2>2, ZenonT(40) DEF Commands, StartAgain, Nudge, NetworkDown, NetworkUpProbes,
          NetworkUpSwitches, NetworkUpConnects, Foreground, Switch, Waiting
  <2>3. CASE Results
    BY <2>1, <2>3, Zenon DEF Results, DirectoryLoads, DirectoryFails, TokenArrives, TokenUnreachable,
          TokenRefused, Connected, Synced, Overloaded, AuthRejected, Rejected, AttemptFailed
  <2>4. CASE Signals
    BY <2>1, <2>4, ZenonT(40) DEF Signals, Lost, LostDropped, LostOffline, LostFailed, LostDraining,
          LostKicked, LostForGood, LoseLink, RoundTrip
  <2>5. CASE Timers
    BY <2>1, <2>5, Zenon DEF Timers, ProbePasses, RetryDue, MoveDue
  <2>6. CASE DirectoryChanges \/ Handshake \/ ConnectionEnds
    BY <2>1, <2>6 DEF DirectoryChanges, Handshake, ConnectionEnds
  <2> QED
    BY <2>2, <2>3, <2>4, <2>5, <2>6 DEF Next
<1> QED
  BY <1>1, LinkInvHolds, PTL DEF Spec, TerminatedStays

\* on_lost compares epochs: a late end of an old connection never takes down the one in use.
THEOREM LateLossIgnoredHolds ==
    Spec => LateLossIgnored
<1>1. LinkInv /\ [Next]_vars =>
         [live = "current" /\ conn = "current" /\ conn' = "current" => live' = "current"]_vars
  <2> SUFFICES ASSUME LinkInv, Next, live = "current", conn = "current", conn' = "current"
               PROVE  live' = "current"
    OBVIOUS
  <2>1. op # "open" /\ "current" \notin lost
    BY SMTT(40) DEF LinkInv, EndedIsGone
  <2>2. CASE Commands
    BY <2>1, <2>2, ZenonT(40) DEF Commands, StartAgain, StartFresh, Stop, Nudge, NetworkDown, NetworkUpProbes,
          NetworkUpSwitches, NetworkUpConnects, Foreground, Switch, SwitchAway, CloseLink, Age,
          link, transport
  <2>3. CASE Results
    BY <2>1, <2>3, Zenon DEF Results, DirectoryLoads, DirectoryFails, TokenArrives, TokenUnreachable,
          TokenRefused, Connected, Synced, Overloaded, AuthRejected, Rejected, AttemptFailed,
          NextAttempt, Terminate, CloseLink, link
  <2>4. CASE Signals
    BY <2>1, <2>4, ZenonT(40) DEF Signals, Lost, LostDropped, LostOffline, LostFailed, LostDraining,
          LostKicked, LostForGood, LoseLink, RoundTrip, link
  <2>5. CASE Timers
    BY <2>1, <2>5, Zenon DEF Timers, ProbePasses, RetryDue, MoveDue, SwitchAway, Age, link
  <2>6. CASE DirectoryChanges \/ Handshake \/ ConnectionEnds
    BY <2>1, <2>6, Zenon DEF DirectoryChanges, Handshake, ConnectionEnds, link
  <2> QED
    BY <2>2, <2>3, <2>4, <2>5, <2>6 DEF Next
<1> QED
  BY <1>1, LinkInvHolds, PTL DEF Spec, LateLossIgnored

-----------------------------------------------------------------------------
(* The connection, the answer and the outbox                               *)

\* While no connection ends before the supervisor has seen it open: the connection in use is
\* open or its end is on the way, an opened one is open, and opening one disowns the last.
OpenedIsOpen ==
    "early" \notin env =>
        /\ LiveIsOpen
        /\ op = "opened" => conn = "current"
        /\ op \in {"open", "opened"} => live # "current"

\* While no second start comes for the same user: an online link, and one with a connection,
\* owes no answer.
LinkIsAnswered ==
    "again" \notin env => OnlineIsAnswered /\ (live # "none" => ~reply)

\* A probe has a connection, and a session of the same user finds the outbox as it was left.
OutboxIsHeld ==
    /\ "degraded" \in timers => live # "none"
    /\ "other" \notin env => OutboxNeedsLink /\ (~session => outbox = "paused")

\* While nobody asks for a reconnect: a connection in use excludes a round, an online link has
\* one, and an outbox that is paused over a connection is remembered.
PauseIsRemembered ==
    "nudge" \notin env =>
        /\ live # "none" =>
              op \in {"none", "sync"} /\ "retry" \notin timers /\ phase \in Online \cup {"Suspended"}
        /\ phase \in Online => live # "none"
        /\ phase \in {"Ready", "Degraded"} => net
        /\ phase = "Ready" => "degraded" \notin timers /\ outbox = "running"
        /\ syncing => live # "none" /\ phase \in {"Syncing", "Suspended"}
        /\ live # "none" /\ outbox = "paused" =>
              IF net THEN resume /\ "degraded" \in timers ELSE resume \/ phase = "Suspended"

\* A connection that is opened, used, aged or ended leaves no dead one in use.
LEMMA OpenStep ==
    ASSUME WordTypes, TimerTypes, QuietWithoutSession, OpenedIsOpen, [Next]_vars
    PROVE  OpenedIsOpen'
<1>1. CASE StartAgain
  BY <1>1 DEF StartAgain, Online, Waiting, BeginRound, ContinueRound, DropOp, link, probe,
          outboxes, OpenedIsOpen, LiveIsOpen
<1>2. CASE StartFresh
  BY <1>2 DEF StartFresh, CloseLink, Age, link, transport, NewSession, BeginRound, ContinueRound,
          probe, OpenedIsOpen, LiveIsOpen
<1>3. CASE Stop
  BY <1>3, Zenon DEF Stop, CloseLink, Age, probe, OpenedIsOpen, LiveIsOpen
<1>4. CASE Nudge
  BY <1>4 DEF Nudge, Waiting, BeginRound, ContinueRound, DropOp, link, probe, outboxes,
          OpenedIsOpen, LiveIsOpen
<1>5. CASE NetworkDown
  BY <1>5 DEF NetworkDown, DropOp, session_, link, probe, OpenedIsOpen, LiveIsOpen
<1>6. CASE NetworkUpProbes
  BY <1>6, Zenon DEF NetworkUpProbes, session_, link, attempt, outboxes, transport, OpenedIsOpen,
          LiveIsOpen
<1>7. CASE NetworkUpSwitches
  BY <1>7, Zenon DEF NetworkUpSwitches, SwitchAway, Age, BeginRound, ContinueRound, OpenedIsOpen,
          LiveIsOpen
<1>8. CASE NetworkUpConnects
  BY <1>8, Zenon DEF NetworkUpConnects, Waiting, BeginRound, ContinueRound, DropOp, link, probe,
          outboxes, OpenedIsOpen, LiveIsOpen
<1>9. CASE Foreground
  BY <1>9, SMTT(40) DEF Foreground, Waiting, BeginRound, ContinueRound, DropOp, link, probe, outboxes,
          OpenedIsOpen, LiveIsOpen
<1>10. CASE Switch
  BY <1>10, Zenon DEF Switch, SwitchAway, Age, BeginRound, ContinueRound, OpenedIsOpen, LiveIsOpen
<1>11. CASE DirectoryLoads
  BY <1>11 DEF DirectoryLoads, ContinueRound, link, probe, outboxes, transport, OpenedIsOpen,
          LiveIsOpen
<1>12. CASE DirectoryFails
  BY <1>12, Zenon DEF DirectoryFails, link, probe, outboxes, transport, OpenedIsOpen, LiveIsOpen
<1>13. CASE TokenArrives
  BY <1>13 DEF TokenArrives, transport, NextAttempt, Age, RoundExhausted, probe, OpenedIsOpen,
          LiveIsOpen
<1>14. CASE TokenUnreachable
  BY <1>14 DEF TokenUnreachable, RoundExhausted, link, probe, outboxes, transport, OpenedIsOpen,
          LiveIsOpen
<1>15. CASE TokenRefused
  BY <1>15 DEF TokenRefused, Terminate, CloseLink, Age, probe, OpenedIsOpen, LiveIsOpen
<1>16. CASE Connected
  BY <1>16 DEF Connected, outboxes, transport, OpenedIsOpen, LiveIsOpen
<1>17. CASE Synced
  BY <1>17 DEF Synced, probe, outboxes, transport, OpenedIsOpen, LiveIsOpen
<1>18. CASE Overloaded
  BY <1>18 DEF Overloaded, link, probe, outboxes, transport, OpenedIsOpen, LiveIsOpen
<1>19. CASE AuthRejected
  BY <1>19 DEF AuthRejected, link, probe, outboxes, transport, Terminate, CloseLink, Age,
          OpenedIsOpen, LiveIsOpen
<1>20. CASE Rejected
  BY <1>20, Zenon DEF Rejected, Terminate, CloseLink, Age, probe, OpenedIsOpen, LiveIsOpen
<1>21. CASE AttemptFailed
  BY <1>21 DEF AttemptFailed, transport, NextAttempt, Age, RoundExhausted, probe, OpenedIsOpen,
          LiveIsOpen
<1>22. ASSUME NEW e \in {"current", "stale"}, LostDropped(e)
       PROVE  OpenedIsOpen'
  BY <1>22 DEF LostDropped, session_, link, attempt, probe, outboxes, OpenedIsOpen, LiveIsOpen
<1>23. ASSUME NEW e \in {"current", "stale"}, LostOffline(e)
       PROVE  OpenedIsOpen'
  BY <1>23, Zenon DEF LostOffline, LoseLink, Left, OpenedIsOpen, LiveIsOpen
<1>24. ASSUME NEW e \in {"current", "stale"}, LostFailed(e)
       PROVE  OpenedIsOpen'
  BY <1>24 DEF LostFailed, LoseLink, BeginRound, ContinueRound, Left, OpenedIsOpen, LiveIsOpen
<1>25. ASSUME NEW e \in {"current", "stale"}, LostDraining(e)
       PROVE  OpenedIsOpen'
  BY <1>25 DEF LostDraining, LoseLink, Left, OpenedIsOpen, LiveIsOpen
<1>26. ASSUME NEW e \in {"current", "stale"}, LostKicked(e)
       PROVE  OpenedIsOpen'
  BY <1>26 DEF LostKicked, LoseLink, Left, OpenedIsOpen, LiveIsOpen
<1>27. ASSUME NEW e \in {"current", "stale"}, LostForGood(e)
       PROVE  OpenedIsOpen'
  BY <1>27 DEF LostForGood, Age, OpenedIsOpen, LiveIsOpen
<1>28. CASE RoundTrip
  BY <1>28 DEF RoundTrip, session_, link, attempt, outboxes, transport, OpenedIsOpen, LiveIsOpen
<1>29. CASE ProbePasses
  BY <1>29, Zenon DEF ProbePasses, session_, link, attempt, transport, OpenedIsOpen, LiveIsOpen
<1>30. CASE RetryDue
  BY <1>30, Zenon DEF RetryDue, BeginRound, ContinueRound, DropOp, link, probe, outboxes, OpenedIsOpen,
          LiveIsOpen
<1>31. CASE MoveDue
  BY <1>31, Zenon DEF MoveDue, SwitchAway, Age, BeginRound, ContinueRound, session_, link, attempt,
          probe, outboxes, transport, OpenedIsOpen, LiveIsOpen
<1>32. CASE DirectoryChanges
  BY <1>32 DEF DirectoryChanges, Waiting, ContinueRound, DropOp, link, probe, outboxes,
          OpenedIsOpen, LiveIsOpen
<1>33. CASE Handshake
  BY <1>33 DEF Handshake, session_, link, probe, outboxes, OpenedIsOpen, LiveIsOpen
<1>34. CASE ConnectionEnds
  BY <1>34 DEF ConnectionEnds, session_, link, attempt, probe, outboxes, OpenedIsOpen, LiveIsOpen
<1>35. CASE UNCHANGED vars
  BY <1>35, Zenon DEF vars, session_, link, attempt, probe, outboxes, transport, OpenedIsOpen, LiveIsOpen
<1> QED
  BY <1>1, <1>2, <1>3, <1>4, <1>5, <1>6, <1>7, <1>8, <1>9, <1>10, <1>11, <1>12, <1>13, <1>14,
          <1>15, <1>16, <1>17, <1>18, <1>19, <1>20, <1>21, <1>22, <1>23, <1>24, <1>25, <1>26,
          <1>27, <1>28, <1>29, <1>30, <1>31, <1>32, <1>33, <1>34, <1>35, ZenonT(40) DEF Next, Commands,
          Results, Signals, Timers, Lost

\* Every way to come online, and every way to get a connection, has answered the start.
LEMMA AnswerStep ==
    ASSUME FlagTypes, WordTypes, QuietWithoutSession, TerminatedIsQuiet, OpsMatch, LinkIsAnswered, [Next]_vars
    PROVE  LinkIsAnswered'
<1>1. CASE StartAgain
  BY <1>1, Zenon DEF StartAgain, Online, Waiting, BeginRound, ContinueRound, DropOp, link, probe,
          outboxes, LinkIsAnswered, OnlineIsAnswered
<1>2. CASE StartFresh
  BY <1>2 DEF StartFresh, CloseLink, Age, link, transport, NewSession, BeginRound, ContinueRound,
          probe, LinkIsAnswered, OnlineIsAnswered, Online, QuietWithoutSession
<1>3. CASE Stop
  BY <1>3, Zenon DEF Stop, CloseLink, Age, probe, LinkIsAnswered, OnlineIsAnswered, Online
<1>4. CASE Nudge
  BY <1>4 DEF Nudge, Waiting, BeginRound, ContinueRound, DropOp, link, probe, outboxes,
          LinkIsAnswered, OnlineIsAnswered, Online
<1>5. CASE NetworkDown
  BY <1>5 DEF NetworkDown, DropOp, session_, link, probe, LinkIsAnswered, OnlineIsAnswered, Online
<1>6. CASE NetworkUpProbes
  BY <1>6, Zenon DEF NetworkUpProbes, session_, link, attempt, outboxes, transport, LinkIsAnswered,
          OnlineIsAnswered, Online
<1>7. CASE NetworkUpSwitches
  BY <1>7, Zenon DEF NetworkUpSwitches, SwitchAway, Age, BeginRound, ContinueRound, LinkIsAnswered,
          OnlineIsAnswered, Online
<1>8. CASE NetworkUpConnects
  BY <1>8, Zenon DEF NetworkUpConnects, Waiting, BeginRound, ContinueRound, DropOp, link, probe,
          outboxes, LinkIsAnswered, OnlineIsAnswered, Online
<1>9. CASE Foreground
  BY <1>9, Zenon DEF Foreground, Waiting, BeginRound, ContinueRound, DropOp, link, probe, outboxes,
          LinkIsAnswered, OnlineIsAnswered, Online
<1>10. CASE Switch
  BY <1>10, Zenon DEF Switch, SwitchAway, Age, BeginRound, ContinueRound, LinkIsAnswered,
          OnlineIsAnswered, Online
<1>11. CASE DirectoryLoads
  BY <1>11 DEF DirectoryLoads, ContinueRound, link, probe, outboxes, transport, LinkIsAnswered,
          OnlineIsAnswered, Online
<1>12. CASE DirectoryFails
  BY <1>12, Zenon DEF DirectoryFails, link, probe, outboxes, transport, LinkIsAnswered, OnlineIsAnswered,
          Online
<1>13. CASE TokenArrives
  BY <1>13 DEF TokenArrives, transport, NextAttempt, Age, RoundExhausted, probe, LinkIsAnswered,
          OnlineIsAnswered, Online
<1>14. CASE TokenUnreachable
  BY <1>14 DEF TokenUnreachable, RoundExhausted, link, probe, outboxes, transport, LinkIsAnswered,
          OnlineIsAnswered, Online
<1>15. CASE TokenRefused
  BY <1>15 DEF TokenRefused, Terminate, CloseLink, Age, probe, LinkIsAnswered, OnlineIsAnswered,
          Online
<1>16. CASE Connected
  BY <1>16 DEF Connected, outboxes, transport, LinkIsAnswered, OnlineIsAnswered, Online
<1>17. CASE Synced
  BY <1>17 DEF Synced, probe, outboxes, transport, LinkIsAnswered, OnlineIsAnswered, Online,
          OpsMatch
<1>18. CASE Overloaded
  BY <1>18, Zenon DEF Overloaded, link, probe, outboxes, transport, LinkIsAnswered, OnlineIsAnswered,
          Online
<1>19. CASE AuthRejected
  BY <1>19 DEF AuthRejected, link, probe, outboxes, transport, Terminate, CloseLink, Age,
          LinkIsAnswered, OnlineIsAnswered, Online
<1>20. CASE Rejected
  BY <1>20, Zenon DEF Rejected, Terminate, CloseLink, Age, probe, LinkIsAnswered, OnlineIsAnswered,
          Online
<1>21. CASE AttemptFailed
  BY <1>21 DEF AttemptFailed, transport, NextAttempt, Age, RoundExhausted, probe, LinkIsAnswered,
          OnlineIsAnswered, Online
<1>22. ASSUME NEW e \in {"current", "stale"}, LostDropped(e)
       PROVE  LinkIsAnswered'
  BY <1>22 DEF LostDropped, session_, link, attempt, probe, outboxes, LinkIsAnswered,
          OnlineIsAnswered, Online
<1>23. ASSUME NEW e \in {"current", "stale"}, LostOffline(e)
       PROVE  LinkIsAnswered'
  BY <1>23, Zenon DEF LostOffline, LoseLink, Left, LinkIsAnswered, OnlineIsAnswered, Online
<1>24. ASSUME NEW e \in {"current", "stale"}, LostFailed(e)
       PROVE  LinkIsAnswered'
  BY <1>24 DEF LostFailed, LoseLink, BeginRound, ContinueRound, Left, LinkIsAnswered,
          OnlineIsAnswered, Online
<1>25. ASSUME NEW e \in {"current", "stale"}, LostDraining(e)
       PROVE  LinkIsAnswered'
  BY <1>25 DEF LostDraining, LoseLink, Left, LinkIsAnswered, OnlineIsAnswered, Online
<1>26. ASSUME NEW e \in {"current", "stale"}, LostKicked(e)
       PROVE  LinkIsAnswered'
  BY <1>26, Zenon DEF LostKicked, LoseLink, Left, LinkIsAnswered, OnlineIsAnswered, Online
<1>27. ASSUME NEW e \in {"current", "stale"}, LostForGood(e)
       PROVE  LinkIsAnswered'
  BY <1>27 DEF LostForGood, Age, LinkIsAnswered, OnlineIsAnswered, Online
<1>28. CASE RoundTrip
  BY <1>28 DEF RoundTrip, session_, link, attempt, outboxes, transport, LinkIsAnswered,
          OnlineIsAnswered, Online
<1>29. CASE ProbePasses
  BY <1>29, Zenon DEF ProbePasses, session_, link, attempt, transport, LinkIsAnswered, OnlineIsAnswered,
          Online
<1>30. CASE RetryDue
  BY <1>30, Zenon DEF RetryDue, BeginRound, ContinueRound, DropOp, link, probe, outboxes, LinkIsAnswered,
          OnlineIsAnswered, Online
<1>31. CASE MoveDue
  BY <1>31, Zenon DEF MoveDue, SwitchAway, Age, BeginRound, ContinueRound, session_, link, attempt,
          probe, outboxes, transport, LinkIsAnswered, OnlineIsAnswered, Online
<1>32. CASE DirectoryChanges
  BY <1>32 DEF DirectoryChanges, Waiting, ContinueRound, DropOp, link, probe, outboxes,
          LinkIsAnswered, OnlineIsAnswered, Online
<1>33. CASE Handshake
  BY <1>33 DEF Handshake, session_, link, probe, outboxes, LinkIsAnswered, OnlineIsAnswered,
          Online
<1>34. CASE ConnectionEnds
  BY <1>34, Zenon DEF ConnectionEnds, session_, link, attempt, probe, outboxes, LinkIsAnswered,
          OnlineIsAnswered, Online
<1>35. CASE UNCHANGED vars
  BY <1>35, Zenon DEF vars, session_, link, attempt, probe, outboxes, transport, LinkIsAnswered,
          OnlineIsAnswered, Online
<1> QED
  BY <1>1, <1>2, <1>3, <1>4, <1>5, <1>6, <1>7, <1>8, <1>9, <1>10, <1>11, <1>12, <1>13, <1>14,
          <1>15, <1>16, <1>17, <1>18, <1>19, <1>20, <1>21, <1>22, <1>23, <1>24, <1>25, <1>26,
          <1>27, <1>28, <1>29, <1>30, <1>31, <1>32, <1>33, <1>34, <1>35, ZenonT(40) DEF Next, Commands,
          Results, Signals, Timers, Lost

\* Whatever takes the connection or the network away pauses the outbox first.
LEMMA OutboxStep ==
    ASSUME FlagTypes, WordTypes, TimerTypes, QuietWithoutSession, TerminatedIsQuiet, OpsMatch, OutboxIsHeld, [Next]_vars
    PROVE  OutboxIsHeld'
<1>1. CASE StartAgain
  BY <1>1, SMTT(40) DEF StartAgain, Online, Waiting, BeginRound, ContinueRound, DropOp, link, probe,
          outboxes, OutboxIsHeld, OutboxNeedsLink
<1>2. CASE StartFresh
  BY <1>2 DEF StartFresh, CloseLink, Age, link, transport, NewSession, BeginRound, ContinueRound,
          probe, OutboxIsHeld, OutboxNeedsLink, TerminatedIsQuiet
<1>3. CASE Stop
  BY <1>3, Zenon DEF Stop, CloseLink, Age, probe, OutboxIsHeld, OutboxNeedsLink
<1>4. CASE Nudge
  BY <1>4 DEF Nudge, Waiting, BeginRound, ContinueRound, DropOp, link, probe, outboxes,
          OutboxIsHeld, OutboxNeedsLink
<1>5. CASE NetworkDown
  BY <1>5 DEF NetworkDown, DropOp, session_, link, probe, OutboxIsHeld, OutboxNeedsLink,
          TerminatedIsQuiet
<1>6. CASE NetworkUpProbes
  BY <1>6, Zenon DEF NetworkUpProbes, session_, link, attempt, outboxes, transport, OutboxIsHeld,
          OutboxNeedsLink
<1>7. CASE NetworkUpSwitches
  BY <1>7, SMTT(40) DEF NetworkUpSwitches, SwitchAway, Age, BeginRound, ContinueRound, OutboxIsHeld,
          OutboxNeedsLink
<1>8. CASE NetworkUpConnects
  BY <1>8, SMTT(40) DEF NetworkUpConnects, Waiting, BeginRound, ContinueRound, DropOp, link, probe,
          outboxes, OutboxIsHeld, OutboxNeedsLink
<1>9. CASE Foreground
  BY <1>9, SMTT(40) DEF Foreground, Waiting, BeginRound, ContinueRound, DropOp, link, probe, outboxes,
          OutboxIsHeld, OutboxNeedsLink
<1>10. CASE Switch
  BY <1>10, SMTT(40) DEF Switch, SwitchAway, Age, BeginRound, ContinueRound, OutboxIsHeld, OutboxNeedsLink
<1>11. CASE DirectoryLoads
  BY <1>11 DEF DirectoryLoads, ContinueRound, link, probe, outboxes, transport, OutboxIsHeld,
          OutboxNeedsLink
<1>12. CASE DirectoryFails
  BY <1>12, Zenon DEF DirectoryFails, link, probe, outboxes, transport, OutboxIsHeld, OutboxNeedsLink,
          OpsMatch, WordTypes
<1>13. CASE TokenArrives
  BY <1>13 DEF TokenArrives, transport, NextAttempt, Age, RoundExhausted, probe, OutboxIsHeld,
          OutboxNeedsLink
<1>14. CASE TokenUnreachable
  BY <1>14 DEF TokenUnreachable, RoundExhausted, link, probe, outboxes, transport, OutboxIsHeld,
          OutboxNeedsLink
<1>15. CASE TokenRefused
  BY <1>15, Zenon DEF TokenRefused, Terminate, CloseLink, Age, probe, OutboxIsHeld, OutboxNeedsLink
<1>16. CASE Connected
  BY <1>16 DEF Connected, outboxes, transport, OutboxIsHeld, OutboxNeedsLink, QuietWithoutSession
<1>17. CASE Synced
  BY <1>17 DEF Synced, probe, outboxes, transport, OutboxIsHeld, OutboxNeedsLink
<1>18. CASE Overloaded
  BY <1>18, Zenon DEF Overloaded, link, probe, outboxes, transport, OutboxIsHeld, OutboxNeedsLink
<1>19. CASE AuthRejected
  BY <1>19 DEF AuthRejected, link, probe, outboxes, transport, Terminate, CloseLink, Age,
          OutboxIsHeld, OutboxNeedsLink
<1>20. CASE Rejected
  BY <1>20, Zenon DEF Rejected, Terminate, CloseLink, Age, probe, OutboxIsHeld, OutboxNeedsLink
<1>21. CASE AttemptFailed
  BY <1>21 DEF AttemptFailed, transport, NextAttempt, Age, RoundExhausted, probe, OutboxIsHeld,
          OutboxNeedsLink
<1>22. ASSUME NEW e \in {"current", "stale"}, LostDropped(e)
       PROVE  OutboxIsHeld'
  BY <1>22 DEF LostDropped, session_, link, attempt, probe, outboxes, OutboxIsHeld,
          OutboxNeedsLink
<1>23. ASSUME NEW e \in {"current", "stale"}, LostOffline(e)
       PROVE  OutboxIsHeld'
  BY <1>23, Zenon DEF LostOffline, LoseLink, Left, OutboxIsHeld, OutboxNeedsLink
<1>24. ASSUME NEW e \in {"current", "stale"}, LostFailed(e)
       PROVE  OutboxIsHeld'
  BY <1>24 DEF LostFailed, LoseLink, BeginRound, ContinueRound, Left, OutboxIsHeld,
          OutboxNeedsLink
<1>25. ASSUME NEW e \in {"current", "stale"}, LostDraining(e)
       PROVE  OutboxIsHeld'
  BY <1>25 DEF LostDraining, LoseLink, Left, OutboxIsHeld, OutboxNeedsLink
<1>26. ASSUME NEW e \in {"current", "stale"}, LostKicked(e)
       PROVE  OutboxIsHeld'
  BY <1>26, Zenon DEF LostKicked, LoseLink, Left, OutboxIsHeld, OutboxNeedsLink
<1>27. ASSUME NEW e \in {"current", "stale"}, LostForGood(e)
       PROVE  OutboxIsHeld'
  BY <1>27 DEF LostForGood, Age, OutboxIsHeld, OutboxNeedsLink
<1>28. CASE RoundTrip
  BY <1>28, Zenon DEF RoundTrip, session_, link, attempt, outboxes, transport, OutboxIsHeld,
          OutboxNeedsLink
<1>29. CASE ProbePasses
  BY <1>29, Zenon DEF ProbePasses, session_, link, attempt, transport, OutboxIsHeld, OutboxNeedsLink,
          QuietWithoutSession
<1>30. CASE RetryDue
  BY <1>30, Zenon DEF RetryDue, BeginRound, ContinueRound, DropOp, link, probe, outboxes, OutboxIsHeld,
          OutboxNeedsLink
<1>31. CASE MoveDue
  BY <1>31, SMTT(40) DEF MoveDue, SwitchAway, Age, BeginRound, ContinueRound, session_, link, attempt,
          probe, outboxes, transport, OutboxIsHeld, OutboxNeedsLink
<1>32. CASE DirectoryChanges
  BY <1>32, Zenon DEF DirectoryChanges, Waiting, ContinueRound, DropOp, link, probe, outboxes,
          OutboxIsHeld, OutboxNeedsLink
<1>33. CASE Handshake
  BY <1>33 DEF Handshake, session_, link, probe, outboxes, OutboxIsHeld, OutboxNeedsLink
<1>34. CASE ConnectionEnds
  BY <1>34, Zenon DEF ConnectionEnds, session_, link, attempt, probe, outboxes, OutboxIsHeld,
          OutboxNeedsLink
<1>35. CASE UNCHANGED vars
  BY <1>35, Zenon DEF vars, session_, link, attempt, probe, outboxes, transport, OutboxIsHeld,
          OutboxNeedsLink
<1> QED
  BY <1>1, <1>2, <1>3, <1>4, <1>5, <1>6, <1>7, <1>8, <1>9, <1>10, <1>11, <1>12, <1>13, <1>14,
          <1>15, <1>16, <1>17, <1>18, <1>19, <1>20, <1>21, <1>22, <1>23, <1>24, <1>25, <1>26,
          <1>27, <1>28, <1>29, <1>30, <1>31, <1>32, <1>33, <1>34, <1>35, ZenonT(40) DEF Next, Commands,
          Results, Signals, Timers, Lost

\* A pause over a connection is remembered until the probe passes, so no link is ready without
\* its outbox.
LEMMA PauseStep ==
    ASSUME FlagTypes, WordTypes, TimerTypes, QuietWithoutSession, TerminatedIsQuiet, OpsMatch, PauseIsRemembered, [Next]_vars
    PROVE  PauseIsRemembered'
<1>1. CASE StartAgain
  BY <1>1, Zenon DEF StartAgain, Online, Waiting, BeginRound, ContinueRound, DropOp, link, probe,
          outboxes, PauseIsRemembered
<1>2. CASE StartFresh
  BY <1>2, Zenon DEF StartFresh, CloseLink, Age, link, transport, NewSession, BeginRound, ContinueRound,
          probe, PauseIsRemembered, Online, Waiting, QuietWithoutSession
<1>3. CASE Stop
  BY <1>3, Zenon DEF Stop, CloseLink, Age, probe, PauseIsRemembered, Online, Waiting
<1>4. CASE Nudge
  BY <1>4, Zenon DEF Nudge, Waiting, BeginRound, ContinueRound, DropOp, link, probe, outboxes,
          PauseIsRemembered, Online
<1>5. CASE NetworkDown
  BY <1>5 DEF NetworkDown, DropOp, session_, link, probe, PauseIsRemembered, Online, Waiting,
          QuietWithoutSession
<1>6. CASE NetworkUpProbes
  BY <1>6, Zenon DEF NetworkUpProbes, session_, link, attempt, outboxes, transport,
          PauseIsRemembered, Online, Waiting
<1>7. CASE NetworkUpSwitches
  BY <1>7, Zenon DEF NetworkUpSwitches, SwitchAway, Age, BeginRound, ContinueRound, PauseIsRemembered,
          Online, Waiting
<1>8. CASE NetworkUpConnects
  BY <1>8, Zenon DEF NetworkUpConnects, Waiting, BeginRound, ContinueRound, DropOp, link, probe,
          outboxes, PauseIsRemembered, Online, QuietWithoutSession
<1>9. CASE Foreground
  BY <1>9, Zenon DEF Foreground, Waiting, BeginRound, ContinueRound, DropOp, link, probe, outboxes,
          PauseIsRemembered, Online
<1>10. CASE Switch
  BY <1>10, Zenon DEF Switch, SwitchAway, Age, BeginRound, ContinueRound, PauseIsRemembered, Online,
          Waiting
<1>11. CASE DirectoryLoads
  BY <1>11, Zenon DEF DirectoryLoads, ContinueRound, link, probe, outboxes, transport, PauseIsRemembered,
          Online, Waiting
<1>12. CASE DirectoryFails
  BY <1>12, Zenon DEF DirectoryFails, link, probe, outboxes, transport, PauseIsRemembered, Online,
          Waiting
<1>13. CASE TokenArrives
  BY <1>13, Zenon DEF TokenArrives, transport, NextAttempt, Age, RoundExhausted, probe,
          PauseIsRemembered, Online, Waiting
<1>14. CASE TokenUnreachable
  BY <1>14, Zenon DEF TokenUnreachable, RoundExhausted, link, probe, outboxes, transport,
          PauseIsRemembered, Online, Waiting
<1>15. CASE TokenRefused
  BY <1>15, Zenon DEF TokenRefused, Terminate, CloseLink, Age, probe, PauseIsRemembered, Online, Waiting
<1>16. CASE Connected
  BY <1>16, Zenon DEF Connected, outboxes, transport, PauseIsRemembered, Online, Waiting
<1>17. CASE Synced
  BY <1>17, Zenon DEF Synced, probe, outboxes, transport, PauseIsRemembered, Online, Waiting, OpsMatch,
          WordTypes
<1>18. CASE Overloaded
  BY <1>18, Zenon DEF Overloaded, link, probe, outboxes, transport, PauseIsRemembered, Online, Waiting
<1>19. CASE AuthRejected
  BY <1>19, Zenon DEF AuthRejected, link, probe, outboxes, transport, Terminate, CloseLink, Age,
          PauseIsRemembered, Online, Waiting
<1>20. CASE Rejected
  BY <1>20, Zenon DEF Rejected, Terminate, CloseLink, Age, probe, PauseIsRemembered, Online, Waiting
<1>21. CASE AttemptFailed
  BY <1>21, Zenon DEF AttemptFailed, transport, NextAttempt, Age, RoundExhausted, probe,
          PauseIsRemembered, Online, Waiting
<1>22. ASSUME NEW e \in {"current", "stale"}, LostDropped(e)
       PROVE  PauseIsRemembered'
  BY <1>22, Zenon DEF LostDropped, session_, link, attempt, probe, outboxes, PauseIsRemembered, Online,
          Waiting
<1>23. ASSUME NEW e \in {"current", "stale"}, LostOffline(e)
       PROVE  PauseIsRemembered'
  BY <1>23, Zenon DEF LostOffline, LoseLink, Left, PauseIsRemembered, Online, Waiting
<1>24. ASSUME NEW e \in {"current", "stale"}, LostFailed(e)
       PROVE  PauseIsRemembered'
  BY <1>24, Zenon DEF LostFailed, LoseLink, BeginRound, ContinueRound, Left, PauseIsRemembered, Online,
          Waiting
<1>25. ASSUME NEW e \in {"current", "stale"}, LostDraining(e)
       PROVE  PauseIsRemembered'
  BY <1>25, Zenon DEF LostDraining, LoseLink, Left, PauseIsRemembered, Online, Waiting
<1>26. ASSUME NEW e \in {"current", "stale"}, LostKicked(e)
       PROVE  PauseIsRemembered'
  BY <1>26, Zenon DEF LostKicked, LoseLink, Left, PauseIsRemembered, Online, Waiting
<1>27. ASSUME NEW e \in {"current", "stale"}, LostForGood(e)
       PROVE  PauseIsRemembered'
  BY <1>27, Zenon DEF LostForGood, Age, PauseIsRemembered, Online, Waiting
<1>28. CASE RoundTrip
  BY <1>28, Zenon DEF RoundTrip, session_, link, attempt, outboxes, transport, PauseIsRemembered, Online,
          Waiting, WordTypes
<1>29. CASE ProbePasses
  BY <1>29, Zenon DEF ProbePasses, session_, link, attempt, transport, PauseIsRemembered, Online,
          Waiting, WordTypes
<1>30. CASE RetryDue
  BY <1>30, Zenon DEF RetryDue, BeginRound, ContinueRound, DropOp, link, probe, outboxes,
          PauseIsRemembered, Online, Waiting
<1>31. CASE MoveDue
  BY <1>31, SMTT(40) DEF MoveDue, SwitchAway, Age, BeginRound, ContinueRound, session_, link, attempt,
          probe, outboxes, transport, PauseIsRemembered, Online, Waiting
<1>32. CASE DirectoryChanges
  BY <1>32, SMTT(40) DEF DirectoryChanges, Waiting, ContinueRound, DropOp, link, probe, outboxes,
          PauseIsRemembered, Online
<1>33. CASE Handshake
  BY <1>33, Zenon DEF Handshake, session_, link, probe, outboxes, PauseIsRemembered, Online, Waiting
<1>34. CASE ConnectionEnds
  BY <1>34, Zenon DEF ConnectionEnds, session_, link, attempt, probe, outboxes, PauseIsRemembered,
          Online, Waiting
<1>35. CASE UNCHANGED vars
  BY <1>35 DEF vars, session_, link, attempt, probe, outboxes, transport, PauseIsRemembered,
          Online, Waiting
<1> QED
  BY <1>1, <1>2, <1>3, <1>4, <1>5, <1>6, <1>7, <1>8, <1>9, <1>10, <1>11, <1>12, <1>13, <1>14,
          <1>15, <1>16, <1>17, <1>18, <1>19, <1>20, <1>21, <1>22, <1>23, <1>24, <1>25, <1>26,
          <1>27, <1>28, <1>29, <1>30, <1>31, <1>32, <1>33, <1>34, <1>35, SMTT(40) DEF Next, Commands,
          Results, Signals, Timers, Lost

-----------------------------------------------------------------------------
(* The connection, the answer and the outbox: the theorems                 *)

\* The connection the supervisor takes for the one in use is open or its end is on the way, as
\* long as no connection ends before on_op has seen it open (Connected, on_lost).
THEOREM LiveIsOpenHolds ==
    Spec => []LiveIsOpenUnlessEarly
<1>1. Init => OpenedIsOpen
  BY DEF Init, OpenedIsOpen, LiveIsOpen
<1>2. LinkInv /\ OpenedIsOpen /\ [Next]_vars => OpenedIsOpen'
  BY TypeParts, OpenStep DEF LinkInv
<1>3. OpenedIsOpen => LiveIsOpenUnlessEarly
  BY DEF OpenedIsOpen, LiveIsOpenUnlessEarly
<1> QED
  BY <1>1, <1>2, <1>3, LinkInvHolds, PTL DEF Spec

\* The start that opened the session is answered by the time the link is online, whatever
\* reconnects, renewals, switches and network changes came in between (take_reply).
THEOREM OnlineIsAnsweredHolds ==
    Spec => []OnlineIsAnsweredOnce
<1>1. Init => LinkIsAnswered
  BY DEF Init, LinkIsAnswered, OnlineIsAnswered, Online
<1>2. LinkInv /\ LinkIsAnswered /\ [Next]_vars => LinkIsAnswered'
  BY TypeParts, AnswerStep DEF LinkInv
<1>3. LinkIsAnswered => OnlineIsAnsweredOnce
  BY DEF LinkIsAnswered, OnlineIsAnsweredOnce
<1> QED
  BY <1>1, <1>2, <1>3, LinkInvHolds, PTL DEF Spec

\* For one user the outbox runs only over a connection and with a network: pause_outbox comes
\* before whatever takes either away, and no late resume follows it.
THEOREM OutboxNeedsLinkHolds ==
    Spec => []OutboxNeedsLinkOfUser
<1>1. Init => OutboxIsHeld
  BY DEF Init, OutboxIsHeld, OutboxNeedsLink
<1>2. LinkInv /\ OutboxIsHeld /\ [Next]_vars => OutboxIsHeld'
  BY TypeParts, OutboxStep DEF LinkInv
<1>3. OutboxIsHeld => OutboxNeedsLinkOfUser
  BY DEF OutboxIsHeld, OutboxNeedsLinkOfUser
<1> QED
  BY <1>1, <1>2, <1>3, LinkInvHolds, PTL DEF Spec

\* A link that reports Ready has its outbox running, unless a reconnect was asked for: a pause
\* while the network was away is remembered until the probe passes.
THEOREM ReadyIsSendingHolds ==
    Spec => []ReadyIsSendingUnlessNudged
<1>1. Init => PauseIsRemembered
  BY DEF Init, PauseIsRemembered, Online
<1>2. LinkInv /\ PauseIsRemembered /\ [Next]_vars => PauseIsRemembered'
  BY TypeParts, PauseStep DEF LinkInv
<1>3. PauseIsRemembered => ReadyIsSendingUnlessNudged
  BY DEF PauseIsRemembered, ReadyIsSendingUnlessNudged, ReadyIsSending
<1> QED
  BY <1>1, <1>2, <1>3, LinkInvHolds, PTL DEF Spec

=============================================================================
