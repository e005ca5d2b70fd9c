----------------------- MODULE RelaySupervisorProofs -----------------------
(***************************************************************************)
(* The relay supervisor keeps its safety properties for every set of       *)
(* database cells: the readiness ledger counts the degraded workers, a     *)
(* completed drain leaves no worker behind and its verdict is final.       *)
(***************************************************************************)
EXTENDS RelaySupervisor, FiniteSetTheorems, TLAPS

-----------------------------------------------------------------------------
(* The counter of degraded workers                                         *)

CountedWorkers == {w \in Workers : Counted(w)}

\* The labels at which a worker's flags and the counter disagree.
Between == {"counting", "countingLast", "discounting"}

\* A worker about to be counted is degraded, one about to be discounted not.
FlagInv ==
    \A w \in Workers :
        /\ wpc[w] \in {"counting", "countingLast"} => degradation[w] # {}
        /\ wpc[w] = "discounting" => degradation[w] = {}

CountInv == DegradedCountMatches /\ FlagInv

\* A set of workers has a natural number of elements: one more with a new
\* worker, one less without an old one.
LEMMA CountWorkers ==
    ASSUME NEW S \in SUBSET Workers
    PROVE  /\ Cardinality(S) \in Nat
           /\ \A w \in Workers : w \notin S =>
                  Cardinality(S \union {w}) = Cardinality(S) + 1
           /\ \A w \in S : /\ Cardinality(S \ {w}) = Cardinality(S) - 1
                           /\ Cardinality(S \ {w}) \in Nat
PROOF
  <1>1. IsFiniteSet(S)
    BY WorkersAssumption, FS_Subset
  <1>2. Cardinality(S) \in Nat
    BY <1>1, FS_CardinalityType
  <1>3. ASSUME NEW w \in Workers, w \notin S
        PROVE  Cardinality(S \union {w}) = Cardinality(S) + 1
    BY <1>1, <1>3, FS_AddElement
  <1>4. ASSUME NEW w \in S
        PROVE  /\ Cardinality(S \ {w}) = Cardinality(S) - 1
               /\ Cardinality(S \ {w}) \in Nat
    <2>1. IsFiniteSet(S \ {w})
      BY <1>1, FS_RemoveElement
    <2>. QED
      BY <1>1, <1>4, <2>1, FS_RemoveElement, FS_CardinalityType
  <1>. QED
    BY <1>2, <1>3, <1>4

\* The flags of a worker move: whether it counts stays as it was.
LEMMA FlagsKeepCount ==
    ASSUME TypeOK, CountInv, NEW w \in Workers,
           RecordCause(w) \/ RecoverProbed(w) \/ \E c \in Causes : OperationSucceeded(w, c)
    PROVE  CountInv'
PROOF
  <1>. USE DEF TypeOK, CountInv, FlagInv, Counted, Causes, Goto, ledgerVars
  <1>1. CASE RecordCause(w)
    <2>1. \A v \in Workers : Counted(v)' <=> Counted(v)
      BY <1>1 DEF RecordCause, AfterDegrade
    <2>2. FlagInv'
      BY <1>1 DEF RecordCause, AfterDegrade
    <2>. QED
      BY <1>1, <2>1, <2>2 DEF RecordCause, DegradedCountMatches
  <1>2. ASSUME NEW c \in Causes, Recover(w, c), wpc[w] \in {"work", "probed"},
               UNCHANGED ledgerVars
        PROVE  CountInv'
    <2>1. \A v \in Workers : Counted(v)' <=> Counted(v)
      BY <1>2 DEF Recover
    <2>2. FlagInv'
      BY <1>2 DEF Recover
    <2>. QED
      BY <1>2, <2>1, <2>2 DEF DegradedCountMatches
  <1>3. CASE RecoverProbed(w)
    BY <1>2, <1>3 DEF RecoverProbed
  <1>4. ASSUME NEW c \in Causes, OperationSucceeded(w, c) PROVE CountInv'
    BY <1>2, <1>4 DEF OperationSucceeded
  <1>. QED
    BY <1>1, <1>3, <1>4

\* CountDegraded adds a worker that did not count.
LEMMA CountAdds ==
    ASSUME TypeOK, CountInv, NEW w \in Workers, CountDegraded(w)
    PROVE  CountInv'
PROOF
  <1>. USE DEF TypeOK, CountInv, FlagInv, Counted, Goto
  <1>1. CountedWorkers' = CountedWorkers \union {w} /\ w \notin CountedWorkers
    BY DEF CountDegraded, AfterDegrade, CountedWorkers
  <1>2. CountedWorkers \in SUBSET Workers
    BY DEF CountedWorkers
  <1>3. Cardinality(CountedWorkers') = Cardinality(CountedWorkers) + 1
    BY <1>1, <1>2, CountWorkers
  <1>4. FlagInv'
    BY DEF CountDegraded, AfterDegrade
  <1>. QED
    BY <1>3, <1>4 DEF CountDegraded, DegradedCountMatches, CountedWorkers

\* DiscountRecovered takes away a worker that did; the counter is positive
\* when it does, so the decrement does not underflow.
LEMMA CountSubtracts ==
    ASSUME TypeOK, CountInv, NEW w \in Workers, DiscountRecovered(w)
    PROVE  CountInv' /\ degradedWorkers' \in Nat
PROOF
  <1>. USE DEF TypeOK, CountInv, FlagInv, Counted, Goto
  <1>1. CountedWorkers' = CountedWorkers \ {w} /\ w \in CountedWorkers
    BY DEF DiscountRecovered, CountedWorkers
  <1>2. CountedWorkers \in SUBSET Workers
    BY DEF CountedWorkers
  <1>3. /\ Cardinality(CountedWorkers') = Cardinality(CountedWorkers) - 1
        /\ Cardinality(CountedWorkers') \in Nat
    BY <1>1, <1>2, CountWorkers
  <1>4. FlagInv'
    BY DEF DiscountRecovered
  <1>. QED
    BY <1>3, <1>4 DEF DiscountRecovered, DegradedCountMatches, CountedWorkers

-----------------------------------------------------------------------------
(* Types                                                                   *)

\* The counter must match for the type of the counter itself to survive: the
\* decrement of DiscountRecovered is the only step that could leave the naturals.
LEMMA TypeStep ==
    ASSUME TypeOK, CountInv, [Next]_vars
    PROVE  TypeOK'
PROOF
  <1>. USE WorkersAssumption DEF TypeOK, StarterStates, Causes, Live, Ending,
     Goto, startVars, stopVars, ledgerVars, endVars, taskVars
  <1>1. CASE StartSnapshot
    BY <1>1 DEF StartSnapshot
  <1>2. CASE StartDone
    BY <1>2 DEF StartDone
  <1>3. CASE StopAdmission
    BY <1>3 DEF StopAdmission
  <1>4. CASE StoreDraining
    BY <1>4 DEF StoreDraining
  <1>5. CASE CancelWorkers
    BY <1>5 DEF CancelWorkers
  <1>6. CASE Drained
    BY <1>6 DEF Drained, Joined
  <1>7. CASE RequestForce
    BY <1>7 DEF RequestForce
  <1>8. CASE ForceTimeout
    BY <1>8 DEF ForceTimeout, Joined
  <1>9. CASE Close
    BY <1>9 DEF Close, Joined
  <1>10. CASE Monitor
    BY <1>10 DEF Monitor
  <1>11. ASSUME NEW w \in Workers, StartNext(w) PROVE TypeOK'
    BY <1>11 DEF StartNext, StartTask, Spawns
  <1>12. ASSUME NEW w \in Workers, StartReady(w) PROVE TypeOK'
    BY <1>12 DEF StartReady
  <1>13. ASSUME NEW w \in Workers, RegisterCheck(w) PROVE TypeOK'
    BY <1>13 DEF RegisterCheck
  <1>14. ASSUME NEW w \in Workers, RegisterSchemaFailed(w) PROVE TypeOK'
    BY <1>14 DEF RegisterSchemaFailed
  <1>15. ASSUME NEW w \in Workers, RegisterInsert(w) PROVE TypeOK'
    BY <1>15 DEF RegisterInsert
  <1>16. ASSUME NEW w \in Workers, RegisterStart(w) PROVE TypeOK'
    BY <1>16 DEF RegisterStart, StartTask, Spawns
  <1>17. ASSUME NEW w \in Workers, CheckWorkerReady(w) PROVE TypeOK'
    BY <1>17 DEF CheckWorkerReady
  <1>18. ASSUME NEW w \in Workers, AnnounceReady(w) PROVE TypeOK'
    BY <1>18 DEF AnnounceReady
  <1>19. ASSUME NEW w \in Workers, RecordCause(w) \/ CountDegraded(w) PROVE TypeOK'
    BY <1>19 DEF RecordCause, CountDegraded, AfterDegrade
  <1>20. ASSUME NEW w \in Workers, DegradeExhausted(w) PROVE TypeOK'
    BY <1>20 DEF DegradeExhausted, BeginDegrade
  <1>21. ASSUME NEW w \in Workers, RecoverProbed(w) PROVE TypeOK'
    BY <1>21 DEF RecoverProbed, Recover
  <1>22. ASSUME NEW w \in Workers, CheckRecovered(w) PROVE TypeOK'
    BY <1>22 DEF CheckRecovered
  <1>23. ASSUME NEW w \in Workers, AnnounceRecovered(w) PROVE TypeOK'
    BY <1>23 DEF AnnounceRecovered
  <1>24. ASSUME NEW w \in Workers, LoopCheck(w) PROVE TypeOK'
    BY <1>24 DEF LoopCheck
  <1>25. ASSUME NEW w \in Workers, RecordTerminalFailure(w) PROVE TypeOK'
    BY <1>25 DEF RecordTerminalFailure
  <1>26. ASSUME NEW w \in Workers, NoteFailure(w) PROVE TypeOK'
    BY <1>26 DEF NoteFailure
  <1>27. ASSUME NEW w \in Workers, NotifyFailure(w) PROVE TypeOK'
    BY <1>27 DEF NotifyFailure
  <1>28. ASSUME NEW w \in Workers, AttemptsExhausted(w) PROVE TypeOK'
    BY <1>28 DEF AttemptsExhausted
  <1>29. ASSUME NEW w \in Workers, MarkExhausted(w) PROVE TypeOK'
    BY <1>29 DEF MarkExhausted
  <1>30. ASSUME NEW w \in Workers, IdleProbe(w) PROVE TypeOK'
    BY <1>30 DEF IdleProbe
  <1>31. ASSUME NEW w \in Workers, IdleProbeExhausted(w) PROVE TypeOK'
    BY <1>31 DEF IdleProbeExhausted
  <1>32. ASSUME NEW w \in Workers, EndIteration(w) PROVE TypeOK'
    BY <1>32 DEF EndIteration
  <1>33. ASSUME NEW w \in Workers, RunInterrupted(w) PROVE TypeOK'
    BY <1>33 DEF RunInterrupted
  <1>34. ASSUME NEW w \in Workers, NEW c \in Causes, OperationFailed(w, c) PROVE TypeOK'
    BY <1>34 DEF OperationFailed, BeginDegrade
  <1>35. ASSUME NEW w \in Workers, NEW c \in Causes, RunFailed(w, c) PROVE TypeOK'
    BY <1>35 DEF RunFailed, BeginDegrade
  <1>36. ASSUME NEW w \in Workers, NEW c \in Causes, OperationSucceeded(w, c) PROVE TypeOK'
    BY <1>36 DEF OperationSucceeded, Recover
  <1>37. ASSUME NEW w \in Workers, DiscountRecovered(w) PROVE TypeOK'
    <2>1. degradedWorkers' \in Nat
      BY <1>37, CountSubtracts
    <2>. QED
      BY <1>37, <2>1 DEF DiscountRecovered
  <1>38. CASE UNCHANGED vars
    BY <1>38 DEF vars
  <1>. QED
    BY <1>1, <1>2, <1>3, <1>4, <1>5, <1>6, <1>7, <1>8, <1>9, <1>10, <1>11,
       <1>12, <1>13, <1>14, <1>15, <1>16, <1>17, <1>18, <1>19, <1>20, <1>21, <1>22,
       <1>23, <1>24, <1>25, <1>26, <1>27, <1>28, <1>29, <1>30, <1>31, <1>32, <1>33,
       <1>34, <1>35, <1>36, <1>37, <1>38 DEF Next, Start, Lifecycle, Register, Task,
       Outcome

-----------------------------------------------------------------------------
(* Steps, sorted by what they may change                                   *)

\* A step of a running worker leaves startup and shutdown alone, keeps the
\* ledger out of the states of a finished drain, and moves no other worker.
LEMMA RunningStep ==
    ASSUME TypeOK, NEW w \in Workers, Task(w) \/ Outcome(w)
    PROVE  /\ UNCHANGED <<startVars, stopVars>>
           /\ wpc[w] \notin {"none", "ended"}
           /\ \E l \in {"ended"} \union Live \union Ending :
                  wpc' = [wpc EXCEPT ![w] = l]
           /\ state' \in {state, "ready", "degraded"}
PROOF
  <1>. USE DEF TypeOK, Live, Ending, Goto, startVars, stopVars, ledgerVars,
     endVars, taskVars
  <1>1. CASE CheckWorkerReady(w) \/ AnnounceReady(w)
    BY <1>1 DEF CheckWorkerReady, AnnounceReady
  <1>2. CASE RecordCause(w) \/ CountDegraded(w) \/ DegradeExhausted(w)
    BY <1>2 DEF RecordCause, CountDegraded, AfterDegrade, DegradeExhausted, BeginDegrade
  <1>3. CASE RecoverProbed(w) \/ DiscountRecovered(w)
    BY <1>3 DEF RecoverProbed, Recover, DiscountRecovered
  <1>4. CASE CheckRecovered(w) \/ AnnounceRecovered(w) \/ LoopCheck(w)
    BY <1>4 DEF CheckRecovered, AnnounceRecovered, LoopCheck
  <1>5. CASE RecordTerminalFailure(w) \/ NoteFailure(w) \/ NotifyFailure(w)
    BY <1>5 DEF RecordTerminalFailure, NoteFailure, NotifyFailure
  <1>6. ASSUME NEW c \in Causes, OperationFailed(w, c) \/ RunFailed(w, c)
        PROVE  /\ UNCHANGED <<startVars, stopVars>>
               /\ wpc[w] \notin {"none", "ended"}
               /\ wpc' = [wpc EXCEPT ![w] = "degrading"]
               /\ state' = "degraded"
    BY <1>6 DEF OperationFailed, RunFailed, BeginDegrade
  <1>7. ASSUME NEW c \in Causes, OperationSucceeded(w, c)
        PROVE  /\ UNCHANGED <<startVars, stopVars>>
               /\ wpc[w] \notin {"none", "ended"}
               /\ \/ wpc' = [wpc EXCEPT ![w] = "discounting"]
                  \/ wpc' = [wpc EXCEPT ![w] = "work"]
               /\ state' = state
    BY <1>7 DEF OperationSucceeded, Recover
  <1>8. CASE AttemptsExhausted(w) \/ MarkExhausted(w)
    BY <1>8 DEF AttemptsExhausted, MarkExhausted
  <1>9. CASE IdleProbe(w) \/ IdleProbeExhausted(w)
    BY <1>9 DEF IdleProbe, IdleProbeExhausted
  <1>10. CASE EndIteration(w) \/ RunInterrupted(w)
    BY <1>10 DEF EndIteration, RunInterrupted
  <1>. QED
    BY <1>1, <1>2, <1>3, <1>4, <1>5, <1>6, <1>7, <1>8, <1>9, <1>10 DEF Task, Outcome

\* A step beside the counting: no flag and no count moves, and nobody comes to
\* or leaves a label between them.
Beside ==
    /\ UNCHANGED <<degradation, degradedWorkers>>
    /\ \A v \in Workers : \/ wpc'[v] = wpc[v]
                          \/ wpc[v] \notin Between /\ wpc'[v] \notin Between

\* Degradations and their counter change in degrade and recover only; every
\* other step leaves a worker's flags alone and stays away from the labels
\* between flags and counter.
LEMMA CountStep ==
    ASSUME TypeOK, CountInv, [Next]_vars
    PROVE  CountInv'
PROOF
  <1>1. Beside => CountInv'
    <2>. SUFFICES ASSUME Beside PROVE CountInv'
      OBVIOUS
    <2>1. \A v \in Workers : Counted(v)' <=> Counted(v)
      BY DEF Beside, Counted, Between
    <2>2. FlagInv'
      BY DEF Beside, CountInv, FlagInv, Between
    <2>. QED
      BY <2>1, <2>2 DEF Beside, CountInv, DegradedCountMatches
  <1>2. UNCHANGED <<wpc, degradation, degradedWorkers>> => CountInv'
    BY <1>1 DEF Beside
  <1>3. CASE StartSnapshot \/ StartDone \/ Lifecycle \/ Monitor \/ UNCHANGED vars
    BY <1>2, <1>3 DEF StartSnapshot, StartDone, Lifecycle, StopAdmission,
       StoreDraining, CancelWorkers, Drained, RequestForce, ForceTimeout, Close,
       Monitor, taskVars, ledgerVars, vars
  <1>4. ASSUME NEW w \in Workers, StartNext(w) \/ StartReady(w) PROVE CountInv'
    <2>1. Beside
      BY <1>4 DEF Beside, StartNext, StartReady, StartTask, Spawns, Goto, Between,
         taskVars, ledgerVars, TypeOK
    <2>. QED
      BY <1>1, <2>1
  <1>5. ASSUME NEW w \in Workers, Register(w) PROVE CountInv'
    <2>1. Beside
      BY <1>5 DEF Beside, Register, RegisterCheck, RegisterSchemaFailed,
         RegisterInsert, RegisterStart, StartTask, Spawns, Goto, Between,
         taskVars, ledgerVars, TypeOK
    <2>. QED
      BY <1>1, <2>1
  <1>6. ASSUME NEW w \in Workers, Task(w) PROVE CountInv'
    <2>1. CASE RecordCause(w) \/ RecoverProbed(w)
      BY <2>1, FlagsKeepCount
    <2>2. CASE CountDegraded(w)
      BY <2>2, CountAdds
    <2>3. CASE DiscountRecovered(w)
      BY <2>3, CountSubtracts
    <2>4. CASE CheckWorkerReady(w) \/ AnnounceReady(w) \/ LoopCheck(w)
      <3>1. Beside
        BY <2>4 DEF Beside, CheckWorkerReady, AnnounceReady, LoopCheck, Goto,
           Between, ledgerVars, TypeOK
      <3>. QED
        BY <1>1, <3>1
    <2>5. CASE DegradeExhausted(w) \/ CheckRecovered(w) \/ AnnounceRecovered(w)
      <3>1. Beside
        BY <2>5 DEF Beside, DegradeExhausted, BeginDegrade, CheckRecovered,
           AnnounceRecovered, Goto, Between, ledgerVars, TypeOK
      <3>. QED
        BY <1>1, <3>1
    <2>6. CASE RecordTerminalFailure(w) \/ NoteFailure(w) \/ NotifyFailure(w)
      <3>1. Beside
        BY <2>6 DEF Beside, RecordTerminalFailure, NoteFailure, NotifyFailure, Goto,
           Between, ledgerVars, TypeOK
      <3>. QED
        BY <1>1, <3>1
    <2>. QED
      BY <1>6, <2>1, <2>2, <2>3, <2>4, <2>5, <2>6 DEF Task
  <1>7. ASSUME NEW w \in Workers, Outcome(w) PROVE CountInv'
    <2>1. ASSUME NEW c \in Causes, OperationSucceeded(w, c)
          PROVE  CountInv'
      BY <2>1, FlagsKeepCount
    <2>2. ASSUME NEW c \in Causes, OperationFailed(w, c) \/ RunFailed(w, c)
          PROVE  CountInv'
      <3>1. Beside
        BY <2>2 DEF Beside, OperationFailed, RunFailed, BeginDegrade, Goto, Between,
           TypeOK
      <3>. QED
        BY <1>1, <3>1
    <2>3. CASE AttemptsExhausted(w) \/ MarkExhausted(w) \/ IdleProbe(w)
                 \/ IdleProbeExhausted(w) \/ EndIteration(w) \/ RunInterrupted(w)
      <3>1. Beside
        BY <2>3 DEF Beside, AttemptsExhausted, MarkExhausted, IdleProbe,
           IdleProbeExhausted, EndIteration, RunInterrupted, Goto, Between,
           ledgerVars, TypeOK
      <3>. QED
        BY <1>1, <3>1
    <2>. QED
      BY <1>7, <2>1, <2>2, <2>3 DEF Outcome
  <1>. QED
    BY <1>3, <1>4, <1>5, <1>6, <1>7 DEF Next, Start

-----------------------------------------------------------------------------
(* Shutdown against startup                                                *)

DrainStates == {"drain", "forceDrain", "drained", "timedOut", "refused",
                "closed"}

\* Why nobody is spawned behind the back of a drain.  A task belongs to a
\* worker of the map; the map is closed when admission stops, so the workers
\* cancelled at the start of the drain are all there will ever be; and a
\* finished drain, whose verdict the ledger may carry, has joined them.
StopInv ==
    /\ admissionStopped <=> lifecycle # "serving"
    /\ todo \subseteq registered
    /\ \A w \in Workers : wpc[w] # "none" \/ reg[w] = "start" => w \in registered
    /\ lifecycle \in DrainStates => registered \subseteq cancelled
    /\ admissionStopped => starter \notin Workers \union {"starting"}
    /\ NoWorkerOutlivesDrain
    /\ state \in {"stopped", "failed"} => lifecycle \in {"drained", "closed"}

\* A registration, even one overtaken by the whole shutdown, spawns nothing
\* the drain has not cancelled.
LEMMA RegisterKeepsStopInv ==
    ASSUME TypeOK, StopInv, NEW w \in Workers, Register(w)
    PROVE  StopInv'
PROOF
  <1>. USE DEF TypeOK, StopInv, NoWorkerOutlivesDrain, DrainStates, Goto,
           startVars, stopVars, ledgerVars, endVars, taskVars
  <1>1. CASE RegisterCheck(w)
    BY <1>1 DEF RegisterCheck
  <1>2. CASE RegisterSchemaFailed(w)
    BY <1>2 DEF RegisterSchemaFailed
  <1>3. CASE RegisterInsert(w)
    BY <1>3 DEF RegisterInsert
  <1>4. CASE RegisterStart(w)
    BY <1>4 DEF RegisterStart, StartTask, Spawns
  <1>. QED
    BY <1>1, <1>2, <1>3, <1>4 DEF Register

\* start() spawns workers of its snapshot, and only before admission stops.
LEMMA StartKeepsStopInv ==
    ASSUME TypeOK, StopInv, Start
    PROVE  StopInv'
PROOF
  <1>. USE WorkersAssumption DEF TypeOK, StopInv, NoWorkerOutlivesDrain,
           DrainStates, StarterStates, Goto, startVars, stopVars, ledgerVars,
           endVars, taskVars
  <1>1. CASE StartSnapshot
    BY <1>1 DEF StartSnapshot
  <1>2. CASE StartDone
    BY <1>2 DEF StartDone
  <1>3. ASSUME NEW w \in Workers, StartNext(w) PROVE StopInv'
    BY <1>3 DEF StartNext, StartTask, Spawns
  <1>4. ASSUME NEW w \in Workers, StartReady(w) PROVE StopInv'
    BY <1>4 DEF StartReady
  <1>. QED
    BY <1>1, <1>2, <1>3, <1>4 DEF Start

\* The lifecycle closes the map before it cancels and joins its workers.
LEMMA LifecycleKeepsStopInv ==
    ASSUME TypeOK, StopInv, Lifecycle
    PROVE  StopInv'
PROOF
  <1>. USE WorkersAssumption DEF TypeOK, StopInv, NoWorkerOutlivesDrain,
           DrainStates, StarterStates, startVars, stopVars, ledgerVars,
           endVars, taskVars
  <1>1. CASE StopAdmission
    BY <1>1 DEF StopAdmission
  <1>2. CASE StoreDraining
    BY <1>2 DEF StoreDraining
  <1>3. CASE CancelWorkers
    BY <1>3 DEF CancelWorkers
  <1>4. CASE Drained
    BY <1>4 DEF Drained, Joined
  <1>5. CASE RequestForce
    BY <1>5 DEF RequestForce
  <1>6. CASE ForceTimeout
    BY <1>6 DEF ForceTimeout
  <1>7. CASE Close
    BY <1>7 DEF Close, Joined
  <1>. QED
    BY <1>1, <1>2, <1>3, <1>4, <1>5, <1>6, <1>7 DEF Lifecycle

\* A running worker is one a drain still waits for.
LEMMA RunningKeepsStopInv ==
    ASSUME TypeOK, StopInv, NEW w \in Workers, Task(w) \/ Outcome(w)
    PROVE  StopInv'
PROOF
  <1>1. PICK l \in {"ended"} \union Live \union Ending :
            wpc' = [wpc EXCEPT ![w] = l]
    BY RunningStep
  <1>2. lifecycle \notin {"drained", "closed"} /\ w \in registered
    BY RunningStep DEF StopInv, NoWorkerOutlivesDrain
  <1>. QED
    BY <1>1, <1>2, RunningStep DEF StopInv, NoWorkerOutlivesDrain, TypeOK,
       startVars, stopVars, DrainStates

\* Every step keeps what a stopping supervisor may rely on.
LEMMA StopStep ==
    ASSUME TypeOK, StopInv, [Next]_vars
    PROVE  StopInv'
PROOF
  <1>1. CASE Monitor \/ UNCHANGED vars
    BY <1>1 DEF Monitor, vars, startVars, stopVars, taskVars, ledgerVars,
       StopInv, NoWorkerOutlivesDrain
  <1>. QED
    BY <1>1, RegisterKeepsStopInv, StartKeepsStopInv, LifecycleKeepsStopInv,
       RunningKeepsStopInv DEF Next

-----------------------------------------------------------------------------
(* The theorems                                                            *)

IInv == TypeOK /\ CountInv /\ StopInv

\* The invariant holds before the supervisor starts.
LEMMA InitIInv ==
    Init => IInv
PROOF
  <1>. SUFFICES ASSUME Init PROVE IInv
    OBVIOUS
  <1>1. TypeOK
    BY DEF Init, TypeOK, StarterStates, Causes
  <1>2. CountedWorkers = {}
    BY DEF Init, CountedWorkers, Counted
  <1>3. CountInv
    BY <1>2, FS_EmptySet DEF CountInv, FlagInv, DegradedCountMatches, CountedWorkers, Init
  <1>4. StopInv
    BY DEF Init, StopInv, NoWorkerOutlivesDrain, DrainStates
  <1>. QED
    BY <1>1, <1>3, <1>4 DEF IInv

\* The inductive invariant holds in every state of every behaviour.
THEOREM Inductive == Spec => []IInv
PROOF
  <1>1. IInv /\ [Next]_vars => IInv'
    BY TypeStep, CountStep, StopStep DEF IInv
  <1>. QED
    BY <1>1, InitIInv, PTL DEF Spec

\* Type correctness: the supervisor, its workers and the ledger never leave
\* the states they are declared with; the counters stay natural numbers.
THEOREM TypeCorrect == Spec => []TypeOK
PROOF
  <1>1. IInv => TypeOK
    BY DEF IInv
  <1>. QED
    BY <1>1, Inductive, PTL

\* degraded_workers is the number of degraded workers in every state, up to
\* the workers between their flags and the counter: the counter recover
\* decrements is never zero, which its debug_assert claims.
THEOREM CountIsExact == Spec => []DegradedCountMatches
PROOF
  <1>1. IInv => DegradedCountMatches
    BY DEF IInv, CountInv
  <1>. QED
    BY <1>1, Inductive, PTL

\* When drain or force_drain has returned Ok, no worker of the process runs,
\* however registrations and start() raced with stop_admission.
THEOREM DrainIsComplete == Spec => []NoWorkerOutlivesDrain
PROOF
  <1>1. IInv => NoWorkerOutlivesDrain
    BY DEF IInv, StopInv
  <1>. QED
    BY <1>1, Inductive, PTL

\* STOPPED and FAILED are final: no store of a late worker, of start() or of
\* a second drain replaces the verdict of a finished drain.
THEOREM VerdictIsFinal == Spec => FinalStateSticks
PROOF
  <1>1. ASSUME IInv, [Next]_vars, state \in {"stopped", "failed"}
        PROVE  state' = state
    <2>1. lifecycle \in {"drained", "closed"}
      BY <1>1 DEF IInv, StopInv
    <2>2. \A w \in Workers : wpc[w] \in {"none", "ended"}
      BY <1>1, <2>1 DEF IInv, StopInv, NoWorkerOutlivesDrain
    <2>3. starter # "starting"
      BY <1>1, <2>1 DEF IInv, StopInv
    <2>4. CASE Start
      BY <2>3, <2>4 DEF Start, StartSnapshot, StartDone, StartNext, StartReady,
         ledgerVars
    <2>5. CASE Lifecycle
      BY <2>1, <2>5 DEF Lifecycle, StopAdmission, StoreDraining, CancelWorkers,
         Drained, RequestForce, ForceTimeout, Close, ledgerVars
    <2>6. ASSUME NEW w \in Workers, Register(w) PROVE state' = state
      BY <2>6 DEF Register, RegisterCheck, RegisterSchemaFailed,
         RegisterInsert, RegisterStart, ledgerVars
    <2>7. ASSUME NEW w \in Workers, Task(w) \/ Outcome(w) PROVE FALSE
      BY <1>1, <2>2, <2>7, RunningStep DEF IInv
    <2>. QED
      BY <1>1, <2>4, <2>5, <2>6, <2>7 DEF Next, Monitor, vars, ledgerVars
  <1>2. IInv /\ [Next]_vars
            => [(state \in {"stopped", "failed"}) => state' = state]_vars
    BY <1>1
  <1>. QED
    BY <1>2, Inductive, PTL DEF Spec, FinalStateSticks
=============================================================================
