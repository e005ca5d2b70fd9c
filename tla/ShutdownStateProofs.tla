------------------------ MODULE ShutdownStateProofs ------------------------
(***************************************************************************)
(* ShutdownState keeps its promises for every number of callers,           *)
(* publishers and workers and every set of OS signals.                     *)
(***************************************************************************)
EXTENDS ShutdownState, FiniteSetTheorems, TLAPS

-----------------------------------------------------------------------------
(* Types                                                                   *)

\* Every step preserves the type invariant.
LEMMA TypeStep ==
    TypeOK /\ [Next]_vars => TypeOK'
PROOF
  <1>. SUFFICES ASSUME TypeOK, [Next]_vars PROVE TypeOK'
    OBVIOUS
  <1>. USE ShutdownAssumption DEF TypeOK, Requesters, Signals, Stages, PublishStages, GuardStages
  <1>1. ASSUME NEW c \in Callers, Call(c) PROVE TypeOK'
    BY <1>1 DEF Call, Initiate, CompareExchange, Goto, requestVars, flagVars, countVars
  <1>2. ASSUME NEW c \in Requesters, RetainSignal(c) PROVE TypeOK'
    BY <1>2 DEF RetainSignal, Goto, requestVars, flagVars, countVars
  <1>3. ASSUME NEW c \in Requesters, LowerReadiness(c) PROVE TypeOK'
    <2>1. ready' \in BOOLEAN
      BY <1>3, Zenon DEF LowerReadiness
    <2>. QED
      BY <1>3, <2>1 DEF LowerReadiness, Goto, requestVars, flagVars, countVars
  <1>4. ASSUME NEW c \in Requesters, SealAdmission(c) PROVE TypeOK'
    <2>1. accepting' \in BOOLEAN
      BY <1>4, Zenon DEF SealAdmission
    <2>. QED
      BY <1>4, <2>1 DEF SealAdmission, Goto, requestVars, flagVars, countVars
  <1>5. ASSUME NEW c \in Requesters, Publish(c) PROVE TypeOK'
    BY <1>5 DEF Publish, Goto, requestVars, flagVars, countVars
  <1>6. ASSUME NEW c \in Requesters, ReportWinner(c) PROVE TypeOK'
    BY <1>6 DEF ReportWinner, Goto, requestVars, flagVars, countVars, Winner, AfterLoss
  <1>7. ASSUME NEW c \in Requesters, SwapForce(c) PROVE TypeOK'
    BY <1>7 DEF SwapForce, Goto, requestVars, flagVars, countVars
  <1>8. ASSUME NEW c \in Requesters, ForceSeals(c) PROVE TypeOK'
    <2>1. accepting' \in BOOLEAN
      BY <1>8, Zenon DEF ForceSeals
    <2>. QED
      BY <1>8, <2>1 DEF ForceSeals, Goto, requestVars, flagVars, countVars
  <1>9. ASSUME NEW c \in Requesters, TellForce(c) PROVE TypeOK'
    BY <1>9 DEF TellForce, Goto, requestVars, flagVars, countVars
  <1>10. ASSUME NEW s \in OsSignals, RaiseSignal(s) PROVE TypeOK'
    BY <1>10 DEF RaiseSignal, requestVars, flagVars, countVars
  <1>11. CASE ReceiveSignal
    BY <1>11 DEF ReceiveSignal, Initiate, CompareExchange, Goto, requestVars, flagVars, countVars
  <1>12. CASE WaiterReceives
    BY <1>12 DEF WaiterReceives, requestVars, flagVars, countVars
  <1>13. CASE WaiterJoins
    BY <1>13 DEF WaiterJoins, JoinedListener, requestVars, flagVars, countVars
  <1>14. CASE StopMonitor
    BY <1>14 DEF StopMonitor, Goto, requestVars, flagVars, countVars
  <1>15. ASSUME NEW p \in Publishers, CheckShutdown(p) PROVE TypeOK'
    BY <1>15 DEF CheckShutdown, PubGoto, requestVars, flagVars, countVars
  <1>16. ASSUME NEW p \in Publishers, CheckAdmission(p) PROVE TypeOK'
    BY <1>16 DEF CheckAdmission, PubGoto, requestVars, flagVars, countVars
  <1>17. ASSUME NEW p \in Publishers, StoreReady(p) PROVE TypeOK'
    BY <1>17 DEF StoreReady, PubGoto, requestVars, flagVars, countVars
  <1>18. ASSUME NEW p \in Publishers, RecheckShutdown(p) PROVE TypeOK'
    BY <1>18 DEF RecheckShutdown, PubGoto, requestVars, flagVars, countVars
  <1>19. ASSUME NEW p \in Publishers, RecheckAdmission(p) PROVE TypeOK'
    BY <1>19 DEF RecheckAdmission, PubGoto, requestVars, flagVars, countVars
  <1>20. ASSUME NEW p \in Publishers, WithdrawReady(p) PROVE TypeOK'
    <2>1. ready' \in BOOLEAN
      BY <1>20, Zenon DEF WithdrawReady
    <2>. QED
      BY <1>20, <2>1 DEF WithdrawReady, PubGoto, requestVars, flagVars, countVars
  <1>21. ASSUME NEW w \in Workers, CheckOpen(w) PROVE TypeOK'
    BY <1>21 DEF CheckOpen, GuardGoto, requestVars, flagVars, countVars
  <1>22. ASSUME NEW w \in Workers, Increment(w) PROVE TypeOK'
    BY <1>22 DEF Increment, GuardGoto, requestVars, flagVars, countVars
  <1>23. ASSUME NEW w \in Workers, RecheckOpen(w) PROVE TypeOK'
    BY <1>23 DEF RecheckOpen, GuardGoto, requestVars, flagVars, countVars
  <1>24. ASSUME NEW w \in Workers, BackOut(w) PROVE TypeOK'
    BY <1>24 DEF BackOut, GuardGoto, Decrement, requestVars, flagVars, countVars
  <1>25. ASSUME NEW w \in Workers, Release(w) PROVE TypeOK'
    BY <1>25 DEF Release, GuardGoto, Decrement, requestVars, flagVars, countVars
  <1>26. ASSUME NEW w \in Workers, DropGuard(w) PROVE TypeOK'
    <2>1. underflows' \in BOOLEAN
      BY <1>26, Zenon DEF DropGuard, Decrement
    <2>. QED
      BY <1>26, <2>1 DEF DropGuard, GuardGoto, Decrement, requestVars, flagVars, countVars
  <1>27. CASE ObserveDrained
    BY <1>27 DEF ObserveDrained, requestVars, flagVars, countVars
  <1>28. CASE UNCHANGED vars
    BY <1>28 DEF vars, requestVars, flagVars, countVars
  <1>. QED
    BY <1>1, <1>2, <1>3, <1>4, <1>5, <1>6, <1>7, <1>8, <1>9, <1>10, <1>11, <1>12, <1>13, <1>14, <1>15, <1>16, <1>17, <1>18, <1>19, <1>20, <1>21, <1>22, <1>23, <1>24, <1>25, <1>26, <1>27, <1>28 DEF Next, Requester, Publisher, Worker

\* Every variable keeps its type, in every behaviour of the specification.
THEOREM TypeCorrect == Spec => []TypeOK
PROOF
  <1>1. ASSUME Init PROVE TypeOK
    <2>1. /\ initiated \in BOOLEAN /\ ready \in BOOLEAN /\ accepting \in BOOLEAN
          /\ underflows \in BOOLEAN /\ force \in BOOLEAN /\ forced \in BOOLEAN
          /\ drained \in BOOLEAN
      BY <1>1, Zenon DEF Init
    <2>. QED
      BY <1>1, <2>1 DEF Init, TypeOK, Stages, PublishStages, GuardStages
  <1>. QED
    BY <1>1, TypeStep, PTL DEF Spec

-----------------------------------------------------------------------------
(* Readiness                                                               *)

\* Once the initiator is past its store, only a publisher that has stored and
\* not yet looked, or has looked and lost, can be the reason for readiness. A
\* publisher that found no shutdown stored before the initiator did.
ReadyInv ==
    initiated /\ ~Lowering /\ ready
        => \E p \in Publishers : pub[p] \in {"shutdownAgain", "lower"}

\* Every step preserves the readiness invariant.
LEMMA ReadyStep ==
    TypeOK /\ ReadyInv /\ [Next]_vars => ReadyInv'
PROOF
  <1>. SUFFICES ASSUME TypeOK /\ ReadyInv, [Next]_vars PROVE ReadyInv'
    OBVIOUS
  <1>. USE ShutdownAssumption DEF TypeOK, ReadyInv, Lowering, Requesters
  <1>1. ASSUME NEW c \in Callers, Call(c) PROVE ReadyInv'
    BY <1>1 DEF Call, Initiate, CompareExchange, Goto, requestVars, flagVars, countVars
  <1>2. ASSUME NEW c \in Requesters, RetainSignal(c) PROVE ReadyInv'
    BY <1>2 DEF RetainSignal, Goto, requestVars, flagVars, countVars
  <1>3. ASSUME NEW c \in Requesters, LowerReadiness(c) PROVE ReadyInv'
    BY <1>3 DEF LowerReadiness, Goto, requestVars, flagVars, countVars
  <1>4. ASSUME NEW c \in Requesters, SealAdmission(c) PROVE ReadyInv'
    BY <1>4 DEF SealAdmission, Goto, requestVars, flagVars, countVars
  <1>5. ASSUME NEW c \in Requesters, Publish(c) PROVE ReadyInv'
    BY <1>5 DEF Publish, Goto, requestVars, flagVars, countVars, IsForce, Quit
  <1>6. ASSUME NEW c \in Requesters, ReportWinner(c) PROVE ReadyInv'
    BY <1>6 DEF ReportWinner, Goto, requestVars, flagVars, countVars, AfterLoss
  <1>7. ASSUME NEW c \in Requesters, SwapForce(c) PROVE ReadyInv'
    BY <1>7 DEF SwapForce, Goto, requestVars, flagVars, countVars
  <1>8. ASSUME NEW c \in Requesters, ForceSeals(c) PROVE ReadyInv'
    BY <1>8 DEF ForceSeals, Goto, requestVars, flagVars, countVars
  <1>9. ASSUME NEW c \in Requesters, TellForce(c) PROVE ReadyInv'
    BY <1>9 DEF TellForce, Goto, requestVars, flagVars, countVars
  <1>10. ASSUME NEW s \in OsSignals, RaiseSignal(s) PROVE ReadyInv'
    BY <1>10 DEF RaiseSignal, requestVars, flagVars, countVars
  <1>11. CASE ReceiveSignal
    BY <1>11 DEF ReceiveSignal, Initiate, CompareExchange, Goto, requestVars, flagVars, countVars
  <1>12. CASE WaiterReceives
    BY <1>12 DEF WaiterReceives, requestVars, flagVars, countVars
  <1>13. CASE WaiterJoins
    BY <1>13 DEF WaiterJoins, JoinedListener, requestVars, flagVars, countVars
  <1>14. CASE StopMonitor
    BY <1>14 DEF StopMonitor, Goto, requestVars, flagVars, countVars
  <1>15. ASSUME NEW p \in Publishers, CheckShutdown(p) PROVE ReadyInv'
    BY <1>15 DEF CheckShutdown, PubGoto, requestVars, flagVars, countVars
  <1>16. ASSUME NEW p \in Publishers, CheckAdmission(p) PROVE ReadyInv'
    BY <1>16 DEF CheckAdmission, PubGoto, requestVars, flagVars, countVars
  <1>17. ASSUME NEW p \in Publishers, StoreReady(p) PROVE ReadyInv'
    BY <1>17 DEF StoreReady, PubGoto, requestVars, flagVars, countVars
  <1>18. ASSUME NEW p \in Publishers, RecheckShutdown(p) PROVE ReadyInv'
    BY <1>18 DEF RecheckShutdown, PubGoto, requestVars, flagVars, countVars
  <1>19. ASSUME NEW p \in Publishers, RecheckAdmission(p) PROVE ReadyInv'
    BY <1>19 DEF RecheckAdmission, PubGoto, requestVars, flagVars, countVars
  <1>20. ASSUME NEW p \in Publishers, WithdrawReady(p) PROVE ReadyInv'
    BY <1>20 DEF WithdrawReady, PubGoto, requestVars, flagVars, countVars
  <1>21. ASSUME NEW w \in Workers, CheckOpen(w) PROVE ReadyInv'
    BY <1>21 DEF CheckOpen, GuardGoto, requestVars, flagVars, countVars
  <1>22. ASSUME NEW w \in Workers, Increment(w) PROVE ReadyInv'
    BY <1>22 DEF Increment, GuardGoto, requestVars, flagVars, countVars
  <1>23. ASSUME NEW w \in Workers, RecheckOpen(w) PROVE ReadyInv'
    BY <1>23 DEF RecheckOpen, GuardGoto, requestVars, flagVars, countVars
  <1>24. ASSUME NEW w \in Workers, BackOut(w) PROVE ReadyInv'
    BY <1>24 DEF BackOut, GuardGoto, Decrement, requestVars, flagVars, countVars
  <1>25. ASSUME NEW w \in Workers, Release(w) PROVE ReadyInv'
    BY <1>25 DEF Release, GuardGoto, Decrement, requestVars, flagVars, countVars
  <1>26. ASSUME NEW w \in Workers, DropGuard(w) PROVE ReadyInv'
    BY <1>26 DEF DropGuard, GuardGoto, Decrement, requestVars, flagVars, countVars
  <1>27. CASE ObserveDrained
    BY <1>27 DEF ObserveDrained, requestVars, flagVars, countVars
  <1>28. CASE UNCHANGED vars
    BY <1>28 DEF vars, requestVars, flagVars, countVars
  <1>. QED
    BY <1>1, <1>2, <1>3, <1>4, <1>5, <1>6, <1>7, <1>8, <1>9, <1>10, <1>11, <1>12, <1>13, <1>14, <1>15, <1>16, <1>17, <1>18, <1>19, <1>20, <1>21, <1>22, <1>23, <1>24, <1>25, <1>26, <1>27, <1>28 DEF Next, Requester, Publisher, Worker

\* Shutdown wins every race with publish_ready: after the initiator lowered
\* readiness, it is up only while a publisher is between its store and its
\* second check (ShutdownState::publish_ready, initiate_shutdown).
THEOREM ShutdownAlwaysWins == Spec => []ShutdownWins
PROOF
  <1>1. Init => ReadyInv
    BY DEF Init, ReadyInv
  <1>2. ReadyInv => ShutdownWins
    BY DEF ReadyInv, ShutdownWins, Publishing
  <1>. QED
    BY <1>1, <1>2, ReadyStep, TypeCorrect, PTL DEF Spec

-----------------------------------------------------------------------------
(* One transition                                                          *)

\* Whoever is between winning and publishing carries the winning signal, and
\* before anybody has won nothing is retained or published.
SignalInv ==
    /\ OneTransition
    /\ \A c \in Requesters :
        stage[c] \in {"won", "retained", "lowered", "sealed"}
            => initiated /\ request[c] = first
    /\ ~initiated => first = None

\* Every step preserves the signal invariant.
LEMMA SignalStep ==
    TypeOK /\ SignalInv /\ [Next]_vars => SignalInv'
PROOF
  <1>. SUFFICES ASSUME TypeOK /\ SignalInv, [Next]_vars PROVE SignalInv'
    OBVIOUS
  <1>. USE ShutdownAssumption DEF TypeOK, SignalInv, OneTransition, Requesters, Signals
  <1>1. ASSUME NEW c \in Callers, Call(c) PROVE SignalInv'
    BY <1>1 DEF Call, Initiate, CompareExchange, Goto, requestVars, flagVars, countVars
  <1>2. ASSUME NEW c \in Requesters, RetainSignal(c) PROVE SignalInv'
    BY <1>2 DEF RetainSignal, Goto, requestVars, flagVars, countVars
  <1>3. ASSUME NEW c \in Requesters, LowerReadiness(c) PROVE SignalInv'
    BY <1>3 DEF LowerReadiness, Goto, requestVars, flagVars, countVars
  <1>4. ASSUME NEW c \in Requesters, SealAdmission(c) PROVE SignalInv'
    BY <1>4 DEF SealAdmission, Goto, requestVars, flagVars, countVars
  <1>5. ASSUME NEW c \in Requesters, Publish(c) PROVE SignalInv'
    BY <1>5 DEF Publish, Goto, requestVars, flagVars, countVars, IsForce, Quit
  <1>6. ASSUME NEW c \in Requesters, ReportWinner(c) PROVE SignalInv'
    BY <1>6 DEF ReportWinner, Goto, requestVars, flagVars, countVars, AfterLoss
  <1>7. ASSUME NEW c \in Requesters, SwapForce(c) PROVE SignalInv'
    BY <1>7 DEF SwapForce, Goto, requestVars, flagVars, countVars
  <1>8. ASSUME NEW c \in Requesters, ForceSeals(c) PROVE SignalInv'
    BY <1>8 DEF ForceSeals, Goto, requestVars, flagVars, countVars
  <1>9. ASSUME NEW c \in Requesters, TellForce(c) PROVE SignalInv'
    BY <1>9 DEF TellForce, Goto, requestVars, flagVars, countVars
  <1>10. ASSUME NEW s \in OsSignals, RaiseSignal(s) PROVE SignalInv'
    BY <1>10 DEF RaiseSignal, requestVars, flagVars, countVars
  <1>11. CASE ReceiveSignal
    BY <1>11 DEF ReceiveSignal, Initiate, CompareExchange, Goto, requestVars, flagVars, countVars
  <1>12. CASE WaiterReceives
    BY <1>12 DEF WaiterReceives, requestVars, flagVars, countVars
  <1>13. CASE WaiterJoins
    BY <1>13 DEF WaiterJoins, JoinedListener, requestVars, flagVars, countVars
  <1>14. CASE StopMonitor
    BY <1>14 DEF StopMonitor, Goto, requestVars, flagVars, countVars
  <1>15. ASSUME NEW p \in Publishers, CheckShutdown(p) PROVE SignalInv'
    BY <1>15 DEF CheckShutdown, PubGoto, requestVars, flagVars, countVars
  <1>16. ASSUME NEW p \in Publishers, CheckAdmission(p) PROVE SignalInv'
    BY <1>16 DEF CheckAdmission, PubGoto, requestVars, flagVars, countVars
  <1>17. ASSUME NEW p \in Publishers, StoreReady(p) PROVE SignalInv'
    BY <1>17 DEF StoreReady, PubGoto, requestVars, flagVars, countVars
  <1>18. ASSUME NEW p \in Publishers, RecheckShutdown(p) PROVE SignalInv'
    BY <1>18 DEF RecheckShutdown, PubGoto, requestVars, flagVars, countVars
  <1>19. ASSUME NEW p \in Publishers, RecheckAdmission(p) PROVE SignalInv'
    BY <1>19 DEF RecheckAdmission, PubGoto, requestVars, flagVars, countVars
  <1>20. ASSUME NEW p \in Publishers, WithdrawReady(p) PROVE SignalInv'
    BY <1>20 DEF WithdrawReady, PubGoto, requestVars, flagVars, countVars
  <1>21. ASSUME NEW w \in Workers, CheckOpen(w) PROVE SignalInv'
    BY <1>21 DEF CheckOpen, GuardGoto, requestVars, flagVars, countVars
  <1>22. ASSUME NEW w \in Workers, Increment(w) PROVE SignalInv'
    BY <1>22 DEF Increment, GuardGoto, requestVars, flagVars, countVars
  <1>23. ASSUME NEW w \in Workers, RecheckOpen(w) PROVE SignalInv'
    BY <1>23 DEF RecheckOpen, GuardGoto, requestVars, flagVars, countVars
  <1>24. ASSUME NEW w \in Workers, BackOut(w) PROVE SignalInv'
    BY <1>24 DEF BackOut, GuardGoto, Decrement, requestVars, flagVars, countVars
  <1>25. ASSUME NEW w \in Workers, Release(w) PROVE SignalInv'
    BY <1>25 DEF Release, GuardGoto, Decrement, requestVars, flagVars, countVars
  <1>26. ASSUME NEW w \in Workers, DropGuard(w) PROVE SignalInv'
    BY <1>26 DEF DropGuard, GuardGoto, Decrement, requestVars, flagVars, countVars
  <1>27. CASE ObserveDrained
    BY <1>27 DEF ObserveDrained, requestVars, flagVars, countVars
  <1>28. CASE UNCHANGED vars
    BY <1>28 DEF vars, requestVars, flagVars, countVars
  <1>. QED
    BY <1>1, <1>2, <1>3, <1>4, <1>5, <1>6, <1>7, <1>8, <1>9, <1>10, <1>11, <1>12, <1>13, <1>14, <1>15, <1>16, <1>17, <1>18, <1>19, <1>20, <1>21, <1>22, <1>23, <1>24, <1>25, <1>26, <1>27, <1>28 DEF Next, Requester, Publisher, Worker

\* One request initiates the shutdown, and what is retained, published and
\* returned by the signal monitor is its signal.
THEOREM SingleTransition == Spec => []OneTransition
PROOF
  <1>1. Init => SignalInv
    BY DEF Init, SignalInv, OneTransition
  <1>2. SignalInv => OneTransition
    BY DEF SignalInv
  <1>. QED
    BY <1>1, <1>2, SignalStep, TypeCorrect, PTL DEF Spec

-----------------------------------------------------------------------------
(* Activity guards                                                         *)

\* Counting one more worker.
LEMMA CountMore ==
    ASSUME TypeOK, CountIsExact, NEW w \in Workers \ Counted, Counted' = Counted \cup {w}
    PROVE  Cardinality(Counted') = active + 1
PROOF
  <1>1. IsFiniteSet(Counted)
    BY ShutdownAssumption, FS_Subset DEF Counted
  <1>. QED
    BY <1>1, FS_AddElement DEF CountIsExact

\* Counting one fewer: the counter was not zero.
LEMMA CountLess ==
    ASSUME TypeOK, CountIsExact, NEW w \in Counted, Counted' = Counted \ {w}
    PROVE  active > 0 /\ Cardinality(Counted') = active - 1
PROOF
  <1>1. IsFiniteSet(Counted)
    BY ShutdownAssumption, FS_Subset DEF Counted
  <1>2. Cardinality(Counted \ {w}) = Cardinality(Counted) - 1
    BY <1>1, FS_RemoveElement
  <1>3. Cardinality(Counted \ {w}) \in Nat
    BY <1>1, FS_Subset, FS_CardinalityType
  <1>. QED
    BY <1>2, <1>3 DEF CountIsExact, TypeOK

\* A decrement by a counted worker keeps the count exact.
LEMMA DecrementExact ==
    ASSUME TypeOK, CountIsExact, Decrement,
           NEW w \in Counted, Counted' = Counted \ {w}
    PROVE  CountIsExact'
PROOF
  <1>1. active' = Cardinality(Counted')
    BY CountLess DEF Decrement
  <1>2. active # 0
    BY CountLess DEF TypeOK
  <1>3. ~underflows'
    BY <1>2, Zenon DEF Decrement, CountIsExact
  <1>. QED
    BY <1>1, <1>3, Zenon DEF CountIsExact

\* Every step preserves the exact count.
LEMMA CountStep ==
    TypeOK /\ CountIsExact /\ [Next]_vars => CountIsExact'
PROOF
  <1>. SUFFICES ASSUME TypeOK /\ CountIsExact, [Next]_vars PROVE CountIsExact'
    OBVIOUS
  <1>. USE ShutdownAssumption DEF TypeOK
  <1>1. ASSUME NEW c \in Callers, Call(c) PROVE CountIsExact'
    BY <1>1 DEF Call, Initiate, countVars, CountIsExact, Counted
  <1>2. ASSUME NEW c \in Requesters, RetainSignal(c) PROVE CountIsExact'
    BY <1>2 DEF RetainSignal, countVars, CountIsExact, Counted
  <1>3. ASSUME NEW c \in Requesters, LowerReadiness(c) PROVE CountIsExact'
    BY <1>3 DEF LowerReadiness, countVars, CountIsExact, Counted
  <1>4. ASSUME NEW c \in Requesters, SealAdmission(c) PROVE CountIsExact'
    BY <1>4 DEF SealAdmission, countVars, CountIsExact, Counted
  <1>5. ASSUME NEW c \in Requesters, Publish(c) PROVE CountIsExact'
    BY <1>5 DEF Publish, countVars, CountIsExact, Counted
  <1>6. ASSUME NEW c \in Requesters, ReportWinner(c) PROVE CountIsExact'
    BY <1>6 DEF ReportWinner, countVars, CountIsExact, Counted
  <1>7. ASSUME NEW c \in Requesters, SwapForce(c) PROVE CountIsExact'
    BY <1>7 DEF SwapForce, countVars, CountIsExact, Counted
  <1>8. ASSUME NEW c \in Requesters, ForceSeals(c) PROVE CountIsExact'
    BY <1>8 DEF ForceSeals, countVars, CountIsExact, Counted
  <1>9. ASSUME NEW c \in Requesters, TellForce(c) PROVE CountIsExact'
    BY <1>9 DEF TellForce, countVars, CountIsExact, Counted
  <1>10. ASSUME NEW s \in OsSignals, RaiseSignal(s) PROVE CountIsExact'
    BY <1>10 DEF RaiseSignal, countVars, CountIsExact, Counted
  <1>11. CASE ReceiveSignal
    BY <1>11 DEF ReceiveSignal, Initiate, countVars, CountIsExact, Counted
  <1>12. CASE WaiterReceives
    BY <1>12 DEF WaiterReceives, countVars, CountIsExact, Counted
  <1>13. CASE WaiterJoins
    BY <1>13 DEF WaiterJoins, countVars, CountIsExact, Counted
  <1>14. CASE StopMonitor
    BY <1>14 DEF StopMonitor, countVars, CountIsExact, Counted
  <1>15. ASSUME NEW p \in Publishers, CheckShutdown(p) PROVE CountIsExact'
    BY <1>15 DEF CheckShutdown, countVars, CountIsExact, Counted
  <1>16. ASSUME NEW p \in Publishers, CheckAdmission(p) PROVE CountIsExact'
    BY <1>16 DEF CheckAdmission, countVars, CountIsExact, Counted
  <1>17. ASSUME NEW p \in Publishers, StoreReady(p) PROVE CountIsExact'
    BY <1>17 DEF StoreReady, countVars, CountIsExact, Counted
  <1>18. ASSUME NEW p \in Publishers, RecheckShutdown(p) PROVE CountIsExact'
    BY <1>18 DEF RecheckShutdown, countVars, CountIsExact, Counted
  <1>19. ASSUME NEW p \in Publishers, RecheckAdmission(p) PROVE CountIsExact'
    BY <1>19 DEF RecheckAdmission, countVars, CountIsExact, Counted
  <1>20. ASSUME NEW p \in Publishers, WithdrawReady(p) PROVE CountIsExact'
    BY <1>20 DEF WithdrawReady, countVars, CountIsExact, Counted
  <1>21. ASSUME NEW w \in Workers, CheckOpen(w) PROVE CountIsExact'
    <2>1. Counted' = Counted
      BY <1>21 DEF CheckOpen, GuardGoto, Counted
    <2>. QED
      BY <1>21, <2>1 DEF CheckOpen, CountIsExact
  <1>22. ASSUME NEW w \in Workers, Increment(w) PROVE CountIsExact'
    <2>1. w \notin Counted /\ Counted' = Counted \cup {w}
      BY <1>22 DEF Increment, GuardGoto, Counted
    <2>. QED
      BY <1>22, <2>1, CountMore DEF Increment, CountIsExact
  <1>23. ASSUME NEW w \in Workers, RecheckOpen(w) PROVE CountIsExact'
    <2>1. Counted' = Counted
      BY <1>23 DEF RecheckOpen, GuardGoto, Counted
    <2>. QED
      BY <1>23, <2>1 DEF RecheckOpen, CountIsExact
  <1>24. ASSUME NEW w \in Workers, BackOut(w) PROVE CountIsExact'
    <2>1. w \in Counted /\ Counted' = Counted \ {w}
      BY <1>24 DEF BackOut, GuardGoto, Counted
    <2>. QED
      BY <1>24, <2>1, DecrementExact DEF BackOut
  <1>25. ASSUME NEW w \in Workers, Release(w) PROVE CountIsExact'
    <2>1. w \in Counted /\ Counted' = Counted \ {w}
      BY <1>25 DEF Release, GuardGoto, Counted
    <2>. QED
      BY <1>25, <2>1, DecrementExact DEF Release
  <1>26. ASSUME NEW w \in Workers, DropGuard(w) PROVE CountIsExact'
    <2>1. CASE guard[w] = "admitted"
      <3>1. w \in Counted /\ Counted' = Counted \ {w}
        BY <1>26, <2>1 DEF DropGuard, GuardGoto, Counted
      <3>. QED
        BY <1>26, <2>1, <3>1, DecrementExact DEF DropGuard
    <2>2. CASE guard[w] # "admitted"
      <3>1. Counted' = Counted
        BY <1>26, <2>2 DEF DropGuard, GuardGoto, Counted
      <3>. QED
        BY <1>26, <2>2, <3>1 DEF DropGuard, CountIsExact
    <2>. QED
      BY <2>1, <2>2
  <1>27. CASE ObserveDrained
    BY <1>27 DEF ObserveDrained, countVars, CountIsExact, Counted
  <1>28. CASE UNCHANGED vars
    BY <1>28 DEF vars, requestVars, flagVars, countVars, CountIsExact, Counted
  <1>. QED
    BY <1>1, <1>2, <1>3, <1>4, <1>5, <1>6, <1>7, <1>8, <1>9, <1>10, <1>11, <1>12, <1>13, <1>14, <1>15, <1>16, <1>17, <1>18, <1>19, <1>20, <1>21, <1>22, <1>23, <1>24, <1>25, <1>26, <1>27, <1>28 DEF Next, Requester, Publisher, Worker

\* The activity counter is the number of guards in flight at every moment, and
\* is never decremented below zero.
THEOREM CounterExact == Spec => []CountIsExact
PROOF
  <1>1. Init => CountIsExact
    <2>1. ASSUME Init PROVE Counted = {}
      BY <2>1 DEF Init, Counted
    <2>. QED
      BY <2>1, FS_EmptySet DEF Init, CountIsExact
  <1>. QED
    BY <1>1, CountStep, TypeCorrect, PTL DEF Spec

\* The seal is final, so that what a drain saw stays true.
QuietInv == DrainedStaysQuiet /\ (drained => ~accepting)

\* Every step preserves the quiet of a drained application.
LEMMA QuietStep ==
    TypeOK /\ CountIsExact /\ QuietInv /\ [Next]_vars => QuietInv'
PROOF
  <1>. SUFFICES ASSUME TypeOK /\ CountIsExact /\ QuietInv, [Next]_vars PROVE QuietInv'
    OBVIOUS
  <1>. USE ShutdownAssumption DEF TypeOK, QuietInv, DrainedStaysQuiet
  <1>1. ASSUME NEW c \in Callers, Call(c) PROVE QuietInv'
    BY <1>1 DEF Call, Initiate, CompareExchange, Goto, requestVars, flagVars, countVars
  <1>2. ASSUME NEW c \in Requesters, RetainSignal(c) PROVE QuietInv'
    BY <1>2 DEF RetainSignal, Goto, requestVars, flagVars, countVars
  <1>3. ASSUME NEW c \in Requesters, LowerReadiness(c) PROVE QuietInv'
    BY <1>3 DEF LowerReadiness, Goto, requestVars, flagVars, countVars
  <1>4. ASSUME NEW c \in Requesters, SealAdmission(c) PROVE QuietInv'
    BY <1>4 DEF SealAdmission, Goto, requestVars, flagVars, countVars
  <1>5. ASSUME NEW c \in Requesters, Publish(c) PROVE QuietInv'
    BY <1>5 DEF Publish, Goto, requestVars, flagVars, countVars
  <1>6. ASSUME NEW c \in Requesters, ReportWinner(c) PROVE QuietInv'
    BY <1>6 DEF ReportWinner, Goto, requestVars, flagVars, countVars
  <1>7. ASSUME NEW c \in Requesters, SwapForce(c) PROVE QuietInv'
    BY <1>7 DEF SwapForce, Goto, requestVars, flagVars, countVars
  <1>8. ASSUME NEW c \in Requesters, ForceSeals(c) PROVE QuietInv'
    BY <1>8 DEF ForceSeals, Goto, requestVars, flagVars, countVars
  <1>9. ASSUME NEW c \in Requesters, TellForce(c) PROVE QuietInv'
    BY <1>9 DEF TellForce, Goto, requestVars, flagVars, countVars
  <1>10. ASSUME NEW s \in OsSignals, RaiseSignal(s) PROVE QuietInv'
    BY <1>10 DEF RaiseSignal, requestVars, flagVars, countVars
  <1>11. CASE ReceiveSignal
    BY <1>11 DEF ReceiveSignal, Initiate, CompareExchange, Goto, requestVars, flagVars, countVars
  <1>12. CASE WaiterReceives
    BY <1>12 DEF WaiterReceives, requestVars, flagVars, countVars
  <1>13. CASE WaiterJoins
    BY <1>13 DEF WaiterJoins, JoinedListener, requestVars, flagVars, countVars
  <1>14. CASE StopMonitor
    BY <1>14 DEF StopMonitor, Goto, requestVars, flagVars, countVars
  <1>15. ASSUME NEW p \in Publishers, CheckShutdown(p) PROVE QuietInv'
    BY <1>15 DEF CheckShutdown, PubGoto, requestVars, flagVars, countVars
  <1>16. ASSUME NEW p \in Publishers, CheckAdmission(p) PROVE QuietInv'
    BY <1>16 DEF CheckAdmission, PubGoto, requestVars, flagVars, countVars
  <1>17. ASSUME NEW p \in Publishers, StoreReady(p) PROVE QuietInv'
    BY <1>17 DEF StoreReady, PubGoto, requestVars, flagVars, countVars
  <1>18. ASSUME NEW p \in Publishers, RecheckShutdown(p) PROVE QuietInv'
    BY <1>18 DEF RecheckShutdown, PubGoto, requestVars, flagVars, countVars
  <1>19. ASSUME NEW p \in Publishers, RecheckAdmission(p) PROVE QuietInv'
    BY <1>19 DEF RecheckAdmission, PubGoto, requestVars, flagVars, countVars
  <1>20. ASSUME NEW p \in Publishers, WithdrawReady(p) PROVE QuietInv'
    BY <1>20 DEF WithdrawReady, PubGoto, requestVars, flagVars, countVars
  <1>21. ASSUME NEW w \in Workers, CheckOpen(w) PROVE QuietInv'
    BY <1>21 DEF CheckOpen, GuardGoto, requestVars, flagVars, countVars
  <1>22. ASSUME NEW w \in Workers, Increment(w) PROVE QuietInv'
    BY <1>22 DEF Increment, GuardGoto, requestVars, flagVars, countVars
  <1>23. ASSUME NEW w \in Workers, RecheckOpen(w) PROVE QuietInv'
    BY <1>23 DEF RecheckOpen, GuardGoto, requestVars, flagVars, countVars
  <1>24. ASSUME NEW w \in Workers, BackOut(w) PROVE QuietInv'
    BY <1>24 DEF BackOut, GuardGoto, Decrement, requestVars, flagVars, countVars
  <1>25. ASSUME NEW w \in Workers, Release(w) PROVE QuietInv'
    BY <1>25 DEF Release, GuardGoto, Decrement, requestVars, flagVars, countVars
  <1>26. ASSUME NEW w \in Workers, DropGuard(w) PROVE QuietInv'
    BY <1>26 DEF DropGuard, GuardGoto, Decrement, requestVars, flagVars, countVars
  <1>27. CASE ObserveDrained
    <2>1. IsFiniteSet(Counted)
      BY ShutdownAssumption, FS_Subset DEF Counted
    <2>2. Counted = {}
      BY <1>27, <2>1, FS_EmptySet DEF ObserveDrained, CountIsExact
    <2>. QED
      BY <1>27, <2>2 DEF ObserveDrained, Counted, flagVars
  <1>28. CASE UNCHANGED vars
    BY <1>28 DEF vars, requestVars, flagVars, countVars
  <1>. QED
    BY <1>1, <1>2, <1>3, <1>4, <1>5, <1>6, <1>7, <1>8, <1>9, <1>10, <1>11, <1>12, <1>13, <1>14, <1>15, <1>16, <1>17, <1>18, <1>19, <1>20, <1>21, <1>22, <1>23, <1>24, <1>25, <1>26, <1>27, <1>28 DEF Next, Requester, Publisher, Worker

\* After a drain has read zero behind the seal, no work is admitted and none is
\* in flight (ShutdownState::activity_guard).
THEOREM DrainIsQuiet == Spec => []DrainedStaysQuiet
PROOF
  <1>1. Init => QuietInv
    BY DEF Init, QuietInv, DrainedStaysQuiet
  <1>2. QuietInv => DrainedStaysQuiet
    BY DEF QuietInv
  <1>. QED
    BY <1>1, <1>2, QuietStep, CounterExact, TypeCorrect, PTL DEF Spec
=============================================================================
