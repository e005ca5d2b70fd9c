----------------------- MODULE TransactionalInboxProofs -----------------------
(***************************************************************************)
(* Proofs of the safety properties of TransactionalInbox, for any finite   *)
(* set of executions, any inbox identities, any collisions of their        *)
(* advisory keys and any number of crashes.                                *)
(***************************************************************************)
EXTENDS TransactionalInbox, FiniteSetTheorems, TLAPS

USE FiniteExecutions, LockAssumption, CrashesAssumption

-----------------------------------------------------------------------------
(* The inductive invariant.                                                *)

\* Where the owner is decides what its transaction holds.
StageInv ==
    \A e \in Executions :
        /\ waiter[e] \in {"idle", "checked", "counted", "admitted"}
             => owner[e] = "none"
        /\ owner[e] \in {"none", "connect"}
             => txn[e] = "none" /\ e \notin locked /\ pending[e] = "none" /\ ~wrote[e]
        /\ owner[e] \in Body \union {"commit", "rollback"} => txn[e] = "open"
        /\ owner[e] \in {"claim", "operate", "complete"} => e \in locked
        /\ owner[e] \in {"lock", "claim"} => pending[e] = "none" /\ ~wrote[e]
        /\ owner[e] = "operate"
             => claim[e] = "acquired" /\ pending[e] = "processing" /\ ~wrote[e]
        /\ owner[e] = "complete"
             => claim[e] = "acquired" /\ pending[e] = "processing" /\ wrote[e]
        /\ owner[e] = "commit"
             => IF claim[e] = "acquired" THEN pending[e] = "completed" /\ wrote[e]
                                         ELSE pending[e] = "none" /\ ~wrote[e]

\* A transaction whose COMMIT may have been sent is whole: a completed row and
\* the handler's writes, or neither.
InDoubtInv ==
    \A e \in Executions :
        txn[e] = "inDoubt" => \/ pending[e] = "none" /\ ~wrote[e]
                              \/ pending[e] = "completed" /\ wrote[e]

\* An advisory lock belongs to one transaction that has not ended, and only
\* its holder has an uncommitted row, of a key that has no committed one.
LockInv ==
    \A e \in Executions :
        /\ e \in locked => txn[e] # "none"
        /\ pending[e] # "none" => e \in locked /\ row[key[e]] = "absent"
        /\ wrote[e] => pending[e] # "none"
        /\ \A f \in Executions : e \in locked /\ f \in locked /\ e # f
                                   => LockOf[key[e]] # LockOf[key[f]]

\* Whoever reports effects has seen them committed.
ReportInv ==
    \A e \in Executions :
        \/ claim[e] = "completed"
        \/ result[e] \in {"applied", "completed"}
        \/ waiter[e] = "ok"
        => effects[key[e]] > 0

\* A drain that is past its last look at the owners finds nobody ever after.
QuietInv ==
    /\ drain # "serving" => ~accepting
    /\ drain \in {"receipts", "over", "drained", "incomplete"} =>
          \A e \in Executions : /\ waiter[e] # "admitted"
                                /\ owner[e] \notin Running \union {"sent", "unwinding"}
    /\ drain = "drained" => ~interrupted

IInv == /\ TypeOK
        /\ ActiveCountsLeases
        /\ StageInv
        /\ InDoubtInv
        /\ LockInv
        /\ ExactlyOnceWhileRetained
        /\ ReportInv
        /\ QuietInv

-----------------------------------------------------------------------------
(* The initial states.                                                     *)

\* The invariant holds when the process starts on empty tables.
LEMMA InitInv == Init => IInv
<1>1. SUFFICES ASSUME Init PROVE IInv
  OBVIOUS
<1>2. TypeOK
  <2>1. /\ waiter \in [Executions -> {"idle"}] /\ owner \in [Executions -> {"none"}]
        /\ key \in [Executions -> Keys]
        /\ claim \in [Executions -> {"none"}] /\ result \in [Executions -> {"none"}]
    BY <1>1 DEF Init
  <2>2. /\ txn \in [Executions -> {"none"}] /\ pending \in [Executions -> {"none"}]
        /\ wrote \in [Executions -> BOOLEAN] /\ row \in [Keys -> {"absent"}]
        /\ effects \in [Keys -> Nat] /\ deleted \in [Keys -> Nat]
    BY <1>1 DEF Init
  <2>3. /\ active \in Nat /\ crashes \in 0 .. MaxCrashes
        /\ locked \subseteq Executions /\ cut \subseteq Executions
    BY <1>1 DEF Init
  <2>4. /\ accepting \in BOOLEAN /\ forced \in BOOLEAN /\ wake \in BOOLEAN
        /\ interrupted \in BOOLEAN /\ panicked \in BOOLEAN
    BY <1>1 DEF Init
  <2>5. drain = "serving"
    BY <1>1 DEF Init
  <2>6. QED
    BY <2>1, <2>2, <2>3, <2>4, <2>5 DEF TypeOK, Running, Body
<1>3. Leases = {}
  BY <1>1 DEF Init, Leases, Running, Body
<1>4. ActiveCountsLeases
  BY <1>1, <1>3, FS_EmptySet DEF Init, ActiveCountsLeases
<1>5. StageInv /\ InDoubtInv /\ LockInv
  BY <1>1 DEF Init, StageInv, InDoubtInv, LockInv, Body
<1>6. ExactlyOnceWhileRetained /\ ReportInv /\ QuietInv
  BY <1>1 DEF Init, ExactlyOnceWhileRetained, ReportInv, QuietInv
<1>7. QED
  BY <1>2, <1>4, <1>5, <1>6 DEF IInv

-----------------------------------------------------------------------------
(* Counting leases.                                                        *)

\* Nobody enters or leaves.
LEMMA LeasesKept ==
    ASSUME ActiveCountsLeases, active' = active, Leases' = Leases
    PROVE  ActiveCountsLeases'
BY DEF ActiveCountsLeases

\* begin counts itself in.
LEMMA LeaseEntered ==
    ASSUME ActiveCountsLeases, NEW e, e \notin Leases,
           active' = active + 1, Leases' = Leases \union {e}
    PROVE  ActiveCountsLeases'
<1>1. IsFiniteSet(Leases)
  BY FS_Subset, FiniteExecutions DEF Leases
<1>2. Cardinality(Leases \union {e}) = Cardinality(Leases) + 1
  BY <1>1, FS_AddElement
<1>3. QED
  BY <1>2 DEF ActiveCountsLeases

\* finish: there is something to subtract, and the count stays exact.
LEMMA LeaseLeft ==
    ASSUME ActiveCountsLeases, NEW e, e \in Leases,
           active' = active - 1, Leases' = Leases \ {e}
    PROVE  ActiveCountsLeases' /\ active' \in Nat
<1>1. IsFiniteSet(Leases)
  BY FS_Subset, FiniteExecutions DEF Leases
<1>2. Cardinality(Leases \ {e}) = Cardinality(Leases) - 1
  BY <1>1, FS_RemoveElement
<1>3. Cardinality(Leases \ {e}) \in Nat
  BY <1>1, FS_RemoveElement, FS_CardinalityType
<1>4. QED
  BY <1>2, <1>3 DEF ActiveCountsLeases

\* A count of zero means that nobody holds a lease.
LEMMA NoLeases == ActiveCountsLeases /\ active = 0 => Leases = {}
<1>1. IsFiniteSet(Leases)
  BY FS_Subset, FiniteExecutions DEF Leases
<1>2. QED
  BY <1>1, FS_EmptySet DEF ActiveCountsLeases

\* A count of leases is a natural number.
LEMMA CountIsNat == ASSUME ActiveCountsLeases' PROVE active' \in Nat
<1>1. IsFiniteSet(Leases')
  BY FS_Subset, FiniteExecutions DEF Leases
<1>2. QED
  BY <1>1, FS_CardinalityType DEF ActiveCountsLeases

\* Every step keeps active equal to the number of leases.
LEMMA LeaseStep == IInv /\ [Next]_vars => ActiveCountsLeases'
<1>1. SUFFICES ASSUME IInv, [Next]_vars PROVE ActiveCountsLeases'
  OBVIOUS
<1>2. TypeOK /\ ActiveCountsLeases /\ StageInv
  BY <1>1 DEF IInv
<1>3. ASSUME UNCHANGED <<active, waiter, owner>>
  PROVE  ActiveCountsLeases'
  BY <1>2, <1>3
  DEF TypeOK, ActiveCountsLeases, StageInv, Leases, Running, Body
<1>4. ASSUME NEW e \in Executions, BeginCheck(e) PROVE ActiveCountsLeases'
  BY <1>2, <1>4
  DEF TypeOK, ActiveCountsLeases, StageInv, Leases, Running, Body, BeginCheck,
      GotoWaiter, trackerVars
<1>5. ASSUME NEW e \in Executions, BeginCount(e) PROVE ActiveCountsLeases'
  <2>1. e \notin Leases /\ Leases' = Leases \union {e}
    BY <1>2, <1>5
    DEF TypeOK, StageInv, Leases, Running, Body, BeginCount, GotoWaiter
  <2>2. QED
    BY <1>2, <1>5, <2>1, LeaseEntered DEF BeginCount
<1>6. ASSUME NEW e \in Executions, BeginRecheck(e) PROVE ActiveCountsLeases'
  <2>1. CASE accepting
    <3>1. Leases' = Leases /\ active' = active
      BY <1>2, <1>6, <2>1 DEF TypeOK, Leases, BeginRecheck, GotoWaiter
    <3>2. QED
      BY <1>2, <3>1, LeasesKept
  <2>2. CASE ~accepting
    <3>1. e \in Leases /\ Leases' = Leases \ {e}
      BY <1>2, <1>6, <2>2
      DEF TypeOK, StageInv, Leases, Running, Body, BeginRecheck, GotoWaiter
    <3>2. active' = active - 1
      BY <1>6, <2>2 DEF BeginRecheck, Finish
    <3>3. QED
      BY <1>2, <3>1, <3>2, LeaseLeft
  <2>3. QED
    BY <2>1, <2>2
<1>7. ASSUME NEW e \in Executions, Spawn(e) PROVE ActiveCountsLeases'
  BY <1>2, <1>7
  DEF TypeOK, ActiveCountsLeases, StageInv, Leases, Running, Body, Spawn,
      GotoWaiter, GotoOwner, trackerVars
<1>8. ASSUME NEW e \in Executions, WaiterReturns(e) PROVE ActiveCountsLeases'
  BY <1>2, <1>8
  DEF TypeOK, ActiveCountsLeases, StageInv, Leases, Running, Body,
      WaiterReturns, ExecutionResult, GotoWaiter, trackerVars
<1>9. ASSUME NEW e \in Executions, WaiterDropped(e) PROVE ActiveCountsLeases'
  BY <1>2, <1>9
  DEF TypeOK, ActiveCountsLeases, StageInv, Leases, Running, Body,
      WaiterDropped, GotoWaiter, trackerVars
<1>10. ASSUME NEW e \in Executions, Connect(e) PROVE ActiveCountsLeases'
  BY <1>2, <1>10
  DEF TypeOK, ActiveCountsLeases, StageInv, Leases, Running, Body, Connect,
      GotoOwner, trackerVars
<1>11. ASSUME NEW e \in Executions, ConnectFailed(e) PROVE ActiveCountsLeases'
  BY <1>2, <1>11
  DEF TypeOK, ActiveCountsLeases, StageInv, Leases, Running, Body,
      ConnectFailed, GotoOwner, Send, trackerVars
<1>12. ASSUME NEW e \in Executions, TryLock(e) PROVE ActiveCountsLeases'
  <2>1. owner' = [owner EXCEPT ![e] = owner'[e]] /\ owner'[e] \in Running
    BY <1>2, <1>12 DEF TypeOK, TryLock, GotoOwner, Running, Body
  <2>2. owner[e] \in Running /\ UNCHANGED <<active, waiter>>
    BY <1>12 DEF TryLock, Running, Body, trackerVars
  <2>3. Leases' = Leases
    BY <1>2, <2>1, <2>2 DEF TypeOK, Leases
  <2>4. QED
    BY <1>2, <2>2, <2>3, LeasesKept
<1>13. ASSUME NEW e \in Executions, ClaimInbox(e) PROVE ActiveCountsLeases'
  <2>1. owner' = [owner EXCEPT ![e] = owner'[e]] /\ owner'[e] \in Running
    BY <1>2, <1>13 DEF TypeOK, ClaimInbox, GotoOwner, Running, Body
  <2>2. owner[e] \in Running /\ UNCHANGED <<active, waiter>>
    BY <1>13 DEF ClaimInbox, Running, Body, trackerVars
  <2>3. Leases' = Leases
    BY <1>2, <2>1, <2>2 DEF TypeOK, Leases
  <2>4. QED
    BY <1>2, <2>2, <2>3, LeasesKept
<1>14. ASSUME NEW e \in Executions, Operate(e) PROVE ActiveCountsLeases'
  BY <1>2, <1>14
  DEF TypeOK, ActiveCountsLeases, StageInv, Leases, Running, Body, Operate,
      GotoOwner, trackerVars
<1>15. ASSUME NEW e \in Executions, CompleteInbox(e) PROVE ActiveCountsLeases'
  BY <1>2, <1>15
  DEF TypeOK, ActiveCountsLeases, StageInv, Leases, Running, Body,
      CompleteInbox, GotoOwner, trackerVars
<1>16. ASSUME NEW e \in Executions, BodyFailed(e) PROVE ActiveCountsLeases'
  BY <1>2, <1>16
  DEF TypeOK, ActiveCountsLeases, StageInv, Leases, Running, Body, BodyFailed,
      GotoOwner, trackerVars
<1>17. ASSUME NEW e \in Executions, Rollback(e) PROVE ActiveCountsLeases'
  BY <1>2, <1>17
  DEF TypeOK, ActiveCountsLeases, StageInv, Leases, Running, Body, Rollback,
      GotoOwner, Send, Forgets, trackerVars
<1>18. ASSUME NEW e \in Executions, Commit(e) PROVE ActiveCountsLeases'
  BY <1>2, <1>18
  DEF TypeOK, ActiveCountsLeases, StageInv, Leases, Running, Body, Commit,
      GotoOwner, Send, Forgets, Applies, Executed, trackerVars
<1>19. ASSUME NEW e \in Executions, CommitLost(e) PROVE ActiveCountsLeases'
  BY <1>2, <1>19
  DEF TypeOK, ActiveCountsLeases, StageInv, Leases, Running, Body, CommitLost,
      GotoOwner, Send, trackerVars
<1>20. ASSUME NEW e \in Executions, Interrupt(e) PROVE ActiveCountsLeases'
  BY <1>2, <1>20
  DEF TypeOK, ActiveCountsLeases, StageInv, Leases, Running, Body, Interrupt,
      GotoOwner, Send, Dropped, trackerVars
<1>21. ASSUME NEW e \in Executions, Panic(e) PROVE ActiveCountsLeases'
  BY <1>2, <1>21
  DEF TypeOK, ActiveCountsLeases, StageInv, Leases, Running, Body, Panic,
      GotoOwner, Dropped, trackerVars
<1>22. ASSUME NEW e \in Executions, DropLease(e) PROVE ActiveCountsLeases'
  <2>1. e \in Leases /\ Leases' = Leases \ {e}
    BY <1>2, <1>22
    DEF TypeOK, StageInv, Leases, Running, Body, DropLease, GotoOwner
  <2>2. active' = active - 1
    BY <1>22 DEF DropLease, Finish
  <2>3. QED
    BY <1>2, <2>1, <2>2, LeaseLeft
<1>23. ASSUME NEW e \in Executions, Terminate(e) PROVE ActiveCountsLeases'
  BY <1>2, <1>23
  DEF TypeOK, ActiveCountsLeases, StageInv, Leases, Running, Body, Terminate,
      GotoOwner, trackerVars
<1>24. ASSUME Crash PROVE ActiveCountsLeases'
  <2>1. Leases' = {}
    BY <1>24 DEF Leases, Crash, Running, Body
  <2>2. QED
    BY <1>24, <2>1, FS_EmptySet DEF ActiveCountsLeases, Crash
<1>25. ASSUME NEW e \in Executions,
           ServerAborts(e) \/ ServerCommits(e)
  PROVE  ActiveCountsLeases'
  BY <1>25, <1>3 DEF ServerAborts, ServerCommits, trackerVars, execVars
<1>26. ASSUME (\E k \in Keys : Cleanup(k)) \/ StopAdmission \/ RequestForce \/ DrainStep \/ DrainTimeout \/ ForceDrain
  PROVE  ActiveCountsLeases'
  BY <1>26, <1>3
  DEF Cleanup, StopAdmission, RequestForce, DrainStep, DrainTimeout,
      ForceDrain, trackerVars, execVars
<1>27. ASSUME UNCHANGED vars PROVE ActiveCountsLeases'
  BY <1>27, <1>3 DEF vars
<1>28. QED
  BY <1>1, <1>4, <1>5, <1>6, <1>7, <1>8, <1>9, <1>10, <1>11, <1>12, <1>13,
     <1>14, <1>15, <1>16, <1>17, <1>18, <1>19, <1>20, <1>21, <1>22, <1>23,
     <1>24, <1>25, <1>26, <1>27
  DEF Next, Serve, Execute, Own, Server, Shutdown

\* Every step keeps the types; the count of a finish cannot go below zero.
LEMMA TypeStep == IInv /\ [Next]_vars => TypeOK'
<1>1. SUFFICES ASSUME IInv, [Next]_vars PROVE TypeOK'
  OBVIOUS
<1>2. TypeOK
  BY <1>1 DEF IInv
<1>3. ASSUME NEW e \in Executions, BeginCheck(e) PROVE TypeOK'
  BY <1>2, <1>3
  DEF TypeOK, Running, Body, BeginCheck, GotoWaiter, trackerVars, drainVars,
      txnVars, tableVars
<1>4. ASSUME NEW e \in Executions, BeginCount(e) PROVE TypeOK'
  BY <1>2, <1>4
  DEF TypeOK, Running, Body, BeginCount, GotoWaiter, drainVars, txnVars,
      tableVars
<1>5. ASSUME NEW e \in Executions, BeginRecheck(e) PROVE TypeOK'
  <2>1. active' \in Nat
    BY <1>1, LeaseStep, CountIsNat
  <2>2. QED
    BY <1>2, <1>5, <2>1
    DEF TypeOK, Running, Body, BeginRecheck, GotoWaiter, Finish, NotifyWaiters,
        txnVars, tableVars
<1>6. ASSUME NEW e \in Executions, Spawn(e) PROVE TypeOK'
  BY <1>2, <1>6
  DEF TypeOK, Running, Body, Spawn, GotoWaiter, GotoOwner, trackerVars,
      drainVars, txnVars, tableVars
<1>7. ASSUME NEW e \in Executions, WaiterReturns(e) PROVE TypeOK'
  BY <1>2, <1>7
  DEF TypeOK, Running, Body, WaiterReturns, ExecutionResult, GotoWaiter, trackerVars,
      drainVars, txnVars, tableVars
<1>8. ASSUME NEW e \in Executions, WaiterDropped(e) PROVE TypeOK'
  BY <1>2, <1>8
  DEF TypeOK, Running, Body, WaiterDropped, GotoWaiter, trackerVars,
      drainVars, txnVars, tableVars
<1>9. ASSUME NEW e \in Executions, Connect(e) PROVE TypeOK'
  BY <1>2, <1>9
  DEF TypeOK, Running, Body, Connect, GotoOwner, trackerVars, drainVars,
      tableVars
<1>10. ASSUME NEW e \in Executions, ConnectFailed(e) PROVE TypeOK'
  BY <1>2, <1>10
  DEF TypeOK, Running, Body, ConnectFailed, GotoOwner, Send, trackerVars,
      drainVars, txnVars, tableVars
<1>11. ASSUME NEW e \in Executions, TryLock(e) PROVE TypeOK'
  BY <1>2, <1>11
  DEF TypeOK, Running, Body, TryLock, GotoOwner, Free, trackerVars, drainVars,
      tableVars
<1>12. ASSUME NEW e \in Executions, ClaimInbox(e) PROVE TypeOK'
  BY <1>2, <1>12
  DEF TypeOK, Running, Body, ClaimInbox, GotoOwner, Claimable, trackerVars,
      drainVars, tableVars
<1>13. ASSUME NEW e \in Executions, Operate(e) PROVE TypeOK'
  BY <1>2, <1>13
  DEF TypeOK, Running, Body, Operate, GotoOwner, trackerVars, drainVars,
      tableVars
<1>14. ASSUME NEW e \in Executions, CompleteInbox(e) PROVE TypeOK'
  BY <1>2, <1>14
  DEF TypeOK, Running, Body, CompleteInbox, GotoOwner, trackerVars, drainVars,
      tableVars
<1>15. ASSUME NEW e \in Executions, BodyFailed(e) PROVE TypeOK'
  BY <1>2, <1>15
  DEF TypeOK, Running, Body, BodyFailed, GotoOwner, trackerVars, drainVars,
      txnVars, tableVars
<1>16. ASSUME NEW e \in Executions, Rollback(e) PROVE TypeOK'
  <2>1. /\ txn' \in [Executions -> {"none", "open", "orphan", "inDoubt"}]
        /\ locked' \subseteq Executions
    BY <1>2, <1>16 DEF TypeOK, Rollback, Forgets
  <2>2. /\ pending' \in [Executions -> {"none", "processing", "completed"}]
        /\ wrote' \in [Executions -> BOOLEAN]
    BY <1>2, <1>16 DEF TypeOK, Rollback, Forgets
  <2>3. /\ owner' = [owner EXCEPT ![e] = "sent"]
        /\ result' = [result EXCEPT ![e] = "error"]
        /\ UNCHANGED <<trackerVars, drainVars, waiter, key, claim, tableVars,
                       crashes>>
    BY <1>16 DEF Rollback, GotoOwner, Send
  <2>. QED
    BY <1>2, <2>1, <2>2, <2>3
    DEF TypeOK, Running, Body, trackerVars, drainVars, tableVars
<1>17. ASSUME NEW e \in Executions, Commit(e) PROVE TypeOK'
  BY <1>2, <1>17
  DEF TypeOK, Running, Body, Commit, GotoOwner, Send, Forgets, Applies,
      Executed, trackerVars, drainVars
<1>18. ASSUME NEW e \in Executions, CommitLost(e) PROVE TypeOK'
  BY <1>2, <1>18
  DEF TypeOK, Running, Body, CommitLost, GotoOwner, Send, trackerVars,
      drainVars, tableVars
<1>19. ASSUME NEW e \in Executions, Interrupt(e) PROVE TypeOK'
  BY <1>2, <1>19
  DEF TypeOK, Running, Body, Interrupt, GotoOwner, Send, Dropped, trackerVars,
      tableVars
<1>20. ASSUME NEW e \in Executions, Panic(e) PROVE TypeOK'
  BY <1>2, <1>20
  DEF TypeOK, Running, Body, Panic, GotoOwner, Dropped, trackerVars, tableVars
<1>21. ASSUME NEW e \in Executions, DropLease(e) PROVE TypeOK'
  <2>1. active' \in Nat
    BY <1>1, LeaseStep, CountIsNat
  <2>2. QED
    BY <1>2, <1>21, <2>1
    DEF TypeOK, Running, Body, DropLease, GotoOwner, Finish, NotifyWaiters,
        txnVars, tableVars
<1>22. ASSUME NEW e \in Executions, Terminate(e) PROVE TypeOK'
  BY <1>2, <1>22
  DEF TypeOK, Running, Body, Terminate, GotoOwner, trackerVars, txnVars,
      tableVars
<1>23. ASSUME NEW e \in Executions, ServerAborts(e) PROVE TypeOK'
  BY <1>2, <1>23
  DEF TypeOK, Running, Body, ServerAborts, Forgets, trackerVars, drainVars,
      execVars, tableVars
<1>24. ASSUME NEW e \in Executions, ServerCommits(e) PROVE TypeOK'
  BY <1>2, <1>24
  DEF TypeOK, Running, Body, ServerCommits, Forgets, Applies, trackerVars,
      drainVars, execVars
<1>25. ASSUME NEW k \in Keys, Cleanup(k) PROVE TypeOK'
  BY <1>2, <1>25
  DEF TypeOK, Running, Body, Cleanup, trackerVars, drainVars, execVars,
      txnVars
<1>26. ASSUME StopAdmission PROVE TypeOK'
  BY <1>2, <1>26
  DEF TypeOK, Running, Body, StopAdmission, NotifyWaiters, execVars, txnVars,
      tableVars
<1>27. ASSUME RequestForce PROVE TypeOK'
  BY <1>2, <1>27
  DEF TypeOK, Running, Body, RequestForce, NotifyWaiters, execVars, txnVars,
      tableVars
<1>28. ASSUME DrainStep PROVE TypeOK'
  BY <1>2, <1>28
  DEF TypeOK, Running, Body, DrainStep, DrainVerdict, Reconciled, trackerVars,
      execVars, txnVars, tableVars
<1>29. ASSUME DrainTimeout PROVE TypeOK'
  BY <1>2, <1>29
  DEF TypeOK, Running, Body, DrainTimeout, trackerVars, execVars, txnVars,
      tableVars
<1>30. ASSUME ForceDrain PROVE TypeOK'
  BY <1>2, <1>30
  DEF TypeOK, Running, Body, ForceDrain, trackerVars, execVars, txnVars,
      tableVars
<1>31. ASSUME Crash PROVE TypeOK'
  <2>1. /\ waiter' \in [Executions -> {"idle", "checked", "counted", "admitted",
                         "waiting", "rejected", "ok", "retry", "gone"}]
        /\ owner' \in [Executions -> {"none", "terminal"}]
    BY <1>2, <1>31 DEF TypeOK, Crash
  <2>2. txn' \in [Executions -> {"none", "open", "orphan", "inDoubt"}]
    BY <1>2, <1>31 DEF TypeOK, Crash
  <2>3. crashes' \in 0 .. MaxCrashes
    BY <1>2, <1>31 DEF TypeOK, Crash
  <2>4. QED
    BY <1>2, <1>31, <2>1, <2>2, <2>3 DEF TypeOK, Crash, tableVars
<1>32. ASSUME UNCHANGED vars PROVE TypeOK'
  BY <1>32, <1>2 DEF TypeOK, Running, Body, vars
<1>33. QED
  BY <1>1, <1>3, <1>4, <1>5, <1>6, <1>7, <1>8, <1>9, <1>10, <1>11, <1>12,
     <1>13, <1>14, <1>15, <1>16, <1>17, <1>18, <1>19, <1>20, <1>21, <1>22,
     <1>23, <1>24, <1>25, <1>26, <1>27, <1>28, <1>29, <1>30, <1>31, <1>32
  DEF Next, Serve, Execute, Own, Server, Shutdown

\* Every step leaves what a transaction holds to its owner's stage.
LEMMA StageStep == IInv /\ [Next]_vars => StageInv'
<1>1. SUFFICES ASSUME IInv, [Next]_vars PROVE StageInv'
  OBVIOUS
<1>2. TypeOK /\ StageInv
  BY <1>1 DEF IInv
<1>3. ASSUME UNCHANGED <<waiter, owner, claim, txn, locked, pending, wrote>>
  PROVE  StageInv'
  BY <1>2, <1>3 DEF TypeOK, StageInv, Running, Body
<1>4. ASSUME NEW e \in Executions, BeginCheck(e) PROVE StageInv'
  BY <1>2, <1>4
  DEF TypeOK, StageInv, Running, Body, BeginCheck, GotoWaiter, txnVars
<1>5. ASSUME NEW e \in Executions, BeginCount(e) PROVE StageInv'
  BY <1>2, <1>5
  DEF TypeOK, StageInv, Running, Body, BeginCount, GotoWaiter, txnVars
<1>6. ASSUME NEW e \in Executions, BeginRecheck(e) PROVE StageInv'
  BY <1>2, <1>6
  DEF TypeOK, StageInv, Running, Body, BeginRecheck, GotoWaiter, Finish,
      NotifyWaiters, txnVars
<1>7. ASSUME NEW e \in Executions, Spawn(e) PROVE StageInv'
  BY <1>2, <1>7
  DEF TypeOK, StageInv, Running, Body, Spawn, GotoWaiter, GotoOwner, txnVars
<1>8. ASSUME NEW e \in Executions, WaiterReturns(e) PROVE StageInv'
  BY <1>2, <1>8
  DEF TypeOK, StageInv, Running, Body, WaiterReturns, ExecutionResult, GotoWaiter, txnVars
<1>9. ASSUME NEW e \in Executions, WaiterDropped(e) PROVE StageInv'
  BY <1>2, <1>9
  DEF TypeOK, StageInv, Running, Body, WaiterDropped, GotoWaiter, txnVars
<1>10. ASSUME NEW e \in Executions, Connect(e) PROVE StageInv'
  BY <1>2, <1>10 DEF TypeOK, StageInv, Running, Body, Connect, GotoOwner
<1>11. ASSUME NEW e \in Executions, ConnectFailed(e) PROVE StageInv'
  BY <1>2, <1>11
  DEF TypeOK, StageInv, Running, Body, ConnectFailed, GotoOwner, Send, txnVars
<1>12. ASSUME NEW e \in Executions, TryLock(e) PROVE StageInv'
  BY <1>2, <1>12 DEF TypeOK, StageInv, Running, Body, TryLock, GotoOwner, Free
<1>13. ASSUME NEW e \in Executions, ClaimInbox(e) PROVE StageInv'
  BY <1>2, <1>13
  DEF TypeOK, StageInv, Running, Body, ClaimInbox, GotoOwner, Claimable
<1>14. ASSUME NEW e \in Executions, Operate(e) PROVE StageInv'
  BY <1>2, <1>14 DEF TypeOK, StageInv, Running, Body, Operate, GotoOwner
<1>15. ASSUME NEW e \in Executions, CompleteInbox(e) PROVE StageInv'
  BY <1>2, <1>15 DEF TypeOK, StageInv, Running, Body, CompleteInbox, GotoOwner
<1>16. ASSUME NEW e \in Executions, BodyFailed(e) PROVE StageInv'
  BY <1>2, <1>16
  DEF TypeOK, StageInv, Running, Body, BodyFailed, GotoOwner, txnVars
<1>17. ASSUME NEW e \in Executions, Rollback(e) PROVE StageInv'
  BY <1>2, <1>17
  DEF TypeOK, StageInv, Running, Body, Rollback, GotoOwner, Send, Forgets
<1>18. ASSUME NEW e \in Executions, Commit(e) PROVE StageInv'
  BY <1>2, <1>18
  DEF TypeOK, StageInv, Running, Body, Commit, GotoOwner, Send, Forgets,
      Applies, Executed
<1>19. ASSUME NEW e \in Executions, CommitLost(e) PROVE StageInv'
  BY <1>2, <1>19
  DEF TypeOK, StageInv, Running, Body, CommitLost, GotoOwner, Send
<1>20. ASSUME NEW e \in Executions, Interrupt(e) PROVE StageInv'
  BY <1>2, <1>20
  DEF TypeOK, StageInv, Running, Body, Interrupt, GotoOwner, Send, Dropped
<1>21. ASSUME NEW e \in Executions, Panic(e) PROVE StageInv'
  BY <1>2, <1>21
  DEF TypeOK, StageInv, Running, Body, Panic, GotoOwner, Dropped
<1>22. ASSUME NEW e \in Executions, DropLease(e) PROVE StageInv'
  BY <1>2, <1>22
  DEF TypeOK, StageInv, Running, Body, DropLease, GotoOwner, Finish,
      NotifyWaiters, txnVars
<1>23. ASSUME NEW e \in Executions, Terminate(e) PROVE StageInv'
  BY <1>2, <1>23
  DEF TypeOK, StageInv, Running, Body, Terminate, GotoOwner, txnVars
<1>24. ASSUME NEW e \in Executions, ServerAborts(e) PROVE StageInv'
  BY <1>2, <1>24
  DEF TypeOK, StageInv, Running, Body, ServerAborts, Forgets, execVars
<1>25. ASSUME NEW e \in Executions, ServerCommits(e) PROVE StageInv'
  BY <1>2, <1>25
  DEF TypeOK, StageInv, Running, Body, ServerCommits, Forgets, Applies,
      execVars
<1>26. ASSUME Crash PROVE StageInv'
  BY <1>2, <1>26 DEF TypeOK, StageInv, Running, Body, Crash
<1>27. ASSUME (\E k \in Keys : Cleanup(k)) \/ StopAdmission \/ RequestForce \/ DrainStep \/ DrainTimeout \/ ForceDrain
  PROVE  StageInv'
  BY <1>27, <1>3
  DEF Cleanup, StopAdmission, RequestForce, DrainStep, DrainTimeout,
      ForceDrain, execVars, txnVars
<1>28. ASSUME UNCHANGED vars PROVE StageInv'
  BY <1>28, <1>3 DEF vars
<1>29. QED
  BY <1>1, <1>4, <1>5, <1>6, <1>7, <1>8, <1>9, <1>10, <1>11, <1>12, <1>13,
     <1>14, <1>15, <1>16, <1>17, <1>18, <1>19, <1>20, <1>21, <1>22, <1>23,
     <1>24, <1>25, <1>26, <1>27, <1>28
  DEF Next, Serve, Execute, Own, Server, Shutdown

\* A transaction is abandoned in doubt only when it is whole.
LEMMA InDoubtStep == IInv /\ [Next]_vars => InDoubtInv'
<1>1. SUFFICES ASSUME IInv, [Next]_vars PROVE InDoubtInv'
  OBVIOUS
<1>2. TypeOK /\ StageInv /\ InDoubtInv
  BY <1>1 DEF IInv
<1>3. ASSUME UNCHANGED <<txn, pending, wrote>>
  PROVE  InDoubtInv'
  BY <1>2, <1>3 DEF TypeOK, StageInv, InDoubtInv, Running, Body
<1>4. ASSUME NEW e \in Executions, Connect(e) PROVE InDoubtInv'
  BY <1>2, <1>4
  DEF TypeOK, StageInv, InDoubtInv, Running, Body, Connect, GotoOwner
<1>5. ASSUME NEW e \in Executions, ClaimInbox(e) PROVE InDoubtInv'
  BY <1>2, <1>5
  DEF TypeOK, StageInv, InDoubtInv, Running, Body, ClaimInbox, GotoOwner,
      Claimable
<1>6. ASSUME NEW e \in Executions, Operate(e) PROVE InDoubtInv'
  BY <1>2, <1>6
  DEF TypeOK, StageInv, InDoubtInv, Running, Body, Operate, GotoOwner
<1>7. ASSUME NEW e \in Executions, CompleteInbox(e) PROVE InDoubtInv'
  BY <1>2, <1>7
  DEF TypeOK, StageInv, InDoubtInv, Running, Body, CompleteInbox, GotoOwner
<1>8. ASSUME NEW e \in Executions, Rollback(e) PROVE InDoubtInv'
  BY <1>2, <1>8
  DEF TypeOK, StageInv, InDoubtInv, Running, Body, Rollback, GotoOwner, Send,
      Forgets
<1>9. ASSUME NEW e \in Executions, Commit(e) PROVE InDoubtInv'
  BY <1>2, <1>9
  DEF TypeOK, StageInv, InDoubtInv, Running, Body, Commit, GotoOwner, Send,
      Forgets, Applies, Executed
<1>10. ASSUME NEW e \in Executions, CommitLost(e) PROVE InDoubtInv'
  BY <1>2, <1>10
  DEF TypeOK, StageInv, InDoubtInv, Running, Body, CommitLost, GotoOwner, Send
<1>11. ASSUME NEW e \in Executions, Interrupt(e) PROVE InDoubtInv'
  BY <1>2, <1>11
  DEF TypeOK, StageInv, InDoubtInv, Running, Body, Interrupt, GotoOwner, Send,
      Dropped
<1>12. ASSUME NEW e \in Executions, Panic(e) PROVE InDoubtInv'
  BY <1>2, <1>12
  DEF TypeOK, StageInv, InDoubtInv, Running, Body, Panic, GotoOwner, Dropped
<1>13. ASSUME NEW e \in Executions, ServerAborts(e) PROVE InDoubtInv'
  BY <1>2, <1>13
  DEF TypeOK, StageInv, InDoubtInv, Running, Body, ServerAborts, Forgets
<1>14. ASSUME NEW e \in Executions, ServerCommits(e) PROVE InDoubtInv'
  BY <1>2, <1>14
  DEF TypeOK, StageInv, InDoubtInv, Running, Body, ServerCommits, Forgets,
      Applies
<1>15. ASSUME Crash PROVE InDoubtInv'
  BY <1>2, <1>15 DEF TypeOK, StageInv, InDoubtInv, Running, Body, Crash
<1>16. ASSUME NEW e \in Executions,
           BeginCheck(e) \/ BeginCount(e) \/ BeginRecheck(e) \/ Spawn(e) \/
           WaiterReturns(e) \/ WaiterDropped(e) \/ ConnectFailed(e) \/ TryLock(e) \/
           BodyFailed(e) \/ DropLease(e) \/ Terminate(e)
  PROVE  InDoubtInv'
  BY <1>16, <1>3
  DEF BeginCheck, BeginCount, BeginRecheck, Spawn, WaiterReturns, ExecutionResult,
      WaiterDropped, ConnectFailed, TryLock, BodyFailed, DropLease, Terminate,
      txnVars
<1>17. ASSUME (\E k \in Keys : Cleanup(k)) \/ StopAdmission \/ RequestForce \/ DrainStep \/ DrainTimeout \/ ForceDrain
  PROVE  InDoubtInv'
  BY <1>17, <1>3
  DEF Cleanup, StopAdmission, RequestForce, DrainStep, DrainTimeout,
      ForceDrain, txnVars
<1>18. ASSUME UNCHANGED vars PROVE InDoubtInv'
  BY <1>18, <1>3 DEF vars
<1>19. QED
  BY <1>1, <1>4, <1>5, <1>6, <1>7, <1>8, <1>9, <1>10, <1>11, <1>12, <1>13,
     <1>14, <1>15, <1>16, <1>17, <1>18
  DEF Next, Serve, Execute, Own, Server, Shutdown

\* Locks stay exclusive, and rows are written under them.
LEMMA LockStep == IInv /\ [Next]_vars => LockInv'
<1>1. SUFFICES ASSUME IInv, [Next]_vars PROVE LockInv'
  OBVIOUS
<1>2. TypeOK /\ StageInv /\ LockInv /\ ExactlyOnceWhileRetained
  BY <1>1 DEF IInv
<1>3. ASSUME UNCHANGED <<key, txn, locked, pending, wrote, row>>
  PROVE  LockInv'
  BY <1>2, <1>3
  DEF TypeOK, StageInv, LockInv, ExactlyOnceWhileRetained, Running, Body
<1>4. ASSUME NEW e \in Executions, Connect(e) PROVE LockInv'
  BY <1>2, <1>4
  DEF TypeOK, StageInv, LockInv, ExactlyOnceWhileRetained, Running, Body,
      Connect, GotoOwner, tableVars
<1>5. ASSUME NEW e \in Executions, TryLock(e) PROVE LockInv'
  BY <1>2, <1>5
  DEF TypeOK, StageInv, LockInv, ExactlyOnceWhileRetained, Running, Body,
      TryLock, GotoOwner, Free, tableVars
<1>6. ASSUME NEW e \in Executions, ClaimInbox(e) PROVE LockInv'
  BY <1>2, <1>6
  DEF TypeOK, StageInv, LockInv, ExactlyOnceWhileRetained, Running, Body,
      ClaimInbox, GotoOwner, Claimable, tableVars
<1>7. ASSUME NEW e \in Executions, Operate(e) PROVE LockInv'
  BY <1>2, <1>7
  DEF TypeOK, StageInv, LockInv, ExactlyOnceWhileRetained, Running, Body,
      Operate, GotoOwner, tableVars
<1>8. ASSUME NEW e \in Executions, CompleteInbox(e) PROVE LockInv'
  BY <1>2, <1>8
  DEF TypeOK, StageInv, LockInv, ExactlyOnceWhileRetained, Running, Body,
      CompleteInbox, GotoOwner, tableVars
<1>9. ASSUME NEW e \in Executions, Rollback(e) PROVE LockInv'
  BY <1>2, <1>9
  DEF TypeOK, StageInv, LockInv, ExactlyOnceWhileRetained, Running, Body,
      Rollback, GotoOwner, Send, Forgets, tableVars
<1>10. ASSUME NEW e \in Executions, Commit(e) PROVE LockInv'
  BY <1>2, <1>10
  DEF TypeOK, StageInv, LockInv, ExactlyOnceWhileRetained, Running, Body,
      Commit, GotoOwner, Send, Forgets, Applies, Executed
<1>11. ASSUME NEW e \in Executions, CommitLost(e) PROVE LockInv'
  BY <1>2, <1>11
  DEF TypeOK, StageInv, LockInv, ExactlyOnceWhileRetained, Running, Body,
      CommitLost, GotoOwner, Send, tableVars
<1>12. ASSUME NEW e \in Executions, Interrupt(e) PROVE LockInv'
  BY <1>2, <1>12
  DEF TypeOK, StageInv, LockInv, ExactlyOnceWhileRetained, Running, Body,
      Interrupt, GotoOwner, Send, Dropped, tableVars
<1>13. ASSUME NEW e \in Executions, Panic(e) PROVE LockInv'
  BY <1>2, <1>13
  DEF TypeOK, StageInv, LockInv, ExactlyOnceWhileRetained, Running, Body,
      Panic, GotoOwner, Dropped, tableVars
<1>14. ASSUME NEW e \in Executions, ServerAborts(e) PROVE LockInv'
  BY <1>2, <1>14
  DEF TypeOK, StageInv, LockInv, ExactlyOnceWhileRetained, Running, Body,
      ServerAborts, Forgets, execVars, tableVars
<1>15. ASSUME NEW e \in Executions, ServerCommits(e) PROVE LockInv'
  BY <1>2, <1>15
  DEF TypeOK, StageInv, LockInv, ExactlyOnceWhileRetained, Running, Body,
      ServerCommits, Forgets, Applies, execVars
<1>16. ASSUME NEW k \in Keys, Cleanup(k) PROVE LockInv'
  BY <1>2, <1>16
  DEF TypeOK, StageInv, LockInv, ExactlyOnceWhileRetained, Running, Body,
      Cleanup, execVars, txnVars
<1>17. ASSUME Crash PROVE LockInv'
  BY <1>2, <1>17
  DEF TypeOK, StageInv, LockInv, ExactlyOnceWhileRetained, Running, Body,
      Crash, tableVars
<1>18. ASSUME NEW e \in Executions,
           BeginCheck(e) \/ BeginCount(e) \/ BeginRecheck(e) \/ Spawn(e) \/
           WaiterReturns(e) \/ WaiterDropped(e) \/ ConnectFailed(e) \/
           BodyFailed(e) \/ DropLease(e) \/ Terminate(e)
  PROVE  LockInv'
  BY <1>18, <1>3
  DEF BeginCheck, BeginCount, BeginRecheck, Spawn, WaiterReturns, ExecutionResult,
      WaiterDropped, ConnectFailed, BodyFailed, DropLease, Terminate, txnVars,
      tableVars
<1>19. ASSUME StopAdmission \/ RequestForce \/ DrainStep \/ DrainTimeout \/ ForceDrain
  PROVE  LockInv'
  BY <1>19, <1>3
  DEF StopAdmission, RequestForce, DrainStep, DrainTimeout, ForceDrain,
      execVars, txnVars, tableVars
<1>20. ASSUME UNCHANGED vars PROVE LockInv'
  BY <1>20, <1>3 DEF vars
<1>21. QED
  BY <1>1, <1>4, <1>5, <1>6, <1>7, <1>8, <1>9, <1>10, <1>11, <1>12, <1>13,
     <1>14, <1>15, <1>16, <1>17, <1>18, <1>19, <1>20
  DEF Next, Serve, Execute, Own, Server, Shutdown

\* A commit adds a row and its effects together; cleanup removes a row.
LEMMA OnceStep == IInv /\ [Next]_vars => ExactlyOnceWhileRetained'
<1>1. SUFFICES ASSUME IInv, [Next]_vars PROVE ExactlyOnceWhileRetained'
  OBVIOUS
<1>2. TypeOK /\ StageInv /\ InDoubtInv /\ LockInv /\ ExactlyOnceWhileRetained
  BY <1>1 DEF IInv
<1>3. ASSUME UNCHANGED <<row, effects, deleted>>
  PROVE  ExactlyOnceWhileRetained'
  BY <1>2, <1>3
  DEF TypeOK, StageInv, InDoubtInv, LockInv, ExactlyOnceWhileRetained
<1>4. ASSUME NEW e \in Executions, Commit(e) PROVE ExactlyOnceWhileRetained'
  BY <1>2, <1>4
  DEF TypeOK, StageInv, InDoubtInv, LockInv, ExactlyOnceWhileRetained, Commit,
      GotoOwner, Send, Forgets, Applies, Executed
<1>5. ASSUME NEW e \in Executions, ServerCommits(e) PROVE ExactlyOnceWhileRetained'
  BY <1>2, <1>5
  DEF TypeOK, StageInv, InDoubtInv, LockInv, ExactlyOnceWhileRetained,
      ServerCommits, Forgets, Applies
<1>6. ASSUME NEW k \in Keys, Cleanup(k) PROVE ExactlyOnceWhileRetained'
  BY <1>2, <1>6
  DEF TypeOK, StageInv, InDoubtInv, LockInv, ExactlyOnceWhileRetained, Cleanup
<1>7. ASSUME NEW e \in Executions,
           BeginCheck(e) \/ BeginCount(e) \/ BeginRecheck(e) \/ Spawn(e) \/
           WaiterReturns(e) \/ WaiterDropped(e) \/ Connect(e) \/ ConnectFailed(e) \/
           TryLock(e) \/ ClaimInbox(e) \/ Operate(e) \/ CompleteInbox(e) \/
           BodyFailed(e) \/ Rollback(e) \/ CommitLost(e) \/ Interrupt(e) \/ Panic(e) \/
           DropLease(e) \/ Terminate(e) \/ ServerAborts(e)
  PROVE  ExactlyOnceWhileRetained'
  BY <1>7, <1>3
  DEF BeginCheck, BeginCount, BeginRecheck, Spawn, WaiterReturns, ExecutionResult,
      WaiterDropped, Connect, ConnectFailed, TryLock, ClaimInbox, Operate,
      CompleteInbox, BodyFailed, Rollback, CommitLost, Interrupt, Panic,
      DropLease, Terminate, ServerAborts, tableVars
<1>8. ASSUME StopAdmission \/ RequestForce \/ DrainStep \/ DrainTimeout \/ ForceDrain \/ Crash
  PROVE  ExactlyOnceWhileRetained'
  BY <1>8, <1>3
  DEF StopAdmission, RequestForce, DrainStep, DrainTimeout, ForceDrain, Crash,
      tableVars
<1>9. ASSUME UNCHANGED vars PROVE ExactlyOnceWhileRetained'
  BY <1>9, <1>3 DEF vars
<1>10. QED
  BY <1>1, <1>4, <1>5, <1>6, <1>7, <1>8, <1>9
  DEF Next, Serve, Execute, Own, Server, Shutdown

\* Success is reported only of what has been committed.
LEMMA ReportStep == IInv /\ [Next]_vars => ReportInv'
<1>1. SUFFICES ASSUME IInv, [Next]_vars PROVE ReportInv'
  OBVIOUS
<1>2. TypeOK /\ StageInv /\ ExactlyOnceWhileRetained /\ ReportInv
  BY <1>1 DEF IInv
<1>3. ASSUME UNCHANGED <<key, claim, result, waiter, effects>>
  PROVE  ReportInv'
  BY <1>2, <1>3 DEF TypeOK, StageInv, ExactlyOnceWhileRetained, ReportInv
<1>4. ASSUME NEW e \in Executions, BeginCheck(e) PROVE ReportInv'
  BY <1>2, <1>4
  DEF TypeOK, StageInv, ExactlyOnceWhileRetained, ReportInv, BeginCheck,
      GotoWaiter, tableVars
<1>5. ASSUME NEW e \in Executions, BeginCount(e) PROVE ReportInv'
  BY <1>2, <1>5
  DEF TypeOK, StageInv, ExactlyOnceWhileRetained, ReportInv, BeginCount,
      GotoWaiter, tableVars
<1>6. ASSUME NEW e \in Executions, BeginRecheck(e) PROVE ReportInv'
  BY <1>2, <1>6
  DEF TypeOK, StageInv, ExactlyOnceWhileRetained, ReportInv, BeginRecheck,
      GotoWaiter, Finish, NotifyWaiters, tableVars
<1>7. ASSUME NEW e \in Executions, Spawn(e) PROVE ReportInv'
  BY <1>2, <1>7
  DEF TypeOK, StageInv, ExactlyOnceWhileRetained, ReportInv, Spawn,
      GotoWaiter, GotoOwner, tableVars
<1>8. ASSUME NEW e \in Executions, WaiterReturns(e) PROVE ReportInv'
  BY <1>2, <1>8
  DEF TypeOK, StageInv, ExactlyOnceWhileRetained, ReportInv, WaiterReturns, ExecutionResult,
      GotoWaiter, tableVars
<1>9. ASSUME NEW e \in Executions, WaiterDropped(e) PROVE ReportInv'
  BY <1>2, <1>9
  DEF TypeOK, StageInv, ExactlyOnceWhileRetained, ReportInv, WaiterDropped,
      GotoWaiter, tableVars
<1>10. ASSUME NEW e \in Executions, ConnectFailed(e) PROVE ReportInv'
  BY <1>2, <1>10
  DEF TypeOK, StageInv, ExactlyOnceWhileRetained, ReportInv, ConnectFailed,
      GotoOwner, Send, tableVars
<1>11. ASSUME NEW e \in Executions, TryLock(e) PROVE ReportInv'
  BY <1>2, <1>11
  DEF TypeOK, StageInv, ExactlyOnceWhileRetained, ReportInv, TryLock,
      GotoOwner, Free, tableVars
<1>12. ASSUME NEW e \in Executions, ClaimInbox(e) PROVE ReportInv'
  BY <1>2, <1>12
  DEF TypeOK, StageInv, ExactlyOnceWhileRetained, ReportInv, ClaimInbox,
      GotoOwner, Claimable, tableVars
<1>13. ASSUME NEW e \in Executions, Rollback(e) PROVE ReportInv'
  BY <1>2, <1>13
  DEF TypeOK, StageInv, ExactlyOnceWhileRetained, ReportInv, Rollback,
      GotoOwner, Send, Forgets, tableVars
<1>14. ASSUME NEW e \in Executions, Commit(e) PROVE ReportInv'
  BY <1>2, <1>14
  DEF TypeOK, StageInv, ExactlyOnceWhileRetained, ReportInv, Commit,
      GotoOwner, Send, Forgets, Applies, Executed
<1>15. ASSUME NEW e \in Executions, CommitLost(e) PROVE ReportInv'
  BY <1>2, <1>15
  DEF TypeOK, StageInv, ExactlyOnceWhileRetained, ReportInv, CommitLost,
      GotoOwner, Send, tableVars
<1>16. ASSUME NEW e \in Executions, Interrupt(e) PROVE ReportInv'
  BY <1>2, <1>16
  DEF TypeOK, StageInv, ExactlyOnceWhileRetained, ReportInv, Interrupt,
      GotoOwner, Send, Dropped, tableVars
<1>17. ASSUME NEW e \in Executions, ServerCommits(e) PROVE ReportInv'
  BY <1>2, <1>17
  DEF TypeOK, StageInv, ExactlyOnceWhileRetained, ReportInv, ServerCommits,
      Forgets, Applies, execVars
<1>18. ASSUME Crash PROVE ReportInv'
  BY <1>2, <1>18
  DEF TypeOK, StageInv, ExactlyOnceWhileRetained, ReportInv, Crash, tableVars
<1>19. ASSUME NEW e \in Executions,
           Connect(e) \/ Operate(e) \/ CompleteInbox(e) \/ BodyFailed(e) \/ Panic(e) \/
           DropLease(e) \/ Terminate(e) \/ ServerAborts(e)
  PROVE  ReportInv'
  BY <1>19, <1>3
  DEF Connect, Operate, CompleteInbox, BodyFailed, Panic, DropLease,
      Terminate, ServerAborts, execVars, tableVars
<1>20. ASSUME (\E k \in Keys : Cleanup(k)) \/ StopAdmission \/ RequestForce \/ DrainStep \/ DrainTimeout \/ ForceDrain
  PROVE  ReportInv'
  BY <1>20, <1>3
  DEF Cleanup, StopAdmission, RequestForce, DrainStep, DrainTimeout,
      ForceDrain, execVars, tableVars
<1>21. ASSUME UNCHANGED vars PROVE ReportInv'
  BY <1>21, <1>3 DEF vars
<1>22. QED
  BY <1>1, <1>4, <1>5, <1>6, <1>7, <1>8, <1>9, <1>10, <1>11, <1>12, <1>13,
     <1>14, <1>15, <1>16, <1>17, <1>18, <1>19, <1>20, <1>21
  DEF Next, Serve, Execute, Own, Server, Shutdown

\* Once the drain has found nobody, nobody enters.
LEMMA QuietStep == IInv /\ [Next]_vars => QuietInv'
<1>1. SUFFICES ASSUME IInv, [Next]_vars PROVE QuietInv'
  OBVIOUS
<1>2. TypeOK /\ ActiveCountsLeases /\ QuietInv
  BY <1>1 DEF IInv
<1>3. ASSUME UNCHANGED <<accepting, drain, interrupted, waiter, owner>>
  PROVE  QuietInv'
  BY <1>2, <1>3 DEF TypeOK, QuietInv, Running, Body
<1>4. ASSUME NEW e \in Executions, BeginCheck(e) PROVE QuietInv'
  BY <1>2, <1>4
  DEF TypeOK, QuietInv, Running, Body, BeginCheck, GotoWaiter, trackerVars,
      drainVars
<1>5. ASSUME NEW e \in Executions, BeginCount(e) PROVE QuietInv'
  BY <1>2, <1>5
  DEF TypeOK, QuietInv, Running, Body, BeginCount, GotoWaiter, drainVars
<1>6. ASSUME NEW e \in Executions, BeginRecheck(e) PROVE QuietInv'
  BY <1>2, <1>6
  DEF TypeOK, QuietInv, Running, Body, BeginRecheck, GotoWaiter, Finish,
      NotifyWaiters
<1>7. ASSUME NEW e \in Executions, Spawn(e) PROVE QuietInv'
  BY <1>2, <1>7
  DEF TypeOK, QuietInv, Running, Body, Spawn, GotoWaiter, GotoOwner,
      trackerVars, drainVars
<1>8. ASSUME NEW e \in Executions, WaiterReturns(e) PROVE QuietInv'
  BY <1>2, <1>8
  DEF TypeOK, QuietInv, Running, Body, WaiterReturns, ExecutionResult, GotoWaiter, trackerVars,
      drainVars
<1>9. ASSUME NEW e \in Executions, WaiterDropped(e) PROVE QuietInv'
  BY <1>2, <1>9
  DEF TypeOK, QuietInv, Running, Body, WaiterDropped, GotoWaiter, trackerVars,
      drainVars
<1>10. ASSUME NEW e \in Executions, Connect(e) PROVE QuietInv'
  BY <1>2, <1>10
  DEF TypeOK, QuietInv, Running, Body, Connect, GotoOwner, trackerVars,
      drainVars
<1>11. ASSUME NEW e \in Executions, ConnectFailed(e) PROVE QuietInv'
  BY <1>2, <1>11
  DEF TypeOK, QuietInv, Running, Body, ConnectFailed, GotoOwner, Send,
      trackerVars, drainVars
<1>12. ASSUME NEW e \in Executions, TryLock(e) PROVE QuietInv'
  BY <1>2, <1>12
  DEF TypeOK, QuietInv, Running, Body, TryLock, GotoOwner, Free, trackerVars,
      drainVars
<1>13. ASSUME NEW e \in Executions, ClaimInbox(e) PROVE QuietInv'
  BY <1>2, <1>13
  DEF TypeOK, QuietInv, Running, Body, ClaimInbox, GotoOwner, Claimable,
      trackerVars, drainVars
<1>14. ASSUME NEW e \in Executions, Operate(e) PROVE QuietInv'
  BY <1>2, <1>14
  DEF TypeOK, QuietInv, Running, Body, Operate, GotoOwner, trackerVars,
      drainVars
<1>15. ASSUME NEW e \in Executions, CompleteInbox(e) PROVE QuietInv'
  BY <1>2, <1>15
  DEF TypeOK, QuietInv, Running, Body, CompleteInbox, GotoOwner, trackerVars,
      drainVars
<1>16. ASSUME NEW e \in Executions, BodyFailed(e) PROVE QuietInv'
  BY <1>2, <1>16
  DEF TypeOK, QuietInv, Running, Body, BodyFailed, GotoOwner, trackerVars,
      drainVars
<1>17. ASSUME NEW e \in Executions, Rollback(e) PROVE QuietInv'
  BY <1>2, <1>17
  DEF TypeOK, QuietInv, Running, Body, Rollback, GotoOwner, Send, Forgets,
      trackerVars, drainVars
<1>18. ASSUME NEW e \in Executions, Commit(e) PROVE QuietInv'
  BY <1>2, <1>18
  DEF TypeOK, QuietInv, Running, Body, Commit, GotoOwner, Send, Forgets,
      Applies, Executed, trackerVars, drainVars
<1>19. ASSUME NEW e \in Executions, CommitLost(e) PROVE QuietInv'
  BY <1>2, <1>19
  DEF TypeOK, QuietInv, Running, Body, CommitLost, GotoOwner, Send,
      trackerVars, drainVars
<1>20. ASSUME NEW e \in Executions, Interrupt(e) PROVE QuietInv'
  BY <1>2, <1>20
  DEF TypeOK, QuietInv, Running, Body, Interrupt, GotoOwner, Send, Dropped,
      trackerVars
<1>21. ASSUME NEW e \in Executions, Panic(e) PROVE QuietInv'
  BY <1>2, <1>21
  DEF TypeOK, QuietInv, Running, Body, Panic, GotoOwner, Dropped, trackerVars
<1>22. ASSUME NEW e \in Executions, DropLease(e) PROVE QuietInv'
  BY <1>2, <1>22
  DEF TypeOK, QuietInv, Running, Body, DropLease, GotoOwner, Finish,
      NotifyWaiters
<1>23. ASSUME NEW e \in Executions, Terminate(e) PROVE QuietInv'
  BY <1>2, <1>23
  DEF TypeOK, QuietInv, Running, Body, Terminate, GotoOwner, trackerVars
<1>24. ASSUME StopAdmission PROVE QuietInv'
  BY <1>2, <1>24
  DEF TypeOK, QuietInv, Running, Body, StopAdmission, NotifyWaiters, execVars
<1>25. ASSUME RequestForce PROVE QuietInv'
  BY <1>2, <1>25
  DEF TypeOK, QuietInv, Running, Body, RequestForce, NotifyWaiters, execVars
<1>26. ASSUME DrainStep PROVE QuietInv'
  <2>1. active = 0 => Leases = {}
    BY <1>2, NoLeases
  <2>2. QED
    BY <1>2, <1>26, <2>1
    DEF TypeOK, QuietInv, Leases, Running, Body, DrainStep, DrainVerdict,
        Reconciled, trackerVars, execVars
<1>27. ASSUME DrainTimeout PROVE QuietInv'
  BY <1>2, <1>27
  DEF TypeOK, QuietInv, Running, Body, DrainTimeout, trackerVars, execVars
<1>28. ASSUME ForceDrain PROVE QuietInv'
  BY <1>2, <1>28
  DEF TypeOK, QuietInv, Running, Body, ForceDrain, trackerVars, execVars
<1>29. ASSUME Crash PROVE QuietInv'
  BY <1>2, <1>29 DEF TypeOK, QuietInv, Running, Body, Crash
<1>30. ASSUME NEW e \in Executions,
           ServerAborts(e) \/ ServerCommits(e)
  PROVE  QuietInv'
  BY <1>30, <1>3
  DEF ServerAborts, ServerCommits, trackerVars, drainVars, execVars
<1>31. ASSUME (\E k \in Keys : Cleanup(k))
  PROVE  QuietInv'
  BY <1>31, <1>3 DEF Cleanup, trackerVars, drainVars, execVars
<1>32. ASSUME UNCHANGED vars PROVE QuietInv'
  BY <1>32, <1>3 DEF vars
<1>33. QED
  BY <1>1, <1>4, <1>5, <1>6, <1>7, <1>8, <1>9, <1>10, <1>11, <1>12, <1>13,
     <1>14, <1>15, <1>16, <1>17, <1>18, <1>19, <1>20, <1>21, <1>22, <1>23,
     <1>24, <1>25, <1>26, <1>27, <1>28, <1>29, <1>30, <1>31, <1>32
  DEF Next, Serve, Execute, Own, Server, Shutdown

-----------------------------------------------------------------------------
(* The theorems.                                                           *)

\* The conjunction of the lemmas above: IInv is inductive.
THEOREM Inductive == Spec => []IInv
<1>1. IInv /\ [Next]_vars => IInv'
  <2>1. SUFFICES ASSUME IInv, [Next]_vars PROVE IInv'
    OBVIOUS
  <2>2. TypeOK' /\ ActiveCountsLeases' /\ QuietInv'
    BY <2>1, TypeStep, LeaseStep, QuietStep
  <2>3. StageInv' /\ InDoubtInv' /\ LockInv'
    BY <2>1, StageStep, InDoubtStep, LockStep
  <2>4. ExactlyOnceWhileRetained' /\ ReportInv'
    BY <2>1, OnceStep, ReportStep
  <2>5. QED
    BY <2>2, <2>3, <2>4 DEF IInv
<1>2. QED
  BY InitInv, <1>1, PTL DEF Spec

\* Type correctness of the tracker, the executions and the inbox.
THEOREM TypeCorrect == Spec => []TypeOK
<1>1. IInv => TypeOK
  BY DEF IInv
<1>2. QED
  BY Inductive, <1>1, PTL

\* Exactly once while retained: a handler's effects for an event are committed
\* once per retained inbox row, whatever is redelivered, interrupted or crashes,
\* and whichever COMMIT answers are lost.
THEOREM ExactlyOnce == Spec => []ExactlyOnceWhileRetained
<1>1. IInv => ExactlyOnceWhileRetained
  BY DEF IInv
<1>2. QED
  BY Inductive, <1>1, PTL

\* A delivery is acknowledged only after its effects were committed, also when
\* the advisory keys of different events collide.
THEOREM AcksAreEarned == Spec => []OkMeansApplied
<1>1. IInv => OkMeansApplied
  BY DEF IInv, ReportInv, OkMeansApplied
<1>2. QED
  BY Inductive, <1>1, PTL

\* The INSERT of claim_inbox never waits for another transaction: whoever has
\* an uncommitted row of the key holds its advisory lock.
THEOREM ClaimsNeverWait == Spec => []ClaimNeverWaits
<1>1. IInv => ClaimNeverWaits
  <2>1. SUFFICES ASSUME IInv, NEW e \in Executions, owner[e] = "claim"
                 PROVE  Conflicts(e) = {}
    BY DEF ClaimNeverWaits
  <2>2. e \in locked
    BY <2>1 DEF IInv, StageInv
  <2>3. ASSUME NEW f \in Executions, f # e, key[f] = key[e], pending[f] # "none"
        PROVE  FALSE
    BY <2>1, <2>2, <2>3 DEF IInv, LockInv
  <2>4. QED
    BY <2>3 DEF Conflicts
<1>2. QED
  BY Inductive, <1>1, PTL

\* active is the number of leases: the drain's reading of zero means nobody.
THEOREM LeasesAreCounted == Spec => []ActiveCountsLeases
<1>1. IInv => ActiveCountsLeases
  BY DEF IInv
<1>2. QED
  BY Inductive, <1>1, PTL

\* A successful drain_transactions leaves no owner inside a transaction, and
\* none begins one afterwards.
THEOREM DrainIsFinal == Spec => []DrainedMeansFinalized
<1>1. IInv => DrainedMeansFinalized
  BY DEF IInv, TypeOK, QuietInv, DrainedMeansFinalized, Running, Body
<1>2. QED
  BY Inductive, <1>1, PTL
=============================================================================
