-------------------------- MODULE OutboxRelayProofs --------------------------
(***************************************************************************)
(* Proofs of the safety properties of OutboxRelay, for any rows, workers,  *)
(* batch sizes, attempt budgets and number of faults.                      *)
(*                                                                         *)
(* RowChanges says once and for all what a step can do to one row; the     *)
(* invariants below are proved from it and from what a step does to the    *)
(* worker that takes it, instead of action by action.                      *)
(***************************************************************************)
EXTENDS OutboxRelay, TLAPS

USE AttemptsAssumption, RecordsAssumption, FaultsAssumption

-----------------------------------------------------------------------------
(* What the fenced statements write.                                        *)

\* The statements over many rows leave a well-formed table.
LEMMA BulkTypes ==
    ASSUME row \in [Records -> Row], NEW B
    PROVE  /\ \A t \in Nat : Claimed(B, t) \in [Records -> Row]
           /\ Cleanup(B) \in [Records -> Row]
<1>1. \A t \in Nat : Claimed(B, t) \in [Records -> Row]
  BY DEF Claimed, Row
<1>2. Cleanup(B) \in [Records -> Row]
  BY DEF Cleanup, Row
<1>3. QED
  BY <1>1, <1>2

\* The statements over one row leave a well-formed table; the attempt counter
\* stays within its bound because begin_outbox_publish compares it first.
LEMMA StatementTypes ==
    ASSUME row \in [Records -> Row], NEW r \in Records
    PROVE  /\ row[r].attempts < MaxAttempts => Begun(r) \in [Records -> Row]
           /\ Delivered(r) \in [Records -> Row]
           /\ Released(r) \in [Records -> Row]
           /\ Write(r, [row[r] EXCEPT !.status = "pending"]) \in [Records -> Row]
           /\ Write(r, [row[r] EXCEPT !.lease = "expired"]) \in [Records -> Row]
           /\ Write(r, [row[r] EXCEPT !.available = TRUE]) \in [Records -> Row]
<1>1. row[r].attempts < MaxAttempts => Begun(r) \in [Records -> Row]
  <2>1. SUFFICES ASSUME row[r].attempts < MaxAttempts
                 PROVE  Begun(r) \in [Records -> Row]
    OBVIOUS
  <2>2. row[r] \in Row
    OBVIOUS
  <2>3. row[r].attempts + 1 \in 0 .. MaxAttempts
    BY <2>1, <2>2 DEF Row
  <2>4. [row[r] EXCEPT !.attempts = row[r].attempts + 1, !.lease = "held"] \in Row
    BY <2>2, <2>3 DEF Row
  <2>5. QED
    BY <2>4 DEF Begun, Write
<1>2. Delivered(r) \in [Records -> Row]
  BY DEF Delivered, Write, Row, NoToken
<1>3. Released(r) \in [Records -> Row]
  BY DEF Released, Write, Row, NoToken
<1>4. Write(r, [row[r] EXCEPT !.status = "pending"]) \in [Records -> Row]
  BY DEF Write, Row
<1>5. Write(r, [row[r] EXCEPT !.lease = "expired"]) \in [Records -> Row]
  BY DEF Write, Row
<1>6. Write(r, [row[r] EXCEPT !.available = TRUE]) \in [Records -> Row]
  BY DEF Write, Row
<1>7. QED
  BY <1>1, <1>2, <1>3, <1>4, <1>5, <1>6

\* What each statement leaves of, and writes to, the fields the invariants
\* read: a row's place in its life, its attempts and its claim token.
LEMMA StatementFields ==
    ASSUME row \in [Records -> Row], NEW r \in Records, NEW s \in Records
    PROVE  /\ Begun(r)[s].status = row[s].status
           /\ Begun(r)[s].token = row[s].token
           /\ Begun(r)[s].attempts = IF s = r THEN row[s].attempts + 1
                                             ELSE row[s].attempts
           /\ Delivered(r)[s].status = IF s = r THEN "delivered"
                                               ELSE row[s].status
           /\ Delivered(r)[s].token = IF s = r THEN NoToken ELSE row[s].token
           /\ Delivered(r)[s].attempts = row[s].attempts
           /\ Released(r)[s].status = row[s].status
           /\ Released(r)[s].token = IF s = r THEN NoToken ELSE row[s].token
           /\ Released(r)[s].attempts = row[s].attempts
<1>1. /\ Begun(r)[s].status = row[s].status
      /\ Begun(r)[s].token = row[s].token
      /\ Begun(r)[s].attempts = IF s = r THEN row[s].attempts + 1
                                        ELSE row[s].attempts
  BY DEF Begun, Write, Row
<1>2. /\ Delivered(r)[s].status = IF s = r THEN "delivered" ELSE row[s].status
      /\ Delivered(r)[s].token = IF s = r THEN NoToken ELSE row[s].token
      /\ Delivered(r)[s].attempts = row[s].attempts
  BY DEF Delivered, Write, Row, NoToken
<1>3. /\ Released(r)[s].status = row[s].status
      /\ Released(r)[s].token = IF s = r THEN NoToken ELSE row[s].token
      /\ Released(r)[s].attempts = row[s].attempts
  BY DEF Released, Write, Row, NoToken
<1>4. QED
  BY <1>1, <1>2, <1>3

\* A claim writes only its token and lease.
LEMMA ClaimedFields ==
    ASSUME row \in [Records -> Row], NEW s \in Records, NEW B, NEW t
    PROVE  /\ Claimed(B, t)[s].status = row[s].status
           /\ Claimed(B, t)[s].token = IF s \in B THEN t ELSE row[s].token
           /\ Claimed(B, t)[s].attempts = row[s].attempts
  BY DEF Claimed, Row

\* Cleanup writes only the status.
LEMMA CleanupFields ==
    ASSUME row \in [Records -> Row], NEW s \in Records, NEW B
    PROVE  /\ Cleanup(B)[s].status = IF s \in B THEN "deleted"
                                                ELSE row[s].status
           /\ Cleanup(B)[s].token = row[s].token
           /\ Cleanup(B)[s].attempts = row[s].attempts
  BY DEF Cleanup, Row

\* The histories of attempts stay histories of attempts.
LEMMA NotedType ==
    ASSUME attempt \in [Workers -> 0 .. MaxAttempts], NEW w \in Workers,
           NEW h \in [Records -> SUBSET Nat]
    PROVE  Noted(h, w) \in [Records -> SUBSET Nat]
<1>1. attempt[w] \in Nat
  OBVIOUS
<1>2. QED
  BY <1>1 DEF Noted

-----------------------------------------------------------------------------
(* Type correctness.                                                        *)

\* The initial state is well typed.
LEMMA TypeInit == Init => TypeOK
  BY DEF Init, TypeOK, Row, Running, Ended, InFlight, NoToken, NoRecord

\* Every step keeps the types; only the bounds on attempts, faults and the
\* worker's copy of an attempt need the guards of the actions.
LEMMA TypeStep == TypeOK /\ [Next]_vars => TypeOK'
<1> SUFFICES ASSUME TypeOK, [Next]_vars PROVE TypeOK'
  OBVIOUS
<1> USE DEF TypeOK, Running, Ended, InFlight, NoRecord
<1>1. ASSUME NEW r \in Records, Enqueue(r)
       PROVE TypeOK'
  BY <1>1, StatementTypes DEF Enqueue, workerVars, brokerVars, markVars
<1>2. ASSUME NEW r \in Records, ExpireLease(r)
       PROVE TypeOK'
  BY <1>2, StatementTypes DEF ExpireLease, workerVars, brokerVars, markVars
<1>3. ASSUME NEW r \in Records, BecomeAvailable(r)
       PROVE TypeOK'
  BY <1>3, StatementTypes DEF BecomeAvailable, workerVars, brokerVars, markVars
<1>4. ASSUME NEW w \in Workers, StopAdmission(w)
       PROVE TypeOK'
  BY <1>4 DEF StopAdmission, brokerVars, markVars
<1>5. ASSUME NEW w \in Workers, RequestForce(w)
       PROVE TypeOK'
  BY <1>5 DEF RequestForce, brokerVars, markVars
<1>6. ASSUME NEW w \in Workers, Interrupt(w)
       PROVE TypeOK'
  BY <1>6, NotedType DEF Interrupt, Terminate, Goto, ForgetRecord, AbandonMark,
              brokerVars
<1>7. ASSUME NEW w \in Workers, Crash(w)
       PROVE TypeOK'
  BY <1>7, NotedType DEF Crash, Fault, Goto, ForgetRecord, AbandonMark, brokerVars
<1>8. ASSUME NEW w \in Workers, Start(w)
       PROVE TypeOK'
  BY <1>8 DEF Start, Goto, brokerVars, markVars
<1>9. ASSUME NEW w \in Workers, Loop(w)
       PROVE TypeOK'
  BY <1>9, BulkTypes DEF Loop, Goto, brokerVars, markVars
<1>10. ASSUME NEW w \in Workers, Claim(w)
       PROVE TypeOK'
  <2>1. Bounded \subseteq Records
    BY DEF Bounded, Candidates, Eligible
  <2>2. QED
    BY <1>10, <2>1, BulkTypes DEF Claim, Goto, brokerVars, markVars
<1>11. ASSUME NEW w \in Workers, ClaimOversized(w)
       PROVE TypeOK'
  BY <1>11 DEF ClaimOversized, Terminate, Goto, ForgetRecord, brokerVars,
              markVars
<1>12. ASSUME NEW w \in Workers, ClaimError(w)
       PROVE TypeOK'
  <2>1. row' \in [Records -> Row]
    <3>1. row' = row \/ \E B : row' = Claimed(B, owner[w])
      BY <1>12 DEF ClaimError
    <3>2. \A B : Claimed(B, owner[w]) \in [Records -> Row]
      BY BulkTypes
    <3>3. QED
      BY <3>1, <3>2
  <2>2. QED
    BY <1>12, <2>1 DEF ClaimError, Fault, Goto, brokerVars, markVars
<1>13. ASSUME NEW w \in Workers, Count(w)
       PROVE TypeOK'
  BY <1>13 DEF Count, Fault, Terminate, Goto, ForgetRecord, brokerVars,
              markVars
<1>14. ASSUME NEW w \in Workers, EndBatch(w)
       PROVE TypeOK'
  BY <1>14 DEF EndBatch, Goto, brokerVars, markVars
<1>15. ASSUME NEW w \in Workers, NEW r \in Records, BeginPublish(w, r)
       PROVE TypeOK'
  <2>1. row[r].attempts + 1 \in 0 .. MaxAttempts
    BY <1>15 DEF BeginPublish, BeginMatches, Row
  <2>2. QED
    BY <1>15, <2>1, StatementTypes
       DEF BeginPublish, BeginMatches, Goto, brokerVars, markVars
<1>16. ASSUME NEW w \in Workers, NEW r \in Records, SkipStale(w, r)
       PROVE TypeOK'
  BY <1>16 DEF SkipStale, brokerVars, markVars
<1>17. ASSUME NEW w \in Workers, NEW r \in Records, BeginError(w, r)
       PROVE TypeOK'
  <2>1. row' \in [Records -> Row]
    <3>1. CASE row' = row
      BY <3>1
    <3>2. CASE BeginMatches(r, owner[w]) /\ row' = Begun(r)
      BY <3>2, StatementTypes DEF BeginMatches
    <3>3. QED
      BY <1>17, <3>1, <3>2 DEF BeginError
  <2>2. QED
    BY <1>17, <2>1 DEF BeginError, Fault, Terminate, Goto, ForgetRecord,
                brokerVars, markVars
<1>18. ASSUME NEW w \in Workers, PublishConfirmed(w)
       PROVE TypeOK'
  BY <1>18, NotedType DEF PublishConfirmed, Goto, markVars
<1>19. ASSUME NEW w \in Workers, PublishFailed(w)
       PROVE TypeOK'
  BY <1>19, NotedType DEF PublishFailed, Goto
<1>20. ASSUME NEW w \in Workers, MarkDelivered(w)
       PROVE TypeOK'
  <2>1. row' \in [Records -> Row]
    BY <1>20, StatementTypes DEF MarkDelivered
  <2>2. QED
    BY <1>20, <2>1, NotedType DEF MarkDelivered, NextRecord, Goto,
                ForgetRecord, brokerVars
<1>21. ASSUME NEW w \in Workers, MarkFailed(w)
       PROVE TypeOK'
  <2>1. row' \in [Records -> Row]
    <3>1. cur[w] \in Records
      BY <1>21 DEF MarkFailed
    <3>2. Delivered(cur[w]) \in [Records -> Row]
      BY <3>1, StatementTypes
    <3>3. QED
      BY <1>21, <3>2 DEF MarkFailed
  <2>2. faults' \in 0 .. MaxFaults
    BY <1>21 DEF MarkFailed, Fault
  <2>3. unproven' \in [Records -> SUBSET Nat]
    BY <1>21, NotedType DEF MarkFailed
  <2>4. CASE Terminate(w)
    BY <1>21, <2>1, <2>2, <2>3, <2>4
       DEF MarkFailed, Terminate, Goto, ForgetRecord, brokerVars
  <2>5. CASE NextRecord(w)
    BY <1>21, <2>1, <2>2, <2>3, <2>5
       DEF MarkFailed, NextRecord, Goto, ForgetRecord, brokerVars
  <2>6. QED
    BY <1>21, <2>4, <2>5 DEF MarkFailed, EndAttempt
<1>22. ASSUME NEW w \in Workers, RecordFailure(w)
       PROVE TypeOK'
  <2>1. row' \in [Records -> Row]
    <3>1. cur[w] \in Records
      BY <1>22 DEF RecordFailure
    <3>2. Released(cur[w]) \in [Records -> Row]
      BY <3>1, StatementTypes
    <3>3. QED
      BY <1>22, <3>2 DEF RecordFailure
  <2>2. faults' \in 0 .. MaxFaults
    BY <1>22 DEF RecordFailure, Fault
  <2>3. CASE Terminate(w)
    BY <1>22, <2>1, <2>2, <2>3
       DEF RecordFailure, Terminate, Goto, ForgetRecord, brokerVars, markVars
  <2>4. CASE NextRecord(w)
    BY <1>22, <2>1, <2>2, <2>4
       DEF RecordFailure, NextRecord, Goto, ForgetRecord, brokerVars, markVars
  <2>5. QED
    BY <1>22, <2>3, <2>4 DEF RecordFailure, EndAttempt
<1>23. CASE UNCHANGED vars
  BY <1>23 DEF vars
<1>24. QED
  BY <1>1, <1>2, <1>3, <1>4, <1>5, <1>6, <1>7, <1>8, <1>9, <1>10, <1>11, <1>12,
     <1>13, <1>14, <1>15, <1>16, <1>17, <1>18, <1>19, <1>20, <1>21, <1>22, <1>23
     DEF Next, Work

-----------------------------------------------------------------------------
(* What a step does to a row.                                               *)

\* Status, attempts and token of the row stay as they are.
Kept(r) == /\ row'[r].status = row[r].status
           /\ row'[r].attempts = row[r].attempts
           /\ row'[r].token = row[r].token

\* The business transaction that enqueued the row commits.
Appeared(r) == /\ row[r].status = "absent" /\ row'[r].status = "pending"
               /\ row'[r].attempts = row[r].attempts
               /\ row'[r].token = row[r].token

\* Worker w claims the row.
Taken(w, r) == /\ pc[w] = "claim"
               /\ r \in Eligible
               /\ row'[r].status = row[r].status
               /\ row'[r].attempts = row[r].attempts
               /\ row'[r].token = owner[w]

\* Worker w begins an attempt, and goes on to publish it or fails.
BegunBy(w, r) == /\ pc[w] = "begin"
                 /\ BeginMatches(r, owner[w])
                 /\ row'[r].status = row[r].status
                 /\ row'[r].attempts = row[r].attempts + 1
                 /\ row'[r].token = row[r].token
                 /\ \/ pc'[w] = "failed"
                    \/ /\ pc'[w] = "publish" /\ cur'[w] = r
                       /\ attempt'[w] = row[r].attempts + 1

\* Worker w marks the row delivered or releases it, and is done with it.
SettledBy(w, r) == /\ pc[w] \in {"mark", "fail"} /\ cur[w] = r
                   /\ SettleMatches(r, owner[w])
                   /\ \/ row'[r].status = "pending"
                      \/ row'[r].status = "delivered" /\ pc[w] = "mark"
                   /\ row'[r].attempts = row[r].attempts
                   /\ row'[r].token = NoToken
                   /\ pc'[w] \in {"begin", "failed"}

\* Retention deletes the row.
Deleted(r) == /\ row[r].status = "delivered" /\ row'[r].status = "deleted"
              /\ row'[r].attempts = row[r].attempts
              /\ row'[r].token = row[r].token

RowChange(r) ==
    \/ Kept(r) \/ Appeared(r) \/ Deleted(r)
    \/ \E w \in Workers : Taken(w, r) \/ BegunBy(w, r) \/ SettledBy(w, r)

\* These are all the ways a step can touch a row: whatever a worker writes is
\* fenced by the token the row carries.
LEMMA RowChanges ==
    ASSUME TypeOK, [Next]_vars, NEW r \in Records
    PROVE  RowChange(r)
<1>1. row \in [Records -> Row]
  BY DEF TypeOK
<1>2. ASSUME Kept(r) PROVE RowChange(r)
  BY <1>2 DEF RowChange
<1>3. ASSUME row' = row PROVE RowChange(r)
  BY <1>2, <1>3 DEF Kept
<1>4. /\ pc \in [Workers -> Running \union Ended]
      /\ cur \in [Workers -> Records \union {NoRecord}]
      /\ attempt \in [Workers -> 0 .. MaxAttempts]
      /\ \A w \in Workers : pc[w] \in {"mark", "fail"} => cur[w] \in Records
  BY DEF TypeOK, InFlight
<1>5. ASSUME NEW w \in Workers, pc[w] = "claim", NEW B, B \subseteq Eligible,
             row' = Claimed(B, owner[w])
      PROVE  RowChange(r)
  <2>1. CASE r \in B
    BY <1>1, <1>5, <2>1, ClaimedFields DEF Taken, RowChange
  <2>2. CASE r \notin B
    BY <1>1, <1>2, <1>5, <2>2, ClaimedFields DEF Kept
  <2>3. QED
    BY <2>1, <2>2
<1>6. Bounded \subseteq Eligible
  BY DEF Bounded, Candidates
<1>7. ASSUME NEW w \in Workers, NEW q \in Records, row' = Begun(q),
             pc[w] = "begin", BeginMatches(q, owner[w]),
             \/ pc'[w] = "failed"
             \/ /\ pc'[w] = "publish" /\ cur'[w] = q
                /\ attempt'[w] = row[q].attempts + 1
      PROVE  RowChange(r)
  <2>1. CASE q = r
    BY <1>1, <1>7, <2>1, StatementFields DEF BegunBy, RowChange
  <2>2. CASE q # r
    BY <1>1, <1>2, <1>7, <2>2, StatementFields DEF Kept
  <2>3. QED
    BY <2>1, <2>2
<1>8. ASSUME NEW w \in Workers, pc[w] \in {"mark", "fail"},
             SettleMatches(cur[w], owner[w]),
             \/ row' = Released(cur[w])
             \/ row' = Delivered(cur[w]) /\ pc[w] = "mark",
             pc'[w] \in {"begin", "failed"}
      PROVE  RowChange(r)
  <2>1. cur[w] \in Records
    BY <1>4, <1>8
  <2>2. CASE cur[w] = r
    <3>1. row[r].status = "pending"
      BY <1>8, <2>2 DEF SettleMatches
    <3>2. /\ row'[r].attempts = row[r].attempts /\ row'[r].token = NoToken
          /\ \/ row'[r].status = "pending"
             \/ row'[r].status = "delivered" /\ pc[w] = "mark"
      BY <1>1, <1>8, <2>2, <3>1, StatementFields
    <3>3. QED
      BY <1>8, <2>2, <3>2 DEF SettledBy, RowChange
  <2>3. CASE cur[w] # r
    <3>1. row'[r] = row[r]
      BY <1>1, <1>8, <2>1, <2>3 DEF Released, Delivered, Write
    <3>2. QED
      BY <1>2, <3>1 DEF Kept
  <2>4. QED
    BY <2>2, <2>3
<1>9. ASSUME NEW w \in Workers, Terminate(w) \/ NextRecord(w)
      PROVE  pc'[w] \in {"begin", "failed"}
  BY <1>4, <1>9 DEF Terminate, NextRecord, Goto
<1>10. ASSUME NEW q \in Records, Enqueue(q)
       PROVE RowChange(r)
  BY <1>1, <1>2, <1>10
     DEF Kept, Appeared, RowChange, Enqueue, Write, Row
<1>11. ASSUME NEW q \in Records, ExpireLease(q)
       PROVE RowChange(r)
  BY <1>1, <1>2, <1>11 DEF Kept, ExpireLease, Write, Row
<1>12. ASSUME NEW q \in Records, BecomeAvailable(q)
       PROVE RowChange(r)
  BY <1>1, <1>2, <1>12 DEF Kept, BecomeAvailable, Write, Row
<1>13. ASSUME NEW w \in Workers, StopAdmission(w)
       PROVE RowChange(r)
  BY <1>3, <1>13 DEF StopAdmission
<1>14. ASSUME NEW w \in Workers, RequestForce(w)
       PROVE RowChange(r)
  BY <1>3, <1>14 DEF RequestForce
<1>15. ASSUME NEW w \in Workers, Interrupt(w)
       PROVE RowChange(r)
  BY <1>3, <1>15 DEF Interrupt
<1>16. ASSUME NEW w \in Workers, Crash(w)
       PROVE RowChange(r)
  BY <1>3, <1>16 DEF Crash
<1>17. ASSUME NEW w \in Workers, Start(w)
       PROVE RowChange(r)
  BY <1>3, <1>17 DEF Start
<1>18. ASSUME NEW w \in Workers, Loop(w)
       PROVE RowChange(r)
  <2>1. ASSUME NEW S \in SUBSET Expirable, row' = Cleanup(S)
        PROVE  RowChange(r)
    <3>1. CASE r \in S
      BY <1>1, <2>1, <3>1, CleanupFields DEF Expirable, Deleted, RowChange
    <3>2. CASE r \notin S
      BY <1>1, <1>2, <2>1, <3>2, CleanupFields DEF Kept
    <3>3. QED
      BY <3>1, <3>2
  <2>2. QED
    BY <1>3, <1>18, <2>1 DEF Loop
<1>19. ASSUME NEW w \in Workers, Claim(w)
       PROVE RowChange(r)
  BY <1>5, <1>6, <1>19 DEF Claim
<1>20. ASSUME NEW w \in Workers, ClaimOversized(w)
       PROVE RowChange(r)
  BY <1>3, <1>20 DEF ClaimOversized
<1>21. ASSUME NEW w \in Workers, ClaimError(w)
       PROVE RowChange(r)
  <2>1. (IF Oversized THEN {} ELSE Bounded) \subseteq Eligible
    BY <1>6
  <2>2. QED
    BY <1>3, <1>5, <1>21, <2>1 DEF ClaimError
<1>22. ASSUME NEW w \in Workers, Count(w)
       PROVE RowChange(r)
  BY <1>3, <1>22 DEF Count
<1>23. ASSUME NEW w \in Workers, EndBatch(w)
       PROVE RowChange(r)
  BY <1>3, <1>23 DEF EndBatch
<1>24. ASSUME NEW w \in Workers, NEW q \in Records, BeginPublish(w, q)
       PROVE RowChange(r)
  <2>1. /\ pc'[w] = "publish" /\ cur'[w] = q
        /\ attempt'[w] = row[q].attempts + 1
    BY <1>4, <1>24 DEF BeginPublish, Goto
  <2>2. QED
    BY <1>7, <1>24, <2>1 DEF BeginPublish
<1>25. ASSUME NEW w \in Workers, NEW q \in Records, SkipStale(w, q)
       PROVE RowChange(r)
  BY <1>3, <1>25 DEF SkipStale
<1>26. ASSUME NEW w \in Workers, NEW q \in Records, BeginError(w, q)
       PROVE RowChange(r)
  <2>1. pc'[w] = "failed"
    BY <1>4, <1>26 DEF BeginError, Terminate, Goto
  <2>2. QED
    BY <1>3, <1>7, <1>26, <2>1 DEF BeginError
<1>27. ASSUME NEW w \in Workers, PublishConfirmed(w)
       PROVE RowChange(r)
  BY <1>3, <1>27 DEF PublishConfirmed
<1>28. ASSUME NEW w \in Workers, PublishFailed(w)
       PROVE RowChange(r)
  BY <1>3, <1>28 DEF PublishFailed
<1>29. ASSUME NEW w \in Workers, MarkDelivered(w)
       PROVE RowChange(r)
  BY <1>8, <1>9, <1>29 DEF MarkDelivered
<1>30. ASSUME NEW w \in Workers, MarkFailed(w)
       PROVE RowChange(r)
  BY <1>3, <1>8, <1>9, <1>30 DEF MarkFailed, EndAttempt
<1>31. ASSUME NEW w \in Workers, RecordFailure(w)
       PROVE RowChange(r)
  BY <1>3, <1>8, <1>9, <1>31 DEF RecordFailure, EndAttempt
<1>32. CASE UNCHANGED vars
  BY <1>3, <1>32 DEF vars
<1>33. QED
  BY <1>10, <1>11, <1>12, <1>13, <1>14, <1>15, <1>16, <1>17, <1>18, <1>19, <1>20,
     <1>21, <1>22, <1>23, <1>24, <1>25, <1>26, <1>27, <1>28, <1>29, <1>30, <1>31, <1>32
     DEF Next, Work

-----------------------------------------------------------------------------
(* The copies at the broker and the attempts that paid for them.            *)

\* The inductive form of EachCopyHasItsAttempt: any two workers in flight on a
\* row hold different attempts, whether or not one is about to publish.
AttemptsInv ==
    /\ \A r \in Records : published[r] \subseteq 1 .. row[r].attempts
    /\ \A r \in Records : row[r].status = "absent" => row[r].attempts = 0
    /\ \A w \in Workers : pc[w] \in InFlight =>
          attempt[w] \in 1 .. row[cur[w]].attempts
    /\ \A w \in Workers : pc[w] = "publish" =>
          attempt[w] \notin published[cur[w]]
    /\ \A v, w \in Workers :
          /\ v # w /\ cur[v] = cur[w]
          /\ pc[v] \in InFlight /\ pc[w] \in InFlight
          => attempt[v] # attempt[w]

\* A step that sends nothing: no attempt is taken back and no row reappears;
\* no copy reaches the broker; no worker comes into flight.
QuietRows ==
    \A r \in Records :
        /\ row'[r].attempts >= row[r].attempts
        /\ row'[r].status = "absent" =>
              row[r].status = "absent" /\ row'[r].attempts = row[r].attempts

QuietWorkers ==
    \A w \in Workers : pc'[w] \in InFlight =>
        pc'[w] = pc[w] /\ cur'[w] = cur[w] /\ attempt'[w] = attempt[w]

QuietStep == /\ QuietRows /\ QuietWorkers
             /\ published' = published /\ confirmed' = confirmed

Sends == \E w \in Workers : \/ \E r \in Records : BeginPublish(w, r)
                            \/ PublishConfirmed(w) \/ PublishFailed(w)

\* Only beginning an attempt and publishing are not quiet.
LEMMA QuietSteps ==
    ASSUME TypeOK, [Next]_vars, ~Sends
    PROVE  QuietStep
<1> DEFINE Locals == /\ pc \in [Workers -> Running \union Ended]
                     /\ cur \in [Workers -> Records \union {NoRecord}]
                     /\ attempt \in [Workers -> 0 .. MaxAttempts]
           Quiet == QuietWorkers /\ published' = published /\ confirmed' = confirmed
<1>a. Locals
  BY DEF TypeOK
<1> HIDE DEF Locals
<1> USE <1>a DEF Locals, QuietWorkers, InFlight, brokerVars
<1>1. ASSUME NEW r \in Records, Enqueue(r)
       PROVE Quiet
  BY <1>1 DEF Enqueue, workerVars
<1>2. ASSUME NEW r \in Records, ExpireLease(r)
       PROVE Quiet
  BY <1>2 DEF ExpireLease, workerVars
<1>3. ASSUME NEW r \in Records, BecomeAvailable(r)
       PROVE Quiet
  BY <1>3 DEF BecomeAvailable, workerVars
<1>4. ASSUME NEW w \in Workers, StopAdmission(w)
       PROVE Quiet
  BY <1>4 DEF StopAdmission
<1>5. ASSUME NEW w \in Workers, RequestForce(w)
       PROVE Quiet
  BY <1>5 DEF RequestForce
<1>6. ASSUME NEW w \in Workers, Interrupt(w)
       PROVE Quiet
  BY <1>6 DEF Interrupt, Terminate, ForgetRecord, Goto
<1>7. ASSUME NEW w \in Workers, Crash(w)
       PROVE Quiet
  BY <1>7 DEF Crash, ForgetRecord, Goto
<1>8. ASSUME NEW w \in Workers, Start(w)
       PROVE Quiet
  BY <1>8 DEF Start, Goto
<1>9. ASSUME NEW w \in Workers, Loop(w)
       PROVE Quiet
  BY <1>9 DEF Loop, Goto
<1>10. ASSUME NEW w \in Workers, Claim(w)
       PROVE Quiet
  BY <1>10 DEF Claim, Goto
<1>11. ASSUME NEW w \in Workers, ClaimOversized(w)
       PROVE Quiet
  BY <1>11 DEF ClaimOversized, Terminate, ForgetRecord, Goto
<1>12. ASSUME NEW w \in Workers, ClaimError(w)
       PROVE Quiet
  BY <1>12 DEF ClaimError, Goto
<1>13. ASSUME NEW w \in Workers, Count(w)
       PROVE Quiet
  BY <1>13 DEF Count, Terminate, ForgetRecord, Goto
<1>14. ASSUME NEW w \in Workers, EndBatch(w)
       PROVE Quiet
  BY <1>14 DEF EndBatch, Goto
<1>15. ASSUME NEW w \in Workers, NEW r \in Records, SkipStale(w, r)
       PROVE Quiet
  BY <1>15 DEF SkipStale
<1>16. ASSUME NEW w \in Workers, NEW r \in Records, BeginError(w, r)
       PROVE Quiet
  BY <1>16 DEF BeginError, Terminate, ForgetRecord, Goto
<1>17. ASSUME NEW w \in Workers, MarkDelivered(w)
       PROVE Quiet
  BY <1>17 DEF MarkDelivered, NextRecord, ForgetRecord, Goto
<1>18. ASSUME NEW w \in Workers, MarkFailed(w)
       PROVE Quiet
  BY <1>18 DEF MarkFailed, EndAttempt, Terminate, NextRecord,
              ForgetRecord, Goto
<1>19. ASSUME NEW w \in Workers, RecordFailure(w)
       PROVE Quiet
  BY <1>19 DEF RecordFailure, EndAttempt, Terminate, NextRecord,
              ForgetRecord, Goto
<1>20. ASSUME UNCHANGED vars
       PROVE Quiet
  BY <1>20 DEF vars
<1>21. Quiet
  BY <1>1, <1>2, <1>3, <1>4, <1>5, <1>6, <1>7, <1>8, <1>9, <1>10, <1>11,
     <1>12, <1>13, <1>14, <1>15, <1>16, <1>17, <1>18, <1>19, <1>20
     DEF Next, Work, Sends
<1>22. QuietRows
  <2>1. ASSUME NEW r \in Records
        PROVE  /\ row'[r].attempts >= row[r].attempts
               /\ row'[r].status = "absent" =>
                     /\ row[r].status = "absent"
                     /\ row'[r].attempts = row[r].attempts
    <3>1. row[r].attempts \in Nat
      BY DEF TypeOK, Row
    <3>2. QED
      BY <3>1, RowChanges DEF RowChange, Kept, Appeared, Taken, Deleted,
         BegunBy, SettledBy, BeginMatches, Eligible
  <2>2. QED
    BY <2>1 DEF QuietRows
<1>23. QED
  BY <1>21, <1>22 DEF QuietStep

\* At first nothing is in flight and no copy exists.
LEMMA AttemptsInit == Init => AttemptsInv
  BY DEF Init, AttemptsInv, InFlight

\* A quiet step keeps every attempt paid for: rows only gain attempts.
LEMMA AttemptsQuiet ==
    ASSUME TypeOK, TypeOK', AttemptsInv, QuietStep
    PROVE  AttemptsInv'
<1>1. \A r \in Records : row[r].attempts \in Nat /\ row'[r].attempts \in Nat
  BY DEF TypeOK, Row
<1>2. \A r \in Records : published'[r] \subseteq 1 .. row'[r].attempts
  <2>1. \A r \in Records : published[r] \subseteq 1 .. row[r].attempts
    BY DEF AttemptsInv
  <2>2. \A r \in Records : 1 .. row[r].attempts \subseteq 1 .. row'[r].attempts
    BY <1>1 DEF QuietStep, QuietRows
  <2>3. QED
    BY <2>1, <2>2 DEF QuietStep
<1>3. \A r \in Records : row'[r].status = "absent" => row'[r].attempts = 0
  BY DEF AttemptsInv, QuietStep, QuietRows
<1>4. ASSUME NEW w \in Workers, pc'[w] \in InFlight
      PROVE  /\ attempt'[w] \in 1 .. row'[cur'[w]].attempts
             /\ pc'[w] = "publish" => attempt'[w] \notin published'[cur'[w]]
  <2>1. /\ pc[w] \in InFlight /\ cur'[w] = cur[w] /\ attempt'[w] = attempt[w]
        /\ pc'[w] = "publish" => pc[w] = "publish"
    BY <1>4 DEF QuietStep, QuietWorkers
  <2>2. cur[w] \in Records /\ attempt[w] \in 1 .. row[cur[w]].attempts
    BY <2>1 DEF AttemptsInv, TypeOK
  <2>3. /\ row[cur[w]].attempts \in Nat /\ row'[cur[w]].attempts \in Nat
        /\ row'[cur[w]].attempts >= row[cur[w]].attempts
    BY <1>1, <2>2 DEF QuietStep, QuietRows
  <2>4. attempt[w] \in 1 .. row'[cur[w]].attempts
    BY <2>2, <2>3
  <2>5. QED
    BY <2>1, <2>4 DEF AttemptsInv, QuietStep
<1>5. ASSUME NEW v \in Workers, NEW w \in Workers, v # w, cur'[v] = cur'[w],
             pc'[v] \in InFlight, pc'[w] \in InFlight
      PROVE  attempt'[v] # attempt'[w]
  BY <1>5 DEF AttemptsInv, QuietStep, QuietWorkers
<1>6. QED
  BY <1>2, <1>3, <1>4, <1>5 DEF AttemptsInv, InFlight

\* The attempt begin_outbox_publish returns is new: it is larger than every
\* attempt a copy at the broker or another worker has.
LEMMA AttemptsBegin ==
    ASSUME TypeOK, TypeOK', AttemptsInv,
           NEW w \in Workers, NEW r \in Records, BeginPublish(w, r)
    PROVE  AttemptsInv'
<1>1. \A s \in Records : row[s].attempts \in Nat /\ row'[s].attempts \in Nat
  BY DEF TypeOK, Row
<1>2. /\ published' = published
      /\ cur'[w] = r /\ attempt'[w] = row[r].attempts + 1
      /\ \A v \in Workers \ {w} : /\ pc'[v] = pc[v] /\ cur'[v] = cur[v]
                                  /\ attempt'[v] = attempt[v]
  BY DEF BeginPublish, Goto, TypeOK, brokerVars
<1>3. row' = Begun(r) /\ row[r].status = "pending"
  BY DEF BeginPublish, BeginMatches
<1>4. \A s \in Records :
         /\ row'[s].status = row[s].status
         /\ row'[s].attempts = IF s = r THEN row[s].attempts + 1
                                        ELSE row[s].attempts
  BY <1>3, StatementFields DEF TypeOK
<1>4a. \A s \in Records : row'[s].attempts >= row[s].attempts
  <2>1. ASSUME NEW s \in Records, s = r
        PROVE  row'[s].attempts >= row[s].attempts
    <3>1. row'[s].attempts = row[s].attempts + 1 /\ row[s].attempts \in Nat
      BY <1>1, <1>4, <2>1
    <3>2. QED
      BY <3>1
  <2>2. ASSUME NEW s \in Records, s # r
        PROVE  row'[s].attempts >= row[s].attempts
    <3>1. row'[s].attempts = row[s].attempts /\ row[s].attempts \in Nat
      BY <1>1, <1>4, <2>2
    <3>2. QED
      BY <3>1
  <2>3. QED
    BY <2>1, <2>2
<1>5. \A s \in Records : published[s] \subseteq 1 .. row[s].attempts
  BY DEF AttemptsInv
<1>6. \A s \in Records : published'[s] \subseteq 1 .. row'[s].attempts
  BY <1>1, <1>2, <1>4, <1>5
<1>7. \A s \in Records : row'[s].status = "absent" => row'[s].attempts = 0
  BY <1>3, <1>4 DEF AttemptsInv
<1>8. ASSUME NEW v \in Workers \ {w}, pc'[v] \in InFlight
      PROVE  /\ attempt'[v] \in 1 .. row'[cur'[v]].attempts
             /\ pc'[v] = "publish" => attempt'[v] \notin published'[cur'[v]]
             /\ cur'[v] = r => attempt'[v] # attempt'[w]
  <2>1. pc[v] \in InFlight /\ cur'[v] = cur[v] /\ attempt'[v] = attempt[v]
    BY <1>2, <1>8
  <2>2. cur[v] \in Records /\ attempt[v] \in 1 .. row[cur[v]].attempts
    BY <2>1 DEF AttemptsInv, TypeOK
  <2>3. attempt[v] \in 1 .. row'[cur[v]].attempts
    <3>1. /\ row[cur[v]].attempts \in Nat /\ row'[cur[v]].attempts \in Nat
          /\ row'[cur[v]].attempts >= row[cur[v]].attempts
      BY <1>1, <1>4a, <2>2
    <3>2. QED
      BY <2>2, <3>1
  <2>4. cur'[v] = r => attempt'[v] # attempt'[w]
    BY <1>1, <1>2, <2>1, <2>2
  <2>5. pc'[v] = "publish" => attempt'[v] \notin published'[cur'[v]]
    BY <1>2, <2>1 DEF AttemptsInv
  <2>6. QED
    BY <2>1, <2>3, <2>4, <2>5
<1>9. /\ attempt'[w] \in 1 .. row'[cur'[w]].attempts
      /\ attempt'[w] \notin published'[cur'[w]]
  <2>1. row'[r].attempts = row[r].attempts + 1 /\ row[r].attempts \in Nat
    BY <1>1, <1>4
  <2>2. row[r].attempts + 1 \notin published[r]
    BY <1>5, <2>1
  <2>3. QED
    BY <1>2, <2>1, <2>2
<1>10. ASSUME NEW u \in Workers, NEW v \in Workers, u # v, cur'[u] = cur'[v],
              pc'[u] \in InFlight, pc'[v] \in InFlight
       PROVE  attempt'[u] # attempt'[v]
  <2>1. CASE u # w /\ v # w
    BY <1>2, <1>10, <2>1 DEF AttemptsInv
  <2>2. CASE u = w \/ v = w
    BY <1>2, <1>8, <1>10, <2>2
  <2>3. QED
    BY <2>1, <2>2
<1>11. QED
  BY <1>6, <1>7, <1>8, <1>9, <1>10 DEF AttemptsInv, InFlight

\* A publish adds exactly the attempt its worker holds to the copies.
LEMMA AttemptsPublish ==
    ASSUME TypeOK, TypeOK', AttemptsInv, NEW w \in Workers,
           PublishConfirmed(w) \/ PublishFailed(w)
    PROVE  AttemptsInv'
<1>1. /\ row' = row /\ cur' = cur /\ attempt' = attempt
      /\ pc[w] = "publish" /\ pc'[w] \in {"mark", "fail"}
      /\ \A v \in Workers \ {w} : pc'[v] = pc[v]
  BY DEF PublishConfirmed, PublishFailed, Goto, TypeOK
<1>2. cur[w] \in Records /\ attempt[w] \in 1 .. row[cur[w]].attempts
  BY <1>1 DEF AttemptsInv, TypeOK, InFlight
<1>3. \A s \in Records : published'[s] \subseteq
         IF s = cur[w] THEN published[s] \union {attempt[w]} ELSE published[s]
  BY DEF PublishConfirmed, PublishFailed, Noted, TypeOK
<1>4. \A s \in Records : published'[s] \subseteq 1 .. row'[s].attempts
  <2>1. \A s \in Records : published[s] \subseteq 1 .. row[s].attempts
    BY DEF AttemptsInv
  <2>2. QED
    BY <1>1, <1>2, <1>3, <2>1
<1>5. ASSUME NEW v \in Workers, pc'[v] = "publish"
      PROVE  attempt'[v] \notin published'[cur'[v]]
  <2>1. v # w /\ pc[v] = "publish"
    BY <1>1, <1>5
  <2>2. /\ attempt[v] \notin published[cur[v]]
        /\ cur[v] = cur[w] => attempt[v] # attempt[w]
    BY <1>1, <2>1 DEF AttemptsInv, InFlight
  <2>3. cur[v] \in Records
    BY <2>1 DEF TypeOK, InFlight
  <2>4. QED
    BY <1>1, <1>3, <2>2, <2>3
<1>6. \A v \in Workers : pc'[v] \in InFlight => pc[v] \in InFlight
  BY <1>1 DEF InFlight
<1>7. QED
  BY <1>1, <1>4, <1>5, <1>6 DEF AttemptsInv

\* Every step keeps the copies and the attempts in flight paid for.
LEMMA AttemptsStep ==
    ASSUME TypeOK, TypeOK', AttemptsInv, [Next]_vars
    PROVE  AttemptsInv'
<1>1. CASE Sends
  BY <1>1, AttemptsBegin, AttemptsPublish DEF Sends
<1>2. CASE ~Sends
  BY <1>2, QuietSteps, AttemptsQuiet
<1>3. QED
  BY <1>1, <1>2

-----------------------------------------------------------------------------
(* The life of a row.                                                       *)

\* What one step may do to a row, and who may mark it delivered.
RowLife(r) ==
    /\ row[r].status = "absent" => row'[r].status \in {"absent", "pending"}
    /\ row[r].status = "pending" => row'[r].status \in {"pending", "delivered"}
    /\ row[r].status \in {"delivered", "deleted"} =>
          /\ row'[r].status \in {row[r].status, "deleted"}
          /\ row'[r].attempts = row[r].attempts
          /\ row'[r].token = row[r].token
    /\ row[r].status = "pending" /\ row'[r].status = "delivered" =>
          \E w \in Workers : /\ pc[w] = "mark" /\ cur[w] = r
                             /\ owner[w] = row[r].token

\* Every step respects the life of a row, a consequence of RowChanges.
LEMMA RowLives ==
    ASSUME TypeOK, [Next]_vars, NEW r \in Records
    PROVE  RowLife(r)
<1>1. row[r].status \in {"absent", "pending", "delivered", "deleted"}
  BY DEF TypeOK, Row
<1>2. CASE Kept(r) \/ Appeared(r) \/ Deleted(r)
  BY <1>1, <1>2 DEF Kept, Appeared, Deleted, RowLife
<1>3. ASSUME NEW w \in Workers, Taken(w, r) \/ BegunBy(w, r)
      PROVE  RowLife(r)
  BY <1>1, <1>3 DEF Taken, BegunBy, Eligible, BeginMatches, RowLife
<1>4. ASSUME NEW w \in Workers, SettledBy(w, r)
      PROVE  RowLife(r)
  BY <1>1, <1>4 DEF SettledBy, SettleMatches, RowLife
<1>5. QED
  BY <1>2, <1>3, <1>4, RowChanges DEF RowChange

-----------------------------------------------------------------------------
(* Nothing is settled unconfirmed.                                          *)

\* The inductive form of NoEventLost: a worker about to mark a row delivered
\* holds a confirm for that very row.
ConfirmedInv == /\ \A w \in Workers : pc[w] = "mark" => confirmed[cur[w]]
                /\ NoEventLost

\* At first no row is settled.
LEMMA ConfirmedInit == Init => ConfirmedInv
  BY DEF Init, ConfirmedInv, NoEventLost

\* A settled row was marked by a worker that held its confirm, and confirms
\* are never taken back.
LEMMA ConfirmedStep ==
    ASSUME TypeOK, ConfirmedInv, [Next]_vars
    PROVE  ConfirmedInv'
<1>1. /\ \A r \in Records : confirmed[r] => confirmed'[r]
      /\ \A w \in Workers : pc'[w] = "mark" => confirmed'[cur'[w]]
  <2>1. CASE ~Sends
    BY <2>1, QuietSteps DEF QuietStep, QuietWorkers, ConfirmedInv, InFlight
  <2>2. ASSUME NEW w \in Workers, NEW r \in Records, BeginPublish(w, r)
        PROVE  <1>1!:
    BY <2>2 DEF BeginPublish, Goto, brokerVars, TypeOK, ConfirmedInv
  <2>3. ASSUME NEW w \in Workers, PublishConfirmed(w)
        PROVE  <1>1!:
    <3>1. cur[w] \in Records
      BY <2>3 DEF PublishConfirmed, TypeOK, InFlight
    <3>2. /\ confirmed'[cur[w]] /\ \A r \in Records : confirmed[r] => confirmed'[r]
      BY <2>3, <3>1 DEF PublishConfirmed, TypeOK
    <3>3. \A v \in Workers \ {w} : pc'[v] = pc[v]
      BY <2>3 DEF PublishConfirmed, Goto, TypeOK
    <3>4. \A v \in Workers : pc[v] = "mark" => cur[v] \in Records
      BY DEF TypeOK, InFlight
    <3>5. QED
      BY <2>3, <3>2, <3>3, <3>4 DEF PublishConfirmed, ConfirmedInv
  <2>4. ASSUME NEW w \in Workers, PublishFailed(w)
        PROVE  <1>1!:
    BY <2>4 DEF PublishFailed, Goto, TypeOK, ConfirmedInv
  <2>5. QED
    BY <2>1, <2>2, <2>3, <2>4 DEF Sends
<1>2. ASSUME NEW r \in Records, row'[r].status \in {"delivered", "deleted"}
      PROVE  confirmed'[r]
  <2>1. /\ RowLife(r)
        /\ row[r].status \in {"absent", "pending", "delivered", "deleted"}
    BY RowLives DEF TypeOK, Row
  <2>2. CASE row[r].status \in {"delivered", "deleted"}
    BY <1>1, <2>2 DEF ConfirmedInv, NoEventLost
  <2>3. CASE row[r].status = "pending"
    BY <1>1, <1>2, <2>1, <2>3 DEF RowLife, ConfirmedInv
  <2>4. QED
    BY <1>2, <2>1, <2>2, <2>3 DEF RowLife
<1>3. QED
  BY <1>1, <1>2 DEF ConfirmedInv, NoEventLost

-----------------------------------------------------------------------------
(* Every accepted copy is proven, unproven or being marked.                 *)

Marking(r, a) ==
    \E w \in Workers : pc[w] = "mark" /\ cur[w] = r /\ attempt[w] = a

\* The inductive form of DuplicatesAccounted: at most one attempt of a row is
\* ever proven, and only by settling the row.
MarksInv ==
    /\ \A r \in Records : \A a \in published[r] :
          a \in proven[r] \/ a \in unproven[r] \/ Marking(r, a)
    /\ \A r \in Records : proven[r] # {} =>
          row[r].status \in {"delivered", "deleted"}
    /\ \A r \in Records : \A a, b \in proven[r] : a = b

\* At first no copy exists.
LEMMA MarksInit == Init => MarksInv
  BY DEF Init, MarksInv

\* A worker leaves its mark only with the mark noted, proven or not.
MarksNoted ==
    /\ \A r \in Records : /\ unproven[r] \subseteq unproven'[r]
                          /\ proven[r] \subseteq proven'[r]
    /\ \A w \in Workers : pc[w] = "mark" =>
          \/ pc'[w] = "mark" /\ cur'[w] = cur[w] /\ attempt'[w] = attempt[w]
          \/ attempt[w] \in proven'[cur[w]]
          \/ attempt[w] \in unproven'[cur[w]]

\* Every way out of the mark (success, failure, interruption, crash) notes it.
LEMMA MarksNotedStep ==
    ASSUME TypeOK, [Next]_vars
    PROVE  MarksNoted
<1> DEFINE Locals == /\ pc \in [Workers -> Running \union Ended]
                     /\ cur \in [Workers -> Records \union {NoRecord}]
                     /\ attempt \in [Workers -> 0 .. MaxAttempts]
                     /\ \A w \in Workers : pc[w] = "mark" => cur[w] \in Records
                     /\ unproven \in [Records -> SUBSET Nat]
                     /\ proven \in [Records -> SUBSET Nat]
<1>l. Locals
  BY DEF TypeOK, InFlight
<1> HIDE DEF Locals
<1> USE <1>l DEF MarksNoted, Locals
<1>1. ASSUME NEW r \in Records, Enqueue(r)
       PROVE MarksNoted
  BY <1>1 DEF Enqueue, workerVars, markVars
<1>2. ASSUME NEW r \in Records, ExpireLease(r)
       PROVE MarksNoted
  BY <1>2 DEF ExpireLease, workerVars, markVars
<1>3. ASSUME NEW r \in Records, BecomeAvailable(r)
       PROVE MarksNoted
  BY <1>3 DEF BecomeAvailable, workerVars, markVars
<1>4. ASSUME NEW w \in Workers, StopAdmission(w)
       PROVE MarksNoted
  BY <1>4 DEF StopAdmission, markVars
<1>5. ASSUME NEW w \in Workers, RequestForce(w)
       PROVE MarksNoted
  BY <1>5 DEF RequestForce, markVars
<1>6. ASSUME NEW w \in Workers, Interrupt(w)
       PROVE MarksNoted
  BY <1>6 DEF Interrupt, Terminate, Goto, ForgetRecord, AbandonMark, Noted
<1>7. ASSUME NEW w \in Workers, Crash(w)
       PROVE MarksNoted
  BY <1>7 DEF Crash, Goto, ForgetRecord, AbandonMark, Noted
<1>8. ASSUME NEW w \in Workers, Start(w)
       PROVE MarksNoted
  BY <1>8 DEF Start, Goto, markVars
<1>9. ASSUME NEW w \in Workers, Loop(w)
       PROVE MarksNoted
  BY <1>9 DEF Loop, Goto, markVars
<1>10. ASSUME NEW w \in Workers, Claim(w)
       PROVE MarksNoted
  BY <1>10 DEF Claim, Goto, markVars
<1>11. ASSUME NEW w \in Workers, ClaimOversized(w)
       PROVE MarksNoted
  BY <1>11 DEF ClaimOversized, Terminate, Goto, ForgetRecord, markVars
<1>12. ASSUME NEW w \in Workers, ClaimError(w)
       PROVE MarksNoted
  BY <1>12 DEF ClaimError, Goto, markVars
<1>13. ASSUME NEW w \in Workers, Count(w)
       PROVE MarksNoted
  BY <1>13 DEF Count, Terminate, Goto, ForgetRecord, markVars
<1>14. ASSUME NEW w \in Workers, EndBatch(w)
       PROVE MarksNoted
  BY <1>14 DEF EndBatch, Goto, markVars
<1>15. ASSUME NEW w \in Workers, NEW r \in Records, BeginPublish(w, r)
       PROVE MarksNoted
  BY <1>15 DEF BeginPublish, Goto, markVars
<1>16. ASSUME NEW w \in Workers, NEW r \in Records, SkipStale(w, r)
       PROVE MarksNoted
  BY <1>16 DEF SkipStale, markVars
<1>17. ASSUME NEW w \in Workers, NEW r \in Records, BeginError(w, r)
       PROVE MarksNoted
  BY <1>17 DEF BeginError, Terminate, Goto, ForgetRecord, markVars
<1>18. ASSUME NEW w \in Workers, PublishConfirmed(w)
       PROVE MarksNoted
  BY <1>18 DEF PublishConfirmed, Goto, markVars
<1>19. ASSUME NEW w \in Workers, PublishFailed(w)
       PROVE MarksNoted
  BY <1>19 DEF PublishFailed, Goto, Noted
<1>20. ASSUME NEW w \in Workers, MarkDelivered(w)
       PROVE MarksNoted
  BY <1>20 DEF MarkDelivered, NextRecord, Goto, ForgetRecord, Noted
<1>21. ASSUME NEW w \in Workers, MarkFailed(w)
       PROVE MarksNoted
  BY <1>21 DEF MarkFailed, EndAttempt, Terminate, NextRecord, Goto,
               ForgetRecord, Noted
<1>22. ASSUME NEW w \in Workers, RecordFailure(w)
       PROVE MarksNoted
  BY <1>22 DEF RecordFailure, EndAttempt, Terminate, NextRecord, Goto,
               ForgetRecord, markVars
<1>23. CASE UNCHANGED vars
  BY <1>23 DEF vars
<1>24. QED
  BY <1>1, <1>2, <1>3, <1>4, <1>5, <1>6, <1>7, <1>8, <1>9, <1>10, <1>11,
     <1>12, <1>13, <1>14, <1>15, <1>16, <1>17, <1>18, <1>19, <1>20, <1>21, <1>22, <1>23
     DEF Next, Work

\* Only a successful mark proves an attempt.
LEMMA ProvenKept ==
    ASSUME [Next]_vars, \A w \in Workers : ~MarkDelivered(w)
    PROVE  proven' = proven
<1>1. ASSUME NEW w \in Workers, Work(w)
      PROVE  proven' = proven
  BY <1>1 DEF Work, markVars, Loop, Claim, ClaimOversized, ClaimError, Count,
     EndBatch, BeginPublish, SkipStale, BeginError, PublishConfirmed,
     PublishFailed, MarkFailed, RecordFailure
<1>2. ASSUME NEW w \in Workers, \/ StopAdmission(w) \/ RequestForce(w)
                               \/ Interrupt(w) \/ Crash(w) \/ Start(w)
      PROVE  proven' = proven
  BY <1>2 DEF markVars, StopAdmission, RequestForce, Interrupt, Crash, Start
<1>3. ASSUME NEW r \in Records,
             Enqueue(r) \/ ExpireLease(r) \/ BecomeAvailable(r)
      PROVE  proven' = proven
  BY <1>3 DEF markVars, Enqueue, ExpireLease, BecomeAvailable
<1>4. QED
  BY <1>1, <1>2, <1>3 DEF Next, vars

\* A new copy is being marked or is unproven at once, and a row is proven once
\* at most: a proven row has left pending, which every mark requires.
LEMMA MarksStep ==
    ASSUME TypeOK, MarksInv, [Next]_vars
    PROVE  MarksInv'
<1>1. MarksNoted
  BY MarksNotedStep
<1>2. ASSUME NEW r \in Records, NEW a \in published'[r]
      PROVE  a \in proven'[r] \/ a \in unproven'[r] \/ Marking(r, a)'
  <2>1. CASE a \in published[r]
    <3>1. a \in proven[r] \/ a \in unproven[r] \/ Marking(r, a)
      BY <2>1 DEF MarksInv
    <3>2. QED
      BY <1>1, <3>1 DEF MarksNoted, Marking
  <2>2. CASE a \notin published[r]
    <3>1. Sends
      BY <2>2, QuietSteps DEF QuietStep
    <3>2. ASSUME NEW w \in Workers, NEW q \in Records, BeginPublish(w, q)
          PROVE  FALSE
      BY <2>2, <3>2 DEF BeginPublish, brokerVars
    <3>3. ASSUME NEW w \in Workers, PublishConfirmed(w)
          PROVE  Marking(r, a)'
      BY <2>2, <3>3 DEF PublishConfirmed, Noted, Goto, Marking, TypeOK
    <3>4. ASSUME NEW w \in Workers, PublishFailed(w)
          PROVE  a \in unproven'[r]
      BY <2>2, <3>4 DEF PublishFailed, Noted, TypeOK
    <3>5. QED
      BY <3>1, <3>2, <3>3, <3>4 DEF Sends
  <2>3. QED
    BY <2>1, <2>2
<1>3. ASSUME NEW r \in Records
      PROVE  /\ proven'[r] # {} => row'[r].status \in {"delivered", "deleted"}
             /\ \A a, b \in proven'[r] : a = b
  <2>1. RowLife(r)
    BY RowLives
  <2>2. CASE proven'[r] = proven[r]
    <3>1. /\ proven[r] # {} => row[r].status \in {"delivered", "deleted"}
          /\ \A a, b \in proven[r] : a = b
      BY DEF MarksInv
    <3>2. row[r].status \in {"delivered", "deleted"} =>
             row'[r].status \in {"delivered", "deleted"}
      BY <2>1 DEF RowLife
    <3>3. QED
      BY <2>2, <3>1, <3>2
  <2>3. ASSUME NEW w \in Workers, MarkDelivered(w), cur[w] = r
        PROVE  /\ proven'[r] # {} => row'[r].status \in {"delivered", "deleted"}
               /\ \A a, b \in proven'[r] : a = b
    <3>1. row[r].status = "pending"
      BY <2>3 DEF MarkDelivered, SettleMatches
    <3>2. proven[r] = {}
      BY <3>1 DEF MarksInv
    <3>3. proven'[r] = {attempt[w]}
      BY <2>3, <3>2 DEF MarkDelivered, Noted, TypeOK
    <3>4. row'[r].status = "delivered"
      BY <2>3, StatementFields DEF MarkDelivered, TypeOK
    <3>5. QED
      BY <3>3, <3>4
  <2>4. ASSUME NEW w \in Workers, MarkDelivered(w), cur[w] # r
        PROVE  proven'[r] = proven[r]
    BY <2>4 DEF MarkDelivered, Noted, TypeOK
  <2>5. QED
    BY <2>2, <2>3, <2>4, ProvenKept
<1>4. QED
  BY <1>2, <1>3 DEF MarksInv

-----------------------------------------------------------------------------
(* Claim tokens.                                                            *)

\* Tokens are fresh and belong to one worker; a settled row carries none.
TokenInv ==
    /\ \A r \in Records : row[r].token < nextOwner
    /\ \A w \in Workers : owner[w] < nextOwner
    /\ \A w \in Workers : pc[w] \in Running => owner[w] # NoToken
    /\ \A v, w \in Workers : v # w /\ owner[v] = owner[w] => owner[v] = NoToken
    /\ \A r \in Records : row[r].status # "pending" => row[r].token = NoToken

\* At first nobody holds a token.
LEMMA TokenInit == Init => TokenInv
  BY DEF Init, TokenInv, NoToken, Running

\* Only Start draws a token.
LEMMA OwnersKept ==
    ASSUME [Next]_vars, \A w \in Workers : ~Start(w)
    PROVE  owner' = owner /\ nextOwner' = nextOwner
<1> DEFINE Same == owner' = owner /\ nextOwner' = nextOwner
<1>1. ASSUME NEW w \in Workers, Work(w)
      PROVE  Same
  BY <1>1 DEF Work, Loop, Claim, ClaimOversized, ClaimError, Count, EndBatch,
     BeginPublish, SkipStale, BeginError, PublishConfirmed, PublishFailed,
     MarkDelivered, MarkFailed, RecordFailure
<1>2. ASSUME NEW w \in Workers, \/ StopAdmission(w) \/ RequestForce(w)
                               \/ Interrupt(w) \/ Crash(w)
      PROVE  Same
  BY <1>2 DEF StopAdmission, RequestForce, Interrupt, Crash
<1>3. ASSUME NEW r \in Records,
             Enqueue(r) \/ ExpireLease(r) \/ BecomeAvailable(r)
      PROVE  Same
  BY <1>3 DEF workerVars, Enqueue, ExpireLease, BecomeAvailable
<1>4. QED
  BY <1>1, <1>2, <1>3 DEF Next, vars

\* Only Start sets a worker running.
LEMMA OnlyStartRuns ==
    ASSUME TypeOK, [Next]_vars, \A w \in Workers : ~Start(w),
           NEW v \in Workers, pc'[v] \in Running
    PROVE  pc[v] \in Running
<1>1. pc \in [Workers -> Running \union Ended]
  BY DEF TypeOK
<1>2. CASE pc' = pc
  BY <1>2
<1>3. ASSUME NEW w \in Workers, pc[w] \in Running, NEW l, Goto(w, l)
      PROVE  pc[v] \in Running
  BY <1>1, <1>3 DEF Goto
<1>4. ASSUME NEW w \in Workers, Interrupt(w)
      PROVE  pc[v] \in Running
  BY <1>3, <1>4 DEF Interrupt, Terminate
<1>5. ASSUME NEW w \in Workers, Crash(w)
      PROVE  pc[v] \in Running
  BY <1>1, <1>5 DEF Crash, Goto, Running
<1>6. ASSUME NEW w \in Workers, Work(w)
      PROVE  pc[v] \in Running
  <2>1. CASE pc[w] \in Running /\ \E l : Goto(w, l)
    BY <1>3, <2>1
  <2>2. \/ pc' = pc
        \/ pc[w] \in Running /\ \E l : Goto(w, l)
    BY <1>6 DEF Work, Running, Loop, Claim, ClaimOversized, ClaimError, Count,
       EndBatch, BeginPublish, SkipStale, BeginError, PublishConfirmed,
       PublishFailed, MarkDelivered, MarkFailed, RecordFailure, EndAttempt,
       Terminate, NextRecord
  <2>3. QED
    BY <1>2, <2>1, <2>2
<1>7. CASE \/ UNCHANGED vars
           \/ \E r \in Records : Enqueue(r) \/ ExpireLease(r) \/ BecomeAvailable(r)
           \/ \E w \in Workers : StopAdmission(w) \/ RequestForce(w)
  BY <1>2, <1>7 DEF vars, workerVars, Enqueue, ExpireLease, BecomeAvailable,
     StopAdmission, RequestForce
<1>8. QED
  BY <1>4, <1>5, <1>6, <1>7 DEF Next

\* A token on a row stays, or is that of a running worker, or is erased.
LEMMA TokenStep ==
    ASSUME TypeOK, TypeOK', TokenInv, [Next]_vars
    PROVE  TokenInv'
<1>1. /\ owner \in [Workers -> Nat] /\ nextOwner \in Nat /\ nextOwner' \in Nat
      /\ \A r \in Records : row[r].token \in Nat /\ row'[r].token \in Nat
  BY DEF TypeOK, Row
<1>2. nextOwner # 0
  BY DEF TypeOK
<1>3. nextOwner' >= nextOwner
  BY <1>1, OwnersKept DEF Start
<1> DEFINE TokenOK(r) ==
        /\ row'[r].token < nextOwner'
        /\ row'[r].status # "pending" => row'[r].token = NoToken
<1>4. ASSUME NEW r \in Records
      PROVE  TokenOK(r)
  <2>1. CASE Kept(r) \/ Appeared(r) \/ Deleted(r)
    BY <1>1, <1>3, <2>1 DEF TokenInv, Kept, Appeared, Deleted
  <2>2. ASSUME NEW w \in Workers, Taken(w, r)
        PROVE  TokenOK(r)
    BY <1>1, <1>3, <2>2 DEF TokenInv, Taken, Eligible
  <2>3. ASSUME NEW w \in Workers, BegunBy(w, r)
        PROVE  TokenOK(r)
    BY <1>1, <1>3, <2>3 DEF TokenInv, BegunBy
  <2>4. ASSUME NEW w \in Workers, SettledBy(w, r)
        PROVE  TokenOK(r)
    BY <1>1, <1>2, <1>3, <2>4 DEF SettledBy, NoToken
  <2>5. QED
    BY <2>1, <2>2, <2>3, <2>4, RowChanges DEF RowChange
<1>5. CASE \A w \in Workers : ~Start(w)
  BY <1>4, <1>5, OwnersKept, OnlyStartRuns DEF TokenInv
<1>6. ASSUME NEW w \in Workers, Start(w)
      PROVE  TokenInv'
  <2>1. CASE cancel[w] = "none"
    <3>1. /\ owner'[w] = nextOwner /\ nextOwner' = nextOwner + 1
          /\ \A v \in Workers \ {w} : owner'[v] = owner[v] /\ pc'[v] = pc[v]
      BY <1>1, <1>6, <2>1 DEF Start, Goto, TypeOK
    <3>2. \A v \in Workers : owner'[v] < nextOwner'
      BY <1>1, <3>1 DEF TokenInv
    <3>3. \A v \in Workers : pc'[v] \in Running => owner'[v] # NoToken
      BY <1>2, <3>1 DEF TokenInv, NoToken
    <3>4. \A v \in Workers \ {w} : owner'[v] # owner'[w]
      BY <1>1, <3>1 DEF TokenInv
    <3>5. QED
      BY <1>4, <3>1, <3>2, <3>3, <3>4 DEF TokenInv
  <2>2. CASE cancel[w] # "none"
    <3>1. owner' = owner /\ nextOwner' = nextOwner
      BY <1>6, <2>2 DEF Start
    <3>2. \A v \in Workers : pc'[v] \in Running => pc[v] \in Running
      BY <1>6, <2>2 DEF Start, Goto, TypeOK, Running
    <3>3. QED
      BY <1>4, <3>1, <3>2 DEF TokenInv
  <2>3. QED
    BY <2>1, <2>2
<1>7. QED
  BY <1>5, <1>6

-----------------------------------------------------------------------------
(* The token on a row and the attempt in flight.                            *)

\* Both ownership invariants: the second one needs the first, which says that
\* the row of a last attempt has no attempt left for a rival to begin.
OwnershipInv == OwnerHoldsNewestAttempt /\ LastAttemptIsExclusive

\* At first nothing is in flight.
LEMMA OwnershipInit == Init => OwnershipInv
  BY DEF Init, OwnershipInv, OwnerHoldsNewestAttempt, LastAttemptIsExclusive,
         InFlight

\* A worker in flight was already in flight with the same record and attempt,
\* or it has just begun the attempt.
LEMMA FlightSteps ==
    ASSUME TypeOK, [Next]_vars, NEW w \in Workers, pc'[w] \in InFlight
    PROVE  /\ owner'[w] = owner[w]
           /\ \/ /\ pc[w] \in InFlight
                 /\ cur'[w] = cur[w] /\ attempt'[w] = attempt[w]
              \/ \E r \in Records : BeginPublish(w, r)
<1>1. CASE ~Sends
  <2>1. pc'[w] = pc[w] /\ cur'[w] = cur[w] /\ attempt'[w] = attempt[w]
    BY <1>1, QuietSteps DEF QuietStep, QuietWorkers
  <2>2. ASSUME NEW v \in Workers, Start(v)
        PROVE  owner'[w] = owner[w]
    BY <2>1, <2>2 DEF Start, TypeOK, InFlight
  <2>3. QED
    BY <2>1, <2>2, OwnersKept
<1>2. ASSUME NEW v \in Workers, NEW r \in Records, BeginPublish(v, r), v # w
      PROVE  /\ owner'[w] = owner[w] /\ pc'[w] = pc[w]
             /\ cur'[w] = cur[w] /\ attempt'[w] = attempt[w]
  BY <1>2 DEF BeginPublish, Goto, TypeOK
<1>3. ASSUME NEW r \in Records, BeginPublish(w, r)
      PROVE  owner'[w] = owner[w]
  BY <1>3 DEF BeginPublish
<1>4. ASSUME NEW v \in Workers, PublishConfirmed(v) \/ PublishFailed(v)
      PROVE  /\ owner'[w] = owner[w] /\ pc[w] \in InFlight
             /\ cur'[w] = cur[w] /\ attempt'[w] = attempt[w]
  BY <1>4 DEF PublishConfirmed, PublishFailed, Goto, TypeOK, InFlight
<1>5. QED
  BY <1>1, <1>2, <1>3, <1>4 DEF Sends

\* Whoever changes the row of an attempt in flight does not carry its token.
LEMMA OwnershipStep ==
    ASSUME TypeOK, TypeOK', TokenInv, OwnershipInv, [Next]_vars
    PROVE  OwnershipInv'
<1> DEFINE Owned(w, r) ==
        /\ row'[r].token = owner'[w] => attempt'[w] = row'[r].attempts
        /\ attempt'[w] = MaxAttempts =>
              row'[r].status = "pending" /\ row'[r].token = owner'[w]
<1>1. ASSUME NEW w \in Workers, NEW r \in Records, BeginPublish(w, r)
      PROVE  /\ cur'[w] = r /\ attempt'[w] = row'[r].attempts
             /\ row'[r].status = "pending" /\ row'[r].token = owner'[w]
  <2>1. /\ cur'[w] = r /\ attempt'[w] = row[r].attempts + 1 /\ owner' = owner
        /\ row' = Begun(r)
        /\ row[r].status = "pending" /\ row[r].token = owner[w]
    BY <1>1 DEF BeginPublish, BeginMatches, TypeOK
  <2>2. row \in [Records -> Row]
    BY DEF TypeOK
  <2>3. QED
    BY <2>1, <2>2, StatementFields
<1>2. ASSUME NEW v \in Workers, NEW w \in Workers, v # w,
             pc[v] \in Running, pc[w] \in Running
      PROVE  owner[v] # owner[w]
  BY <1>2 DEF TokenInv
<1>3. ASSUME NEW w \in Workers, NEW r \in Records,
             pc[w] \in InFlight, pc'[w] \in InFlight, cur[w] = r, cur'[w] = r,
             owner'[w] = owner[w], attempt'[w] = attempt[w]
      PROVE  Owned(w, r)
  <2>1. /\ row[r].token = owner[w] => attempt[w] = row[r].attempts
        /\ attempt[w] = MaxAttempts =>
              row[r].status = "pending" /\ row[r].token = owner[w]
    BY <1>3 DEF OwnershipInv, OwnerHoldsNewestAttempt, LastAttemptIsExclusive
  <2>2. pc[w] \in Running /\ owner[w] # NoToken /\ pc[w] \notin {"claim", "begin"}
    BY <1>3 DEF TokenInv, Running, InFlight
  <2>3. row[r].attempts \in Nat
    BY DEF TypeOK, Row
  <2>4. CASE Kept(r) \/ Appeared(r) \/ Deleted(r)
    BY <1>3, <2>1, <2>4 DEF Kept, Appeared, Deleted
  <2>5. ASSUME NEW v \in Workers, Taken(v, r)
        PROVE  Owned(w, r)
    <3>1. v # w /\ pc[v] \in Running
      BY <2>2, <2>5 DEF Taken, Running
    <3>2. row'[r].token # owner[w]
      BY <1>2, <2>2, <2>5, <3>1 DEF Taken
    <3>3. attempt[w] # MaxAttempts
      BY <2>1, <2>3, <2>5 DEF Taken, Eligible
    <3>4. QED
      BY <1>3, <3>2, <3>3
  <2>6. ASSUME NEW v \in Workers, BegunBy(v, r)
        PROVE  Owned(w, r)
    <3>1. v # w /\ pc[v] \in Running
      BY <2>2, <2>6 DEF BegunBy, Running
    <3>2. row[r].token # owner[w] /\ row'[r].token = row[r].token
      BY <1>2, <2>2, <2>6, <3>1 DEF BegunBy, BeginMatches
    <3>3. QED
      BY <1>3, <2>1, <3>2
  <2>7. ASSUME NEW v \in Workers, SettledBy(v, r)
        PROVE  Owned(w, r)
    <3>1. v # w /\ pc[v] \in Running
      BY <1>3, <2>7 DEF SettledBy, Running, InFlight
    <3>2. row[r].token # owner[w] /\ row'[r].token = NoToken
      BY <1>2, <2>2, <2>7, <3>1 DEF SettledBy, SettleMatches
    <3>3. QED
      BY <1>3, <2>1, <2>2, <3>2
  <2>8. RowChange(r)
    BY RowChanges
  <2>9. QED
    BY <2>4, <2>5, <2>6, <2>7, <2>8 DEF RowChange
<1>4. ASSUME NEW w \in Workers, pc'[w] \in InFlight
      PROVE  Owned(w, cur'[w])
  <2>1. cur'[w] \in Records
    BY <1>4 DEF TypeOK
  <2>2. ASSUME NEW r \in Records, BeginPublish(w, r)
        PROVE  Owned(w, cur'[w])
    BY <1>1, <2>2
  <2>3. CASE /\ pc[w] \in InFlight /\ owner'[w] = owner[w]
             /\ cur'[w] = cur[w] /\ attempt'[w] = attempt[w]
    BY <1>3, <1>4, <2>1, <2>3
  <2>4. QED
    BY <1>4, <2>2, <2>3, FlightSteps
<1>5. QED
  BY <1>4 DEF OwnershipInv, OwnerHoldsNewestAttempt, LastAttemptIsExclusive

-----------------------------------------------------------------------------
(* The theorems.                                                            *)

\* The inductive invariant of the relay.
IInv == TypeOK /\ AttemptsInv /\ ConfirmedInv /\ MarksInv /\ TokenInv
               /\ OwnershipInv

\* Every reachable state satisfies the inductive invariant.
THEOREM Inductive == Spec => []IInv
<1>1. Init => IInv
  BY TypeInit, AttemptsInit, ConfirmedInit, MarksInit, TokenInit, OwnershipInit
     DEF IInv
<1>2. IInv /\ [Next]_vars => IInv'
  <2> SUFFICES ASSUME IInv, [Next]_vars PROVE IInv'
    OBVIOUS
  <2>1. TypeOK'
    BY TypeStep DEF IInv
  <2>2. QED
    BY <2>1, AttemptsStep, ConfirmedStep, MarksStep, TokenStep, OwnershipStep
       DEF IInv
<1>3. QED
  BY <1>1, <1>2, PTL DEF Spec

\* The variables of the table, the workers and the histories keep their types;
\* in particular no publish_attempts ever exceeds relay_max_publish_attempts.
THEOREM TypeCorrect == Spec => []TypeOK
<1>1. IInv => TypeOK
  BY DEF IInv
<1>2. QED
  BY <1>1, Inductive, PTL

\* No row is marked delivered, or deleted by cleanup, before the broker has
\* confirmed a copy of its event.
THEOREM NoLoss == Spec => []NoEventLost
<1>1. IInv => NoEventLost
  BY DEF IInv, ConfirmedInv
<1>2. QED
  BY <1>1, Inductive, PTL

\* Every copy at the broker was paid for by an attempt of its own, counted in
\* the table before the copy was sent.
THEOREM CopiesArePaidFor == Spec => []EachCopyHasItsAttempt
<1>1. IInv => EachCopyHasItsAttempt
  BY DEF IInv, AttemptsInv, EachCopyHasItsAttempt, InFlightOn, InFlight
<1>2. QED
  BY <1>1, Inductive, PTL

\* Of two copies of an event at most one belongs to a proven delivered mark.
THEOREM DuplicatesExplained == Spec => []DuplicatesAccounted
<1>1. IInv => DuplicatesAccounted
  <2> SUFFICES ASSUME MarksInv PROVE DuplicatesAccounted
    BY DEF IInv
  <2>1. ASSUME NEW r \in Records, NEW a \in published[r], NEW b \in published[r],
               a # b
        PROVE  \E c \in {a, b} : c \in unproven[r] \/ Marking(r, c)
    BY <2>1 DEF MarksInv
  <2>2. QED
    BY <2>1 DEF DuplicatesAccounted, Marking
<1>2. QED
  BY <1>1, Inductive, PTL

\* The worker a row's claim token names holds the newest attempt of the row.
THEOREM OwnerIsNewest == Spec => []OwnerHoldsNewestAttempt
<1>1. IInv => OwnerHoldsNewestAttempt
  BY DEF IInv, OwnershipInv
<1>2. QED
  BY <1>1, Inductive, PTL

\* Nobody can take a row from the worker that makes its last attempt.
THEOREM LastAttemptExclusive == Spec => []LastAttemptIsExclusive
<1>1. IInv => LastAttemptIsExclusive
  BY DEF IInv, OwnershipInv
<1>2. QED
  BY <1>1, Inductive, PTL

\* mark_outbox_delivered settles a row only for the worker whose token the row
\* carries, and only after that worker's own confirmed publish.
THEOREM MarkIsFenced == Spec => OnlyTheOwnerMarks
<1>1. TypeOK /\ [Next]_vars =>
        [\A r \in Records :
            row[r].status = "pending" /\ row'[r].status = "delivered" =>
                \E w \in Workers : /\ pc[w] = "mark" /\ cur[w] = r
                                   /\ owner[w] = row[r].token]_vars
  BY RowLives DEF RowLife
<1>2. QED
  BY <1>1, TypeCorrect, PTL DEF Spec, OnlyTheOwnerMarks

\* A row's life is one-way: attempts never decrease, settled rows keep their
\* attempts and carry no token, undelivered rows are never deleted.
THEOREM RowsAreOneWay == Spec => RowHistoryIsOneWay
<1> DEFINE OneWay(r) ==
          /\ row'[r].attempts >= row[r].attempts
          /\ row[r].status = "pending" =>
                row'[r].status \in {"pending", "delivered"}
          /\ row[r].status \in {"delivered", "deleted"} =>
                /\ row'[r].status \in {row[r].status, "deleted"}
                /\ row'[r].attempts = row[r].attempts
                /\ row'[r].token = NoToken
<1>1. IInv /\ [Next]_vars => [\A r \in Records : OneWay(r)]_vars
  <2> SUFFICES ASSUME IInv, [Next]_vars, NEW r \in Records PROVE OneWay(r)
    OBVIOUS
  <2>1. row[r].attempts \in Nat /\ RowChange(r) /\ RowLife(r)
    BY RowChanges, RowLives DEF IInv, TypeOK, Row
  <2>2. row'[r].attempts >= row[r].attempts
    BY <2>1 DEF RowChange, Kept, Appeared, Deleted, Taken, BegunBy, SettledBy
  <2>3. row[r].status \in {"delivered", "deleted"} => row[r].token = NoToken
    BY DEF IInv, TokenInv
  <2>4. QED
    BY <2>1, <2>2, <2>3 DEF RowLife
<1>2. QED
  BY <1>1, Inductive, PTL DEF Spec, RowHistoryIsOneWay

-----------------------------------------------------------------------------
(* Refinement.                                                              *)

\* Enqueue commits an event, a successful mark settles one and cleanup forgets
\* settled ones; nothing else changes the status of a row.
LEMMA StatusSteps ==
    ASSUME TypeOK, ConfirmedInv, [Next]_vars, ~Sends
    PROVE  [Outbox!Next]_(Outbox!outboxVars)
<1> DEFINE Status == [r \in Records |-> row[r].status]
<1>1. row \in [Records -> Row]
  BY DEF TypeOK
<1>2. published' = published /\ confirmed' = confirmed
  BY QuietSteps DEF QuietStep
<1>3. ASSUME Status' = Status
      PROVE  [Outbox!Next]_(Outbox!outboxVars)
  BY <1>2, <1>3 DEF Outbox!outboxVars
<1>4. ASSUME row' = row
      PROVE  [Outbox!Next]_(Outbox!outboxVars)
  BY <1>3, <1>4
<1>5. ASSUME NEW q \in Records, Enqueue(q)
      PROVE  [Outbox!Next]_(Outbox!outboxVars)
  <2>1. Status' = [Status EXCEPT ![q] = "pending"] /\ row[q].status = "absent"
    BY <1>1, <1>5 DEF Enqueue, Write, Row
  <2>2. Outbox!Commit(q)
    BY <1>2, <2>1 DEF Outbox!Commit
  <2>3. QED
    BY <2>2 DEF Outbox!Next
<1>6. ASSUME NEW q \in Records, ExpireLease(q) \/ BecomeAvailable(q)
      PROVE  [Outbox!Next]_(Outbox!outboxVars)
  <2>1. \A r \in Records : row'[r].status = row[r].status
    BY <1>1, <1>6 DEF ExpireLease, BecomeAvailable, Write, Row
  <2>2. QED
    BY <1>3, <2>1
<1>7. ASSUME NEW w \in Workers, Loop(w)
      PROVE  [Outbox!Next]_(Outbox!outboxVars)
  <2>1. ASSUME NEW S \in SUBSET Expirable, row' = Cleanup(S)
        PROVE  [Outbox!Next]_(Outbox!outboxVars)
    <3>1. S \in SUBSET Records /\ \A r \in S : Status[r] = "delivered"
      BY <2>1 DEF Expirable
    <3>2. Status' = [r \in Records |-> IF r \in S THEN "deleted" ELSE Status[r]]
      BY <1>1, <2>1 DEF Cleanup, Row
    <3>3. Outbox!Forget(S)
      BY <1>2, <3>1, <3>2 DEF Outbox!Forget
    <3>4. QED
      BY <3>1, <3>3 DEF Outbox!Next
  <2>2. QED
    BY <1>4, <1>7, <2>1 DEF Loop
<1>8. ASSUME NEW B, NEW t, row' = Claimed(B, t)
      PROVE  [Outbox!Next]_(Outbox!outboxVars)
  <2>1. \A r \in Records : row'[r].status = row[r].status
    BY <1>1, <1>8 DEF Claimed, Row
  <2>2. QED
    BY <1>3, <2>1
<1>9. ASSUME NEW q \in Records, row' = Begun(q) \/ row' = Released(q)
      PROVE  [Outbox!Next]_(Outbox!outboxVars)
  <2>1. ASSUME NEW r \in Records PROVE row'[r].status = row[r].status
    <3>1. CASE row' = Begun(q)
      BY <1>1, <3>1, StatementFields
    <3>2. CASE row' = Released(q)
      BY <1>1, <3>2, StatementFields
    <3>3. QED
      BY <1>9, <3>1, <3>2
  <2>2. QED
    BY <1>3, <2>1
<1>10. ASSUME NEW w \in Workers, pc[w] = "mark",
              SettleMatches(cur[w], owner[w]), row' = Delivered(cur[w])
       PROVE  [Outbox!Next]_(Outbox!outboxVars)
  <2>1. PICK q \in Records : q = cur[w]
    BY <1>10 DEF TypeOK, InFlight
  <2>2. confirmed[q] /\ row[q].status = "pending" /\ row' = Delivered(q)
    BY <1>10, <2>1 DEF ConfirmedInv, SettleMatches
  <2>3. Status' = [Status EXCEPT ![q] = "delivered"]
    BY <1>1, <2>2 DEF Delivered, Write, Row
  <2>4. Outbox!Settle(q)
    BY <1>2, <2>2, <2>3 DEF Outbox!Settle
  <2>5. QED
    BY <2>4 DEF Outbox!Next
<1>11. ASSUME NEW w \in Workers, MarkDelivered(w) \/ MarkFailed(w)
       PROVE  [Outbox!Next]_(Outbox!outboxVars)
  BY <1>4, <1>10, <1>11 DEF MarkDelivered, MarkFailed
<1>12. ASSUME NEW w \in Workers, RecordFailure(w)
       PROVE  [Outbox!Next]_(Outbox!outboxVars)
  <2>1. cur[w] \in Records
    BY <1>12 DEF RecordFailure, TypeOK, InFlight
  <2>2. QED
    BY <1>4, <1>9, <1>12, <2>1 DEF RecordFailure
<1>13. ASSUME NEW w \in Workers, Claim(w) \/ ClaimError(w)
       PROVE  [Outbox!Next]_(Outbox!outboxVars)
  BY <1>4, <1>8, <1>13 DEF Claim, ClaimError
<1>14. ASSUME NEW w \in Workers, NEW q \in Records,
              BeginError(w, q)
       PROVE  [Outbox!Next]_(Outbox!outboxVars)
  BY <1>4, <1>9, <1>14 DEF BeginError
<1>15. CASE \/ UNCHANGED vars
            \/ \E w \in Workers :
                  \/ StopAdmission(w) \/ RequestForce(w) \/ Interrupt(w)
                  \/ Crash(w) \/ Start(w) \/ ClaimOversized(w) \/ Count(w)
                  \/ EndBatch(w) \/ \E q \in Records : SkipStale(w, q)
  BY <1>4, <1>15 DEF vars, StopAdmission, RequestForce, Interrupt, Crash, Start,
     ClaimOversized, Count, EndBatch, SkipStale
<1>16. QED
  BY <1>5, <1>6, <1>7, <1>11, <1>12, <1>13, <1>14, <1>15 DEF Next, Work, Sends

\* A publish sends a copy whose number is new and within the budget.
LEMMA SendSteps ==
    ASSUME TypeOK, AttemptsInv, Sends
    PROVE  [Outbox!Next]_(Outbox!outboxVars)
<1> DEFINE Status == [r \in Records |-> row[r].status]
<1>1. ASSUME NEW w \in Workers, NEW r \in Records, BeginPublish(w, r)
      PROVE  [Outbox!Next]_(Outbox!outboxVars)
  <2>1. row \in [Records -> Row]
    BY DEF TypeOK
  <2>2. \A q \in Records : row'[q].status = row[q].status
    BY <1>1, <2>1 DEF BeginPublish, Begun, Write, Row
  <2>3. QED
    BY <1>1, <2>2 DEF BeginPublish, brokerVars, Outbox!outboxVars
<1>2. ASSUME NEW w \in Workers, PublishConfirmed(w) \/ PublishFailed(w)
      PROVE  [Outbox!Next]_(Outbox!outboxVars)
  <2>1. row' = row /\ pc[w] = "publish"
    BY <1>2 DEF PublishConfirmed, PublishFailed
  <2>2. cur[w] \in Records /\ attempt[w] \in 1 .. row[cur[w]].attempts
    BY <2>1 DEF AttemptsInv, TypeOK, InFlight
  <2>3. row[cur[w]].attempts \in 0 .. MaxAttempts
    BY <2>2 DEF TypeOK, Row
  <2>4. attempt[w] \in 1 .. MaxAttempts /\ row[cur[w]].attempts # 0
    BY <2>2, <2>3
  <2>5. row[cur[w]].status # "absent" /\ attempt[w] \notin published[cur[w]]
    BY <2>1, <2>2, <2>4 DEF AttemptsInv
  <2>6. CASE published' = published /\ confirmed' = confirmed
    BY <2>1, <2>6 DEF Outbox!outboxVars
  <2>7. CASE /\ published' = Noted(published, w)
             /\ \/ confirmed' = confirmed
                \/ confirmed' = [confirmed EXCEPT ![cur[w]] = TRUE]
    <3>1. Outbox!Send(cur[w], attempt[w])
      BY <2>1, <2>2, <2>5, <2>7 DEF Noted, Outbox!Send
    <3>2. QED
      BY <2>2, <2>4, <3>1 DEF Outbox!Next
  <2>8. QED
    BY <1>2, <2>6, <2>7 DEF PublishConfirmed, PublishFailed
<1>3. QED
  BY <1>1, <1>2 DEF Sends

\* The relay, with its workers, leases, tokens, lost replies and crashes,
\* implements the abstract at-least-once outbox.
THEOREM RelayImplementsOutbox == Spec => ImplementsAtLeastOnce
<1>1. Init => Outbox!Init
  BY DEF Init, Outbox!Init
<1>2. IInv /\ [Next]_vars => [Outbox!Next]_(Outbox!outboxVars)
  BY StatusSteps, SendSteps DEF IInv
<1>3. QED
  BY <1>1, <1>2, Inductive, PTL DEF Spec, ImplementsAtLeastOnce, Outbox!Spec
=============================================================================
