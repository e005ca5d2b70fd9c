-------------------------- MODULE TransactionalInbox --------------------------
(***************************************************************************)
(* The transactional inbox of lily_queue over PostgreSQL                   *)
(* (transactional_postgresql/storage.rs): execute_before, which claims an  *)
(* inbox identity, runs the handler and completes the inbox row in one     *)
(* database transaction; and the TransactionTracker that admits those      *)
(* transactions and drains them at shutdown.                               *)
(*                                                                         *)
(* An execution is one call of execute_before for one delivery of an       *)
(* event: redeliveries and duplicates of an event are further executions   *)
(* with the same key.  Each has a waiter (the delivery's future) and an    *)
(* owner task that outlives it.                                            *)
(*                                                                         *)
(* What is abstracted:                                                     *)
(*   - a key is a (handler_identity, event_id) pair; LockOf is the 64-bit  *)
(*     digest used as advisory key, so two keys may share a lock;          *)
(*   - the handler's writes and the outbox rows it enqueues are one fact,  *)
(*     wrote: they commit or vanish with the transaction;                  *)
(*   - a connection that is lost or dropped leaves its transaction to the  *)
(*     server, which ends it later: by abort, or either way if a COMMIT    *)
(*     had been sent;                                                      *)
(*   - deadlines (of the delivery, of the drain, of the force cutoff) are  *)
(*     nondeterminism;                                                     *)
(*   - atomics are sequentially consistent: a mutex is taken between every *)
(*     store of accepting and the drain's load of active.                  *)
(* A definition named Mut... is a plausible bug of the definition after    *)
(* it; nothing uses it but the mutation runs of PROJECT.json.              *)
(***************************************************************************)
EXTENDS Integers, FiniteSets

CONSTANTS
    Executions,     \* calls of execute_before, each made at most once
    Keys,           \* inbox identities
    LockOf,         \* LockOf[k]: the advisory lock key of k
    MaxCrashes      \* bound on process crashes

ASSUME FiniteExecutions  == IsFiniteSet(Executions)
ASSUME LockAssumption    == LockOf \in [Keys -> Nat]
ASSUME CrashesAssumption == MaxCrashes \in Nat

VARIABLES
    accepting,   \* tracker.accepting
    active,      \* tracker.active
    forced,      \* the owners' force token
    interrupted, \* owners.interrupted
    panicked,    \* owners.tasks.panicked
    drain,       \* where drain_transactions is
    wake,        \* the drain's enabled notification has been received
    waiter,      \* where each execute_before is
    owner,       \* where each owner task is
    key,         \* the identity of each execution
    claim,       \* what claim_inbox answered
    result,      \* what the owner sent to its waiter
    txn,         \* PostgreSQL: state of the execution's transaction
    locked,      \* PostgreSQL: transactions holding their advisory lock
    pending,     \* PostgreSQL: the inbox row the transaction has written
    wrote,       \* PostgreSQL: the transaction has the handler's writes
    row,         \* the committed inbox table
    effects,     \* how often the handler's writes for a key were committed
    deleted,     \* how often the row of a key was removed by cleanup
    cut,         \* executions of this process interrupted or panicked
    crashes      \* process crashes so far

trackerVars == <<accepting, active, forced>>
drainVars   == <<interrupted, panicked, drain, wake, cut>>
execVars    == <<waiter, owner, key, claim, result>>
txnVars     == <<txn, locked, pending, wrote>>
tableVars   == <<row, effects, deleted>>
vars == <<accepting, active, forced, interrupted, panicked, drain, wake,
          waiter, owner, key, claim, result, txn, locked, pending, wrote,
          row, effects, deleted, cut, crashes>>

\* Owners inside drive_transaction, which watches the waiter's cancellation.
Body == {"lock", "claim", "operate", "complete"}
\* Owners inside owners.run, which may drop the whole transaction.
Running == {"connect", "commit", "rollback"} \union Body

Init ==
    /\ accepting = TRUE /\ active = 0 /\ forced = FALSE
    /\ interrupted = FALSE /\ panicked = FALSE
    /\ drain = "serving" /\ wake = FALSE
    /\ waiter = [e \in Executions |-> "idle"]
    /\ owner = [e \in Executions |-> "none"]
    /\ key \in [Executions -> Keys]
    /\ claim = [e \in Executions |-> "none"]
    /\ result = [e \in Executions |-> "none"]
    /\ txn = [e \in Executions |-> "none"]
    /\ locked = {}
    /\ pending = [e \in Executions |-> "none"]
    /\ wrote = [e \in Executions |-> FALSE]
    /\ row = [k \in Keys |-> "absent"]
    /\ effects = [k \in Keys |-> 0]
    /\ deleted = [k \in Keys |-> 0]
    /\ cut = {} /\ crashes = 0

GotoWaiter(e, label) == waiter' = [waiter EXCEPT ![e] = label]
GotoOwner(e, label)  == owner' = [owner EXCEPT ![e] = label]
Send(e, value)       == result' = [result EXCEPT ![e] = value]

-----------------------------------------------------------------------------
(* TransactionTracker: admission.                                          *)

MutNotifyAwaiting == wake' = (wake \/ drain = "await")

\* changed.notify_waiters: reaches a drain whose notification is enabled.
NotifyWaiters == wake' = (wake \/ drain \in {"tasks", "count", "park", "await"})

\* finish: leave, and tell the drain when the last one has left.
Finish ==
    /\ active' = active - 1
    /\ IF active = 1 THEN NotifyWaiters ELSE UNCHANGED wake

\* begin, first look at accepting.
BeginCheck(e) ==
    /\ waiter[e] = "idle"
    /\ GotoWaiter(e, IF accepting THEN "checked" ELSE "rejected")
    /\ UNCHANGED <<trackerVars, drainVars, owner, key, claim, result, txnVars,
                   tableVars, crashes>>

BeginCount(e) ==
    /\ waiter[e] = "checked"
    /\ active' = active + 1
    /\ GotoWaiter(e, "counted")
    /\ UNCHANGED <<accepting, forced, drainVars, owner, key, claim, result,
                   txnVars, tableVars, crashes>>

MutBeginUnchecked(e) ==
    /\ waiter[e] = "counted"
    /\ GotoWaiter(e, "admitted")
    /\ UNCHANGED <<active, wake>>
    /\ UNCHANGED <<accepting, forced, interrupted, panicked, drain, cut, owner,
                   key, claim, result, txnVars, tableVars, crashes>>

\* begin, second look at accepting: back out if it closed in between.
BeginRecheck(e) ==
    /\ waiter[e] = "counted"
    /\ IF accepting THEN GotoWaiter(e, "admitted") /\ UNCHANGED <<active, wake>>
                    ELSE GotoWaiter(e, "rejected") /\ Finish
    /\ UNCHANGED <<accepting, forced, interrupted, panicked, drain, cut, owner,
                   key, claim, result, txnVars, tableVars, crashes>>

\* The lease moves into the owner task, adopted before it is first polled.
Spawn(e) ==
    /\ waiter[e] = "admitted"
    /\ GotoWaiter(e, "waiting")
    /\ GotoOwner(e, "connect")
    /\ UNCHANGED <<trackerVars, drainVars, key, claim, result, txnVars,
                   tableVars, crashes>>

-----------------------------------------------------------------------------
(* The database transaction.                                               *)

\* What a transaction does to the database when it ends.
Forgets(e) ==
    /\ txn' = [txn EXCEPT ![e] = "none"]
    /\ locked' = locked \ {e}
    /\ pending' = [pending EXCEPT ![e] = "none"]
    /\ wrote' = [wrote EXCEPT ![e] = FALSE]

Applies(e) ==
    /\ row' = IF pending[e] = "none" THEN row
              ELSE [row EXCEPT ![key[e]] = pending[e]]
    /\ effects' = IF wrote[e] THEN [effects EXCEPT ![key[e]] = @ + 1] ELSE effects
    /\ UNCHANGED deleted

\* A pooled connection, BEGIN, and the transaction's lock_timeout.
Connect(e) ==
    /\ owner[e] = "connect"
    /\ txn' = [txn EXCEPT ![e] = "open"]
    /\ GotoOwner(e, "lock")
    /\ UNCHANGED <<trackerVars, drainVars, waiter, key, claim, result, locked,
                   pending, wrote, tableVars, crashes>>

\* No connection, or the waiter is gone before there is one.
ConnectFailed(e) ==
    /\ owner[e] = "connect"
    /\ Send(e, "error")
    /\ GotoOwner(e, "sent")
    /\ UNCHANGED <<trackerVars, drainVars, waiter, key, claim, txnVars,
                   tableVars, crashes>>

Free(e) == \A f \in locked : LockOf[key[f]] # LockOf[key[e]]

\* claim_inbox: pg_try_advisory_xact_lock, answered at once.
TryLock(e) ==
    /\ owner[e] = "lock"
    /\ \/ /\ Free(e)
          /\ locked' = locked \union {e}
          /\ GotoOwner(e, "claim")
          /\ UNCHANGED claim
       \/ /\ ~Free(e)
          /\ claim' = [claim EXCEPT ![e] = "inProgress"]
          /\ GotoOwner(e, "commit")
          /\ UNCHANGED locked
    /\ UNCHANGED <<trackerVars, drainVars, waiter, key, result, txn, pending,
                   wrote, tableVars, crashes>>

\* Somebody else's uncommitted row: the unique index would make us wait.
Conflicts(e) == {f \in Executions \ {e} : /\ key[f] = key[e]
                                          /\ pending[f] # "none"}

MutClaimable(state) ==
    IF state = "processing" THEN {"acquired", "inProgress"} ELSE {"acquired"}

\* claim_inbox: insert, reclaim an expired claim, or report what is there.
Claimable(state) ==
    CASE state = "absent"     -> {"acquired"}
      [] state = "processing" -> {"acquired", "inProgress"}
      [] state = "completed"  -> {"completed"}

ClaimInbox(e) ==
    /\ owner[e] = "claim"
    /\ Conflicts(e) = {}
    /\ \E answer \in Claimable(row[key[e]]) :
          /\ claim' = [claim EXCEPT ![e] = answer]
          /\ IF answer = "acquired"
               THEN /\ pending' = [pending EXCEPT ![e] = "processing"]
                    /\ GotoOwner(e, "operate")
               ELSE /\ GotoOwner(e, "commit")
                    /\ UNCHANGED pending
    /\ UNCHANGED <<trackerVars, drainVars, waiter, key, result, txn, locked,
                   wrote, tableVars, crashes>>

\* The handler succeeds; its writes and outbox rows are in the transaction.
Operate(e) ==
    /\ owner[e] = "operate"
    /\ wrote' = [wrote EXCEPT ![e] = TRUE]
    /\ GotoOwner(e, "complete")
    /\ UNCHANGED <<trackerVars, drainVars, waiter, key, claim, result, txn,
                   locked, pending, tableVars, crashes>>

\* complete_inbox: the row of our own claim turns completed.
CompleteInbox(e) ==
    /\ owner[e] = "complete"
    /\ pending[e] = "processing"
    /\ pending' = [pending EXCEPT ![e] = "completed"]
    /\ GotoOwner(e, "commit")
    /\ UNCHANGED <<trackerVars, drainVars, waiter, key, claim, result, txn,
                   locked, wrote, tableVars, crashes>>

\* The handler fails, a statement fails, or the waiter's cancellation is seen.
BodyFailed(e) ==
    /\ owner[e] \in Body
    /\ GotoOwner(e, "rollback")
    /\ UNCHANGED <<trackerVars, drainVars, waiter, key, claim, result, txnVars,
                   tableVars, crashes>>

\* ROLLBACK; on a lost connection it is left to the server.
Rollback(e) ==
    /\ owner[e] = "rollback"
    /\ \/ Forgets(e)
       \/ txn' = [txn EXCEPT ![e] = "orphan"] /\ UNCHANGED <<locked, pending, wrote>>
    /\ Send(e, "error")
    /\ GotoOwner(e, "sent")
    /\ UNCHANGED <<trackerVars, drainVars, waiter, key, claim, tableVars,
                   crashes>>

MutSentAlways(e) == IF claim[e] = "inProgress" THEN "completed" ELSE
                    IF claim[e] = "acquired" THEN "applied" ELSE claim[e]

\* TransactionalExecution: what a committed transaction reports.
Executed(e) == IF claim[e] = "acquired" THEN "applied" ELSE claim[e]

Commit(e) ==
    /\ owner[e] = "commit"
    /\ Applies(e)
    /\ Forgets(e)
    /\ Send(e, Executed(e))
    /\ GotoOwner(e, "sent")
    /\ UNCHANGED <<trackerVars, drainVars, waiter, key, claim, crashes>>

\* COMMIT was sent and its answer lost: the server decides, now or later.
CommitLost(e) ==
    /\ owner[e] = "commit"
    /\ txn' = [txn EXCEPT ![e] = "inDoubt"]
    /\ Send(e, "error")
    /\ GotoOwner(e, "sent")
    /\ UNCHANGED <<trackerVars, drainVars, waiter, key, claim, locked, pending,
                   wrote, tableVars, crashes>>

\* A connection dropped by its owner.
Dropped(e) ==
    txn' = [txn EXCEPT ![e] = CASE owner[e] = "commit" -> "inDoubt"
                                [] owner[e] = "connect" -> "none"
                                [] OTHER -> "orphan"]

\* owners.run: the delivery's deadline or the force cutoff drops the future.
Interrupt(e) ==
    /\ owner[e] \in Running
    /\ interrupted' = TRUE
    /\ cut' = cut \union {e}
    /\ Dropped(e)
    /\ Send(e, "error")
    /\ GotoOwner(e, "sent")
    /\ UNCHANGED <<trackerVars, panicked, drain, wake, waiter, key, claim,
                   locked, pending, wrote, tableVars, crashes>>

\* The owner task unwinds; nothing is sent.
Panic(e) ==
    /\ owner[e] = "operate"
    /\ cut' = cut \union {e}
    /\ Dropped(e)
    /\ GotoOwner(e, "unwinding")
    /\ UNCHANGED <<trackerVars, interrupted, panicked, drain, wake, waiter, key,
                   claim, result, locked, pending, wrote, tableVars, crashes>>

\* The server ends a transaction whose client is gone.
ServerAborts(e) ==
    /\ txn[e] \in {"orphan", "inDoubt"}
    /\ Forgets(e)
    /\ UNCHANGED <<trackerVars, drainVars, execVars, tableVars, crashes>>

ServerCommits(e) ==
    /\ txn[e] = "inDoubt"
    /\ Applies(e)
    /\ Forgets(e)
    /\ UNCHANGED <<trackerVars, drainVars, execVars, crashes>>

\* cleanup: a completed row past its retention is deleted.
Cleanup(k) ==
    /\ row[k] = "completed"
    /\ row' = [row EXCEPT ![k] = "absent"]
    /\ deleted' = [deleted EXCEPT ![k] = @ + 1]
    /\ UNCHANGED <<trackerVars, drainVars, execVars, txnVars, effects, crashes>>

-----------------------------------------------------------------------------
(* The end of the owner task and its waiter.                               *)

\* The lease is dropped with the task's locals.
DropLease(e) ==
    /\ owner[e] \in {"sent", "unwinding"}
    /\ Finish
    /\ GotoOwner(e, IF owner[e] = "sent" THEN "returned" ELSE "unwound")
    /\ UNCHANGED <<accepting, forced, interrupted, panicked, drain, cut, waiter,
                   key, claim, result, txnVars, tableVars, crashes>>

\* The join completes.  A panic is recorded when the receipt is reaped, before
\* anyone can find the task gone.
Terminate(e) ==
    /\ owner[e] \in {"returned", "unwound"}
    /\ panicked' = (panicked \/ owner[e] = "unwound")
    /\ GotoOwner(e, "terminal")
    /\ UNCHANGED <<trackerVars, interrupted, drain, wake, cut, waiter, key,
                   claim, result, txnVars, tableVars, crashes>>

\* transactional_execution_result: Ok for applied and completed, else retry.
ExecutionResult(r) == IF r \in {"applied", "completed"} THEN "ok" ELSE "retry"

WaiterReturns(e) ==
    /\ waiter[e] = "waiting"
    /\ owner[e] = "terminal"
    /\ GotoWaiter(e, ExecutionResult(result[e]))
    /\ UNCHANGED <<trackerVars, drainVars, owner, key, claim, result, txnVars,
                   tableVars, crashes>>

\* The delivery's future is dropped; the owner goes on alone.
WaiterDropped(e) ==
    /\ waiter[e] = "waiting"
    /\ GotoWaiter(e, "gone")
    /\ UNCHANGED <<trackerVars, drainVars, owner, key, claim, result, txnVars,
                   tableVars, crashes>>

-----------------------------------------------------------------------------
(* Shutdown.                                                               *)

StopAdmission ==
    /\ accepting
    /\ accepting' = FALSE
    /\ drain' = "stopped"
    /\ NotifyWaiters
    /\ UNCHANGED <<active, forced, interrupted, panicked, cut, execVars,
                   txnVars, tableVars, crashes>>

\* request_force: admission ends, if it had not, and every owner gets a cutoff.
\* The lifecycle has given up the graceful drain, if one was waiting.
RequestForce ==
    /\ ~forced
    /\ drain \in {"serving", "stopped", "tasks", "await", "timedOut", "drained",
                 "incomplete"}
    /\ accepting' = FALSE
    /\ forced' = TRUE
    /\ drain' = (IF drain \in {"drained", "incomplete"} THEN drain ELSE "forcing")
    /\ NotifyWaiters
    /\ UNCHANGED <<active, interrupted, panicked, cut, execVars, txnVars,
                   tableVars, crashes>>

\* force_drain: drain_transactions once more, up to the hard deadline.
ForceDrain ==
    /\ drain = "forcing"
    /\ drain' = "stopped"
    /\ UNCHANGED <<trackerVars, interrupted, panicked, wake, cut, execVars,
                   txnVars, tableVars, crashes>>

\* OwnedTasks::reconciled: every receipt is terminal.
Reconciled == \A e \in Executions : owner[e] \in {"none", "terminal"}

\* How a drain that found nobody left ends.
DrainVerdict == IF panicked \/ interrupted THEN "incomplete" ELSE "drained"

\* drain_transactions: the shortcut, then the loop of enabling, joining every
\* owner, reading active, and waiting for the notification.
DrainStep ==
    /\ \/ drain = "stopped" /\ drain' = (IF active = 0 THEN "receipts" ELSE "loop")
       \/ drain = "receipts" /\ drain' = (IF Reconciled THEN "over" ELSE "loop")
       \/ drain = "loop" /\ drain' = "tasks"
       \/ drain = "tasks" /\ Reconciled /\ drain' = "count"
       \/ drain = "count" /\ drain' = (IF active = 0 THEN "over" ELSE "park")
       \/ drain = "park" /\ drain' = "await"
       \/ drain = "await" /\ wake /\ drain' = "loop"
       \/ drain = "over" /\ drain' = DrainVerdict
    /\ wake' = (IF drain = "loop" THEN FALSE ELSE wake)
    /\ UNCHANGED <<trackerVars, interrupted, panicked, cut, execVars, txnVars,
                   tableVars, crashes>>

\* The deadline of the graceful or of the forced drain passes.
DrainTimeout ==
    /\ drain \in {"tasks", "await"}
    /\ drain' = (IF forced THEN "expired" ELSE "timedOut")
    /\ UNCHANGED <<trackerVars, interrupted, panicked, wake, cut, execVars,
                   txnVars, tableVars, crashes>>

\* The process dies and is restarted: its connections are the server's now.
Crash ==
    /\ crashes < MaxCrashes
    /\ crashes' = crashes + 1
    /\ accepting' = TRUE /\ active' = 0 /\ forced' = FALSE
    /\ interrupted' = FALSE /\ panicked' = FALSE
    /\ drain' = "serving" /\ wake' = FALSE /\ cut' = {}
    /\ waiter' = [e \in Executions |->
                    IF waiter[e] \in {"checked", "counted", "admitted", "waiting"}
                      THEN "gone" ELSE waiter[e]]
    /\ owner' = [e \in Executions |-> IF owner[e] = "none" THEN "none"
                                                           ELSE "terminal"]
    /\ txn' = [e \in Executions |-> CASE owner[e] = "commit" -> "inDoubt"
                                      [] txn[e] = "open" -> "orphan"
                                      [] OTHER -> txn[e]]
    /\ UNCHANGED <<key, claim, result, locked, pending, wrote, tableVars>>

-----------------------------------------------------------------------------
Execute(e) ==
    \/ BeginCheck(e) \/ BeginCount(e) \/ BeginRecheck(e) \/ Spawn(e)
    \/ WaiterReturns(e) \/ WaiterDropped(e)

Own(e) ==
    \/ Connect(e) \/ ConnectFailed(e) \/ TryLock(e) \/ ClaimInbox(e)
    \/ Operate(e) \/ CompleteInbox(e) \/ BodyFailed(e) \/ Rollback(e)
    \/ Commit(e) \/ CommitLost(e) \/ Interrupt(e) \/ Panic(e)
    \/ DropLease(e) \/ Terminate(e)

Server == \/ \E e \in Executions : ServerAborts(e) \/ ServerCommits(e)
          \/ \E k \in Keys : Cleanup(k)

Shutdown == StopAdmission \/ RequestForce \/ DrainStep \/ DrainTimeout
                          \/ ForceDrain

\* What happens while the process serves, and what a shutdown adds.
Serve == \/ \E e \in Executions : Execute(e) \/ Own(e)
         \/ Server \/ Crash

Next == Serve \/ Shutdown

Spec == Init /\ [][Next]_vars

\* A called begin returns, the drain and every task that is past its
\* transaction are polled, the forced drain is called, and a forced owner meets
\* its cutoff.  Nothing is assumed of handlers, of the database or of an
\* unforced owner.
Fairness ==
    /\ WF_vars(DrainStep)
    /\ WF_vars(ForceDrain)
    /\ \A e \in Executions :
          /\ WF_vars(BeginCount(e) \/ BeginRecheck(e) \/ Spawn(e))
          /\ WF_vars(DropLease(e) \/ Terminate(e))
          /\ WF_vars(forced /\ Interrupt(e))

FairSpec == Spec /\ Fairness

-----------------------------------------------------------------------------
(* Properties.                                                             *)

\* Type correctness.
TypeOK ==
    /\ accepting \in BOOLEAN /\ active \in Nat /\ forced \in BOOLEAN
    /\ interrupted \in BOOLEAN /\ panicked \in BOOLEAN /\ wake \in BOOLEAN
    /\ drain \in {"serving", "stopped", "receipts", "loop", "tasks", "count",
                 "park", "await", "over", "timedOut", "forcing", "expired",
                 "incomplete", "drained"}
    /\ waiter \in [Executions -> {"idle", "checked", "counted", "admitted",
                                 "waiting", "rejected", "ok", "retry", "gone"}]
    /\ owner \in [Executions -> Running \union
                    {"none", "sent", "unwinding", "returned", "unwound",
                     "terminal"}]
    /\ key \in [Executions -> Keys]
    /\ claim \in [Executions -> {"none", "acquired", "completed", "inProgress"}]
    /\ result \in [Executions -> {"none", "applied", "completed", "inProgress",
                                 "error"}]
    /\ txn \in [Executions -> {"none", "open", "orphan", "inDoubt"}]
    /\ locked \subseteq Executions
    /\ pending \in [Executions -> {"none", "processing", "completed"}]
    /\ wrote \in [Executions -> BOOLEAN]
    /\ row \in [Keys -> {"absent", "processing", "completed"}]
    /\ effects \in [Keys -> Nat] /\ deleted \in [Keys -> Nat]
    /\ cut \subseteq Executions /\ crashes \in 0 .. MaxCrashes

\* Exactly once while retained: the handler's effects for a key are committed
\* exactly as often as its row was completed, so a second time only after
\* cleanup removed the row; and no claim ever outlives its transaction as a
\* durable half-done row.
ExactlyOnceWhileRetained ==
    \A k \in Keys :
        /\ row[k] # "processing"
        /\ effects[k] = deleted[k] + (IF row[k] = "completed" THEN 1 ELSE 0)

\* A delivery whose execution returned Ok, and so will be acknowledged, has
\* its effects committed: by itself or by the execution it is a duplicate of,
\* never by one that is still in doubt.
OkMeansApplied ==
    \A e \in Executions : waiter[e] = "ok" => effects[key[e]] > 0

\* The comment in claim_inbox: a concurrent duplicate is classified without
\* waiting for the first handler's transaction.  No INSERT of a claim ever
\* meets another transaction's uncommitted row of the same key, not even one
\* left behind on the server.
ClaimNeverWaits ==
    \A e \in Executions : owner[e] = "claim" => Conflicts(e) = {}

\* A drain that reports success has seen the last transaction end: no owner
\* is inside its transaction or holds its lease, none was interrupted, and no
\* execution that raced the end of admission starts one afterwards.
DrainedMeansFinalized ==
    drain = "drained" =>
        /\ ~interrupted
        /\ \A e \in Executions :
              /\ owner[e] \in {"none", "returned", "unwound", "terminal"}
              /\ waiter[e] # "admitted"

\* The executions that hold a TransactionLease, or are about to.
Leases == {e \in Executions :
              \/ waiter[e] \in {"counted", "admitted"}
              \/ owner[e] \in Running \union {"sent", "unwinding"}}

\* active counts the executions between begin and the end of their owner's
\* lease: none is forgotten, and none is left behind by a begin that backs out.
ActiveCountsLeases == active = Cardinality(Leases)

\* A forced drain ends, whatever handlers and the database do: no notification
\* is lost between reading active and waiting, so that its own hard deadline is
\* not what ends it.
ForceEndsDrain == forced ~> drain \in {"drained", "incomplete", "expired", "serving"}
-----------------------------------------------------------------------------
(* What the documentation says and the code does not do.                   *)

\* drain_transactions "waits until every admitted transaction commits or
\* rolls back".  A drain that reports success leaves no transaction open that
\* an owner abandoned by a panic or an interruption (the two cases it reports
\* as TransactionTerminationIncomplete).
DrainWaitsForRollback ==
    drain = "drained" => \A e \in cut : txn[e] = "none"
=============================================================================
