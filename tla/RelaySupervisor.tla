--------------------------- MODULE RelaySupervisor ---------------------------
(***************************************************************************)
(* One process's outbox relays (outbox_relay.rs): OutboxRelaySupervisor,   *)
(* its RelayWorkers, one per database cell, and the RelayLedger they share *)
(* and report readiness through.  OutboxRelay has what a worker does to    *)
(* its database; this module has who may run, when, and what the process   *)
(* says about it, at the granularity of the atomics and locks involved.    *)
(*                                                                         *)
(* Actors: a registration per worker, start(), the shutdown lifecycle      *)
(* (stop_admission, drain, request_force, force_drain, close, in that      *)
(* order, as lifecycle.rs registers them), the worker tasks, and the       *)
(* monitor waiting in wait_for_terminal_failure.                           *)
(*                                                                         *)
(* A worker's work is abstracted to its outcomes: an operation fails for   *)
(* a cause, a cause clears, the idle probe counts exhausted rows, the      *)
(* attempts of a row run out, the run ends.  Deadlines are nondeterminism: *)
(* a drain may time out whenever it is waiting.  Tracked transactional     *)
(* runtimes are left to TransactionalInbox.                                *)
(* A definition named Mut... is a plausible bug of the definition after    *)
(* it; nothing uses it but the mutation runs of PROJECT.json.              *)
(***************************************************************************)
EXTENDS Integers, FiniteSets

CONSTANTS Workers     \* one relay worker per database cell

\* The values of starter that are not a worker.
StarterStates == {"idle", "starting", "done", "rejected", "dropped"}

ASSUME WorkersAssumption ==
    /\ IsFiniteSet(Workers)
    /\ Workers \intersect StarterStates = {}

VARIABLES
    admissionStopped, \* the supervisor's flag
    started,          \* the supervisor's flag
    registered,       \* keys of the workers map
    reg,              \* where each registration is
    starter,          \* where start() is (a worker: awaiting its readiness)
    todo,             \* workers start() has still to start
    lifecycle,        \* where the shutdown lifecycle is
    cancelled,        \* workers whose admission token is cancelled
    forced,           \* workers whose force token is cancelled
    wpc,              \* where each worker task is
    cause,            \* the cause a worker is in the middle of recording
    degradation,      \* causes each worker is degraded by
    failing,          \* the worker's run is ending with an error
    failed,           \* workers with terminal_state FAILED
    blocked,          \* workers whose database holds an exhausted row
    state,            \* ledger.state
    degradedWorkers,  \* ledger.degraded_workers
    exhausted,        \* ledger.exhausted
    monitor,          \* where wait_for_terminal_failure is
    terminalFailure   \* the recorded terminal failure

startVars  == <<reg, starter, todo, started, registered>>
stopVars   == <<admissionStopped, lifecycle, cancelled, forced>>
ledgerVars == <<state, degradedWorkers, exhausted>>
endVars    == <<failed, monitor, terminalFailure>>
taskVars   == <<wpc, cause, degradation, failing, blocked>>
vars == <<admissionStopped, started, registered, reg, starter, todo, lifecycle,
          cancelled, forced, wpc, cause, degradation, failing, failed, blocked,
          state, degradedWorkers, exhausted, monitor, terminalFailure>>

Causes == {"storage", "publisher"}

\* A worker whose run() future is alive.
Live == {"spawned", "readying", "announce", "loop", "work", "probed",
         "exhausting", "degrading", "counting", "discounting", "recovering",
         "rechecking", "confirming", "recovered"}
\* A task whose run() is over and which is recording how it ended.
Ending == {"ending", "degradingLast", "countingLast", "noting", "notifying"}

Init ==
    /\ admissionStopped = FALSE /\ started = FALSE /\ registered = {}
    /\ reg = [w \in Workers |-> "idle"]
    /\ starter = "idle" /\ todo = {}
    /\ lifecycle = "serving" /\ cancelled = {} /\ forced = {}
    /\ wpc = [w \in Workers |-> "none"]
    /\ cause = [w \in Workers |-> "storage"]
    /\ degradation = [w \in Workers |-> {}]
    /\ failing = [w \in Workers |-> FALSE]
    /\ failed = {} /\ blocked = {}
    /\ state = "starting" /\ degradedWorkers = 0 /\ exhausted = 0
    /\ monitor = "enable" /\ terminalFailure = FALSE

Goto(w, label) == wpc' = [wpc EXCEPT ![w] = label]

-----------------------------------------------------------------------------
(* Registration and start.                                                 *)

\* RelayWorker::start: idempotent, and a no-op once admission is cancelled.
Spawns(w) == wpc[w] = "none" /\ w \notin cancelled

StartTask(w) == IF Spawns(w) THEN Goto(w, "spawned") ELSE UNCHANGED wpc

\* register: the first admission check; the schema check is awaited next.
RegisterCheck(w) ==
    /\ reg[w] = "idle"
    /\ reg' = [reg EXCEPT ![w] = IF admissionStopped THEN "rejected"
                                                     ELSE "schema"]
    /\ UNCHANGED <<starter, todo, started, registered, stopVars, taskVars,
                   ledgerVars, endVars>>

RegisterSchemaFailed(w) ==
    /\ reg[w] = "schema"
    /\ reg' = [reg EXCEPT ![w] = "rejected"]
    /\ UNCHANGED <<starter, todo, started, registered, stopVars, taskVars,
                   ledgerVars, endVars>>

MutRegisterUnchecked(w) ==
    /\ reg[w] = "schema"
    /\ reg' = [reg EXCEPT ![w] = IF started THEN "start" ELSE "done"]
    /\ registered' = registered \union {w}
    /\ UNCHANGED <<starter, todo, started, stopVars, taskVars, ledgerVars,
                   endVars>>

\* The second admission check and the insertion, under the workers lock.
RegisterInsert(w) ==
    /\ reg[w] = "schema"
    /\ IF admissionStopped
         THEN /\ reg' = [reg EXCEPT ![w] = "rejected"]
              /\ UNCHANGED registered
         ELSE /\ reg' = [reg EXCEPT ![w] = IF started THEN "start" ELSE "done"]
              /\ registered' = registered \union {w}
    /\ UNCHANGED <<starter, todo, started, stopVars, taskVars, ledgerVars,
                   endVars>>

RegisterStart(w) ==
    /\ reg[w] = "start"
    /\ StartTask(w)
    /\ reg' = [reg EXCEPT ![w] = "done"]
    /\ UNCHANGED <<starter, todo, started, registered, stopVars, cause,
                   degradation, failing, blocked, ledgerVars, endVars>>

\* start(): raise the flag, then take a snapshot of the workers.
StartSnapshot ==
    /\ starter = "idle"
    /\ IF admissionStopped THEN starter' = "rejected" /\ UNCHANGED <<started, todo>>
       ELSE starter' = "starting" /\ started' = TRUE /\ todo' = registered
    /\ UNCHANGED <<reg, registered, stopVars, taskVars, ledgerVars, endVars>>

\* start() starts one worker and waits for its readiness if it spawned it.
StartNext(w) ==
    /\ starter = "starting"
    /\ w \in todo
    /\ StartTask(w)
    /\ todo' = todo \ {w}
    /\ starter' = IF Spawns(w) THEN w ELSE "starting"
    /\ UNCHANGED <<reg, started, registered, stopVars, cause, degradation,
                   failing, blocked, ledgerVars, endVars>>

StartReady(w) ==
    /\ starter = w
    /\ wpc[w] \notin {"spawned", "readying", "announce"}
    /\ starter' = "starting"
    /\ UNCHANGED <<reg, todo, started, registered, stopVars, taskVars,
                   ledgerVars, endVars>>

\* With no relay registered the ledger is ready at once.
StartDone ==
    /\ starter = "starting"
    /\ todo = {}
    /\ starter' = "done"
    /\ state' = IF registered = {} THEN "ready" ELSE state
    /\ UNCHANGED <<reg, todo, started, registered, stopVars, taskVars,
                   degradedWorkers, exhausted, endVars>>

-----------------------------------------------------------------------------
(* The shutdown lifecycle.                                                 *)

\* stop_admission raises the flag.  Startup is over by then, or its future
\* has been dropped with workers still to start.
StopAdmission ==
    /\ lifecycle = "serving"
    /\ lifecycle' = "sealed"
    /\ admissionStopped' = TRUE
    /\ starter' = IF starter \in Workers \union {"starting"} THEN "dropped"
                                                           ELSE starter
    /\ UNCHANGED <<reg, todo, started, registered, cancelled, forced, taskVars,
                   ledgerVars, endVars>>

StoreDraining ==
    /\ lifecycle = "sealed"
    /\ lifecycle' = "draining"
    /\ state' = "draining"
    /\ UNCHANGED <<startVars, admissionStopped, cancelled, forced, taskVars,
                   degradedWorkers, exhausted, endVars>>

CancelWorkers ==
    /\ lifecycle = "draining"
    /\ lifecycle' = "drain"
    /\ cancelled' = registered
    /\ UNCHANGED <<startVars, admissionStopped, forced, taskVars, ledgerVars,
                   endVars>>

MutJoinedEarly(w) == wpc[w] \in {"none", "ended"} \union Ending

\* reap: a worker that was never spawned has no receipt to join.
Joined(w) == wpc[w] \in {"none", "ended"}

\* drain or force_drain joined every worker.
Drained ==
    /\ lifecycle \in {"drain", "forceDrain"}
    /\ \A w \in registered : Joined(w)
    /\ lifecycle' = "drained"
    /\ state' = IF failed = {} THEN "stopped" ELSE "failed"
    /\ UNCHANGED <<startVars, admissionStopped, cancelled, forced, taskVars,
                   degradedWorkers, exhausted, endVars>>

\* The graceful deadline passes, or force is requested.
RequestForce ==
    /\ lifecycle = "drain"
    /\ lifecycle' = "forceDrain"
    /\ forced' = registered
    /\ UNCHANGED <<startVars, admissionStopped, cancelled, taskVars, ledgerVars,
                   endVars>>

\* The hard deadline passes with a worker unjoined; the ledger is left alone.
ForceTimeout ==
    /\ lifecycle = "forceDrain"
    /\ \E w \in registered : ~Joined(w)
    /\ lifecycle' = "timedOut"
    /\ UNCHANGED <<startVars, admissionStopped, cancelled, forced, taskVars,
                   ledgerVars, endVars>>

\* close_async proceeds only when every worker is reconciled by then.
Close ==
    /\ lifecycle \in {"drained", "timedOut"}
    /\ lifecycle' = IF \A w \in registered : Joined(w) THEN "closed"
                                                       ELSE "refused"
    /\ UNCHANGED <<startVars, admissionStopped, cancelled, forced, taskVars,
                   ledgerVars, endVars>>

-----------------------------------------------------------------------------
(* The worker task.                                                        *)

\* record_worker_ready: read two counters, then move STARTING to READY.
CheckWorkerReady(w) ==
    /\ \/ /\ wpc[w] = "spawned"
          /\ Goto(w, IF degradedWorkers = 0 THEN "readying" ELSE "loop")
       \/ /\ wpc[w] = "readying"
          /\ Goto(w, IF exhausted = 0 THEN "announce" ELSE "loop")
    /\ UNCHANGED <<startVars, stopVars, cause, degradation, failing, blocked,
                   ledgerVars, endVars>>

AnnounceReady(w) ==
    /\ wpc[w] = "announce"
    /\ state' = IF state \in {"starting", "ready"} THEN "ready" ELSE state
    /\ Goto(w, "loop")
    /\ UNCHANGED <<startVars, stopVars, cause, degradation, failing, blocked,
                   degradedWorkers, exhausted, endVars>>

\* degrade begins: RelayLedger::record_failure stores DEGRADED.
BeginDegrade(w, c) ==
    /\ state' = "degraded"
    /\ cause' = [cause EXCEPT ![w] = c]
    /\ Goto(w, "degrading")

\* An operation of the running worker fails and the run goes on.
OperationFailed(w, c) ==
    /\ wpc[w] = "work"
    /\ BeginDegrade(w, c)
    /\ UNCHANGED <<startVars, stopVars, degradation, failing, blocked,
                   degradedWorkers, exhausted, endVars>>

\* An operation fails and so does the run.
RunFailed(w, c) ==
    /\ wpc[w] = "work"
    /\ BeginDegrade(w, c)
    /\ failing' = [failing EXCEPT ![w] = TRUE]
    /\ UNCHANGED <<startVars, stopVars, degradation, blocked, degradedWorkers,
                   exhausted, endVars>>

\* The last publish of a record fails: the worker is degraded for it already;
\* ledger.exhausted counts its row, then the worker is degraded once more.
AttemptsExhausted(w) ==
    /\ wpc[w] = "work"
    /\ "publisher" \in degradation[w]
    /\ blocked' = blocked \union {w}
    /\ exhausted' = exhausted + 1
    /\ cause' = [cause EXCEPT ![w] = "publisher"]
    /\ failing' = [failing EXCEPT ![w] = TRUE]
    /\ Goto(w, "exhausting")
    /\ UNCHANGED <<startVars, stopVars, degradation, state, degradedWorkers,
                   endVars>>

\* The delivered mark of a last attempt fails: the failed mark has degraded
\* the worker already.
MarkExhausted(w) ==
    /\ wpc[w] = "work"
    /\ degradation[w] = {"storage"}
    /\ blocked' = blocked \union {w}
    /\ exhausted' = exhausted + 1
    /\ failing' = [failing EXCEPT ![w] = TRUE]
    /\ Goto(w, "ending")
    /\ UNCHANGED <<startVars, stopVars, cause, degradation, state,
                   degradedWorkers, endVars>>

DegradeExhausted(w) ==
    /\ wpc[w] = "exhausting"
    /\ BeginDegrade(w, cause[w])
    /\ UNCHANGED <<startVars, stopVars, degradation, failing, blocked,
                   degradedWorkers, exhausted, endVars>>

\* Where degrade returns to: the end of the task, of the run, or the run.
AfterDegrade(w) ==
    CASE wpc[w] \in {"degradingLast", "countingLast"} -> "noting"
      [] wpc[w] \in {"degrading", "counting"} /\ failing[w] -> "ending"
      [] OTHER -> "work"

MutRecordCauseCountsCauses(w) ==
    /\ wpc[w] \in {"degrading", "degradingLast"}
    /\ degradation' = [degradation EXCEPT ![w] = @ \union {cause[w]}]
    /\ Goto(w, IF cause[w] \in degradation[w] THEN AfterDegrade(w)
               ELSE IF wpc[w] = "degrading" THEN "counting" ELSE "countingLast")
    /\ UNCHANGED <<startVars, stopVars, cause, failing, blocked, ledgerVars,
                   endVars>>

\* degrade, the worker's own flags: the first cause makes it a degraded one.
RecordCause(w) ==
    /\ wpc[w] \in {"degrading", "degradingLast"}
    /\ degradation' = [degradation EXCEPT ![w] = @ \union {cause[w]}]
    /\ Goto(w, IF degradation[w] # {} THEN AfterDegrade(w)
               ELSE IF wpc[w] = "degrading" THEN "counting" ELSE "countingLast")
    /\ UNCHANGED <<startVars, stopVars, cause, failing, blocked, ledgerVars,
                   endVars>>

\* degrade, the ledger: the counter follows in a step of its own.
CountDegraded(w) ==
    /\ wpc[w] \in {"counting", "countingLast"}
    /\ degradedWorkers' = degradedWorkers + 1
    /\ Goto(w, AfterDegrade(w))
    /\ UNCHANGED <<startVars, stopVars, cause, degradation, failing, blocked,
                   state, exhausted, endVars>>

MutRecoverHealthy(w, c) ==
    /\ degradation' = [degradation EXCEPT ![w] = @ \ {c}]
    /\ Goto(w, IF degradation[w] \ {c} = {} THEN "discounting" ELSE "work")

\* recover, the worker's own flags: only the last cause to go is discounted.
Recover(w, c) ==
    /\ degradation' = [degradation EXCEPT ![w] = @ \ {c}]
    /\ Goto(w, IF degradation[w] = {c} THEN "discounting" ELSE "work")

\* recover, the ledger: the last degraded worker goes on to look at the
\* exhausted rows and to record_recovered.
DiscountRecovered(w) ==
    /\ wpc[w] = "discounting"
    /\ degradedWorkers' = degradedWorkers - 1
    /\ Goto(w, IF degradedWorkers = 1 THEN "recovering" ELSE "work")
    /\ UNCHANGED <<startVars, stopVars, cause, degradation, failing, blocked,
                   state, exhausted, endVars>>

\* An operation that proves the cause gone succeeds.
OperationSucceeded(w, c) ==
    /\ wpc[w] = "work"
    /\ c \in degradation[w]
    /\ Recover(w, c)
    /\ UNCHANGED <<startVars, stopVars, cause, failing, blocked, ledgerVars,
                   endVars>>

\* The idle probe of a database without exhausted rows stores its count, then
\* recovers.
IdleProbe(w) ==
    /\ wpc[w] = "work"
    /\ w \notin blocked
    /\ exhausted' = 0
    /\ Goto(w, "probed")
    /\ UNCHANGED <<startVars, stopVars, cause, degradation, failing, blocked,
                   state, degradedWorkers, endVars>>

RecoverProbed(w) ==
    /\ wpc[w] = "probed"
    /\ Recover(w, "storage")
    /\ UNCHANGED <<startVars, stopVars, cause, failing, blocked, ledgerVars,
                   endVars>>

\* The idle probe finds rows another process exhausted: the run fails.
IdleProbeExhausted(w) ==
    /\ wpc[w] = "work"
    /\ blocked' = blocked \union {w}
    /\ exhausted' = 1
    /\ cause' = [cause EXCEPT ![w] = "storage"]
    /\ failing' = [failing EXCEPT ![w] = TRUE]
    /\ Goto(w, "exhausting")
    /\ UNCHANGED <<startVars, stopVars, degradation, state, degradedWorkers,
                   endVars>>

\* The end of recover and record_recovered: three reads of the ledger, each of
\* which may call the recovery off, before READY is published.
CheckRecovered(w) ==
    /\ \/ /\ wpc[w] = "recovering"
          /\ Goto(w, IF exhausted = 0 THEN "rechecking" ELSE "work")
       \/ /\ wpc[w] = "rechecking"
          /\ Goto(w, IF degradedWorkers = 0 THEN "confirming" ELSE "work")
       \/ /\ wpc[w] = "confirming"
          /\ Goto(w, IF exhausted = 0 THEN "recovered" ELSE "work")
    /\ UNCHANGED <<startVars, stopVars, cause, degradation, failing, blocked,
                   ledgerVars, endVars>>

AnnounceRecovered(w) ==
    /\ wpc[w] = "recovered"
    /\ state' = IF state \in {"starting", "ready", "degraded"} THEN "ready"
                                                              ELSE state
    /\ Goto(w, "work")
    /\ UNCHANGED <<startVars, stopVars, cause, degradation, failing, blocked,
                   degradedWorkers, exhausted, endVars>>

MutLoopUncancelled(w) ==
    /\ wpc[w] = "loop"
    /\ Goto(w, "work")
    /\ UNCHANGED <<startVars, stopVars, cause, degradation, failing, blocked,
                   ledgerVars, endVars>>

\* The top of the loop: a cancelled worker returns, any other goes on.
LoopCheck(w) ==
    /\ wpc[w] = "loop"
    /\ Goto(w, IF w \in cancelled \union forced THEN "ended" ELSE "work")
    /\ UNCHANGED <<startVars, stopVars, cause, degradation, failing, blocked,
                   ledgerVars, endVars>>

\* The batch of this iteration is finished, or its idle wait is over.
EndIteration(w) ==
    /\ wpc[w] = "work"
    /\ Goto(w, "loop")
    /\ UNCHANGED <<startVars, stopVars, cause, degradation, failing, blocked,
                   ledgerVars, endVars>>

\* The shutdown cutoff drops the run: QUEUE_OUTBOX_RELAY_INTERRUPTED.
RunInterrupted(w) ==
    /\ wpc[w] \in {"spawned", "work"}
    /\ lifecycle # "serving"
    /\ failing' = [failing EXCEPT ![w] = TRUE]
    /\ Goto(w, "ending")
    /\ UNCHANGED <<startVars, stopVars, cause, degradation, blocked, ledgerVars,
                   endVars>>

\* record_terminal_failure: a worker with no degradation yet is degraded now.
RecordTerminalFailure(w) ==
    /\ wpc[w] = "ending"
    /\ state' = "degraded"
    /\ cause' = [cause EXCEPT ![w] = "storage"]
    /\ Goto(w, IF degradation[w] = {} THEN "degradingLast" ELSE "noting")
    /\ UNCHANGED <<startVars, stopVars, degradation, failing, blocked,
                   degradedWorkers, exhausted, endVars>>

\* The failure is recorded before anyone is told of it.
NoteFailure(w) ==
    /\ wpc[w] = "noting"
    /\ terminalFailure' = TRUE
    /\ Goto(w, "notifying")
    /\ UNCHANGED <<startVars, stopVars, cause, degradation, failing, blocked,
                   ledgerVars, failed, monitor>>

MutNotifyAwaitingOnly(w) ==
    /\ wpc[w] = "notifying"
    /\ Goto(w, "ended")
    /\ failed' = failed \union {w}
    /\ monitor' = IF monitor = "await" THEN "enable" ELSE monitor
    /\ UNCHANGED <<startVars, stopVars, cause, degradation, failing, blocked,
                   ledgerVars, terminalFailure>>

\* notify_waiters reaches a waiter that has enabled its notification, even if
\* it does not await it yet.  The terminal state is read only after the join.
NotifyFailure(w) ==
    /\ wpc[w] = "notifying"
    /\ Goto(w, "ended")
    /\ failed' = failed \union {w}
    /\ monitor' = CASE monitor = "check" -> "notified"
                    [] monitor \in {"checked", "await"} -> "enable"
                    [] OTHER -> monitor
    /\ UNCHANGED <<startVars, stopVars, cause, degradation, failing, blocked,
                   ledgerVars, terminalFailure>>

-----------------------------------------------------------------------------
(* wait_for_terminal_failure: enable the notification, check, then await.  *)
(* "notified" is "check" with the notification already received.           *)

Monitor ==
    /\ \/ monitor = "enable" /\ monitor' = "check"
       \/ /\ monitor \in {"check", "notified"}
          /\ monitor' = IF terminalFailure THEN "returned"
                        ELSE IF monitor = "check" THEN "checked" ELSE "enable"
       \/ monitor = "checked" /\ monitor' = "await"
    /\ UNCHANGED <<startVars, stopVars, taskVars, ledgerVars, failed,
                   terminalFailure>>

-----------------------------------------------------------------------------
Start == \/ StartSnapshot \/ StartDone
         \/ \E w \in Workers : StartNext(w) \/ StartReady(w)

Register(w) == \/ RegisterCheck(w) \/ RegisterSchemaFailed(w)
               \/ RegisterInsert(w) \/ RegisterStart(w)

Lifecycle == \/ StopAdmission \/ StoreDraining \/ CancelWorkers
             \/ Drained \/ RequestForce \/ ForceTimeout \/ Close

\* Steps a spawned task takes whatever its environment does.
Task(w) == \/ CheckWorkerReady(w) \/ AnnounceReady(w) \/ RecordCause(w) \/ CountDegraded(w)
           \/ DegradeExhausted(w) \/ RecoverProbed(w) \/ DiscountRecovered(w)
           \/ CheckRecovered(w) \/ AnnounceRecovered(w)
           \/ LoopCheck(w) \/ RecordTerminalFailure(w) \/ NoteFailure(w) \/ NotifyFailure(w)

Outcome(w) == \/ \E c \in Causes : \/ OperationFailed(w, c) \/ RunFailed(w, c)
                                   \/ OperationSucceeded(w, c)
              \/ AttemptsExhausted(w) \/ MarkExhausted(w) \/ IdleProbe(w) \/ IdleProbeExhausted(w)
              \/ EndIteration(w) \/ RunInterrupted(w)

Next == \/ Start \/ Lifecycle \/ Monitor
        \/ \E w \in Workers : Register(w) \/ Task(w) \/ Outcome(w)

Spec == Init /\ [][Next]_vars

\* The lifecycle, once begun, and every spawned task are polled until they
\* finish.  One iteration of the loop is over a bounded batch, so it ends
\* (strong fairness: it may be degraded and recover in between).
Fairness ==
    /\ WF_vars(lifecycle # "serving" /\ Lifecycle)
    /\ WF_vars(Monitor)
    /\ \A w \in Workers : /\ WF_vars(Task(w))
                          /\ SF_vars(EndIteration(w))

FairSpec == Spec /\ Fairness

-----------------------------------------------------------------------------
(* Properties.                                                             *)

\* Type correctness.
TypeOK ==
    /\ admissionStopped \in BOOLEAN /\ started \in BOOLEAN
    /\ registered \subseteq Workers /\ todo \subseteq Workers
    /\ reg \in [Workers -> {"idle", "schema", "start", "done", "rejected"}]
    /\ starter \in StarterStates \union Workers
    /\ lifecycle \in {"serving", "sealed", "draining", "drain", "forceDrain",
                     "drained", "timedOut", "refused", "closed"}
    /\ cancelled \subseteq Workers /\ forced \subseteq Workers
    /\ wpc \in [Workers -> {"none", "ended"} \union Live \union Ending]
    /\ cause \in [Workers -> Causes]
    /\ degradation \in [Workers -> SUBSET Causes]
    /\ failing \in [Workers -> BOOLEAN]
    /\ failed \subseteq Workers /\ blocked \subseteq Workers
    /\ state \in {"starting", "ready", "degraded", "draining", "stopped",
                 "failed"}
    /\ degradedWorkers \in Nat /\ exhausted \in Nat
    /\ monitor \in {"enable", "check", "notified", "checked", "await",
                   "returned"}
    /\ terminalFailure \in BOOLEAN

\* A completed drain left nobody behind: no worker runs, or can still be
\* spawned by a registration or a start that raced with stop_admission.
NoWorkerOutlivesDrain ==
    lifecycle \in {"drained", "closed"} =>
        \A w \in Workers : wpc[w] \in {"none", "ended"}

\* A worker the ledger counts: a degraded one that is not about to be added,
\* or a recovered one that is still to be subtracted.
Counted(w) == IF wpc[w] \in {"counting", "countingLast"} THEN FALSE
              ELSE degradation[w] # {} \/ wpc[w] = "discounting"

\* degraded_workers counts the degraded workers, whatever causes come and go
\* and however the workers' separate updates of flags and counter interleave;
\* the underflow the debug_assert in recover excludes cannot happen.
DegradedCountMatches ==
    degradedWorkers = Cardinality({w \in Workers : Counted(w)})

\* The verdict of a drain is final: no late worker overwrites it.
FinalStateSticks ==
    [][(state \in {"stopped", "failed"}) => state' = state]_vars

\* A failed worker reaches the caller of wait_for_terminal_failure: no
\* interleaving of the notification loses it.
FailureIsObserved == \A w \in Workers : w \in failed ~> monitor = "returned"

\* A shutdown that has begun comes to an end, and every worker it cancelled
\* ends too, even one the force deadline left unjoined.
StopCompletes ==
    admissionStopped ~> /\ lifecycle \in {"closed", "refused"}
                        /\ \A w \in registered : Joined(w)

-----------------------------------------------------------------------------
(* What the documentation of the state says and the ledger does not keep.  *)

\* is_ready: nothing exhausted, state READY, every registered relay running.
IsReady == /\ exhausted = 0
           /\ state = "ready"
           /\ \A w \in registered : wpc[w] \in Live \ {"spawned"}

\* Draining: "New claims have stopped while owned work drains"; Ready: "Every
\* registered relay is healthy and accepting durable work".  While its
\* workers drain, the process does not report its relays ready.
NotReadyWhileDraining ==
    lifecycle \in {"drain", "forceDrain"} /\ registered # {} => ~IsReady

Settled == \A w \in Workers : wpc[w] \in {"none", "loop", "work", "ended"}

\* `exhausted`: "Durable rows blocked after exhausting the configured
\* attempt budget".  It is not zero while a database holds such a row.
ExhaustedCountsBlocked == Settled /\ blocked # {} => exhausted > 0
=============================================================================
