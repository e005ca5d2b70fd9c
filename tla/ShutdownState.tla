---------------------------- MODULE ShutdownState ----------------------------
(***************************************************************************)
(* The lifecycle authority of one application and its signal monitor       *)
(* (lily_shutdown: lib.rs, signal_handler.rs).                             *)
(*                                                                         *)
(* Nothing here holds a lock across two operations: callers that initiate  *)
(* a shutdown, listeners that publish readiness, tasks that take an        *)
(* activity guard and the OS signal listener meet only in the atomics and  *)
(* watch channels of ShutdownState.  Each of their loads, stores and       *)
(* read-modify-writes is one step here, so every interleaving of them is   *)
(* explored (under sequential consistency).                                *)
(*                                                                         *)
(* Simplifications: connections and jobs are counted alike and share the   *)
(* counter; the phase label and the start time, which no operation of the  *)
(* state reads, are left out; a signal stream that closes is left out.     *)
(***************************************************************************)
EXTENDS Integers, FiniteSets

CONSTANTS
    Callers,        \* tasks that call initiate_shutdown
    Listener,       \* the task of the SignalMonitor
    Publishers,     \* tasks that call publish_ready once
    Workers,        \* tasks that take and drop activity guards
    OsSignals,      \* signals the operating system may raise
    None            \* the absent signal

Manual == "Manual"
Quit == "Quit"
Signals == OsSignals \cup {Manual}
Requesters == Callers \cup {Listener}

ASSUME ShutdownAssumption ==
    /\ Listener \notin Callers
    /\ IsFiniteSet(Workers)
    /\ None \notin Signals \cup {"waiting", "stopped"}
    /\ "waiting" \notin Signals
    /\ "stopped" \notin Signals

VARIABLES
    initiated,      \* shutdown_initiated
    initial,        \* initial_signal
    ready,          \* ready
    accepting,      \* accepting_connections
    active,         \* active_connections and active_jobs
    underflows,     \* counter_underflows, as "has one happened"
    published,      \* the value of shutdown_tx
    force,          \* force_requested
    forced,         \* the value of force_tx
    stage,          \* where each requester is
    request,        \* the signal it asked for
    told,           \* the initial_signal its AlreadyInitiated named
    pub,            \* where each publisher is in publish_ready
    guard,          \* where each worker is in activity_guard
    pending,        \* OS signals the listener has not received yet
    waiter,         \* wait_for_first: waiting, stopped, or the signal it returned
    drained,        \* history: somebody read zero after the seal
    first           \* history: the signal of the request that won

requestVars == <<stage, request, told, pending>>
flagVars == <<initiated, initial, ready, accepting, published, force, forced, first>>
countVars == <<active, underflows, guard, drained>>
vars == <<requestVars, flagVars, countVars, pub, waiter>>

Stages == {"idle", "won", "retained", "lowered", "sealed", "lost",
           "escalate", "stopOnly", "stopAndTell", "tell", "done", "aborted"}
PublishStages == {"idle", "admission", "store", "shutdownAgain", "admissionAgain",
                  "lower", "ready", "refused"}
GuardStages == {"idle", "passed", "counted", "backOut", "admitted", "released"}

\* ShutdownSignal::is_force
IsForce(s) == s = Quit

\* ShutdownState::new and new_not_ready
Init ==
    /\ initiated = FALSE
    /\ initial = None
    /\ ready \in BOOLEAN
    /\ accepting = TRUE
    /\ active = 0
    /\ underflows = FALSE
    /\ published = None
    /\ force = FALSE
    /\ forced = FALSE
    /\ stage = [c \in Requesters |-> "idle"]
    /\ request = [c \in Requesters |-> None]
    /\ told = [c \in Requesters |-> None]
    /\ pub = [p \in Publishers |-> "idle"]
    /\ guard = [w \in Workers |-> "idle"]
    /\ pending = {}
    /\ waiter = "waiting"
    /\ drained = FALSE
    /\ first = None

-----------------------------------------------------------------------------
(* initiate_shutdown, one step per atomic operation                        *)

Goto(c, s) == stage' = [stage EXCEPT ![c] = s]

\* the compare_exchange that decides who initiates
CompareExchange(c, s) ==
    /\ initiated' = TRUE
    /\ first' = IF initiated THEN first ELSE s
    /\ Goto(c, IF initiated THEN "lost" ELSE "won")

\* initiate_shutdown is called with s
Initiate(c, s) ==
    /\ stage[c] = "idle"
    /\ request' = [request EXCEPT ![c] = s]
    /\ CompareExchange(c, s)
    /\ UNCHANGED <<initial, ready, accepting, published, force, forced, told,
                   countVars, pub, waiter>>

\* a programmatic request
Call(c) ==
    /\ c \in Callers
    /\ \E s \in Signals : Initiate(c, s)
    /\ UNCHANGED pending

\* listen_unix receives a signal and dispatches it
ReceiveSignal ==
    \E s \in pending :
        /\ Initiate(Listener, s)
        /\ pending' = pending \ {s}

\* the winner stores initial_signal
RetainSignal(c) ==
    /\ stage[c] = "won"
    /\ initial' = request[c]
    /\ Goto(c, "retained")
    /\ UNCHANGED <<initiated, ready, accepting, published, force, forced, first, request,
                   told, pending, countVars, pub, waiter>>

\* mark_not_ready
LowerReadiness(c) ==
    /\ stage[c] = "retained"
    /\ ready' = FALSE
    /\ Goto(c, "lowered")
    /\ UNCHANGED <<initiated, initial, accepting, published, force, forced, first, request,
                   told, pending, countVars, pub, waiter>>

\* stop_accepting_connections
SealAdmission(c) ==
    /\ stage[c] = "lowered"
    /\ accepting' = FALSE
    /\ Goto(c, "sealed")
    /\ UNCHANGED <<initiated, initial, ready, published, force, forced, first, request,
                   told, pending, countVars, pub, waiter>>

MutPublish(c) ==
    /\ stage[c] = "sealed"
    /\ Goto(c, IF IsForce(request[c]) THEN "escalate"
               ELSE IF c = Listener THEN "idle" ELSE "done")
    /\ UNCHANGED <<flagVars, request, told, pending, countVars, pub, waiter>>

\* shutdown_tx.send_replace; dispatch_signal loops unless the signal is a force
Publish(c) ==
    /\ stage[c] = "sealed"
    /\ published' = request[c]
    /\ Goto(c, IF IsForce(request[c]) THEN "escalate"
               ELSE IF c = Listener THEN "idle" ELSE "done")
    /\ UNCHANGED <<initiated, initial, ready, accepting, force, forced, first, request,
                   told, pending, countVars, pub, waiter>>

\* what a loser is told: initial_signal().unwrap_or(signal)
Winner(c) == IF initial = None THEN request[c] ELSE initial

MutAfterLoss(c) == "done"

\* dispatch_signal escalates a repeated request, a caller just returns
AfterLoss(c) == IF c = Listener THEN "escalate" ELSE "done"

\* AlreadyInitiated
ReportWinner(c) ==
    /\ stage[c] = "lost"
    /\ told' = [told EXCEPT ![c] = Winner(c)]
    /\ Goto(c, AfterLoss(c))
    /\ UNCHANGED <<flagVars, request, pending, countVars, pub, waiter>>

\* request_force: the swap
SwapForce(c) ==
    /\ stage[c] = "escalate"
    /\ force' = TRUE
    /\ Goto(c, IF force THEN "stopOnly" ELSE "stopAndTell")
    /\ UNCHANGED <<initiated, initial, ready, accepting, published, forced, first, request,
                   told, pending, countVars, pub, waiter>>

\* request_force: stop_accepting_connections
ForceSeals(c) ==
    /\ stage[c] \in {"stopOnly", "stopAndTell"}
    /\ accepting' = FALSE
    /\ Goto(c, IF stage[c] = "stopAndTell" THEN "tell" ELSE "done")
    /\ UNCHANGED <<initiated, initial, ready, published, force, forced, first, request,
                   told, pending, countVars, pub, waiter>>

\* request_force: force_tx.send_replace, by the call that requested it first
TellForce(c) ==
    /\ stage[c] = "tell"
    /\ forced' = TRUE
    /\ Goto(c, "done")
    /\ UNCHANGED <<initiated, initial, ready, accepting, published, force, first, request,
                   told, pending, countVars, pub, waiter>>

Requester(c) ==
    \/ RetainSignal(c)
    \/ LowerReadiness(c)
    \/ SealAdmission(c)
    \/ Publish(c)
    \/ ReportWinner(c)
    \/ SwapForce(c)
    \/ ForceSeals(c)
    \/ TellForce(c)

-----------------------------------------------------------------------------
(* The operating system and the monitor                                    *)

\* a signal is raised; one that is already pending is merged with it
RaiseSignal(s) ==
    /\ pending' = pending \cup {s}
    /\ UNCHANGED <<stage, request, told, flagVars, countVars, pub, waiter>>

\* wait_for_first: the replaying receiver has a value
WaiterReceives ==
    /\ waiter = "waiting"
    /\ published # None
    /\ waiter' = published
    /\ UNCHANGED <<requestVars, flagVars, countVars, pub>>

\* what wait_for_first makes of a listener that has ended
JoinedListener == IF initial = None THEN "stopped" ELSE initial

\* wait_for_first: the listener's task has ended
WaiterJoins ==
    /\ waiter = "waiting"
    /\ stage[Listener] = "done"
    /\ waiter' = JoinedListener
    /\ UNCHANGED <<requestVars, flagVars, countVars, pub>>

\* SignalMonitor::stop or Drop aborts the listener at its await
StopMonitor ==
    /\ waiter # "waiting"
    /\ stage[Listener] = "idle"
    /\ Goto(Listener, "aborted")
    /\ UNCHANGED <<request, told, pending, flagVars, countVars, pub, waiter>>

-----------------------------------------------------------------------------
(* publish_ready                                                           *)

PubGoto(p, s) == pub' = [pub EXCEPT ![p] = s]

\* the loads of publish_ready: is_shutdown_initiated, is_accepting_connections
CheckShutdown(p) ==
    /\ pub[p] = "idle"
    /\ PubGoto(p, IF initiated THEN "refused" ELSE "admission")
    /\ UNCHANGED <<requestVars, flagVars, countVars, waiter>>

CheckAdmission(p) ==
    /\ pub[p] = "admission"
    /\ PubGoto(p, IF accepting THEN "store" ELSE "refused")
    /\ UNCHANGED <<requestVars, flagVars, countVars, waiter>>

StoreReady(p) ==
    /\ pub[p] = "store"
    /\ ready' = TRUE
    /\ PubGoto(p, "shutdownAgain")
    /\ UNCHANGED <<requestVars, initiated, initial, accepting, published, force, forced,
                   first, countVars, waiter>>

MutRecheckShutdown(p) ==
    /\ pub[p] = "shutdownAgain"
    /\ PubGoto(p, "ready")
    /\ UNCHANGED <<requestVars, flagVars, countVars, waiter>>

\* the second check
RecheckShutdown(p) ==
    /\ pub[p] = "shutdownAgain"
    /\ PubGoto(p, IF initiated THEN "lower" ELSE "admissionAgain")
    /\ UNCHANGED <<requestVars, flagVars, countVars, waiter>>

RecheckAdmission(p) ==
    /\ pub[p] = "admissionAgain"
    /\ PubGoto(p, IF accepting THEN "ready" ELSE "lower")
    /\ UNCHANGED <<requestVars, flagVars, countVars, waiter>>

\* the losing publisher withdraws what it stored
WithdrawReady(p) ==
    /\ pub[p] = "lower"
    /\ ready' = FALSE
    /\ PubGoto(p, "refused")
    /\ UNCHANGED <<requestVars, initiated, initial, accepting, published, force, forced,
                   first, countVars, waiter>>

Publisher(p) ==
    \/ CheckShutdown(p)
    \/ CheckAdmission(p)
    \/ StoreReady(p)
    \/ RecheckShutdown(p)
    \/ RecheckAdmission(p)
    \/ WithdrawReady(p)

-----------------------------------------------------------------------------
(* activity_guard and ActivityGuard                                        *)

GuardGoto(w, s) == guard' = [guard EXCEPT ![w] = s]

\* decrement_counter: checked_sub, counting an underflow instead of wrapping
Decrement ==
    /\ active' = IF active > 0 THEN active - 1 ELSE 0
    /\ underflows' = (underflows \/ active = 0)

\* the first load; refused work leaves no trace
CheckOpen(w) ==
    /\ guard[w] = "idle"
    /\ accepting
    /\ GuardGoto(w, "passed")
    /\ UNCHANGED <<requestVars, flagVars, active, underflows, drained, pub, waiter>>

\* increment_activity
Increment(w) ==
    /\ guard[w] = "passed"
    /\ active' = active + 1
    /\ GuardGoto(w, "counted")
    /\ UNCHANGED <<requestVars, flagVars, underflows, drained, pub, waiter>>

MutRecheckOpen(w) ==
    /\ guard[w] = "counted"
    /\ GuardGoto(w, "admitted")
    /\ UNCHANGED <<requestVars, flagVars, active, underflows, drained, pub, waiter>>

\* the second load, where admission linearizes
RecheckOpen(w) ==
    /\ guard[w] = "counted"
    /\ GuardGoto(w, IF accepting THEN "admitted" ELSE "backOut")
    /\ UNCHANGED <<requestVars, flagVars, active, underflows, drained, pub, waiter>>

\* work that lost the race is removed again
BackOut(w) ==
    /\ guard[w] = "backOut"
    /\ Decrement
    /\ GuardGoto(w, "idle")
    /\ UNCHANGED <<requestVars, flagVars, drained, pub, waiter>>

\* ActivityGuard::release: the guard is inactive from here on, but not dropped yet
Release(w) ==
    /\ guard[w] = "admitted"
    /\ Decrement
    /\ GuardGoto(w, "released")
    /\ UNCHANGED <<requestVars, flagVars, drained, pub, waiter>>

\* Drop for ActivityGuard decrements only a guard that is still active
DropGuard(w) ==
    /\ guard[w] \in {"admitted", "released"}
    /\ IF guard[w] = "admitted" THEN Decrement ELSE UNCHANGED <<active, underflows>>
    /\ GuardGoto(w, "idle")
    /\ UNCHANGED <<requestVars, flagVars, drained, pub, waiter>>

Worker(w) ==
    \/ CheckOpen(w)
    \/ Increment(w)
    \/ RecheckOpen(w)
    \/ BackOut(w)
    \/ Release(w)
    \/ DropGuard(w)

\* a drain that polls active_connection_count or active_job_count after the seal
ObserveDrained ==
    /\ ~accepting
    /\ active = 0
    /\ drained' = TRUE
    /\ UNCHANGED <<requestVars, flagVars, active, underflows, guard, pub, waiter>>

-----------------------------------------------------------------------------

Next ==
    \/ \E c \in Callers : Call(c)
    \/ \E c \in Requesters : Requester(c)
    \/ \E s \in OsSignals : RaiseSignal(s)
    \/ ReceiveSignal
    \/ WaiterReceives
    \/ WaiterJoins
    \/ StopMonitor
    \/ \E p \in Publishers : Publisher(p)
    \/ \E w \in Workers : Worker(w)
    \/ ObserveDrained

Spec == Init /\ [][Next]_vars

(* A synchronous call runs to its end, the listener's task and the future  *)
(* of wait_for_first are polled.  Nobody has to call or to raise a signal. *)
Fairness ==
    /\ \A c \in Requesters : WF_vars(Requester(c))
    /\ WF_vars(ReceiveSignal)
    /\ WF_vars(WaiterReceives \/ WaiterJoins)

FairSpec == Spec /\ Fairness

-----------------------------------------------------------------------------
(* Properties                                                              *)

TypeOK ==
    /\ initiated \in BOOLEAN
    /\ initial \in Signals \cup {None}
    /\ ready \in BOOLEAN
    /\ accepting \in BOOLEAN
    /\ active \in Nat
    /\ underflows \in BOOLEAN
    /\ published \in Signals \cup {None}
    /\ force \in BOOLEAN
    /\ forced \in BOOLEAN
    /\ stage \in [Requesters -> Stages]
    /\ request \in [Requesters -> Signals \cup {None}]
    /\ told \in [Requesters -> Signals \cup {None}]
    /\ pub \in [Publishers -> PublishStages]
    /\ guard \in [Workers -> GuardStages]
    /\ pending \subseteq OsSignals
    /\ waiter \in Signals \cup {"waiting", "stopped"}
    /\ drained \in BOOLEAN
    /\ first \in Signals \cup {None}

Lowering == \E c \in Requesters : stage[c] \in {"won", "retained"}
Publishing == \E p \in Publishers : pub[p] \in {"shutdownAgain", "admissionAgain", "lower"}

\* Shutdown wins every race with publish_ready: once the initiator has lowered
\* readiness, the application is ready only while a publisher is still between
\* its store and its second check, however the calls interleave.
ShutdownWins == initiated /\ ~Lowering /\ ~Publishing => ~ready

Counted == {w \in Workers : guard[w] \in {"counted", "backOut", "admitted"}}

\* The activity counter is exact at every step: it counts the guards in flight,
\* including those that lost the admission race and still have to back out, and
\* early release followed by the drop never underflows it.
CountIsExact == active = Cardinality(Counted) /\ ~underflows

\* A drain that reads zero after the seal may go on to dispose dependencies:
\* no work holds a guard then or ever after, although a worker can have passed
\* the first check before the seal and be counted after the read.
DrainedStaysQuiet == drained => \A w \in Workers : guard[w] # "admitted"

\* One request initiates. What is retained, what subscribers are sent and what
\* the monitor returns is the signal of that request, whoever else asked.
OneTransition ==
    /\ initial \in {None, first}
    /\ published \in {None, first}
    /\ waiter \in {"waiting", "stopped", first}

\* A monitor that waits for the first signal gets an answer once shutdown is
\* initiated, by the listener or by anybody else.
InitiationReachesWaiter == initiated ~> waiter # "waiting"

\* A signal that reaches the listener after shutdown was initiated puts the
\* application on the force path, unless the monitor is stopped before it.
SecondSignalForces ==
    initiated /\ pending # {} /\ stage[Listener] = "idle"
        ~> forced \/ stage[Listener] = "aborted"

\* AlreadyInitiated names the signal which won the initial transition.
NamesTheWinner == \A c \in Requesters : told[c] \in {None, first}

\* wait_for_first never reports a stopped monitor for a shutdown that was
\* initiated: it prefers the published signal.
NoFalseStop == waiter # "stopped"
=============================================================================
