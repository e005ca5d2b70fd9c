------------------------- MODULE ShutdownCoordinator -------------------------
(***************************************************************************)
(* FrameworkShutdownCoordinator and the two component adapters of          *)
(* lily_shutdown (framework.rs): ShutdownAction, a pair of one-shot        *)
(* closures, and OwnedTaskSet, a set of tasks that is cancelled and joined.*)
(*                                                                         *)
(* The coordinator awaits one future at a time: a component's graceful     *)
(* shutdown or its force handle, each under an absolute deadline.  The     *)
(* futures may return, fail, panic or never end.  A force request may      *)
(* arrive at any moment (ShutdownState shows how), and the caller may drop *)
(* execute_report while it waits and call it again.                        *)
(*                                                                         *)
(* Time is a clock of whole ticks; it stands still while the coordinator   *)
(* runs between two awaits.  Names, error texts, elapsed times, the        *)
(* counters derived from the statuses and a deadline too large for the     *)
(* clock are left out, and so are the coordinator's own calls into         *)
(* ShutdownState, which repeat what initiate_shutdown has done.            *)
(***************************************************************************)
EXTENDS Integers, FiniteSets

CONSTANTS
    ComponentCount, \* how many components are registered
    PhaseOf,        \* component -> its FrameworkShutdownPhase, 1 to 5
    TimeoutOf,      \* component -> its configured timeout
    KindOf,         \* component -> "action", "forcible" or "tasks"
    CutoffOf,       \* component -> the owner's absolute force_deadline, or None
    TaskCount,      \* how many tasks an OwnedTaskSet starts with
    Deadline,       \* the lifecycle deadline given to the coordinator
    MaxReserve,     \* MAX_FORCE_RESERVE
    Attached,       \* absolute <<graceful, hard>> limits a root may attach, or None
    LatestStart,    \* bound: the latest tick at which execution starts
    MaxDrops,       \* bound: how often a caller drops execute_report
    None

Components == 1..ComponentCount
Phases == 1..5
Kinds == {"action", "forcible", "tasks"}
Statuses == {"completed", "failed", "panicked", "timedOut", "cancelledByForce"}
Cleanups == {"notAttempted", "completed", "failed", "panicked", "timedOut", "unavailable"}
Completions == {"graceful", "forced", "incomplete"}

ASSUME CoordinatorAssumption ==
    /\ ComponentCount \in Nat
    /\ PhaseOf \in [Components -> Phases]
    /\ TimeoutOf \in [Components -> Nat]
    /\ KindOf \in [Components -> Kinds]
    /\ CutoffOf \in [Components -> Nat \cup {None}]
    /\ TaskCount \in Nat
    /\ Deadline \in Nat
    /\ MaxReserve \in Nat
    /\ Attached \subseteq (Nat \X Nat) \cup {None}
    /\ LatestStart \in Nat
    /\ MaxDrops \in Nat
    /\ None \notin Nat /\ None \notin Nat \X Nat
    /\ None \notin Statuses \cup Cleanups \cup Completions

VARIABLES
    now,        \* the clock
    force,      \* ShutdownState::is_force_requested
    attached,   \* absolute_deadlines
    limits,     \* start, graceful and hard deadline and reserve of this execution
    phase,      \* the phase being executed
    index,      \* components registered up to here are still to be visited in it
    step,       \* what the coordinator is doing
    current,    \* the component it is doing it to
    until,      \* the deadline of the future it awaits
    status,     \* component -> FrameworkComponentStatus
    cleanup,    \* component -> FrameworkForcedCleanupStatus
    graceful,   \* component -> its graceful closure and retained terminal
    handle,     \* component -> its force closure and retained terminal
    live,       \* component -> tasks of an OwnedTaskSet still running
    failed,     \* component -> a finished task's error is waiting to be joined
    calls,      \* history: how often each closure was invoked
    forcedIn,   \* history: component -> the last execution that forced it, or None
    report,     \* terminal_report
    drops       \* executions dropped so far

adapterVars == <<graceful, handle, live, failed, calls, forcedIn>>
clockVars == <<now, attached, limits>>
vars == <<clockVars, force, phase, index, step, current, until, status, cleanup,
          adapterVars, report, drops>>

Steps == {"idle", "select", "graceful", "force", "forced", "done"}
Terminals == {"completed", "failed", "panicked", "interrupted"}
Closures == {"absent", "fresh", "running", "lost"} \cup Terminals

Least(a, b) == IF a < b THEN a ELSE b
Until(t) == IF t > now THEN t - now ELSE 0

\* force_reserve
ForceReserve == Least(Deadline \div 4, MaxReserve)

Init ==
    /\ now = 0
    /\ force = FALSE
    /\ attached \in Attached
    /\ limits = [start |-> 0, graceful |-> 0, hard |-> 0, reserve |-> 0]
    /\ phase = 1
    /\ index = 0
    /\ step = "idle"
    /\ current = None
    /\ until = 0
    /\ status = [c \in Components |-> None]
    /\ cleanup = [c \in Components |-> None]
    /\ graceful = [c \in Components |-> IF KindOf[c] = "tasks" THEN "absent" ELSE "fresh"]
    /\ handle = [c \in Components |-> IF KindOf[c] = "forcible" THEN "fresh" ELSE "absent"]
    /\ live = [c \in Components |-> IF KindOf[c] = "tasks" THEN TaskCount ELSE 0]
    /\ failed = [c \in Components |-> FALSE]
    /\ calls = [c \in Components |-> [graceful |-> 0, force |-> 0]]
    /\ forcedIn = [c \in Components |-> None]
    /\ report = None
    /\ drops = 0

-----------------------------------------------------------------------------
(* The deadlines                                                           *)

\* execute_report: the limits of an execution, its own or those attached by before()
Limits ==
    LET hard == now + Deadline
        own == [graceful |-> hard - ForceReserve, hard |-> hard]
        given == [graceful |-> Least(attached[1], attached[2]), hard |-> attached[2]]
        used == IF attached = None THEN own ELSE given
    IN  [start |-> now, graceful |-> used.graceful, hard |-> used.hard,
         reserve |-> Least(ForceReserve, used.hard - used.graceful)]

\* run_component: what is left for graceful work
Budget(c) == Least(TimeoutOf[c], Until(limits.graceful))

MutGracefulUntil(c) == Least(now + TimeoutOf[c], limits.hard)

\* run_component: the deadline of the graceful future
GracefulUntil(c) == Least(now + Budget(c), limits.graceful)

\* force_budget
ForceBudget(c) == Least(Least(TimeoutOf[c], limits.reserve), Until(limits.hard))

MutForceDeadline(c) ==
    Least(IF CutoffOf[c] = None THEN now + ForceBudget(c) ELSE CutoffOf[c], now + TimeoutOf[c])

\* run_forced: the absolute cap of one force attempt
ForceDeadline(c) ==
    Least(Least(IF CutoffOf[c] = None THEN now + ForceBudget(c) ELSE CutoffOf[c],
                now + TimeoutOf[c]),
          limits.hard)

-----------------------------------------------------------------------------
(* The adapters: what polling, finishing and dropping a future does        *)

MutStarted(closure) == IF closure \in {"fresh", "lost"} THEN "running" ELSE closure

\* the first poll of a closure: a taken one has left nothing but its terminal,
\* and one that disappeared without a terminal is recorded as interrupted
Started(closure) ==
    CASE closure = "fresh" -> "running"
      [] closure = "lost" -> "interrupted"
      [] OTHER -> closure

\* dropping a future that has not finished
Dropped(closure) == IF closure = "running" THEN "lost" ELSE closure

Invoked(closure) == IF Started(closure) = "running" THEN 1 ELSE 0

StartGraceful(c) ==
    /\ graceful' = [graceful EXCEPT ![c] = Started(@)]
    /\ calls' = [calls EXCEPT ![c].graceful = @ + Invoked(graceful[c])]
    /\ UNCHANGED <<handle, live, failed, forcedIn>>

\* the first poll of a force handle: a ShutdownAction's closure or abort_all;
\* drops numbers the execution
StartForce(c) ==
    /\ handle' = [handle EXCEPT ![c] = Started(@)]
    /\ calls' = [calls EXCEPT ![c].force = @ + Invoked(handle[c])]
    /\ forcedIn' = [forcedIn EXCEPT ![c] = drops]
    /\ UNCHANGED <<graceful, live, failed>>

\* errors already joined are lost with the future that joined them
DropFuture(c) ==
    /\ graceful' = [graceful EXCEPT ![c] = Dropped(@)]
    /\ handle' = [handle EXCEPT ![c] = Dropped(@)]
    /\ \E kept \in {failed[c], FALSE} : failed' = [failed EXCEPT ![c] = kept]
    /\ UNCHANGED <<live, calls, forcedIn>>

\* what a closure's future can return, and what is retained of it
Outcomes(closure) ==
    IF closure = "running" THEN {"completed", "failed", "panicked"} ELSE {closure}

MutMapResult(terminal) == terminal

\* map_result and map_forced_result
MapResult(terminal) == IF terminal = "interrupted" THEN "failed" ELSE terminal

\* OwnedTaskSet::shutdown, called by both paths, returns once every task is joined
Joined(c) == live[c] = 0
JoinResult(c) == IF failed[c] THEN "failed" ELSE "completed"

-----------------------------------------------------------------------------
(* execute_report                                                          *)

\* execute_report is called and there is no terminal report yet
Execute ==
    /\ step = "idle"
    /\ limits' = Limits
    /\ \E quit \in BOOLEAN : force' = (force \/ quit)
    /\ phase' = 1
    /\ index' = ComponentCount
    /\ step' = "select"
    /\ status' = [c \in Components |-> None]
    /\ cleanup' = [c \in Components |-> None]
    /\ UNCHANGED <<now, attached, current, until, adapterVars, report, drops>>

InPhase == {c \in 1..index : PhaseOf[c] = phase}

\* within a phase, components run in reverse order of registration
Selected == CHOOSE c \in InPhase : \A d \in InPhase : d <= c

\* no component of this phase is left
NextPhase ==
    /\ step = "select"
    /\ InPhase = {}
    /\ phase < 5
    /\ phase' = phase + 1
    /\ index' = ComponentCount
    /\ UNCHANGED <<clockVars, force, step, current, until, status, cleanup, adapterVars,
                   report, drops>>

\* run_component, up to its first await: force and an empty budget skip the graceful call
RunComponent ==
    /\ step = "select"
    /\ InPhase # {}
    /\ LET c == Selected
           skipped == IF force THEN "cancelledByForce" ELSE "timedOut"
       IN  /\ current' = c
           /\ index' = c - 1
           /\ IF force \/ Budget(c) = 0
              THEN /\ status' = [status EXCEPT ![c] = skipped]
                   /\ step' = "force"
                   /\ UNCHANGED <<until, adapterVars>>
              ELSE /\ step' = "graceful"
                   /\ until' = GracefulUntil(c)
                   /\ StartGraceful(c)
                   /\ UNCHANGED status
    /\ UNCHANGED <<clockVars, force, phase, cleanup, report, drops>>

\* the component completed: no force cleanup is needed
Accept(c) ==
    /\ status' = [status EXCEPT ![c] = "completed"]
    /\ cleanup' = [cleanup EXCEPT ![c] = "notAttempted"]
    /\ step' = "select"
    /\ UNCHANGED <<clockVars, force, phase, index, current, until, report, drops>>

\* it did not: the outcome is kept and the force handle is tried
Divert(c, outcome) ==
    /\ status' = [status EXCEPT ![c] = outcome]
    /\ step' = "force"
    /\ UNCHANGED <<clockVars, force, phase, index, current, until, cleanup, report, drops>>

Conclude(c, result) ==
    \/ result = "completed" /\ Accept(c)
    \/ result # "completed" /\ Divert(c, result)

ActionReturns ==
    /\ step = "graceful"
    /\ KindOf[current] # "tasks"
    /\ \E terminal \in Outcomes(graceful[current]) :
        /\ graceful' = [graceful EXCEPT ![current] = terminal]
        /\ Conclude(current, MapResult(terminal))
    /\ UNCHANGED <<handle, live, failed, calls, forcedIn>>

TasksJoined ==
    /\ step = "graceful"
    /\ KindOf[current] = "tasks"
    /\ Joined(current)
    /\ failed' = [failed EXCEPT ![current] = FALSE]
    /\ Conclude(current, JoinResult(current))
    /\ UNCHANGED <<graceful, handle, live, calls, forcedIn>>

GracefulTimesOut ==
    /\ step = "graceful"
    /\ now >= until
    /\ DropFuture(current)
    /\ Divert(current, "timedOut")

\* wait_for_force wins the select.  The select is not biased: it may also win
\* before the graceful future is first polled, which leaves the closure unused,
\* as RequestForce does when it comes just before RunComponent.
ForceCancels ==
    /\ step = "graceful"
    /\ force
    /\ DropFuture(current)
    /\ Divert(current, "cancelledByForce")

\* the cleanup of one component is decided, the loop goes on
Settle(c, outcome) ==
    /\ cleanup' = [cleanup EXCEPT ![c] = outcome]
    /\ step' = "select"
    /\ UNCHANGED <<clockVars, force, phase, index, current, status, report, drops>>

HasHandle(c) == KindOf[c] = "tasks" \/ handle[c] # "absent"

\* run_forced, up to its await
RunForced ==
    /\ step = "force"
    /\ \/ /\ ~HasHandle(current)
          /\ Settle(current, "unavailable")
          /\ UNCHANGED <<until, adapterVars>>
       \/ /\ HasHandle(current)
          /\ now >= ForceDeadline(current)
          /\ Settle(current, "timedOut")
          /\ UNCHANGED <<until, adapterVars>>
       \/ /\ HasHandle(current)
          /\ now < ForceDeadline(current)
          /\ step' = "forced"
          /\ until' = ForceDeadline(current)
          /\ StartForce(current)
          /\ UNCHANGED <<clockVars, force, phase, index, current, status, cleanup,
                         report, drops>>

ForceReturns ==
    /\ step = "forced"
    /\ KindOf[current] # "tasks"
    /\ \E terminal \in Outcomes(handle[current]) :
        /\ handle' = [handle EXCEPT ![current] = terminal]
        /\ Settle(current, MapResult(terminal))
    /\ UNCHANGED <<graceful, live, failed, calls, forcedIn, until>>

MutTasksReaped ==
    /\ step = "forced"
    /\ KindOf[current] = "tasks"
    /\ failed' = [failed EXCEPT ![current] = FALSE]
    /\ Settle(current, JoinResult(current))
    /\ UNCHANGED <<graceful, handle, live, calls, forcedIn, until>>

\* OwnedTaskSet::force_shutdown joins what it aborted
TasksReaped ==
    /\ step = "forced"
    /\ KindOf[current] = "tasks"
    /\ Joined(current)
    /\ failed' = [failed EXCEPT ![current] = FALSE]
    /\ Settle(current, JoinResult(current))
    /\ UNCHANGED <<graceful, handle, live, calls, forcedIn, until>>

MutForceTimesOut == FALSE

ForceTimesOut ==
    /\ step = "forced"
    /\ now >= until
    /\ DropFuture(current)
    /\ Settle(current, "timedOut")
    /\ UNCHANGED until

\* every component proved its end, gracefully or by force
TerminalComplete ==
    \A c \in Components : status[c] = "completed" \/ cleanup[c] = "completed"

ForcePathUsed == force \/ \E c \in Components : cleanup[c] # "notAttempted"

\* the completion class of the report
Completion ==
    IF ~TerminalComplete THEN "incomplete"
    ELSE IF ForcePathUsed THEN "forced" ELSE "graceful"

\* the report is retained; later calls of execute_report only replay it
Report ==
    /\ step = "select"
    /\ InPhase = {}
    /\ phase = 5
    /\ report' = Completion
    /\ step' = "done"
    /\ UNCHANGED <<clockVars, force, phase, index, current, until, status, cleanup,
                   adapterVars, drops>>

-----------------------------------------------------------------------------
(* The environment                                                         *)

\* the second signal, or anybody's request_force
RequestForce ==
    /\ ~force
    /\ force' = TRUE
    /\ UNCHANGED <<clockVars, phase, index, step, current, until, status, cleanup,
                   adapterVars, report, drops>>

\* the caller drops execute_report while it awaits
DropExecution ==
    /\ step \in {"graceful", "forced"}
    /\ drops < MaxDrops
    /\ drops' = drops + 1
    /\ step' = "idle"
    /\ DropFuture(current)
    /\ UNCHANGED <<clockVars, force, phase, index, current, until, status, cleanup, report>>

\* a task of an OwnedTaskSet ends, well or badly, cancelled, aborted or on its own
TaskEnds(c) ==
    /\ live[c] > 0
    /\ live' = [live EXCEPT ![c] = @ - 1]
    /\ \E error \in BOOLEAN : failed' = [failed EXCEPT ![c] = @ \/ error]
    /\ UNCHANGED <<clockVars, force, phase, index, step, current, until, status, cleanup,
                   graceful, handle, calls, forcedIn, report, drops>>

\* time passes only while somebody waits, and no timer or force request is due
Tick ==
    /\ \/ step = "idle" /\ now < LatestStart
       \/ step = "graceful" /\ ~force /\ now < until
       \/ step = "forced" /\ now < until
    /\ now' = now + 1
    /\ UNCHANGED <<attached, limits, force, phase, index, step, current, until, status,
                   cleanup, adapterVars, report, drops>>

Coordinate ==
    \/ NextPhase
    \/ RunComponent
    \/ ActionReturns
    \/ TasksJoined
    \/ GracefulTimesOut
    \/ ForceCancels
    \/ RunForced
    \/ ForceReturns
    \/ TasksReaped
    \/ ForceTimesOut
    \/ Report

Next ==
    \/ Execute
    \/ Coordinate
    \/ RequestForce
    \/ DropExecution
    \/ \E c \in Components : TaskEnds(c)
    \/ Tick

Spec == Init /\ [][Next]_vars

(* The task that awaits execute_report is polled when a timer or the force *)
(* request wakes it, and the clock goes on.  Nothing is assumed of a       *)
(* component: none of its futures and tasks has to end.                    *)
Fairness ==
    /\ WF_vars(NextPhase \/ RunComponent \/ RunForced \/ Report)
    /\ WF_vars(GracefulTimesOut)
    /\ WF_vars(ForceTimesOut)
    /\ WF_vars(ForceCancels)
    /\ WF_vars(Tick)

FairSpec == Spec /\ Fairness

-----------------------------------------------------------------------------
(* Properties                                                              *)

TypeOK ==
    /\ now \in Nat
    /\ force \in BOOLEAN
    /\ attached \in Attached
    /\ limits \in [start : Nat, graceful : Nat, hard : Nat, reserve : Nat]
    /\ phase \in Phases
    /\ index \in 0..ComponentCount
    /\ step \in Steps
    /\ current \in Components \cup {None}
    /\ until \in Nat
    /\ status \in [Components -> Statuses \cup {None}]
    /\ cleanup \in [Components -> Cleanups \cup {None}]
    /\ graceful \in [Components -> Closures]
    /\ handle \in [Components -> Closures]
    /\ live \in [Components -> 0..TaskCount]
    /\ failed \in [Components -> BOOLEAN]
    /\ calls \in [Components -> [graceful : Nat, force : Nat]]
    /\ forcedIn \in [Components -> 0..MaxDrops \cup {None}]
    /\ report \in Completions \cup {None}
    /\ drops \in 0..MaxDrops

Running == step \notin {"idle", "done"}

\* However many components hang, in whatever order and on whichever path, the
\* coordinator never waits past the hard deadline of its execution; deadlines
\* that had expired when it started stay expired.
EndsInTime ==
    Running => now <= (IF limits.start > limits.hard THEN limits.start ELSE limits.hard)

AnyForced == \E c \in Components : cleanup[c] \notin {None, "notAttempted"}

\* Graceful work cannot eat the force reserve: the first component that has to
\* be forced still finds all of it before the hard deadline, when execution did
\* not start too late.
ReserveIsKept ==
    step = "force" /\ ~AnyForced /\ limits.start <= limits.graceful
        => limits.hard - now >= limits.reserve

\* Neither closure of a ShutdownAction is ever invoked a second time, also when
\* its future was dropped by a timeout, by force or with the whole execution
\* and execute_report is called again.
ClosuresRunOnce ==
    \A c \in Components : calls[c].graceful <= 1 /\ calls[c].force <= 1

\* the end of component c, from the component's own point of view
Ended(c) ==
    IF KindOf[c] = "tasks" THEN live[c] = 0
    ELSE graceful[c] = "completed" \/ handle[c] = "completed"

\* A report that claims a complete shutdown is right about every component:
\* its closure completed or all its tasks have ended.  A graceful one owes
\* nothing to force: each action ended by its own graceful closure, and the
\* execution that reports has used no force handle.  (An earlier execution,
\* dropped by its caller, may have: see GracefulUsedNoForce.)
ReportIsTruthful ==
    /\ report \in {"graceful", "forced"} => \A c \in Components : Ended(c)
    /\ report = "graceful" => \A c \in Components :
           /\ KindOf[c] # "tasks" => graceful[c] = "completed"
           /\ forcedIn[c] # drops

\* An execution that nobody drops ends with a report, even if no component does.
AlwaysReports == Running ~> report # None \/ step = "idle"

-----------------------------------------------------------------------------
(* What a comment of the code says and the coordinator does not keep.      *)

\* GracefulCompleted: "Every component completed without using force cleanup."
\* Refuted by an execution that is dropped while it forces a component and
\* called again: the aborted tasks of an OwnedTaskSet are joined without an
\* error, and so the second execution is reported as a graceful one.
GracefulUsedNoForce ==
    report = "graceful" => \A c \in Components : forcedIn[c] = None
=============================================================================
