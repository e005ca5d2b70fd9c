----------------------------- MODULE ScopeManager -----------------------------
(***************************************************************************)
(* Request and job scopes of the dependency injection container            *)
(* (lily_injection): ScopeManager, ScopeContext with its resolution        *)
(* guards, the provider's resolution admission, ApplicationScope and       *)
(* ApplicationContainer::perform_shutdown.                                 *)
(*                                                                         *)
(* A scope ID may be used again: a generation is one ScopeContext, so two  *)
(* generations may carry the same ID.  Resolvers are the tasks that ask    *)
(* for one service each, so an instance is named after the resolver whose  *)
(* factory made it.  A factory may return, fail, be cancelled in the       *)
(* middle of its initialization or never end; a disposer may return, fail  *)
(* or never end; the runtime may drop a cleanup task; deadlines may fall   *)
(* at any moment.  One step is one critical section or atomic operation.   *)
(*                                                                         *)
(* Left out: the process context handed to disposers, names and texts, the *)
(* ledgers of outcomes and failures (an outcome is kept as an instance's   *)
(* fate), building the container and its rollback, a container without a   *)
(* runtime.  There is one service type per lifetime.                       *)
(***************************************************************************)
EXTENDS Integers, Sequences, FiniteSets, SequencesExt

CONSTANTS
    Ids,        \* application-provided scope IDs
    Resolvers,  \* tasks that resolve one service each
    LifeOf,     \* resolver -> the lifetimes its service may have
    MaxGens,    \* bound: how many scopes are ever created
    None

Gens == 1..MaxGens
Lifetimes == {"scoped", "transient", "root"}

ASSUME ScopeAssumption ==
    /\ IsFiniteSet(Resolvers)
    /\ LifeOf \in [Resolvers -> SUBSET Lifetimes]
    /\ MaxGens \in Nat
    /\ None \notin Ids /\ None \notin Resolvers /\ None \notin Gens
    /\ None \notin Lifetimes \cup {"shutdown", "owner", "observer", "ok", "error"}

VARIABLES
    scopes,     \* ID -> the live generation, or None
    closing,    \* ID -> the generation whose cleanup reserves it, or None
    accepting,  \* accepting_scopes
    ctx,        \* generation -> its ScopeContext
    job,        \* generation -> its cleanup task and ScopeCleanupTaskControl
    owner,      \* generation -> what its ApplicationScope is doing
    observer,   \* one wait_for_observed_scope_cleanup_before
    res,        \* resolver -> its resolution
    fate,       \* resolver -> what became of the instance it made
    provider,   \* Extensions: its state, resolution counter and Notify
    roots,      \* root_instances, and the ones being disposed
    shutdown,   \* perform_shutdown
    late        \* the aggregate deadline has been seen to pass

scopeVars == <<scopes, closing, accepting, ctx>>
watchVars == <<owner, observer>>
shutVars == <<shutdown, late>>
vars == <<scopeVars, job, watchVars, res, fate, provider, roots, shutVars>>

NoScope == [id |-> None, state |-> "Unused", inFlight |-> 0, cached |-> None,
            ledger |-> <<>>, creating |-> None, permit |-> FALSE, handoff |-> "none"]
NoJob == [pc |-> "none", terminal |-> "OPEN", abortSafe |-> FALSE, detached |-> FALSE,
          control |-> FALSE, deciding |-> None, aborted |-> FALSE, held |-> <<>>,
          failed |-> FALSE]

Init ==
    /\ scopes = [i \in Ids |-> None]
    /\ closing = [i \in Ids |-> None]
    /\ accepting = TRUE
    /\ ctx = [g \in Gens |-> NoScope]
    /\ job = [g \in Gens |-> NoJob]
    /\ owner = [g \in Gens |-> "none"]
    /\ observer = [pc |-> "idle", gen |-> None, result |-> None]
    /\ res = [r \in Resolvers |->
                [pc |-> "idle", life |-> None, id |-> None, gen |-> None, carried |-> <<>>]]
    /\ fate = [r \in Resolvers |-> "none"]
    /\ provider = [state |-> "Running", inFlight |-> 0, permit |-> FALSE]
    /\ roots = [ledger |-> <<>>, held |-> <<>>]
    /\ shutdown = "none"
    /\ late = FALSE

-----------------------------------------------------------------------------
(* Scopes                                                                  *)

Used == {g \in Gens : ctx[g].state # "Unused"}
Fates(instances, f) ==
    [r \in Resolvers |-> IF r \in Range(instances) THEN f ELSE fate[r]]
ActiveOrClosing(g) == g \in {scopes[ctx[g].id], closing[ctx[g].id]}

\* create_scope_with_context.  The caller has seen the provider Running, which
\* may no longer be so when it gets the lock.
CreateScope(i) ==
    /\ accepting
    /\ scopes[i] = None /\ closing[i] = None
    /\ Cardinality(Used) < MaxGens
    /\ LET g == Cardinality(Used) + 1
       IN  /\ scopes' = [scopes EXCEPT ![i] = g]
           /\ ctx' = [ctx EXCEPT ![g] = [NoScope EXCEPT !.id = i, !.state = "Open"]]
           /\ owner' = [owner EXCEPT ![g] = "open"]
    /\ UNCHANGED <<closing, accepting, job, observer, res, fate, provider, roots,
                   shutVars>>

\* schedule_scope_cleanup: the task and its control, registered behind the
\* start barrier while the map of scopes is still locked
Scheduled(g) ==
    [NoJob EXCEPT !.pc = "start", !.control = TRUE, !.abortSafe = ctx[g].inFlight = 0]

\* begin_closing, the reservation and the task of every generation in gs
BeginCleanup(gs) ==
    /\ ctx' = [g \in Gens |-> IF g \in gs THEN [ctx[g] EXCEPT !.state = "Closing"] ELSE ctx[g]]
    /\ closing' = [i \in Ids |-> IF scopes[i] \in gs THEN scopes[i] ELSE closing[i]]
    /\ scopes' = [i \in Ids |-> IF scopes[i] \in gs THEN None ELSE scopes[i]]
    /\ job' = [g \in Gens |-> IF g \in gs THEN Scheduled(g) ELSE job[g]]
    /\ UNCHANGED accepting

Live == {g \in Used : scopes[ctx[g].id] = g}

\* ApplicationScope::begin_cleanup by close or close_before, or by drop.  A
\* scope that forced shutdown has taken already needs nothing.
OwnerCloses(g, waits) ==
    /\ owner[g] = "open"
    /\ BeginCleanup({g} \cap Live)
    /\ owner' = [owner EXCEPT ![g] = IF ~waits THEN "dropped"
                                     ELSE IF g \in Live THEN "waiting" ELSE "forced"]
    /\ UNCHANGED <<observer, res, fate, provider, roots, shutVars>>

-----------------------------------------------------------------------------
(* Resolution                                                              *)

At(r, pc) == res[r].pc = pc
ResGoto(r, pc) == res' = [res EXCEPT ![r].pc = pc]

\* ensure_resolution_allowed
Allowed(life, i) ==
    \/ provider.state = "Running"
    \/ provider.state = "Closing" /\ life # "root" /\ scopes[i] # None

\* the provider's counter goes down, and a permit is stored at zero
CounterReleased ==
    provider' = [provider EXCEPT !.inFlight = @ - 1, !.permit = @ \/ provider.inFlight = 1]

\* begin_resolution: the first check and fetch_add.  Every resolver may have
\* passed the check while the provider was Running, so it never stops one.
Ask(r, life, i) ==
    /\ At(r, "idle")
    /\ provider' = [provider EXCEPT !.inFlight = @ + 1]
    /\ res' = [res EXCEPT ![r].pc = "recheck", ![r].life = life, ![r].id = i]
    /\ UNCHANGED <<scopeVars, job, watchVars, fate, roots, shutVars>>

\* the check is repeated now that the counter is visible
Recheck(r) ==
    /\ At(r, "recheck")
    /\ IF Allowed(res[r].life, res[r].id)
       THEN /\ ResGoto(r, IF res[r].life = "root" THEN "create" ELSE "lookup")
            /\ UNCHANGED provider
       ELSE /\ ResGoto(r, "done")
            /\ CounterReleased
    /\ UNCHANGED <<scopeVars, job, watchVars, fate, roots, shutVars>>

\* get_scope
Lookup(r) ==
    /\ At(r, "lookup")
    /\ LET g == scopes[res[r].id]
       IN  res' = [res EXCEPT ![r].pc = IF g = None THEN "release" ELSE "enter", ![r].gen = g]
    /\ UNCHANGED <<scopeVars, job, watchVars, fate, provider, roots, shutVars>>

\* the cache is consulted before the creation lock
AfterEntry(r) ==
    IF res[r].life = "transient" THEN "create"
    ELSE IF ctx[res[r].gen].cached # None THEN "leave" ELSE "lock"

MutEnterUnguarded(r) ==
    /\ At(r, "enter")
    /\ IF ctx[res[r].gen].state = "Open"
       THEN /\ ctx' = [ctx EXCEPT ![res[r].gen].inFlight = @ + 1]
            /\ ResGoto(r, AfterEntry(r))
       ELSE /\ ResGoto(r, "leave")
            /\ UNCHANGED ctx
    /\ UNCHANGED <<scopes, closing, accepting, job, watchVars, fate, provider, roots,
                   shutVars>>

MutEnter(r) ==
    /\ At(r, "enter")
    /\ ctx' = [ctx EXCEPT ![res[r].gen].inFlight = @ + 1]
    /\ ResGoto(r, AfterEntry(r))
    /\ UNCHANGED <<scopes, closing, accepting, job, watchVars, fate, provider, roots,
                   shutVars>>

\* ScopeResolutionGuard::enter
Enter(r) ==
    /\ At(r, "enter")
    /\ IF ctx[res[r].gen].state = "Open"
       THEN /\ ctx' = [ctx EXCEPT ![res[r].gen].inFlight = @ + 1]
            /\ ResGoto(r, AfterEntry(r))
       ELSE /\ ResGoto(r, "release")
            /\ UNCHANGED ctx
    /\ UNCHANGED <<scopes, closing, accepting, job, watchVars, fate, provider, roots,
                   shutVars>>

\* creation_lock(type_id).lock().await, and the cache once more under the lock
Lock(r) ==
    LET g == res[r].gen
    IN  /\ At(r, "lock")
        /\ ctx[g].creating = None
        /\ IF ctx[g].cached # None
           THEN ResGoto(r, "leave") /\ UNCHANGED ctx
           ELSE ResGoto(r, "create") /\ ctx' = [ctx EXCEPT ![g].creating = r]
        /\ UNCHANGED <<scopes, closing, accepting, job, watchVars, fate, provider, roots,
                       shutVars>>

Unlocked(r, c) == [c EXCEPT !.creating = IF @ = r THEN None ELSE @]

-----------------------------------------------------------------------------
(* Factories                                                               *)

\* cache_any: the entry of the type is pushed once, its value replaced
CacheAny(r, c) ==
    [c EXCEPT !.cached = r,
              !.ledger = IF c.cached = None THEN Append(@, r)
                         ELSE [n \in DOMAIN @ |-> IF @[n] = c.cached THEN r ELSE @[n]]]

\* track_transient
TrackTransient(r, c) == [c EXCEPT !.ledger = Append(@, r)]

\* cache_any or track_transient, under the scope's lock
PublishScoped(r) ==
    LET g == res[r].gen
    IN  /\ At(r, "create") /\ res[r].life # "root"
        /\ ctx' = [ctx EXCEPT ![g] =
                     Unlocked(r, IF res[r].life = "scoped" THEN CacheAny(r, @)
                                 ELSE TrackTransient(r, @))]
        /\ fate' = [fate EXCEPT ![r] = "published"]
        /\ ResGoto(r, "leave")
        /\ UNCHANGED <<scopes, closing, accepting, job, watchVars, provider, roots,
                       shutVars>>

\* track_root_transient: a value that shutdown has overtaken is not entered
PublishRoot(r) ==
    /\ At(r, "create") /\ res[r].life = "root"
    /\ IF provider.state = "Running"
       THEN /\ roots' = [roots EXCEPT !.ledger = Append(@, r)]
            /\ fate' = [fate EXCEPT ![r] = "published"]
            /\ ResGoto(r, "release")
       ELSE /\ ResGoto(r, "overtaken")
            /\ UNCHANGED <<roots, fate>>
    /\ UNCHANGED <<scopeVars, job, watchVars, provider, shutVars>>

\* Its disposer is awaited by the resolution itself, still admitted: it returns
\* or fails, or the caller goes away and the value is dropped with it.
DisposeOvertaken(r) ==
    /\ At(r, "overtaken")
    /\ \E f \in {"disposed", "forced"} : fate' = [fate EXCEPT ![r] = f]
    /\ ResGoto(r, "release")
    /\ UNCHANGED <<scopeVars, job, watchVars, provider, roots, shutVars>>

AfterFactory(r) == IF res[r].life = "root" THEN "release" ELSE "leave"
UnlockedBy(r) ==
    IF res[r].life = "root" THEN ctx ELSE [ctx EXCEPT ![res[r].gen] = Unlocked(r, @)]

\* the factory fails or panics, or the caller goes away while it waits for the lock
ResolutionFails(r) ==
    /\ At(r, "create") \/ At(r, "lock")
    /\ ctx' = UnlockedBy(r)
    /\ ResGoto(r, AfterFactory(r))
    /\ UNCHANGED <<scopes, closing, accepting, job, watchVars, fate, provider, roots,
                   shutVars>>

\* get_scope_for_lifecycle_registration
RegistrationScope(i) == IF scopes[i] # None THEN scopes[i] ELSE closing[i]

\* The caller goes away in the middle of an initialization: the generated
\* guard hands the half-made value to track_cancelled_initialization, which
\* finds the scope by its ID.
InitializationCancelled(r) ==
    /\ At(r, "create")
    /\ fate' = [fate EXCEPT ![r] = "published"]
    /\ LET g == IF res[r].life = "root" THEN None ELSE RegistrationScope(res[r].id)
       IN  IF g = None
           THEN /\ roots' = [roots EXCEPT !.ledger = Append(@, r)]
                /\ ctx' = UnlockedBy(r)
           ELSE /\ ctx' = [UnlockedBy(r) EXCEPT ![g].ledger = Append(@, r)]
                /\ UNCHANGED roots
    /\ ResGoto(r, AfterFactory(r))
    /\ UNCHANGED <<scopes, closing, accepting, job, watchVars, provider, shutVars>>

-----------------------------------------------------------------------------
(* The end of a resolution                                                 *)

\* mark_closed and take_instances_for_disposal
Drained(c) == [c EXCEPT !.state = "Closed", !.ledger = <<>>, !.cached = None, !.creating = None,
                         !.permit = FALSE]

\* ScopeResolutionGuard::drop: the last one stores a permit for the cleanup
\* task and takes the ledger if that task has left it a handoff
Leave(r) ==
    LET g == res[r].gen
        last == ctx[g].inFlight = 1
        armed == last /\ ctx[g].handoff = "installed"
        left == [ctx[g] EXCEPT !.inFlight = @ - 1, !.permit = @ \/ last]
    IN  /\ At(r, "leave")
        /\ ctx' = [ctx EXCEPT ![g] =
                     IF armed THEN [Drained(left) EXCEPT !.handoff = "taken"] ELSE left]
        /\ res' = [res EXCEPT ![r].pc = IF armed THEN "handoff" ELSE "release",
                              ![r].carried = IF armed THEN Reverse(ctx[g].ledger) ELSE <<>>]
        /\ UNCHANGED <<scopes, closing, accepting, job, watchVars, fate, provider, roots,
                       shutVars>>

\* remove_cleanup_registration: control and reservation go together
Unregister(g) ==
    /\ job[g].control
    /\ closing[ctx[g].id] = g
    /\ closing' = [closing EXCEPT ![ctx[g].id] = None]

\* the closure of the handoff, run by the last guard after the lock is free
CompleteHandoff(r) ==
    LET g == res[r].gen
    IN  /\ At(r, "handoff")
        /\ Unregister(g)
        /\ job' = [job EXCEPT ![g].detached = TRUE, ![g].control = FALSE,
                              ![g].abortSafe = FALSE]
        /\ ctx' = [ctx EXCEPT ![g].handoff = "done"]
        /\ fate' = Fates(res[r].carried, "forced")
        /\ res' = [res EXCEPT ![r].pc = "release", ![r].carried = <<>>]
        /\ UNCHANGED <<scopes, accepting, watchVars, provider, roots, shutVars>>

\* ProviderResolutionGuard::drop
Release(r) ==
    /\ At(r, "release")
    /\ CounterReleased
    /\ ResGoto(r, "done")
    /\ UNCHANGED <<scopeVars, job, watchVars, fate, roots, shutVars>>

-----------------------------------------------------------------------------
(* The cleanup task                                                        *)

InTask(g, pc) == job[g].pc = pc
TaskGoto(g, pc) == job' = [job EXCEPT ![g].pc = pc]

\* dispose_removed_scope waits for the admitted resolutions
CountResolutions(g) ==
    /\ job[g].pc \in {"start", "count"}
    /\ TaskGoto(g, IF ctx[g].inFlight = 0 THEN "detach" ELSE "wait")
    /\ UNCHANGED <<scopeVars, watchVars, res, fate, provider, roots, shutVars>>

\* notified().await consumes a stored permit
TaskWakes(g) ==
    /\ InTask(g, "wait")
    /\ ctx[g].permit
    /\ ctx' = [ctx EXCEPT ![g].permit = FALSE]
    /\ TaskGoto(g, "count")
    /\ UNCHANGED <<scopes, closing, accepting, watchVars, res, fate, provider, roots,
                   shutVars>>

\* the whole ledger moves into the task, which may be aborted from now on
DetachLedger(g) ==
    /\ InTask(g, "detach")
    /\ ctx' = [ctx EXCEPT ![g] = Drained(@)]
    /\ job' = [job EXCEPT ![g].pc = "load", ![g].detached = TRUE, ![g].abortSafe = TRUE,
                          ![g].held = Reverse(ctx[g].ledger)]
    /\ UNCHANGED <<scopes, closing, accepting, watchVars, res, fate, provider, roots,
                   shutVars>>

\* on to the next disposer, or to the end of the loop
Disposing(instances) == IF instances = <<>> THEN "claim" ELSE "disposing"

MutLoadTerminal(g) ==
    /\ InTask(g, "load")
    /\ TaskGoto(g, Disposing(job[g].held))
    /\ UNCHANGED <<scopeVars, watchVars, res, fate, provider, roots, shutVars>>

\* a claimed cleanup drops its instances instead of disposing them
LoadTerminal(g) ==
    /\ InTask(g, "load")
    /\ IF job[g].terminal # "OPEN"
       THEN /\ fate' = Fates(job[g].held, "forced")
            /\ job' = [job EXCEPT ![g].pc = "claim", ![g].held = <<>>]
       ELSE /\ TaskGoto(g, Disposing(job[g].held))
            /\ UNCHANGED fate
    /\ UNCHANGED <<scopeVars, watchVars, res, provider, roots, shutVars>>

\* a disposer returns, fails or panics
DisposerEnds(g) ==
    /\ InTask(g, "disposing")
    /\ fate' = [fate EXCEPT ![Head(job[g].held)] = "disposed"]
    /\ \E ok \in BOOLEAN :
          job' = [job EXCEPT ![g].pc = Disposing(Tail(job[g].held)), ![g].held = Tail(@),
                             ![g].failed = @ \/ ~ok]
    /\ UNCHANGED <<scopeVars, watchVars, res, provider, roots, shutVars>>

\* claim_normal_completion
ClaimNormal(g) ==
    /\ InTask(g, "claim")
    /\ job' = [job EXCEPT ![g].pc = "finish",
                          ![g].terminal = IF @ = "OPEN" THEN "NORMAL" ELSE @]
    /\ UNCHANGED <<scopeVars, watchVars, res, fate, provider, roots, shutVars>>

AwaitPoints == {"start", "wait", "disposing"}

\* An abort, or the runtime going away, drops the task where it is suspended:
\* the disposer it was running and the instances it still held go with it.
TaskDropped(g) ==
    /\ job[g].pc \in AwaitPoints
    /\ fate' = Fates(job[g].held, "forced")
    /\ job' = [job EXCEPT ![g].pc = "finish", ![g].held = <<>>]
    /\ UNCHANGED <<scopeVars, watchVars, res, provider, roots, shutVars>>

Ended(g) ==
    [job[g] EXCEPT !.pc = "ending", !.control = FALSE, !.detached = TRUE,
                   !.abortSafe = FALSE, !.aborted = FALSE,
                   !.terminal = IF @ = "OPEN" THEN "UNEXPECTED_STOP" ELSE @]

MutFinish(g) ==
    /\ InTask(g, "finish")
    /\ Unregister(g)
    /\ fate' = IF job[g].detached THEN fate ELSE Fates(ctx[g].ledger, "forced")
    /\ ctx' = IF job[g].detached THEN ctx ELSE [ctx EXCEPT ![g] = Drained(@)]
    /\ job' = [job EXCEPT ![g] = Ended(g)]
    /\ UNCHANGED <<scopes, accepting, watchVars, res, provider, roots, shutVars>>

\* ScopeCleanupTaskRegistration::release, called at the end of the task or by
\* its drop.  While a resolution can still publish, the registration stays
\* and the last guard is made its owner.
Finish(g) ==
    /\ InTask(g, "finish")
    /\ IF ~job[g].detached /\ ctx[g].inFlight > 0
       THEN /\ ctx' = [ctx EXCEPT ![g].handoff = "installed"]
            /\ job' = [job EXCEPT ![g] = [Ended(g) EXCEPT !.control = TRUE, !.detached = FALSE]]
            /\ UNCHANGED <<closing, fate>>
       ELSE /\ Unregister(g)
            /\ fate' = IF job[g].detached THEN fate ELSE Fates(ctx[g].ledger, "forced")
            /\ ctx' = IF job[g].detached THEN ctx ELSE [ctx EXCEPT ![g] = Drained(@)]
            /\ job' = [job EXCEPT ![g] = Ended(g)]
    /\ UNCHANGED <<scopes, accepting, watchVars, res, provider, roots, shutVars>>

\* the future is gone, its tracker token released and its JoinHandle ready
TaskJoined(g) ==
    /\ InTask(g, "ending")
    /\ TaskGoto(g, "joined")
    /\ UNCHANGED <<scopeVars, watchVars, res, fate, provider, roots, shutVars>>

-----------------------------------------------------------------------------
(* Deadlines                                                               *)

\* the compare_exchange of a deadline: who wins must decide about the abort
Claimable(g) == job[g].control /\ job[g].terminal = "OPEN"
Claimed(g, by) ==
    [job[g] EXCEPT !.terminal = IF by = "shutdown" THEN "AGGREGATE_ABORT" ELSE "DEADLINE",
                   !.deciding = by]

IsAbortSafe(g) == job[g].abortSafe \/ ctx[g].inFlight = 0

\* is_abort_safe, and the abort if it is
DecideAbort(g) ==
    /\ job[g].deciding # None
    /\ job' = [job EXCEPT ![g].deciding = None, ![g].abortSafe = IsAbortSafe(g),
                          ![g].aborted = IsAbortSafe(g)]
    /\ UNCHANGED <<scopeVars, watchVars, res, fate, provider, roots, shutVars>>

\* wait_until passes its deadline while the cleanup is open: abort_for_deadline
OwnerExpires(g) ==
    /\ owner[g] = "waiting"
    /\ Claimable(g)
    /\ owner' = [owner EXCEPT ![g] = "expired"]
    /\ job' = [job EXCEPT ![g] = Claimed(g, "owner")]
    /\ UNCHANGED <<scopeVars, observer, res, fate, provider, roots, shutVars>>

MutOwnerReturns(g) ==
    /\ owner[g] \in {"waiting", "expired"}
    /\ job[g].deciding # "owner"
    /\ InTask(g, "joined")
    /\ owner' = [owner EXCEPT ![g] =
                    IF job[g].terminal = "NORMAL" /\ ~job[g].failed THEN "ok" ELSE "error"]
    /\ UNCHANGED <<scopeVars, job, observer, res, fate, provider, roots, shutVars>>

\* the ticket's result, then wait_for_cleanup_completion
OwnerReturns(g) ==
    /\ owner[g] \in {"waiting", "expired"}
    /\ job[g].deciding # "owner"
    /\ ~job[g].control
    /\ InTask(g, "joined")
    /\ owner' = [owner EXCEPT ![g] =
                    IF job[g].terminal = "NORMAL" /\ ~job[g].failed THEN "ok" ELSE "error"]
    /\ UNCHANGED <<scopeVars, job, observer, res, fate, provider, roots, shutVars>>

\* an adapter takes the cleanup observation of a scope it holds and waits
Observe(g) ==
    /\ observer.pc = "idle"
    /\ owner[g] = "open"
    /\ observer' = [observer EXCEPT !.pc = "watch", !.gen = g]
    /\ UNCHANGED <<scopeVars, job, owner, res, fate, provider, roots, shutVars>>

\* its deadline has passed and there is a control: claim_scope_cleanup_deadline
ObserverClaims ==
    LET g == observer.gen
    IN  /\ observer.pc = "watch" /\ observer.result = None
        /\ ActiveOrClosing(g)
        /\ job[g].control
        /\ observer' = [observer EXCEPT !.result =
                          IF job[g].terminal = "NORMAL" THEN "ok" ELSE "error"]
        /\ job' = IF Claimable(g) THEN [job EXCEPT ![g] = Claimed(g, "observer")] ELSE job
        /\ UNCHANGED <<scopeVars, owner, res, fate, provider, roots, shutVars>>

\* the generation is in neither map any more and its task is joined
ObserverReturns ==
    /\ observer.pc = "watch"
    /\ ~ActiveOrClosing(observer.gen)
    /\ job[observer.gen].deciding # "observer"
    /\ InTask(observer.gen, "joined")
    /\ observer' = [observer EXCEPT !.pc = "returned",
                                    !.result = IF @ = None THEN "ok" ELSE @]
    /\ UNCHANGED <<scopeVars, job, owner, res, fate, provider, roots, shutVars>>

-----------------------------------------------------------------------------
(* perform_shutdown                                                        *)

ShutGoto(pc) == shutdown' = pc
Failed == provider' = [provider EXCEPT !.state = "Failed"] /\ ShutGoto("done")

\* begin_shutdown
BeginShutdown ==
    /\ shutdown = "none"
    /\ provider' = [provider EXCEPT !.state = "Closing"]
    /\ ShutGoto("stop")
    /\ UNCHANGED <<scopeVars, job, watchVars, res, fate, roots, late>>

\* stop_accepting_scopes, under the lock of create_scope
StopAccepting ==
    /\ shutdown = "stop"
    /\ accepting' = FALSE
    /\ ShutGoto("scopes")
    /\ UNCHANGED <<scopes, closing, ctx, job, watchVars, res, fate, provider, roots, late>>

\* wait_for_no_active_scopes
ScopesDrained ==
    /\ shutdown = "scopes"
    /\ Live = {}
    /\ ShutGoto("tasks")
    /\ UNCHANGED <<scopeVars, job, watchVars, res, fate, provider, roots, late>>

\* the deadline comes first: begin_cleanup_all_scopes
ScopesTimeOut ==
    /\ shutdown = "scopes"
    /\ BeginCleanup(Live)
    /\ late' = TRUE
    /\ ShutGoto("tasks")
    /\ UNCHANGED <<watchVars, res, fate, provider, roots>>

\* cleanup_task_count: running tasks, unjoined tasks and handoff tokens
HoldsToken(g) ==
    job[g].pc \notin {"none", "joined"} \/ ctx[g].handoff \in {"installed", "taken"}
CleanupTasks == {g \in Gens : HoldsToken(g)}

\* no reservation may have outlived its task
Reconciled ==
    IF \E i \in Ids : closing[i] # None
    THEN Failed
    ELSE ShutGoto("root") /\ UNCHANGED provider

\* drain_cleanup_tasks
TasksDrained ==
    /\ shutdown = "tasks"
    /\ CleanupTasks = {}
    /\ Reconciled
    /\ UNCHANGED <<scopeVars, job, watchVars, res, fate, roots, late>>

\* the deadline comes first: abort_cleanup_tasks claims every open task
TasksTimeOut ==
    /\ shutdown = "tasks"
    /\ CleanupTasks # {}
    /\ late' = TRUE
    /\ job' = [g \in Gens |-> IF Claimable(g) THEN Claimed(g, "shutdown") ELSE job[g]]
    /\ ShutGoto("aborting")
    /\ UNCHANGED <<scopeVars, watchVars, res, fate, provider, roots>>

\* retained_resolution_drain_count
Retained(g) ==
    /\ job[g].control
    /\ ~IsAbortSafe(g)
    /\ job[g].terminal \in {"DEADLINE", "AGGREGATE_ABORT"}

\* a claimed task that still has to wait for a factory ends the shutdown
CountRetained ==
    /\ shutdown = "aborting"
    /\ \A g \in Gens : job[g].deciding # "shutdown"
    /\ job' = [g \in Gens |-> [job[g] EXCEPT !.abortSafe = @ \/ (job[g].control /\ IsAbortSafe(g))]]
    /\ IF \E g \in Gens : Retained(g)
       THEN Failed
       ELSE ShutGoto("yield") /\ UNCHANGED provider
    /\ UNCHANGED <<scopeVars, watchVars, res, fate, roots, late>>

\* one scheduler turn later nothing may be left
Yielded ==
    /\ shutdown = "yield"
    /\ IF CleanupTasks # {} THEN Failed ELSE Reconciled
    /\ UNCHANGED <<scopeVars, job, watchVars, res, fate, roots, late>>

MutCheckResolutions ==
    /\ shutdown = "root"
    /\ ShutGoto("dispose")
    /\ UNCHANGED <<scopeVars, job, watchVars, res, fate, provider, roots, late>>

\* shutdown_root_lifecycle_before and wait_for_no_in_flight_resolutions
CheckResolutions ==
    /\ shutdown = "root"
    /\ IF provider.inFlight = 0
       THEN ShutGoto("dispose") /\ UNCHANGED provider
       ELSE IF late THEN Failed ELSE ShutGoto("rootWait") /\ UNCHANGED provider
    /\ UNCHANGED <<scopeVars, job, watchVars, res, fate, roots, late>>

\* resolutions_changed.notified().await
ShutdownWakes ==
    /\ shutdown = "rootWait"
    /\ provider.permit
    /\ provider' = [provider EXCEPT !.permit = FALSE]
    /\ ShutGoto("root")
    /\ UNCHANGED <<scopeVars, job, watchVars, res, fate, roots, late>>

MutResolutionsTimeOut ==
    /\ shutdown = "rootWait"
    /\ late' = TRUE
    /\ UNCHANGED <<scopeVars, job, watchVars, res, fate, roots, provider, shutdown>>

\* the deadline comes first: root disposal is skipped
ResolutionsTimeOut ==
    /\ shutdown = "rootWait"
    /\ late' = TRUE
    /\ Failed
    /\ UNCHANGED <<scopeVars, job, watchVars, res, fate, roots>>

\* dispose_root_instances takes the ledger ...
TakeRoots ==
    /\ shutdown = "dispose"
    /\ roots' = [ledger |-> <<>>, held |-> Reverse(roots.ledger)]
    /\ ShutGoto("disposing")
    /\ UNCHANGED <<scopeVars, job, watchVars, res, fate, provider, late>>

\* ... runs each disposer or, past the deadline, leaves it out; mark_closed
RootsDisposed ==
    /\ shutdown = "disposing"
    /\ \E skipped \in SUBSET Range(roots.held) :
          fate' = [r \in Resolvers |->
                     IF r \in skipped THEN "forced"
                     ELSE IF r \in Range(roots.held) THEN "disposed" ELSE fate[r]]
    /\ roots' = [roots EXCEPT !.held = <<>>]
    /\ provider' = [provider EXCEPT !.state = "Closed"]
    /\ ShutGoto("done")
    /\ UNCHANGED <<scopeVars, job, watchVars, res, late>>

-----------------------------------------------------------------------------

\* a resolution's own steps: all but what its factory decides
ResolverRuns(r) ==
    \/ Recheck(r) \/ Lookup(r) \/ Enter(r) \/ Lock(r) \/ Leave(r) \/ CompleteHandoff(r) \/ Release(r)

FactoryEnds(r) ==
    \/ PublishScoped(r) \/ PublishRoot(r) \/ DisposeOvertaken(r)
    \/ ResolutionFails(r) \/ InitializationCancelled(r)

\* the cleanup task's own steps: all but what a disposer decides
TaskRuns(g) ==
    \/ CountResolutions(g) \/ TaskWakes(g) \/ DetachLedger(g)
    \/ LoadTerminal(g) \/ ClaimNormal(g) \/ Finish(g) \/ TaskJoined(g)

ShutdownRuns ==
    \/ StopAccepting \/ ScopesDrained \/ ScopesTimeOut \/ TasksDrained \/ TasksTimeOut
    \/ CountRetained \/ Yielded \/ CheckResolutions \/ ShutdownWakes
    \/ ResolutionsTimeOut \/ TakeRoots \/ RootsDisposed

Next ==
    \/ \E i \in Ids : CreateScope(i)
    \/ \E g \in Gens, waits \in BOOLEAN : OwnerCloses(g, waits)
    \/ \E r \in Resolvers, i \in Ids : \E life \in LifeOf[r] : Ask(r, life, i)
    \/ \E r \in Resolvers : ResolverRuns(r) \/ FactoryEnds(r)
    \/ \E g \in Gens : \/ TaskRuns(g) \/ DisposerEnds(g) \/ TaskDropped(g)
                       \/ DecideAbort(g) \/ OwnerExpires(g) \/ OwnerReturns(g) \/ Observe(g)
    \/ ObserverClaims \/ ObserverReturns
    \/ BeginShutdown \/ ShutdownRuns

Spec == Init /\ [][Next]_vars

\* Running tasks are polled and deadlines pass.  Nothing is assumed of
\* factories and disposers, nor that a scope is ever closed by its owner.
Fairness ==
    /\ \A r \in Resolvers : WF_vars(ResolverRuns(r))
    /\ \A g \in Gens :
         /\ WF_vars(TaskRuns(g))
         /\ WF_vars(job[g].aborted /\ TaskDropped(g))
         /\ WF_vars(DecideAbort(g))
    /\ WF_vars(ShutdownRuns)

FairSpec == Spec /\ Fairness

-----------------------------------------------------------------------------
(* Properties                                                              *)

ResSteps == {"idle", "recheck", "lookup", "enter", "lock", "create", "overtaken", "leave",
             "handoff", "release", "done"}
TaskSteps == {"none", "start", "count", "wait", "detach", "load", "disposing", "claim",
              "finish", "ending", "joined"}
ShutSteps == {"none", "stop", "scopes", "tasks", "aborting", "yield", "root",
              "rootWait", "dispose", "disposing", "done"}
Ledgers == {s \in BoundedSeq(Resolvers, Cardinality(Resolvers)) : IsInjective(s)}

Contexts ==
    [id : Ids \cup {None}, state : {"Unused", "Open", "Closing", "Closed"},
     inFlight : 0..Cardinality(Resolvers), cached : Resolvers \cup {None},
     ledger : Ledgers, creating : Resolvers \cup {None}, permit : BOOLEAN,
     handoff : {"none", "installed", "taken", "done"}]
Jobs ==
    [pc : TaskSteps, abortSafe : BOOLEAN, detached : BOOLEAN, control : BOOLEAN,
     terminal : {"OPEN", "NORMAL", "DEADLINE", "AGGREGATE_ABORT", "UNEXPECTED_STOP"},
     deciding : {None, "owner", "observer", "shutdown"}, aborted : BOOLEAN,
     held : Ledgers, failed : BOOLEAN]
Resolutions ==
    [pc : ResSteps, life : Lifetimes \cup {None}, id : Ids \cup {None},
     gen : Gens \cup {None}, carried : Ledgers]
OwnerStates == {"none", "open", "waiting", "expired", "dropped", "forced", "ok", "error"}
Observations ==
    [pc : {"idle", "watch", "returned"}, gen : Gens \cup {None}, result : {None, "ok", "error"}]
Providers ==
    [state : {"Running", "Closing", "Closed", "Failed"},
     inFlight : 0..Cardinality(Resolvers), permit : BOOLEAN]

\* Type correctness.  It says too that no resolution counter goes below zero,
\* which the code's saturating and wrapping subtractions would hide, and that
\* no instance is entered twice in a ledger.
TypeOK ==
    /\ scopes \in [Ids -> Gens \cup {None}]
    /\ closing \in [Ids -> Gens \cup {None}]
    /\ accepting \in BOOLEAN
    /\ ctx \in [Gens -> Contexts]
    /\ job \in [Gens -> Jobs]
    /\ owner \in [Gens -> OwnerStates]
    /\ observer \in Observations
    /\ res \in [Resolvers -> Resolutions]
    /\ fate \in [Resolvers -> {"none", "published", "disposed", "forced"}]
    /\ provider \in Providers
    /\ roots \in [ledger : Ledgers, held : Ledgers]
    /\ shutdown \in ShutSteps
    /\ late \in BOOLEAN

\* how many owners an instance has: ledgers, cleanup tasks, handoffs, the root
Owners(r) ==
    Cardinality({g \in Gens : r \in Range(ctx[g].ledger)})
    + Cardinality({g \in Gens : r \in Range(job[g].held)})
    + Cardinality({q \in Resolvers : r \in Range(res[q].carried)})
    + Cardinality({h \in {"ledger", "held"} : r \in Range(roots[h])})

\* An instance that was published and is not yet disposed of has exactly one
\* owner, and an instance that is has none: a service is never disposed twice,
\* never lost when its cleanup task, its resolution or its caller is dropped,
\* and never left behind in the ledger of a closed scope (scope_manager.rs,
\* "no instance can be published after the ledger has been drained").
OwnedExactlyOnce ==
    /\ \A r \in Resolvers : Owners(r) = IF fate[r] = "published" THEN 1 ELSE 0
    /\ \A g \in Gens : ctx[g].state = "Closed" => ctx[g].ledger = <<>>

\* what a generation may still do to its services
Active(g) ==
    \/ ctx[g].inFlight > 0
    \/ job[g].control
    \/ job[g].held # <<>>

\* While a scope ID is free to be reused, or is used by another generation, an
\* earlier generation with that ID resolves nothing, runs no disposer and has
\* no cleanup control that a deadline could claim.
IdIsReservedUntilQuiet ==
    \A g \in Used : ~ActiveOrClosing(g) => ~Active(g)

\* The shutdown disposes of the root's ledger, singletons and root transients,
\* only when no factory is in flight, no scope is open or closing and no other
\* disposer is running, that of a root transient the shutdown has overtaken
\* included: what scoped services depend on outlives them.
RootDisposalIsLast ==
    (shutdown = "disposing" \/ provider.state = "Closed") =>
        /\ \A r \in Resolvers : res[r].pc \notin {"lookup", "enter", "lock", "create",
                                                  "overtaken", "leave", "handoff"}
        /\ \A g \in Used : ~ActiveOrClosing(g) /\ ~Active(g)
        /\ \A g \in Gens : job[g].pc \in {"none", "joined"}

\* When the owner's wait on its ticket, or an adapter's wait on its
\* observation, returns, the cleanup of that generation is over: no disposer,
\* no resolution and no cleanup task remains, even after a deadline or a lost
\* task; and an owner that is told Ok knows that every service of its scope
\* was disposed by its own disposer.
ReturnMeansQuiet ==
    /\ \A g \in Gens : owner[g] \in {"ok", "error"} => ~Active(g) /\ InTask(g, "joined")
    /\ observer.pc = "returned" => ~Active(observer.gen) /\ InTask(observer.gen, "joined")
    /\ \A g \in Gens : owner[g] = "ok" =>
          \A r \in Resolvers : res[r].gen = g => fate[r] \in {"none", "disposed"}

\* Shutdown returns whatever factories and disposers do: the deadline bounds
\* every one of its waits.
ShutdownReturns == shutdown # "none" ~> shutdown = "done"

\* Once the resolutions of a claimed cleanup are over, the cleanup ends and
\* releases its ID, even if a disposer hangs: it is aborted, force-reconciled
\* by the task or finished by the last resolution.
ClaimedCleanupEnds ==
    \A g \in Gens :
        job[g].terminal \in {"DEADLINE", "AGGREGATE_ABORT", "UNEXPECTED_STOP"}
        ~> (~job[g].control \/ \E r \in Resolvers : res[r].gen = g /\ At(r, "create"))

\* wait_for_scope_cleanup_before: "deadline, aggregate cancellation and
\* unexpected task loss are returned here".
CancellationIsReturned ==
    observer.pc = "returned" /\ observer.result = "ok" =>
        job[observer.gen].terminal = "NORMAL"

\* ApplicationScope::close: "Close the scope and await all managed disposal hooks."
CloseAwaitsDisposal ==
    \A g \in Gens : owner[g] = "forced" => ~Active(g)
====
