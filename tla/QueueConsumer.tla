---------------------------- MODULE QueueConsumer ----------------------------
(***************************************************************************)
(* One RabbitMQ consumer of the queue runtime (providers/rabbitmq/         *)
(* queue_engine.rs, settlement.rs, telemetry.rs): the receiver that admits *)
(* broker deliveries, the bounded buffer, the dispatcher and its handler   *)
(* tasks, the settlement of each delivery, the supervisor of the pair, the *)
(* physical channel generation, its recovery, and drain and force_drain.   *)
(*                                                                         *)
(* The broker is external: it holds copies of messages, hands a ready copy *)
(* to the consumer, applies the settlement frames of the channel in its    *)
(* own time, and puts every unsettled copy back when the channel goes.  A  *)
(* retry or dead-letter handoff publishes another copy, so a message may   *)
(* exist several times.  A settlement frame has no reply: a successful ack *)
(* call only proves that the frame was written.                            *)
(*                                                                         *)
(* Tokens: e is the engine's cancellation tokens, g the generation's       *)
(* children of them.  A child is cancelled with its parent.                *)
(* A definition named Mut... is a plausible bug of the definition after    *)
(* it; nothing uses it but the mutation runs of PROJECT.json.              *)
(***************************************************************************)
EXTENDS Integers, FiniteSets, Sequences

CONSTANTS MessageCount,    \* how many messages producers published
          MaxCopies,       \* bound: copies the broker holds at a time
          RetryAttempts,   \* retry budget of the queue
          Concurrency,     \* handler_concurrency
          BufferCapacity,  \* delivery_buffer_capacity
          MaxFaults,       \* bound: faults in a behaviour
          MaxGenerations   \* bound: channel generations in a behaviour

ASSUME ConsumerAssumption ==
    /\ MessageCount \in Nat \ {0} /\ MaxCopies \in Nat
    /\ MessageCount <= MaxCopies
    /\ RetryAttempts \in Nat /\ Concurrency \in Nat \ {0}
    /\ BufferCapacity \in Nat \ {0}
    /\ MaxFaults \in Nat /\ MaxGenerations \in Nat \ {0}

Messages == 1..MessageCount
Copies == 1..MaxCopies
NoCopy == 0

VARIABLES
    kind,       \* what transport admission finds in a message
    copy,       \* the broker's copies
    channel,    \* the channel of the current generation
    job,        \* the delivery of each copy: where its task is, its guard
    handled,    \* messages some handler has completed successfully
    buffer,     \* the mpsc channel between receiver and dispatcher
    receiver, dispatcher, supervisor,
    exits,      \* results of finished tasks the JoinSet still holds
    g, e,       \* generation and engine tokens
    generation, \* the registration task: in which generation, doing what
    failed,     \* ledger.runtime_state is Failed
    drain,      \* where drain() or force_drain() is
    reconciled, \* drain_reconciled
    faults

pairVars == <<receiver, dispatcher, supervisor>>
vars == <<kind, copy, channel, job, handled, buffer, receiver, dispatcher,
          supervisor, exits, g, e, generation, failed, drain, reconciled,
          faults>>

Kinds == {"valid", "malformed", "oversized"}
\* A settlement frame on the wire: written, not yet applied by the broker.
Wire == {"acking", "requeueing", "rejecting"}
CopyStates == {"free", "ready", "unacked", "dead"} \union Wire

\* Phases of a task in the settlement coordinator.
Operations == {"handoff", "ack", "requeue", "deadletter"}
Active == {"handling"} \union Operations
Results == {"ok", "failed", "cancelled", "dropped"}

NoJob == [phase |-> "none", plan |-> "none", published |-> FALSE,
          started |-> FALSE, armed |-> FALSE, doomed |-> FALSE,
          result |-> "ok", outcome |-> "none", frames |-> 0]

NewReceiver == [at |-> "run", cur |-> NoCopy, doomed |-> FALSE, exit |-> "ok",
                shutdown |-> FALSE]
NewDispatcher == [at |-> "reap", failure |-> "ok", stopping |-> FALSE,
                  aborted |-> FALSE, exit |-> "ok", shutdown |-> FALSE]
NewSupervisor == [force |-> FALSE, admission |-> FALSE, failure |-> FALSE,
                  returned |-> FALSE]
NoTokens == [admission |-> FALSE, execution |-> FALSE, settlement |-> FALSE,
             force |-> FALSE]
NoExits == [r \in Results |-> 0]

Init ==
    /\ kind \in [Messages -> Kinds]
    /\ copy = [c \in Copies |->
                  IF c \in Messages
                    THEN [of |-> c, retries |-> 0, at |-> "ready"]
                    ELSE [of |-> 1, retries |-> 0, at |-> "free"]]
    /\ channel = "open"
    /\ job = [c \in Copies |-> NoJob]
    /\ handled = {} /\ buffer = <<>>
    /\ receiver = NewReceiver /\ dispatcher = NewDispatcher
    /\ supervisor = NewSupervisor
    /\ exits = NoExits
    /\ g = NoTokens /\ e = NoTokens
    /\ generation = [number |-> 1, at |-> "running", recover |-> FALSE]
    /\ failed = FALSE /\ drain = "idle" /\ reconciled = FALSE
    /\ faults = 0

Cancelled(token) == e[token] \/ g[token]

\* Every cancellation token of a record but settlement.
StopTokens(t) ==
    [t EXCEPT !.admission = TRUE, !.execution = TRUE, !.force = TRUE]

Fault == faults < MaxFaults /\ faults' = faults + 1

-----------------------------------------------------------------------------
(* The settlement of one delivery (settlement.rs), by a handler task or,   *)
(* for a poison delivery, by the receiver itself.                          *)

ReceiverOwns(c) == receiver.at = "settling" /\ receiver.cur = c

MutPlan(c, retryable) ==
    IF retryable /\ copy[c].retries <= RetryAttempts THEN "retry" ELSE "dead"

\* HandoffPlan::for_failure
Plan(c, retryable) ==
    IF retryable /\ copy[c].retries < RetryAttempts THEN "retry" ELSE "dead"

MutInterrupted(c) ==
    IF job[c].armed /\ Cancelled("force") THEN "pending" ELSE "unresolved"

\* DeliveryAttemptGuard::finish_interrupted: a delivery dropped by force
\* before its settlement started is pending redelivery.
Interrupted(c) ==
    IF job[c].armed /\ Cancelled("force") /\ ~job[c].started
      THEN "pending" ELSE "unresolved"

FrameOf == [ack |-> "acking", requeue |-> "requeueing",
            deadletter |-> "rejecting"]

\* A task ends its delivery, or the receiver its own settlement: it then goes
\* on to the next delivery, or fails.  The phase's frame was written or not;
\* on a channel the broker has dropped it goes nowhere.
EndJob(c, written, outcome, result) ==
    /\ job' = [job EXCEPT ![c] = [NoJob EXCEPT !.outcome = outcome,
                  !.frames = job[c].frames + IF written THEN 1 ELSE 0]]
    /\ copy' = IF written /\ channel = "open"
                 THEN [copy EXCEPT ![c].at = FrameOf[job[c].phase]] ELSE copy
    /\ IF ReceiverOwns(c)
         THEN /\ receiver' = IF result = "ok"
                   THEN [receiver EXCEPT !.at = "run", !.cur = NoCopy]
                   ELSE [receiver EXCEPT !.at = "exited", !.cur = NoCopy,
                           !.exit = result, !.shutdown = Cancelled("admission")]
              /\ UNCHANGED exits
         ELSE /\ exits' = [exits EXCEPT ![result] = @ + 1]
              /\ UNCHANGED receiver

settleFrame == <<kind, channel, buffer, dispatcher, supervisor, g, e,
                 generation, failed, drain, reconciled>>

\* The job of a delivery whose execution ended with o: materialize_outcome
\* and materialize_delivery up to the first broker operation.
Materialized(c, o) ==
    [job[c] EXCEPT
       !.started = TRUE,
       !.phase = CASE o = "success" -> "ack"
                   [] o = "deferred" -> "requeue"
                   [] OTHER -> "handoff",
       !.plan = IF o \in {"retryable", "permanent"}
                  THEN Plan(c, o = "retryable") ELSE "none"]

\* The handler returns; with settlement already cancelled nothing is settled.
\* A panic of the handler is a retryable failure.
HandlerReturns(c, o) ==
    /\ job[c].phase = "handling"
    /\ handled' = IF o = "success" THEN handled \union {copy[c].of} ELSE handled
    /\ IF Cancelled("settlement")
         THEN EndJob(c, FALSE, "unresolved", "cancelled")
         ELSE /\ job' = [job EXCEPT ![c] = Materialized(c, o)]
              /\ UNCHANGED <<copy, receiver, exits>>
    /\ UNCHANGED <<settleFrame, faults>>

\* The execution observes its cancellation and returns FrameworkCancelled:
\* nothing is settled and the task is not failed.
HandlerCancelled(c) ==
    /\ job[c].phase = "handling" /\ Cancelled("execution")
    /\ EndJob(c, FALSE, Interrupted(c), "ok")
    /\ UNCHANGED <<handled, settleFrame, faults>>

FreeCopies == {c \in Copies : copy[c].at = "free"}

\* The broker takes the handoff's publication: one more copy.
HandoffAccepted(c) ==
    /\ job[c].phase = "handoff" /\ ~job[c].published
    /\ FreeCopies # {}
    /\ LET new == CHOOSE n \in FreeCopies : \A d \in FreeCopies : n <= d
           retry == job[c].plan = "retry"
       IN  copy' = [copy EXCEPT ![new] =
              [of |-> copy[c].of, at |-> IF retry THEN "ready" ELSE "dead",
               retries |-> copy[c].retries + IF retry THEN 1 ELSE 0]]
    /\ job' = [job EXCEPT ![c].published = TRUE]
    /\ UNCHANGED <<handled, receiver, exits, settleFrame, faults>>

MutHandoffConfirmed(c) ==
    /\ job[c].phase = "handoff" /\ ~Cancelled("settlement")
    /\ job' = [job EXCEPT ![c].phase = "ack"]
    /\ UNCHANGED <<copy, handled, receiver, exits, settleFrame, faults>>

\* The publisher confirm arrives; only then is the original acknowledged.
HandoffConfirmed(c) ==
    /\ job[c].phase = "handoff" /\ job[c].published
    /\ ~Cancelled("settlement")
    /\ job' = [job EXCEPT ![c].phase = "ack"]
    /\ UNCHANGED <<copy, handled, receiver, exits, settleFrame, faults>>

\* The handoff fails or times out, the publication taken or not: the original
\* is requeued, and the delivery is reported failed whatever the nack does.
HandoffFails(c) ==
    /\ job[c].phase = "handoff" /\ ~Cancelled("settlement") /\ Fault
    /\ job' = [job EXCEPT ![c].phase = "requeue", ![c].result = "failed"]
    /\ UNCHANGED <<copy, handled, receiver, exits, settleFrame>>

OutcomeOf(c) ==
    CASE job[c].phase = "requeue" -> "requeued"
      [] job[c].phase = "deadletter" -> "rejected"
      [] job[c].plan = "none" -> "success"
      [] OTHER -> "handedoff"

\* original_settlement succeeds: the frame is written.
Settles(c) ==
    /\ job[c].phase \in Operations \ {"handoff"} /\ ~Cancelled("settlement")
    /\ EndJob(c, TRUE, OutcomeOf(c), job[c].result)
    /\ UNCHANGED <<handled, settleFrame, faults>>

MutSettlementFails(c, written) ==
    /\ job[c].phase \in Operations \ {"handoff"} /\ ~Cancelled("settlement")
    /\ IF channel = "open" THEN Fault ELSE UNCHANGED faults
    /\ IF written /\ job[c].phase = "ack"
         THEN /\ job' = [job EXCEPT ![c].phase = "requeue", ![c].frames = @ + 1]
              /\ copy' = [copy EXCEPT ![c].at = IF channel = "open" THEN "acking"
                                                                    ELSE @]
              /\ UNCHANGED <<exits, receiver>>
         ELSE EndJob(c, written, "unresolved", "failed")
    /\ UNCHANGED <<handled, settleFrame>>

\* original_settlement fails or times out: whether its frame was written is
\* not known, and the authority is spent.
SettlementFails(c, written) ==
    /\ job[c].phase \in Operations \ {"handoff"} /\ ~Cancelled("settlement")
    /\ IF channel = "open" THEN Fault ELSE UNCHANGED faults
    /\ EndJob(c, written, "unresolved", "failed")
    /\ UNCHANGED <<handled, settleFrame>>

\* bounded_operation: a cancelled settlement token wins over any result.
SettlementCancelled(c, written) ==
    /\ job[c].phase \in Operations /\ Cancelled("settlement")
    /\ written => job[c].phase # "handoff"
    /\ EndJob(c, written, "unresolved",
              IF job[c].result = "failed" THEN "failed" ELSE "cancelled")
    /\ UNCHANGED <<handled, settleFrame, faults>>

\* An aborted task is dropped at an await: SettlementLease and
\* DeliveryAttemptGuard record what their Drop can still prove.
TaskDropped(c, written) ==
    /\ job[c].doomed
    /\ written => job[c].phase \in Operations \ {"handoff"}
    /\ EndJob(c, written, Interrupted(c), "dropped")
    /\ UNCHANGED <<handled, settleFrame, faults>>

-----------------------------------------------------------------------------
(* The broker and the connection (external).                               *)

brokerFrame == <<kind, job, handled, buffer, pairVars, exits, g, e, generation,
                 failed, drain, reconciled>>

After(at) == CASE at = "acking" -> "free" [] at = "rejecting" -> "dead"
               [] at \in {"requeueing", "unacked"} -> "ready" [] OTHER -> at

BrokerSettles(c) ==
    /\ channel = "open" /\ copy[c].at \in Wire
    /\ copy' = [copy EXCEPT ![c].at = After(@)]
    /\ UNCHANGED <<channel, brokerFrame, faults>>

\* The channel is lost with the frames on it: whatever the broker has not
\* applied is delivered again.
ConnectionLost ==
    /\ channel = "open" /\ generation.at = "running" /\ Fault
    /\ channel' = "lost"
    /\ copy' = [c \in Copies |-> [copy[c] EXCEPT
                  !.at = IF @ \in Wire \union {"unacked"} THEN "ready" ELSE @]]
    /\ UNCHANGED brokerFrame

-----------------------------------------------------------------------------
(* receive_generation.                                                     *)

RxClosed == dispatcher.at \in {"finish", "exited", "joined"}

receiverFrame == <<kind, channel, handled, supervisor, dispatcher, exits, e,
                   failed, drain, reconciled, faults>>

\* finish_buffered_pending_redelivery, for the delivery the receiver still
\* holds when the dispatcher has closed the buffer; the receiver ends.
ReceiverReleases(c) ==
    /\ job' = [job EXCEPT ![c] = [NoJob EXCEPT !.outcome = "pending"]]
    /\ receiver' = [receiver EXCEPT !.at = "exited", !.cur = NoCopy,
                      !.exit = "ok", !.shutdown = Cancelled("admission")]
    /\ UNCHANGED buffer

\* Transport admission of a delivery: a valid one is buffered (or waits for
\* room), a poison one is settled by the receiver before it goes on.
Receive(c) ==
    /\ generation.at = "running" /\ receiver.at = "run"
    /\ ~Cancelled("admission")
    /\ channel = "open" /\ copy[c].at = "ready"
    /\ copy' = [copy EXCEPT ![c].at = "unacked"]
    /\ LET found == kind[copy[c].of] IN
       CASE found = "valid" /\ RxClosed -> ReceiverReleases(c)
         [] found = "valid" /\ ~RxClosed /\ Len(buffer) < BufferCapacity ->
              /\ buffer' = Append(buffer, c)
              /\ job' = [job EXCEPT ![c] = [NoJob EXCEPT !.phase = "buffered"]]
              /\ UNCHANGED receiver
         [] found = "valid" /\ ~RxClosed /\ Len(buffer) >= BufferCapacity ->
              /\ job' = [job EXCEPT ![c] = [NoJob EXCEPT !.phase = "buffered"]]
              /\ receiver' = [receiver EXCEPT !.at = "sending", !.cur = c]
              /\ UNCHANGED buffer
         [] found # "valid" ->
              /\ job' = [job EXCEPT ![c] = [NoJob EXCEPT !.started = TRUE,
                   !.phase = IF found = "oversized" THEN "deadletter" ELSE "handoff",
                   !.plan = IF found = "oversized" THEN "none" ELSE "dead"]]
              /\ receiver' = [receiver EXCEPT !.at = "settling", !.cur = c]
              /\ UNCHANGED buffer
    /\ UNCHANGED <<g, generation, receiverFrame>>

\* tx.send completes, or fails because the dispatcher has closed the buffer.
ReceiverSends ==
    /\ receiver.at = "sending"
    /\ \/ /\ RxClosed
          /\ ReceiverReleases(receiver.cur)
       \/ /\ ~RxClosed /\ Len(buffer) < BufferCapacity
          /\ buffer' = Append(buffer, receiver.cur)
          /\ receiver' = [receiver EXCEPT !.at = "run", !.cur = NoCopy]
          /\ UNCHANGED job
    /\ UNCHANGED <<copy, g, generation, receiverFrame>>

ReceiverStops ==
    /\ receiver.at = "run" /\ Cancelled("admission")
    /\ receiver' = [receiver EXCEPT !.at = "exited", !.exit = "ok",
                      !.shutdown = TRUE]
    /\ UNCHANGED <<copy, job, buffer, g, generation, receiverFrame>>

\* The consumer stream fails: this generation, and only it, is cancelled.  No
\* await lies between the four cancellations: they are one step.
ReceiverLosesConsumer ==
    /\ receiver.at = "run" /\ ~Cancelled("admission") /\ channel = "lost"
    /\ receiver' = [receiver EXCEPT !.at = "exited", !.exit = "ok",
                      !.shutdown = TRUE]
    /\ generation' = [generation EXCEPT !.recover = TRUE]
    /\ g' = [StopTokens(g) EXCEPT !.settlement = TRUE]
    /\ UNCHANGED <<copy, job, buffer, receiverFrame>>

\* The aborted receiver is dropped with the delivery it holds, whose guard
\* was never armed with the force token.
ReceiverDropped(written) ==
    /\ receiver.doomed /\ receiver.at \in {"run", "sending", "settling"}
    /\ LET c == receiver.cur IN
       /\ written => /\ receiver.at = "settling"
                     /\ job[c].phase \in Operations \ {"handoff"}
       /\ job' = IF c = NoCopy THEN job
                 ELSE [job EXCEPT ![c] = [NoJob EXCEPT
                         !.outcome = "unresolved",
                         !.frames = job[c].frames + IF written THEN 1 ELSE 0]]
       /\ copy' = IF written /\ channel = "open"
                    THEN [copy EXCEPT ![c].at = FrameOf[job[c].phase]] ELSE copy
    /\ receiver' = [receiver EXCEPT !.at = "exited", !.cur = NoCopy,
                      !.exit = "dropped"]
    /\ UNCHANGED <<buffer, g, generation, receiverFrame>>

-----------------------------------------------------------------------------
(* dispatch_owned and finish_in_flight_tasks.                              *)

Running == {c \in Copies : job[c].phase \in Active /\ ~ReceiverOwns(c)}
Unjoined == exits["ok"] + exits["failed"] + exits["cancelled"] + exits["dropped"]

dispatcherFrame == <<kind, copy, channel, handled, receiver, supervisor, e,
                     generation, failed, drain, reconciled>>

\* retain_first_in_flight_failure
Retain(failure, result) ==
    IF failure = "ok" /\ result \in {"failed", "cancelled"} THEN result
                                                             ELSE failure

\* One finished task is joined, at the top of the loop, for capacity or in
\* the select: the loop starts over.
DispatcherJoins(r) ==
    /\ dispatcher.at \in {"reap", "select"} /\ exits[r] > 0
    /\ dispatcher.failure = "ok"
    /\ exits' = [exits EXCEPT ![r] = @ - 1]
    /\ dispatcher' = [dispatcher EXCEPT !.at = "reap",
                        !.failure = Retain(@, r)]
    /\ UNCHANGED <<job, buffer, g, faults, dispatcherFrame>>

\* Every ready result has been reaped and none was a failure.
DispatcherReaped ==
    /\ dispatcher.at = "reap" /\ dispatcher.failure = "ok" /\ Unjoined = 0
    /\ dispatcher' = [dispatcher EXCEPT !.at = "select"]
    /\ UNCHANGED <<job, buffer, exits, g, faults, dispatcherFrame>>

\* With a free execution slot the oldest buffered delivery starts.
Dispatch ==
    /\ dispatcher.at = "select" /\ buffer # <<>>
    /\ ~Cancelled("admission") /\ ~Cancelled("force")
    /\ Cardinality(Running) + Unjoined < Concurrency
    /\ buffer' = Tail(buffer)
    /\ job' = [job EXCEPT ![Head(buffer)].phase = "handling",
                          ![Head(buffer)].armed = TRUE]
    /\ dispatcher' = [dispatcher EXCEPT !.at = "reap"]
    /\ UNCHANGED <<exits, g, faults, dispatcherFrame>>

Buffered == {buffer[i] : i \in 1..Len(buffer)}

MutDispatcherBreaks ==
    /\ \/ dispatcher.at = "reap" /\ dispatcher.failure # "ok"
       \/ dispatcher.at = "select" /\ (Cancelled("admission") \/ Cancelled("force"))
    /\ buffer' = <<>>
    /\ job' = [c \in Copies |-> IF c \in Buffered
                 THEN [job[c] EXCEPT !.phase = "none", !.outcome = "pending"]
                 ELSE job[c]]
    /\ dispatcher' = [dispatcher EXCEPT !.at = "finish",
         !.stopping = Cancelled("force")]
    /\ g' = [g EXCEPT !.execution = @ \/ Cancelled("force")]
    /\ UNCHANGED <<exits, faults, dispatcherFrame>>

\* Admission or force is cancelled, or a task failed: the loop ends, the
\* buffered deliveries are released for redelivery, and after force or a
\* failure the running ones are told to stop.
DispatcherBreaks ==
    /\ \/ dispatcher.at = "reap" /\ dispatcher.failure # "ok"
       \/ dispatcher.at = "select" /\ (Cancelled("admission") \/ Cancelled("force"))
    /\ buffer' = <<>>
    /\ job' = [c \in Copies |-> IF c \in Buffered
                 THEN [job[c] EXCEPT !.phase = "none", !.outcome = "pending"]
                 ELSE job[c]]
    /\ LET stopping == Cancelled("force") \/ dispatcher.failure # "ok" IN
       /\ dispatcher' = [dispatcher EXCEPT !.at = "finish", !.stopping = stopping]
       /\ g' = [g EXCEPT !.execution = @ \/ stopping]
    /\ UNCHANGED <<exits, faults, dispatcherFrame>>

FinishJoins(r) ==
    /\ dispatcher.at = "finish" /\ exits[r] > 0
    /\ exits' = [exits EXCEPT ![r] = @ - 1]
    /\ LET failure == Retain(dispatcher.failure, r)
           stopping == dispatcher.stopping \/ failure # "ok"
       IN  /\ dispatcher' = [dispatcher EXCEPT !.failure = failure,
                                               !.stopping = stopping]
           /\ g' = [g EXCEPT !.execution = @ \/ stopping]
    /\ UNCHANGED <<job, buffer, faults, dispatcherFrame>>

FinishObservesForce ==
    /\ dispatcher.at = "finish" /\ ~dispatcher.stopping /\ Cancelled("force")
    /\ dispatcher' = [dispatcher EXCEPT !.stopping = TRUE]
    /\ g' = [g EXCEPT !.execution = TRUE]
    /\ UNCHANGED <<job, buffer, exits, faults, dispatcherFrame>>

MutFinishDeadline ==
    /\ dispatcher.at = "finish" /\ dispatcher.stopping /\ ~dispatcher.aborted
    /\ Running # {}
    /\ dispatcher' = [dispatcher EXCEPT !.aborted = TRUE]
    /\ g' = [g EXCEPT !.settlement = TRUE]
    /\ UNCHANGED <<job, buffer, exits, faults, dispatcherFrame>>

\* forced_delivery_deadline passes: the remaining tasks are aborted.
FinishDeadline ==
    /\ dispatcher.at = "finish" /\ dispatcher.stopping /\ ~dispatcher.aborted
    /\ Running # {}
    /\ dispatcher' = [dispatcher EXCEPT !.aborted = TRUE]
    /\ g' = [g EXCEPT !.settlement = TRUE]
    /\ job' = [c \in Copies |-> [job[c] EXCEPT !.doomed = c \in Running]]
    /\ UNCHANGED <<buffer, exits, faults, dispatcherFrame>>

MutDispatcherExits ==
    /\ dispatcher.at = "finish" /\ Unjoined = 0
    /\ Running = {} \/ dispatcher.aborted
    /\ dispatcher' = [dispatcher EXCEPT !.at = "exited",
                        !.exit = dispatcher.failure,
                        !.shutdown = Cancelled("admission")]
    /\ UNCHANGED <<job, buffer, exits, g, faults, dispatcherFrame>>

\* Every task is joined: the dispatcher returns its first failure.
DispatcherExits ==
    /\ dispatcher.at = "finish" /\ Running = {} /\ Unjoined = 0
    /\ dispatcher' = [dispatcher EXCEPT !.at = "exited", !.exit = dispatcher.failure,
                        !.shutdown = Cancelled("admission")]
    /\ UNCHANGED <<job, buffer, exits, g, faults, dispatcherFrame>>

\* A panic drops the dispatcher's JoinSet: its tasks are aborted, not joined.
DispatcherPanics ==
    /\ dispatcher.at \in {"reap", "select", "finish"} /\ Fault
    /\ dispatcher' = [dispatcher EXCEPT !.at = "exited", !.exit = "panicked"]
    /\ buffer' = <<>> /\ exits' = NoExits
    /\ job' = [c \in Copies |->
                 IF c \in Buffered
                   THEN [job[c] EXCEPT !.phase = "none", !.outcome = "unresolved"]
                   ELSE [job[c] EXCEPT !.doomed = c \in Running]]
    /\ UNCHANGED <<g, dispatcherFrame>>

-----------------------------------------------------------------------------
(* supervise_queue_pair.                                                   *)

superFrame == <<kind, copy, channel, job, handled, buffer, exits, generation,
                drain, reconciled, faults>>

PairRunning == receiver.at # "joined" \/ dispatcher.at # "joined"

SupervisorObservesForce ==
    /\ PairRunning /\ ~supervisor.force /\ Cancelled("force")
    /\ supervisor' = [supervisor EXCEPT !.force = TRUE]
    /\ g' = [g EXCEPT !.admission = TRUE, !.execution = TRUE]
    /\ receiver' = [receiver EXCEPT
                      !.doomed = receiver.at \in {"run", "sending", "settling"}]
    /\ UNCHANGED <<dispatcher, e, failed, superFrame>>

SupervisorObservesAdmission ==
    /\ PairRunning /\ ~supervisor.force /\ ~Cancelled("force")
    /\ ~supervisor.admission /\ Cancelled("admission")
    /\ supervisor' = [supervisor EXCEPT !.admission = TRUE]
    /\ g' = IF failed THEN [g EXCEPT !.execution = TRUE, !.force = TRUE] ELSE g
    /\ UNCHANGED <<receiver, dispatcher, e, failed, superFrame>>

\* The biased select has nothing else to observe first.
JoinsNext ==
    \/ supervisor.force
    \/ ~Cancelled("force") /\ (supervisor.admission \/ ~Cancelled("admission"))

\* child_failure: what a child's exit says about the runtime.
ChildFailed(child) ==
    CASE child.exit = "ok" -> ~child.shutdown
      [] child.exit = "cancelled" -> ~child.shutdown
      [] child.exit = "dropped" -> ~supervisor.force
      [] OTHER -> TRUE

\* The first failure of the pair fails the whole runtime.
SupervisorJoins(child, returned) ==
    LET first == ~supervisor.failure /\ ChildFailed(child) IN
    /\ supervisor' = [supervisor EXCEPT !.failure = @ \/ first,
                                        !.returned = @ \/ returned]
    /\ failed' = (failed \/ first)
    /\ g' = IF first THEN StopTokens(g) ELSE g
    /\ e' = IF first THEN StopTokens(e) ELSE e

JoinReceiver ==
    /\ receiver.at = "exited" /\ JoinsNext
    /\ SupervisorJoins(receiver, FALSE)
    /\ receiver' = [NewReceiver EXCEPT !.at = "joined"]
    /\ UNCHANGED <<dispatcher, superFrame>>

MutJoinDispatcher ==
    /\ dispatcher.at = "exited" /\ JoinsNext
    /\ SupervisorJoins(dispatcher, TRUE)
    /\ dispatcher' = [NewDispatcher EXCEPT !.at = "joined"]
    /\ UNCHANGED <<receiver, superFrame>>

\* Only a dispatcher that returned proves its tasks joined.
JoinDispatcher ==
    /\ dispatcher.at = "exited" /\ JoinsNext
    /\ SupervisorJoins(dispatcher, dispatcher.exit # "panicked")
    /\ dispatcher' = [NewDispatcher EXCEPT !.at = "joined"]
    /\ UNCHANGED <<receiver, superFrame>>

-----------------------------------------------------------------------------
(* The generations of the registration task.                               *)

genFrame == <<kind, handled, drain, reconciled>>

\* The registration task returns an error: the runtime fails.
RegistrationFails ==
    /\ failed' = TRUE /\ e' = StopTokens(e)
    /\ generation' = [generation EXCEPT !.at = "ended"]

\* The channel of a finished pair is closed: the broker applies the frames
\* written before and gets the other copies back.
CloseGeneration ==
    /\ generation.at = "running" /\ ~PairRunning /\ supervisor.returned
    /\ channel' = "closed"
    /\ copy' = [c \in Copies |-> [copy[c] EXCEPT !.at = After(@)]]
    /\ g' = [g EXCEPT !.settlement = TRUE]
    /\ IF supervisor.failure
         THEN RegistrationFails
         ELSE /\ generation' = [generation EXCEPT !.at =
                   IF e.admission \/ ~generation.recover THEN "ended" ELSE "waiting"]
              /\ UNCHANGED <<e, failed>>
    /\ UNCHANGED <<job, buffer, pairVars, exits, faults, genFrame>>

\* A channel whose closing is not proven, or whose tasks are not proven
\* joined, is retained: the registration task fails.
CloseUnproven ==
    /\ generation.at = "running" /\ ~PairRunning
    /\ IF supervisor.returned THEN channel = "open" /\ Fault
                              ELSE UNCHANGED faults
    /\ g' = [g EXCEPT !.settlement = TRUE]
    /\ RegistrationFails
    /\ UNCHANGED <<copy, channel, job, buffer, pairVars, exits, genFrame>>

\* The consumer opens again on a new channel, with a new buffer and pair.
Reopen ==
    /\ generation.at = "waiting" /\ ~e.admission
    /\ generation.number < MaxGenerations
    /\ generation' = [number |-> generation.number + 1, at |-> "running",
                      recover |-> FALSE]
    /\ channel' = "open" /\ g' = NoTokens
    /\ receiver' = NewReceiver /\ dispatcher' = NewDispatcher
    /\ supervisor' = NewSupervisor
    /\ UNCHANGED <<copy, job, buffer, exits, e, failed, faults, genFrame>>

\* Opening failed and so did closing the channel it got.
ReopenUnproven ==
    /\ generation.at = "waiting" /\ ~e.admission
    /\ RegistrationFails
    /\ UNCHANGED <<copy, channel, job, buffer, pairVars, exits, g, faults,
                   genFrame>>

RecoveryStops ==
    /\ generation.at = "waiting" /\ e.admission
    /\ generation' = [generation EXCEPT !.at = "ended"]
    /\ UNCHANGED <<copy, channel, job, buffer, pairVars, exits, g, e, failed,
                   faults, genFrame>>

-----------------------------------------------------------------------------
(* drain and force_drain.                                                  *)

engineFrame == <<kind, copy, channel, job, handled, buffer, pairVars, exits, g,
                 generation, failed, faults>>

StopAdmission ==
    /\ drain = "idle"
    /\ drain' = "draining" /\ e' = [e EXCEPT !.admission = TRUE]
    /\ UNCHANGED <<reconciled, engineFrame>>

\* The handlers are told to stop at once; force_drain then awaits the lock of
\* the runtime tokens before it cancels the others.
ForceDrain ==
    /\ drain \in {"idle", "draining"}
    /\ drain' = "taking" /\ e' = [e EXCEPT !.execution = TRUE]
    /\ UNCHANGED <<reconciled, engineFrame>>

ForceTakesTokens ==
    /\ drain = "taking"
    /\ drain' = "forcing" /\ e' = [e EXCEPT !.admission = TRUE, !.force = TRUE]
    /\ UNCHANGED <<reconciled, engineFrame>>

\* The registration task is joined; drain then cancels every token,
\* force_drain the one it had left.
DrainEnds ==
    /\ drain \in {"draining", "forcing"} /\ generation.at = "ended"
    /\ drain' = "done"
    /\ reconciled' = supervisor.returned
    /\ e' = [StopTokens(e) EXCEPT !.settlement = TRUE]
    /\ UNCHANGED engineFrame

-----------------------------------------------------------------------------

Settlement(c) ==
    \/ \E o \in {"success", "retryable", "permanent", "deferred"} :
          HandlerReturns(c, o)
    \/ HandlerCancelled(c)
    \/ HandoffAccepted(c) \/ HandoffConfirmed(c) \/ HandoffFails(c)
    \/ Settles(c)
    \/ \E written \in BOOLEAN :
          \/ SettlementFails(c, written)
          \/ SettlementCancelled(c, written)
          \/ TaskDropped(c, written)

Receiver ==
    \/ \E c \in Copies : Receive(c)
    \/ ReceiverSends \/ ReceiverStops \/ ReceiverLosesConsumer
    \/ \E written \in BOOLEAN : ReceiverDropped(written)

Dispatcher ==
    \/ \E r \in Results : DispatcherJoins(r) \/ FinishJoins(r)
    \/ DispatcherReaped \/ Dispatch \/ DispatcherBreaks
    \/ FinishObservesForce \/ FinishDeadline \/ DispatcherExits

Supervisor ==
    \/ SupervisorObservesForce \/ SupervisorObservesAdmission
    \/ JoinReceiver \/ JoinDispatcher

Registration ==
    \/ CloseGeneration \/ CloseUnproven
    \/ Reopen \/ ReopenUnproven \/ RecoveryStops

Next ==
    \/ \E c \in Copies : Settlement(c) \/ BrokerSettles(c)
    \/ ConnectionLost \/ DispatcherPanics
    \/ Receiver \/ Dispatcher \/ Supervisor \/ Registration
    \/ StopAdmission \/ ForceDrain \/ ForceTakesTokens \/ DrainEnds

Spec == Init /\ [][Next]_vars

-----------------------------------------------------------------------------

TypeOK ==
    /\ kind \in [Messages -> Kinds]
    /\ copy \in [Copies -> [of : Messages, retries : 0..RetryAttempts,
                            at : CopyStates]]
    /\ channel \in {"open", "lost", "closed"}
    /\ job \in [Copies ->
         [phase : {"none", "buffered"} \union Active,
          plan : {"none", "retry", "dead"}, published : BOOLEAN,
          started : BOOLEAN, armed : BOOLEAN, doomed : BOOLEAN,
          result : Results, frames : 0..2,
          outcome : {"none", "success", "handedoff", "requeued", "rejected",
                     "pending", "unresolved"}]]
    /\ handled \subseteq Messages
    /\ buffer \in Seq(Copies) /\ Len(buffer) <= BufferCapacity
    /\ receiver \in [at : {"run", "sending", "settling", "exited", "joined"},
                     cur : Copies \union {NoCopy}, doomed : BOOLEAN,
                     exit : Results, shutdown : BOOLEAN]
    /\ dispatcher \in [at : {"reap", "select", "finish", "exited", "joined"},
                       failure : Results, stopping : BOOLEAN, aborted : BOOLEAN,
                       exit : Results \union {"panicked"}, shutdown : BOOLEAN]
    /\ supervisor \in [force : BOOLEAN, admission : BOOLEAN, failure : BOOLEAN,
                       returned : BOOLEAN]
    /\ exits \in [Results -> Nat]
    /\ {g, e} \subseteq [admission : BOOLEAN, execution : BOOLEAN,
                         settlement : BOOLEAN, force : BOOLEAN]
    /\ generation \in [number : 1..MaxGenerations, recover : BOOLEAN,
                       at : {"running", "waiting", "ended"}]
    /\ failed \in BOOLEAN /\ reconciled \in BOOLEAN
    /\ drain \in {"idle", "draining", "taking", "forcing", "done"}
    /\ faults \in 0..MaxFaults

\* A message is never lost: until some handler has completed it, the broker
\* holds a copy of it, to be delivered or dead-lettered.  The original of a
\* failed delivery is only acknowledged once another copy is confirmed.
NoMessageLost ==
    \A m \in Messages : m \in handled \/ \E c \in Copies :
        copy[c].of = m /\ copy[c].at # "free"

\* SettlementAuthority and SettlementLease: at most one settlement frame is
\* written for a delivery, whatever fails, is cancelled or is dropped.
OneFramePerDelivery == \A c \in Copies : job[c].frames <= 1

\* "pending redelivery" is only said of a delivery the broker really still
\* holds: no frame of it was written, and it is unacked or back in its queue.
PendingIsRedelivered ==
    \A c \in Copies : job[c].outcome = "pending" =>
        job[c].frames = 0 /\ copy[c].at \in {"unacked", "ready"}

\* Once a drain is reconciled no handler and no settlement is running, so
\* the connection and the dependency container may be disposed.
ReconciledMeansQuiet ==
    reconciled => \A c \in Copies : job[c].phase = "none"

\* "Its old deliveries must be terminal before a new one opens": no delivery
\* of the lost channel is still executing when the consumer opens again.
GenerationsAreDisjoint ==
    [][generation'.number # generation.number =>
         \A c \in Copies : job[c].phase = "none"]_vars

\* A forced drain ends although handlers never return.
ForceEndsDrain == drain \in {"taking", "forcing"} ~> drain = "done"

\* A failed settlement the dispatcher has observed, like any failure of the
\* pair, ends the runtime, although handlers of other deliveries never return.
FailureEndsRuntime ==
    failed \/ dispatcher.failure = "failed" ~> generation.at = "ended"

\* LIFECYCLE.md: "Recoverable transport loss does not cancel sibling
\* subscriptions."  When losing the channel is all that has gone wrong, the
\* runtime is not failed and its other consumers go on.
TransportLossIsLocal == channel = "lost" /\ faults = 1 => ~failed

\* The fairness of the tokio scheduler and its timers.  Nothing is assumed of
\* the handlers, nor of the broker.
FairSpec ==
    /\ Spec
    /\ WF_vars(Supervisor) /\ WF_vars(Registration)
    /\ WF_vars(ForceTakesTokens) /\ WF_vars(DrainEnds)
    /\ WF_vars(ReceiverStops \/ ReceiverSends \/ ReceiverLosesConsumer)
    /\ WF_vars(\E written \in BOOLEAN : ReceiverDropped(written))
    /\ \A r \in Results : WF_vars(DispatcherJoins(r)) /\ WF_vars(FinishJoins(r))
    /\ WF_vars(DispatcherReaped) /\ WF_vars(DispatcherBreaks)
    /\ WF_vars(FinishObservesForce) /\ WF_vars(FinishDeadline)
    /\ WF_vars(DispatcherExits)
    /\ \A c \in Copies :
         /\ WF_vars(\E written \in BOOLEAN : TaskDropped(c, written))
         /\ WF_vars(\E written \in BOOLEAN : SettlementCancelled(c, written))
=============================================================================
