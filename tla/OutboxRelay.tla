----------------------------- MODULE OutboxRelay -----------------------------
(***************************************************************************)
(* The transactional outbox of lily_queue: the durable table               *)
(* lily_queue.outbox (transactional_postgresql/storage.rs) and the relay   *)
(* workers that drain it into RabbitMQ (outbox_relay.rs, RelayWorker).     *)
(*                                                                         *)
(* The workers of this module share ONE database, so they are the workers  *)
(* of different processes (one process keeps one worker per database       *)
(* cell).  A row is leased to a worker by a claim token and a deadline;    *)
(* every later write of the row is fenced by that token.                   *)
(*                                                                         *)
(* What is abstracted:                                                     *)
(*   - a record is a number, its rank in the claim order (created_at,      *)
(*     record_id); a row is enqueued in any order, as transactions commit  *)
(*     in any order of their start times;                                  *)
(*   - the database clock is three facts per row: its lease is unexpired   *)
(*     or not, its back-off has elapsed or not, and retention (a delivered *)
(*     row may be deleted whenever a cleanup runs);                        *)
(*   - a claim, being one transaction with FOR UPDATE SKIP LOCKED, is one  *)
(*     step;                                                               *)
(*   - a store call that fails is reported as failed whether or not the    *)
(*     statement took effect; such faults, and crashes, are counted and    *)
(*     bounded by MaxFaults;                                               *)
(*   - registration, shutdown and the readiness ledger of one process are  *)
(*     the subject of RelaySupervisor.                                     *)
(* A definition named Mut... is a plausible bug of the definition after    *)
(* it; nothing uses it but the mutation runs of PROJECT.json.              *)
(***************************************************************************)
EXTENDS Integers, FiniteSets, FiniteSetsExt

CONSTANTS
    Records,        \* outbox rows, by rank in (created_at, record_id)
    Workers,        \* relay workers of the processes sharing the database
    MaxAttempts,    \* relay_max_publish_attempts
    BatchSize,      \* relay_batch_size
    MaxBytes,       \* relay_max_in_flight_bytes
    Size,           \* Size[r]: length of the body of r
    MaxFaults       \* bound on storage errors and process crashes

ASSUME RecordsAssumption   == Records \subseteq Nat \ {0}
ASSUME AttemptsAssumption  == MaxAttempts \in Nat \ {0}
ASSUME BatchAssumption     == BatchSize \in Nat \ {0}
ASSUME BytesAssumption     == MaxBytes \in Nat /\ Size \in [Records -> Nat]
ASSUME FaultsAssumption    == MaxFaults \in Nat

VARIABLES
    row,        \* the table lily_queue.outbox
    pc,         \* where each worker is in RelayWorker::run
    owner,      \* the claim token of the worker's current run (0: none yet)
    batch,      \* claimed records the worker has not finished
    cur,        \* the record being published (0: none)
    attempt,    \* publish_attempts of the worker's copy of cur
    cancel,     \* the worker's admission and force tokens
    nextOwner,  \* source of fresh claim tokens (Uuid::new_v4)
    faults,     \* storage errors and crashes so far
    published,  \* attempts of each event whose copy the broker accepted
    confirmed,  \* the broker has confirmed some copy of the event
    proven,     \* attempts whose delivered mark the worker saw succeed
    unproven    \* accepted attempts whose delivered mark was never seen

workerVars == <<pc, owner, batch, cur, attempt, cancel>>
brokerVars == <<published, confirmed>>
markVars   == <<proven, unproven>>
vars == <<row, pc, owner, batch, cur, attempt, cancel, nextOwner, faults,
          published, confirmed, proven, unproven>>

NoToken  == 0
NoRecord == 0

Running == {"loop", "claim", "count", "begin", "publish", "mark", "fail"}
Ended   == {"off", "stopped", "failed"}
InFlight == {"publish", "mark", "fail"}

Row == [status    : {"absent", "pending", "delivered", "deleted"},
        attempts  : 0 .. MaxAttempts,
        token     : Nat,
        lease     : {"none", "held", "expired"},
        available : BOOLEAN]

-----------------------------------------------------------------------------
(* The claim query.                                                        *)

MutEligibleForgotten ==
    {r \in Records : /\ row[r].status = "pending"
                     /\ row[r].available
                     /\ row[r].lease = "none"
                     /\ row[r].attempts < MaxAttempts}

\* The WHERE clause of claim_outbox_batch.
Eligible ==
    {r \in Records : /\ row[r].status = "pending"
                     /\ row[r].available
                     /\ row[r].lease # "held"
                     /\ row[r].attempts < MaxAttempts}

\* ORDER BY created_at, record_id LIMIT batch_size.
Candidates ==
    {r \in Eligible : Cardinality({s \in Eligible : s < r}) < BatchSize}

Bytes(S) == MapThenSumSet(LAMBDA r : Size[r], S)

\* The running byte total of the candidates must stay within the bound.
Bounded == {r \in Candidates : Bytes({s \in Candidates : s <= r}) <= MaxBytes}

\* The oldest eligible row alone exceeds the byte bound.
Oversized == \E r \in Eligible : /\ \A s \in Eligible : r <= s
                                 /\ Size[r] > MaxBytes

Exhausted == {r \in Records : /\ row[r].status = "pending"
                              /\ row[r].attempts >= MaxAttempts}

-----------------------------------------------------------------------------
(* The fenced statements: when they match a row and what they write.       *)

Write(r, new) == [row EXCEPT ![r] = new]

Claimed(B, t) ==
    [r \in Records |-> IF r \in B
                         THEN [row[r] EXCEPT !.token = t, !.lease = "held"]
                         ELSE row[r]]

BeginMatches(r, t) == /\ row[r].token = t
                      /\ row[r].status = "pending"
                      /\ row[r].attempts < MaxAttempts

MutBegunUncounted(r) == Write(r, [row[r] EXCEPT !.lease = "held"])

Begun(r) == Write(r, [row[r] EXCEPT !.attempts = row[r].attempts + 1,
                                    !.lease = "held"])

MutSettleUnfenced(r, t) == row[r].status = "pending" /\ row[r].attempts > 0

SettleMatches(r, t) == /\ row[r].token = t
                       /\ row[r].status = "pending"
                       /\ row[r].attempts > 0

MutDeliveredReleases(r) ==
    Write(r, [row[r] EXCEPT !.token = NoToken, !.lease = "none"])

Delivered(r) == Write(r, [row[r] EXCEPT !.status = "delivered",
                                        !.token = NoToken,
                                        !.lease = "none"])

Released(r) == Write(r, [row[r] EXCEPT !.available = FALSE,
                                       !.token = NoToken,
                                       !.lease = "none"])

-----------------------------------------------------------------------------
Init ==
    /\ row = [r \in Records |-> [status |-> "absent", attempts |-> 0,
                                 token |-> NoToken, lease |-> "none",
                                 available |-> TRUE]]
    /\ pc = [w \in Workers |-> "off"]
    /\ owner = [w \in Workers |-> NoToken]
    /\ batch = [w \in Workers |-> {}]
    /\ cur = [w \in Workers |-> NoRecord]
    /\ attempt = [w \in Workers |-> 0]
    /\ cancel = [w \in Workers |-> "none"]
    /\ nextOwner = 1
    /\ faults = 0
    /\ published = [r \in Records |-> {}]
    /\ confirmed = [r \in Records |-> FALSE]
    /\ proven = [r \in Records |-> {}]
    /\ unproven = [r \in Records |-> {}]

Goto(w, label) == pc' = [pc EXCEPT ![w] = label]

\* A storage error; MaxFaults bounds how many a behaviour contains.
Fault == faults < MaxFaults /\ faults' = faults + 1

\* The worker's copy of the current record goes out of scope.
ForgetRecord(w) == /\ cur' = [cur EXCEPT ![w] = NoRecord]
                   /\ attempt' = [attempt EXCEPT ![w] = 0]

\* The worker ends its run with an error: its local batch is dropped.
Terminate(w) ==
    /\ Goto(w, "failed")
    /\ batch' = [batch EXCEPT ![w] = {}]
    /\ ForgetRecord(w)

\* The for loop over the claimed records moves on to the next one.
NextRecord(w) ==
    /\ Goto(w, "begin")
    /\ batch' = [batch EXCEPT ![w] = @ \ {cur[w]}]
    /\ ForgetRecord(w)

\* publish_record returned: at the attempt limit an error ends the run.
EndAttempt(w) ==
    IF attempt[w] = MaxAttempts THEN Terminate(w) ELSE NextRecord(w)

-----------------------------------------------------------------------------
(* Environment: business transactions, the database clock, the supervisor. *)

\* PostgresTransaction::enqueue, committed with the business transaction.
Enqueue(r) ==
    /\ row[r].status = "absent"
    /\ row' = Write(r, [row[r] EXCEPT !.status = "pending"])
    /\ UNCHANGED <<workerVars, nextOwner, faults, brokerVars, markVars>>

\* claimed_until passes.
ExpireLease(r) ==
    /\ row[r].lease = "held"
    /\ row' = Write(r, [row[r] EXCEPT !.lease = "expired"])
    /\ UNCHANGED <<workerVars, nextOwner, faults, brokerVars, markVars>>

\* available_at passes.
BecomeAvailable(r) ==
    /\ ~row[r].available
    /\ row' = Write(r, [row[r] EXCEPT !.available = TRUE])
    /\ UNCHANGED <<workerVars, nextOwner, faults, brokerVars, markVars>>

\* OutboxRelaySupervisor::stop_admission cancels the worker's admission.
StopAdmission(w) ==
    /\ cancel[w] = "none"
    /\ cancel' = [cancel EXCEPT ![w] = "admission"]
    /\ UNCHANGED <<row, pc, owner, batch, cur, attempt, nextOwner, faults,
                   brokerVars, markVars>>

\* RelayWorker::request_force cancels both tokens.
RequestForce(w) ==
    /\ cancel[w] # "force"
    /\ cancel' = [cancel EXCEPT ![w] = "force"]
    /\ UNCHANGED <<row, pc, owner, batch, cur, attempt, nextOwner, faults,
                   brokerVars, markVars>>

\* Book-keeping of the model: add the worker's current attempt to a history.
Noted(history, w) == [history EXCEPT ![cur[w]] = @ \union {attempt[w]}]

\* A confirmed copy whose delivered mark is lost with the task that held it
\* (ConfirmedPublishGuard dropped unmarked).
AbandonMark(w) ==
    unproven' = IF pc[w] = "mark" THEN Noted(unproven, w) ELSE unproven

\* TransactionTasks::run drops the worker's future at the shutdown cutoff,
\* which stop_admission installed.  A statement in flight then takes effect or
\* not: if it does, its own step (or its error step) comes before this one.
Interrupt(w) ==
    /\ pc[w] \in Running
    /\ cancel[w] # "none"
    /\ Terminate(w)
    /\ AbandonMark(w)
    /\ UNCHANGED <<row, owner, cancel, nextOwner, faults, brokerVars, proven>>

\* The process dies or is restarted; only the table and the broker survive.
Crash(w) ==
    /\ pc[w] # "off"
    /\ Fault
    /\ Goto(w, "off")
    /\ batch' = [batch EXCEPT ![w] = {}]
    /\ ForgetRecord(w)
    /\ cancel' = [cancel EXCEPT ![w] = "none"]
    /\ AbandonMark(w)
    /\ UNCHANGED <<row, owner, nextOwner, brokerVars, proven>>

-----------------------------------------------------------------------------
(* RelayWorker::start and the loop of RelayWorker::run.                    *)

Start(w) ==
    /\ pc[w] = "off"
    /\ IF cancel[w] = "none"
         THEN /\ Goto(w, "loop")
              /\ owner' = [owner EXCEPT ![w] = nextOwner]
              /\ nextOwner' = nextOwner + 1
         ELSE /\ Goto(w, "stopped")
              /\ UNCHANGED <<owner, nextOwner>>
    /\ UNCHANGED <<row, batch, cur, attempt, cancel, faults, brokerVars,
                   markVars>>

\* cleanup: at most one batch of delivered rows past retention is deleted.
Cleanup(S) ==
    [r \in Records |-> IF r \in S THEN [row[r] EXCEPT !.status = "deleted"]
                                  ELSE row[r]]

MutExpirableExhausted ==
    {r \in Records : \/ row[r].status = "delivered"
                     \/ row[r].status = "pending" /\ row[r].attempts = MaxAttempts}

Expirable == {r \in Records : row[r].status = "delivered"}

\* The top of the loop: leave when cancelled, run a cleanup when it is due.
Loop(w) ==
    /\ pc[w] = "loop"
    /\ \/ /\ cancel[w] # "none"
          /\ Goto(w, "stopped")
          /\ UNCHANGED row
       \/ /\ cancel[w] = "none"
          /\ Goto(w, "claim")
          /\ \E S \in SUBSET Expirable :
                Cardinality(S) <= BatchSize /\ row' = Cleanup(S)
    /\ UNCHANGED <<owner, batch, cur, attempt, cancel, nextOwner, faults,
                   brokerVars, markVars>>

\* claim_batch returned rows, or none.
Claim(w) ==
    /\ pc[w] = "claim"
    /\ ~Oversized
    /\ row' = Claimed(Bounded, owner[w])
    /\ batch' = [batch EXCEPT ![w] = Bounded]
    /\ Goto(w, IF Bounded = {} THEN "count" ELSE "begin")
    /\ UNCHANGED <<owner, cur, attempt, cancel, nextOwner, faults, brokerVars,
                   markVars>>

\* OUTBOX_RECORD_TOO_LARGE ends the run.
ClaimOversized(w) ==
    /\ pc[w] = "claim"
    /\ Oversized
    /\ Terminate(w)
    /\ UNCHANGED <<row, owner, cancel, nextOwner, faults, brokerVars, markVars>>

\* claim_batch failed, with the lease written or not: back off and retry.
ClaimError(w) ==
    /\ pc[w] = "claim"
    /\ Fault
    /\ row' \in {row, Claimed(IF Oversized THEN {} ELSE Bounded, owner[w])}
    /\ Goto(w, "loop")
    /\ UNCHANGED <<owner, batch, cur, attempt, cancel, nextOwner, brokerVars,
                   markVars>>

\* The idle probe: an exhausted row ends the run, a failed probe does not.
Count(w) ==
    /\ pc[w] = "count"
    /\ \/ /\ Exhausted = {}
          /\ Goto(w, "loop")
          /\ UNCHANGED <<batch, cur, attempt, faults>>
       \/ Exhausted # {} /\ Terminate(w) /\ UNCHANGED faults
       \/ Fault /\ Goto(w, "loop") /\ UNCHANGED <<batch, cur, attempt>>
    /\ UNCHANGED <<row, owner, cancel, nextOwner, brokerVars,
                   markVars>>

\* The for loop ends: every record visited, or force cancelled.
EndBatch(w) ==
    /\ pc[w] = "begin"
    /\ batch[w] = {} \/ cancel[w] = "force"
    /\ Goto(w, "loop")
    /\ batch' = [batch EXCEPT ![w] = {}]
    /\ UNCHANGED <<row, owner, cur, attempt, cancel, nextOwner, faults,
                   brokerVars, markVars>>

\* The oldest record the worker has claimed and not visited.
Oldest(w, r) == r \in batch[w] /\ \A s \in batch[w] : r <= s

\* begin_outbox_publish matched: the attempt is durable before any broker I/O.
BeginPublish(w, r) ==
    /\ pc[w] = "begin"
    /\ cancel[w] # "force"
    /\ Oldest(w, r)
    /\ BeginMatches(r, owner[w])
    /\ row' = Begun(r)
    /\ cur' = [cur EXCEPT ![w] = r]
    /\ attempt' = [attempt EXCEPT ![w] = row[r].attempts + 1]
    /\ Goto(w, "publish")
    /\ UNCHANGED <<owner, batch, cancel, nextOwner, faults, brokerVars,
                   markVars>>

\* OutboxClaimLost: another worker owns the row; skip the stale copy.
SkipStale(w, r) ==
    /\ pc[w] = "begin"
    /\ cancel[w] # "force"
    /\ Oldest(w, r)
    /\ ~BeginMatches(r, owner[w])
    /\ batch' = [batch EXCEPT ![w] = @ \ {r}]
    /\ UNCHANGED <<row, pc, owner, cur, attempt, cancel, nextOwner, faults,
                   brokerVars, markVars>>

\* begin_outbox_publish failed, applied or not: the run ends.
BeginError(w, r) ==
    /\ pc[w] = "begin"
    /\ cancel[w] # "force"
    /\ Oldest(w, r)
    /\ Fault
    /\ row' \in {row, IF BeginMatches(r, owner[w]) THEN Begun(r) ELSE row}
    /\ Terminate(w)
    /\ UNCHANGED <<owner, cancel, nextOwner, brokerVars, markVars>>

-----------------------------------------------------------------------------
(* RelayWorker::publish_record.                                            *)

\* The broker accepts the event and its confirm arrives in time.
PublishConfirmed(w) ==
    /\ pc[w] = "publish"
    /\ published' = Noted(published, w)
    /\ confirmed' = [confirmed EXCEPT ![cur[w]] = TRUE]
    /\ Goto(w, "mark")
    /\ UNCHANGED <<row, owner, batch, cur, attempt, cancel, nextOwner, faults,
                   markVars>>

\* An error or the publish timeout; the broker may hold the event all the same.
PublishFailed(w) ==
    /\ pc[w] = "publish"
    /\ \/ UNCHANGED <<published, unproven>>
       \/ /\ published' = Noted(published, w)
          /\ unproven' = Noted(unproven, w)
    /\ Goto(w, "fail")
    /\ UNCHANGED <<row, owner, batch, cur, attempt, cancel, nextOwner, faults,
                   confirmed, proven>>

\* mark_outbox_delivered succeeded.
MarkDelivered(w) ==
    /\ pc[w] = "mark"
    /\ SettleMatches(cur[w], owner[w])
    /\ row' = Delivered(cur[w])
    /\ proven' = Noted(proven, w)
    /\ NextRecord(w)
    /\ UNCHANGED <<owner, cancel, nextOwner, faults, brokerVars, unproven>>

\* The mark failed: the claim is gone, or the store reported an error.  The
\* claim is neither released nor rewritten.
MarkFailed(w) ==
    /\ pc[w] = "mark"
    /\ \/ /\ ~SettleMatches(cur[w], owner[w])
          /\ UNCHANGED <<row, faults>>
       \/ /\ Fault
          /\ row' \in {row, IF SettleMatches(cur[w], owner[w])
                              THEN Delivered(cur[w]) ELSE row}
    /\ unproven' = Noted(unproven, w)
    /\ EndAttempt(w)
    /\ UNCHANGED <<owner, cancel, nextOwner, brokerVars, proven>>

\* record_outbox_failure: release the row for a delayed retry if it is still
\* ours; an error of the store is only reported.
RecordFailure(w) ==
    /\ pc[w] = "fail"
    /\ \/ /\ row' = IF SettleMatches(cur[w], owner[w]) THEN Released(cur[w])
                                                       ELSE row
          /\ UNCHANGED faults
       \/ Fault /\ UNCHANGED row
    /\ EndAttempt(w)
    /\ UNCHANGED <<owner, cancel, nextOwner, brokerVars, markVars>>

-----------------------------------------------------------------------------
\* What a running worker does by itself.
Work(w) ==
    \/ Loop(w) \/ Claim(w) \/ ClaimOversized(w) \/ ClaimError(w) \/ Count(w)
    \/ EndBatch(w)
    \/ \E r \in Records : BeginPublish(w, r) \/ SkipStale(w, r)
                                             \/ BeginError(w, r)
    \/ PublishConfirmed(w) \/ PublishFailed(w)
    \/ MarkDelivered(w) \/ MarkFailed(w) \/ RecordFailure(w)

Next ==
    \/ \E r \in Records : Enqueue(r) \/ ExpireLease(r) \/ BecomeAvailable(r)
    \/ \E w \in Workers : \/ StopAdmission(w) \/ RequestForce(w)
                          \/ Interrupt(w) \/ Crash(w) \/ Start(w) \/ Work(w)

Spec == Init /\ [][Next]_vars

\* A spawned worker keeps being polled and the database clock advances.
\* Strong fairness of the begin statement says that leases do not for ever
\* lapse between a claim and its first publish: the configured lease must be
\* longer than a whole publish timeout.
Fairness ==
    /\ \A w \in Workers : WF_vars(Work(w))
    /\ \A r \in Records : /\ WF_vars(ExpireLease(r))
                          /\ WF_vars(BecomeAvailable(r))
                          /\ SF_vars(\E w \in Workers : BeginPublish(w, r))

FairSpec == Spec /\ Fairness

-----------------------------------------------------------------------------
(* Properties.                                                             *)

\* Type correctness of the table, the workers and the histories.
TypeOK ==
    /\ row \in [Records -> Row]
    /\ pc \in [Workers -> Running \union Ended]
    /\ owner \in [Workers -> Nat]
    /\ batch \in [Workers -> SUBSET Records]
    /\ cur \in [Workers -> Records \union {NoRecord}]
    /\ \A w \in Workers : pc[w] \in InFlight => cur[w] \in Records
    /\ attempt \in [Workers -> 0 .. MaxAttempts]
    /\ cancel \in [Workers -> {"none", "admission", "force"}]
    /\ nextOwner \in Nat \ {0}
    /\ faults \in 0 .. MaxFaults
    /\ published \in [Records -> SUBSET Nat]
    /\ confirmed \in [Records -> BOOLEAN]
    /\ proven \in [Records -> SUBSET Nat]
    /\ unproven \in [Records -> SUBSET Nat]

InFlightOn(w, r) == pc[w] \in InFlight /\ cur[w] = r

\* No event is lost: a row is only ever marked delivered, and only ever
\* deleted by cleanup, after the broker confirmed a copy of its event.
NoEventLost ==
    \A r \in Records :
        row[r].status \in {"delivered", "deleted"} => confirmed[r]

\* Every copy handed to the broker consumes a durable attempt of its own:
\* attempts whose copies the broker holds were all counted in
\* publish_attempts, none exceeds relay_max_publish_attempts (the contract
\* publish_record checks), and a worker about to publish uses a number no
\* other copy has used or is using.
EachCopyHasItsAttempt ==
    /\ \A r \in Records : published[r] \subseteq 1 .. row[r].attempts
    /\ \A w \in Workers : pc[w] = "publish" =>
          /\ attempt[w] \in 1 .. row[cur[w]].attempts
          /\ attempt[w] \notin published[cur[w]]
          /\ \A v \in Workers \ {w} :
                InFlightOn(v, cur[w]) => attempt[v] # attempt[w]

\* Duplicates only come from the documented window: of two copies of one
\* event at the broker, at least one belongs to an attempt whose delivered
\* mark was not (or is not yet) proven.
DuplicatesAccounted ==
    \A r \in Records : \A a, b \in published[r] :
        a # b => \E c \in {a, b} :
                    \/ c \in unproven[r]
                    \/ \E w \in Workers : /\ pc[w] = "mark" /\ cur[w] = r
                                          /\ attempt[w] = c

\* The worker whose token is on the row holds its newest attempt, so the
\* limit it compares its copy with is the limit of the row.
OwnerHoldsNewestAttempt ==
    \A w \in Workers :
        /\ pc[w] \in InFlight
        /\ row[cur[w]].token = owner[w]
        => attempt[w] = row[cur[w]].attempts

\* The last attempt of the budget cannot be overtaken: until its worker
\* settles it, the row stays pending under that worker's token, whatever
\* leases expire and whichever stale workers finish late.
LastAttemptIsExclusive ==
    \A w \in Workers :
        pc[w] \in InFlight /\ attempt[w] = MaxAttempts =>
            /\ row[cur[w]].status = "pending"
            /\ row[cur[w]].token = owner[w]

\* A row turns delivered only by the mark of the worker whose token it
\* carries, after that worker's own confirmed publish.
OnlyTheOwnerMarks ==
    [][\A r \in Records :
          row[r].status = "pending" /\ row'[r].status = "delivered" =>
              \E w \in Workers : /\ pc[w] = "mark" /\ cur[w] = r
                                 /\ owner[w] = row[r].token]_vars

\* The life of a row is one-way: delivered rows are never published or
\* claimed again, attempts never go down, and what is not delivered (an
\* exhausted row above all) is never deleted.
RowHistoryIsOneWay ==
    [][\A r \in Records :
          /\ row'[r].attempts >= row[r].attempts
          /\ row[r].status = "pending" =>
                row'[r].status \in {"pending", "delivered"}
          /\ row[r].status \in {"delivered", "deleted"} =>
                /\ row'[r].status \in {row[r].status, "deleted"}
                /\ row'[r].attempts = row[r].attempts
                /\ row'[r].token = NoToken]_vars

\* Every committed event is eventually delivered, unless its attempts are
\* exhausted or no relay is left running.
EveryRowSettles ==
    \A r \in Records :
        row[r].status = "pending" ~>
            \/ row[r].status \in {"delivered", "deleted"}
            \/ row[r].attempts = MaxAttempts
            \/ \A w \in Workers : pc[w] \in Ended

\* The relay implements the abstract outbox: whatever the workers, their
\* leases and their crashes do, each step is a commit, an accepted copy, one
\* settlement, a retention pass, or nothing the outside can see.
Outbox == INSTANCE AtLeastOnceOutbox
            WITH status <- [r \in Records |-> row[r].status],
                 copies <- published

ImplementsAtLeastOnce == Outbox!Spec

-----------------------------------------------------------------------------
(* What comments of the code say and the code does not do.                 *)

\* outbox_relay.rs, end of the record loop: "Only force cancellation may
\* interrupt owned work; otherwise every claimed row reaches a confirmed mark
\* or an explicit durable failure release."  A worker that ended without any
\* cancellation has left no row of its batch claimed and unvisited.
OnlyForceAbandonsRows ==
    \A w \in Workers : pc[w] = "failed" /\ cancel[w] = "none" =>
        ~\E r \in Records : row[r].token = owner[w] /\ row[r].attempts = 0

\* The snapshot's `exhausted`: "Durable rows blocked after exhausting the
\* configured attempt budget".  The idle probe ends a relay only for a row
\* that is blocked, that is, whose last attempt is not still in progress.
OnlyBlockedRowsEndRelay ==
    [][\A w \in Workers :
          pc[w] = "count" /\ pc'[w] = "failed" /\ cancel[w] = "none" =>
              \E r \in Exhausted : ~\E v \in Workers : InFlightOn(v, r)]_vars
=============================================================================
