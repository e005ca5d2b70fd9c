------------------------- MODULE QueueConsumerProofs -------------------------
(***************************************************************************)
(* The RabbitMQ consumer loses no message, settles no delivery twice, says *)
(* "pending redelivery" only of what the broker still holds, and is quiet  *)
(* when a drain is reconciled or a new generation opens: for every number  *)
(* of messages, copies, faults and generations, every concurrency, buffer  *)
(* capacity and retry budget.                                              *)
(***************************************************************************)
EXTENDS QueueConsumer, WellFoundedInduction, TLAPS

-----------------------------------------------------------------------------
(* The inductive invariant                                                 *)

\* A delivery the process holds has written no frame and has no outcome, and
\* the broker holds its copy: unacked on an open channel, taken back from a
\* lost one.  Its settlement has started when it is in one of its operations,
\* and a retry fits the budget.  An ended delivery wrote one frame at most.
DeliveryOk(c) ==
    /\ job[c].phase # "none" =>
          /\ job[c].frames = 0 /\ job[c].outcome = "none"
          /\ copy[c].at = IF channel = "open" THEN "unacked" ELSE "ready"
          /\ job[c].plan = "retry" => copy[c].retries < RetryAttempts
    /\ job[c].phase \in Operations => job[c].started
    /\ job[c].phase \in {"buffered", "handling"} => ~job[c].published
    /\ job[c].frames <= 1
    /\ job[c].outcome = "pending" =>
          job[c].frames = 0 /\ copy[c].at \in {"unacked", "ready"}

DeliveryInv == \A c \in Copies : DeliveryOk(c)

\* Who holds a delivery.  The buffer holds each of its deliveries once; the
\* receiver holds at most one, outside the buffer; every delivery that is
\* buffered is in one of the two places; only tasks are doomed.
Distinct == \A i, j \in 1..Len(buffer) : buffer[i] = buffer[j] => i = j

HolderInv ==
    /\ Distinct
    /\ \A c \in Copies : c \in Buffered => job[c].phase = "buffered"
    /\ \A c \in Copies : job[c].phase = "buffered" =>
           c \in Buffered \/ (receiver.at = "sending" /\ receiver.cur = c)
    /\ IF receiver.at \in {"sending", "settling"}
         THEN receiver.cur \in Copies ELSE receiver.cur = NoCopy
    /\ receiver.at = "sending" =>
           job[receiver.cur].phase = "buffered" /\ receiver.cur \notin Buffered
    /\ receiver.at = "settling" => job[receiver.cur].phase \in Operations
    /\ \A c \in Copies : job[c].doomed => c \in Running

\* A dispatcher that closed the buffer left nothing in it; one that returned
\* joined its tasks, and the registration task keeps what that proves until
\* the next generation.
QuietInv ==
    /\ RxClosed => buffer = <<>>
    /\ dispatcher.at = "exited" /\ dispatcher.exit # "panicked" => Running = {}
    /\ supervisor.returned => dispatcher.at = "joined" /\ Running = {}
    /\ generation.at # "running" => ~PairRunning
    /\ generation.at = "waiting" => supervisor.returned
    /\ reconciled => generation.at = "ended" /\ supervisor.returned

\* The copy of c is about to be acknowledged: for a success, or because the
\* broker has taken the copy that replaces it.
Leaving(c) ==
    \/ job[c].phase = "ack"
    \/ job[c].phase = "handoff" /\ job[c].published

\* The broker will deliver or keep the copy: it is neither acknowledged nor
\* about to be.
Stays(c) == copy[c].at \notin {"free", "acking"} /\ ~Leaving(c)

\* A message no handler completed has a copy that stays: each handoff that
\* lets one go has made another.
KeptInv ==
    \A m \in Messages : m \in handled \/ \E c \in Copies :
        copy[c].of = m /\ Stays(c)

IInv == TypeOK /\ DeliveryInv /\ HolderInv /\ QuietInv /\ KeptInv

-----------------------------------------------------------------------------
(* Types                                                                   *)

CopyType == [of : Messages, retries : 0..RetryAttempts, at : CopyStates]
OutcomeSet == {"none", "success", "handedoff", "requeued", "rejected",
               "pending", "unresolved"}
JobType == [phase : {"none", "buffered"} \union Active,
            plan : {"none", "retry", "dead"}, published : BOOLEAN,
            started : BOOLEAN, armed : BOOLEAN, doomed : BOOLEAN,
            result : Results, frames : 0..2, outcome : OutcomeSet]
ReceiverType == [at : {"run", "sending", "settling", "exited", "joined"},
                 cur : Copies \union {NoCopy}, doomed : BOOLEAN,
                 exit : Results, shutdown : BOOLEAN]
DispatcherType == [at : {"reap", "select", "finish", "exited", "joined"},
                   failure : Results, stopping : BOOLEAN, aborted : BOOLEAN,
                   exit : Results \union {"panicked"}, shutdown : BOOLEAN]
SupervisorType == [force : BOOLEAN, admission : BOOLEAN, failure : BOOLEAN,
                   returned : BOOLEAN]
TokenType == [admission : BOOLEAN, execution : BOOLEAN,
              settlement : BOOLEAN, force : BOOLEAN]
GenerationType == [number : 1..MaxGenerations, recover : BOOLEAN,
                   at : {"running", "waiting", "ended"}]

\* TypeOK with names for its parts.
LEMMA TypeParts ==
    TypeOK <=> /\ kind \in [Messages -> Kinds]
               /\ copy \in [Copies -> CopyType]
               /\ channel \in {"open", "lost", "closed"}
               /\ job \in [Copies -> JobType]
               /\ handled \subseteq Messages
               /\ buffer \in Seq(Copies) /\ Len(buffer) <= BufferCapacity
               /\ receiver \in ReceiverType
               /\ dispatcher \in DispatcherType
               /\ supervisor \in SupervisorType
               /\ exits \in [Results -> Nat]
               /\ g \in TokenType /\ e \in TokenType
               /\ generation \in GenerationType
               /\ failed \in BOOLEAN /\ reconciled \in BOOLEAN
               /\ drain \in {"idle", "draining", "taking", "forcing", "done"}
               /\ faults \in 0..MaxFaults
PROOF
  <1>1. ({g, e} \subseteq TokenType) <=> (g \in TokenType /\ e \in TokenType)
    OBVIOUS
  <1>. QED
    BY <1>1 DEF TypeOK, CopyType, JobType, OutcomeSet, ReceiverType,
       DispatcherType, SupervisorType, TokenType, GenerationType

\* The same of the next state.
LEMMA TypePartsNext ==
    TypeOK' <=> /\ kind' \in [Messages -> Kinds]
                /\ copy' \in [Copies -> CopyType]
                /\ channel' \in {"open", "lost", "closed"}
                /\ job' \in [Copies -> JobType]
                /\ handled' \subseteq Messages
                /\ buffer' \in Seq(Copies) /\ Len(buffer') <= BufferCapacity
                /\ receiver' \in ReceiverType
                /\ dispatcher' \in DispatcherType
                /\ supervisor' \in SupervisorType
                /\ exits' \in [Results -> Nat]
                /\ g' \in TokenType /\ e' \in TokenType
                /\ generation' \in GenerationType
                /\ failed' \in BOOLEAN /\ reconciled' \in BOOLEAN
                /\ drain' \in {"idle", "draining", "taking", "forcing", "done"}
                /\ faults' \in 0..MaxFaults
PROOF
  <1>1. ({g', e'} \subseteq TokenType) <=> (g' \in TokenType /\ e' \in TokenType)
    OBVIOUS
  <1>. QED
    BY <1>1 DEF TypeOK, CopyType, JobType, OutcomeSet, ReceiverType,
       DispatcherType, SupervisorType, TokenType, GenerationType

\* The record of one delivery and of one copy.
LEMMA JobShape ==
    ASSUME TypeOK, NEW c \in Copies
    PROVE  /\ job[c] \in JobType
           /\ copy[c] \in CopyType
BY TypeParts

\* An idle delivery has the type of one.
LEMMA NoJobType == NoJob \in JobType
BY DEF NoJob, JobType, OutcomeSet, Results

\* Whoever ends a delivery, the types survive.
LEMMA EndJobTypes ==
    ASSUME TypeOK, NEW c \in Copies, NEW written \in BOOLEAN,
           NEW outcome \in OutcomeSet, NEW result \in Results,
           EndJob(c, written, outcome, result),
           job[c].frames <= 1, written => job[c].phase \in Operations \ {"handoff"}
    PROVE  /\ job' \in [Copies -> JobType]
           /\ copy' \in [Copies -> CopyType]
           /\ receiver' \in ReceiverType
           /\ exits' \in [Results -> Nat]
PROOF
  <1>1. job[c].frames + (IF written THEN 1 ELSE 0) \in 0..2
    BY JobShape DEF JobType
  <1>2. [NoJob EXCEPT !.outcome = outcome,
            !.frames = job[c].frames + IF written THEN 1 ELSE 0] \in JobType
    BY <1>1, NoJobType DEF JobType, NoJob
  <1>3. job' \in [Copies -> JobType]
    BY <1>2, TypeParts DEF EndJob
  <1>4. written => FrameOf[job[c].phase] \in Wire
    BY DEF FrameOf, Operations, Wire
  <1>5. copy' \in [Copies -> CopyType]
    BY <1>4, TypeParts DEF EndJob, CopyType, CopyStates
  <1>6. Cancelled("admission") \in BOOLEAN
    BY DEF Cancelled
  <1>7. receiver' \in ReceiverType
    BY <1>6, TypeParts DEF EndJob, ReceiverType
  <1>8. exits' \in [Results -> Nat]
    BY TypeParts DEF EndJob
  <1>. QED
    BY <1>3, <1>5, <1>7, <1>8

-----------------------------------------------------------------------------
(* What a step of a settlement is, seen from outside                       *)

\* The step ends the delivery of c.
Ends(c, written, outcome, result) ==
    /\ EndJob(c, written, outcome, result)
    /\ job[c].phase \in Active
    /\ written => job[c].phase \in Operations \ {"handoff"}
    /\ outcome = "pending" => ~written
    /\ UNCHANGED settleFrame

\* The step moves the delivery of c on to a broker operation; it is on its
\* way out only if its message is handled or it was on its way out before.
Moves(c, j) ==
    /\ job' = [job EXCEPT ![c] = j]
    /\ job[c].phase \in {"handling", "handoff"}
    /\ j.phase \in Operations /\ j.started
    /\ j.frames = job[c].frames /\ j.outcome = job[c].outcome
    /\ j.doomed = job[c].doomed
    /\ j.plan = "retry" => copy[c].retries < RetryAttempts
    /\ j.phase = "ack" \/ (j.phase = "handoff" /\ j.published) =>
          Leaving(c) \/ copy[c].of \in handled'
    /\ UNCHANGED <<copy, receiver, exits, settleFrame>>

\* Every step of a settlement ends the delivery, moves it on, or has the
\* broker take the copy of a handoff.
LEMMA SettlementCases ==
    ASSUME TypeOK, DeliveryInv, HolderInv, NEW c \in Copies, Settlement(c)
    PROVE  /\ handled \subseteq handled' /\ handled' \subseteq Messages
           /\ faults' \in 0..MaxFaults
           /\ \/ HandoffAccepted(c)
              \/ \E j \in JobType : Moves(c, j)
              \/ \E written \in BOOLEAN, outcome \in OutcomeSet, result \in Results :
                     Ends(c, written, outcome, result)
PROOF
  <1>. DEFINE Goal == /\ handled \subseteq handled' /\ handled' \subseteq Messages
                      /\ faults' \in 0..MaxFaults
                      /\ \/ HandoffAccepted(c)
                         \/ \E j \in JobType : Moves(c, j)
                         \/ \E written \in BOOLEAN, outcome \in OutcomeSet, result \in Results :
                                Ends(c, written, outcome, result)
  <1>1. /\ job[c] \in JobType /\ copy[c].of \in Messages
        /\ handled \subseteq Messages /\ faults \in 0..MaxFaults
    BY JobShape, TypeParts DEF CopyType
  <1>2. faults < MaxFaults /\ faults' = faults + 1 => faults' \in 0..MaxFaults
    BY <1>1, ConsumerAssumption
  <1>3. ASSUME NEW o \in {"success", "retryable", "permanent", "deferred"},
               HandlerReturns(c, o)
        PROVE  Goal
    <2>1. /\ handled \subseteq handled' /\ handled' \subseteq Messages
          /\ faults' = faults /\ job[c].phase = "handling"
          /\ o = "success" => copy[c].of \in handled'
      BY <1>1, <1>3 DEF HandlerReturns
    <2>2. CASE Cancelled("settlement")
      <3>1. Ends(c, FALSE, "unresolved", "cancelled")
        BY <1>3, <2>1, <2>2 DEF HandlerReturns, Ends, Active
      <3>. QED
        BY <1>1, <2>1, <3>1 DEF OutcomeSet, Results
    <2>3. CASE ~Cancelled("settlement")
      <3>. DEFINE j == Materialized(c, o)
      <3>1. /\ job' = [job EXCEPT ![c] = j]
            /\ UNCHANGED <<copy, receiver, exits, settleFrame>>
        BY <1>3, <2>3 DEF HandlerReturns
      <3>2. ~job[c].published
        BY <2>1 DEF DeliveryInv, DeliveryOk
      <3>3. Plan(c, o = "retryable") \in {"retry", "dead"}
        BY DEF Plan
      <3>4. /\ j \in JobType /\ j.phase \in Operations /\ j.started
            /\ j.frames = job[c].frames /\ j.outcome = job[c].outcome
            /\ j.doomed = job[c].doomed
        BY <1>1, <3>3 DEF Materialized, JobType, Operations, Active
      <3>5. j.plan = "retry" => copy[c].retries < RetryAttempts
        BY <1>1 DEF Materialized, Plan, JobType
      <3>6. j.phase = "ack" => o = "success"
        BY <1>1 DEF Materialized, JobType
      <3>7. j.published = job[c].published
        BY <1>1 DEF Materialized, JobType
      <3>8. Moves(c, j)
        BY <2>1, <3>1, <3>2, <3>4, <3>5, <3>6, <3>7 DEF Moves
      <3>. QED
        BY <1>1, <2>1, <3>4, <3>8
    <2>. QED
      BY <2>2, <2>3
  <1>4. Interrupted(c) \in OutcomeSet
    BY DEF Interrupted, OutcomeSet
  <1>5. CASE HandlerCancelled(c)
    <2>1. Ends(c, FALSE, Interrupted(c), "ok")
      BY <1>5 DEF HandlerCancelled, Ends, Active
    <2>. QED
      BY <1>1, <1>4, <1>5, <2>1 DEF HandlerCancelled, Results
  <1>6. CASE HandoffAccepted(c)
    BY <1>1, <1>6 DEF HandoffAccepted
  <1>7. CASE HandoffConfirmed(c)
    <2>. DEFINE j == [job[c] EXCEPT !.phase = "ack"]
    <2>1. job' = [job EXCEPT ![c] = j]
      BY <1>7, TypeParts DEF HandoffConfirmed
    <2>2. j \in JobType /\ j.phase = "ack"
      BY <1>1 DEF JobType, Active, Operations
    <2>3. /\ j.started = job[c].started /\ j.frames = job[c].frames
          /\ j.outcome = job[c].outcome /\ j.doomed = job[c].doomed
          /\ j.plan = job[c].plan
      BY <1>1 DEF JobType
    <2>4. Leaving(c) /\ job[c].phase = "handoff"
      BY <1>7 DEF HandoffConfirmed, Leaving
    <2>5. job[c].started /\ (job[c].plan = "retry" => copy[c].retries < RetryAttempts)
      BY <2>4 DEF DeliveryInv, DeliveryOk, Operations
    <2>6. Moves(c, j)
      BY <1>7, <2>1, <2>2, <2>3, <2>4, <2>5 DEF HandoffConfirmed, Moves, Operations
    <2>. QED
      BY <1>1, <1>7, <2>2, <2>6 DEF HandoffConfirmed
  <1>8. CASE HandoffFails(c)
    <2>. DEFINE j == [job[c] EXCEPT !.phase = "requeue", !.result = "failed"]
    <2>1. job' = [job EXCEPT ![c] = j]
      BY <1>8, TypeParts DEF HandoffFails
    <2>2. j \in JobType /\ j.phase = "requeue"
      BY <1>1 DEF JobType, Active, Operations, Results
    <2>3. /\ j.started = job[c].started /\ j.frames = job[c].frames
          /\ j.outcome = job[c].outcome /\ j.doomed = job[c].doomed
          /\ j.plan = job[c].plan
      BY <1>1 DEF JobType
    <2>4. job[c].phase = "handoff" /\ faults' \in 0..MaxFaults /\ handled' = handled
      BY <1>2, <1>8 DEF HandoffFails, Fault
    <2>5. job[c].started /\ (job[c].plan = "retry" => copy[c].retries < RetryAttempts)
      BY <2>4 DEF DeliveryInv, DeliveryOk, Operations
    <2>6. Moves(c, j)
      BY <1>8, <2>1, <2>2, <2>3, <2>4, <2>5 DEF HandoffFails, Moves, Operations
    <2>. QED
      BY <1>1, <2>2, <2>4, <2>6
  <1>9. CASE Settles(c)
    <2>1. OutcomeOf(c) \in OutcomeSet /\ OutcomeOf(c) # "pending" /\ job[c].result \in Results
      BY <1>1 DEF OutcomeOf, OutcomeSet, JobType
    <2>2. Ends(c, TRUE, OutcomeOf(c), job[c].result)
      BY <1>9, <2>1 DEF Settles, Ends, Active, Operations
    <2>. QED
      BY <1>1, <1>9, <2>1, <2>2 DEF Settles
  <1>10. ASSUME NEW written \in BOOLEAN, SettlementFails(c, written) PROVE Goal
    <2>1. Ends(c, written, "unresolved", "failed")
      BY <1>10 DEF SettlementFails, Ends, Active, Operations
    <2>2. handled' = handled /\ faults' \in 0..MaxFaults
      BY <1>1, <1>2, <1>10 DEF SettlementFails, Fault
    <2>. QED
      BY <1>1, <2>1, <2>2 DEF OutcomeSet, Results
  <1>11. ASSUME NEW written \in BOOLEAN, SettlementCancelled(c, written) PROVE Goal
    <2>. DEFINE result == IF job[c].result = "failed" THEN "failed" ELSE "cancelled"
    <2>1. Ends(c, written, "unresolved", result)
      BY <1>11 DEF SettlementCancelled, Ends, Active, Operations
    <2>. QED
      BY <1>1, <1>11, <2>1 DEF SettlementCancelled, OutcomeSet, Results
  <1>12. ASSUME NEW written \in BOOLEAN, TaskDropped(c, written) PROVE Goal
    <2>1. job[c].phase \in Active
      BY <1>12 DEF TaskDropped, HolderInv, Running
    <2>2. written => Interrupted(c) = "unresolved"
      BY <1>12 DEF TaskDropped, Interrupted, DeliveryInv, DeliveryOk
    <2>3. Ends(c, written, Interrupted(c), "dropped")
      BY <1>12, <2>1, <2>2 DEF TaskDropped, Ends
    <2>. QED
      BY <1>1, <1>4, <1>12, <2>3 DEF TaskDropped, Results
  <1>. QED
    BY <1>3, <1>5, <1>6, <1>7, <1>8, <1>9, <1>10, <1>11, <1>12 DEF Settlement

\* The broker has a first free copy to put a handoff in.
LEMMA FirstFree ==
    ASSUME FreeCopies # {}
    PROVE  LET new == CHOOSE n \in FreeCopies : \A d \in FreeCopies : n <= d
           IN  new \in FreeCopies
PROOF
  <1>. DEFINE R == OpToRel(<, Nat)
  <1>1. FreeCopies \subseteq Nat
    BY ConsumerAssumption DEF FreeCopies, Copies
  <1>2. \E n \in FreeCopies : \A d \in FreeCopies : ~(<<d, n>> \in R)
    <2>. HIDE DEF R
    <2>1. IsWellFoundedOn(R, Nat)
      BY NatLessThanWellFounded DEF R
    <2>. QED
      BY <1>1, <2>1, WFMin
  <1>3. PICK n \in FreeCopies : \A d \in FreeCopies : ~(<<d, n>> \in R)
    BY <1>2
  <1>4. ASSUME NEW d \in FreeCopies PROVE n <= d
    <2>1. d \in Nat /\ n \in Nat
      BY <1>1
    <2>2. ~(d < n)
      BY <1>3, <2>1 DEF OpToRel
    <2>. QED
      BY <2>1, <2>2
  <1>. QED
    BY <1>4

\* The copy a handoff makes: a free one, of the same message, one retry older
\* when it is a retry.
LEMMA HandoffMakes ==
    ASSUME TypeOK, DeliveryInv, NEW c \in Copies, HandoffAccepted(c)
    PROVE  \E new \in Copies, made \in CopyType :
               /\ copy' = [copy EXCEPT ![new] = made]
               /\ copy[new].at = "free" /\ new # c /\ job[new].phase = "none"
               /\ made.of = copy[c].of /\ made.at \in {"ready", "dead"}
               /\ job[new].outcome # "pending"
PROOF
  <1>. DEFINE new == CHOOSE n \in FreeCopies : \A d \in FreeCopies : n <= d
              retry == job[c].plan = "retry"
              made == [of |-> copy[c].of, at |-> IF retry THEN "ready" ELSE "dead",
                       retries |-> copy[c].retries + IF retry THEN 1 ELSE 0]
  <1>1. new \in FreeCopies
    BY FirstFree DEF HandoffAccepted
  <1>. HIDE DEF new
  <1>2. new \in Copies /\ copy[new].at = "free"
    BY <1>1 DEF FreeCopies
  <1>3. copy[c].at # "free"
    BY DEF HandoffAccepted, DeliveryInv, DeliveryOk
  <1>4. job[new].phase = "none" /\ job[new].outcome # "pending"
    BY <1>2 DEF DeliveryInv, DeliveryOk
  <1>5. copy[c].retries + (IF retry THEN 1 ELSE 0) \in 0..RetryAttempts
    BY JobShape, ConsumerAssumption DEF HandoffAccepted, DeliveryInv,
       DeliveryOk, CopyType
  <1>6. made \in CopyType
    BY <1>5, JobShape DEF CopyType, CopyStates
  <1>7. copy' = [copy EXCEPT ![new] = made]
    BY DEF HandoffAccepted, new
  <1>8. made.of = copy[c].of /\ made.at \in {"ready", "dead"}
    OBVIOUS
  <1>. HIDE DEF made
  <1>. QED
    BY <1>2, <1>3, <1>4, <1>6, <1>7, <1>8

\* A settlement preserves the types.
LEMMA SettlementTypes ==
    ASSUME TypeOK, DeliveryInv, HolderInv, NEW c \in Copies, Settlement(c)
    PROVE  TypeOK'
PROOF
  <1>1. /\ handled' \subseteq Messages /\ faults' \in 0..MaxFaults
        /\ \/ HandoffAccepted(c)
           \/ \E j \in JobType : Moves(c, j)
           \/ \E written \in BOOLEAN, outcome \in OutcomeSet, result \in Results :
                  Ends(c, written, outcome, result)
    BY SettlementCases
  <1>2. ASSUME UNCHANGED settleFrame,
               job' \in [Copies -> JobType], copy' \in [Copies -> CopyType],
               receiver' \in ReceiverType, exits' \in [Results -> Nat]
        PROVE  TypeOK'
    BY <1>1, <1>2, TypeParts, TypePartsNext DEF settleFrame
  <1>3. CASE HandoffAccepted(c)
    <2>1. copy' \in [Copies -> CopyType]
      BY <1>3, HandoffMakes, TypeParts
    <2>2. job' \in [Copies -> JobType]
      BY <1>3, TypeParts DEF HandoffAccepted, JobType
    <2>. QED
      BY <1>2, <1>3, <2>1, <2>2, TypeParts DEF HandoffAccepted
  <1>4. ASSUME NEW j \in JobType, Moves(c, j) PROVE TypeOK'
    <2>1. job' \in [Copies -> JobType]
      BY <1>4, TypeParts DEF Moves
    <2>. QED
      BY <1>2, <1>4, <2>1, TypeParts DEF Moves
  <1>5. ASSUME NEW written \in BOOLEAN, NEW outcome \in OutcomeSet,
               NEW result \in Results, Ends(c, written, outcome, result)
        PROVE  TypeOK'
    <2>1. job[c].frames <= 1
      BY DEF DeliveryInv, DeliveryOk
    <2>. QED
      BY <1>2, <1>5, <2>1, EndJobTypes DEF Ends
  <1>. QED
    BY <1>1, <1>3, <1>4, <1>5

\* What Receive does with the delivery, by what admission finds in it.
LEMMA ReceiveCases ==
    ASSUME TypeOK, NEW c \in Copies, Receive(c)
    PROVE  \/ ReceiverReleases(c)
           \/ /\ ~RxClosed /\ Len(buffer) < BufferCapacity
              /\ buffer' = Append(buffer, c)
              /\ job' = [job EXCEPT ![c] = [NoJob EXCEPT !.phase = "buffered"]]
              /\ UNCHANGED receiver
           \/ /\ job' = [job EXCEPT ![c] = [NoJob EXCEPT !.phase = "buffered"]]
              /\ receiver' = [receiver EXCEPT !.at = "sending", !.cur = c]
              /\ UNCHANGED buffer
           \/ \E ph \in {"deadletter", "handoff"}, pl \in {"none", "dead"} :
              /\ job' = [job EXCEPT ![c] = [NoJob EXCEPT !.started = TRUE,
                                             !.phase = ph, !.plan = pl]]
              /\ receiver' = [receiver EXCEPT !.at = "settling", !.cur = c]
              /\ UNCHANGED buffer
PROOF
  <1>. DEFINE found == kind[copy[c].of]
  <1>1. CASE found = "valid" /\ RxClosed
    BY <1>1 DEF Receive
  <1>2. CASE found = "valid" /\ ~RxClosed /\ Len(buffer) < BufferCapacity
    BY <1>2 DEF Receive
  <1>3. CASE found = "valid" /\ ~RxClosed /\ Len(buffer) >= BufferCapacity
    BY <1>3 DEF Receive
  <1>4. CASE found # "valid"
    BY <1>4 DEF Receive
  <1>5. Len(buffer) \in Nat /\ BufferCapacity \in Nat
    BY TypeParts, ConsumerAssumption
  <1>. QED
    BY <1>1, <1>2, <1>3, <1>4, <1>5

\* Cancelling tokens leaves them Boolean.
LEMMA BooleanTokens ==
    ASSUME TypeOK
    PROVE  /\ StopTokens(g) \in TokenType /\ StopTokens(e) \in TokenType
           /\ [StopTokens(g) EXCEPT !.settlement = TRUE] \in TokenType
           /\ [StopTokens(e) EXCEPT !.settlement = TRUE] \in TokenType
           /\ NoTokens \in TokenType
           /\ \A token \in {"admission", "execution", "settlement", "force"} :
                  Cancelled(token) \in BOOLEAN
BY TypeParts DEF StopTokens, TokenType, NoTokens, Cancelled

\* The receiver's steps preserve the types.
LEMMA ReceiverTypes ==
    ASSUME TypeOK, DeliveryInv, HolderInv, Receiver
    PROVE  TypeOK'
PROOF
  <1>1. ASSUME UNCHANGED receiverFrame,
               copy' \in [Copies -> CopyType], job' \in [Copies -> JobType],
               receiver' \in ReceiverType,
               buffer' \in Seq(Copies), Len(buffer') <= BufferCapacity,
               g' \in TokenType, generation' \in GenerationType
        PROVE  TypeOK'
    BY <1>1, TypeParts, TypePartsNext DEF receiverFrame
  <1>2. ASSUME NEW c \in Copies, ReceiverReleases(c)
        PROVE  /\ job' \in [Copies -> JobType] /\ receiver' \in ReceiverType
               /\ buffer' = buffer
    <2>1. [NoJob EXCEPT !.outcome = "pending"] \in JobType
      BY NoJobType DEF JobType, NoJob, OutcomeSet
    <2>2. Cancelled("admission") \in BOOLEAN
      BY DEF Cancelled
    <2>. QED
      BY <1>2, <2>1, <2>2, TypeParts DEF ReceiverReleases, ReceiverType, Results
  <1>3. ASSUME NEW c \in Copies, Receive(c) PROVE TypeOK'
    <2>1. copy' \in [Copies -> CopyType]
      BY <1>3, TypeParts DEF Receive, CopyType, CopyStates
    <2>2. UNCHANGED <<g, generation, receiverFrame>>
      BY <1>3 DEF Receive
    <2>3. [NoJob EXCEPT !.phase = "buffered"] \in JobType
      BY NoJobType DEF JobType, NoJob
    <2>4. ASSUME NEW ph \in {"deadletter", "handoff"}, NEW pl \in {"none", "dead"}
          PROVE  [NoJob EXCEPT !.started = TRUE, !.phase = ph, !.plan = pl] \in JobType
      BY NoJobType DEF JobType, NoJob, Active, Operations
    <2>5. CASE ReceiverReleases(c)
      BY <1>1, <1>2, <2>1, <2>2, <2>5, TypeParts
    <2>6. CASE /\ ~RxClosed /\ Len(buffer) < BufferCapacity
               /\ buffer' = Append(buffer, c)
               /\ job' = [job EXCEPT ![c] = [NoJob EXCEPT !.phase = "buffered"]]
               /\ UNCHANGED receiver
      <3>1. buffer' \in Seq(Copies) /\ Len(buffer') <= BufferCapacity
        BY <2>6, TypeParts, ConsumerAssumption
      <3>2. job' \in [Copies -> JobType]
        BY <2>3, <2>6, TypeParts
      <3>. QED
        BY <1>1, <2>1, <2>2, <2>6, <3>1, <3>2, TypeParts
    <2>7. CASE /\ job' = [job EXCEPT ![c] = [NoJob EXCEPT !.phase = "buffered"]]
               /\ receiver' = [receiver EXCEPT !.at = "sending", !.cur = c]
               /\ UNCHANGED buffer
      <3>1. receiver' \in ReceiverType
        BY <2>7, TypeParts DEF ReceiverType
      <3>2. job' \in [Copies -> JobType]
        BY <2>3, <2>7, TypeParts
      <3>. QED
        BY <1>1, <2>1, <2>2, <2>7, <3>1, <3>2, TypeParts
    <2>8. ASSUME NEW ph \in {"deadletter", "handoff"}, NEW pl \in {"none", "dead"},
                 job' = [job EXCEPT ![c] = [NoJob EXCEPT !.started = TRUE,
                                              !.phase = ph, !.plan = pl]],
                 receiver' = [receiver EXCEPT !.at = "settling", !.cur = c],
                 UNCHANGED buffer
          PROVE  TypeOK'
      <3>1. receiver' \in ReceiverType
        BY <2>8, TypeParts DEF ReceiverType
      <3>2. job' \in [Copies -> JobType]
        BY <2>4, <2>8, TypeParts
      <3>. QED
        BY <1>1, <2>1, <2>2, <2>8, <3>1, <3>2, TypeParts
    <2>. QED
      BY <1>3, <2>5, <2>6, <2>7, <2>8, ReceiveCases
  <1>4. CASE ReceiverSends
    <2>1. receiver.cur \in Copies
      BY <1>4 DEF ReceiverSends, HolderInv
    <2>2. CASE ReceiverReleases(receiver.cur)
      BY <1>1, <1>2, <1>4, <2>1, <2>2, TypeParts DEF ReceiverSends
    <2>3. CASE /\ ~RxClosed /\ Len(buffer) < BufferCapacity
               /\ buffer' = Append(buffer, receiver.cur)
               /\ receiver' = [receiver EXCEPT !.at = "run", !.cur = NoCopy]
               /\ UNCHANGED job
      <3>1. buffer' \in Seq(Copies) /\ Len(buffer') <= BufferCapacity
        BY <2>1, <2>3, TypeParts, ConsumerAssumption
      <3>2. receiver' \in ReceiverType
        BY <2>3, TypeParts DEF ReceiverType
      <3>. QED
        BY <1>1, <1>4, <2>3, <3>1, <3>2, TypeParts DEF ReceiverSends
    <2>. QED
      BY <1>4, <2>2, <2>3 DEF ReceiverSends
  <1>5. CASE ReceiverStops
    <2>1. receiver' \in ReceiverType
      BY <1>5, TypeParts DEF ReceiverStops, ReceiverType, Results
    <2>. QED
      BY <1>1, <1>5, <2>1, TypeParts DEF ReceiverStops
  <1>6. CASE ReceiverLosesConsumer
    <2>1. receiver' \in ReceiverType
      BY <1>6, TypeParts DEF ReceiverLosesConsumer, ReceiverType, Results
    <2>2. generation' \in GenerationType
      BY <1>6, TypeParts DEF ReceiverLosesConsumer, GenerationType
    <2>3. g' \in TokenType
      BY <1>6, BooleanTokens DEF ReceiverLosesConsumer
    <2>. QED
      BY <1>1, <1>6, <2>1, <2>2, <2>3, TypeParts DEF ReceiverLosesConsumer
  <1>7. ASSUME NEW written \in BOOLEAN, ReceiverDropped(written) PROVE TypeOK'
    <2>. DEFINE c == receiver.cur
                j == [NoJob EXCEPT !.outcome = "unresolved",
                        !.frames = job[c].frames + IF written THEN 1 ELSE 0]
    <2>1. receiver' \in ReceiverType
      BY <1>7, TypeParts DEF ReceiverDropped, ReceiverType, Results
    <2>2. CASE c = NoCopy
      <3>1. ~written
        BY <1>7, <2>2, ConsumerAssumption DEF ReceiverDropped, HolderInv, NoCopy, Copies
      <3>. QED
        BY <1>1, <1>7, <2>1, <2>2, <3>1, TypeParts DEF ReceiverDropped
    <2>3. CASE c # NoCopy
      <3>1. c \in Copies
        BY <2>3, TypeParts DEF ReceiverType
      <3>2. job[c].frames + (IF written THEN 1 ELSE 0) \in 0..2
        BY <3>1, JobShape DEF JobType, DeliveryInv, DeliveryOk
      <3>3. j \in JobType
        BY <3>2, NoJobType DEF JobType, NoJob, OutcomeSet
      <3>4. job' \in [Copies -> JobType]
        BY <1>7, <2>3, <3>1, <3>3, TypeParts DEF ReceiverDropped
      <3>5. written => FrameOf[job[c].phase] \in Wire
        BY <1>7 DEF ReceiverDropped, FrameOf, Operations, Wire
      <3>6. copy' \in [Copies -> CopyType]
        BY <1>7, <3>1, <3>5, TypeParts DEF ReceiverDropped, CopyType, CopyStates
      <3>. QED
        BY <1>1, <1>7, <2>1, <3>4, <3>6, TypeParts DEF ReceiverDropped
    <2>. QED
      BY <2>2, <2>3
  <1>. QED
    BY <1>3, <1>4, <1>5, <1>6, <1>7 DEF Receiver

\* A job may be marked, released or started without leaving its type.
LEMMA JobUpdates ==
    ASSUME NEW j \in JobType
    PROVE  /\ \A b \in BOOLEAN : [j EXCEPT !.doomed = b] \in JobType
           /\ \A o \in OutcomeSet : [j EXCEPT !.phase = "none", !.outcome = o] \in JobType
           /\ [j EXCEPT !.phase = "handling", !.armed = TRUE] \in JobType
BY DEF JobType, Active

\* The budget of faults is respected.
LEMMA FaultType ==
    ASSUME TypeOK, Fault
    PROVE  faults' \in 0..MaxFaults
PROOF
  <1>1. faults \in 0..MaxFaults /\ MaxFaults \in Nat
    BY TypeParts, ConsumerAssumption
  <1>. QED
    BY <1>1 DEF Fault

\* The dispatcher's steps preserve the types.
LEMMA DispatcherTypes ==
    ASSUME TypeOK, Dispatcher \/ DispatcherPanics
    PROVE  TypeOK'
PROOF
  <1>1. ASSUME UNCHANGED dispatcherFrame, job' \in [Copies -> JobType],
               buffer' \in Seq(Copies), Len(buffer') <= BufferCapacity,
               dispatcher' \in DispatcherType, exits' \in [Results -> Nat],
               g' \in TokenType, faults' \in 0..MaxFaults
        PROVE  TypeOK'
    BY <1>1, TypeParts, TypePartsNext DEF dispatcherFrame
  <1>2. ASSUME NEW r \in Results, NEW f \in Results PROVE Retain(f, r) \in Results
    BY DEF Retain
  <1>3. ASSUME NEW r \in Results, DispatcherJoins(r) PROVE TypeOK'
    <2>1. exits' \in [Results -> Nat]
      BY <1>3, TypeParts DEF DispatcherJoins
    <2>2. dispatcher.failure \in Results
      BY TypeParts DEF DispatcherType
    <2>3. dispatcher' \in DispatcherType
      BY <1>2, <1>3, <2>2, TypeParts DEF DispatcherJoins, DispatcherType
    <2>. QED
      BY <1>1, <1>3, <2>1, <2>3, TypeParts DEF DispatcherJoins
  <1>4. CASE DispatcherReaped
    <2>1. dispatcher' \in DispatcherType
      BY <1>4, TypeParts DEF DispatcherReaped, DispatcherType
    <2>. QED
      BY <1>1, <1>4, <2>1, TypeParts DEF DispatcherReaped
  <1>5. CASE Dispatch
    <2>1. Head(buffer) \in Copies /\ buffer' \in Seq(Copies) /\ Len(buffer') <= BufferCapacity
      BY <1>5, TypeParts, ConsumerAssumption DEF Dispatch
    <2>2. job' \in [Copies -> JobType]
      <3>. DEFINE h == Head(buffer)
      <3>1. job' = [job EXCEPT ![h].phase = "handling", ![h].armed = TRUE]
        BY <1>5 DEF Dispatch
      <3>2. h \in Copies
        BY <2>1
      <3>. HIDE DEF h
      <3>3. job' = [job EXCEPT ![h] = [job[h] EXCEPT !.phase = "handling", !.armed = TRUE]]
        BY <3>1, <3>2, TypeParts
      <3>. QED
        BY <3>2, <3>3, JobUpdates, TypeParts
    <2>3. dispatcher' \in DispatcherType
      BY <1>5, TypeParts DEF Dispatch, DispatcherType
    <2>. QED
      BY <1>1, <1>5, <2>1, <2>2, <2>3, TypeParts DEF Dispatch
  <1>6. /\ <<>> \in Seq(Copies) /\ Len(<<>>) <= BufferCapacity
    BY ConsumerAssumption
  <1>7. CASE DispatcherBreaks
    <2>. DEFINE stopping == Cancelled("force") \/ dispatcher.failure # "ok"
    <2>1. job' \in [Copies -> JobType]
      <3>1. ASSUME NEW c \in Copies
            PROVE  [job[c] EXCEPT !.phase = "none", !.outcome = "pending"] \in JobType
        BY JobShape, JobUpdates DEF OutcomeSet
      <3>. QED
        BY <1>7, <3>1, TypeParts DEF DispatcherBreaks
    <2>2. dispatcher' = [dispatcher EXCEPT !.at = "finish", !.stopping = stopping]
          /\ g' = [g EXCEPT !.execution = @ \/ stopping]
      BY <1>7 DEF DispatcherBreaks
    <2>3. stopping \in BOOLEAN
      OBVIOUS
    <2>. HIDE DEF stopping
    <2>4. dispatcher' \in DispatcherType /\ g' \in TokenType
      BY <2>2, <2>3, TypeParts DEF DispatcherType, TokenType
    <2>. QED
      BY <1>1, <1>6, <1>7, <2>1, <2>4, TypeParts DEF DispatcherBreaks
  <1>8. ASSUME NEW r \in Results, FinishJoins(r) PROVE TypeOK'
    <2>. DEFINE failure == Retain(dispatcher.failure, r)
                stopping == dispatcher.stopping \/ failure # "ok"
    <2>1. exits' \in [Results -> Nat]
      BY <1>8, TypeParts DEF FinishJoins
    <2>2. failure \in Results /\ stopping \in BOOLEAN
      BY <1>2, TypeParts DEF DispatcherType
    <2>3. /\ dispatcher' = [dispatcher EXCEPT !.failure = failure, !.stopping = stopping]
          /\ g' = [g EXCEPT !.execution = @ \/ stopping]
      BY <1>8 DEF FinishJoins
    <2>. HIDE DEF failure, stopping
    <2>4. dispatcher' \in DispatcherType /\ g' \in TokenType
      BY <2>2, <2>3, TypeParts DEF DispatcherType, TokenType
    <2>. QED
      BY <1>1, <1>8, <2>1, <2>4, TypeParts DEF FinishJoins
  <1>9. CASE FinishObservesForce
    <2>1. dispatcher' \in DispatcherType /\ g' \in TokenType
      BY <1>9, TypeParts DEF FinishObservesForce, DispatcherType, TokenType
    <2>. QED
      BY <1>1, <1>9, <2>1, TypeParts DEF FinishObservesForce
  <1>10. CASE FinishDeadline
    <2>1. dispatcher' \in DispatcherType /\ g' \in TokenType
      BY <1>10, TypeParts DEF FinishDeadline, DispatcherType, TokenType
    <2>2. job' \in [Copies -> JobType]
      <3>1. ASSUME NEW c \in Copies
            PROVE  [job[c] EXCEPT !.doomed = c \in Running] \in JobType
        <4>. DEFINE b == c \in Running
        <4>1. b \in BOOLEAN
          OBVIOUS
        <4>. HIDE DEF b
        <4>2. [job[c] EXCEPT !.doomed = b] \in JobType
          BY <4>1, JobShape, JobUpdates
        <4>. QED
          BY <4>2 DEF b
      <3>. QED
        BY <1>10, <3>1 DEF FinishDeadline
    <2>. QED
      BY <1>1, <1>10, <2>1, <2>2, TypeParts DEF FinishDeadline
  <1>11. CASE DispatcherExits
    <2>1. Cancelled("admission") \in BOOLEAN
      BY DEF Cancelled
    <2>2. dispatcher' \in DispatcherType
      BY <1>11, <2>1, TypeParts DEF DispatcherExits, DispatcherType
    <2>. QED
      BY <1>1, <1>11, <2>2, TypeParts DEF DispatcherExits
  <1>12. CASE DispatcherPanics
    <2>1. dispatcher' \in DispatcherType
      BY <1>12, TypeParts DEF DispatcherPanics, DispatcherType
    <2>2. job' \in [Copies -> JobType]
      <3>1. ASSUME NEW c \in Copies
            PROVE  /\ [job[c] EXCEPT !.phase = "none", !.outcome = "unresolved"] \in JobType
                   /\ [job[c] EXCEPT !.doomed = c \in Running] \in JobType
        <4>. DEFINE b == c \in Running
        <4>1. b \in BOOLEAN
          OBVIOUS
        <4>. HIDE DEF b
        <4>2. [job[c] EXCEPT !.doomed = b] \in JobType
          BY <4>1, JobShape, JobUpdates
        <4>3. [job[c] EXCEPT !.phase = "none", !.outcome = "unresolved"] \in JobType
          BY JobShape, JobUpdates DEF OutcomeSet
        <4>. QED
          BY <4>2, <4>3 DEF b
      <3>. QED
        BY <1>12, <3>1 DEF DispatcherPanics
    <2>3. exits' \in [Results -> Nat]
      BY <1>12 DEF DispatcherPanics, NoExits
    <2>4. faults' \in 0..MaxFaults
      BY <1>12, FaultType DEF DispatcherPanics
    <2>. QED
      BY <1>1, <1>6, <1>12, <2>1, <2>2, <2>3, <2>4, TypeParts DEF DispatcherPanics
  <1>. QED
    BY <1>3, <1>4, <1>5, <1>7, <1>8, <1>9, <1>10, <1>11, <1>12 DEF Dispatcher

\* The supervisor's steps preserve the types.
LEMMA SupervisorTypes ==
    ASSUME TypeOK, Supervisor
    PROVE  TypeOK'
PROOF
  <1>1. ASSUME UNCHANGED superFrame, receiver' \in ReceiverType,
               dispatcher' \in DispatcherType, supervisor' \in SupervisorType,
               g' \in TokenType, e' \in TokenType, failed' \in BOOLEAN
        PROVE  TypeOK'
    BY <1>1, TypeParts, TypePartsNext DEF superFrame
  <1>2. ASSUME NEW child, NEW returned \in BOOLEAN, SupervisorJoins(child, returned)
        PROVE  /\ supervisor' \in SupervisorType /\ failed' \in BOOLEAN
               /\ g' \in TokenType /\ e' \in TokenType
    <2>1. supervisor' \in SupervisorType
      BY <1>2, TypeParts DEF SupervisorJoins, SupervisorType
    <2>2. g' \in TokenType /\ e' \in TokenType
      BY <1>2, TypeParts, BooleanTokens DEF SupervisorJoins
    <2>3. failed' \in BOOLEAN
      BY <1>2 DEF SupervisorJoins
    <2>. QED
      BY <2>1, <2>2, <2>3
  <1>3. CASE SupervisorObservesForce
    <2>1. supervisor' \in SupervisorType /\ g' \in TokenType
      BY <1>3, TypeParts DEF SupervisorObservesForce, SupervisorType, TokenType
    <2>2. receiver' \in ReceiverType
      <3>. DEFINE b == receiver.at \in {"run", "sending", "settling"}
      <3>1. receiver' = [receiver EXCEPT !.doomed = b] /\ b \in BOOLEAN
        BY <1>3 DEF SupervisorObservesForce
      <3>. HIDE DEF b
      <3>. QED
        BY <3>1, TypeParts DEF ReceiverType
    <2>. QED
      BY <1>1, <1>3, <2>1, <2>2, TypeParts DEF SupervisorObservesForce
  <1>4. CASE SupervisorObservesAdmission
    <2>1. supervisor' \in SupervisorType /\ g' \in TokenType
      BY <1>4, TypeParts DEF SupervisorObservesAdmission, SupervisorType, TokenType
    <2>. QED
      BY <1>1, <1>4, <2>1, TypeParts DEF SupervisorObservesAdmission
  <1>5. CASE JoinReceiver
    <2>1. receiver' \in ReceiverType
      BY <1>5 DEF JoinReceiver, NewReceiver, ReceiverType, Results
    <2>. QED
      BY <1>1, <1>2, <1>5, <2>1, TypeParts DEF JoinReceiver
  <1>6. CASE JoinDispatcher
    <2>1. dispatcher' \in DispatcherType
      BY <1>6 DEF JoinDispatcher, NewDispatcher, DispatcherType, Results
    <2>2. (dispatcher.exit # "panicked") \in BOOLEAN
      OBVIOUS
    <2>. QED
      BY <1>1, <1>2, <1>6, <2>1, <2>2, TypeParts DEF JoinDispatcher
  <1>. QED
    BY <1>3, <1>4, <1>5, <1>6 DEF Supervisor

\* The steps of the broker, the registration task and the drain preserve the
\* types.
LEMMA OtherTypes ==
    ASSUME TypeOK,
           \/ \E c \in Copies : BrokerSettles(c)
           \/ ConnectionLost \/ Registration
           \/ StopAdmission \/ ForceDrain \/ ForceTakesTokens \/ DrainEnds \/ UNCHANGED vars
    PROVE  TypeOK'
PROOF
  <1>1. ASSUME NEW at \in CopyStates PROVE After(at) \in CopyStates
    BY <1>1 DEF After, CopyStates, Wire
  <1>2. ASSUME NEW c \in Copies, BrokerSettles(c) PROVE TypeOK'
    <2>1. copy' \in [Copies -> CopyType]
      BY <1>1, <1>2, TypeParts DEF BrokerSettles, CopyType
    <2>. QED
      BY <1>2, <2>1, TypeParts, TypePartsNext DEF BrokerSettles, brokerFrame, pairVars
  <1>3. CASE ConnectionLost
    <2>1. copy' \in [Copies -> CopyType]
      BY <1>3, TypeParts DEF ConnectionLost, CopyType, CopyStates
    <2>2. faults' \in 0..MaxFaults
      BY <1>3, FaultType DEF ConnectionLost
    <2>. QED
      BY <1>3, <2>1, <2>2, TypeParts, TypePartsNext DEF ConnectionLost,
         brokerFrame, pairVars
  <1>4. ASSUME RegistrationFails
        PROVE  failed' \in BOOLEAN /\ e' \in TokenType /\ generation' \in GenerationType
    BY <1>4, TypeParts, BooleanTokens DEF RegistrationFails, GenerationType
  <1>5. ASSUME UNCHANGED <<buffer, exits, genFrame>>, UNCHANGED job,
               copy' \in [Copies -> CopyType], channel' \in {"open", "lost", "closed"},
               receiver' \in ReceiverType, dispatcher' \in DispatcherType,
               supervisor' \in SupervisorType, generation' \in GenerationType,
               g' \in TokenType, e' \in TokenType, failed' \in BOOLEAN,
               faults' \in 0..MaxFaults
        PROVE  TypeOK'
    BY <1>5, TypeParts, TypePartsNext DEF genFrame
  <1>6. [g EXCEPT !.settlement = TRUE] \in TokenType
    BY TypeParts DEF TokenType
  <1>7. CASE CloseGeneration
    <2>1. copy' \in [Copies -> CopyType]
      <3>1. ASSUME NEW c \in Copies
            PROVE  [copy[c] EXCEPT !.at = After(@)] \in CopyType
        BY <1>1, JobShape DEF CopyType
      <3>. QED
        BY <1>7, <3>1 DEF CloseGeneration
    <2>2. CASE supervisor.failure
      BY <1>4, <1>5, <1>6, <1>7, <2>1, <2>2, TypeParts DEF CloseGeneration, pairVars
    <2>3. CASE ~supervisor.failure
      <3>1. generation' \in GenerationType
        BY <1>7, <2>3, TypeParts DEF CloseGeneration, GenerationType
      <3>. QED
        BY <1>5, <1>6, <1>7, <2>1, <2>3, <3>1, TypeParts DEF CloseGeneration, pairVars
    <2>. QED
      BY <2>2, <2>3
  <1>8. CASE CloseUnproven
    <2>1. faults' \in 0..MaxFaults
      BY <1>8, FaultType, TypeParts DEF CloseUnproven
    <2>. QED
      BY <1>4, <1>5, <1>6, <1>8, <2>1, TypeParts DEF CloseUnproven, pairVars
  <1>9. CASE Reopen
    <2>1. /\ receiver' \in ReceiverType /\ dispatcher' \in DispatcherType
          /\ supervisor' \in SupervisorType
      BY <1>9 DEF Reopen, NewReceiver, NewDispatcher, NewSupervisor,
         ReceiverType, DispatcherType, SupervisorType, Results
    <2>2. generation' \in GenerationType
      BY <1>9, TypeParts, ConsumerAssumption DEF Reopen, GenerationType
    <2>. QED
      BY <1>5, <1>9, <2>1, <2>2, BooleanTokens, TypeParts DEF Reopen
  <1>10. CASE ReopenUnproven
    BY <1>4, <1>5, <1>10, TypeParts DEF ReopenUnproven, pairVars
  <1>11. CASE RecoveryStops
    <2>1. generation' \in GenerationType
      BY <1>11, TypeParts DEF RecoveryStops, GenerationType
    <2>. QED
      BY <1>5, <1>11, <2>1, TypeParts DEF RecoveryStops, pairVars
  <1>12. CASE StopAdmission \/ ForceDrain \/ ForceTakesTokens \/ DrainEnds
    <2>1. e' \in TokenType
      BY <1>12, TypeParts, BooleanTokens DEF StopAdmission, ForceDrain, ForceTakesTokens,
         DrainEnds, TokenType
    <2>2. /\ drain' \in {"idle", "draining", "taking", "forcing", "done"}
          /\ UNCHANGED engineFrame
      BY <1>12 DEF StopAdmission, ForceDrain, ForceTakesTokens, DrainEnds
    <2>3. reconciled' \in BOOLEAN
      BY <1>12, TypeParts DEF StopAdmission, ForceDrain, ForceTakesTokens, DrainEnds, SupervisorType
    <2>. QED
      BY <2>1, <2>2, <2>3, TypeParts, TypePartsNext DEF engineFrame, pairVars
  <1>13. CASE UNCHANGED vars
    BY <1>13, TypeParts, TypePartsNext DEF vars
  <1>. QED
    BY <1>2, <1>3, <1>7, <1>8, <1>9, <1>10, <1>11, <1>12, <1>13 DEF Registration

\* Every step preserves the types.
LEMMA TypeStep ==
    ASSUME TypeOK, DeliveryInv, HolderInv, [Next]_vars
    PROVE  TypeOK'
BY SettlementTypes, ReceiverTypes, DispatcherTypes, SupervisorTypes, OtherTypes DEF Next

-----------------------------------------------------------------------------
(* Deliveries                                                              *)

\* What the end of a delivery leaves of it and of its copy.
LEMMA EndsEffect ==
    ASSUME TypeOK, NEW c \in Copies, NEW written \in BOOLEAN,
           NEW outcome \in OutcomeSet, NEW result \in Results,
           Ends(c, written, outcome, result)
    PROVE  /\ job'[c].phase = "none" /\ job'[c].outcome = outcome
           /\ job'[c].frames = job[c].frames + (IF written THEN 1 ELSE 0)
           /\ ~job'[c].doomed
           /\ copy'[c].of = copy[c].of
           /\ ~written => copy' = copy
           /\ copy'[c].at = "acking" => copy[c].at = "acking" \/ job[c].phase = "ack"
           /\ copy'[c].at = "free" => copy[c].at = "free"
           /\ \A d \in Copies : d # c => job'[d] = job[d] /\ copy'[d] = copy[d]
PROOF
  <1>1. job' = [job EXCEPT ![c] = [NoJob EXCEPT !.outcome = outcome,
                  !.frames = job[c].frames + IF written THEN 1 ELSE 0]]
    BY DEF Ends, EndJob
  <1>2. /\ job'[c].phase = "none" /\ job'[c].outcome = outcome
        /\ job'[c].frames = job[c].frames + (IF written THEN 1 ELSE 0)
        /\ ~job'[c].doomed
        /\ \A d \in Copies : d # c => job'[d] = job[d]
    BY <1>1, TypeParts DEF NoJob
  <1>3. copy' = IF written /\ channel = "open"
                  THEN [copy EXCEPT ![c].at = FrameOf[job[c].phase]] ELSE copy
    BY DEF Ends, EndJob
  <1>4. written => /\ FrameOf[job[c].phase] \in Wire
                   /\ FrameOf[job[c].phase] = "acking" => job[c].phase = "ack"
    BY DEF Ends, FrameOf, Operations, Wire
  <1>5. CASE written /\ channel = "open"
    <2>1. copy' = [copy EXCEPT ![c].at = FrameOf[job[c].phase]]
      BY <1>3, <1>5
    <2>2. /\ copy'[c].of = copy[c].of /\ copy'[c].at = FrameOf[job[c].phase]
          /\ \A d \in Copies : d # c => copy'[d] = copy[d]
      BY <2>1, TypeParts DEF CopyType
    <2>. QED
      BY <1>2, <1>4, <1>5, <2>2 DEF Wire
  <1>6. CASE ~(written /\ channel = "open")
    BY <1>2, <1>3, <1>6
  <1>. QED
    BY <1>5, <1>6

\* A settlement writes one frame at most, and only for a delivery it holds.
LEMMA SettlementDelivery ==
    ASSUME TypeOK, DeliveryInv, HolderInv, NEW c \in Copies, Settlement(c)
    PROVE  DeliveryInv'
PROOF
  <1>1. CASE HandoffAccepted(c)
    <2>1. PICK new \in Copies, made \in CopyType :
              /\ copy' = [copy EXCEPT ![new] = made]
              /\ copy[new].at = "free" /\ new # c /\ job[new].phase = "none"
              /\ made.of = copy[c].of /\ made.at \in {"ready", "dead"}
              /\ job[new].outcome # "pending"
      BY <1>1, HandoffMakes
    <2>2. /\ job' = [job EXCEPT ![c].published = TRUE] /\ job[c].phase = "handoff"
          /\ channel' = channel
      BY <1>1 DEF HandoffAccepted, settleFrame
    <2>3. ASSUME NEW d \in Copies PROVE DeliveryOk(d)'
      <3>1. /\ job'[d].phase = job[d].phase /\ job'[d].outcome = job[d].outcome
            /\ job'[d].frames = job[d].frames /\ job'[d].plan = job[d].plan
            /\ job'[d].started = job[d].started
            /\ job'[d].published # job[d].published => job[d].phase = "handoff"
        BY <2>2, TypeParts DEF JobType
      <3>2. copy'[d] = copy[d] \/ d = new
        BY <2>1, TypeParts
      <3>. QED
        BY <2>1, <2>2, <3>1, <3>2 DEF DeliveryInv, DeliveryOk
    <2>. QED
      BY <2>3 DEF DeliveryInv
  <1>2. ASSUME NEW j \in JobType, Moves(c, j) PROVE DeliveryInv'
    <2>1. /\ job'[c] = j /\ \A d \in Copies : d # c => job'[d] = job[d]
          /\ UNCHANGED <<copy, channel>>
      BY <1>2, TypeParts DEF Moves, settleFrame
    <2>2. DeliveryOk(c)'
      BY <1>2, <2>1 DEF Moves, DeliveryInv, DeliveryOk, Operations
    <2>3. \A d \in Copies : d # c => DeliveryOk(d)'
      BY <2>1 DEF DeliveryInv, DeliveryOk
    <2>. QED
      BY <2>2, <2>3 DEF DeliveryInv
  <1>3. ASSUME NEW written \in BOOLEAN, NEW outcome \in OutcomeSet,
               NEW result \in Results, Ends(c, written, outcome, result)
        PROVE  DeliveryInv'
    <2>1. job[c].phase # "none" /\ channel' = channel
      BY <1>3 DEF Ends, Active, Operations, settleFrame
    <2>2. DeliveryOk(c)'
      <3>1. /\ job'[c].phase = "none" /\ job'[c].frames = IF written THEN 1 ELSE 0
            /\ job'[c].outcome = outcome
        BY <1>3, <2>1, EndsEffect, JobShape DEF DeliveryInv, DeliveryOk, JobType
      <3>2. outcome = "pending" => ~written /\ copy' = copy
        BY <1>3, EndsEffect DEF Ends
      <3>3. copy[c].at \in {"unacked", "ready"}
        BY <2>1 DEF DeliveryInv, DeliveryOk
      <3>. QED
        BY <3>1, <3>2, <3>3 DEF DeliveryOk, Operations
    <2>3. \A d \in Copies : d # c => DeliveryOk(d)'
      BY <1>3, <2>1, EndsEffect DEF DeliveryInv, DeliveryOk
    <2>. QED
      BY <2>2, <2>3 DEF DeliveryInv
  <1>. QED
    BY <1>1, <1>2, <1>3, SettlementCases

\* What Receive makes of a copy: a delivery that has done nothing yet, or one
\* released at once.
LEMMA ReceiveStarts ==
    ASSUME TypeOK, NEW c \in Copies, Receive(c)
    PROVE  \E j \in JobType :
               /\ job' = [job EXCEPT ![c] = j]
               /\ j.frames = 0 /\ j.plan # "retry" /\ ~j.published /\ ~j.doomed
               /\ j.phase # "none" => j.outcome = "none"
               /\ j.phase \in Operations => j.started
               /\ j.phase # "ack"
PROOF
  <1>1. CASE ReceiverReleases(c)
    <2>. DEFINE j == [NoJob EXCEPT !.outcome = "pending"]
    <2>1. job' = [job EXCEPT ![c] = j]
      BY <1>1 DEF ReceiverReleases
    <2>2. /\ j.frames = 0 /\ j.plan # "retry" /\ ~j.published /\ ~j.doomed
          /\ j.phase = "none"
      BY DEF NoJob
    <2>3. j \in JobType
      BY NoJobType DEF NoJob, JobType, OutcomeSet
    <2>. HIDE DEF j
    <2>. QED
      BY <2>1, <2>2, <2>3 DEF Operations
  <1>2. CASE job' = [job EXCEPT ![c] = [NoJob EXCEPT !.phase = "buffered"]]
    <2>. DEFINE j == [NoJob EXCEPT !.phase = "buffered"]
    <2>1. /\ j.frames = 0 /\ j.plan # "retry" /\ ~j.published /\ ~j.doomed
          /\ j.phase = "buffered" /\ j.outcome = "none"
      BY DEF NoJob
    <2>2. j \in JobType
      BY NoJobType DEF NoJob, JobType
    <2>3. job' = [job EXCEPT ![c] = j]
      BY <1>2
    <2>. HIDE DEF j
    <2>. QED
      BY <2>1, <2>2, <2>3 DEF Operations
  <1>3. ASSUME NEW ph \in {"deadletter", "handoff"}, NEW pl \in {"none", "dead"},
               job' = [job EXCEPT ![c] = [NoJob EXCEPT !.started = TRUE,
                                            !.phase = ph, !.plan = pl]]
        PROVE  \E j \in JobType :
               /\ job' = [job EXCEPT ![c] = j]
               /\ j.frames = 0 /\ j.plan # "retry" /\ ~j.published /\ ~j.doomed
               /\ j.phase # "none" => j.outcome = "none"
               /\ j.phase \in Operations => j.started
               /\ j.phase # "ack"
    <2>. DEFINE j == [NoJob EXCEPT !.started = TRUE, !.phase = ph, !.plan = pl]
    <2>1. /\ j.frames = 0 /\ j.plan # "retry" /\ ~j.published /\ ~j.doomed
          /\ j.phase # "ack" /\ j.outcome = "none" /\ j.started
      BY DEF NoJob
    <2>2. j \in JobType
      BY NoJobType DEF NoJob, JobType, Active, Operations
    <2>3. job' = [job EXCEPT ![c] = j]
      BY <1>3
    <2>. HIDE DEF j
    <2>. QED
      BY <2>1, <2>2, <2>3
  <1>. QED
    BY <1>1, <1>2, <1>3, ReceiveCases

\* A delivery that starts is of an unacked copy and has done nothing yet.
LEMMA ReceiverDelivery ==
    ASSUME TypeOK, DeliveryInv, HolderInv, Receiver
    PROVE  DeliveryInv'
PROOF
  <1>1. ASSUME NEW c \in Copies, Receive(c) PROVE DeliveryInv'
    <2>1. /\ copy' = [copy EXCEPT ![c].at = "unacked"]
          /\ channel = "open" /\ channel' = channel
      BY <1>1 DEF Receive, receiverFrame
    <2>2. PICK j \in JobType :
              /\ job' = [job EXCEPT ![c] = j]
              /\ j.frames = 0 /\ j.plan # "retry" /\ ~j.published
              /\ j.phase # "none" => j.outcome = "none"
              /\ j.phase \in Operations => j.started
      BY <1>1, ReceiveStarts
    <2>3. DeliveryOk(c)'
      BY <2>1, <2>2, TypeParts DEF DeliveryOk, CopyType
    <2>4. \A d \in Copies : d # c => job'[d] = job[d] /\ copy'[d] = copy[d]
      BY <2>1, <2>2, TypeParts
    <2>5. \A d \in Copies : d # c => DeliveryOk(d)'
      BY <2>1, <2>4 DEF DeliveryInv, DeliveryOk
    <2>. QED
      BY <2>3, <2>5 DEF DeliveryInv
  <1>2. CASE ReceiverSends
    <2>1. UNCHANGED <<copy, channel>> /\ receiver.cur \in Copies
      BY <1>2 DEF ReceiverSends, receiverFrame, HolderInv
    <2>2. CASE ReceiverReleases(receiver.cur)
      <3>. PICK c \in Copies : c = receiver.cur
        BY <2>1
      <3>1. /\ job'[c] = [NoJob EXCEPT !.outcome = "pending"]
            /\ \A d \in Copies : d # c => job'[d] = job[d]
        BY <2>1, <2>2, TypeParts DEF ReceiverReleases
      <3>2. copy[c].at \in {"unacked", "ready"}
        BY <1>2, <2>1 DEF ReceiverSends, HolderInv, DeliveryInv, DeliveryOk
      <3>3. DeliveryOk(c)'
        BY <2>1, <3>1, <3>2 DEF DeliveryOk, NoJob, Operations
      <3>4. \A d \in Copies : d # c => DeliveryOk(d)'
        BY <2>1, <3>1 DEF DeliveryInv, DeliveryOk
      <3>. QED
        BY <3>3, <3>4 DEF DeliveryInv
    <2>3. CASE UNCHANGED job
      BY <2>1, <2>3 DEF DeliveryInv, DeliveryOk
    <2>. QED
      BY <1>2, <2>2, <2>3 DEF ReceiverSends
  <1>3. CASE ReceiverStops \/ ReceiverLosesConsumer
    BY <1>3 DEF ReceiverStops, ReceiverLosesConsumer, receiverFrame,
       DeliveryInv, DeliveryOk
  <1>4. ASSUME NEW written \in BOOLEAN, ReceiverDropped(written) PROVE DeliveryInv'
    <2>1. channel' = channel
      BY <1>4 DEF ReceiverDropped, receiverFrame
    <2>2. CASE receiver.cur = NoCopy
      <3>1. UNCHANGED <<job, copy>>
        BY <1>4, <2>2, ConsumerAssumption DEF ReceiverDropped, HolderInv, NoCopy, Copies
      <3>. QED
        BY <2>1, <3>1 DEF DeliveryInv, DeliveryOk
    <2>3. CASE receiver.cur # NoCopy
      <3>0. PICK c \in Copies : c = receiver.cur
        BY <2>3, TypeParts DEF ReceiverType
      <3>1. job[c].phase # "none"
        BY <1>4, <2>3, <3>0 DEF ReceiverDropped, HolderInv, Operations
      <3>2. /\ job' = [job EXCEPT ![c] = [NoJob EXCEPT !.outcome = "unresolved",
                         !.frames = job[c].frames + IF written THEN 1 ELSE 0]]
            /\ \/ copy' = copy
               \/ copy' = [copy EXCEPT ![c].at = FrameOf[job[c].phase]]
        BY <1>4, <2>3, <3>0 DEF ReceiverDropped
      <3>3. job[c].frames = 0
        BY <3>1 DEF DeliveryInv, DeliveryOk
      <3>4. DeliveryOk(c)'
        <4>1. /\ job'[c].phase = "none" /\ job'[c].outcome = "unresolved"
              /\ job'[c].frames <= 1
          BY <3>2, <3>3, TypeParts DEF NoJob
        <4>. QED
          BY <4>1 DEF DeliveryOk, Operations
      <3>5. \A d \in Copies : d # c => job'[d] = job[d] /\ copy'[d] = copy[d]
        BY <3>1, <3>2, TypeParts
      <3>6. \A d \in Copies : d # c => DeliveryOk(d)'
        BY <2>1, <3>5 DEF DeliveryInv, DeliveryOk
      <3>. QED
        BY <3>4, <3>6 DEF DeliveryInv
    <2>. QED
      BY <2>2, <2>3
  <1>. QED
    BY <1>1, <1>2, <1>3, <1>4 DEF Receiver

\* The oldest buffered delivery is one the buffer holds.
LEMMA HeadBuffered ==
    ASSUME TypeOK, buffer # <<>>
    PROVE  Head(buffer) \in Copies /\ Head(buffer) \in Buffered
PROOF
  <1>1. buffer \in Seq(Copies)
    BY TypeParts
  <1>2. Len(buffer) \in Nat /\ Len(buffer) >= 1 /\ Head(buffer) = buffer[1]
    BY <1>1
  <1>. QED
    BY <1>1, <1>2 DEF Buffered

\* What Dispatch changes in the jobs.
LEMMA DispatchStarts ==
    ASSUME TypeOK, HolderInv, Dispatch
    PROVE  \E h \in Copies :
               /\ h = Head(buffer) /\ h \in Buffered /\ job[h].phase = "buffered"
               /\ job' = [job EXCEPT ![h] = [job[h] EXCEPT !.phase = "handling",
                                                            !.armed = TRUE]]
PROOF
  <1>1. PICK h \in Copies : h = Head(buffer)
    BY HeadBuffered DEF Dispatch
  <1>2. h \in Buffered /\ job[h].phase = "buffered"
    BY <1>1, HeadBuffered DEF Dispatch, HolderInv
  <1>3. job' = [job EXCEPT ![h].phase = "handling", ![h].armed = TRUE]
    BY <1>1 DEF Dispatch
  <1>4. job' = [job EXCEPT ![h] = [job[h] EXCEPT !.phase = "handling", !.armed = TRUE]]
    BY <1>3, TypeParts
  <1>. QED
    BY <1>1, <1>2, <1>4

\* What the steps that touch every job do to one of them: the buffered ones
\* are released, or the running ones are aborted.
LEMMA SweepEffect ==
    ASSUME TypeOK, FinishDeadline \/ DispatcherBreaks \/ DispatcherPanics,
           NEW c \in Copies
    PROVE  /\ job'[c].frames = job[c].frames /\ job'[c].plan = job[c].plan
           /\ job'[c].started = job[c].started
           /\ job'[c].published = job[c].published
           /\ job'[c].doomed => job[c].doomed \/ c \in Running
           /\ IF c \in Buffered /\ ~FinishDeadline
                THEN job'[c].phase = "none"
                ELSE job'[c].phase = job[c].phase /\ job'[c].outcome = job[c].outcome
PROOF
  <1>1. job[c] \in JobType
    BY JobShape
  <1>2. CASE FinishDeadline
    <2>1. job'[c] = [job[c] EXCEPT !.doomed = c \in Running]
      BY <1>2 DEF FinishDeadline
    <2>. QED
      BY <1>1, <1>2, <2>1 DEF JobType
  <1>3. CASE DispatcherBreaks /\ ~FinishDeadline
    <2>1. job'[c] = IF c \in Buffered
                      THEN [job[c] EXCEPT !.phase = "none", !.outcome = "pending"]
                      ELSE job[c]
      BY <1>3 DEF DispatcherBreaks
    <2>. QED
      BY <1>1, <1>3, <2>1 DEF JobType
  <1>4. CASE DispatcherPanics /\ ~FinishDeadline
    <2>1. job'[c] = IF c \in Buffered
                      THEN [job[c] EXCEPT !.phase = "none", !.outcome = "unresolved"]
                      ELSE [job[c] EXCEPT !.doomed = c \in Running]
      BY <1>4 DEF DispatcherPanics
    <2>. QED
      BY <1>1, <1>4, <2>1 DEF JobType
  <1>. QED
    BY <1>2, <1>3, <1>4

\* The dispatcher starts or releases deliveries and settles none.
LEMMA DispatcherDelivery ==
    ASSUME TypeOK, DeliveryInv, HolderInv, Dispatcher \/ DispatcherPanics
    PROVE  DeliveryInv'
PROOF
  <1>1. UNCHANGED <<copy, channel>>
    BY DEF Dispatcher, DispatcherJoins, FinishJoins, DispatcherReaped, Dispatch,
       DispatcherBreaks, FinishObservesForce, FinishDeadline, DispatcherExits,
       DispatcherPanics, dispatcherFrame
  <1>2. CASE UNCHANGED job
    BY <1>1, <1>2 DEF DeliveryInv, DeliveryOk
  <1>3. CASE Dispatch
    <2>1. PICK h \in Copies :
              /\ job[h].phase = "buffered"
              /\ job' = [job EXCEPT ![h] = [job[h] EXCEPT !.phase = "handling",
                                                           !.armed = TRUE]]
      BY <1>3, DispatchStarts
    <2>2. /\ job'[h].phase = "handling" /\ job'[h].frames = job[h].frames
          /\ job'[h].outcome = job[h].outcome /\ job'[h].plan = job[h].plan
          /\ job'[h].published = job[h].published
          /\ \A d \in Copies : d # h => job'[d] = job[d]
      BY <2>1, TypeParts DEF JobType
    <2>3. DeliveryOk(h)'
      BY <1>1, <2>1, <2>2 DEF DeliveryInv, DeliveryOk, Operations
    <2>4. \A d \in Copies : d # h => DeliveryOk(d)'
      BY <1>1, <2>2 DEF DeliveryInv, DeliveryOk
    <2>. QED
      BY <2>3, <2>4 DEF DeliveryInv
  <1>4. CASE FinishDeadline \/ DispatcherBreaks \/ DispatcherPanics
    <2>1. ASSUME NEW c \in Copies PROVE DeliveryOk(c)'
      <3>1. CASE c \in Buffered /\ ~FinishDeadline
        <4>1. job[c].frames = 0 /\ copy[c].at \in {"unacked", "ready"}
          BY <3>1 DEF HolderInv, DeliveryInv, DeliveryOk
        <4>2. job'[c].phase = "none" /\ job'[c].frames = job[c].frames
          BY <1>4, <3>1, SweepEffect
        <4>. QED
          BY <1>1, <4>1, <4>2 DEF DeliveryOk, Operations
      <3>2. CASE ~(c \in Buffered /\ ~FinishDeadline)
        BY <1>1, <1>4, <3>2, SweepEffect DEF DeliveryInv, DeliveryOk
      <3>. QED
        BY <3>1, <3>2
    <2>. QED
      BY <2>1 DEF DeliveryInv
  <1>. QED
    BY <1>2, <1>3, <1>4 DEF Dispatcher, DispatcherJoins, FinishJoins,
       DispatcherReaped, FinishObservesForce, DispatcherExits

\* A pair that is joined and proved its tasks joined holds no delivery.
LEMMA PairIsQuiet ==
    ASSUME TypeOK, HolderInv, QuietInv, supervisor.returned, receiver.at = "joined",
           NEW c \in Copies
    PROVE  job[c].phase = "none"
PROOF
  <1>1. dispatcher.at = "joined" /\ Running = {}
    BY DEF QuietInv
  <1>2. buffer = <<>>
    BY <1>1 DEF QuietInv, RxClosed
  <1>3. Buffered = {}
    BY <1>2 DEF Buffered
  <1>4. job[c].phase # "buffered"
    BY <1>3 DEF HolderInv
  <1>5. job[c].phase \notin Active
    BY <1>1 DEF Running, ReceiverOwns
  <1>. QED
    BY <1>4, <1>5, JobShape DEF JobType

\* The broker gives back what it has not settled; a new channel opens when
\* nothing is left of the old one.
LEMMA OtherDelivery ==
    ASSUME TypeOK, DeliveryInv, HolderInv, QuietInv,
           \/ \E c \in Copies : BrokerSettles(c)
           \/ ConnectionLost \/ Registration \/ Supervisor
           \/ StopAdmission \/ ForceDrain \/ ForceTakesTokens \/ DrainEnds \/ UNCHANGED vars
    PROVE  DeliveryInv'
PROOF
  <1>1. job' = job
    BY DEF BrokerSettles, ConnectionLost, Registration, CloseGeneration,
       CloseUnproven, Reopen, ReopenUnproven, RecoveryStops, Supervisor,
       SupervisorObservesForce, SupervisorObservesAdmission, JoinReceiver,
       JoinDispatcher, StopAdmission, ForceDrain, ForceTakesTokens, DrainEnds, brokerFrame,
       superFrame, engineFrame, vars
  <1>2. CASE UNCHANGED <<copy, channel>>
    BY <1>1, <1>2 DEF DeliveryInv, DeliveryOk
  <1>3. ASSUME NEW c \in Copies, BrokerSettles(c) PROVE DeliveryInv'
    <2>1. /\ channel' = channel /\ channel = "open" /\ copy[c].at \in Wire
          /\ \A d \in Copies : d # c => copy'[d] = copy[d]
      BY <1>3, TypeParts DEF BrokerSettles
    <2>2. job[c].phase = "none" /\ job[c].outcome # "pending"
      BY <2>1 DEF DeliveryInv, DeliveryOk, Wire
    <2>3. DeliveryOk(c)'
      BY <1>1, <2>2 DEF DeliveryInv, DeliveryOk
    <2>4. \A d \in Copies : d # c => DeliveryOk(d)'
      BY <1>1, <2>1 DEF DeliveryInv, DeliveryOk
    <2>. QED
      BY <2>3, <2>4 DEF DeliveryInv
  <1>4. CASE ConnectionLost
    <2>1. ASSUME NEW c \in Copies PROVE DeliveryOk(c)'
      <3>1. /\ channel = "open" /\ channel' = "lost"
            /\ copy'[c].at = IF copy[c].at \in Wire \union {"unacked"}
                                THEN "ready" ELSE copy[c].at
            /\ copy'[c].retries = copy[c].retries
        BY <1>4, JobShape DEF ConnectionLost, CopyType
      <3>. QED
        BY <1>1, <3>1 DEF DeliveryInv, DeliveryOk
    <2>. QED
      BY <2>1 DEF DeliveryInv
  <1>5. CASE CloseGeneration
    <2>1. supervisor.returned /\ receiver.at = "joined"
      BY <1>5 DEF CloseGeneration, PairRunning
    <2>2. ASSUME NEW c \in Copies PROVE DeliveryOk(c)'
      <3>1. job[c].phase = "none"
        BY <2>1, PairIsQuiet
      <3>2. copy'[c].at = After(copy[c].at)
        BY <1>5, JobShape DEF CloseGeneration, CopyType
      <3>. QED
        BY <1>1, <3>1, <3>2 DEF DeliveryInv, DeliveryOk, After, Operations
    <2>. QED
      BY <2>2 DEF DeliveryInv
  <1>6. CASE Reopen
    <2>1. supervisor.returned /\ receiver.at = "joined" /\ copy' = copy
      BY <1>6 DEF Reopen, QuietInv, PairRunning
    <2>2. ASSUME NEW c \in Copies PROVE DeliveryOk(c)'
      <3>1. job[c].phase = "none"
        BY <2>1, PairIsQuiet
      <3>. QED
        BY <1>1, <2>1, <3>1 DEF DeliveryInv, DeliveryOk, Operations
    <2>. QED
      BY <2>2 DEF DeliveryInv
  <1>. QED
    BY <1>2, <1>3, <1>4, <1>5, <1>6 DEF Registration, CloseUnproven,
       ReopenUnproven, RecoveryStops, Supervisor, SupervisorObservesForce,
       SupervisorObservesAdmission, JoinReceiver, JoinDispatcher,
       StopAdmission, ForceDrain, ForceTakesTokens, DrainEnds, superFrame, engineFrame, vars

\* Every step keeps the deliveries as the broker sees them.
LEMMA DeliveryStep ==
    ASSUME TypeOK, DeliveryInv, HolderInv, QuietInv, [Next]_vars
    PROVE  DeliveryInv'
BY SettlementDelivery, ReceiverDelivery, DispatcherDelivery, OtherDelivery DEF Next

-----------------------------------------------------------------------------
(* Who holds a delivery                                                    *)

\* What a send, a receive and a close do to the contents of the buffer.
LEMMA BufferSends ==
    ASSUME TypeOK, Distinct, NEW c \in Copies, c \notin Buffered,
           buffer' = Append(buffer, c)
    PROVE  Distinct' /\ Buffered' = Buffered \union {c}
PROOF
  <1>1. buffer \in Seq(Copies) /\ Len(buffer) \in Nat
    BY TypeParts
  <1>2. /\ Len(buffer') = Len(buffer) + 1 /\ buffer'[Len(buffer) + 1] = c
        /\ \A i \in 1..Len(buffer) : buffer'[i] = buffer[i]
    BY <1>1
  <1>3. \A i \in 1..Len(buffer) : buffer[i] # c
    BY DEF Buffered
  <1>4. Distinct'
    BY <1>1, <1>2, <1>3 DEF Distinct
  <1>5. ASSUME NEW x \in Buffered' PROVE x \in Buffered \union {c}
    <2>1. PICK i \in 1..Len(buffer') : x = buffer'[i]
      BY <1>5 DEF Buffered
    <2>2. i \in 1..Len(buffer) \/ i = Len(buffer) + 1
      BY <1>1, <1>2, <2>1
    <2>. QED
      BY <1>2, <2>1, <2>2 DEF Buffered
  <1>6. ASSUME NEW x \in Buffered PROVE x \in Buffered'
    <2>1. PICK i \in 1..Len(buffer) : x = buffer[i]
      BY <1>6 DEF Buffered
    <2>2. i \in 1..Len(buffer')
      BY <1>1, <1>2, <2>1
    <2>. QED
      BY <1>2, <2>1, <2>2 DEF Buffered
  <1>7. c \in Buffered'
    <2>1. Len(buffer) + 1 \in 1..Len(buffer')
      BY <1>1, <1>2
    <2>. QED
      BY <1>2, <2>1 DEF Buffered
  <1>. QED
    BY <1>4, <1>5, <1>6, <1>7

\* A receive takes the oldest delivery out.
LEMMA BufferReceives ==
    ASSUME TypeOK, Distinct, buffer # <<>>, buffer' = Tail(buffer)
    PROVE  Distinct' /\ Buffered' = Buffered \ {Head(buffer)}
PROOF
  <1>1. /\ buffer \in Seq(Copies) /\ Len(buffer) \in Nat /\ Len(buffer) >= 1
        /\ Head(buffer) = buffer[1]
    BY TypeParts
  <1>2. /\ Len(buffer') = Len(buffer) - 1
        /\ \A i \in 1..Len(buffer') : buffer'[i] = buffer[i + 1]
    BY <1>1
  <1>3. Distinct'
    <2>1. ASSUME NEW i \in 1..Len(buffer'), NEW k \in 1..Len(buffer'),
                 buffer'[i] = buffer'[k]
          PROVE  i = k
      <3>1. i + 1 \in 1..Len(buffer) /\ k + 1 \in 1..Len(buffer)
        BY <1>1, <1>2, <2>1
      <3>2. i + 1 = k + 1
        BY <1>2, <2>1, <3>1 DEF Distinct
      <3>. QED
        BY <3>2
    <2>. QED
      BY <2>1 DEF Distinct
  <1>4. ASSUME NEW x \in Buffered' PROVE x \in Buffered \ {Head(buffer)}
    <2>1. PICK i \in 1..Len(buffer') : x = buffer'[i]
      BY <1>4 DEF Buffered
    <2>2. i + 1 \in 1..Len(buffer) /\ 1 \in 1..Len(buffer) /\ i + 1 # 1
      BY <1>1, <1>2, <2>1
    <2>3. x = buffer[i + 1] /\ x # buffer[1]
      BY <1>2, <2>1, <2>2 DEF Distinct
    <2>. QED
      BY <1>1, <2>2, <2>3 DEF Buffered
  <1>5. ASSUME NEW x \in Buffered, x # Head(buffer) PROVE x \in Buffered'
    <2>1. PICK i \in 1..Len(buffer) : x = buffer[i]
      BY <1>5 DEF Buffered
    <2>2. i - 1 \in 1..Len(buffer') /\ (i - 1) + 1 = i
      BY <1>1, <1>2, <1>5, <2>1
    <2>. QED
      BY <1>2, <2>1, <2>2 DEF Buffered
  <1>. QED
    BY <1>3, <1>4, <1>5

\* A closed buffer is empty.
LEMMA BufferCloses ==
    ASSUME buffer' = <<>>
    PROVE  Distinct' /\ Buffered' = {}
BY DEF Distinct, Buffered

\* A buffer left alone holds what it held.
LEMMA BufferStays ==
    ASSUME UNCHANGED buffer
    PROVE  (Distinct' <=> Distinct) /\ Buffered' = Buffered
BY DEF Distinct, Buffered

\* Holders do not change with what is neither a phase nor a mark to abort.
LEMMA HolderFrame ==
    ASSUME TypeOK, HolderInv, UNCHANGED <<buffer, receiver>>,
           \A c \in Copies : /\ job'[c].phase = job[c].phase
                             /\ job'[c].doomed = job[c].doomed
    PROVE  HolderInv'
BY BufferStays DEF HolderInv, Running, ReceiverOwns

\* A settlement moves or ends a delivery whose task or receiver holds it.
LEMMA SettlementHolder ==
    ASSUME TypeOK, DeliveryInv, HolderInv, NEW c \in Copies, Settlement(c)
    PROVE  HolderInv'
PROOF
  <1>0. \A d \in Copies : d \in Buffered => job[d].phase \notin Active
    BY DEF HolderInv, Active, Operations
  <1>1. CASE HandoffAccepted(c)
    <2>1. \A d \in Copies : /\ job'[d].phase = job[d].phase
                            /\ job'[d].doomed = job[d].doomed
      BY <1>1, TypeParts DEF HandoffAccepted, JobType
    <2>. QED
      BY <1>1, <2>1, HolderFrame DEF HandoffAccepted, settleFrame
  <1>2. ASSUME NEW j \in JobType, Moves(c, j) PROVE HolderInv'
    <2>1. /\ job'[c].phase \in Operations /\ job'[c].doomed = job[c].doomed
          /\ job[c].phase \in Active
          /\ \A d \in Copies : d # c => job'[d] = job[d]
          /\ UNCHANGED <<buffer, receiver>>
      BY <1>2, TypeParts DEF Moves, settleFrame, Active, Operations
    <2>2. Distinct' /\ Buffered' = Buffered
      BY <2>1, BufferStays DEF HolderInv
    <2>3. job'[c].phase # "buffered" /\ job[c].phase # "buffered" /\ job'[c].phase \in Active
      BY <2>1 DEF Active, Operations
    <2>. QED
      BY <1>0, <2>1, <2>2, <2>3 DEF HolderInv, Running, ReceiverOwns
  <1>3. ASSUME NEW written \in BOOLEAN, NEW outcome \in OutcomeSet,
               NEW result \in Results, Ends(c, written, outcome, result)
        PROVE  HolderInv'
    <2>1. /\ job'[c].phase = "none" /\ ~job'[c].doomed
          /\ \A d \in Copies : d # c => job'[d] = job[d]
      BY <1>3, EndsEffect
    <2>2. job[c].phase \in Active /\ job[c].phase # "buffered" /\ UNCHANGED buffer
      BY <1>3 DEF Ends, settleFrame, Active, Operations
    <2>3. Distinct' /\ Buffered' = Buffered /\ c \notin Buffered
      BY <1>0, <2>2, BufferStays DEF HolderInv
    <2>4. CASE ReceiverOwns(c)
      <3>1. receiver'.at \in {"run", "exited"} /\ receiver'.cur = NoCopy
        BY <1>3, <2>4, TypeParts DEF Ends, EndJob, ReceiverType
      <3>2. receiver.at # "sending"
        BY <2>4 DEF ReceiverOwns
      <3>. QED
        BY <2>1, <2>2, <2>3, <3>1, <3>2 DEF HolderInv, Running, ReceiverOwns
    <2>5. CASE ~ReceiverOwns(c)
      <3>1. receiver' = receiver
        BY <1>3, <2>5 DEF Ends, EndJob
      <3>2. receiver.at \in {"sending", "settling"} => receiver.cur # c
        BY <2>2, <2>5 DEF HolderInv, ReceiverOwns
      <3>. QED
        BY <2>1, <2>2, <2>3, <3>1, <3>2 DEF HolderInv, Running, ReceiverOwns
    <2>. QED
      BY <2>4, <2>5
  <1>. QED
    BY <1>1, <1>2, <1>3, SettlementCases

\* The receiver gives up the delivery it holds, or holds none.
LEMMA ReceiverEnds ==
    ASSUME TypeOK, HolderInv, NEW c \in Copies, c \notin Buffered,
           receiver.at \in {"sending", "settling"} => receiver.cur = c,
           receiver'.at \in {"run", "exited"}, receiver'.cur = NoCopy,
           job'[c].phase = "none", ~job'[c].doomed,
           \A d \in Copies : d # c => job'[d] = job[d],
           UNCHANGED buffer
    PROVE  HolderInv'
PROOF
  <1>1. Distinct' /\ Buffered' = Buffered
    BY BufferStays DEF HolderInv
  <1>2. \A d \in Copies : d # c => ~ReceiverOwns(d) /\ ~ReceiverOwns(d)'
    BY DEF ReceiverOwns
  <1>3. \A d \in Copies : job'[d].doomed => d \in Running'
    BY <1>2 DEF HolderInv, Running
  <1>. QED
    BY <1>1, <1>3 DEF HolderInv

\* The receiver's steps keep the holders apart: it takes a delivery only from
\* a copy no one else in the process holds.
LEMMA ReceiverHolder ==
    ASSUME TypeOK, DeliveryInv, HolderInv, Receiver
    PROVE  HolderInv'
PROOF
  <1>1. ASSUME NEW c \in Copies, Receive(c) PROVE HolderInv'
    <2>1. /\ receiver.at = "run" /\ job[c].phase = "none"
      BY <1>1 DEF Receive, DeliveryInv, DeliveryOk
    <2>2. c \notin Buffered
      BY <2>1 DEF HolderInv
    <2>3. PICK j \in JobType : job' = [job EXCEPT ![c] = j] /\ ~j.doomed
      BY <1>1, ReceiveStarts
    <2>4. /\ ~job'[c].doomed /\ \A d \in Copies : d # c => job'[d] = job[d]
      BY <2>3, TypeParts
    <2>5. CASE ReceiverReleases(c)
      <3>1. receiver'.at = "exited" /\ receiver'.cur = NoCopy
        BY <2>5, TypeParts DEF ReceiverReleases, ReceiverType
      <3>2. job'[c].phase = "none" /\ UNCHANGED buffer
        BY <2>5, TypeParts DEF ReceiverReleases, NoJob
      <3>. QED
        BY <2>1, <2>2, <2>4, <3>1, <3>2, ReceiverEnds
    <2>6. CASE /\ ~RxClosed /\ Len(buffer) < BufferCapacity
               /\ buffer' = Append(buffer, c)
               /\ job' = [job EXCEPT ![c] = [NoJob EXCEPT !.phase = "buffered"]]
               /\ UNCHANGED receiver
      <3>1. Distinct' /\ Buffered' = Buffered \union {c}
        BY <2>2, <2>6, BufferSends DEF HolderInv
      <3>2. job'[c].phase = "buffered"
        BY <2>6, TypeParts DEF NoJob
      <3>3. \A d \in Copies : ~ReceiverOwns(d) /\ ~ReceiverOwns(d)'
        BY <2>1, <2>6 DEF ReceiverOwns
      <3>4. \A d \in Copies : job'[d].doomed => d \in Running'
        BY <2>4, <3>3 DEF HolderInv, Running
      <3>. QED
        BY <2>1, <2>4, <2>6, <3>1, <3>2, <3>4 DEF HolderInv
    <2>7. CASE /\ job' = [job EXCEPT ![c] = [NoJob EXCEPT !.phase = "buffered"]]
               /\ receiver' = [receiver EXCEPT !.at = "sending", !.cur = c]
               /\ UNCHANGED buffer
      <3>1. Distinct' /\ Buffered' = Buffered
        BY <2>7, BufferStays DEF HolderInv
      <3>2. job'[c].phase = "buffered"
        BY <2>7, TypeParts DEF NoJob
      <3>3. receiver'.at = "sending" /\ receiver'.cur = c
        BY <2>7, TypeParts DEF ReceiverType
      <3>4. \A d \in Copies : ~ReceiverOwns(d) /\ ~ReceiverOwns(d)'
        BY <2>1, <3>3 DEF ReceiverOwns
      <3>5. \A d \in Copies : job'[d].doomed => d \in Running'
        BY <2>4, <3>4 DEF HolderInv, Running
      <3>. QED
        BY <2>1, <2>2, <2>4, <3>1, <3>2, <3>3, <3>5 DEF HolderInv
    <2>8. ASSUME NEW ph \in {"deadletter", "handoff"}, NEW pl \in {"none", "dead"},
                 job' = [job EXCEPT ![c] = [NoJob EXCEPT !.started = TRUE,
                                              !.phase = ph, !.plan = pl]],
                 receiver' = [receiver EXCEPT !.at = "settling", !.cur = c],
                 UNCHANGED buffer
          PROVE  HolderInv'
      <3>1. Distinct' /\ Buffered' = Buffered
        BY <2>8, BufferStays DEF HolderInv
      <3>2. job'[c].phase = ph
        BY <2>8, TypeParts DEF NoJob
      <3>3. receiver'.at = "settling" /\ receiver'.cur = c
        BY <2>8, TypeParts DEF ReceiverType
      <3>4. \A d \in Copies : d # c => ~ReceiverOwns(d) /\ ~ReceiverOwns(d)'
        BY <2>1, <3>3 DEF ReceiverOwns
      <3>5. \A d \in Copies : job'[d].doomed => d \in Running'
        BY <2>4, <3>4 DEF HolderInv, Running
      <3>. QED
        BY <2>1, <2>2, <2>4, <3>1, <3>2, <3>3, <3>5 DEF HolderInv, Operations
    <2>. QED
      BY <1>1, <2>5, <2>6, <2>7, <2>8, ReceiveCases
  <1>2. CASE ReceiverSends
    <2>1. PICK c \in Copies : c = receiver.cur
      BY <1>2 DEF ReceiverSends, HolderInv
    <2>2. receiver.at = "sending" /\ job[c].phase = "buffered" /\ c \notin Buffered
      BY <1>2, <2>1 DEF ReceiverSends, HolderInv
    <2>3. CASE ReceiverReleases(receiver.cur)
      <3>1. receiver'.at = "exited" /\ receiver'.cur = NoCopy
        BY <2>3, TypeParts DEF ReceiverReleases, ReceiverType
      <3>2. /\ job'[c].phase = "none" /\ ~job'[c].doomed /\ UNCHANGED buffer
            /\ \A d \in Copies : d # c => job'[d] = job[d]
        BY <2>1, <2>3, TypeParts DEF ReceiverReleases, NoJob
      <3>. QED
        BY <2>1, <2>2, <3>1, <3>2, ReceiverEnds
    <2>4. CASE /\ buffer' = Append(buffer, receiver.cur)
               /\ receiver' = [receiver EXCEPT !.at = "run", !.cur = NoCopy]
               /\ UNCHANGED job
      <3>1. buffer' = Append(buffer, c)
        BY <2>1, <2>4
      <3>2. Distinct' /\ Buffered' = Buffered \union {c}
        BY <2>2, <3>1, BufferSends DEF HolderInv
      <3>3. receiver'.at = "run" /\ receiver'.cur = NoCopy
        BY <2>4, TypeParts DEF ReceiverType
      <3>4. \A d \in Copies : ~ReceiverOwns(d) /\ ~ReceiverOwns(d)'
        BY <2>2, <3>3 DEF ReceiverOwns
      <3>5. \A d \in Copies : job'[d].doomed => d \in Running'
        BY <2>4, <3>4 DEF HolderInv, Running
      <3>. QED
        BY <2>1, <2>2, <2>4, <3>2, <3>3, <3>5 DEF HolderInv
    <2>. QED
      BY <1>2, <2>3, <2>4 DEF ReceiverSends
  <1>3. CASE ReceiverStops \/ ReceiverLosesConsumer
    <2>1. UNCHANGED <<buffer, job>> /\ receiver.at = "run"
      BY <1>3 DEF ReceiverStops, ReceiverLosesConsumer
    <2>2. receiver'.at = "exited" /\ receiver'.cur = receiver.cur
      BY <1>3, TypeParts DEF ReceiverStops, ReceiverLosesConsumer, ReceiverType
    <2>3. Distinct' /\ Buffered' = Buffered
      BY <2>1, BufferStays DEF HolderInv
    <2>4. \A d \in Copies : ~ReceiverOwns(d) /\ ~ReceiverOwns(d)'
      BY <2>1, <2>2 DEF ReceiverOwns
    <2>5. \A d \in Copies : job'[d].doomed => d \in Running'
      BY <2>1, <2>4 DEF HolderInv, Running
    <2>. QED
      BY <2>1, <2>2, <2>3, <2>5 DEF HolderInv
  <1>4. ASSUME NEW written \in BOOLEAN, ReceiverDropped(written) PROVE HolderInv'
    <2>1. receiver'.at = "exited" /\ receiver'.cur = NoCopy /\ UNCHANGED buffer
      BY <1>4, TypeParts DEF ReceiverDropped, ReceiverType
    <2>2. CASE receiver.cur = NoCopy
      <3>1. receiver.at = "run" /\ UNCHANGED job
        BY <1>4, <2>2, ConsumerAssumption DEF ReceiverDropped, HolderInv, NoCopy, Copies
      <3>2. Distinct' /\ Buffered' = Buffered
        BY <2>1, BufferStays DEF HolderInv
      <3>3. \A d \in Copies : ~ReceiverOwns(d) /\ ~ReceiverOwns(d)'
        BY <2>1, <3>1 DEF ReceiverOwns
      <3>4. \A d \in Copies : job'[d].doomed => d \in Running'
        BY <3>1, <3>3 DEF HolderInv, Running
      <3>. QED
        BY <2>1, <3>1, <3>2, <3>4 DEF HolderInv
    <2>3. CASE receiver.cur # NoCopy
      <3>0. PICK c \in Copies : c = receiver.cur
        BY <2>3, TypeParts DEF ReceiverType
      <3>1. job' = [job EXCEPT ![c] = [NoJob EXCEPT !.outcome = "unresolved",
                         !.frames = job[c].frames + IF written THEN 1 ELSE 0]]
        BY <1>4, <2>3, <3>0 DEF ReceiverDropped
      <3>2. /\ job'[c].phase = "none" /\ ~job'[c].doomed
            /\ \A d \in Copies : d # c => job'[d] = job[d]
        BY <3>1, TypeParts DEF NoJob
      <3>3. c \notin Buffered
        BY <1>4, <2>3, <3>0 DEF ReceiverDropped, HolderInv, Operations
      <3>. QED
        BY <2>1, <3>0, <3>2, <3>3, ReceiverEnds
    <2>. QED
      BY <2>2, <2>3
  <1>. QED
    BY <1>1, <1>2, <1>3, <1>4 DEF Receiver

\* The dispatcher takes its deliveries from the buffer, or empties it; the
\* delivery a receiver is sending is not there.
LEMMA DispatcherHolder ==
    ASSUME TypeOK, HolderInv, Dispatcher \/ DispatcherPanics
    PROVE  HolderInv'
PROOF
  <1>1. UNCHANGED receiver
    BY DEF Dispatcher, DispatcherJoins, FinishJoins, DispatcherReaped, Dispatch,
       DispatcherBreaks, FinishObservesForce, FinishDeadline, DispatcherExits,
       DispatcherPanics, dispatcherFrame
  <1>2. \A d \in Copies : ReceiverOwns(d)' = ReceiverOwns(d)
    BY <1>1 DEF ReceiverOwns
  <1>3. CASE UNCHANGED <<job, buffer>>
    BY <1>1, <1>3, HolderFrame
  <1>4. CASE Dispatch
    <2>1. PICK h \in Copies :
              /\ h = Head(buffer) /\ h \in Buffered /\ job[h].phase = "buffered"
              /\ job' = [job EXCEPT ![h] = [job[h] EXCEPT !.phase = "handling",
                                                           !.armed = TRUE]]
      BY <1>4, DispatchStarts
    <2>2. Distinct' /\ Buffered' = Buffered \ {h}
      BY <1>4, <2>1, BufferReceives DEF Dispatch, HolderInv
    <2>3. /\ job'[h].phase = "handling" /\ job'[h].doomed = job[h].doomed
          /\ \A d \in Copies : d # h => job'[d] = job[d]
      BY <2>1, TypeParts DEF JobType
    <2>4. \A d \in Copies : job'[d].doomed => d \in Running'
      BY <1>2, <2>1, <2>3 DEF HolderInv, Running, Active, Operations
    <2>5. receiver.at \in {"sending", "settling"} => receiver.cur # h
      BY <2>1 DEF HolderInv, Operations
    <2>. QED
      BY <1>1, <2>1, <2>2, <2>3, <2>4, <2>5 DEF HolderInv
  <1>5. CASE FinishDeadline
    <2>1. UNCHANGED buffer
      BY <1>5 DEF FinishDeadline
    <2>2. Distinct' /\ Buffered' = Buffered
      BY <2>1, BufferStays DEF HolderInv
    <2>3. \A d \in Copies : /\ job'[d].phase = job[d].phase
                            /\ job'[d].doomed => d \in Running
      BY <1>5, SweepEffect DEF HolderInv
    <2>4. \A d \in Copies : job'[d].doomed => d \in Running'
      BY <1>2, <2>3 DEF Running
    <2>. QED
      BY <1>1, <2>2, <2>3, <2>4 DEF HolderInv
  <1>6. CASE (DispatcherBreaks \/ DispatcherPanics) /\ ~FinishDeadline
    <2>1. Distinct' /\ Buffered' = {}
      BY <1>6, BufferCloses DEF DispatcherBreaks, DispatcherPanics
    <2>2. \A d \in Copies : d \notin Buffered => job'[d].phase = job[d].phase
      BY <1>6, SweepEffect
    <2>3. \A d \in Copies : d \in Buffered => job'[d].phase = "none"
      BY <1>6, SweepEffect
    <2>4. \A d \in Copies : job'[d].doomed => d \in Running
      BY <1>6, SweepEffect DEF HolderInv
    <2>5. \A d \in Copies : d \in Running => d \notin Buffered
      BY DEF HolderInv, Running, Active, Operations
    <2>6. \A d \in Copies : job'[d].doomed => d \in Running'
      BY <1>2, <2>2, <2>4, <2>5 DEF Running
    <2>7. receiver.at \in {"sending", "settling"} => receiver.cur \notin Buffered
      BY DEF HolderInv, Operations
    <2>. QED
      BY <1>1, <2>1, <2>2, <2>3, <2>6, <2>7 DEF HolderInv
  <1>. QED
    BY <1>3, <1>4, <1>5, <1>6 DEF Dispatcher, DispatcherJoins, FinishJoins,
       DispatcherReaped, FinishObservesForce, DispatcherExits

\* The other steps move no delivery; a receiver is joined, and replaced by
\* one of the next generation, only when it holds none.
LEMMA OtherHolder ==
    ASSUME TypeOK, HolderInv, QuietInv,
           \/ \E c \in Copies : BrokerSettles(c)
           \/ ConnectionLost \/ Registration \/ Supervisor
           \/ StopAdmission \/ ForceDrain \/ ForceTakesTokens \/ DrainEnds \/ UNCHANGED vars
    PROVE  HolderInv'
PROOF
  <1>1. UNCHANGED <<job, buffer>>
    BY DEF BrokerSettles, ConnectionLost, Registration, CloseGeneration,
       CloseUnproven, Reopen, ReopenUnproven, RecoveryStops, Supervisor,
       SupervisorObservesForce, SupervisorObservesAdmission, JoinReceiver,
       JoinDispatcher, StopAdmission, ForceDrain, ForceTakesTokens, DrainEnds, brokerFrame,
       superFrame, engineFrame, vars
  <1>2. CASE UNCHANGED receiver
    BY <1>1, <1>2, HolderFrame
  <1>3. Distinct' /\ Buffered' = Buffered
    BY <1>1, BufferStays DEF HolderInv
  <1>4. CASE SupervisorObservesForce
    <2>1. receiver'.at = receiver.at /\ receiver'.cur = receiver.cur
      BY <1>4, TypeParts DEF SupervisorObservesForce, ReceiverType
    <2>. QED
      BY <1>1, <1>3, <2>1 DEF HolderInv, Running, ReceiverOwns
  <1>5. CASE JoinReceiver \/ Reopen
    <2>1. receiver.at \in {"exited", "joined"}
      BY <1>5 DEF JoinReceiver, Reopen, QuietInv, PairRunning
    <2>2. receiver' = NewReceiver \/ receiver' = [NewReceiver EXCEPT !.at = "joined"]
      BY <1>5 DEF JoinReceiver, Reopen
    <2>3. receiver'.at \in {"run", "joined"} /\ receiver'.cur = NoCopy
      BY <2>2 DEF NewReceiver
    <2>. QED
      BY <1>1, <1>3, <2>1, <2>3 DEF HolderInv, Running, ReceiverOwns
  <1>. QED
    BY <1>2, <1>4, <1>5 DEF BrokerSettles, ConnectionLost, Registration,
       CloseGeneration, CloseUnproven, ReopenUnproven, RecoveryStops,
       Supervisor, SupervisorObservesAdmission, JoinDispatcher, StopAdmission,
       ForceDrain, ForceTakesTokens, DrainEnds, brokerFrame, engineFrame, pairVars, vars

\* Every step keeps the holders apart.
LEMMA HolderStep ==
    ASSUME TypeOK, DeliveryInv, HolderInv, QuietInv, [Next]_vars
    PROVE  HolderInv'
BY SettlementHolder, ReceiverHolder, DispatcherHolder, OtherHolder DEF Next

-----------------------------------------------------------------------------
(* Quiet pairs                                                             *)

\* A step that starts no task, sends to no closed buffer and leaves the pair
\* and its supervisor where they are keeps what was quiet so.
LEMMA QuietFrame ==
    ASSUME TypeOK, QuietInv, Running' \subseteq Running,
           RxClosed => UNCHANGED buffer,
           receiver.at = "joined" => receiver'.at = "joined",
           generation'.at = generation.at,
           UNCHANGED <<dispatcher, supervisor, reconciled>>
    PROVE  QuietInv'
BY DEF QuietInv, RxClosed, PairRunning

\* The end of a delivery starts no task.
LEMMA SettlementQuiet ==
    ASSUME TypeOK, DeliveryInv, HolderInv, QuietInv, NEW c \in Copies, Settlement(c)
    PROVE  QuietInv'
PROOF
  <1>1. CASE HandoffAccepted(c)
    <2>1. \A d \in Copies : job'[d].phase = job[d].phase
      BY <1>1, TypeParts DEF HandoffAccepted, JobType
    <2>2. Running' \subseteq Running
      BY <1>1, <2>1 DEF HandoffAccepted, Running, ReceiverOwns
    <2>. QED
      BY <1>1, <2>2, QuietFrame DEF HandoffAccepted, settleFrame
  <1>2. ASSUME NEW j \in JobType, Moves(c, j) PROVE QuietInv'
    <2>1. job[c].phase \in Active /\ \A d \in Copies : d # c => job'[d] = job[d]
      BY <1>2, TypeParts DEF Moves, Active, Operations
    <2>2. Running' \subseteq Running
      BY <1>2, <2>1 DEF Moves, Running, ReceiverOwns
    <2>. QED
      BY <1>2, <2>2, QuietFrame DEF Moves, settleFrame
  <1>3. ASSUME NEW written \in BOOLEAN, NEW outcome \in OutcomeSet,
               NEW result \in Results, Ends(c, written, outcome, result)
        PROVE  QuietInv'
    <2>1. /\ job'[c].phase = "none"
          /\ \A d \in Copies : d # c => job'[d] = job[d]
      BY <1>3, EndsEffect
    <2>2. \A d \in Copies : d # c /\ ReceiverOwns(d) => ReceiverOwns(d)'
      BY <1>3 DEF Ends, EndJob, ReceiverOwns
    <2>3. Running' \subseteq Running
      BY <2>1, <2>2 DEF Running, Active, Operations
    <2>4. receiver.at = "joined" => receiver'.at = "joined"
      BY <1>3 DEF Ends, EndJob, ReceiverOwns
    <2>. QED
      BY <1>3, <2>3, <2>4, QuietFrame DEF Ends, settleFrame
  <1>. QED
    BY <1>1, <1>2, <1>3, SettlementCases

\* The receiver starts no task: what it settles it settles itself.
LEMMA ReceiverQuiet ==
    ASSUME TypeOK, DeliveryInv, HolderInv, QuietInv, Receiver
    PROVE  QuietInv'
PROOF
  <1>1. /\ receiver.at # "joined" /\ generation'.at = generation.at
        /\ UNCHANGED <<dispatcher, supervisor, reconciled>>
    BY TypeParts DEF Receiver, Receive, ReceiverSends, ReceiverStops,
       ReceiverLosesConsumer, ReceiverDropped, receiverFrame, GenerationType
  <1>2. ASSUME Running' \subseteq Running, RxClosed => UNCHANGED buffer
        PROVE  QuietInv'
    BY <1>1, <1>2, QuietFrame
  <1>3. ASSUME NEW c \in Copies, Receive(c) PROVE QuietInv'
    <2>1. /\ receiver.at = "run" /\ \A d \in Copies : ~ReceiverOwns(d)
      BY <1>3 DEF Receive, ReceiverOwns
    <2>2. \A d \in Copies : d # c => job'[d] = job[d]
      BY <1>3, ReceiveStarts, TypeParts
    <2>3. c \notin Running'
      <3>1. CASE ReceiverReleases(c)
        BY <3>1, TypeParts DEF ReceiverReleases, NoJob, Running, Active, Operations
      <3>2. CASE job' = [job EXCEPT ![c] = [NoJob EXCEPT !.phase = "buffered"]]
        BY <3>2, TypeParts DEF NoJob, Running, Active, Operations
      <3>3. CASE receiver' = [receiver EXCEPT !.at = "settling", !.cur = c]
        <4>1. receiver'.at = "settling" /\ receiver'.cur = c
          BY <3>3, TypeParts DEF ReceiverType
        <4>. QED
          BY <4>1 DEF Running, ReceiverOwns
      <3>. QED
        BY <1>3, <3>1, <3>2, <3>3, ReceiveCases
    <2>4. Running' \subseteq Running
      BY <2>1, <2>2, <2>3 DEF Running
    <2>5. RxClosed => UNCHANGED buffer
      BY <1>3, ReceiveCases DEF ReceiverReleases
    <2>. QED
      BY <1>2, <2>4, <2>5
  <1>4. CASE ReceiverSends
    <2>1. PICK c \in Copies : c = receiver.cur
      BY <1>4 DEF ReceiverSends, HolderInv
    <2>2. \A d \in Copies : ~ReceiverOwns(d)
      BY <1>4 DEF ReceiverSends, ReceiverOwns
    <2>3. \A d \in Copies : job'[d] = job[d] \/ job'[d].phase = "none"
      BY <1>4, <2>1, TypeParts DEF ReceiverSends, ReceiverReleases, NoJob
    <2>4. Running' \subseteq Running
      BY <2>2, <2>3 DEF Running, Active, Operations
    <2>5. RxClosed => UNCHANGED buffer
      BY <1>4 DEF ReceiverSends, ReceiverReleases
    <2>. QED
      BY <1>2, <2>4, <2>5
  <1>5. CASE ReceiverStops \/ ReceiverLosesConsumer
    <2>1. /\ UNCHANGED <<job, buffer>>
          /\ \A d \in Copies : ~ReceiverOwns(d)
      BY <1>5 DEF ReceiverStops, ReceiverLosesConsumer, ReceiverOwns
    <2>2. Running' \subseteq Running
      BY <2>1 DEF Running
    <2>. QED
      BY <1>2, <2>1, <2>2
  <1>6. ASSUME NEW written \in BOOLEAN, ReceiverDropped(written) PROVE QuietInv'
    <2>1. UNCHANGED buffer
      BY <1>6 DEF ReceiverDropped
    <2>2. ASSUME NEW d \in Copies, d \in Running' PROVE d \in Running
      <3>1. CASE d = receiver.cur
        <4>1. d # NoCopy
          BY ConsumerAssumption DEF Copies, NoCopy
        <4>2. job' = [job EXCEPT ![d] = [NoJob EXCEPT !.outcome = "unresolved",
                         !.frames = job[d].frames + IF written THEN 1 ELSE 0]]
          BY <1>6, <3>1, <4>1 DEF ReceiverDropped
        <4>3. job'[d].phase = "none"
          BY <4>2, TypeParts DEF NoJob
        <4>. QED
          BY <2>2, <4>3 DEF Running, Active, Operations
      <3>2. CASE d # receiver.cur
        <4>1. job'[d] = job[d] /\ ~ReceiverOwns(d)
          BY <1>6, <3>2, TypeParts DEF ReceiverDropped, ReceiverOwns
        <4>. QED
          BY <2>2, <4>1 DEF Running
      <3>. QED
        BY <3>1, <3>2
    <2>3. Running' \subseteq Running
      BY <2>2 DEF Running
    <2>. QED
      BY <1>2, <2>1, <2>3
  <1>. QED
    BY <1>3, <1>4, <1>5, <1>6 DEF Receiver

\* The dispatcher closes the buffer empty, and returns without a task.
LEMMA DispatcherQuiet ==
    ASSUME TypeOK, QuietInv, Dispatcher \/ DispatcherPanics
    PROVE  QuietInv'
PROOF
  <1>1. /\ dispatcher.at \in {"reap", "select", "finish"}
        /\ UNCHANGED <<receiver, supervisor, generation, reconciled>>
    BY DEF Dispatcher, DispatcherJoins, FinishJoins, DispatcherReaped, Dispatch,
       DispatcherBreaks, FinishObservesForce, FinishDeadline, DispatcherExits,
       DispatcherPanics, dispatcherFrame
  <1>2. ~supervisor.returned /\ generation.at = "running" /\ ~reconciled
    BY <1>1, TypeParts DEF QuietInv, PairRunning, GenerationType
  <1>3. ASSUME RxClosed' => buffer' = <<>>,
               dispatcher'.at # "exited" \/ dispatcher'.exit = "panicked" \/ Running' = {}
        PROVE  QuietInv'
    BY <1>1, <1>2, <1>3 DEF QuietInv
  <1>4. CASE Dispatch \/ DispatcherReaped \/ \E r \in Results : DispatcherJoins(r)
    <2>1. dispatcher'.at \in {"reap", "select"}
      BY <1>4, TypeParts DEF Dispatch, DispatcherReaped, DispatcherJoins, DispatcherType
    <2>. QED
      BY <1>3, <2>1 DEF RxClosed
  <1>5. CASE DispatcherBreaks \/ DispatcherPanics
    <2>1. /\ buffer' = <<>>
          /\ dispatcher'.at = "finish" \/ dispatcher'.exit = "panicked"
      BY <1>5, TypeParts DEF DispatcherBreaks, DispatcherPanics, DispatcherType
    <2>. QED
      BY <1>3, <2>1
  <1>6. CASE FinishObservesForce \/ FinishDeadline \/ \E r \in Results : FinishJoins(r)
    <2>1. /\ dispatcher.at = "finish" /\ UNCHANGED buffer
          /\ dispatcher'.at = dispatcher.at
      BY <1>6, TypeParts DEF FinishObservesForce, FinishDeadline, FinishJoins,
         DispatcherType
    <2>2. buffer = <<>>
      BY <2>1 DEF QuietInv, RxClosed
    <2>. QED
      BY <1>3, <2>1, <2>2
  <1>7. CASE DispatcherExits
    <2>1. dispatcher.at = "finish" /\ Running = {} /\ UNCHANGED <<buffer, job>>
      BY <1>7 DEF DispatcherExits
    <2>2. Running' = Running
      BY <1>1, <2>1 DEF Running, ReceiverOwns
    <2>3. buffer = <<>>
      BY <2>1 DEF QuietInv, RxClosed
    <2>. QED
      BY <1>3, <2>1, <2>2, <2>3
  <1>. QED
    BY <1>4, <1>5, <1>6, <1>7 DEF Dispatcher

\* The supervisor says a dispatcher returned only of one that did.
LEMMA SupervisorQuiet ==
    ASSUME TypeOK, QuietInv, Supervisor
    PROVE  QuietInv'
PROOF
  <1>1. UNCHANGED <<job, buffer, generation, reconciled>>
    BY DEF Supervisor, SupervisorObservesForce, SupervisorObservesAdmission,
       JoinReceiver, JoinDispatcher, superFrame
  <1>2. CASE SupervisorObservesForce \/ SupervisorObservesAdmission
    <2>1. /\ receiver'.at = receiver.at /\ receiver'.cur = receiver.cur
          /\ supervisor'.returned = supervisor.returned /\ UNCHANGED dispatcher
      BY <1>2, TypeParts DEF SupervisorObservesForce, SupervisorObservesAdmission,
         ReceiverType, SupervisorType
    <2>2. Running' = Running
      BY <1>1, <2>1 DEF Running, ReceiverOwns
    <2>. QED
      BY <1>1, <2>1, <2>2 DEF QuietInv, RxClosed, PairRunning
  <1>3. CASE JoinReceiver
    <2>1. /\ receiver.at = "exited" /\ receiver'.at = "joined" /\ UNCHANGED dispatcher
      BY <1>3 DEF JoinReceiver, NewReceiver
    <2>2. supervisor'.returned = supervisor.returned
      BY <1>3, TypeParts DEF JoinReceiver, SupervisorJoins, SupervisorType
    <2>3. Running' = Running
      BY <1>1, <2>1 DEF Running, ReceiverOwns
    <2>. QED
      BY <1>1, <2>1, <2>2, <2>3 DEF QuietInv, RxClosed, PairRunning
  <1>4. CASE JoinDispatcher
    <2>1. /\ dispatcher.at = "exited" /\ dispatcher'.at = "joined" /\ UNCHANGED receiver
      BY <1>4 DEF JoinDispatcher, NewDispatcher
    <2>2. supervisor'.returned => supervisor.returned \/ dispatcher.exit # "panicked"
      BY <1>4, TypeParts DEF JoinDispatcher, SupervisorJoins, SupervisorType
    <2>3. Running' = Running
      BY <1>1, <2>1 DEF Running, ReceiverOwns
    <2>4. generation.at = "running"
      BY <2>1, TypeParts DEF QuietInv, PairRunning, GenerationType
    <2>5. buffer = <<>> /\ ~supervisor.returned
      BY <2>1 DEF QuietInv, RxClosed
    <2>. QED
      BY <1>1, <2>1, <2>2, <2>3, <2>4, <2>5 DEF QuietInv
  <1>. QED
    BY <1>2, <1>3, <1>4 DEF Supervisor

\* A generation ends with its pair joined, and waits to be followed by
\* another only when the tasks were.
LEMMA RegistrationQuiet ==
    ASSUME TypeOK, QuietInv, Registration
    PROVE  QuietInv'
PROOF
  <1>1. UNCHANGED <<job, buffer, reconciled>>
    BY DEF Registration, CloseGeneration, CloseUnproven, Reopen, ReopenUnproven,
       RecoveryStops, genFrame
  <1>2. generation.at \in {"running", "waiting"} /\ ~reconciled
    BY DEF Registration, CloseGeneration, CloseUnproven, Reopen, ReopenUnproven,
       RecoveryStops, QuietInv
  <1>3. CASE CloseGeneration
    <2>1. /\ ~PairRunning /\ supervisor.returned
          /\ UNCHANGED <<receiver, dispatcher, supervisor>>
      BY <1>3 DEF CloseGeneration, pairVars
    <2>2. Running' = Running
      BY <1>1, <2>1 DEF Running, ReceiverOwns
    <2>. QED
      BY <1>1, <1>2, <2>1, <2>2 DEF QuietInv, RxClosed, PairRunning
  <1>4. CASE CloseUnproven \/ ReopenUnproven \/ RecoveryStops
    <2>1. /\ ~PairRunning /\ generation'.at = "ended"
          /\ UNCHANGED <<receiver, dispatcher, supervisor>>
      BY <1>2, <1>4, TypeParts DEF CloseUnproven, ReopenUnproven, RecoveryStops,
         RegistrationFails, pairVars, GenerationType, QuietInv
    <2>2. Running' = Running
      BY <1>1, <2>1 DEF Running, ReceiverOwns
    <2>. QED
      BY <1>1, <1>2, <2>1, <2>2 DEF QuietInv, RxClosed, PairRunning
  <1>5. CASE Reopen
    <2>1. /\ dispatcher'.at = "reap" /\ ~supervisor'.returned
          /\ generation'.at = "running"
      BY <1>5 DEF Reopen, NewDispatcher, NewSupervisor
    <2>. QED
      BY <1>1, <1>2, <2>1 DEF QuietInv, RxClosed
  <1>. QED
    BY <1>3, <1>4, <1>5 DEF Registration

\* Every step keeps what was quiet so, until a new generation opens.
LEMMA QuietStep ==
    ASSUME TypeOK, DeliveryInv, HolderInv, QuietInv, [Next]_vars
    PROVE  QuietInv'
PROOF
  <1>1. ASSUME UNCHANGED <<job, buffer, receiver, dispatcher, supervisor, generation>>,
               reconciled' => reconciled \/ (generation.at = "ended" /\ supervisor.returned)
        PROVE  QuietInv'
    <2>1. Running' = Running
      BY <1>1 DEF Running, ReceiverOwns
    <2>. QED
      BY <1>1, <2>1 DEF QuietInv, RxClosed, PairRunning
  <1>2. ASSUME NEW c \in Copies, BrokerSettles(c) PROVE QuietInv'
    BY <1>1, <1>2 DEF BrokerSettles, brokerFrame, pairVars
  <1>3. CASE ConnectionLost \/ StopAdmission \/ ForceDrain \/ ForceTakesTokens \/ UNCHANGED vars
    BY <1>1, <1>3 DEF ConnectionLost, StopAdmission, ForceDrain, ForceTakesTokens, brokerFrame,
       engineFrame, pairVars, vars
  <1>4. CASE DrainEnds
    BY <1>1, <1>4 DEF DrainEnds, engineFrame, pairVars
  <1>. QED
    BY <1>2, <1>3, <1>4, SettlementQuiet, ReceiverQuiet, DispatcherQuiet,
       SupervisorQuiet, RegistrationQuiet DEF Next

-----------------------------------------------------------------------------
(* Kept messages                                                           *)

\* A copy may stop staying only when its message is handled or another copy
\* of it stays.
LEMMA KeptFrame ==
    ASSUME TypeOK, KeptInv, handled \subseteq handled',
           \A c \in Copies : Stays(c) =>
               \/ copy[c].of \in handled'
               \/ \E d \in Copies : copy'[d].of = copy[c].of /\ Stays(d)'
    PROVE  KeptInv'
PROOF
  <1>. SUFFICES ASSUME NEW m \in Messages, m \notin handled'
                PROVE  \E d \in Copies : copy'[d].of = m /\ Stays(d)'
    BY DEF KeptInv
  <1>1. PICK c \in Copies : copy[c].of = m /\ Stays(c)
    BY DEF KeptInv
  <1>. QED
    BY <1>1

\* The original of a handoff goes only after its replacement has come; of the
\* other deliveries only a handled one is acknowledged.
LEMMA SettlementKept ==
    ASSUME TypeOK, DeliveryInv, HolderInv, KeptInv, NEW c \in Copies, Settlement(c)
    PROVE  KeptInv'
PROOF
  <1>0. handled \subseteq handled'
    BY SettlementCases
  <1>1. CASE HandoffAccepted(c)
    <2>1. PICK new \in Copies, made \in CopyType :
              /\ copy' = [copy EXCEPT ![new] = made]
              /\ copy[new].at = "free" /\ new # c /\ job[new].phase = "none"
              /\ made.of = copy[c].of /\ made.at \in {"ready", "dead"}
      BY <1>1, HandoffMakes
    <2>2. job' = [job EXCEPT ![c].published = TRUE]
      BY <1>1 DEF HandoffAccepted
    <2>3. /\ copy'[new] = made
          /\ \A d \in Copies : d # new => copy'[d] = copy[d]
          /\ \A d \in Copies : d # c => job'[d] = job[d]
      BY <2>1, <2>2, TypeParts
    <2>4. copy'[new].of = copy[c].of /\ Stays(new)'
      BY <2>1, <2>3 DEF Stays, Leaving
    <2>5. ASSUME NEW d \in Copies, d # c, Stays(d)
          PROVE  copy'[d].of = copy[d].of /\ Stays(d)'
      BY <2>1, <2>3, <2>5 DEF Stays, Leaving
    <2>. QED
      BY <1>0, <2>4, <2>5, KeptFrame
  <1>2. ASSUME NEW j \in JobType, Moves(c, j) PROVE KeptInv'
    <2>1. /\ copy' = copy /\ job'[c] = j
          /\ \A d \in Copies : d # c => job'[d] = job[d]
      BY <1>2, TypeParts DEF Moves
    <2>2. Stays(c) => copy[c].of \in handled' \/ Stays(c)'
      BY <1>2, <2>1 DEF Moves, Stays, Leaving
    <2>3. \A d \in Copies : d # c /\ Stays(d) => Stays(d)'
      BY <2>1 DEF Stays, Leaving
    <2>. QED
      BY <1>0, <2>1, <2>2, <2>3, KeptFrame
  <1>3. ASSUME NEW written \in BOOLEAN, NEW outcome \in OutcomeSet,
               NEW result \in Results, Ends(c, written, outcome, result)
        PROVE  KeptInv'
    <2>1. /\ job'[c].phase = "none" /\ copy'[c].of = copy[c].of
          /\ copy'[c].at = "acking" => copy[c].at = "acking" \/ job[c].phase = "ack"
          /\ copy'[c].at = "free" => copy[c].at = "free"
          /\ \A d \in Copies : d # c => job'[d] = job[d] /\ copy'[d] = copy[d]
      BY <1>3, EndsEffect
    <2>2. Stays(c) => Stays(c)'
      BY <2>1 DEF Stays, Leaving
    <2>3. \A d \in Copies : d # c /\ Stays(d) => Stays(d)'
      BY <2>1 DEF Stays, Leaving
    <2>. QED
      BY <1>0, <2>1, <2>2, <2>3, KeptFrame
  <1>. QED
    BY <1>1, <1>2, <1>3, SettlementCases

\* A new delivery keeps its copy; the one an aborted receiver drops was about
\* to be acknowledged if its frame was an ack.
LEMMA ReceiverKept ==
    ASSUME TypeOK, DeliveryInv, HolderInv, KeptInv, Receiver
    PROVE  KeptInv'
PROOF
  <1>0. handled' = handled
    BY DEF Receiver, Receive, ReceiverSends, ReceiverStops,
       ReceiverLosesConsumer, ReceiverDropped, receiverFrame
  <1>1. ASSUME NEW c \in Copies, Receive(c) PROVE KeptInv'
    <2>1. copy' = [copy EXCEPT ![c].at = "unacked"]
      BY <1>1 DEF Receive
    <2>2. PICK j \in JobType : job' = [job EXCEPT ![c] = j] /\ ~j.published /\ j.phase # "ack"
      BY <1>1, ReceiveStarts
    <2>3. /\ copy'[c].of = copy[c].of /\ copy'[c].at = "unacked" /\ job'[c] = j
          /\ \A d \in Copies : d # c => job'[d] = job[d] /\ copy'[d] = copy[d]
      BY <2>1, <2>2, TypeParts DEF CopyType
    <2>4. Stays(c)'
      BY <2>2, <2>3 DEF Stays, Leaving
    <2>5. \A d \in Copies : d # c /\ Stays(d) => Stays(d)'
      BY <2>3 DEF Stays, Leaving
    <2>. QED
      BY <1>0, <2>3, <2>4, <2>5, KeptFrame
  <1>2. CASE ReceiverSends \/ ReceiverStops \/ ReceiverLosesConsumer
    <2>1. copy' = copy
      BY <1>2 DEF ReceiverSends, ReceiverStops, ReceiverLosesConsumer
    <2>2. \A d \in Copies : job'[d] = job[d] \/ job'[d].phase = "none"
      <3>1. CASE ReceiverSends
        <4>1. PICK c \in Copies : c = receiver.cur
          BY <3>1 DEF ReceiverSends, HolderInv
        <4>. QED
          BY <3>1, <4>1, TypeParts DEF ReceiverSends, ReceiverReleases, NoJob
      <3>. QED
        BY <1>2, <3>1 DEF ReceiverStops, ReceiverLosesConsumer
    <2>3. \A d \in Copies : Stays(d) => Stays(d)'
      BY <2>1, <2>2 DEF Stays, Leaving
    <2>. QED
      BY <1>0, <2>1, <2>3, KeptFrame
  <1>3. ASSUME NEW written \in BOOLEAN, ReceiverDropped(written) PROVE KeptInv'
    <2>1. CASE receiver.cur = NoCopy
      <3>1. UNCHANGED <<job, copy>>
        BY <1>3, <2>1, ConsumerAssumption DEF ReceiverDropped, HolderInv, NoCopy, Copies
      <3>. QED
        BY <1>0, <3>1 DEF KeptInv, Stays, Leaving
    <2>2. CASE receiver.cur # NoCopy
      <3>0. PICK c \in Copies : c = receiver.cur
        BY <2>2, TypeParts DEF ReceiverType
      <3>1. /\ job' = [job EXCEPT ![c] = [NoJob EXCEPT !.outcome = "unresolved",
                         !.frames = job[c].frames + IF written THEN 1 ELSE 0]]
            /\ \/ copy' = copy
               \/ /\ written
                  /\ copy' = [copy EXCEPT ![c].at = FrameOf[job[c].phase]]
        BY <1>3, <2>2, <3>0 DEF ReceiverDropped
      <3>2. written => /\ FrameOf[job[c].phase] \in Wire
                       /\ FrameOf[job[c].phase] = "acking" => job[c].phase = "ack"
        BY <1>3, <3>0 DEF ReceiverDropped, FrameOf, Operations, Wire
      <3>3. /\ job'[c].phase = "none" /\ copy'[c].of = copy[c].of
            /\ copy'[c].at = copy[c].at \/ (written /\ copy'[c].at = FrameOf[job[c].phase])
            /\ \A d \in Copies : d # c => job'[d] = job[d] /\ copy'[d] = copy[d]
        BY <3>1, TypeParts DEF NoJob, CopyType
      <3>4. Stays(c) => Stays(c)'
        BY <3>2, <3>3 DEF Stays, Leaving, Wire
      <3>5. \A d \in Copies : d # c /\ Stays(d) => Stays(d)'
        BY <3>3 DEF Stays, Leaving
      <3>. QED
        BY <1>0, <3>3, <3>4, <3>5, KeptFrame
    <2>. QED
      BY <2>1, <2>2
  <1>. QED
    BY <1>1, <1>2, <1>3 DEF Receiver

\* A started handler and a released or aborted delivery acknowledge nothing.
LEMMA DispatcherKept ==
    ASSUME TypeOK, DeliveryInv, HolderInv, KeptInv, Dispatcher \/ DispatcherPanics
    PROVE  KeptInv'
PROOF
  <1>1. UNCHANGED <<copy, handled>>
    BY DEF Dispatcher, DispatcherJoins, FinishJoins, DispatcherReaped, Dispatch,
       DispatcherBreaks, FinishObservesForce, FinishDeadline, DispatcherExits,
       DispatcherPanics, dispatcherFrame
  <1>2. ASSUME \A d \in Copies : Leaving(d)' => Leaving(d) PROVE KeptInv'
    <2>1. \A d \in Copies : Stays(d) => Stays(d)'
      BY <1>1, <1>2 DEF Stays
    <2>. QED
      BY <1>1, <2>1, KeptFrame
  <1>3. CASE UNCHANGED job
    BY <1>2, <1>3 DEF Leaving
  <1>4. CASE Dispatch
    <2>1. PICK h \in Copies :
              job' = [job EXCEPT ![h] = [job[h] EXCEPT !.phase = "handling",
                                                        !.armed = TRUE]]
      BY <1>4, DispatchStarts
    <2>2. \A d \in Copies : job'[d] = job[d] \/ job'[d].phase = "handling"
      BY <2>1, TypeParts DEF JobType
    <2>. QED
      BY <1>2, <2>2 DEF Leaving
  <1>5. CASE FinishDeadline \/ DispatcherBreaks \/ DispatcherPanics
    <2>1. \A d \in Copies : /\ job'[d].published = job[d].published
                            /\ job'[d].phase \in {job[d].phase, "none"}
      BY <1>5, SweepEffect
    <2>. QED
      BY <1>2, <2>1 DEF Leaving
  <1>. QED
    BY <1>3, <1>4, <1>5 DEF Dispatcher, DispatcherJoins, FinishJoins,
       DispatcherReaped, FinishObservesForce, DispatcherExits

\* The broker frees only what was acknowledged.
LEMMA OtherKept ==
    ASSUME TypeOK, KeptInv,
           \/ \E c \in Copies : BrokerSettles(c)
           \/ ConnectionLost \/ Registration \/ Supervisor
           \/ StopAdmission \/ ForceDrain \/ ForceTakesTokens \/ DrainEnds \/ UNCHANGED vars
    PROVE  KeptInv'
PROOF
  <1>1. UNCHANGED <<job, handled>>
    BY DEF BrokerSettles, ConnectionLost, Registration, CloseGeneration,
       CloseUnproven, Reopen, ReopenUnproven, RecoveryStops, Supervisor,
       SupervisorObservesForce, SupervisorObservesAdmission, JoinReceiver,
       JoinDispatcher, StopAdmission, ForceDrain, ForceTakesTokens, DrainEnds, brokerFrame,
       genFrame, superFrame, engineFrame, vars
  <1>2. CASE UNCHANGED copy
    BY <1>1, <1>2 DEF KeptInv, Stays, Leaving
  <1>3. ASSUME \A d \in Copies : /\ copy'[d].of = copy[d].of
                                 /\ copy'[d].at \in {copy[d].at, After(copy[d].at), "ready"}
        PROVE  KeptInv'
    <2>1. ASSUME NEW d \in Copies, Stays(d) PROVE Stays(d)'
      <3>1. After(copy[d].at) \notin {"free", "acking"}
        BY <2>1, JobShape DEF Stays, After, CopyType, CopyStates, Wire
      <3>. QED
        BY <1>1, <1>3, <2>1, <3>1 DEF Stays, Leaving
    <2>. QED
      BY <1>1, <1>3, <2>1, KeptFrame
  <1>4. ASSUME NEW c \in Copies, BrokerSettles(c) PROVE KeptInv'
    <2>1. \A d \in Copies : /\ copy'[d].of = copy[d].of
                            /\ copy'[d].at \in {copy[d].at, After(copy[d].at)}
      BY <1>4, TypeParts DEF BrokerSettles, CopyType
    <2>. QED
      BY <1>3, <2>1
  <1>5. CASE ConnectionLost
    <2>1. \A d \in Copies : /\ copy'[d].of = copy[d].of
                            /\ copy'[d].at \in {copy[d].at, "ready"}
      BY <1>5, TypeParts DEF ConnectionLost, CopyType
    <2>. QED
      BY <1>3, <2>1
  <1>6. CASE CloseGeneration
    <2>1. \A d \in Copies : /\ copy'[d].of = copy[d].of
                            /\ copy'[d].at = After(copy[d].at)
      BY <1>6, TypeParts DEF CloseGeneration, CopyType
    <2>. QED
      BY <1>3, <2>1
  <1>. QED
    BY <1>2, <1>4, <1>5, <1>6 DEF Registration, CloseUnproven, Reopen,
       ReopenUnproven, RecoveryStops, Supervisor, SupervisorObservesForce,
       SupervisorObservesAdmission, JoinReceiver, JoinDispatcher,
       StopAdmission, ForceDrain, ForceTakesTokens, DrainEnds, superFrame, engineFrame, vars

\* No step loses a message.
LEMMA KeptStep ==
    ASSUME TypeOK, DeliveryInv, HolderInv, KeptInv, [Next]_vars
    PROVE  KeptInv'
BY SettlementKept, ReceiverKept, DispatcherKept, OtherKept DEF Next

-----------------------------------------------------------------------------
(* The theorems                                                            *)

\* The initial states satisfy the invariant: each message is in its queue and
\* nothing is delivered.
LEMMA InitIInv == Init => IInv
PROOF
  <1>. SUFFICES ASSUME Init PROVE IInv
    OBVIOUS
  <1>1. /\ Messages \subseteq Copies /\ 1 \in Messages /\ 0 \in 0..RetryAttempts
        /\ 1 \in 1..MaxGenerations /\ 0 \in 0..MaxFaults
    BY ConsumerAssumption DEF Messages, Copies
  <1>2. /\ \A c \in Copies : copy[c].at \in {"ready", "free"}
        /\ \A c \in Messages : copy[c].of = c /\ copy[c].at = "ready"
        /\ copy \in [Copies -> CopyType]
    BY <1>1 DEF Init, CopyType, CopyStates
  <1>3. TypeOK
    <2>1. job \in [Copies -> JobType]
      BY NoJobType DEF Init
    <2>2. receiver \in ReceiverType /\ dispatcher \in DispatcherType /\ supervisor \in SupervisorType
      BY DEF Init, NewReceiver, NewDispatcher, NewSupervisor, ReceiverType,
         DispatcherType, SupervisorType, Results
    <2>3. g \in TokenType /\ e \in TokenType /\ exits \in [Results -> Nat]
      BY DEF Init, NoTokens, NoExits, TokenType
    <2>4. generation \in GenerationType
      BY <1>1 DEF Init, GenerationType
    <2>5. buffer \in Seq(Copies) /\ Len(buffer) <= BufferCapacity
      BY ConsumerAssumption DEF Init
    <2>6. failed \in BOOLEAN /\ reconciled \in BOOLEAN
      BY Zenon DEF Init
    <2>7. /\ kind \in [Messages -> Kinds] /\ channel \in {"open", "lost", "closed"}
          /\ handled \subseteq Messages /\ faults \in 0..MaxFaults
          /\ drain \in {"idle", "draining", "taking", "forcing", "done"}
      BY <1>1 DEF Init
    <2>. QED
      BY <1>2, <2>1, <2>2, <2>3, <2>4, <2>5, <2>6, <2>7, TypeParts
  <1>4. \A c \in Copies : job[c] = NoJob
    BY DEF Init
  <1>5. DeliveryInv
    BY <1>4 DEF DeliveryInv, DeliveryOk, NoJob, Operations
  <1>6. HolderInv
    <2>1. buffer = <<>> /\ receiver = NewReceiver
      BY DEF Init
    <2>2. Distinct /\ Buffered = {}
      BY <2>1 DEF Distinct, Buffered
    <2>3. receiver.at = "run" /\ receiver.cur = NoCopy
      BY <2>1 DEF NewReceiver
    <2>. QED
      BY <1>4, <2>2, <2>3 DEF HolderInv, NoJob
  <1>7. QuietInv
    BY DEF Init, QuietInv, RxClosed, NewDispatcher, NewSupervisor
  <1>8. KeptInv
    <2>1. \A c \in Copies : ~Leaving(c)
      BY <1>4 DEF Leaving, NoJob
    <2>. QED
      BY <1>1, <1>2, <2>1 DEF KeptInv, Stays
  <1>. QED
    BY <1>3, <1>5, <1>6, <1>7, <1>8 DEF IInv

\* The invariant is inductive: every step of the receiver, the dispatcher and
\* its tasks, the supervisor, the registration task, the broker and the
\* drains preserves it.
THEOREM Inductive == Spec => []IInv
PROOF
  <1>1. IInv /\ [Next]_vars => IInv'
    BY TypeStep, DeliveryStep, HolderStep, QuietStep, KeptStep DEF IInv
  <1>. QED
    BY InitIInv, <1>1, PTL DEF Spec

\* Every variable keeps its type; the buffer never holds more than its
\* capacity and no copy is retried more often than the budget allows.
THEOREM TypeCorrect == Spec => []TypeOK
PROOF
  <1>1. IInv => TypeOK
    BY DEF IInv
  <1>. QED
    BY Inductive, <1>1, PTL

\* The consumer loses no message: whatever fails, is cancelled, aborted or
\* redelivered, one that no handler completed still has a copy at the broker
\* (the handoff of settlement.rs publishes before it acknowledges).
THEOREM NothingIsLost == Spec => []NoMessageLost
PROOF
  <1>1. IInv => NoMessageLost
    BY DEF IInv, KeptInv, Stays, NoMessageLost
  <1>. QED
    BY Inductive, <1>1, PTL

\* No delivery is settled twice: SettlementAuthority is spent by the first
\* frame, however the task that held it ends.
THEOREM SettledOnce == Spec => []OneFramePerDelivery
PROOF
  <1>1. IInv => OneFramePerDelivery
    BY DEF IInv, DeliveryInv, DeliveryOk, OneFramePerDelivery
  <1>. QED
    BY Inductive, <1>1, PTL

\* A delivery reported as pending redelivery was never settled, and the
\* broker has it unacked or back in its queue.
THEOREM PendingIsTrue == Spec => []PendingIsRedelivered
PROOF
  <1>1. IInv => PendingIsRedelivered
    BY DEF IInv, DeliveryInv, DeliveryOk, PendingIsRedelivered
  <1>. QED
    BY Inductive, <1>1, PTL

\* A reconciled drain leaves nothing running: the pair is joined, and its
\* dispatcher returned only after its last task.
THEOREM DrainIsQuiet == Spec => []ReconciledMeansQuiet
PROOF
  <1>1. IInv => ReconciledMeansQuiet
    <2>. SUFFICES ASSUME IInv, reconciled, NEW c \in Copies
                  PROVE  job[c].phase = "none"
      BY DEF ReconciledMeansQuiet
    <2>1. TypeOK /\ HolderInv /\ QuietInv
      BY DEF IInv
    <2>2. supervisor.returned /\ receiver.at = "joined"
      BY <2>1 DEF QuietInv, PairRunning
    <2>. QED
      BY <2>1, <2>2, PairIsQuiet
  <1>. QED
    BY Inductive, <1>1, PTL

\* A generation opens only when no delivery of the one before it is still
\* held by the receiver, the buffer or a task.
THEOREM GenerationsDoNotOverlap == Spec => GenerationsAreDisjoint
PROOF
  <1>. DEFINE Disjoint == generation'.number # generation.number =>
                             \A c \in Copies : job[c].phase = "none"
  <1>1. ASSUME IInv, [Next]_vars PROVE [Disjoint]_vars
    <2>1. TypeOK /\ HolderInv /\ QuietInv
      BY <1>1 DEF IInv
    <2>2. CASE Reopen
      <3>1. supervisor.returned /\ receiver.at = "joined"
        BY <2>1, <2>2 DEF Reopen, QuietInv, PairRunning
      <3>. QED
        BY <2>1, <3>1, PairIsQuiet
    <2>3. CASE ~Reopen
      <3>1. generation'.number = generation.number
        <4>1. ASSUME NEW c \in Copies, Settlement(c)
              PROVE  generation'.number = generation.number
          BY <4>1 DEF Settlement, HandlerReturns, HandlerCancelled, HandoffAccepted,
             HandoffConfirmed, HandoffFails, Settles, SettlementFails,
             SettlementCancelled, TaskDropped, settleFrame
        <4>2. CASE Receiver
          BY <2>1, <4>2, TypeParts DEF Receiver, Receive, ReceiverSends,
             ReceiverStops, ReceiverLosesConsumer, ReceiverDropped, GenerationType
        <4>3. CASE Dispatcher \/ DispatcherPanics
          BY <4>3 DEF Dispatcher, DispatcherJoins, FinishJoins, DispatcherReaped,
             Dispatch, DispatcherBreaks, FinishObservesForce, FinishDeadline,
             DispatcherExits, DispatcherPanics, dispatcherFrame
        <4>4. CASE Supervisor
          BY <4>4 DEF Supervisor, SupervisorObservesForce,
             SupervisorObservesAdmission, JoinReceiver, JoinDispatcher, superFrame
        <4>5. CASE Registration
          BY <2>1, <2>3, <4>5, TypeParts DEF Registration, CloseGeneration,
             CloseUnproven, ReopenUnproven, RecoveryStops, RegistrationFails,
             GenerationType
        <4>6. CASE \/ \E c \in Copies : BrokerSettles(c)
                   \/ ConnectionLost \/ StopAdmission \/ ForceDrain \/ ForceTakesTokens \/ DrainEnds
                   \/ UNCHANGED vars
          BY <4>6 DEF BrokerSettles, ConnectionLost, StopAdmission, ForceDrain, ForceTakesTokens,
             DrainEnds, brokerFrame, engineFrame, vars
        <4>. QED
          BY <1>1, <4>1, <4>2, <4>3, <4>4, <4>5, <4>6 DEF Next
      <3>. QED
        BY <3>1
    <2>. QED
      BY <2>2, <2>3
  <1>. QED
    BY Inductive, <1>1, PTL DEF Spec, GenerationsAreDisjoint

=============================================================================
