---------------------- MODULE ShutdownCoordinatorProofs ----------------------
(***************************************************************************)
(* The shutdown coordinator keeps its deadlines, its force reserve, its    *)
(* one-shot closures and the truth of its report for every list of         *)
(* components, every configuration of their timeouts and every number of   *)
(* dropped executions.                                                     *)
(***************************************************************************)
EXTENDS ShutdownCoordinator, WellFoundedInduction, TLAPS

-----------------------------------------------------------------------------
(* Operators                                                               *)

\* A nonempty set of naturals below a bound has a greatest element.
LEMMA Greatest ==
    ASSUME NEW n \in Nat, NEW S \in SUBSET (0..n), S # {}
    PROVE  \E m \in S : \A k \in S : k <= m
PROOF
  <1>. DEFINE T == {n - k : k \in S}
              R == OpToRel(<, Nat)
  <1>1. IsWellFoundedOn(R, Nat)
    BY NatLessThanWellFounded
  <1>2. T \subseteq Nat /\ T # {}
    <2>1. ASSUME NEW k \in S PROVE n - k \in Nat
      BY <2>1
    <2>2. PICK k \in S : TRUE
      OBVIOUS
    <2>3. n - k \in T
      OBVIOUS
    <2>. QED
      BY <2>1, <2>3
  <1>3. \E x \in T : \A y \in T : ~(<<y, x>> \in R)
    <2>. HIDE DEF T, R
    <2>. QED
      BY <1>1, <1>2, WFMin
  <1>4. PICK x \in T : \A y \in T : ~(<<y, x>> \in R)
    BY <1>3
  <1>5. ASSUME NEW y \in T PROVE x <= y
    <2>1. x \in Nat /\ y \in Nat
      BY <1>2, <1>4, <1>5
    <2>2. ~(y < x)
      BY <1>4, <1>5, <2>1 DEF OpToRel
    <2>. QED
      BY <2>1, <2>2
  <1>6. PICK m \in S : x = n - m
    BY <1>4
  <1>7. ASSUME NEW k \in S PROVE k <= m
    <2>1. x <= n - k
      BY <1>5
    <2>. QED
      BY <2>1, <1>6
  <1>. QED
    BY <1>7

\* A phase with components left selects one of them.
LEMMA SelectedInPhase ==
    ASSUME TypeOK, InPhase # {}
    PROVE  /\ Selected \in Components /\ Selected - 1 \in 0..ComponentCount
           /\ Selected \in InPhase /\ \A d \in InPhase : d <= Selected
PROOF
  <1>1. index \in Nat /\ InPhase \in SUBSET (0..index)
    BY CoordinatorAssumption DEF InPhase, TypeOK
  <1>2. \E c \in InPhase : \A d \in InPhase : d <= c
    BY <1>1, Greatest
  <1>3. Selected \in InPhase /\ \A d \in InPhase : d <= Selected
    BY <1>2 DEF Selected
  <1>4. Selected \in 1..index
    BY <1>3 DEF InPhase
  <1>. QED
    BY <1>3, <1>4, CoordinatorAssumption DEF TypeOK, Components

\* The reserve is a natural number and no more than the whole deadline.
LEMMA ReserveFits ==
    ForceReserve \in Nat /\ ForceReserve <= Deadline
PROOF
  <1>1. Deadline \div 4 \in Nat /\ Deadline \div 4 <= Deadline
    BY CoordinatorAssumption
  <1>. QED
    BY <1>1, CoordinatorAssumption DEF ForceReserve, Least

\* The limits of an execution leave the reserve between the graceful and the
\* hard deadline, whoever set them.
LEMMA LimitsFit ==
    ASSUME TypeOK
    PROVE  /\ Limits \in [start : Nat, graceful : Nat, hard : Nat, reserve : Nat]
           /\ Limits.start = now
           /\ Limits.graceful <= Limits.hard
           /\ Limits.reserve <= Limits.hard - Limits.graceful
PROOF
  <1>1. CASE attached = None
    BY <1>1, ReserveFits, CoordinatorAssumption DEF TypeOK, Limits, Least
  <1>2. CASE attached # None
    <2>1. attached \in Nat \X Nat
      BY <1>2, CoordinatorAssumption DEF TypeOK
    <2>. QED
      BY <1>2, <2>1, ReserveFits, CoordinatorAssumption DEF TypeOK, Limits, Least
  <1>. QED
    BY <1>1, <1>2

\* What the first poll and the drop of a future leave of a closure.
LEMMA ClosureFacts ==
    ASSUME NEW x \in Closures
    PROVE  /\ Started(x) \in Closures \ {"fresh", "lost"}
           /\ Started(x) = "absent" => x = "absent"
           /\ Started(x) = "running" <=> x \in {"fresh", "running"}
           /\ x = "completed" => Started(x) = "completed"
           /\ Dropped(x) \in Closures \ {"running"}
           /\ Dropped(x) = "fresh" => x = "fresh"
           /\ Dropped(x) = "absent" => x = "absent"
           /\ x = "completed" => Dropped(x) = "completed"
           /\ Invoked(x) = IF x \in {"fresh", "running"} THEN 1 ELSE 0
           /\ x \in {"running"} \cup Terminals => Outcomes(x) \subseteq Terminals
           /\ x = "completed" => Outcomes(x) = {"completed"}
BY DEF Closures, Terminals, Started, Dropped, Invoked, Outcomes

-----------------------------------------------------------------------------
(* The inductive invariant                                                 *)

\* The coordinator works on a component, an OwnedTaskSet has no closures, and
\* the closure whose future is awaited has been taken: it is running or has a
\* terminal.
AwaitInv ==
    /\ step \in {"graceful", "force", "forced"} => current \in Components
    /\ \A c \in Components :
           IF KindOf[c] = "tasks" THEN graceful[c] = "absent" /\ handle[c] = "absent"
                                  ELSE graceful[c] # "absent"
    /\ step = "graceful" /\ KindOf[current] # "tasks" =>
           graceful[current] \in {"running"} \cup Terminals
    /\ step = "forced" /\ KindOf[current] # "tasks" =>
           handle[current] \in {"running"} \cup Terminals

\* A closure runs only while the coordinator awaits it, and a fresh one has
\* not been invoked.
OnceInv ==
    \A c \in Components :
        /\ graceful[c] = "running" => step = "graceful" /\ current = c
        /\ handle[c] = "running" => step = "forced" /\ current = c
        /\ graceful[c] = "fresh" => calls[c].graceful = 0
        /\ handle[c] = "fresh" => calls[c].force = 0
        /\ calls[c].graceful <= 1 /\ calls[c].force <= 1

\* An execution visits a component once: what is decided lies behind it, in
\* an earlier phase or above the index, and what it works on is undecided.
VisitInv ==
    /\ Running => \A c \in Components : cleanup[c] # None =>
           PhaseOf[c] < phase \/ (PhaseOf[c] = phase /\ c > index)
    /\ step \in {"graceful", "force", "forced"} =>
           PhaseOf[current] = phase /\ current > index /\ cleanup[current] = None

\* The awaited future's deadline is one of the execution's, the reserve lies
\* between those two, and the graceful one bounds the clock until the first
\* force attempt.
TimeInv ==
    /\ EndsInTime
    /\ limits.graceful <= limits.hard
    /\ limits.reserve <= limits.hard - limits.graceful
    /\ step = "graceful" => until <= limits.graceful
    /\ step = "forced" => until <= limits.hard
    /\ Running /\ step # "forced" /\ ~AnyForced /\ limits.start <= limits.graceful
           => now <= limits.graceful

\* A component forced by the current execution is being forced or has a
\* cleanup outcome that says so; nothing is forced once there is a report.
ForceInv ==
    /\ \A c \in Components :
           /\ forcedIn[c] # None => forcedIn[c] <= drops
           /\ forcedIn[c] = drops =>
                  \/ step = "forced" /\ current = c
                  \/ step # "idle" /\ cleanup[c] \notin {None, "notAttempted"}
    /\ report # None => step = "done"

\* The statuses a report is made of say what happened to the component.
TruthInv ==
    /\ \A c \in Components : status[c] = "completed" =>
           IF KindOf[c] = "tasks" THEN live[c] = 0 ELSE graceful[c] = "completed"
    /\ \A c \in Components : cleanup[c] = "completed" => Ended(c)
    /\ ReportIsTruthful

-----------------------------------------------------------------------------
(* Types                                                                   *)

\* The bounds of an instance are numbers.
LEMMA Bounds ==
    ComponentCount \in Nat /\ TaskCount \in Nat /\ MaxDrops \in Nat
BY CoordinatorAssumption

\* The adapters keep their types whatever the coordinator does to them.
LEMMA AdapterTypes ==
    ASSUME TypeOK, NEW c \in Components,
           StartGraceful(c) \/ StartForce(c) \/ DropFuture(c)
    PROVE  /\ graceful' \in [Components -> Closures]
           /\ handle' \in [Components -> Closures]
           /\ live' \in [Components -> 0..TaskCount]
           /\ failed' \in [Components -> BOOLEAN]
           /\ calls' \in [Components -> [graceful : Nat, force : Nat]]
           /\ forcedIn' \in [Components -> 0..MaxDrops \cup {None}]
PROOF
  <1>1. /\ Started(graceful[c]) \in Closures /\ Dropped(graceful[c]) \in Closures
        /\ Started(handle[c]) \in Closures /\ Dropped(handle[c]) \in Closures
        /\ Invoked(graceful[c]) \in Nat /\ Invoked(handle[c]) \in Nat
    BY ClosureFacts DEF TypeOK
  <1>2. CASE StartGraceful(c)
    BY <1>1, <1>2 DEF StartGraceful, TypeOK
  <1>3. CASE StartForce(c)
    BY <1>1, <1>3 DEF StartForce, TypeOK
  <1>4. CASE DropFuture(c)
    <2>1. failed' \in [Components -> BOOLEAN]
      BY <1>4 DEF DropFuture, TypeOK
    <2>. QED
      BY <1>1, <1>4, <2>1 DEF DropFuture, TypeOK
  <1>. QED
    BY <1>2, <1>3, <1>4

\* Every step preserves the types.
LEMMA TypeStep ==
    ASSUME TypeOK, AwaitInv, [Next]_vars
    PROVE  TypeOK'
PROOF
  <1>. USE DEF TypeOK, AwaitInv, Phases, Steps, Statuses, Cleanups, Completions,
     clockVars, adapterVars
  <1>1. CASE Execute
    <2>1. limits' \in [start : Nat, graceful : Nat, hard : Nat, reserve : Nat]
      BY <1>1, LimitsFit DEF Execute
    <2>2. force' \in BOOLEAN
      BY <1>1 DEF Execute
    <2>. QED
      BY <1>1, <2>1, <2>2, Bounds DEF Execute
  <1>2. CASE NextPhase
    BY <1>2, Bounds DEF NextPhase
  <1>3. CASE RunComponent
    <2>. DEFINE c == Selected
    <2>1. c \in Components /\ c - 1 \in 0..ComponentCount
      BY <1>3, SelectedInPhase DEF RunComponent
    <2>. HIDE DEF c
    <2>2. CASE force \/ Budget(c) = 0
      BY <1>3, <2>1, <2>2 DEF RunComponent, c
    <2>3. CASE ~(force \/ Budget(c) = 0)
      <3>1. StartGraceful(c)
        BY <1>3, <2>3 DEF RunComponent, c
      <3>2. until' \in Nat
        <4>1. Until(limits.graceful) \in Nat
          BY DEF Until
        <4>2. TimeoutOf[c] \in Nat
          BY <2>1, CoordinatorAssumption
        <4>3. GracefulUntil(c) \in Nat
          BY <4>1, <4>2 DEF GracefulUntil, Budget, Least
        <4>. QED
          BY <1>3, <2>3, <4>3 DEF RunComponent, c
      <3>. QED
        BY <1>3, <2>1, <2>3, <3>1, <3>2, AdapterTypes DEF RunComponent, c
    <2>. QED
      BY <2>2, <2>3
  <1>4. CASE ActionReturns
    <2>1. PICK t \in Outcomes(graceful[current]) :
             /\ graceful' = [graceful EXCEPT ![current] = t]
             /\ Conclude(current, MapResult(t))
      BY <1>4 DEF ActionReturns
    <2>2. t \in Terminals /\ current \in Components
      BY <1>4, ClosureFacts DEF ActionReturns
    <2>3. graceful' \in [Components -> Closures]
      BY <2>1, <2>2 DEF Closures
    <2>4. MapResult(t) \in Statuses
      BY <2>2 DEF MapResult, Terminals
    <2>. QED
      BY <1>4, <2>1, <2>2, <2>3, <2>4 DEF ActionReturns, Conclude, Accept, Divert
  <1>5. CASE TasksJoined
    BY <1>5 DEF TasksJoined, Conclude, Accept, Divert, JoinResult, Joined
  <1>6. CASE GracefulTimesOut
    BY <1>6, AdapterTypes DEF GracefulTimesOut, Divert
  <1>7. CASE ForceCancels
    BY <1>7, AdapterTypes DEF ForceCancels, Divert
  <1>8. CASE RunForced
    <2>1. CASE StartForce(current) /\ until' = ForceDeadline(current)
      <3>1. current \in Components
        BY <1>8 DEF RunForced
      <3>2. /\ TimeoutOf[current] \in Nat
            /\ CutoffOf[current] # None => CutoffOf[current] \in Nat
        BY <3>1, CoordinatorAssumption
      <3>3. ForceBudget(current) \in Nat
        BY <3>2 DEF ForceBudget, Until, Least
      <3>4. ForceDeadline(current) \in Nat
        BY <3>2, <3>3 DEF ForceDeadline, Least
      <3>. QED
        BY <1>8, <2>1, <3>1, <3>4, AdapterTypes DEF RunForced, Settle
    <2>2. CASE ~(StartForce(current) /\ until' = ForceDeadline(current))
      BY <1>8, <2>2 DEF RunForced, Settle
    <2>. QED
      BY <2>1, <2>2
  <1>9. CASE ForceReturns
    <2>1. PICK t \in Outcomes(handle[current]) :
             /\ handle' = [handle EXCEPT ![current] = t]
             /\ Settle(current, MapResult(t))
      BY <1>9 DEF ForceReturns
    <2>2. t \in Terminals /\ current \in Components
      BY <1>9, ClosureFacts DEF ForceReturns
    <2>3. handle' \in [Components -> Closures]
      BY <2>1, <2>2 DEF Closures
    <2>4. MapResult(t) \in Cleanups
      BY <2>2 DEF MapResult, Terminals
    <2>. QED
      BY <1>9, <2>1, <2>2, <2>3, <2>4 DEF ForceReturns, Settle
  <1>10. CASE TasksReaped
    BY <1>10 DEF TasksReaped, Settle, JoinResult, Joined
  <1>11. CASE ForceTimesOut
    BY <1>11, AdapterTypes DEF ForceTimesOut, Settle
  <1>12. CASE Report
    BY <1>12 DEF Report, Completion
  <1>13. CASE RequestForce
    BY <1>13 DEF RequestForce
  <1>14. CASE DropExecution
    BY <1>14, AdapterTypes, Bounds DEF DropExecution
  <1>15. ASSUME NEW d \in Components, TaskEnds(d) PROVE TypeOK'
    <2>1. live' \in [Components -> 0..TaskCount]
      BY <1>15, Bounds DEF TaskEnds
    <2>2. failed' \in [Components -> BOOLEAN]
      BY <1>15 DEF TaskEnds
    <2>. QED
      BY <1>15, <2>1, <2>2 DEF TaskEnds
  <1>16. CASE Tick
    BY <1>16 DEF Tick
  <1>17. CASE UNCHANGED vars
    BY <1>17 DEF vars
  <1>. QED
    BY <1>1, <1>2, <1>3, <1>4, <1>5, <1>6, <1>7, <1>8, <1>9, <1>10, <1>11,
       <1>12, <1>13, <1>14, <1>15, <1>16, <1>17 DEF Next, Coordinate

-----------------------------------------------------------------------------
(* Closures                                                                *)

\* The first poll takes a fresh closure and invokes it; nothing else does.
LEMMA StartGracefulEffect ==
    ASSUME TypeOK, NEW c \in Components, StartGraceful(c)
    PROVE  /\ graceful'[c] \in {"absent", "running"} \cup Terminals
           /\ graceful'[c] = "absent" <=> graceful[c] = "absent"
           /\ graceful'[c] = "running" => graceful[c] \in {"fresh", "running"}
           /\ graceful[c] = "completed" => graceful'[c] = "completed"
           /\ calls'[c].graceful =
                  calls[c].graceful + IF graceful[c] \in {"fresh", "running"} THEN 1 ELSE 0
           /\ calls'[c].force = calls[c].force
           /\ \A d \in Components : d # c => /\ graceful'[d] = graceful[d]
                                             /\ calls'[d] = calls[d]
           /\ UNCHANGED <<handle, live, failed>>
PROOF
  <1>1. graceful[c] \in Closures /\ graceful'[c] = Started(graceful[c])
    BY DEF TypeOK, StartGraceful
  <1>2. graceful'[c] \in {"absent", "running"} \cup Terminals
    BY <1>1 DEF Started, Closures, Terminals
  <1>3. /\ graceful'[c] = "absent" <=> graceful[c] = "absent"
        /\ graceful'[c] = "running" => graceful[c] \in {"fresh", "running"}
        /\ graceful[c] = "completed" => graceful'[c] = "completed"
    BY <1>1 DEF Started, Closures
  <1>4. /\ calls'[c].graceful = calls[c].graceful + Invoked(graceful[c])
        /\ calls'[c].force = calls[c].force
        /\ \A d \in Components : d # c => /\ graceful'[d] = graceful[d]
                                          /\ calls'[d] = calls[d]
    BY DEF TypeOK, StartGraceful
  <1>5. Invoked(graceful[c]) = IF graceful[c] \in {"fresh", "running"} THEN 1 ELSE 0
    BY <1>1, ClosureFacts
  <1>. QED
    BY <1>2, <1>3, <1>4, <1>5 DEF StartGraceful

\* The first poll of a force closure takes it; a later one polls what is there.
LEMMA StartForceEffect ==
    ASSUME TypeOK, NEW c \in Components, StartForce(c)
    PROVE  /\ handle'[c] \in {"absent", "running"} \cup Terminals
           /\ handle'[c] = "absent" <=> handle[c] = "absent"
           /\ handle'[c] = "running" => handle[c] \in {"fresh", "running"}
           /\ handle[c] = "completed" => handle'[c] = "completed"
           /\ calls'[c].force =
                  calls[c].force + IF handle[c] \in {"fresh", "running"} THEN 1 ELSE 0
           /\ calls'[c].graceful = calls[c].graceful
           /\ \A d \in Components : d # c => /\ handle'[d] = handle[d]
                                             /\ calls'[d] = calls[d]
           /\ UNCHANGED <<graceful, live, failed>>
PROOF
  <1>1. handle[c] \in Closures /\ handle'[c] = Started(handle[c])
    BY DEF TypeOK, StartForce
  <1>2. handle'[c] \in {"absent", "running"} \cup Terminals
    BY <1>1 DEF Started, Closures, Terminals
  <1>3. /\ handle'[c] = "absent" <=> handle[c] = "absent"
        /\ handle'[c] = "running" => handle[c] \in {"fresh", "running"}
        /\ handle[c] = "completed" => handle'[c] = "completed"
    BY <1>1 DEF Started, Closures
  <1>4. /\ calls'[c].force = calls[c].force + Invoked(handle[c])
        /\ calls'[c].graceful = calls[c].graceful
        /\ \A d \in Components : d # c => /\ handle'[d] = handle[d]
                                          /\ calls'[d] = calls[d]
    BY DEF TypeOK, StartForce
  <1>5. Invoked(handle[c]) = IF handle[c] \in {"fresh", "running"} THEN 1 ELSE 0
    BY <1>1, ClosureFacts
  <1>. QED
    BY <1>2, <1>3, <1>4, <1>5 DEF StartForce

\* Dropping a future takes the closures it was running, and touches no other.
LEMMA DropEffect ==
    ASSUME TypeOK, NEW c \in Components, DropFuture(c)
    PROVE  /\ graceful'[c] # "running" /\ handle'[c] # "running"
           /\ \A x \in {"absent", "fresh", "completed"} :
                  /\ graceful'[c] = x <=> graceful[c] = x
                  /\ handle'[c] = x <=> handle[c] = x
           /\ \A d \in Components : d # c => /\ graceful'[d] = graceful[d]
                                             /\ handle'[d] = handle[d]
           /\ UNCHANGED <<live, calls>>
PROOF
  <1>1. /\ graceful[c] \in Closures /\ graceful'[c] = Dropped(graceful[c])
        /\ handle[c] \in Closures /\ handle'[c] = Dropped(handle[c])
    BY DEF TypeOK, DropFuture
  <1>2. /\ graceful'[c] # "running" /\ handle'[c] # "running"
        /\ \A x \in {"absent", "fresh", "completed"} :
               /\ graceful'[c] = x <=> graceful[c] = x
               /\ handle'[c] = x <=> handle[c] = x
    BY <1>1 DEF Dropped, Closures
  <1>. QED
    BY <1>2 DEF TypeOK, DropFuture

\* The coordinator keeps to a component and takes closures before it awaits them.
LEMMA AwaitStep ==
    ASSUME TypeOK, AwaitInv, [Next]_vars
    PROVE  AwaitInv'
PROOF
  <1>. USE DEF TypeOK, AwaitInv, Steps, clockVars, adapterVars
  <1>1. CASE Execute
    BY <1>1 DEF Execute
  <1>2. CASE NextPhase
    BY <1>2 DEF NextPhase
  <1>3. CASE RunComponent
    <2>. DEFINE c == Selected
    <2>1. c \in Components
      BY <1>3, SelectedInPhase DEF RunComponent
    <2>. HIDE DEF c
    <2>2. CASE force \/ Budget(c) = 0
      BY <1>3, <2>1, <2>2 DEF RunComponent, c
    <2>3. CASE ~(force \/ Budget(c) = 0)
      <3>1. StartGraceful(c)
        BY <1>3, <2>3 DEF RunComponent, c
      <3>. QED
        BY <1>3, <2>1, <2>3, <3>1, StartGracefulEffect DEF RunComponent, c
    <2>. QED
      BY <2>2, <2>3
  <1>4. CASE ActionReturns
    <2>1. PICK t \in Outcomes(graceful[current]) :
             graceful' = [graceful EXCEPT ![current] = t]
      BY <1>4 DEF ActionReturns
    <2>2. t \in Terminals
      BY <1>4, <2>1, ClosureFacts DEF ActionReturns
    <2>. QED
      BY <1>4, <2>1, <2>2 DEF ActionReturns, Conclude, Accept, Divert, Terminals
  <1>5. CASE TasksJoined
    BY <1>5 DEF TasksJoined, Conclude, Accept, Divert, JoinResult, Joined
  <1>6. CASE GracefulTimesOut
    <2>1. current \in Components /\ DropFuture(current)
      BY <1>6 DEF GracefulTimesOut
    <2>. QED
      BY <1>6, <2>1, DropEffect DEF GracefulTimesOut, Divert
  <1>7. CASE ForceCancels
    <2>1. current \in Components /\ DropFuture(current)
      BY <1>7 DEF ForceCancels
    <2>. QED
      BY <1>7, <2>1, DropEffect DEF ForceCancels, Divert
  <1>8. CASE RunForced
    <2>1. CASE StartForce(current)
      <3>1. current \in Components
        BY <1>8 DEF RunForced
      <3>. QED
        BY <1>8, <2>1, <3>1, StartForceEffect DEF RunForced, Settle, HasHandle
    <2>2. CASE ~StartForce(current)
      BY <1>8, <2>2 DEF RunForced, Settle
    <2>. QED
      BY <2>1, <2>2
  <1>9. CASE ForceReturns
    <2>1. PICK t \in Outcomes(handle[current]) :
             handle' = [handle EXCEPT ![current] = t]
      BY <1>9 DEF ForceReturns
    <2>2. t \in Terminals
      BY <1>9, <2>1, ClosureFacts DEF ForceReturns
    <2>. QED
      BY <1>9, <2>1, <2>2 DEF ForceReturns, Settle, Terminals
  <1>10. CASE TasksReaped
    BY <1>10 DEF TasksReaped, Settle, JoinResult, Joined
  <1>11. CASE ForceTimesOut
    <2>1. current \in Components /\ DropFuture(current)
      BY <1>11 DEF ForceTimesOut
    <2>. QED
      BY <1>11, <2>1, DropEffect DEF ForceTimesOut, Settle
  <1>12. CASE Report
    BY <1>12 DEF Report, Completion
  <1>13. CASE RequestForce
    BY <1>13 DEF RequestForce
  <1>14. CASE DropExecution
    <2>1. current \in Components /\ DropFuture(current)
      BY <1>14 DEF DropExecution
    <2>. QED
      BY <1>14, <2>1, DropEffect DEF DropExecution
  <1>15. ASSUME NEW d \in Components, TaskEnds(d) PROVE AwaitInv'
    BY <1>15 DEF TaskEnds
  <1>16. CASE Tick
    BY <1>16 DEF Tick
  <1>17. CASE UNCHANGED vars
    BY <1>17 DEF vars
  <1>. QED
    BY <1>1, <1>2, <1>3, <1>4, <1>5, <1>6, <1>7, <1>8, <1>9, <1>10, <1>11,
       <1>12, <1>13, <1>14, <1>15, <1>16, <1>17 DEF Next, Coordinate

\* No step invokes a closure that was invoked before.
LEMMA OnceStep ==
    ASSUME TypeOK, AwaitInv, OnceInv, [Next]_vars
    PROVE  OnceInv'
PROOF
  <1>. USE DEF TypeOK, AwaitInv, OnceInv, Steps, clockVars, adapterVars
  <1>1. CASE Execute
    BY <1>1 DEF Execute
  <1>2. CASE NextPhase
    BY <1>2 DEF NextPhase
  <1>3. CASE RunComponent
    <2>. DEFINE c == Selected
    <2>1. c \in Components
      BY <1>3, SelectedInPhase DEF RunComponent
    <2>. HIDE DEF c
    <2>2. CASE force \/ Budget(c) = 0
      BY <1>3, <2>1, <2>2 DEF RunComponent, c
    <2>3. CASE ~(force \/ Budget(c) = 0)
      <3>1. StartGraceful(c) /\ step = "select" /\ step' = "graceful" /\ current' = c
        BY <1>3, <2>3 DEF RunComponent, c
      <3>2. \A d \in Components : graceful[d] # "running" /\ handle[d] # "running"
        BY <3>1
      <3>3. calls[c].graceful \in Nat /\ calls[c].force \in Nat
        BY <2>1
      <3>4. /\ graceful'[c] # "fresh" /\ calls'[c].graceful <= 1
            /\ calls'[c].force <= 1 /\ handle' = handle
            /\ \A d \in Components : d # c => /\ graceful'[d] = graceful[d]
                                                /\ calls'[d] = calls[d]
        BY <2>1, <3>1, <3>2, <3>3, StartGracefulEffect DEF Terminals
      <3>5. handle[c] = "fresh" => calls'[c].force = 0
        BY <2>1, <3>1, StartGracefulEffect
      <3>. QED
        BY <3>1, <3>2, <3>4, <3>5
    <2>. QED
      BY <2>2, <2>3
  <1>4. CASE ActionReturns
    <2>1. PICK t \in Outcomes(graceful[current]) :
             graceful' = [graceful EXCEPT ![current] = t]
      BY <1>4 DEF ActionReturns
    <2>2. t \in Terminals
      BY <1>4, <2>1, ClosureFacts DEF ActionReturns
    <2>. QED
      BY <1>4, <2>1, <2>2 DEF ActionReturns, Conclude, Accept, Divert, Terminals
  <1>5. CASE TasksJoined
    BY <1>5 DEF TasksJoined, Conclude, Accept, Divert, JoinResult, Joined
  <1>6. CASE GracefulTimesOut
    <2>1. current \in Components /\ DropFuture(current)
      BY <1>6 DEF GracefulTimesOut
    <2>. QED
      BY <1>6, <2>1, DropEffect DEF GracefulTimesOut, Divert
  <1>7. CASE ForceCancels
    <2>1. current \in Components /\ DropFuture(current)
      BY <1>7 DEF ForceCancels
    <2>. QED
      BY <1>7, <2>1, DropEffect DEF ForceCancels, Divert
  <1>8. CASE RunForced
    <2>1. current \in Components /\ step = "force" /\ current' = current
      BY <1>8 DEF RunForced, Settle
    <2>2. \A d \in Components : graceful[d] # "running" /\ handle[d] # "running"
      BY <2>1
    <2>3. CASE StartForce(current) /\ step' = "forced"
      <3>1. calls[current].graceful \in Nat /\ calls[current].force \in Nat
        BY <2>1
      <3>2. /\ handle'[current] # "fresh" /\ calls'[current].force <= 1
            /\ calls'[current].graceful <= 1 /\ graceful' = graceful
            /\ \A d \in Components : d # current => /\ handle'[d] = handle[d]
                                                      /\ calls'[d] = calls[d]
        BY <2>1, <2>2, <2>3, <3>1, StartForceEffect DEF Terminals
      <3>3. graceful[current] = "fresh" => calls'[current].graceful = 0
        BY <2>1, <2>3, StartForceEffect
      <3>. QED
        BY <2>1, <2>2, <2>3, <3>2, <3>3
    <2>4. CASE UNCHANGED adapterVars
      BY <2>2, <2>4
    <2>. QED
      BY <1>8, <2>3, <2>4 DEF RunForced
  <1>9. CASE ForceReturns
    <2>1. PICK t \in Outcomes(handle[current]) :
             handle' = [handle EXCEPT ![current] = t]
      BY <1>9 DEF ForceReturns
    <2>2. t \in Terminals
      BY <1>9, <2>1, ClosureFacts DEF ForceReturns
    <2>. QED
      BY <1>9, <2>1, <2>2 DEF ForceReturns, Settle, Terminals
  <1>10. CASE TasksReaped
    BY <1>10 DEF TasksReaped, Settle, JoinResult, Joined
  <1>11. CASE ForceTimesOut
    <2>1. current \in Components /\ DropFuture(current)
      BY <1>11 DEF ForceTimesOut
    <2>. QED
      BY <1>11, <2>1, DropEffect DEF ForceTimesOut, Settle
  <1>12. CASE Report
    BY <1>12 DEF Report, Completion
  <1>13. CASE RequestForce
    BY <1>13 DEF RequestForce
  <1>14. CASE DropExecution
    <2>1. current \in Components /\ DropFuture(current)
      BY <1>14 DEF DropExecution
    <2>. QED
      BY <1>14, <2>1, DropEffect DEF DropExecution
  <1>15. ASSUME NEW d \in Components, TaskEnds(d) PROVE OnceInv'
    BY <1>15 DEF TaskEnds
  <1>16. CASE Tick
    BY <1>16 DEF Tick
  <1>17. CASE UNCHANGED vars
    BY <1>17 DEF vars
  <1>. QED
    BY <1>1, <1>2, <1>3, <1>4, <1>5, <1>6, <1>7, <1>8, <1>9, <1>10, <1>11,
       <1>12, <1>13, <1>14, <1>15, <1>16, <1>17 DEF Next, Coordinate

-----------------------------------------------------------------------------
(* Order and time                                                          *)

\* Every step keeps the visited components behind the execution.
LEMMA VisitStep ==
    ASSUME TypeOK, AwaitInv, VisitInv, [Next]_vars
    PROVE  VisitInv'
PROOF
  <1>. USE DEF VisitInv, AwaitInv, Running, clockVars, adapterVars
  <1>1. CASE Execute
    BY <1>1 DEF Execute
  <1>2. CASE NextPhase
    <2>0. index \in Nat /\ \A c \in Components : c \in Nat /\ c >= 1
      BY Bounds DEF Components, TypeOK
    <2>1. ASSUME NEW c \in Components, PhaseOf[c] = phase PROVE c > index
      <3>1. c \notin 1..index
        BY <1>2, <2>1 DEF NextPhase, InPhase
      <3>. QED
        BY <2>0, <3>1
    <2>2. \A c \in Components : PhaseOf[c] \in Nat
      BY CoordinatorAssumption DEF Phases
    <2>3. phase \in Nat
      BY DEF TypeOK, Phases
    <2>. QED
      BY <1>2, <2>1, <2>2, <2>3 DEF NextPhase
  <1>3. CASE RunComponent
    <2>. DEFINE c == Selected
    <2>1. c \in Components /\ c \in InPhase
      BY <1>3, SelectedInPhase DEF RunComponent
    <2>2. c \in 1..index /\ PhaseOf[c] = phase /\ index \in Nat
      BY <2>1, Bounds DEF InPhase, TypeOK
    <2>. HIDE DEF c
    <2>3. step = "select" /\ current' = c /\ index' = c - 1 /\ UNCHANGED <<phase, cleanup>>
      BY <1>3 DEF RunComponent, c
    <2>4. phase \in Nat /\ \A d \in Components : d \in Nat
      BY Bounds DEF TypeOK, Phases, Components
    <2>5. cleanup[c] = None
      BY <2>1, <2>2, <2>3, <2>4
    <2>. QED
      BY <2>1, <2>2, <2>3, <2>4, <2>5
  <1>4. CASE ActionReturns
    BY <1>4 DEF ActionReturns, Conclude, Accept, Divert, TypeOK
  <1>5. CASE TasksJoined
    BY <1>5 DEF TasksJoined, Conclude, Accept, Divert, TypeOK
  <1>6. CASE GracefulTimesOut
    BY <1>6 DEF GracefulTimesOut, Divert
  <1>7. CASE ForceCancels
    BY <1>7 DEF ForceCancels, Divert
  <1>8. CASE RunForced
    BY <1>8 DEF RunForced, Settle, TypeOK
  <1>9. CASE ForceReturns
    BY <1>9 DEF ForceReturns, Settle, TypeOK
  <1>10. CASE TasksReaped
    BY <1>10 DEF TasksReaped, Settle, TypeOK
  <1>11. CASE ForceTimesOut
    BY <1>11 DEF ForceTimesOut, Settle, TypeOK
  <1>12. CASE Report
    BY <1>12 DEF Report, Completion
  <1>13. CASE RequestForce
    BY <1>13 DEF RequestForce
  <1>14. CASE DropExecution
    BY <1>14 DEF DropExecution
  <1>15. ASSUME NEW d \in Components, TaskEnds(d) PROVE VisitInv'
    BY <1>15 DEF TaskEnds
  <1>16. CASE Tick
    BY <1>16 DEF Tick
  <1>17. CASE UNCHANGED vars
    BY <1>17 DEF vars
  <1>. QED
    BY <1>1, <1>2, <1>3, <1>4, <1>5, <1>6, <1>7, <1>8, <1>9, <1>10, <1>11,
       <1>12, <1>13, <1>14, <1>15, <1>16, <1>17 DEF Next, Coordinate

\* The clock and the limits are numbers.
LEMMA Clocks ==
    ASSUME TypeOK
    PROVE  /\ now \in Nat /\ until \in Nat
           /\ limits.start \in Nat /\ limits.graceful \in Nat
           /\ limits.hard \in Nat /\ limits.reserve \in Nat
BY DEF TypeOK

\* No await of the coordinator outlives the deadline it was given.
LEMMA TimeStep ==
    ASSUME TypeOK, AwaitInv, VisitInv, TimeInv, [Next]_vars
    PROVE  TimeInv'
PROOF
  <1>. USE DEF TimeInv, EndsInTime, Running, AwaitInv, VisitInv, clockVars, adapterVars
  <1>1. CASE Execute
    <2>1. limits' = Limits /\ now' = now /\ step' = "select"
      BY <1>1 DEF Execute
    <2>. QED
      BY <2>1, LimitsFit, Clocks
  <1>2. CASE NextPhase
    <2>1. AnyForced' <=> AnyForced
      BY <1>2 DEF NextPhase, clockVars, AnyForced
    <2>. QED
      BY <1>2, <2>1, Clocks DEF NextPhase, clockVars
  <1>3. CASE RunComponent
    <2>. DEFINE c == Selected
    <2>1. c \in Components
      BY <1>3, SelectedInPhase DEF RunComponent
    <2>. HIDE DEF c
    <2>2. AnyForced' <=> AnyForced
      BY <1>3 DEF RunComponent, AnyForced
    <2>3. step' = "force" \/ (step' = "graceful" /\ until' = GracefulUntil(c))
      BY <1>3 DEF RunComponent, c
    <2>4. GracefulUntil(c) <= limits.graceful
      <3>1. TimeoutOf[c] \in Nat
        BY <2>1, CoordinatorAssumption
      <3>. QED
        BY <3>1, Clocks DEF GracefulUntil, Budget, Until, Least
    <2>. QED
      BY <1>3, <2>2, <2>3, <2>4, Clocks DEF RunComponent
  <1>4. CASE ActionReturns
    <2>1. current \in Components /\ cleanup[current] = None
      BY <1>4 DEF ActionReturns
    <2>2. AnyForced' <=> AnyForced
      BY <1>4, <2>1 DEF ActionReturns, Conclude, Accept, Divert, AnyForced, TypeOK
    <2>. QED
      BY <1>4, <2>2, Clocks DEF ActionReturns, Conclude, Accept, Divert
  <1>5. CASE TasksJoined
    <2>1. current \in Components /\ cleanup[current] = None
      BY <1>5 DEF TasksJoined
    <2>2. AnyForced' <=> AnyForced
      BY <1>5, <2>1 DEF TasksJoined, Conclude, Accept, Divert, AnyForced, TypeOK
    <2>. QED
      BY <1>5, <2>2, Clocks DEF TasksJoined, Conclude, Accept, Divert
  <1>6. CASE GracefulTimesOut
    <2>1. AnyForced' <=> AnyForced
      BY <1>6 DEF GracefulTimesOut, Divert, AnyForced
    <2>. QED
      BY <1>6, <2>1, Clocks DEF GracefulTimesOut, Divert
  <1>7. CASE ForceCancels
    <2>1. AnyForced' <=> AnyForced
      BY <1>7 DEF ForceCancels, Divert, AnyForced
    <2>. QED
      BY <1>7, <2>1, Clocks DEF ForceCancels, Divert
  <1>8. CASE RunForced
    <2>1. current \in Components /\ step = "force"
      BY <1>8 DEF RunForced
    <2>2. CASE step' = "forced"
      <3>1. /\ TimeoutOf[current] \in Nat
            /\ CutoffOf[current] # None => CutoffOf[current] \in Nat
        BY <2>1, CoordinatorAssumption
      <3>2. ForceBudget(current) \in Nat
        BY <3>1, Clocks DEF ForceBudget, Until, Least
      <3>3. ForceDeadline(current) <= limits.hard
        BY <3>1, <3>2, Clocks DEF ForceDeadline, Least
      <3>4. until' = ForceDeadline(current)
        BY <1>8, <2>2 DEF RunForced, Settle
      <3>. QED
        BY <1>8, <2>1, <2>2, <3>3, <3>4, Clocks DEF RunForced, Settle
    <2>3. CASE step' # "forced"
      <3>1. PICK o \in {"unavailable", "timedOut"} : Settle(current, o)
        BY <1>8, <2>3 DEF RunForced
      <3>2. AnyForced'
        BY <2>1, <3>1, CoordinatorAssumption DEF Settle, TypeOK, AnyForced, Cleanups
      <3>. QED
        BY <1>8, <2>1, <3>1, <3>2, Clocks DEF Settle
    <2>. QED
      BY <2>2, <2>3
  <1>9. CASE ForceReturns
    <2>1. PICK o \in Cleanups \ {"notAttempted"} : Settle(current, o)
      <3>1. PICK t \in Outcomes(handle[current]) : Settle(current, MapResult(t))
        BY <1>9 DEF ForceReturns
      <3>2. handle[current] \in Closures /\ handle[current] \in {"running"} \cup Terminals
        BY <1>9 DEF ForceReturns, TypeOK
      <3>3. t \in Terminals
        BY <3>1, <3>2, ClosureFacts
      <3>. QED
        BY <3>1, <3>3 DEF MapResult, Terminals, Cleanups
    <2>2. AnyForced'
      <3>1. cleanup' = [cleanup EXCEPT ![current] = o]
        BY <2>1 DEF Settle
      <3>2. current \in Components
        BY <1>9 DEF ForceReturns
      <3>. QED
        BY <3>1, <3>2, CoordinatorAssumption DEF TypeOK, AnyForced
    <2>. QED
      BY <1>9, <2>1, <2>2, Clocks DEF ForceReturns, Settle
  <1>10. CASE TasksReaped
    <2>1. PICK o \in Cleanups \ {"notAttempted"} : Settle(current, o)
      BY <1>10, ClosureFacts DEF TasksReaped, MapResult, JoinResult, Cleanups, Terminals
    <2>2. AnyForced'
      <3>1. cleanup' = [cleanup EXCEPT ![current] = o]
        BY <2>1 DEF Settle
      <3>2. current \in Components
        BY <1>10 DEF TasksReaped
      <3>. QED
        BY <3>1, <3>2, CoordinatorAssumption DEF TypeOK, AnyForced
    <2>. QED
      BY <1>10, <2>1, <2>2, Clocks DEF TasksReaped, Settle
  <1>11. CASE ForceTimesOut
    <2>1. PICK o \in Cleanups \ {"notAttempted"} : Settle(current, o)
      BY <1>11, ClosureFacts DEF ForceTimesOut, MapResult, JoinResult, Cleanups,
         Terminals
    <2>2. AnyForced'
      <3>1. cleanup' = [cleanup EXCEPT ![current] = o]
        BY <2>1 DEF Settle
      <3>2. current \in Components
        BY <1>11 DEF ForceTimesOut
      <3>. QED
        BY <3>1, <3>2, CoordinatorAssumption DEF TypeOK, AnyForced
    <2>. QED
      BY <1>11, <2>1, <2>2, Clocks DEF ForceTimesOut, Settle
  <1>12. CASE Report
    <2>1. AnyForced' <=> AnyForced
      BY <1>12 DEF Report, clockVars, AnyForced
    <2>. QED
      BY <1>12, <2>1, Clocks DEF Report, clockVars
  <1>13. CASE RequestForce
    <2>1. AnyForced' <=> AnyForced
      BY <1>13 DEF RequestForce, clockVars, AnyForced
    <2>. QED
      BY <1>13, <2>1, Clocks DEF RequestForce, clockVars
  <1>14. CASE DropExecution
    BY <1>14 DEF DropExecution
  <1>15. ASSUME NEW d \in Components, TaskEnds(d) PROVE TimeInv'
    <2>1. AnyForced' <=> AnyForced
      BY <1>15 DEF TaskEnds, clockVars, AnyForced
    <2>. QED
      BY <1>15, <2>1, Clocks DEF TaskEnds, clockVars
  <1>16. CASE Tick
    <2>1. AnyForced' <=> AnyForced
      BY <1>16 DEF Tick, clockVars, AnyForced
    <2>. QED
      BY <1>16, <2>1, Clocks DEF Tick, clockVars
  <1>17. CASE UNCHANGED vars
    BY <1>17 DEF vars, AnyForced
  <1>. QED
    BY <1>1, <1>2, <1>3, <1>4, <1>5, <1>6, <1>7, <1>8, <1>9, <1>10, <1>11,
       <1>12, <1>13, <1>14, <1>15, <1>16, <1>17 DEF Next, Coordinate

-----------------------------------------------------------------------------
(* The report                                                              *)

\* An execution forces a component it has not decided about, and decides
\* about it when the force handle is done.
LEMMA ForceStep ==
    ASSUME TypeOK, AwaitInv, VisitInv, ForceInv, [Next]_vars
    PROVE  ForceInv'
PROOF
  <1>. USE CoordinatorAssumption DEF ForceInv, clockVars, adapterVars
  <1>1. CASE Execute
    BY <1>1 DEF Execute
  <1>2. CASE NextPhase
    BY <1>2 DEF NextPhase
  <1>3. CASE RunComponent
    BY <1>3 DEF RunComponent, StartGraceful
  <1>4. CASE ActionReturns \/ TasksJoined
    <2>1. /\ current \in Components /\ cleanup[current] = None /\ step = "graceful"
          /\ UNCHANGED <<forcedIn, drops, report, current>>
      BY <1>4 DEF ActionReturns, TasksJoined, Conclude, Accept, Divert, AwaitInv, VisitInv
    <2>2. forcedIn[current] # drops
      BY <2>1
    <2>3. CASE cleanup' = [cleanup EXCEPT ![current] = "notAttempted"] /\ step' = "select"
      BY <2>1, <2>2, <2>3 DEF TypeOK
    <2>4. CASE cleanup' = cleanup /\ step' = "force"
      BY <2>1, <2>2, <2>4 DEF TypeOK
    <2>. QED
      BY <1>4, <2>3, <2>4 DEF ActionReturns, TasksJoined, Conclude, Accept, Divert
  <1>5. CASE GracefulTimesOut \/ ForceCancels
    BY <1>5 DEF GracefulTimesOut, ForceCancels, DropFuture, Divert
  <1>6. CASE RunForced
    <2>1. current \in Components /\ step = "force"
      BY <1>6 DEF RunForced, AwaitInv
    <2>2. ASSUME NEW o \in {"unavailable", "timedOut"}, Settle(current, o), UNCHANGED forcedIn
          PROVE  ForceInv'
      BY <2>1, <2>2 DEF Settle, TypeOK, Cleanups
    <2>3. CASE StartForce(current) /\ step' = "forced" /\ UNCHANGED <<current, cleanup, report, drops>>
      BY <2>1, <2>3, Bounds DEF StartForce, TypeOK
    <2>. QED
      BY <1>6, <2>2, <2>3 DEF RunForced
  <1>7. CASE ForceReturns \/ TasksReaped \/ ForceTimesOut
    <2>1. current \in Components /\ step = "forced" /\ UNCHANGED forcedIn
      BY <1>7 DEF ForceReturns, TasksReaped, ForceTimesOut, DropFuture, AwaitInv
    <2>2. PICK o \in Cleanups \ {"notAttempted"} : Settle(current, o)
      <3>1. CASE ForceReturns
        <4>1. PICK t \in Outcomes(handle[current]) : Settle(current, MapResult(t))
          BY <3>1 DEF ForceReturns
        <4>2. handle[current] \in Closures /\ handle[current] \in {"running"} \cup Terminals
          BY <2>1, <3>1 DEF ForceReturns, AwaitInv, TypeOK
        <4>3. t \in Terminals
          BY <4>1, <4>2, ClosureFacts
        <4>. QED
          BY <4>1, <4>3 DEF MapResult, Terminals, Cleanups
      <3>2. CASE TasksReaped \/ ForceTimesOut
        BY <3>2 DEF TasksReaped, ForceTimesOut, JoinResult, Cleanups
      <3>. QED
        BY <1>7, <3>1, <3>2
    <2>. QED
      BY <2>1, <2>2 DEF Settle, TypeOK
  <1>8. CASE Report
    BY <1>8 DEF Report
  <1>9. CASE DropExecution
    <2>1. /\ step \in {"graceful", "forced"} /\ step' = "idle" /\ drops' = drops + 1
          /\ UNCHANGED <<forcedIn, report>> /\ report = None
      BY <1>9 DEF DropExecution, DropFuture
    <2>2. ASSUME NEW c \in Components, forcedIn[c] # None
          PROVE  forcedIn[c] <= drops' /\ forcedIn[c] # drops'
      BY <2>1, <2>2, Bounds DEF TypeOK
    <2>3. drops' # None
      BY <2>1, Bounds DEF TypeOK
    <2>. QED
      BY <2>1, <2>2, <2>3
  <1>10. CASE RequestForce \/ Tick \/ UNCHANGED vars \/ \E d \in Components : TaskEnds(d)
    BY <1>10 DEF RequestForce, Tick, vars, TaskEnds
  <1>. QED
    BY <1>1, <1>2, <1>3, <1>4, <1>5, <1>6, <1>7, <1>8, <1>9, <1>10 DEF Next, Coordinate

\* A component that ended stays ended, and is recorded completed only then.
LEMMA TruthStep ==
    ASSUME TypeOK, AwaitInv, ForceInv, TruthInv, [Next]_vars
    PROVE  TruthInv'
PROOF
  <1>0. ASSUME step # "done", report' = report PROVE ReportIsTruthful'
    BY <1>0, CoordinatorAssumption DEF ForceInv, ReportIsTruthful, Completions
  <1>. USE DEF TruthInv, Ended, AwaitInv, clockVars, adapterVars
  <1>1. CASE Execute
    BY <1>0, <1>1, CoordinatorAssumption DEF Execute, Statuses, Cleanups
  <1>2. CASE NextPhase
    BY <1>0, <1>2 DEF NextPhase
  <1>3. CASE RunComponent
    <2>. DEFINE c == Selected
    <2>1. c \in Components
      BY <1>3, SelectedInPhase DEF RunComponent
    <2>. HIDE DEF c
    <2>2. CASE force \/ Budget(c) = 0
      BY <1>0, <1>3, <2>1, <2>2 DEF RunComponent, c, TypeOK
    <2>3. CASE ~(force \/ Budget(c) = 0)
      <3>1. StartGraceful(c)
        BY <1>3, <2>3 DEF RunComponent, c
      <3>. QED
        BY <1>0, <1>3, <2>1, <2>3, <3>1, StartGracefulEffect DEF RunComponent, c
    <2>. QED
      BY <2>2, <2>3
  <1>4. CASE ActionReturns
    <2>1. PICK t \in Outcomes(graceful[current]) :
             /\ graceful' = [graceful EXCEPT ![current] = t]
             /\ Conclude(current, MapResult(t))
      BY <1>4 DEF ActionReturns
    <2>2. /\ current \in Components /\ graceful[current] \in Closures
          /\ graceful[current] = "completed" => t = "completed"
      BY <1>4, <2>1, ClosureFacts DEF ActionReturns, TypeOK
    <2>3. \A c \in Components : graceful[c] = "completed" => graceful'[c] = "completed"
      BY <2>1, <2>2 DEF TypeOK
    <2>4. MapResult(t) = "completed" => graceful'[current] = "completed"
      BY <2>1, <2>2 DEF MapResult, TypeOK
    <2>5. KindOf[current] # "tasks" /\ UNCHANGED <<handle, live>> /\ ReportIsTruthful'
      BY <1>0, <1>4, <2>1 DEF ActionReturns, Conclude, Accept, Divert
    <2>6. CASE MapResult(t) = "completed"
      BY <2>1, <2>2, <2>3, <2>4, <2>5, <2>6 DEF Conclude, Accept, TypeOK
    <2>7. CASE MapResult(t) # "completed"
      BY <2>1, <2>2, <2>3, <2>5, <2>7 DEF Conclude, Divert, TypeOK
    <2>. QED
      BY <2>6, <2>7
  <1>5. CASE TasksJoined
    BY <1>0, <1>5 DEF TasksJoined, Conclude, Accept, Divert, Joined, TypeOK
  <1>6. CASE GracefulTimesOut
    <2>1. /\ current \in Components /\ DropFuture(current)
          /\ Divert(current, "timedOut") /\ ReportIsTruthful'
      BY <1>0, <1>6 DEF GracefulTimesOut, Divert
    <2>. QED
      BY <2>1, DropEffect DEF Divert, TypeOK
  <1>7. CASE ForceCancels
    <2>1. current \in Components /\ DropFuture(current) /\ ReportIsTruthful'
      BY <1>0, <1>7 DEF ForceCancels, Divert
    <2>. QED
      BY <1>7, <2>1, DropEffect DEF ForceCancels, Divert, TypeOK
  <1>8. CASE RunForced
    <2>1. current \in Components /\ ReportIsTruthful'
      BY <1>0, <1>8 DEF RunForced, Settle
    <2>2. CASE StartForce(current) /\ UNCHANGED <<status, cleanup, report>>
      BY <2>1, <2>2, StartForceEffect
    <2>3. CASE UNCHANGED adapterVars /\ \E o \in {"unavailable", "timedOut"} : Settle(current, o)
      BY <2>1, <2>3 DEF Settle, TypeOK
    <2>. QED
      BY <1>8, <2>2, <2>3 DEF RunForced
  <1>9. CASE ForceReturns
    <2>1. PICK t \in Outcomes(handle[current]) :
             /\ handle' = [handle EXCEPT ![current] = t]
             /\ Settle(current, MapResult(t))
      BY <1>9 DEF ForceReturns
    <2>2. /\ current \in Components /\ handle[current] \in Closures
          /\ handle[current] = "completed" => t = "completed"
      BY <1>9, <2>1, ClosureFacts DEF ForceReturns, TypeOK
    <2>3. \A c \in Components : handle[c] = "completed" => handle'[c] = "completed"
      BY <2>1, <2>2 DEF TypeOK
    <2>4. MapResult(t) = "completed" => handle'[current] = "completed"
      BY <2>1, <2>2 DEF MapResult, TypeOK
    <2>5. KindOf[current] # "tasks" /\ UNCHANGED <<graceful, live, status>> /\ ReportIsTruthful'
      BY <1>0, <1>9, <2>1 DEF ForceReturns, Settle
    <2>. QED
      BY <2>1, <2>2, <2>3, <2>4, <2>5 DEF Settle, TypeOK
  <1>10. CASE TasksReaped
    BY <1>0, <1>10 DEF TasksReaped, Settle, Joined, TypeOK
  <1>11. CASE ForceTimesOut
    <2>1. current \in Components /\ DropFuture(current) /\ ReportIsTruthful'
      BY <1>0, <1>11 DEF ForceTimesOut, Settle
    <2>. QED
      BY <1>11, <2>1, DropEffect DEF ForceTimesOut, Settle, TypeOK
  <1>12. CASE Report
    <2>1. CASE Completion = "incomplete"
      BY <1>12, <2>1 DEF Report, ReportIsTruthful
    <2>2. CASE Completion \in {"graceful", "forced"}
      <3>1. \A c \in Components : Ended(c)
        BY <2>2 DEF Completion, TerminalComplete
      <3>2. Completion = "graceful" =>
              \A c \in Components : KindOf[c] # "tasks" => graceful[c] = "completed"
        BY <2>2 DEF Completion, TerminalComplete, ForcePathUsed
      <3>3. Completion = "graceful" => \A c \in Components : forcedIn[c] # drops
        BY <1>12, <2>2 DEF Completion, ForcePathUsed, ForceInv, Report
      <3>. QED
        BY <1>12, <2>2, <3>1, <3>2, <3>3 DEF Report, ReportIsTruthful
    <2>. QED
      BY <2>1, <2>2 DEF Completion
  <1>13. CASE RequestForce
    BY <1>13 DEF RequestForce, ReportIsTruthful
  <1>14. CASE DropExecution
    <2>1. current \in Components /\ DropFuture(current) /\ ReportIsTruthful'
      BY <1>0, <1>14 DEF DropExecution
    <2>. QED
      BY <1>14, <2>1, DropEffect DEF DropExecution
  <1>15. ASSUME NEW d \in Components, TaskEnds(d) PROVE TruthInv'
    BY <1>15 DEF TaskEnds, TypeOK, ReportIsTruthful
  <1>16. CASE Tick
    BY <1>16 DEF Tick, ReportIsTruthful
  <1>17. CASE UNCHANGED vars
    BY <1>17 DEF vars, ReportIsTruthful
  <1>. QED
    BY <1>1, <1>2, <1>3, <1>4, <1>5, <1>6, <1>7, <1>8, <1>9, <1>10, <1>11,
       <1>12, <1>13, <1>14, <1>15, <1>16, <1>17 DEF Next, Coordinate

-----------------------------------------------------------------------------
(* The theorems                                                            *)

IInv == TypeOK /\ AwaitInv /\ OnceInv /\ VisitInv /\ TimeInv /\ ForceInv /\ TruthInv

\* The invariant holds before the coordinator executes.
LEMMA InitIInv ==
    Init => IInv
PROOF
  <1>. SUFFICES ASSUME Init PROVE IInv
    OBVIOUS
  <1>1. TypeOK
    <2>1. /\ graceful \in [Components -> Closures]
          /\ handle \in [Components -> Closures]
      BY DEF Init, Closures
    <2>2. live \in [Components -> 0..TaskCount]
      BY Bounds DEF Init
    <2>3. /\ calls \in [Components -> [graceful : Nat, force : Nat]]
          /\ failed \in [Components -> BOOLEAN]
          /\ forcedIn \in [Components -> 0..MaxDrops \cup {None}]
          /\ limits \in [start : Nat, graceful : Nat, hard : Nat, reserve : Nat]
      BY DEF Init
    <2>4. index \in 0..ComponentCount /\ drops \in 0..MaxDrops
      BY Bounds DEF Init
    <2>5. /\ status \in [Components -> Statuses \cup {None}]
          /\ cleanup \in [Components -> Cleanups \cup {None}]
      BY DEF Init
    <2>6. /\ force \in BOOLEAN /\ attached \in Attached
          /\ current \in Components \cup {None}
          /\ report \in Completions \cup {None}
      BY Zenon DEF Init
    <2>7. now \in Nat /\ until \in Nat /\ phase \in Phases /\ step \in Steps
      BY DEF Init, Phases, Steps
    <2>. QED
      BY <2>1, <2>2, <2>3, <2>4, <2>5, <2>6, <2>7 DEF TypeOK
  <1>2. AwaitInv
    BY CoordinatorAssumption DEF Init, AwaitInv, Kinds
  <1>3. OnceInv
    BY DEF Init, OnceInv
  <1>4. VisitInv /\ TimeInv
    BY DEF Init, VisitInv, TimeInv, EndsInTime, Running
  <1>5. TruthInv
    BY CoordinatorAssumption DEF Init, TruthInv, ReportIsTruthful, Statuses,
       Cleanups, Completions
  <1>6. ForceInv
    BY CoordinatorAssumption DEF Init, ForceInv
  <1>. QED
    BY <1>1, <1>2, <1>3, <1>4, <1>5, <1>6 DEF IInv

\* The inductive invariant holds in every state of every behaviour.
THEOREM Inductive == Spec => []IInv
PROOF
  <1>1. IInv /\ [Next]_vars => IInv'
    BY TypeStep, AwaitStep, OnceStep, VisitStep, TimeStep, ForceStep,
       TruthStep DEF IInv
  <1>. QED
    BY <1>1, InitIInv, PTL DEF Spec

\* Type correctness: no deadline arithmetic leaves the naturals, and no
\* status is ever one the report has no name for.
THEOREM TypeCorrect == Spec => []TypeOK
PROOF
  <1>1. IInv => TypeOK
    BY DEF IInv
  <1>. QED
    BY <1>1, Inductive, PTL

\* The coordinator is never found working past the hard deadline of its
\* execution, whatever hangs, in whatever order.
THEOREM NeverLate == Spec => []EndsInTime
PROOF
  <1>1. IInv => EndsInTime
    BY DEF IInv, TimeInv
  <1>. QED
    BY <1>1, Inductive, PTL

\* The first component that has to be forced finds the whole force reserve.
THEOREM ReserveSurvivesGraceful == Spec => []ReserveIsKept
PROOF
  <1>1. IInv => ReserveIsKept
    BY Clocks DEF IInv, TimeInv, Running, ReserveIsKept
  <1>. QED
    BY <1>1, Inductive, PTL

\* take() is honoured across timeouts, force and dropped executions: each
\* closure of a ShutdownAction is invoked at most once.
THEOREM ActionsAreOneShot == Spec => []ClosuresRunOnce
PROOF
  <1>1. IInv => ClosuresRunOnce
    BY DEF IInv, OnceInv, ClosuresRunOnce
  <1>. QED
    BY <1>1, Inductive, PTL

\* A report of a complete shutdown is true of every component; a graceful
\* one comes from graceful closures and an execution without a force handle.
THEOREM ReportsAreTruthful == Spec => []ReportIsTruthful
PROOF
  <1>1. IInv => ReportIsTruthful
    BY DEF IInv, TruthInv
  <1>. QED
    BY <1>1, Inductive, PTL
=============================================================================
